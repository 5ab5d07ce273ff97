SPECIFICATION Spec
CONSTANTS
  c1 = c1
  c2 = c2
  c3 = c3
  c4 = c4
  k1 = k1
  k2 = k2
  NoKeyValue = NoKeyValue
  Clients = {c1, c2, c3}
  Requests <- AllRequests
  Keys = {k1, k2}
  NoKey = NoKeyValue
  RequestOf <- DuplicateRequests
  KeyOf <- DuplicateKeys
  CasClients = {}
  InitialState = "in_progress"
  SerialKeys = FALSE
  MaxFailures = 0
  MaxCrashes = 0
  MaxGiveUps = 1
INVARIANTS KeyTakesEffectOnce
CHECK_DEADLOCK FALSE
