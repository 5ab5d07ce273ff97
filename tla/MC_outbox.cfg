SPECIFICATION FairSpec
CONSTANTS
  c1 = c1
  c2 = c2
  c3 = c3
  c4 = c4
  k1 = k1
  k2 = k2
  NoKeyValue = NoKeyValue
  Clients = {c1, c2, c3, c4}
  Requests <- AllRequests
  Keys = {k1}
  NoKey = NoKeyValue
  RequestOf <- RunRequests
  KeyOf <- RunKeys
  CasClients = {c2}
  InitialState = "assigned"
  SerialKeys = TRUE
  MaxFailures = 2
  MaxCrashes = 2
  MaxGiveUps = 2
INVARIANTS TypeOK IntentBeforeAct OutboxMatchesAudit CasRetriesReuseIntent AnsweredIsDurable RecordsMatchAudit
PROPERTIES KeysTakeEffectOnce EveryCallerIsAnswered
CHECK_DEADLOCK FALSE
