SPECIFICATION Spec
CONSTANTS
  t1 = t1
  t2 = t2
  a1 = a1
  a2 = a2
  q1 = q1
  g1 = g1
  Tasks = {t1, t2}
  c1 = c1
  c2 = c2
  Callers = {c1, c2}
  AgentIds = {a1, a2}
  Signatures = {q1}
  SubAgents = {g1}
  Setups <- SafeSetups
  MaxTurns = 3
  MaxFailures = 1
INVARIANTS TypeOK SessionsDoNotMix SessionHoldsRun ObservedInOrder ProgressIsReplay
PROPERTIES RunKeepsTask
SYMMETRY Symmetric
CHECK_DEADLOCK FALSE
