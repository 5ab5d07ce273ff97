SPECIFICATION FairSpec
CONSTANTS
  p1 = p1
  p2 = p2
  Projectors = {p1, p2}
  AgentCursors = {}
  MaxEvents = 3
  MaxFaults = 1
INVARIANTS TypeOK
PROPERTIES DeliversReliably EveryEventIsProjected
CHECK_DEADLOCK FALSE
