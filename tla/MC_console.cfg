SPECIFICATION Spec
CONSTANTS
  s1 = s1
  s2 = s2
  t1 = t1
  t2 = t2
  x = x
  y = y
  Sessions = {s1, s2}
  Tasks = {t1, t2}
  Adapters = {"claude", "codex"}
  ForkingAdapters = {"claude"}
  Texts = {x}
  MaxSoft = 1
  MaxRuns = 2
  MaxAmends = 2
  MaxFaults = 1
INVARIANTS TypeOK SoftKeptUntilTold PromotedOnce FollowsBoundRun
VIEW WithoutSwitches
SYMMETRY SessionsAndTasks
CHECK_DEADLOCK FALSE
