SPECIFICATION Spec
CONSTANTS
  s1 = s1
  s2 = s2
  t1 = t1
  t2 = t2
  x = x
  y = y
  Sessions = {s1, s2}
  Tasks = {t1, t2}
  Adapters = {"claude", "codex"}
  ForkingAdapters = {"claude"}
  Texts = {x}
  MaxSoft = 1
  MaxRuns = 2
  MaxAmends = 1
  MaxFaults = 2
SYMMETRY SessionsAndTasks
INVARIANT SwitchInforms
CHECK_DEADLOCK FALSE
