SPECIFICATION Spec
CONSTANTS
  alice = alice
  bob = bob
  carol = carol
  devin = devin
  codex = codex
  Principal = alice
  Humans = {alice}
  Agents = {devin}
  Calls = {c1}
  Overlap = FALSE
  Requests = {q1}
  RequiredReviewers <- NoPolicy
  Quorum = "all"
  EnabledOps <- LateCancelOps
  EnabledVias = {"handoff"}
  MaxRevision = 6
  MaxReviews = 2
INVARIANTS WorkOnLiveRun
CHECK_DEADLOCK FALSE
