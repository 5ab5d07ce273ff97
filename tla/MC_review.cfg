SPECIFICATION Spec
CONSTANTS
  alice = alice
  bob = bob
  carol = carol
  devin = devin
  codex = codex
  Principal = alice
  Humans = {alice, bob, carol}
  Agents = {devin}
  Calls = {c1}
  Overlap = FALSE
  Requests = {q1}
  RequiredReviewers <- Panel
  Quorum = "majority"
  EnabledOps <- ReviewOps
  EnabledVias = {"handoff"}
  MaxRevision = 7
  MaxReviews = 3
INVARIANTS DeliveryIsEndorsed UnderReviewIsUndecided
CHECK_DEADLOCK FALSE
