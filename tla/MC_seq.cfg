SPECIFICATION Spec
CONSTANTS
  alice = alice
  bob = bob
  carol = carol
  devin = devin
  codex = codex
  Principal = alice
  Humans = {alice}
  Agents = {devin, codex}
  Calls = {c1}
  Overlap = FALSE
  Requests = {q1}
  RequiredReviewers <- NoPolicy
  Quorum = "all"
  EnabledOps <- AllOps
  EnabledVias = {"handoff"}
  MaxRevision = 6
  MaxReviews = 2
INVARIANTS TypeOK PendingIsAnswerable CancelStopsRun
PROPERTIES CallsTakeEffectAtOnce AnswerIsFinal AnswerReturnsToHolder
CHECK_DEADLOCK FALSE
