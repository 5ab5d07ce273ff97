SPECIFICATION Spec
CONSTANTS
  alice = alice
  bob = bob
  carol = carol
  devin = devin
  codex = codex
  Principal = alice
  Humans = {alice}
  Agents = {devin, codex}
  Calls = {c1, c2}
  Overlap = TRUE
  Requests = {q1}
  RequiredReviewers <- NoPolicy
  Quorum = "all"
  EnabledOps <- AllOps
  EnabledVias = {"handoff"}
  MaxRevision = 4
  MaxReviews = 2
INVARIANTS ChainLinked BlockedHasOpenCheckpoint OneEventPerRevision AuditReplaysToState
PROPERTIES TerminalIsFinal
CHECK_DEADLOCK FALSE
