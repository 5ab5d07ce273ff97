--------------------------- MODULE HLPAudit_proofs ---------------------------
(***************************************************************************)
(* The record of a task in HLPOperations, for any number of callers: the   *)
(* audit log replays to the task's state by legal moves and accounts for   *)
(* every revision exactly once, and the stored reviews justify the state   *)
(* that a review has put the task in, for any panel and quorum.            *)
(***************************************************************************)
EXTENDS HLPOperations_proofs, FiniteSetTheorems

\* A log that explains a task in state s.
Explains(log, s) ==
  /\ log \in Seq(AuditEvent) /\ Len(log) > 0
  /\ log[Len(log)].state = s
  /\ \A i \in 1 .. Len(log) - 1 : HandlerMove(log[i].state, log[i+1].state)

\* A log that accounts for the revisions before r, once each, and no other.
Accounts(log, r) ==
  /\ \A i \in 1 .. Len(log) :
       /\ log[i].revision <= r
       /\ OperationEvent(log[i]) => log[i].revision < r
  /\ \A q \in 0 .. r - 1 :
       \E i \in 1 .. Len(log) : log[i].revision = q /\ OperationEvent(log[i])
  /\ \A i, j \in 1 .. Len(log) :
       /\ i < j => log[i].revision <= log[j].revision
       /\ i < j /\ OperationEvent(log[i]) /\ OperationEvent(log[j])
            => log[i].revision < log[j].revision

AuditInv == Explains(audit, state) /\ Accounts(audit, revision)

\* An event that describes what the step has done to the task.
Describes(e) ==
  /\ e \in AuditEvent
  /\ e.state = state'
  /\ e.revision = revision

\* What one step may do to the log: nothing; note a comment; or log one
\* operation, perhaps with a second event of the same call, and advance the
\* revision.
LogStep ==
  \/ UNCHANGED <<state, audit, revision>>
  \/ \E e : /\ Describes(e) /\ ~OperationEvent(e)
            /\ audit' = Append(audit, e)
            /\ UNCHANGED <<state, revision>>
  \/ \E e, f :
       /\ Describes(e) /\ OperationEvent(e)
       /\ HandlerMove(state, state')
       /\ revision' = revision + 1
       /\ \/ audit' = Append(audit, e)
          \/ /\ Describes(f) /\ ~OperationEvent(f)
             /\ audit' = Append(Append(audit, e), f)
-----------------------------------------------------------------------------
\* The moves the handlers make, by the state they leave.
LEMMA HandlerMoves ==
  ASSUME state \in TaskState
  PROVE  /\ \A target : LegalTransition(state, target) => HandlerMove(state, target)
         /\ HandlerMove(state, state)
         /\ state = "assigned" => HandlerMove(state, "in_progress")
         /\ state = "in_progress" => HandlerMove(state, "review_ready")
         /\ state \in {"review_ready", "under_review"} =>
              \A target \in {"in_progress", "completed", "rejected", "under_review"} :
                HandlerMove(state, target)
BY DEF TaskState, HandlerMove, LegalTransition, LEGAL_TRANSITIONS

\* An operation that logs one event makes a LogStep.
LEMMA CommitOneLogs ==
  ASSUME IInv, IInv', NEW action \in AuditAction,
         action \notin {"task.created", "task.completed", "review.commented"},
         NEW by \in {"actor", "system"},
         action = "task.checkpoint.raised" => by = "actor",
         HandlerMove(state, state'), Commit(<<Event(action, by)>>)
  PROVE  LogStep
<1> DEFINE e == Event(action, by)
<1>1. e \in AuditEvent
  BY EventType DEF IInv, Log, Ownership
<1>2. Describes(e) /\ OperationEvent(e)
  BY <1>1 DEF Describes, OperationEvent, Event
<1> HIDE DEF e
<1>3. audit' = audit \o <<e>> /\ revision' = revision + 1
  BY DEF Commit, e
<1>4. audit' = Append(audit, e)
  BY <1>1, <1>3 DEF IInv, Log
<1> QED
  BY <1>2, <1>3, <1>4 DEF LogStep

LEMMA CommitTwoLogs ==
  ASSUME IInv, IInv', NEW action \in {"task.interrupted", "review.submitted"},
         NEW second \in {"task.checkpoint.raised", "task.completed"},
         HandlerMove(state, state'),
         Commit(<<Event(action, "actor"), Event(second, "system")>>)
  PROVE  LogStep
<1> DEFINE e == Event(action, "actor")
           f == Event(second, "system")
<1>1. e \in AuditEvent /\ f \in AuditEvent
  BY EventType DEF IInv, Log, Ownership, AuditAction
<1>2. Describes(e) /\ OperationEvent(e)
  BY <1>1 DEF Describes, OperationEvent, Event
<1>3. Describes(f) /\ ~OperationEvent(f)
  BY <1>1 DEF Describes, OperationEvent, Event
<1> HIDE DEF e, f
<1>4. audit' = audit \o <<e, f>> /\ revision' = revision + 1
  BY DEF Commit, e, f
<1>5. audit' = Append(Append(audit, e), f)
  BY <1>1, <1>4 DEF IInv, Log
<1> QED
  BY <1>2, <1>3, <1>4, <1>5 DEF LogStep

LEMMA AwaitingStepLogs ==
  ASSUME IInv, IInv', NEW c \in Calls, AwaitingStep(c)
  PROVE  LogStep
<1> USE HandlerMoves, CommitOneLogs DEF IInv
<1>1. ASSUME NEW local, Await(c, local)
      PROVE  LogStep
  BY <1>1 DEF Await, taskVars, LogStep
<1>2. BeginAssign(c) \/ BeginCancel(c) \/ BeginAmend(c) \/ BeginResolve(c)
      \/ BeginHandoff(c) \/ BeginDelegate(c) => LogStep
  BY <1>1 DEF BeginAssign, BeginCancel, BeginAmend, BeginResolve, BeginHandoff,
              BeginDelegate
<1>3. \A op : BeginBlock(c, op) => LogStep
  BY <1>1 DEF BeginBlock
<1>4. Refused => LogStep
  BY DEF Refused, LogStep
<1>5. CASE FinishAssign(c)
  BY <1>4, <1>5 DEF FinishAssign, AuditAction
<1>6. CASE FinishCancel(c)
  BY <1>4, <1>6 DEF FinishCancel, CloseTask, AuditAction
<1>7. CASE FinishAmend(c)
  BY <1>4, <1>7 DEF FinishAmend, AuditAction
<1>8. CASE FinishBlock(c)
  BY <1>4, <1>8, CommitTwoLogs DEF FinishBlock, AuditAction
<1>9. CASE FinishResolve(c)
  BY <1>4, <1>9 DEF FinishResolve, AuditAction
<1>10. CASE FinishHandoff(c) \/ FinishDelegate(c)
  BY <1>10 DEF FinishHandoff, FinishDelegate, AuditAction
<1>11. AdapterFails(c) => LogStep
  BY DEF AdapterFails, taskVars, LogStep
<1> QED
  BY <1>2, <1>3, <1>5, <1>6, <1>7, <1>8, <1>9, <1>10, <1>11 DEF AwaitingStep

LEMMA LocalStepLogs ==
  ASSUME IInv, IInv', LocalStep
  PROVE  LogStep
<1> USE HandlerMoves, CommitOneLogs DEF IInv
<1>1. CASE Start
  BY <1>1 DEF Start, AuditAction
<1>2. CASE CancelUnbound
  BY <1>2 DEF CancelUnbound, CloseTask, Refused, LogStep, AuditAction
<1>3. ASSUME NEW n \in DOMAIN checkpoints, Expire(n)
      PROVE  LogStep
  BY <1>3 DEF Expire, AuditAction
<1>4. ASSUME NEW to \in Actors, NEW via \in EnabledVias, TransferLocally(to, via)
      PROVE  LogStep
  BY <1>4 DEF TransferLocally, AuditAction
<1>5. CASE CommitArtifact
  BY <1>5 DEF CommitArtifact, AuditAction
<1>6. ASSUME NEW n \in 1 .. artifacts, NEW reviewer \in Humans,
             NEW kind \in ReviewKind, NEW verdict \in ReviewVerdict,
             SubmitReview(n, reviewer, kind, verdict)
      PROVE  LogStep
  <2> DEFINE first == Event("review.submitted", "actor")
             second == Event("task.completed", "system")
  <2>1. /\ state \in {"review_ready", "under_review"}
        /\ state' \in {"in_progress", "completed", "rejected", "under_review"}
    BY <1>6 DEF SubmitReview
  <2>2. HandlerMove(state, state')
    BY <2>1
  <2>3. \/ Commit(<<first>>)
        \/ Commit(<<first, second>>)
    BY <1>6 DEF SubmitReview
  <2>4. CASE Commit(<<first>>)
    BY <2>2, <2>4 DEF AuditAction
  <2>5. CASE Commit(<<first, second>>)
    BY <2>2, <2>5, CommitTwoLogs
  <2> QED
    BY <2>3, <2>4, <2>5
<1>7. ASSUME NEW n \in DOMAIN reviews, NEW by \in Actors, CommentReview(n, by)
      PROVE  LogStep
  <2> DEFINE e == Event("review.commented", "actor")
  <2>1. e \in AuditEvent
    BY EventType DEF Log, Ownership, AuditAction
  <2>2. Describes(e) /\ ~OperationEvent(e)
    BY <2>1 DEF Describes, OperationEvent, Event
  <2>3. audit' = Append(audit, e) /\ UNCHANGED <<state, revision>>
    BY <1>7 DEF CommentReview
  <2> HIDE DEF e
  <2> QED
    BY <2>2, <2>3 DEF LogStep
<1> QED
  BY <1>1, <1>2, <1>3, <1>4, <1>5, <1>6, <1>7 DEF LocalStep
-----------------------------------------------------------------------------
\* What appending an event does to a log.
LEMMA AppendedLog ==
  ASSUME NEW log \in Seq(AuditEvent), NEW e \in AuditEvent
  PROVE  /\ Append(log, e) \in Seq(AuditEvent)
         /\ Len(log) \in Nat /\ Len(Append(log, e)) = Len(log) + 1
         /\ Append(log, e)[Len(log) + 1] = e
         /\ \A i \in 1 .. Len(log) : Append(log, e)[i] = log[i]
         /\ \A i \in 1 .. Len(log) : log[i].revision \in Nat
         /\ e.revision \in Nat
<1>1. \A i \in 1 .. Len(log) : log[i] \in AuditEvent
  BY ElementOfSeq
<1> QED
  BY <1>1 DEF AuditEvent

LEMMA AppendExplains ==
  ASSUME NEW log, NEW s, Explains(log, s), NEW e \in AuditEvent,
         HandlerMove(s, e.state)
  PROVE  Explains(Append(log, e), e.state)
<1> DEFINE longer == Append(log, e)
<1>1. log \in Seq(AuditEvent) /\ Len(log) > 0
  BY DEF Explains
<1>2. /\ longer \in Seq(AuditEvent)
      /\ Len(log) \in Nat /\ Len(longer) = Len(log) + 1
      /\ longer[Len(log) + 1] = e
      /\ \A i \in 1 .. Len(log) : longer[i] = log[i]
  BY <1>1, AppendedLog
<1> HIDE DEF longer
<1>3. ASSUME NEW i \in 1 .. Len(longer) - 1
      PROVE  HandlerMove(longer[i].state, longer[i+1].state)
  <2>1. CASE i = Len(log)
    BY <1>1, <1>2, <2>1 DEF Explains
  <2>2. CASE i # Len(log)
    <3>1. i \in 1 .. Len(log) - 1 /\ i + 1 \in 1 .. Len(log)
      BY <1>2, <2>2
    <3> QED
      BY <1>2, <3>1 DEF Explains
  <2> QED
    BY <2>1, <2>2
<1>4. Explains(longer, e.state)
  BY <1>1, <1>2, <1>3 DEF Explains
<1> QED
  BY <1>4 DEF longer

\* A note: its revision is none the log has gone beyond.
LEMMA NoteAccounts ==
  ASSUME NEW log \in Seq(AuditEvent), NEW r \in Nat, Accounts(log, r),
         NEW e \in AuditEvent, ~OperationEvent(e), e.revision <= r,
         \A i \in 1 .. Len(log) : log[i].revision <= e.revision
  PROVE  Accounts(Append(log, e), r)
<1> DEFINE longer == Append(log, e)
<1>1. /\ Len(log) \in Nat /\ Len(longer) = Len(log) + 1
      /\ longer[Len(log) + 1] = e
      /\ \A i \in 1 .. Len(log) : longer[i] = log[i]
      /\ \A i \in 1 .. Len(log) : log[i].revision \in Nat
      /\ e.revision \in Nat
  BY AppendedLog
<1> HIDE DEF longer
<1>2. \A i \in 1 .. Len(longer) : i \in 1 .. Len(log) \/ i = Len(log) + 1
  BY <1>1
<1>3. \A i \in 1 .. Len(longer) :
         /\ longer[i].revision <= r
         /\ OperationEvent(longer[i]) => longer[i].revision < r
  BY <1>1, <1>2 DEF Accounts
<1>4. ASSUME NEW q \in 0 .. r - 1
      PROVE  \E i \in 1 .. Len(longer) :
               longer[i].revision = q /\ OperationEvent(longer[i])
  <2>1. PICK i \in 1 .. Len(log) : log[i].revision = q /\ OperationEvent(log[i])
    BY DEF Accounts
  <2>2. i \in 1 .. Len(longer) /\ longer[i] = log[i]
    BY <1>1
  <2> QED
    BY <2>1, <2>2
<1>5. ASSUME NEW i \in 1 .. Len(longer), NEW j \in 1 .. Len(longer), i < j
      PROVE  /\ longer[i].revision <= longer[j].revision
             /\ OperationEvent(longer[i]) /\ OperationEvent(longer[j])
                  => longer[i].revision < longer[j].revision
  <2>1. i \in 1 .. Len(log)
    BY <1>1, <1>5
  <2>2. CASE j = Len(log) + 1
    BY <1>1, <2>1, <2>2
  <2>3. CASE j \in 1 .. Len(log)
    BY <1>1, <1>5, <2>1, <2>3 DEF Accounts
  <2> QED
    BY <1>2, <2>2, <2>3
<1>6. Accounts(longer, r)
  BY <1>3, <1>4, <1>5 DEF Accounts
<1> QED
  BY <1>6 DEF longer

\* An operation: it accounts for the revision it advances.
LEMMA OperationAccounts ==
  ASSUME NEW log \in Seq(AuditEvent), NEW r \in Nat, Accounts(log, r),
         NEW e \in AuditEvent, OperationEvent(e), e.revision = r
  PROVE  /\ Accounts(Append(log, e), r + 1)
         /\ \A i \in 1 .. Len(Append(log, e)) : Append(log, e)[i].revision <= r
<1> DEFINE longer == Append(log, e)
<1>1. /\ Len(log) \in Nat /\ Len(longer) = Len(log) + 1
      /\ longer[Len(log) + 1] = e
      /\ \A i \in 1 .. Len(log) : longer[i] = log[i]
      /\ \A i \in 1 .. Len(log) : log[i].revision \in Nat
  BY AppendedLog
<1> HIDE DEF longer
<1>2. \A i \in 1 .. Len(longer) : i \in 1 .. Len(log) \/ i = Len(log) + 1
  BY <1>1
<1>3. \A i \in 1 .. Len(longer) : longer[i].revision <= r /\ longer[i].revision \in Nat
  BY <1>1, <1>2 DEF Accounts
<1>4. ASSUME NEW q \in 0 .. (r + 1) - 1
      PROVE  \E i \in 1 .. Len(longer) :
               longer[i].revision = q /\ OperationEvent(longer[i])
  <2>1. CASE q = r
    <3>1. Len(log) + 1 \in 1 .. Len(longer)
      BY <1>1
    <3> QED
      BY <1>1, <2>1, <3>1
  <2>2. CASE q # r
    <3>1. q \in 0 .. r - 1
      BY <2>2
    <3>2. PICK i \in 1 .. Len(log) : log[i].revision = q /\ OperationEvent(log[i])
      BY <3>1 DEF Accounts
    <3>3. i \in 1 .. Len(longer) /\ longer[i] = log[i]
      BY <1>1
    <3> QED
      BY <3>2, <3>3
  <2> QED
    BY <2>1, <2>2
<1>5. ASSUME NEW i \in 1 .. Len(longer), NEW j \in 1 .. Len(longer), i < j
      PROVE  /\ longer[i].revision <= longer[j].revision
             /\ OperationEvent(longer[i]) /\ OperationEvent(longer[j])
                  => longer[i].revision < longer[j].revision
  <2>1. i \in 1 .. Len(log)
    BY <1>1, <1>5
  <2>2. CASE j = Len(log) + 1
    BY <1>1, <2>1, <2>2 DEF Accounts
  <2>3. CASE j \in 1 .. Len(log)
    BY <1>1, <1>5, <2>1, <2>3 DEF Accounts
  <2> QED
    BY <1>2, <2>2, <2>3
<1>6. \A i \in 1 .. Len(longer) : longer[i].revision <= r + 1 /\ longer[i].revision < r + 1
  BY <1>3
<1>7. Accounts(longer, r + 1)
  BY <1>4, <1>5, <1>6 DEF Accounts
<1> QED
  BY <1>3, <1>7 DEF longer

LEMMA LogStepKeepsAuditInv ==
  ASSUME IInv, AuditInv, LogStep
  PROVE  AuditInv'
<1>1. audit \in Seq(AuditEvent) /\ revision \in Nat /\ state \in TaskState
  BY DEF IInv, Log
<1>2. Explains(audit, state) /\ Accounts(audit, revision)
  BY DEF AuditInv
<1>3. CASE UNCHANGED <<state, audit, revision>>
  BY <1>2, <1>3 DEF AuditInv
<1>4. ASSUME NEW e, Describes(e), ~OperationEvent(e), audit' = Append(audit, e),
             UNCHANGED <<state, revision>>
      PROVE  AuditInv'
  <2>1. e \in AuditEvent /\ e.state = state /\ e.revision = revision
    BY <1>4 DEF Describes
  <2>2. Explains(Append(audit, e), state)
    BY <1>1, <1>2, <2>1, AppendExplains, HandlerMoves
  <2>3. \A i \in 1 .. Len(audit) : audit[i].revision <= e.revision
    BY <1>2, <2>1 DEF Accounts
  <2>4. Accounts(Append(audit, e), revision)
    BY <1>1, <1>2, <1>4, <2>1, <2>3, NoteAccounts
  <2> QED
    BY <1>4, <2>2, <2>4 DEF AuditInv
<1>5. ASSUME NEW e, NEW f, Describes(e), OperationEvent(e),
             HandlerMove(state, state'), revision' = revision + 1,
             \/ audit' = Append(audit, e)
             \/ /\ Describes(f) /\ ~OperationEvent(f)
                /\ audit' = Append(Append(audit, e), f)
      PROVE  AuditInv'
  <2> DEFINE middle == Append(audit, e)
  <2>1. e \in AuditEvent /\ e.state = state' /\ e.revision = revision
    BY <1>5 DEF Describes
  <2>2. Explains(middle, state')
    BY <1>2, <1>5, <2>1, AppendExplains
  <2>3. /\ Accounts(middle, revision + 1)
        /\ \A i \in 1 .. Len(middle) : middle[i].revision <= revision
    BY <1>1, <1>2, <1>5, <2>1, OperationAccounts
  <2> HIDE DEF middle
  <2>4. CASE audit' = middle
    BY <1>5, <2>2, <2>3, <2>4 DEF AuditInv
  <2>5. CASE Describes(f) /\ ~OperationEvent(f) /\ audit' = Append(middle, f)
    <3>1. f \in AuditEvent /\ f.state = state' /\ f.revision = revision
      BY <2>5 DEF Describes
    <3>2. HandlerMove(state', f.state)
      BY <3>1 DEF HandlerMove, LegalTransition
    <3>3. Explains(Append(middle, f), state')
      BY <2>2, <3>1, <3>2, AppendExplains
    <3>4. middle \in Seq(AuditEvent)
      BY <2>2 DEF Explains
    <3>5. f.revision <= revision + 1 /\ revision + 1 \in Nat
      BY <1>1, <3>1
    <3>6. Accounts(Append(middle, f), revision + 1)
      BY <2>3, <2>5, <3>1, <3>4, <3>5, NoteAccounts
    <3> QED
      BY <1>5, <2>5, <3>3, <3>6 DEF AuditInv
  <2> QED
    BY <1>5, <2>4, <2>5 DEF middle
<1> QED
  BY <1>3, <1>4, <1>5 DEF LogStep

LEMMA InitEstablishesAuditInv == Init => AuditInv
<1> SUFFICES ASSUME Init PROVE AuditInv
  OBVIOUS
<1>1. audit \in Seq(AuditEvent) /\ IInv
  BY InitEstablishesIInv DEF IInv, Log
<1>2. /\ Len(audit) = 1 /\ audit[1].state = state /\ audit[1].revision = 0
      /\ audit[1].action = "task.created" /\ revision = 0
  BY DEF Init
<1>3. ~OperationEvent(audit[1])
  BY <1>2 DEF OperationEvent
<1> QED
  BY <1>1, <1>2, <1>3 DEF AuditInv, Explains, Accounts

LEMMA AuditInvariant == Spec => []AuditInv
<1>1. IInv /\ IInv' /\ AuditInv /\ [Next]_vars => AuditInv'
  <2> SUFFICES ASSUME IInv, IInv', AuditInv, [Next]_vars PROVE AuditInv'
    OBVIOUS
  <2>1. CASE UNCHANGED vars
    BY <2>1 DEF vars, taskVars, AuditInv
  <2>2. CASE Next
    BY <2>2, LocalStepLogs, AwaitingStepLogs, LogStepKeepsAuditInv DEF Next
  <2> QED
    BY <2>1, <2>2
<1> QED
  BY <1>1, InitEstablishesAuditInv, InductiveInvariant, PTL DEF Spec

\* The audit log shows a legal history that ends in the task's state: the
\* snapshots of consecutive events are one handler's move apart (_audit).
THEOREM AuditReplays == Spec => []AuditReplaysToState
<1>1. AuditInv => AuditReplaysToState
  BY DEF AuditInv, Explains, AuditReplaysToState
<1> QED
  BY <1>1, AuditInvariant, PTL

\* Every revision of the task has exactly one operation in the log, in the
\* order of the revisions (_audit and _commit_task_operation of one call are
\* not separated by another call).
THEOREM RevisionsAreExplained == Spec => []OneEventPerRevision
<1>1. AuditInv => OneEventPerRevision
  BY DEF AuditInv, Explains, Accounts, OneEventPerRevision
<1> QED
  BY <1>1, AuditInvariant, PTL
-----------------------------------------------------------------------------
\* Reviews: what the panel has said, read off any sequence of reviews.

\* A review that counts as the reviewer's word on version n.
Counts(review, n, reviewer) ==
  review.artifact = n /\ review.versioned /\ review.reviewer = reviewer

\* The reviewer's last word on version n, as a set with at most one element.
LastWord(rs, n, reviewer) ==
  {rs[i].verdict : i \in {i \in DOMAIN rs :
     /\ Counts(rs[i], n, reviewer)
     /\ \A j \in i+1 .. Len(rs) : ~Counts(rs[j], n, reviewer)}}

\* The seats whose last word on version n is this verdict.
SeatsFor(verdict, rs, n) ==
  {seat \in DOMAIN RequiredReviewers :
     LastWord(rs, n, RequiredReviewers[seat]) = {verdict}}

Stands(rs, n) ==
  /\ SeatsFor("rejected", rs, n) = {}
  /\ QuorumReached(Cardinality(SeatsFor("approved", rs, n)),
                   Len(RequiredReviewers), Quorum)

\* Nothing is decided about version n.
Undecided(rs, n) == ~Stands(rs, n) /\ SeatsFor("rejected", rs, n) = {}

LEMMA Seats ==
  /\ DOMAIN RequiredReviewers = 1 .. Len(RequiredReviewers)
  /\ Len(RequiredReviewers) \in Nat
  /\ IsFiniteSet(DOMAIN RequiredReviewers)
  /\ Cardinality(DOMAIN RequiredReviewers) = Len(RequiredReviewers)
<1>1. /\ DOMAIN RequiredReviewers = 1 .. Len(RequiredReviewers)
      /\ Len(RequiredReviewers) \in Nat
  BY PolicyAssumption
<1>2. \A k \in Nat : IsFiniteSet(1 .. k) /\ Cardinality(1 .. k) = k
  <2> TAKE k \in Nat
  <2>1. 1 \in Int /\ k \in Int
    OBVIOUS
  <2>2. IsFiniteSet(1 .. k) /\ Cardinality(1 .. k) = IF 1 > k THEN 0 ELSE k - 1 + 1
    BY <2>1, FS_Interval
  <2> QED
    BY <2>2
<1> QED
  BY <1>1, <1>2

\* The quorum, counted by the seats that are missing as Endorsed does and by
\* the approvals as evaluate_review_outcome does.
LEMMA QuorumByMissing ==
  ASSUME NEW A \in SUBSET DOMAIN RequiredReviewers
  PROVE  LET seats == DOMAIN RequiredReviewers
             missing == Cardinality(seats \ A)
         IN QuorumReached(Cardinality(A), Len(RequiredReviewers), Quorum)
            <=> CASE Quorum = "all" -> missing = 0
                  [] Quorum = "majority" -> missing < Cardinality(seats) - missing
                  [] Quorum = "any" -> missing < Cardinality(seats)
<1> DEFINE seats == DOMAIN RequiredReviewers
           missing == Cardinality(seats \ A)
<1>1. /\ IsFiniteSet(seats) /\ Cardinality(seats) = Len(RequiredReviewers)
      /\ Len(RequiredReviewers) \in Nat
  BY Seats
<1>2. IsFiniteSet(A) /\ Cardinality(A) \in Nat /\ Cardinality(A) <= Cardinality(seats)
  BY <1>1, FS_Subset, FS_CardinalityType
<1>3. missing = Cardinality(seats) - Cardinality(A)
  <2>1. seats \cap A = A
    OBVIOUS
  <2> QED
    BY <1>1, <2>1, FS_Difference
<1>4. Quorum \in {"all", "majority", "any"}
  BY PolicyAssumption DEF Quorums
<1> HIDE DEF seats, missing
<1>5. QuorumReached(Cardinality(A), Len(RequiredReviewers), Quorum)
      <=> CASE Quorum = "all" -> missing = 0
            [] Quorum = "majority" -> missing < Cardinality(seats) - missing
            [] Quorum = "any" -> missing < Cardinality(seats)
  <2>1. CASE Quorum = "all"
    BY <1>1, <1>2, <1>3, <2>1 DEF QuorumReached
  <2>2. CASE Quorum = "majority"
    BY <1>1, <1>2, <1>3, <2>2 DEF QuorumReached
  <2>3. CASE Quorum = "any"
    BY <1>1, <1>2, <1>3, <2>3 DEF QuorumReached
  <2> QED
    BY <1>4, <2>1, <2>2, <2>3
<1> QED
  BY <1>5 DEF seats, missing

\* What the invariants say of the stored reviews.
LEMMA EndorsedStands ==
  ASSUME NEW n
  PROVE  /\ Endorsed(n) <=> Stands(reviews, n)
         /\ \A seat \in DOMAIN RequiredReviewers :
              SeatVerdicts(n)[seat] = LastWord(reviews, n, RequiredReviewers[seat])
<1> DEFINE seats == DOMAIN RequiredReviewers
           A == SeatsFor("approved", reviews, n)
<1>1. \A seat \in seats :
        SeatVerdicts(n)[seat] = LastWord(reviews, n, RequiredReviewers[seat])
  BY DEF SeatVerdicts, LastWord, Counts
<1>2. {seat \in seats : SeatVerdicts(n)[seat] # {"approved"}} = seats \ A
  BY <1>1 DEF SeatsFor
<1>3. (\A seat \in seats : SeatVerdicts(n)[seat] # {"rejected"})
      <=> SeatsFor("rejected", reviews, n) = {}
  BY <1>1 DEF SeatsFor
<1>4. A \in SUBSET seats
  BY DEF SeatsFor
<1>5. Endorsed(n) <=> Stands(reviews, n)
  BY <1>2, <1>3, <1>4, QuorumByMissing DEF Endorsed, Stands
<1> QED
  BY <1>1, <1>5

\* The aggregation sees the seats as the invariants do.
LEMMA SeatsAggregated ==
  ASSUME NEW rs \in Seq(Review), NEW n, NEW verdict
  PROVE  LET counted == {i \in DOMAIN rs : rs[i].artifact = n /\ rs[i].versioned}
         IN SeatsSaying(verdict, [i \in counted |-> rs[i]], RequiredReviewers)
            = SeatsFor(verdict, rs, n)
<1> DEFINE counted == {i \in DOMAIN rs : rs[i].artifact = n /\ rs[i].versioned}
           votes == [i \in counted |-> rs[i]]
<1>1. DOMAIN rs = 1 .. Len(rs) /\ Len(rs) \in Nat
  OBVIOUS
<1>2. ASSUME NEW seat \in DOMAIN RequiredReviewers
      PROVE  seat \in SeatsSaying(verdict, votes, RequiredReviewers)
             <=> seat \in SeatsFor(verdict, rs, n)
  <2> DEFINE who == RequiredReviewers[seat]
             Last == {i \in DOMAIN rs :
                        /\ Counts(rs[i], n, who)
                        /\ \A j \in i+1 .. Len(rs) : ~Counts(rs[j], n, who)}
  <2>1. \A i \in DOMAIN rs : i \in Last <=>
          /\ i \in counted /\ rs[i].reviewer = who
          /\ \A j \in counted : j > i => rs[j].reviewer # who
    BY <1>1 DEF Counts
  <2>2. \A i \in Last, j \in Last : i = j
    <3>1. ASSUME NEW i \in Last, NEW j \in Last, i < j
          PROVE  FALSE
      BY <1>1, <2>1, <3>1
    <3> QED
      BY <1>1, <3>1
  <2>3. seat \in SeatsSaying(verdict, votes, RequiredReviewers)
        <=> \E i \in Last : rs[i].verdict = verdict
    BY <2>1 DEF SeatsSaying
  <2>4. seat \in SeatsFor(verdict, rs, n) <=> {rs[i].verdict : i \in Last} = {verdict}
    BY DEF SeatsFor, LastWord
  <2> HIDE DEF Last
  <2>5. {rs[i].verdict : i \in Last} = {verdict} <=> \E i \in Last : rs[i].verdict = verdict
    BY <2>2
  <2> QED
    BY <2>3, <2>4, <2>5
<1>3. /\ SeatsSaying(verdict, votes, RequiredReviewers) \subseteq DOMAIN RequiredReviewers
      /\ SeatsFor(verdict, rs, n) \subseteq DOMAIN RequiredReviewers
  BY DEF SeatsSaying, SeatsFor
<1>4. SeatsSaying(verdict, votes, RequiredReviewers) = SeatsFor(verdict, rs, n)
  BY <1>2, <1>3
<1> QED
  BY <1>4

\* evaluate_review_outcome decides just as the invariants read the reviews.
LEMMA OutcomeDecides ==
  ASSUME reviews' \in Seq(Review), NEW n, NEW verdict
  PROVE  LET outcome == Outcome(n, "deliverable", verdict) IN
         RequiredReviewers # << >> =>
           /\ outcome \in {"approved", "changes_requested", "rejected", Pending}
           /\ outcome = "approved" => Stands(reviews', n)
           /\ outcome \in {"changes_requested", Pending} => Undecided(reviews', n)
<1> SUFFICES ASSUME RequiredReviewers # << >>
             PROVE  LET outcome == Outcome(n, "deliverable", verdict) IN
                    /\ outcome \in {"approved", "changes_requested", "rejected", Pending}
                    /\ outcome = "approved" => Stands(reviews', n)
                    /\ outcome \in {"changes_requested", Pending} => Undecided(reviews', n)
  OBVIOUS
<1> DEFINE counted == {i \in DOMAIN reviews' : /\ reviews'[i].artifact = n
                                               /\ reviews'[i].versioned}
           votes == [i \in counted |-> reviews'[i]]
<1>1. \A v : SeatsSaying(v, votes, RequiredReviewers) = SeatsFor(v, reviews', n)
  BY SeatsAggregated
<1>2. Outcome(n, "deliverable", verdict)
      = EvaluateReviewOutcome(votes, RequiredReviewers, Quorum)
  BY DEF Outcome, PolicyActive
<1> HIDE DEF votes
<1>3. Outcome(n, "deliverable", verdict) =
        IF SeatsFor("rejected", reviews', n) # {} THEN "rejected"
        ELSE IF QuorumReached(Cardinality(SeatsFor("approved", reviews', n)),
                              Len(RequiredReviewers), Quorum) THEN "approved"
        ELSE IF SeatsFor("changes_requested", reviews', n) # {} THEN "changes_requested"
        ELSE Pending
  BY <1>1, <1>2 DEF EvaluateReviewOutcome
<1> QED
  BY <1>3 DEF Stands, Undecided, Pending

\* A review that is not the reviewer's word on a version leaves that word as
\* it was: a comment, a plan review, a review of another version.
LEMMA LastWordKept ==
  ASSUME NEW rs \in Seq(Review), NEW review \in Review, NEW n, NEW reviewer,
         ~Counts(review, n, reviewer)
  PROVE  LastWord(Append(rs, review), n, reviewer) = LastWord(rs, n, reviewer)
<1> DEFINE longer == Append(rs, review)
           Last(w) == {i \in DOMAIN w :
                         /\ Counts(w[i], n, reviewer)
                         /\ \A j \in i+1 .. Len(w) : ~Counts(w[j], n, reviewer)}
<1>1. /\ Len(rs) \in Nat /\ Len(longer) = Len(rs) + 1
      /\ DOMAIN rs = 1 .. Len(rs) /\ DOMAIN longer = 1 .. Len(rs) + 1
      /\ longer[Len(rs) + 1] = review
      /\ \A i \in 1 .. Len(rs) : longer[i] = rs[i]
  OBVIOUS
<1> HIDE DEF longer
<1>2. ASSUME NEW i \in 1 .. Len(rs)
      PROVE  i \in Last(longer) <=> i \in Last(rs)
  <2>1. /\ \A j \in i+1 .. Len(rs) : j \in i+1 .. Len(longer) /\ longer[j] = rs[j]
        /\ \A j \in i+1 .. Len(longer) :
             (j \in i+1 .. Len(rs) /\ longer[j] = rs[j]) \/ longer[j] = review
    BY <1>1
  <2> QED
    BY <1>1, <2>1
<1>3. Last(longer) = Last(rs) /\ \A i \in Last(rs) : longer[i] = rs[i]
  BY <1>1, <1>2
<1>4. /\ LastWord(longer, n, reviewer) = {longer[i].verdict : i \in Last(longer)}
      /\ LastWord(rs, n, reviewer) = {rs[i].verdict : i \in Last(rs)}
  BY DEF LastWord
<1> HIDE DEF Last
<1>5. LastWord(longer, n, reviewer) = LastWord(rs, n, reviewer)
  BY <1>3, <1>4
<1> QED
  BY <1>5 DEF longer

LEMMA VerdictKept ==
  ASSUME NEW rs \in Seq(Review), NEW review \in Review, NEW n,
         review.artifact # n \/ ~review.versioned
  PROVE  /\ Stands(Append(rs, review), n) <=> Stands(rs, n)
         /\ Undecided(Append(rs, review), n) <=> Undecided(rs, n)
<1>1. \A who : LastWord(Append(rs, review), n, who) = LastWord(rs, n, who)
  BY LastWordKept DEF Counts
<1>2. \A verdict : SeatsFor(verdict, Append(rs, review), n) = SeatsFor(verdict, rs, n)
  BY <1>1 DEF SeatsFor
<1> QED
  BY <1>2 DEF Stands, Undecided

\* Without any review nothing is decided.
LEMMA NothingSaid ==
  ASSUME RequiredReviewers # << >>, NEW n
  PROVE  Undecided(<< >>, n)
<1>1. \A verdict : SeatsFor(verdict, << >>, n) = {}
  BY DEF SeatsFor, LastWord
<1>2. Cardinality({}) = 0
  BY FS_EmptySet
<1>3. Len(RequiredReviewers) \in Nat /\ Len(RequiredReviewers) # 0
  BY PolicyAssumption, EmptySeq
<1>4. /\ SeatsFor("approved", << >>, n) = {}
      /\ SeatsFor("rejected", << >>, n) = {}
  BY <1>1
<1>5. ~QuorumReached(0, Len(RequiredReviewers), Quorum)
  BY <1>3 DEF QuorumReached
<1> QED
  BY <1>2, <1>4, <1>5 DEF Undecided, Stands
-----------------------------------------------------------------------------
\* What the reviews and the state of the task say of each other.
ReviewInv ==
  /\ state = "under_review" => RequiredReviewers # << >>
  /\ RequiredReviewers # << >> /\ state \notin TERMINAL_STATES =>
       \A n \in Nat : Undecided(reviews, n)
  /\ Delivered =>
       /\ state = "completed"
       /\ RequiredReviewers # << >> => \E n \in 1 .. artifacts : Stands(reviews, n)

\* Only an event task.completed delivers.
LEMMA OthersDeliverNothing ==
  ASSUME audit \in Seq(AuditEvent), NEW e \in AuditEvent,
         e.action # "task.completed", NEW f \in AuditEvent, f.action # "task.completed",
         audit' = audit \o <<e>> \/ audit' = audit \o <<e, f>>
  PROVE  Delivered' => Delivered
<1>1. /\ Len(audit) \in Nat /\ DOMAIN audit = 1 .. Len(audit)
      /\ DOMAIN audit' = 1 .. Len(audit')
      /\ Len(audit') \in {Len(audit) + 1, Len(audit) + 2}
      /\ \A i \in 1 .. Len(audit) : audit'[i] = audit[i]
      /\ audit'[Len(audit) + 1] = e
      /\ Len(audit') = Len(audit) + 2 => audit'[Len(audit) + 2] = f
  OBVIOUS
<1>2. ASSUME NEW i \in 1 .. Len(audit'), i \notin 1 .. Len(audit)
      PROVE  audit'[i] = e \/ audit'[i] = f
  <2>1. i = Len(audit) + 1 \/ (i = Len(audit) + 2 /\ Len(audit') = Len(audit) + 2)
    <3>1. \A k \in Nat : \A m \in {k + 1, k + 2} :
            i \in 1 .. m /\ i \notin 1 .. k => i = k + 1 \/ (i = k + 2 /\ m = k + 2)
      OBVIOUS
    <3> QED
      BY <1>1, <1>2, <3>1
  <2> QED
    BY <1>1, <2>1
<1> QED
  BY <1>1, <1>2 DEF Delivered

LEMMA CommitDeliversNothing ==
  ASSUME IInv, IInv', NEW action \in AuditAction, action # "task.completed",
         NEW by \in {"actor", "system"}, Commit(<<Event(action, by)>>)
  PROVE  Delivered' => Delivered
<1> DEFINE e == Event(action, by)
<1>1. e \in AuditEvent
  BY EventType DEF IInv, Log, Ownership
<1>2. e.action # "task.completed"
  BY DEF Event
<1>3. audit' = audit \o <<e>>
  BY DEF Commit
<1> HIDE DEF e
<1> QED
  BY <1>1, <1>2, <1>3, OthersDeliverNothing DEF IInv, Log

LEMMA InterruptDeliversNothing ==
  ASSUME IInv, IInv',
         Commit(<<Event("task.interrupted", "actor"),
                  Event("task.checkpoint.raised", "system")>>)
  PROVE  Delivered' => Delivered
<1> DEFINE e == Event("task.interrupted", "actor")
           f == Event("task.checkpoint.raised", "system")
<1>1. e \in AuditEvent /\ f \in AuditEvent
  BY EventType DEF IInv, Log, Ownership, AuditAction
<1>2. e.action # "task.completed" /\ f.action # "task.completed"
  BY DEF Event
<1>3. audit' = audit \o <<e, f>>
  BY DEF Commit
<1> HIDE DEF e, f
<1> QED
  BY <1>1, <1>2, <1>3, OthersDeliverNothing DEF IInv, Log

\* What the handlers other than review's do to what ReviewInv relates.
NotReviewing ==
  /\ reviews' = reviews
  /\ artifacts' \in {artifacts, artifacts + 1}
  /\ state' = "under_review" => state = "under_review"
  /\ Delivered' => Delivered

LEMMA AwaitingStepReviewsNothing ==
  ASSUME IInv, IInv', NEW c \in Calls, AwaitingStep(c)
  PROVE  NotReviewing
<1> USE CommitDeliversNothing, InterruptDeliversNothing DEF AuditAction
<1>1. ASSUME NEW local, Await(c, local)
      PROVE  NotReviewing
  BY <1>1 DEF Await, taskVars, NotReviewing, Delivered
<1>2. CASE \/ BeginAssign(c) \/ BeginCancel(c) \/ BeginAmend(c)
           \/ BeginBlock(c, "interrupt") \/ BeginBlock(c, "raise")
           \/ BeginResolve(c) \/ BeginHandoff(c) \/ BeginDelegate(c)
  BY <1>1, <1>2 DEF BeginAssign, BeginCancel, BeginAmend, BeginBlock,
     BeginResolve, BeginHandoff, BeginDelegate
<1>3. Refused => (Delivered' => Delivered) /\ state' = state
  BY DEF Refused, Delivered
<1>4. CASE FinishAssign(c)
  BY <1>3, <1>4 DEF FinishAssign, NotReviewing
<1>5. CASE FinishCancel(c)
  BY <1>3, <1>5 DEF FinishCancel, CloseTask, NotReviewing
<1>6. CASE FinishAmend(c)
  BY <1>3, <1>6 DEF FinishAmend, NotReviewing
<1>7. CASE FinishBlock(c)
  BY <1>3, <1>7 DEF FinishBlock, NotReviewing
<1>8. CASE FinishResolve(c)
  BY <1>3, <1>8 DEF FinishResolve, NotReviewing
<1>9. CASE FinishHandoff(c) \/ FinishDelegate(c)
  BY <1>9 DEF FinishHandoff, FinishDelegate, NotReviewing
<1>10. CASE AdapterFails(c)
  BY <1>10 DEF AdapterFails, taskVars, NotReviewing, Delivered
<1> QED
  BY <1>2, <1>4, <1>5, <1>6, <1>7, <1>8, <1>9, <1>10 DEF AwaitingStep

LEMMA LocalStepReviews ==
  ASSUME IInv, IInv', LocalStep
  PROVE  \/ NotReviewing
         \/ \E n \in 1 .. artifacts, reviewer \in Humans,
               kind \in ReviewKind, verdict \in ReviewVerdict :
              SubmitReview(n, reviewer, kind, verdict)
         \/ \E n \in DOMAIN reviews, by \in Actors : CommentReview(n, by)
<1> USE CommitDeliversNothing DEF AuditAction
<1>1. CASE Start
  BY <1>1 DEF Start, NotReviewing
<1>2. CASE CancelUnbound
  BY <1>2 DEF CancelUnbound, CloseTask, Refused, NotReviewing, Delivered
<1>3. ASSUME NEW n \in DOMAIN checkpoints, Expire(n)
      PROVE  NotReviewing
  BY <1>3 DEF Expire, NotReviewing
<1>4. ASSUME NEW to \in Actors, NEW via \in EnabledVias, TransferLocally(to, via)
      PROVE  NotReviewing
  BY <1>4 DEF TransferLocally, NotReviewing
<1>5. CASE CommitArtifact
  BY <1>5 DEF CommitArtifact, NotReviewing
<1> QED
  BY <1>1, <1>2, <1>3, <1>4, <1>5 DEF LocalStep

LEMMA NotReviewingKeepsReviewInv ==
  ASSUME IInv, ReviewInv, [Next]_vars, NotReviewing
  PROVE  ReviewInv'
<1>1. state \in TERMINAL_STATES => state' = state
  BY StepKeepsTerminal
<1>2. artifacts \in Nat
  BY DEF IInv, Objects
<1> QED
  BY <1>1, <1>2 DEF ReviewInv, NotReviewing, TERMINAL_STATES

\* A submitted review: what it decides about the version it names, it decides
\* about the task; every other version stays as it was.
LEMMA SubmitKeepsReviewInv ==
  ASSUME IInv, IInv', ReviewInv, NEW n \in 1 .. artifacts, NEW reviewer \in Humans,
         NEW kind \in ReviewKind, NEW verdict \in ReviewVerdict,
         SubmitReview(n, reviewer, kind, verdict)
  PROVE  ReviewInv'
<1> DEFINE review == [artifact |-> n, reviewer |-> reviewer, kind |-> kind,
                      verdict |-> verdict, versioned |-> PolicyActive(kind)]
           outcome == Outcome(n, kind, verdict)
           rework == \/ outcome = "changes_requested"
                     \/ kind = "plan" /\ outcome = "approved"
           submitted == Event("review.submitted", "actor")
           completed == Event("task.completed", "system")
<1>1. /\ state \in {"review_ready", "under_review"}
      /\ reviews' = Append(reviews, review)
      /\ state' = IF rework THEN "in_progress"
                  ELSE IF outcome = "approved" THEN "completed"
                  ELSE IF outcome = "rejected" THEN "rejected"
                  ELSE "under_review"
      /\ artifacts' = artifacts
      /\ Commit(IF kind = "deliverable" /\ verdict = "approved" /\ state' = "completed"
                  THEN <<submitted, completed>> ELSE <<submitted>>)
  BY DEF SubmitReview
<1>2. /\ review \in Review /\ review.artifact = n
      /\ review.versioned = PolicyActive(kind)
      /\ reviews \in Seq(Review) /\ reviews' \in Seq(Review) /\ artifacts \in Nat
  BY DEF Review, Actors, PolicyActive, IInv, Objects
<1>3. ~Delivered /\ state \notin TERMINAL_STATES
  BY <1>1 DEF ReviewInv, TERMINAL_STATES
<1>4. ASSUME kind # "deliverable" \/ state' # "completed"
      PROVE  ~Delivered'
  <2>1. Commit(<<submitted>>)
    BY <1>1, <1>4
  <2> QED
    BY <1>3, <2>1, CommitDeliversNothing DEF AuditAction
<1>5. CASE PolicyActive(kind)
  <2>1. kind = "deliverable" /\ RequiredReviewers # << >>
    BY <1>5 DEF PolicyActive
  <2>2. /\ outcome = "approved" => Stands(reviews', n)
        /\ outcome \in {"changes_requested", Pending} => Undecided(reviews', n)
        /\ outcome \in {"approved", "changes_requested", "rejected", Pending}
    BY <1>2, <2>1, OutcomeDecides
  <2> HIDE DEF outcome, review
  <2>3. state' = "completed" => outcome = "approved"
    BY <1>1, <2>1
  <2>4. state' \notin TERMINAL_STATES => outcome \in {"changes_requested", Pending}
    BY <1>1, <2>1, <2>2 DEF TERMINAL_STATES
  <2>5. ASSUME state' \notin TERMINAL_STATES, NEW m \in Nat
        PROVE  Undecided(reviews', m)
    <3>1. CASE m = n
      BY <2>2, <2>4, <2>5, <3>1
    <3>2. CASE m # n
      BY <1>1, <1>2, <1>3, <2>1, <3>2, VerdictKept DEF ReviewInv
    <3> QED
      BY <3>1, <3>2
  <2> QED
    BY <1>1, <1>4, <2>1, <2>2, <2>3, <2>5 DEF ReviewInv
<1>6. CASE ~PolicyActive(kind)
  <2>1. outcome = verdict
    BY <1>6 DEF Outcome
  <2> HIDE DEF review
  <2>2. ASSUME RequiredReviewers # << >>, state' \notin TERMINAL_STATES, NEW m \in Nat
        PROVE  Undecided(reviews', m)
    BY <1>1, <1>2, <1>3, <1>6, <2>2, VerdictKept DEF ReviewInv
  <2>3. state' = "under_review" => RequiredReviewers # << >>
    BY <1>1, <2>1 DEF ReviewVerdict
  <2>4. Delivered' => state' = "completed" /\ RequiredReviewers = << >>
    BY <1>4, <1>6 DEF PolicyActive
  <2> QED
    BY <2>2, <2>3, <2>4 DEF ReviewInv
<1> QED
  BY <1>5, <1>6

\* A comment repeats a verdict but is nobody's word.
LEMMA CommentKeepsReviewInv ==
  ASSUME IInv, IInv', ReviewInv, NEW n \in DOMAIN reviews, NEW by \in Actors,
         CommentReview(n, by)
  PROVE  ReviewInv'
<1> DEFINE copy == [reviews[n] EXCEPT !.reviewer = by, !.versioned = FALSE]
           e == Event("review.commented", "actor")
<1>1. reviews[n] \in Review
  BY ElementOfSeq DEF IInv, Objects
<1>2. copy \in Review /\ ~copy.versioned
  BY <1>1 DEF Review
<1>3. /\ reviews' = Append(reviews, copy) /\ reviews \in Seq(Review)
      /\ state' = state /\ artifacts' = artifacts
  BY DEF CommentReview, IInv, Objects
<1> HIDE DEF copy
<1>4. \A m : /\ Stands(reviews', m) <=> Stands(reviews, m)
             /\ Undecided(reviews', m) <=> Undecided(reviews, m)
  BY <1>2, <1>3, VerdictKept
<1>5. Delivered' => Delivered
  <2>1. e \in AuditEvent /\ e.action # "task.completed"
    BY EventType DEF IInv, Log, Ownership, AuditAction, Event
  <2>2. audit' = Append(audit, e) /\ audit \in Seq(AuditEvent)
    BY DEF CommentReview, IInv, Log
  <2> HIDE DEF e
  <2>3. audit' = audit \o <<e>>
    BY <2>1, <2>2
  <2> QED
    BY <2>1, <2>2, <2>3, OthersDeliverNothing
<1> QED
  BY <1>3, <1>4, <1>5 DEF ReviewInv

LEMMA ReviewInvariant == Spec => []ReviewInv
<1>1. Init => ReviewInv
  BY NothingSaid DEF Init, ReviewInv, Delivered
<1>2. IInv /\ IInv' /\ ReviewInv /\ [Next]_vars => ReviewInv'
  <2> SUFFICES ASSUME IInv, IInv', ReviewInv, [Next]_vars PROVE ReviewInv'
    OBVIOUS
  <2>1. CASE UNCHANGED vars
    BY <2>1 DEF vars, taskVars, ReviewInv, Delivered
  <2>2. NotReviewing => ReviewInv'
    BY NotReviewingKeepsReviewInv
  <2>3. CASE LocalStep
    BY <2>2, <2>3, LocalStepReviews, SubmitKeepsReviewInv, CommentKeepsReviewInv
  <2>4. CASE \E c \in Calls : AwaitingStep(c)
    BY <2>2, <2>4, AwaitingStepReviewsNothing
  <2> QED
    BY <2>1, <2>3, <2>4 DEF Next
<1> QED
  BY <1>1, <1>2, InductiveInvariant, PTL DEF Spec

\* Under any panel and quorum, a task is completed by review only while the
\* reviewers stand behind one of its versions, and neither a later call nor a
\* comment takes that away (evaluate_review_outcome, review_submit).
THEOREM DeliveriesAreEndorsed == Spec => []DeliveryIsEndorsed
<1>1. ReviewInv => DeliveryIsEndorsed
  BY EndorsedStands DEF ReviewInv, DeliveryIsEndorsed
<1> QED
  BY <1>1, ReviewInvariant, PTL

\* A task that waits for more reviews is not decided already: no version has
\* its quorum or a veto, whatever was said before, in any order and on any
\* version (review_submit).
THEOREM ReviewsAreOpen == Spec => []UnderReviewIsUndecided
<1>1. IInv /\ ReviewInv => UnderReviewIsUndecided
  <2> SUFFICES ASSUME IInv, ReviewInv, state = "under_review", NEW n \in 1 .. artifacts
               PROVE  /\ ~Endorsed(n)
                      /\ \A seat \in DOMAIN RequiredReviewers :
                           SeatVerdicts(n)[seat] # {"rejected"}
    BY DEF UnderReviewIsUndecided
  <2>1. Undecided(reviews, n)
    BY DEF ReviewInv, TERMINAL_STATES, IInv, Objects
  <2> QED
    BY <2>1, EndorsedStands DEF Undecided, SeatsFor
<1> QED
  BY <1>1, ReviewInvariant, InductiveInvariant, PTL
=============================================================================
