---------------------------- MODULE HLPOperations ----------------------------
(***************************************************************************)
(* One task of the Human Loop Protocol and the operations that act on it   *)
(* (loops/hlp/operations/*.py), called by any number of concurrent         *)
(* callers.                                                                *)
(*                                                                         *)
(* Every handler is a coroutine on one event loop.  It runs without        *)
(* interruption except where it awaits the agent adapter, so an operation  *)
(* is modelled by one action when it never awaits, and otherwise by two:   *)
(*                                                                         *)
(*   Begin<Op>   checks the preconditions, records what the handler keeps  *)
(*               in local variables over the await, and calls the adapter; *)
(*   Finish<Op>  the adapter has answered; everything up to the return.    *)
(*                                                                         *)
(* A call whose adapter raises is dropped by AdapterFails.  A refused call *)
(* that changes nothing is a stuttering step and has no action.            *)
(*                                                                         *)
(* A definition named <Op>_<Fault> is a faulty variant of <Op>, which no   *)
(* action uses: it is what some property is there to notice.               *)
(***************************************************************************)
EXTENDS Naturals, Sequences, TaskStateMachine, ReviewPolicy

CONSTANTS
  Principal,          \* the human who owns the task; never changes
  Humans, Agents,     \* who may hold the task
  Calls,              \* slots for calls that are awaiting the adapter
  Overlap,            \* may a call start while another awaits the adapter?
  Requests,           \* what distinguishes two calls of the same operation
  RequiredReviewers,  \* review_policy.required_reviewers, << >> for no policy
  Quorum,             \* review_policy.quorum
  EnabledOps,         \* the operations the callers of this instance use
  EnabledVias,        \* the vias they pass to ownership.transfer
  MaxRevision,        \* bound: no call starts at this revision or later
  MaxReviews          \* bound: review.comment copies a review up to this many

Actors == Humans \cup Agents
NoActor == "none"

\* The mutating operations of loops/hlp/operations, by the last word of their
\* name; review.comment is the only one that commits no revision.
OpNames == {"assign", "start", "cancel", "amend", "interrupt", "raise",
            "resolve", "expire", "transfer", "delegate", "commit", "review",
            "comment"}

\* loops/hlp/types.py
OwnershipTransferVia == {"assign", "checkpoint", "approve", "reject", "handoff"}
CheckpointState == {"pending", "resolved", "expired"}

\* CheckpointResolutionAction; "approve" stands for approve, choose and
\* provide, which resolve a checkpoint the same way.
ResolutionAction == {"approve", "reject", "reassign"}

ASSUME ActorsAssumption ==
  /\ Principal \in Humans
  /\ Humans \cap Agents = {}
  /\ NoActor \notin Actors
ASSUME PolicyAssumption ==
  /\ RequiredReviewers \in Seq(Humans)
  /\ Quorum \in Quorums
ASSUME BoundsAssumption ==
  /\ EnabledOps \subseteq OpNames
  /\ EnabledVias \subseteq OwnershipTransferVia
  /\ Overlap \in BOOLEAN
  /\ MaxRevision \in Nat
  /\ MaxReviews \in Nat

VARIABLES
  state,        \* task.state
  assignee,     \* task.ownership.assignee
  chain,        \* task.ownership.chain, append-only
  revision,     \* task.revision, the compare-and-set counter
  checkpoints,  \* the checkpoint objects, in the order they were stored
  steering,     \* length of task.steering_log
  artifacts,    \* length of task.artifacts; artifact n is version "v<n>"
  reviews,      \* the reviews of the task in the order they were stored
  run,          \* the run bound to the task, 0 when there is none
  told,         \* per run, the last contract call the adapter recorded for it
  audit,        \* the audit log with the task snapshot of each event
  calls         \* what each call in flight keeps over its await

taskVars == <<state, assignee, chain, revision, checkpoints, steering,
              artifacts, reviews>>
vars == <<taskVars, run, told, audit, calls>>
-----------------------------------------------------------------------------
\* Types.

OwnershipTransfer == [from : Actors, to : Actors, via : OwnershipTransferVia]

\* The id of a checkpoint is drawn when the call starts, but it is part of the
\* durable adapter request, and a second call with the same fingerprint at the
\* same revision reads that request back: the id is a function of these three.
CheckpointId == [op : {"raise", "interrupt"}, request : Requests, revision : Nat]
Checkpoint == [id : CheckpointId, state : CheckpointState,
               action : ResolutionAction \cup {"none"}]

\* artifact_version is stored only when the review policy applies.
ReviewKind == {"plan", "deliverable"}
Review == [artifact : Nat, reviewer : Actors, kind : ReviewKind,
           verdict : ReviewVerdict, versioned : BOOLEAN]

\* by is "system" or "actor": only the interrupt's second event depends on it.
AuditAction == {"task.created", "task.assigned", "task.started",
                "task.cancelled", "task.amended", "task.interrupted",
                "task.checkpoint.raised", "task.checkpoint.resolved",
                "task.checkpoint.expired", "ownership.transferred",
                "ownership.delegated", "artifact.committed",
                "review.submitted", "review.commented", "task.completed"}
AuditEvent == [action : AuditAction, by : {"actor", "system"}, state : TaskState,
               revision : Nat, assignee : Actors]

RunStatus == {"running", "blocked", "cancelled"}

Idle == [op |-> "idle"]
InFlight ==
  [op : {"assign", "delegate"}, to : Actors]
  \cup [op : {"handoff"}, to : Actors, run : Nat]
  \cup [op : {"cancel"}, run : Nat]
  \cup [op : {"amend"}, run : Nat, stateBefore : TaskState]
  \cup [op : {"block"}, run : Nat, id : CheckpointId]
  \cup [op : {"resume"}, run : Nat, object : Nat, action : ResolutionAction,
        reassignTo : Actors \cup {NoActor}]

TypeOK ==
  /\ state \in TaskState
  /\ assignee \in Actors
  /\ chain \in Seq(OwnershipTransfer)
  /\ revision \in Nat
  /\ checkpoints \in Seq(Checkpoint)
  /\ steering \in Nat
  /\ artifacts \in Nat
  /\ reviews \in Seq(Review)
  /\ told \in Seq(RunStatus)
  /\ run \in 0 .. Len(told)
  /\ audit \in Seq(AuditEvent)
  /\ calls \in [Calls -> InFlight \cup {Idle}]
-----------------------------------------------------------------------------
\* Helpers shared by the handlers.

\* _get_checkpoint_for_update finds a checkpoint by id: the object stored last.
Stored(n) == \A m \in n+1 .. Len(checkpoints) :
               checkpoints[m].id # checkpoints[n].id

\* A checkpoint that may still be resolved or expired.
Open_Stored(n) == Stored(n)
Open(n) == Stored(n) /\ checkpoints[n].state = "pending"

\* Ownership.transfer: a new assignee and one more entry in the chain.
Transfer_FromPrincipal(to, via) ==
  /\ assignee' = to
  /\ chain' = Append(chain, [from |-> Principal, to |-> to, via |-> via])
Transfer(to, via) ==
  /\ assignee' = to
  /\ chain' = Append(chain, [from |-> assignee, to |-> to, via |-> via])

KeepOwnership == UNCHANGED <<assignee, chain>>

FallBackToPrincipal(via) ==
  IF assignee # Principal THEN Transfer(Principal, via) ELSE KeepOwnership

\* _last_assignee_before: who held the task before the latest transfer to the
\* principal via `via`, as a set with at most one element.
LastAssigneeBefore_First(via) ==
  LET Gave(i) == chain[i].to = Principal /\ chain[i].via = via
  IN {chain[i].from : i \in {i \in DOMAIN chain :
        Gave(i) /\ \A j \in 1 .. i-1 : ~Gave(j)}}
LastAssigneeBefore(via) ==
  LET Gave(i) == chain[i].to = Principal /\ chain[i].via = via
  IN {chain[i].from : i \in {i \in DOMAIN chain :
        Gave(i) /\ \A j \in i+1 .. Len(chain) : ~Gave(j)}}

\* `if target_agent is not None and assignee != target_agent`
ReturnTo_NobodyToo(targets, via) ==
  \E agent \in IF targets = {} THEN {NoActor} ELSE targets : Transfer(agent, via)
ReturnTo(targets, via) ==
  IF targets \subseteq {assignee}
    THEN KeepOwnership
    ELSE \E agent \in targets : Transfer(agent, via)

\* _audit: the event carries the task as the handler has left it, with the
\* revision that the commit is about to advance.
Event_Before(action, by) == [action |-> action, by |-> by, state |-> state,
                             revision |-> revision, assignee |-> assignee]
Event(action, by) == [action |-> action, by |-> by, state |-> state',
                      revision |-> revision, assignee |-> assignee']

\* _audit followed by _commit_task_operation: the revision moves by one.
Commit_NoBump(events) == audit' = audit \o events /\ UNCHANGED revision
Commit(events) ==
  /\ audit' = audit \o events
  /\ revision' = revision + 1

\* What a handler does once its last check_transition has raised: nothing more.
Refused == UNCHANGED <<state, audit, revision>>

\* put_checkpoint and task.checkpoints.append, made together in every handler.
StoreCheckpoint_Once(id) ==
  IF \E n \in DOMAIN checkpoints : checkpoints[n].id = id
    THEN UNCHANGED checkpoints
    ELSE checkpoints' = Append(checkpoints,
                          [id |-> id, state |-> "pending", action |-> "none"])
StoreCheckpoint(id) ==
  checkpoints' = Append(checkpoints,
                        [id |-> id, state |-> "pending", action |-> "none"])

\* ckpt.resolution and ckpt.state, on the object the handler holds.
Answer_StatePending(n, action) ==
  checkpoints' = [checkpoints EXCEPT ![n].action = action]
Answer(n, action) ==
  checkpoints' = [checkpoints EXCEPT ![n].state = "resolved",
                                     ![n].action = action]

\* A call may start: the callers use the operation, the bound allows it, and
\* no call is in flight unless the callers overlap.  The event loop itself
\* serialises nothing: a client that awaits each call before the next one (the
\* terminal console) is Overlap = FALSE, several clients of one server TRUE.
MayCall(op) ==
  /\ op \in EnabledOps
  /\ revision < MaxRevision
  /\ Overlap \/ \A c \in Calls : calls[c] = Idle

\* A handler stops at its await with what it needs afterwards, and goes on.
Await(c, local) ==
  /\ calls[c] = Idle
  /\ calls' = [calls EXCEPT ![c] = local]
  /\ UNCHANGED <<taskVars, run, told, audit>>

Answered(c, op) ==
  /\ calls[c].op = op
  /\ calls' = [calls EXCEPT ![c] = Idle]

\* The adapter's registry notes the contract call when the agent has answered.
Tell_NoResume(r, status) ==
  told' = IF status = "running" THEN told ELSE [told EXCEPT ![r] = status]
Tell(r, status) == told' = [told EXCEPT ![r] = status]
StartRun == told' = Append(told, "running")
-----------------------------------------------------------------------------
\* task_create: the task exists, its principal holds it, nobody works on it.
Init ==
  /\ state = "created"
  /\ assignee = Principal
  /\ chain = << >>
  /\ revision = 0
  /\ checkpoints = << >>
  /\ steering = 0
  /\ artifacts = 0
  /\ reviews = << >>
  /\ run = 0
  /\ told = << >>
  /\ audit = << [action |-> "task.created", by |-> "actor", state |-> "created",
                revision |-> 0, assignee |-> Principal] >>
  /\ calls = [c \in Calls |-> Idle]

\* task_assign; nothing checks that the assignee is an agent.
BeginAssign(c) ==
  /\ MayCall("assign")
  /\ state = "created"
  /\ \E to \in Actors : Await(c, [op |-> "assign", to |-> to])

\* The ownership moves before check_transition can refuse.
FinishAssign(c) ==
  /\ Answered(c, "assign")
  /\ StartRun
  /\ Transfer(calls[c].to, "assign")
  /\ IF LegalTransition(state, "assigned")
       THEN /\ state' = "assigned"
            /\ Commit(<<Event("task.assigned", "actor")>>)
            /\ run' = Len(told')
       ELSE Refused /\ UNCHANGED run
  /\ UNCHANGED <<checkpoints, steering, artifacts, reviews>>

\* task_start
Start ==
  /\ MayCall("start")
  /\ state = "assigned"
  /\ state' = "in_progress"
  /\ KeepOwnership
  /\ Commit(<<Event("task.started", "actor")>>)
  /\ UNCHANGED <<checkpoints, steering, artifacts, reviews, run, told, calls>>

\* task_cancel once the adapter has been told, or at once if no run is bound.
\* check_transition comes after the ownership has moved.
CloseTask ==
  /\ FallBackToPrincipal("reject")
  /\ IF LegalTransition(state, "completed")
       THEN /\ state' = "completed"
            /\ Commit(<<Event("task.cancelled", "actor")>>)
       ELSE Refused
  /\ UNCHANGED <<checkpoints, steering, artifacts, reviews, run>>

CancelUnbound_AnyRun ==
  /\ MayCall("cancel")
  /\ state \notin TERMINAL_STATES
  /\ CloseTask
  /\ UNCHANGED <<told, calls>>
CancelUnbound ==
  /\ MayCall("cancel")
  /\ state \notin TERMINAL_STATES
  /\ run = 0
  /\ CloseTask
  /\ UNCHANGED <<told, calls>>

BeginCancel(c) ==
  /\ MayCall("cancel")
  /\ state \notin TERMINAL_STATES
  /\ run # 0
  /\ Await(c, [op |-> "cancel", run |-> run])

FinishCancel(c) ==
  /\ Answered(c, "cancel")
  /\ Tell(calls[c].run, "cancelled")
  /\ CloseTask

\* task_amend.  In these states a run is bound (WorkHasRun).
BeginAmend(c) ==
  /\ MayCall("amend")
  /\ state \in {"in_progress", "blocked"}
  /\ Await(c, [op |-> "amend", run |-> run, stateBefore |-> state])

\* The amendment is in the log before the comparison of the states refuses.
FinishAmend(c) ==
  /\ Answered(c, "amend")
  /\ steering' = steering + 1
  /\ KeepOwnership
  /\ IF state = calls[c].stateBefore
       THEN /\ UNCHANGED state
            /\ Commit(<<Event("task.amended", "actor")>>)
       ELSE Refused
  /\ UNCHANGED <<checkpoints, artifacts, reviews, run, told>>

\* task_interrupt and checkpoint_raise up to their await on adapter.block.
BeginBlock(c, op) ==
  /\ MayCall(op)
  /\ state = "in_progress"
  /\ \E request \in Requests :
       Await(c, [op |-> "block", run |-> run,
                 id |-> [op |-> op, request |-> request, revision |-> revision]])

\* The checkpoint is stored and listed before check_transition can refuse.
\* The two handlers differ in the transfer, which an interrupt makes only if
\* the principal does not hold the task, and in their audit events.
FinishBlock(c) ==
  LET id == calls[c].id IN
  /\ Answered(c, "block")
  /\ Tell(calls[c].run, "blocked")
  /\ StoreCheckpoint(id)
  /\ IF LegalTransition(state, "blocked")
       THEN /\ state' = "blocked"
            /\ IF id.op = "raise"
                 THEN /\ Transfer(Principal, "checkpoint")
                      /\ Commit(<<Event("task.checkpoint.raised", "actor")>>)
                 ELSE /\ FallBackToPrincipal("checkpoint")
                      /\ Commit(<<Event("task.interrupted", "actor"),
                                  Event("task.checkpoint.raised", "system")>>)
       ELSE KeepOwnership /\ Refused
  /\ UNCHANGED <<steering, artifacts, reviews, run>>

\* checkpoint_resolve by a human.  Any answer may name whom to give the task
\* to; a reassignment must name an agent and a rejection makes no use of it.
BeginResolve(c) ==
  /\ MayCall("resolve")
  /\ state = "blocked"
  /\ \E n \in DOMAIN checkpoints, action \in ResolutionAction,
        agent \in Actors \cup {NoActor} :
       /\ Open(n)
       /\ action = "reassign" => agent \in Agents
       /\ action = "reject" => agent = NoActor
       /\ Await(c, [op |-> "resume", run |-> run, object |-> n,
                    action |-> action, reassignTo |-> agent])

\* The checkpoint is resolved whatever has become of it and of the task
\* meanwhile; check_transition may still refuse the rest.
FinishResolve(c) ==
  LET call == calls[c]
      target == IF call.action = "reject" THEN "completed" ELSE "in_progress"
  IN
  /\ Answered(c, "resume")
  /\ Tell(call.run, "running")
  /\ Answer(call.object, call.action)
  /\ IF LegalTransition(state, target)
       THEN /\ state' = target
            /\ IF target = "completed" THEN KeepOwnership
               ELSE ReturnTo(IF call.reassignTo # NoActor THEN {call.reassignTo}
                             ELSE LastAssigneeBefore("checkpoint"), "approve")
            /\ Commit(<<Event("task.checkpoint.resolved", "actor")>>)
       ELSE KeepOwnership /\ Refused
  /\ UNCHANGED <<steering, artifacts, reviews, run>>

\* checkpoint_expire, called by the sweep or directly; the task stays as it is.
Expire(n) ==
  /\ MayCall("expire")
  /\ Open(n)
  /\ checkpoints' = [checkpoints EXCEPT ![n].state = "expired"]
  /\ UNCHANGED state
  /\ KeepOwnership
  /\ Commit(<<Event("task.checkpoint.expired", "system")>>)
  /\ UNCHANGED <<steering, artifacts, reviews, run, told, calls>>

\* ownership_transfer without the adapter.  Whoever holds the task and
\* whatever its state, the transfer is made unless the task is terminal.
TransferLocally(to, via) ==
  /\ MayCall("transfer")
  /\ state \notin TERMINAL_STATES
  /\ via = "handoff" => run = 0 \/ to = assignee
  /\ Transfer(to, via)
  /\ UNCHANGED state
  /\ Commit(<<Event("ownership.transferred", "actor")>>)
  /\ UNCHANGED <<checkpoints, steering, artifacts, reviews, run, told, calls>>

\* ownership_transfer with via="handoff" of a bound run to someone else
BeginHandoff(c) ==
  /\ MayCall("transfer")
  /\ state \notin TERMINAL_STATES
  /\ run # 0
  /\ "handoff" \in EnabledVias
  /\ \E to \in Actors \ {assignee} :
       Await(c, [op |-> "handoff", to |-> to, run |-> run])

\* No precondition is looked at again after the await.
FinishHandoff(c) ==
  /\ Answered(c, "handoff")
  /\ StartRun
  /\ Transfer(calls[c].to, "handoff")
  /\ run' = Len(told')
  /\ UNCHANGED state
  /\ Commit(<<Event("ownership.transferred", "actor")>>)
  /\ UNCHANGED <<checkpoints, steering, artifacts, reviews>>

\* ownership_delegate; nothing in the code ever sets delegable to False.
BeginDelegate(c) ==
  /\ MayCall("delegate")
  /\ state \notin TERMINAL_STATES
  /\ \E to \in Actors : Await(c, [op |-> "delegate", to |-> to])

\* No precondition is looked at again after the await.
FinishDelegate(c) ==
  /\ Answered(c, "delegate")
  /\ StartRun
  /\ Transfer(calls[c].to, "assign")
  /\ run' = Len(told')
  /\ UNCHANGED state
  /\ Commit(<<Event("ownership.delegated", "actor")>>)
  /\ UNCHANGED <<checkpoints, steering, artifacts, reviews>>

\* The adapter raises: the handler propagates it before it has changed anything.
AdapterFails(c) ==
  /\ calls[c] # Idle
  /\ calls' = [calls EXCEPT ![c] = Idle]
  /\ UNCHANGED <<taskVars, run, told, audit>>

\* artifact_commit
CommitArtifact ==
  /\ MayCall("commit")
  /\ state = "in_progress"
  /\ artifacts' = artifacts + 1
  /\ state' = "review_ready"
  /\ FallBackToPrincipal("handoff")
  /\ Commit(<<Event("artifact.committed", "actor")>>)
  /\ UNCHANGED <<checkpoints, steering, reviews, run, told, calls>>

\* The decision of review_submit: the aggregate of all versioned reviews of
\* this artifact under a policy, otherwise the verdict itself.
PolicyActive(kind) == RequiredReviewers # << >> /\ kind = "deliverable"

Outcome_AnyVersion(n, kind, verdict) ==
  LET counted == {i \in DOMAIN reviews' : reviews'[i].artifact = n}
  IN IF PolicyActive(kind)
       THEN EvaluateReviewOutcome([i \in counted |-> reviews'[i]],
                                  RequiredReviewers, Quorum)
       ELSE verdict
Outcome(n, kind, verdict) ==
  LET counted == {i \in DOMAIN reviews' : /\ reviews'[i].artifact = n
                                          /\ reviews'[i].versioned}
  IN IF PolicyActive(kind)
       THEN EvaluateReviewOutcome([i \in counted |-> reviews'[i]],
                                  RequiredReviewers, Quorum)
       ELSE verdict

\* review_submit: any artifact of the task may be named, also a superseded one.
SubmitReview(n, reviewer, kind, verdict) ==
  /\ MayCall("review")
  /\ state \in {"review_ready", "under_review"}
  /\ PolicyActive(kind) => \E seat \in DOMAIN RequiredReviewers :
                             RequiredReviewers[seat] = reviewer
  /\ reviews' = Append(reviews, [artifact |-> n, reviewer |-> reviewer,
                                 kind |-> kind, verdict |-> verdict,
                                 versioned |-> PolicyActive(kind)])
  /\ LET outcome == Outcome(n, kind, verdict)
         rework == \/ outcome = "changes_requested"
                   \/ kind = "plan" /\ outcome = "approved"
     IN /\ state' = IF rework THEN "in_progress"
                    ELSE IF outcome = "approved" THEN "completed"
                    ELSE IF outcome = "rejected" THEN "rejected"
                    ELSE "under_review"
        /\ IF rework
             THEN ReturnTo(LastAssigneeBefore("handoff"),
                           IF outcome = "approved" THEN "approve" ELSE "reject")
             ELSE KeepOwnership
  /\ LET submitted == Event("review.submitted", "actor")
     IN Commit(IF kind = "deliverable" /\ verdict = "approved" /\ state' = "completed"
                 THEN <<submitted, Event("task.completed", "system")>>
                 ELSE <<submitted>>)
  /\ UNCHANGED <<checkpoints, steering, artifacts, run, told, calls>>

\* review_comment: a new review that repeats the verdict, with no version and
\* by anyone; the task and its revision are not touched.
CommentReview(n, by) ==
  /\ MayCall("comment")
  /\ Len(reviews) < MaxReviews
  /\ reviews' = Append(reviews, [reviews[n] EXCEPT !.reviewer = by,
                                                   !.versioned = FALSE])
  /\ UNCHANGED <<state, assignee, chain, revision, checkpoints, steering,
                 artifacts, run, told, calls>>
  /\ audit' = Append(audit, Event("review.commented", "actor"))
-----------------------------------------------------------------------------
AwaitingStep(c) ==
  \/ BeginAssign(c) \/ FinishAssign(c)
  \/ BeginCancel(c) \/ FinishCancel(c)
  \/ BeginAmend(c) \/ FinishAmend(c)
  \/ BeginBlock(c, "interrupt") \/ BeginBlock(c, "raise") \/ FinishBlock(c)
  \/ BeginResolve(c) \/ FinishResolve(c)
  \/ BeginHandoff(c) \/ FinishHandoff(c)
  \/ BeginDelegate(c) \/ FinishDelegate(c)
  \/ AdapterFails(c)

LocalStep ==
  \/ Start
  \/ CancelUnbound
  \/ \E n \in DOMAIN checkpoints : Expire(n)
  \/ \E to \in Actors, via \in EnabledVias : TransferLocally(to, via)
  \/ CommitArtifact
  \/ \E n \in 1 .. artifacts, reviewer \in Humans,
        kind \in ReviewKind, verdict \in ReviewVerdict :
       SubmitReview(n, reviewer, kind, verdict)
  \/ \E n \in DOMAIN reviews, by \in Actors : CommentReview(n, by)

Next == LocalStep \/ \E c \in Calls : AwaitingStep(c)

Spec == Init /\ [][Next]_vars
-----------------------------------------------------------------------------
\* What holds however the calls interleave.

\* The forward-only rule (check_transition, state_machine.py:20-36): however
\* late an adapter answers, no handler takes a task out of a terminal state.
TerminalIsFinal == [][(state \in TERMINAL_STATES) => state' = state]_vars

\* The credential chain (Ownership.transfer, objects.py:377-388): it starts at
\* the principal, each entry continues the one before, the last names the
\* assignee, although several handlers move the ownership around their awaits.
ChainLinked ==
  /\ chain = << >> => assignee = Principal
  /\ chain # << >> => /\ chain[1].from = Principal
                      /\ chain[Len(chain)].to = assignee
  /\ \A i \in 1 .. Len(chain) - 1 : chain[i].to = chain[i+1].from

\* A blocked task waits for something: the checkpoint stored last is pending,
\* or it has expired and the task is suspended (checkpoint.py:95-100, 208-217,
\* 261).  No order of raises, interrupts, resolutions and expiries leaves a
\* blocked task whose last checkpoint is resolved.
BlockedHasOpenCheckpoint ==
  state = "blocked" =>
    /\ checkpoints # << >>
    /\ checkpoints[Len(checkpoints)].state \in {"pending", "expired"}

\* A task that is being worked on or reviewed has a bound run, so that amend,
\* interrupt, raise and resolve always reach the agent (run_of_task is not
\* None, task.py:129, 263, 346; checkpoint.py:73, 190).
WorkHasRun ==
  state \in {"assigned", "in_progress", "blocked", "review_ready", "under_review"}
    => run # 0

\* The events that a committed operation appends on its own account: all but
\* the creation, comments and the second event of an interrupt or approval.
OperationEvent(e) ==
  /\ e.action \notin {"task.created", "task.completed", "review.commented"}
  /\ ~(e.action = "task.checkpoint.raised" /\ e.by = "system")

\* Every revision is explained by exactly one operation in the audit log, and
\* the log orders the operations by revision (_audit and _commit_task_operation
\* of one call are never separated by another call).
OneEventPerRevision ==
  /\ \A r \in 0 .. revision - 1 :
       \E i \in DOMAIN audit : audit[i].revision = r /\ OperationEvent(audit[i])
  /\ \A i, j \in DOMAIN audit :
       /\ i < j => audit[i].revision <= audit[j].revision
       /\ i < j /\ OperationEvent(audit[i]) /\ OperationEvent(audit[j])
            => audit[i].revision < audit[j].revision

\* The audit log alone shows a legal history: the snapshots of consecutive
\* events are one handler's move apart and the last one is the task's state
\* (_audit_reducer_payload, _base.py:273-300).
AuditReplaysToState ==
  /\ audit[Len(audit)].state = state
  /\ \A i \in 1 .. Len(audit) - 1 :
       HandlerMove(audit[i].state, audit[i+1].state)
-----------------------------------------------------------------------------
\* What holds only while calls do not overlap (one slot), or should.

\* A pending checkpoint is one its human can still answer, or its task was
\* cancelled (task.cancel leaves the checkpoint pending, task.py:206-219).
PendingIsAnswerable ==
  \A n \in DOMAIN checkpoints : Open(n) => state \in {"blocked", "completed"}

\* The agent is not left waiting: while the task is in progress, the last
\* thing its run was told is not to block (task.py:359, checkpoint.py:87, 201).
RunNotLeftBlocked == state = "in_progress" => told[run] # "blocked"

\* The run that carries a task in progress has not been cancelled
\* (task.py:182-211; spec 4.3, task.cancel).
WorkOnLiveRun == state = "in_progress" => told[run] # "cancelled"

\* A cancelled task has stopped the agent: the run bound to it was told to
\* cancel (task.py:187-205; spec 5.1, task.cancel).
CancelStopsRun ==
  /\ state = "completed"
  /\ run # 0
  /\ \E i \in DOMAIN audit : audit[i].action = "task.cancelled"
  => told[run] = "cancelled"

\* An answer that lets the task continue gives it back to the agent that held
\* it when it was blocked, whoever held it in between (checkpoint.py:216-225):
\* the audit event before the last raise or interrupt shows the holder.
HolderBeforeBlock ==
  LET Blocks(i) == audit[i].action \in {"task.interrupted", "task.checkpoint.raised"}
                   /\ audit[i].by = "actor"
  IN {audit[i-1].assignee : i \in {i \in DOMAIN audit :
        Blocks(i) /\ \A j \in i+1 .. Len(audit) : ~Blocks(j)}}

AnswerReturnsToHolder ==
  [][\A c \in Calls :
       /\ calls[c].op = "resume" /\ calls'[c] = Idle
       /\ state = "blocked" /\ state' = "in_progress"
       /\ calls[c].reassignTo = NoActor
       /\ HolderBeforeBlock \subseteq Agents
       => HolderBeforeBlock = {assignee'}]_vars

\* What a client sees of the task: whether some checkpoint waits for an answer,
\* and what the agent was told last.
Asked == \E n \in DOMAIN checkpoints : Open(n)
AgentTold == IF run = 0 THEN "none" ELSE told[run]

Atomic == INSTANCE AtomicTask WITH status <- state, holder <- assignee,
                                   asked <- Asked, agent <- AgentTold

\* A client that awaits its calls sees them take effect at once and in full,
\* state, holder, checkpoint, agent and revision together, although no handler
\* repeats after its await what it checked before; only a cancellation that is
\* refused under review has moved the task and stopped the agent
\* (task.py:182-219, checkpoint.py:190-233, ownership.py:69-85).
CallsTakeEffectAtOnce == Atomic!Spec

\* Not kept: a late handler that is refused has changed the task already.
\* Whatever a call does to the ownership, the checkpoints or the steering log
\* of the task is on record (spec 6.3: state, ownership and audit agree).
MutationsAreAudited ==
  [][UNCHANGED <<state, assignee, chain, checkpoints, steering, artifacts>>
     \/ Len(audit') > Len(audit)]_vars

\* A checkpoint that was answered keeps its answer (checkpoint.py:155-164,
\* 208-209): the object never changes once it has left pending.
AnswerIsFinal ==
  [][\A n \in DOMAIN checkpoints :
       checkpoints[n].state # "pending" => checkpoints'[n] = checkpoints[n]]_vars
-----------------------------------------------------------------------------
\* Reviews.

\* The latest versioned verdicts on artifact n, seat by seat.
SeatVerdicts(n) ==
  [seat \in DOMAIN RequiredReviewers |->
     {reviews[i].verdict : i \in {i \in DOMAIN reviews :
        /\ reviews[i].artifact = n /\ reviews[i].versioned
        /\ reviews[i].reviewer = RequiredReviewers[seat]
        /\ \A j \in i+1 .. Len(reviews) :
             ~(/\ reviews[j].artifact = n /\ reviews[j].versioned
               /\ reviews[j].reviewer = RequiredReviewers[seat])}}]

\* The reviewers stand behind artifact n: nobody's last word is a veto and the
\* seats that do not approve are few enough for the quorum.
Endorsed(n) ==
  LET seats == DOMAIN RequiredReviewers
      missing == Cardinality({seat \in seats : SeatVerdicts(n)[seat] # {"approved"}})
  IN /\ \A seat \in seats : SeatVerdicts(n)[seat] # {"rejected"}
     /\ CASE Quorum = "all" -> missing = 0
          [] Quorum = "majority" -> missing < Cardinality(seats) - missing
          [] Quorum = "any" -> missing < Cardinality(seats)

Delivered == \E i \in DOMAIN audit : audit[i].action = "task.completed"

\* Under a policy a task is completed by review only with the quorum's
\* approval of one version, however verdicts were revised and commented on
\* (review.py:12-39, 128-142).
DeliveryIsEndorsed ==
  Delivered /\ RequiredReviewers # << >> => \E n \in 1 .. artifacts : Endorsed(n)

\* Not kept, as approvals of a superseded version count for it:
\* ... and that version is the current one (spec 3.6: the latest verdicts on
\* the current version of the artifact).
DeliveryIsCurrent ==
  Delivered /\ RequiredReviewers # << >> => Endorsed(artifacts)

\* While the task waits for more reviews there is something to wait for: the
\* reviews so far leave the outcome of every version open (review.py:156).
UnderReviewIsUndecided ==
  state = "under_review" =>
    \A n \in 1 .. artifacts :
      /\ ~Endorsed(n)
      /\ \A seat \in DOMAIN RequiredReviewers :
           SeatVerdicts(n)[seat] # {"rejected"}
=============================================================================
