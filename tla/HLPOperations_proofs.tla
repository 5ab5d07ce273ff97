------------------------ MODULE HLPOperations_proofs ------------------------
(***************************************************************************)
(* What holds of HLPOperations for any number of humans, agents, callers   *)
(* and requests, any review policy and any bound.                          *)
(***************************************************************************)
EXTENDS HLPOperations, SequenceTheorems, TLAPS

\* The parts of the inductive invariant.  What a call keeps over its await is
\* still good when the adapter answers: its run is in the adapter's registry,
\* the checkpoint object it answers is stored.
LocalsValid ==
  \A c \in Calls :
    /\ calls[c].op \in {"cancel", "amend", "block", "resume", "handoff"}
         => calls[c].run \in 1 .. Len(told)
    /\ calls[c].op = "resume" => calls[c].object \in 1 .. Len(checkpoints)

Ownership ==
  /\ assignee \in Actors
  /\ chain \in Seq(OwnershipTransfer)
  /\ ChainLinked

Log ==
  /\ revision \in Nat
  /\ audit \in Seq(AuditEvent)

Runs ==
  /\ told \in Seq(RunStatus)
  /\ run \in 0 .. Len(told)

CallsTyped == calls \in [Calls -> InFlight \cup {Idle}]
-----------------------------------------------------------------------------
\* Ownership.transfer keeps the chain linked, whoever receives the task.
LEMMA TransferKeepsOwnership ==
  ASSUME Ownership, NEW to \in Actors, NEW via \in OwnershipTransferVia,
         Transfer(to, via)
  PROVE  Ownership'
<1> DEFINE link == [from |-> assignee, to |-> to, via |-> via]
<1>1. link \in OwnershipTransfer
  BY DEF Ownership, OwnershipTransfer
<1>2. /\ chain' \in Seq(OwnershipTransfer)
      /\ Len(chain') = Len(chain) + 1
      /\ \A i \in 1 .. Len(chain) : chain'[i] = chain[i]
      /\ chain'[Len(chain) + 1] = link
  BY <1>1 DEF Ownership, Transfer
<1>3. assignee' = to
  BY DEF Transfer
<1>4. Len(chain) \in Nat
  BY DEF Ownership
<1>5. chain' # << >>
  BY <1>2, <1>4
<1>6. CASE chain = << >>
  <2>1. Len(chain) = 0 /\ assignee = Principal
    BY <1>6 DEF Ownership, ChainLinked
  <2> QED
    BY <1>2, <1>3, <1>5, <2>1 DEF Ownership, ChainLinked
<1>7. CASE chain # << >>
  <2>1. Len(chain) > 0
    BY <1>7, <1>4, EmptySeq DEF Ownership
  <2>2. chain'[1].from = Principal
    BY <1>2, <1>4, <1>7, <2>1 DEF Ownership, ChainLinked
  <2>3. chain'[Len(chain')].to = assignee'
    BY <1>2, <1>3
  <2>4. ASSUME NEW i \in 1 .. Len(chain') - 1
        PROVE  chain'[i].to = chain'[i+1].from
    <3>1. CASE i = Len(chain)
      BY <3>1, <1>2, <1>7, <2>1 DEF Ownership, ChainLinked
    <3>2. CASE i # Len(chain)
      <4>1. i \in 1 .. Len(chain) - 1 /\ i + 1 \in 1 .. Len(chain)
        BY <3>2, <1>2, <1>4
      <4> QED
        BY <4>1, <1>2, <1>4 DEF Ownership, ChainLinked
    <3> QED
      BY <3>1, <3>2
  <2> QED
    BY <1>2, <1>3, <1>5, <2>2, <2>3, <2>4 DEF Ownership, ChainLinked
<1> QED
  BY <1>6, <1>7

LEMMA KeepOwnershipKeepsOwnership ==
  ASSUME Ownership, KeepOwnership
  PROVE  Ownership'
BY DEF Ownership, KeepOwnership, ChainLinked

LEMMA FallBackKeepsOwnership ==
  ASSUME Ownership, NEW via \in OwnershipTransferVia, FallBackToPrincipal(via)
  PROVE  Ownership'
<1>1. Principal \in Actors
  BY ActorsAssumption DEF Actors
<1> QED
  BY <1>1, TransferKeepsOwnership, KeepOwnershipKeepsOwnership
     DEF FallBackToPrincipal

\* Who is looked up in the chain is an actor.
LEMMA LastAssigneeIsActor ==
  ASSUME Ownership, NEW via
  PROVE  LastAssigneeBefore(via) \subseteq Actors
<1>1. \A i \in 1 .. Len(chain) : chain[i] \in OwnershipTransfer
  BY ElementOfSeq DEF Ownership
<1>2. \A i \in 1 .. Len(chain) : chain[i].from \in Actors
  BY <1>1 DEF OwnershipTransfer
<1>3. DOMAIN chain = 1 .. Len(chain)
  BY DEF Ownership
<1> QED
  BY <1>2, <1>3 DEF LastAssigneeBefore

LEMMA ReturnKeepsOwnership ==
  ASSUME Ownership, NEW targets \in SUBSET Actors,
         NEW via \in OwnershipTransferVia, ReturnTo(targets, via)
  PROVE  Ownership'
BY TransferKeepsOwnership, KeepOwnershipKeepsOwnership DEF ReturnTo
-----------------------------------------------------------------------------
\* What the handlers write to the audit log, and the counter they advance.
LEMMA EventType ==
  ASSUME revision \in Nat, state' \in TaskState, assignee' \in Actors,
         NEW action \in AuditAction, NEW by \in {"actor", "system"}
  PROVE  Event(action, by) \in AuditEvent
BY DEF Event, AuditEvent

LEMMA CommitKeepsLog ==
  ASSUME Log, NEW events \in Seq(AuditEvent), Commit(events)
  PROVE  Log'
BY DEF Log, Commit

LEMMA CommitOneKeepsLog ==
  ASSUME Log, state' \in TaskState, Ownership', NEW action \in AuditAction,
         NEW by \in {"actor", "system"}, Commit(<<Event(action, by)>>)
  PROVE  Log'
<1>1. Event(action, by) \in AuditEvent
  BY EventType DEF Log, Ownership
<1>2. <<Event(action, by)>> \in Seq(AuditEvent)
  BY <1>1
<1> QED
  BY <1>2, CommitKeepsLog

LEMMA RefusedKeepsLog ==
  ASSUME Log, Refused
  PROVE  Log' /\ state' = state
BY DEF Log, Refused
-----------------------------------------------------------------------------
\* What a call in flight carries.
LEMMA LocalTypes ==
  ASSUME CallsTyped, NEW c \in Calls
  PROVE  /\ calls[c].op \in {"assign", "delegate", "handoff"} => calls[c].to \in Actors
         /\ calls[c].op = "block" => calls[c].id \in CheckpointId
         /\ calls[c].op = "resume" =>
              /\ calls[c].action \in ResolutionAction
              /\ calls[c].reassignTo \in Actors \cup {NoActor}
<1>1. calls[c] \in InFlight \cup {Idle}
  BY DEF CallsTyped
<1> QED
  BY <1>1 DEF InFlight, Idle

\* A call ends while the registry and the checkpoints only grow: the locals of
\* the other calls stay good.
LEMMA AnsweredKeepsLocals ==
  ASSUME CallsTyped, LocalsValid, NEW c \in Calls, NEW op, Answered(c, op),
         Len(told) \in Nat, Len(told') \in Nat, Len(told) <= Len(told'),
         Len(checkpoints) \in Nat, Len(checkpoints') \in Nat,
         Len(checkpoints) <= Len(checkpoints')
  PROVE  CallsTyped' /\ LocalsValid'
<1>1. CallsTyped'
  BY DEF CallsTyped, Answered
<1>2. ASSUME NEW d \in Calls
      PROVE  calls'[d] = calls[d] \/ calls'[d].op = "idle"
  BY DEF CallsTyped, Answered, Idle
<1>3. LocalsValid'
  BY <1>2 DEF LocalsValid
<1> QED
  BY <1>1, <1>3

LEMMA SameCallsKeepLocals ==
  ASSUME CallsTyped, LocalsValid, UNCHANGED calls,
         Len(told') = Len(told), Len(checkpoints') = Len(checkpoints)
  PROVE  CallsTyped' /\ LocalsValid'
BY DEF CallsTyped, LocalsValid
-----------------------------------------------------------------------------
\* The registry of runs.
LEMMA TellKeepsRuns ==
  ASSUME told \in Seq(RunStatus), NEW r \in 1 .. Len(told),
         NEW status \in RunStatus, Tell(r, status)
  PROVE  told' \in Seq(RunStatus) /\ Len(told') = Len(told)
BY DEF Tell

LEMMA StartRunGrowsRuns ==
  ASSUME told \in Seq(RunStatus), StartRun
  PROVE  told' \in Seq(RunStatus) /\ Len(told') = Len(told) + 1
<1>1. "running" \in RunStatus
  BY DEF RunStatus
<1> QED
  BY <1>1 DEF StartRun

\* The checkpoint objects.
LEMMA StoreGrowsCheckpoints ==
  ASSUME checkpoints \in Seq(Checkpoint), NEW id \in CheckpointId,
         StoreCheckpoint(id)
  PROVE  /\ checkpoints' \in Seq(Checkpoint)
         /\ Len(checkpoints') = Len(checkpoints) + 1
         /\ checkpoints'[Len(checkpoints')].state = "pending"
<1> DEFINE new == [id |-> id, state |-> "pending", action |-> "none"]
<1>1. new \in Checkpoint
  BY DEF Checkpoint, CheckpointState
<1>2. checkpoints' = Append(checkpoints, new)
  BY DEF StoreCheckpoint
<1> QED
  BY <1>1, <1>2

LEMMA AnswerKeepsCheckpoints ==
  ASSUME checkpoints \in Seq(Checkpoint), NEW n \in 1 .. Len(checkpoints),
         NEW action \in ResolutionAction, Answer(n, action)
  PROVE  /\ checkpoints' \in Seq(Checkpoint)
         /\ Len(checkpoints') = Len(checkpoints)
<1> DEFINE answered == [[checkpoints[n] EXCEPT !.state = "resolved"]
                          EXCEPT !.action = action]
<1>1. checkpoints[n] \in Checkpoint
  BY ElementOfSeq
<1>2. answered \in Checkpoint
  BY <1>1 DEF Checkpoint, CheckpointState
<1>3. checkpoints' = [checkpoints EXCEPT ![n] = answered]
  BY DEF Answer
<1> QED
  BY <1>2, <1>3, ExceptSeq
-----------------------------------------------------------------------------
\* The inductive invariant: the types, what calls in flight rely on, and the
\* invariants that a handler which runs after its await relies on.
Objects ==
  /\ checkpoints \in Seq(Checkpoint)
  /\ steering \in Nat
  /\ artifacts \in Nat
  /\ reviews \in Seq(Review)

IInv ==
  /\ state \in TaskState
  /\ Ownership
  /\ Log
  /\ Runs
  /\ Objects
  /\ CallsTyped
  /\ LocalsValid
  /\ WorkHasRun
  /\ BlockedHasOpenCheckpoint

\* The table, read off for the moves the handlers ask check_transition for.
LEMMA LegalMoves ==
  ASSUME state \in TaskState
  PROVE  /\ LegalTransition(state, "assigned") =>
              state \in {"created", "assigned"}
         /\ LegalTransition(state, "blocked") =>
              state \in {"in_progress", "blocked"}
         /\ LegalTransition(state, "in_progress") =>
              state \in {"assigned", "in_progress", "blocked", "under_review"}
         /\ LegalTransition(state, "completed") =>
              state \notin {"review_ready", "under_review", "rejected"}
         /\ state = "blocked" => /\ LegalTransition(state, "in_progress")
                                 /\ LegalTransition(state, "completed")
BY DEF TaskState, LegalTransition, LEGAL_TRANSITIONS

LEMMA InitEstablishesIInv == Init => IInv
<1> SUFFICES ASSUME Init PROVE IInv
  OBVIOUS
<1> USE DEF Init
<1>1. state \in TaskState
  BY DEF TaskState
<1>2. Principal \in Actors
  BY ActorsAssumption DEF Actors
<1>3. Ownership
  BY <1>2 DEF Ownership, ChainLinked
<1>4. Log
  <2>1. audit[1] \in AuditEvent
    BY <1>1, <1>2 DEF AuditEvent, AuditAction
  <2> QED
    BY <2>1 DEF Log
<1>5. Runs /\ Objects
  BY DEF Runs, Objects
<1>6. CallsTyped
  BY DEF CallsTyped
<1>7. LocalsValid
  BY DEF LocalsValid, Idle
<1> QED
  BY <1>1, <1>3, <1>4, <1>5, <1>6, <1>7
     DEF IInv, WorkHasRun, BlockedHasOpenCheckpoint

\* A handler that stops at its await leaves everything else alone.
LEMMA AwaitKeepsIInv ==
  ASSUME IInv, NEW c \in Calls, NEW local \in InFlight, Await(c, local),
         local.op \in {"cancel", "amend", "block", "resume", "handoff"}
           => local.run \in 1 .. Len(told),
         local.op = "resume" => local.object \in 1 .. Len(checkpoints)
  PROVE  IInv'
<1> USE DEF Await, taskVars
<1>1. CallsTyped'
  BY DEF IInv, CallsTyped
<1>2. ASSUME NEW d \in Calls
      PROVE  calls'[d] = IF d = c THEN local ELSE calls[d]
  BY DEF IInv, CallsTyped
<1>3. LocalsValid'
  BY <1>2 DEF IInv, LocalsValid
<1>4. (state \in TaskState)' /\ Ownership' /\ Log' /\ Runs' /\ Objects'
  BY DEF IInv, Ownership, ChainLinked, Log, Runs, Objects
<1>5. WorkHasRun' /\ BlockedHasOpenCheckpoint'
  BY DEF IInv, WorkHasRun, BlockedHasOpenCheckpoint
<1> QED
  BY <1>1, <1>3, <1>4, <1>5 DEF IInv

LEMMA BeginsKeepIInv ==
  ASSUME IInv, NEW c \in Calls,
         \/ BeginAssign(c) \/ BeginCancel(c) \/ BeginAmend(c)
         \/ BeginBlock(c, "interrupt") \/ BeginBlock(c, "raise")
         \/ BeginResolve(c) \/ BeginHandoff(c) \/ BeginDelegate(c)
  PROVE  IInv'
<1>0. /\ Len(told) \in Nat /\ run \in 0 .. Len(told)
      /\ DOMAIN checkpoints = 1 .. Len(checkpoints)
      /\ revision \in Nat
  BY DEF IInv, Runs, Objects, Log
<1>1. state \in {"in_progress", "blocked"} => run # 0
  BY DEF IInv, WorkHasRun
<1>2. CASE BeginAssign(c)
  <2>1. PICK to \in Actors : Await(c, [op |-> "assign", to |-> to])
    BY <1>2 DEF BeginAssign
  <2>2. [op |-> "assign", to |-> to] \in InFlight
    BY DEF InFlight
  <2> QED
    BY <2>1, <2>2, AwaitKeepsIInv
<1>3. CASE BeginCancel(c)
  <2>1. Await(c, [op |-> "cancel", run |-> run]) /\ run # 0
    BY <1>3 DEF BeginCancel
  <2>2. [op |-> "cancel", run |-> run] \in InFlight
    BY <1>0 DEF InFlight
  <2> QED
    BY <1>0, <2>1, <2>2, AwaitKeepsIInv
<1>4. CASE BeginAmend(c)
  <2> DEFINE local == [op |-> "amend", run |-> run, stateBefore |-> state]
  <2>1. Await(c, local) /\ run # 0
    BY <1>1, <1>4 DEF BeginAmend
  <2>2. local \in InFlight
    BY <1>0 DEF InFlight, IInv
  <2> QED
    BY <1>0, <2>1, <2>2, AwaitKeepsIInv
<1>5. ASSUME NEW op \in {"interrupt", "raise"}, BeginBlock(c, op)
      PROVE  IInv'
  <2>1. PICK request \in Requests :
          Await(c, [op |-> "block", run |-> run,
                    id |-> [op |-> op, request |-> request, revision |-> revision]])
    BY <1>5 DEF BeginBlock
  <2> DEFINE local ==
          [op |-> "block", run |-> run,
           id |-> [op |-> op, request |-> request, revision |-> revision]]
  <2>2. run # 0
    BY <1>1, <1>5 DEF BeginBlock
  <2>3. local.id \in CheckpointId
    BY <1>0 DEF CheckpointId
  <2>4. local \in InFlight
    BY <1>0, <2>3 DEF InFlight
  <2> QED
    BY <1>0, <2>1, <2>2, <2>4, AwaitKeepsIInv
<1>6. CASE BeginResolve(c)
  <2>1. PICK n \in DOMAIN checkpoints, action \in ResolutionAction,
             agent \in Actors \cup {NoActor} :
          Await(c, [op |-> "resume", run |-> run, object |-> n,
                    action |-> action, reassignTo |-> agent])
    BY <1>6 DEF BeginResolve
  <2> DEFINE local == [op |-> "resume", run |-> run, object |-> n,
                       action |-> action, reassignTo |-> agent]
  <2>2. run # 0
    BY <1>1, <1>6 DEF BeginResolve
  <2>3. local \in InFlight
    BY <1>0 DEF InFlight
  <2> QED
    BY <1>0, <2>1, <2>2, <2>3, AwaitKeepsIInv
<1>7. CASE BeginHandoff(c)
  <2>1. PICK to \in Actors \ {assignee} :
          Await(c, [op |-> "handoff", to |-> to, run |-> run])
    BY <1>7 DEF BeginHandoff
  <2>2. [op |-> "handoff", to |-> to, run |-> run] \in InFlight /\ run # 0
    BY <1>0, <1>7 DEF InFlight, BeginHandoff
  <2> QED
    BY <1>0, <2>1, <2>2, AwaitKeepsIInv
<1>8. CASE BeginDelegate(c)
  <2>1. PICK to \in Actors : Await(c, [op |-> "delegate", to |-> to])
    BY <1>8 DEF BeginDelegate
  <2>2. [op |-> "delegate", to |-> to] \in InFlight
    BY DEF InFlight
  <2> QED
    BY <2>1, <2>2, AwaitKeepsIInv
<1> QED
  BY <1>2, <1>3, <1>4, <1>5, <1>6, <1>7, <1>8
-----------------------------------------------------------------------------
\* The handlers after their await, one lemma each.
LEMMA FinishAssignKeepsIInv ==
  ASSUME IInv, NEW c \in Calls, FinishAssign(c)
  PROVE  IInv'
<1> USE DEF FinishAssign
<1>1. calls[c].op = "assign" /\ Answered(c, "assign")
  BY DEF Answered
<1>2. calls[c].to \in Actors
  BY <1>1, LocalTypes DEF IInv
<1>3. /\ told' \in Seq(RunStatus)
      /\ Len(told') = Len(told) + 1
      /\ Len(told) \in Nat
  BY StartRunGrowsRuns DEF IInv, Runs
<1>4. Ownership'
  BY <1>2, TransferKeepsOwnership DEF IInv, OwnershipTransferVia
<1>5. Objects' /\ Len(checkpoints) \in Nat
  BY DEF IInv, Objects
<1>6. CallsTyped' /\ LocalsValid'
  BY <1>1, <1>3, <1>5, AnsweredKeepsLocals DEF IInv
<1>7. CASE LegalTransition(state, "assigned")
  <2>1. state' = "assigned" /\ Commit(<<Event("task.assigned", "actor")>>)
    BY <1>7
  <2>2. state' \in TaskState
    BY <2>1 DEF TaskState
  <2>3. Log'
    BY <2>1, <2>2, <1>4, CommitOneKeepsLog DEF IInv, AuditAction
  <2>4. Runs' /\ run' # 0
    BY <1>3, <1>7 DEF Runs
  <2> QED
    BY <1>4, <1>5, <1>6, <2>1, <2>2, <2>3, <2>4
       DEF IInv, WorkHasRun, BlockedHasOpenCheckpoint
<1>8. CASE ~LegalTransition(state, "assigned")
  <2>1. Log' /\ state' = state /\ run' = run
    BY <1>8, RefusedKeepsLog DEF IInv
  <2>2. Runs'
    BY <1>3, <2>1 DEF IInv, Runs
  <2> QED
    BY <1>4, <1>5, <1>6, <2>1, <2>2
       DEF IInv, WorkHasRun, BlockedHasOpenCheckpoint
<1> QED
  BY <1>7, <1>8

\* The end of task_cancel, with or without an adapter call before it.
LEMMA CloseTaskKeepsTask ==
  ASSUME IInv, CloseTask
  PROVE  /\ state' \in TaskState
         /\ Ownership' /\ Log' /\ Objects'
         /\ run' = run
         /\ WorkHasRun' /\ BlockedHasOpenCheckpoint'
<1> USE DEF CloseTask
<1>1. Ownership'
  BY FallBackKeepsOwnership DEF IInv, OwnershipTransferVia
<1>2. Objects' /\ run' = run /\ checkpoints' = checkpoints
  BY DEF IInv, Objects
<1>3. CASE LegalTransition(state, "completed")
  <2>1. /\ state' = "completed"
        /\ Commit(<<Event("task.cancelled", "actor")>>)
    BY <1>3
  <2>2. state' \in TaskState
    BY <2>1 DEF TaskState
  <2>3. Log'
    BY <2>1, <2>2, <1>1, CommitOneKeepsLog DEF IInv, AuditAction
  <2> QED
    BY <1>1, <1>2, <2>1, <2>2, <2>3
       DEF WorkHasRun, BlockedHasOpenCheckpoint
<1>4. CASE ~LegalTransition(state, "completed")
  <2>1. Log' /\ state' = state
    BY <1>4, RefusedKeepsLog DEF IInv
  <2> QED
    BY <1>1, <1>2, <2>1 DEF IInv, WorkHasRun, BlockedHasOpenCheckpoint
<1> QED
  BY <1>3, <1>4

LEMMA FinishCancelKeepsIInv ==
  ASSUME IInv, NEW c \in Calls, FinishCancel(c)
  PROVE  IInv'
<1> USE DEF FinishCancel
<1>1. calls[c].op = "cancel" /\ Answered(c, "cancel")
  BY DEF Answered
<1>2. calls[c].run \in 1 .. Len(told) /\ "cancelled" \in RunStatus
  BY <1>1 DEF IInv, LocalsValid, RunStatus
<1>3. told' \in Seq(RunStatus) /\ Len(told') = Len(told) /\ Len(told) \in Nat
  BY <1>2, TellKeepsRuns DEF IInv, Runs
<1>4. /\ state' \in TaskState /\ Ownership' /\ Log' /\ Objects'
      /\ run' = run /\ WorkHasRun' /\ BlockedHasOpenCheckpoint'
  BY CloseTaskKeepsTask
<1>5. Runs'
  BY <1>3, <1>4 DEF IInv, Runs
<1>6. /\ Len(checkpoints) \in Nat /\ Len(checkpoints') \in Nat
      /\ checkpoints' = checkpoints
  BY DEF CloseTask, IInv, Objects
<1>7. CallsTyped' /\ LocalsValid'
  BY <1>1, <1>3, <1>6, AnsweredKeepsLocals DEF IInv
<1> QED
  BY <1>4, <1>5, <1>7 DEF IInv

LEMMA FinishAmendKeepsIInv ==
  ASSUME IInv, NEW c \in Calls, FinishAmend(c)
  PROVE  IInv'
<1> USE DEF FinishAmend
<1>1. Answered(c, "amend")
  OBVIOUS
<1>2. Ownership'
  BY KeepOwnershipKeepsOwnership DEF IInv
<1>3. Objects' /\ Runs' /\ run' = run /\ checkpoints' = checkpoints
  BY DEF IInv, Objects, Runs
<1>4. Len(told) \in Nat /\ Len(checkpoints) \in Nat /\ told' = told
  BY DEF IInv, Objects, Runs
<1>5. CallsTyped' /\ LocalsValid'
  BY <1>1, <1>3, <1>4, AnsweredKeepsLocals DEF IInv
<1>6. Log' /\ state' = state
  <2>1. CASE state = calls[c].stateBefore
    <3>1. state' = state /\ Commit(<<Event("task.amended", "actor")>>)
      BY <2>1
    <3> QED
      BY <3>1, <1>2, CommitOneKeepsLog DEF IInv, AuditAction
  <2>2. CASE state # calls[c].stateBefore
    BY <2>2, RefusedKeepsLog DEF IInv
  <2> QED
    BY <2>1, <2>2
<1> QED
  BY <1>2, <1>3, <1>5, <1>6 DEF IInv, WorkHasRun, BlockedHasOpenCheckpoint

LEMMA FinishBlockKeepsIInv ==
  ASSUME IInv, NEW c \in Calls, FinishBlock(c)
  PROVE  IInv'
<1> USE DEF FinishBlock
<1>1. calls[c].op = "block" /\ Answered(c, "block")
  BY DEF Answered
<1>2. calls[c].run \in 1 .. Len(told) /\ "blocked" \in RunStatus
  BY <1>1 DEF IInv, LocalsValid, RunStatus
<1>3. told' \in Seq(RunStatus) /\ Len(told') = Len(told) /\ Len(told) \in Nat
  BY <1>2, TellKeepsRuns DEF IInv, Runs
<1>4. Runs' /\ run' = run
  BY <1>3 DEF IInv, Runs
<1>5. /\ checkpoints' \in Seq(Checkpoint)
      /\ Len(checkpoints') = Len(checkpoints) + 1
      /\ checkpoints'[Len(checkpoints')].state = "pending"
      /\ Len(checkpoints) \in Nat
  BY <1>1, LocalTypes, StoreGrowsCheckpoints DEF IInv, Objects
<1>6. Objects' /\ checkpoints' # << >>
  BY <1>5 DEF IInv, Objects
<1>7. CallsTyped' /\ LocalsValid'
  BY <1>1, <1>3, <1>5, AnsweredKeepsLocals DEF IInv
<1>8. BlockedHasOpenCheckpoint'
  BY <1>5, <1>6 DEF BlockedHasOpenCheckpoint
<1>9. CASE LegalTransition(state, "blocked")
  <2>1. state' = "blocked"
    BY <1>9
  <2>2. state' \in TaskState
    BY <2>1 DEF TaskState
  <2>3. run # 0
    BY <1>9, LegalMoves DEF IInv, WorkHasRun
  <2>4. CASE calls[c].id.op = "raise"
    <3>1. Ownership'
      BY <1>9, <2>4, TransferKeepsOwnership, ActorsAssumption
         DEF IInv, OwnershipTransferVia, Actors
    <3>2. Commit(<<Event("task.checkpoint.raised", "actor")>>)
      BY <1>9, <2>4
    <3>3. Log'
      BY <2>2, <3>1, <3>2, CommitOneKeepsLog DEF IInv, AuditAction
    <3> QED
      BY <1>4, <1>6, <1>7, <1>8, <2>2, <2>3, <3>1, <3>3 DEF IInv, WorkHasRun
  <2>5. CASE calls[c].id.op # "raise"
    <3>1. Ownership'
      BY <1>9, <2>5, FallBackKeepsOwnership DEF IInv, OwnershipTransferVia
    <3> DEFINE first == Event("task.interrupted", "actor")
               second == Event("task.checkpoint.raised", "system")
    <3>2. Commit(<<first, second>>)
      BY <1>9, <2>5
    <3>3. first \in AuditEvent
      BY <2>2, <3>1, EventType DEF IInv, Log, Ownership, AuditAction
    <3>4. second \in AuditEvent
      BY <2>2, <3>1, EventType DEF IInv, Log, Ownership, AuditAction
    <3> HIDE DEF first, second
    <3>5. <<first, second>> \in Seq(AuditEvent)
      BY <3>3, <3>4
    <3>6. Log'
      BY <3>2, <3>5, CommitKeepsLog DEF IInv
    <3> QED
      BY <1>4, <1>6, <1>7, <1>8, <2>2, <2>3, <3>1, <3>6 DEF IInv, WorkHasRun
  <2> QED
    BY <2>4, <2>5
<1>10. CASE ~LegalTransition(state, "blocked")
  <2>1. Log' /\ state' = state
    BY <1>10, RefusedKeepsLog DEF IInv
  <2>2. Ownership'
    BY <1>10, KeepOwnershipKeepsOwnership DEF IInv
  <2> QED
    BY <1>4, <1>6, <1>7, <1>8, <2>1, <2>2 DEF IInv, WorkHasRun
<1> QED
  BY <1>9, <1>10

LEMMA FinishResolveKeepsIInv ==
  ASSUME IInv, NEW c \in Calls, FinishResolve(c)
  PROVE  IInv'
<1> DEFINE call == calls[c]
           target == IF call.action = "reject" THEN "completed" ELSE "in_progress"
           targets == IF call.reassignTo # NoActor THEN {call.reassignTo}
                      ELSE LastAssigneeBefore("checkpoint")
<1>1. call.op = "resume" /\ Answered(c, "resume")
  BY DEF FinishResolve, Answered
<1>2. call.run \in 1 .. Len(told) /\ "running" \in RunStatus
  BY <1>1 DEF IInv, LocalsValid, RunStatus
<1>3. told' \in Seq(RunStatus) /\ Len(told') = Len(told) /\ Len(told) \in Nat
  BY <1>2, TellKeepsRuns DEF FinishResolve, IInv, Runs
<1>4. Runs' /\ run' = run
  BY <1>3 DEF FinishResolve, IInv, Runs
<1>5. /\ checkpoints' \in Seq(Checkpoint)
      /\ Len(checkpoints') = Len(checkpoints)
      /\ Len(checkpoints) \in Nat
  <2>1. call.object \in 1 .. Len(checkpoints)
    BY <1>1 DEF IInv, LocalsValid
  <2>2. call.action \in ResolutionAction
    BY <1>1, LocalTypes DEF IInv
  <2> QED
    BY <2>1, <2>2, AnswerKeepsCheckpoints DEF FinishResolve, IInv, Objects
<1>6. Objects'
  BY <1>5 DEF FinishResolve, IInv, Objects
<1>7. CallsTyped' /\ LocalsValid'
  BY <1>1, <1>3, <1>5, AnsweredKeepsLocals DEF IInv
<1>8. targets \in SUBSET Actors
  BY <1>1, LocalTypes, LastAssigneeIsActor DEF IInv
<1>9. CASE LegalTransition(state, target)
  <2>1. /\ state' = target
        /\ Commit(<<Event("task.checkpoint.resolved", "actor")>>)
        /\ IF target = "completed" THEN KeepOwnership
           ELSE ReturnTo(targets, "approve")
    BY <1>9 DEF FinishResolve
  <2>2. state' \in TaskState /\ state' # "blocked"
    BY <2>1 DEF TaskState
  <2>3. Ownership'
    <3>1. "approve" \in OwnershipTransferVia
      BY DEF OwnershipTransferVia
    <3> HIDE DEF targets, target
    <3> QED
      BY <1>8, <2>1, <3>1, ReturnKeepsOwnership, KeepOwnershipKeepsOwnership
         DEF IInv
  <2>4. Log'
    BY <2>1, <2>2, <2>3, CommitOneKeepsLog DEF IInv, AuditAction
  <2>5. WorkHasRun'
    BY <1>4, <1>9, <2>1, LegalMoves DEF IInv, WorkHasRun
  <2> QED
    BY <1>4, <1>6, <1>7, <2>2, <2>3, <2>4, <2>5 DEF IInv, BlockedHasOpenCheckpoint
<1>10. CASE ~LegalTransition(state, target)
  <2>1. Refused /\ KeepOwnership
    BY <1>10 DEF FinishResolve
  <2>2. Log' /\ state' = state /\ Ownership'
    BY <2>1, RefusedKeepsLog, KeepOwnershipKeepsOwnership DEF IInv
  <2>3. state # "blocked"
    BY <1>10, LegalMoves DEF IInv
  <2> QED
    BY <1>4, <1>6, <1>7, <2>2, <2>3 DEF IInv, WorkHasRun, BlockedHasOpenCheckpoint
<1> QED
  BY <1>9, <1>10

\* A handoff and a delegation end the same way: a new run, whatever has become
\* of the task.
LEMMA NewHolderKeepsIInv ==
  ASSUME IInv, NEW c \in Calls, NEW op, Answered(c, op), StartRun,
         NEW to \in Actors, NEW via \in OwnershipTransferVia, Transfer(to, via),
         run' = Len(told'), UNCHANGED <<state, checkpoints, steering, artifacts, reviews>>,
         NEW action \in AuditAction, Commit(<<Event(action, "actor")>>)
  PROVE  IInv'
<1>1. /\ told' \in Seq(RunStatus)
      /\ Len(told') = Len(told) + 1
      /\ Len(told) \in Nat
  BY StartRunGrowsRuns DEF IInv, Runs
<1>2. Runs' /\ run' # 0
  BY <1>1 DEF Runs
<1>3. Ownership'
  BY TransferKeepsOwnership DEF IInv
<1>4. Objects' /\ Len(checkpoints) \in Nat
  BY DEF IInv, Objects
<1>5. CallsTyped' /\ LocalsValid'
  BY <1>1, <1>4, AnsweredKeepsLocals DEF IInv
<1>6. Log'
  BY <1>3, CommitOneKeepsLog DEF IInv
<1> QED
  BY <1>2, <1>3, <1>4, <1>5, <1>6 DEF IInv, WorkHasRun, BlockedHasOpenCheckpoint

LEMMA FinishHandoffKeepsIInv ==
  ASSUME IInv, NEW c \in Calls, FinishHandoff(c)
  PROVE  IInv'
<1>1. calls[c].to \in Actors
  BY LocalTypes DEF IInv, FinishHandoff, Answered
<1>2. "handoff" \in OwnershipTransferVia /\ "ownership.transferred" \in AuditAction
  BY DEF OwnershipTransferVia, AuditAction
<1> QED
  BY <1>1, <1>2, NewHolderKeepsIInv DEF FinishHandoff

LEMMA FinishDelegateKeepsIInv ==
  ASSUME IInv, NEW c \in Calls, FinishDelegate(c)
  PROVE  IInv'
<1>1. calls[c].to \in Actors
  BY LocalTypes DEF IInv, FinishDelegate, Answered
<1>2. "assign" \in OwnershipTransferVia /\ "ownership.delegated" \in AuditAction
  BY DEF OwnershipTransferVia, AuditAction
<1> QED
  BY <1>1, <1>2, NewHolderKeepsIInv DEF FinishDelegate

LEMMA AdapterFailsKeepsIInv ==
  ASSUME IInv, NEW c \in Calls, AdapterFails(c)
  PROVE  IInv'
<1> USE DEF AdapterFails, taskVars
<1>1. Answered(c, calls[c].op)
  BY DEF Answered
<1>2. Len(told) \in Nat /\ Len(checkpoints) \in Nat
  BY DEF IInv, Runs, Objects
<1>3. CallsTyped' /\ LocalsValid'
  BY <1>1, <1>2, AnsweredKeepsLocals DEF IInv
<1>4. (state \in TaskState)' /\ Ownership' /\ Log' /\ Runs' /\ Objects'
  BY DEF IInv, Ownership, ChainLinked, Log, Runs, Objects
<1> QED
  BY <1>3, <1>4 DEF IInv, WorkHasRun, BlockedHasOpenCheckpoint
-----------------------------------------------------------------------------
\* The handlers that never await, one lemma each.
LEMMA LocalStepKeepsRuns ==
  ASSUME IInv, UNCHANGED <<run, told, calls>>, Len(checkpoints') = Len(checkpoints)
  PROVE  Runs' /\ CallsTyped' /\ LocalsValid'
<1>1. Runs'
  BY DEF IInv, Runs
<1> QED
  BY <1>1, SameCallsKeepLocals DEF IInv

LEMMA StartKeepsIInv ==
  ASSUME IInv, Start
  PROVE  IInv'
<1> USE DEF Start
<1>1. Runs' /\ CallsTyped' /\ LocalsValid'
  BY LocalStepKeepsRuns
<1>2. Ownership'
  BY KeepOwnershipKeepsOwnership DEF IInv
<1>3. state' \in TaskState /\ Objects' /\ state' = "in_progress"
  BY DEF IInv, Objects, TaskState
<1>4. Log'
  BY <1>2, <1>3, CommitOneKeepsLog DEF IInv, AuditAction
<1> QED
  BY <1>1, <1>2, <1>3, <1>4 DEF IInv, WorkHasRun, BlockedHasOpenCheckpoint

LEMMA CancelUnboundKeepsIInv ==
  ASSUME IInv, CancelUnbound
  PROVE  IInv'
<1>1. Runs' /\ CallsTyped' /\ LocalsValid'
  BY LocalStepKeepsRuns DEF CancelUnbound, CloseTask
<1> QED
  BY <1>1, CloseTaskKeepsTask DEF CancelUnbound, IInv

LEMMA ExpireKeepsIInv ==
  ASSUME IInv, NEW n \in DOMAIN checkpoints, Expire(n)
  PROVE  IInv'
<1> DEFINE expired == [checkpoints[n] EXCEPT !.state = "expired"]
<1>1. n \in 1 .. Len(checkpoints) /\ checkpoints[n] \in Checkpoint
  BY ElementOfSeq DEF IInv, Objects
<1>2. expired \in Checkpoint /\ expired.state = "expired"
  BY <1>1 DEF Checkpoint, CheckpointState
<1>3. checkpoints' = [checkpoints EXCEPT ![n] = expired]
  BY DEF Expire
<1>4. /\ checkpoints' \in Seq(Checkpoint)
      /\ Len(checkpoints') = Len(checkpoints)
      /\ \A m \in 1 .. Len(checkpoints) :
           checkpoints'[m] = IF m = n THEN expired ELSE checkpoints[m]
      /\ Len(checkpoints) \in Nat
  <2> HIDE DEF expired
  <2> QED
    BY <1>1, <1>2, <1>3, ExceptSeq DEF IInv, Objects
<1>5. Runs' /\ CallsTyped' /\ LocalsValid'
  BY <1>4, LocalStepKeepsRuns DEF Expire
<1>6. Ownership' /\ state' = state /\ run' = run
  BY KeepOwnershipKeepsOwnership DEF Expire, IInv
<1>7. Objects'
  BY <1>4 DEF Expire, IInv, Objects
<1>8. Log'
  BY <1>6, CommitOneKeepsLog DEF Expire, IInv, AuditAction
<1>9. BlockedHasOpenCheckpoint'
  <2> SUFFICES ASSUME state = "blocked" PROVE BlockedHasOpenCheckpoint'
    BY <1>6 DEF BlockedHasOpenCheckpoint
  <2>1. checkpoints # << >> /\ checkpoints' # << >>
    BY <1>1, <1>4
  <2>2. Len(checkpoints) \in 1 .. Len(checkpoints)
    BY <1>1, <1>4
  <2>3. checkpoints'[Len(checkpoints)].state \in {"pending", "expired"}
    <3> HIDE DEF expired
    <3> QED
      BY <1>2, <1>4, <2>2 DEF IInv, BlockedHasOpenCheckpoint
  <2> QED
    BY <1>4, <2>1, <2>3 DEF BlockedHasOpenCheckpoint
<1> QED
  BY <1>5, <1>6, <1>7, <1>8, <1>9 DEF IInv, WorkHasRun

LEMMA TransferLocallyKeepsIInv ==
  ASSUME IInv, NEW to \in Actors, NEW via \in EnabledVias, TransferLocally(to, via)
  PROVE  IInv'
<1> USE DEF TransferLocally
<1>1. Runs' /\ CallsTyped' /\ LocalsValid'
  BY LocalStepKeepsRuns
<1>2. Ownership'
  BY TransferKeepsOwnership, BoundsAssumption DEF IInv
<1>3. state' = state /\ Objects' /\ run' = run
  BY DEF IInv, Objects
<1>4. Log'
  BY <1>2, <1>3, CommitOneKeepsLog DEF IInv, AuditAction
<1> QED
  BY <1>1, <1>2, <1>3, <1>4 DEF IInv, WorkHasRun, BlockedHasOpenCheckpoint

LEMMA CommitArtifactKeepsIInv ==
  ASSUME IInv, CommitArtifact
  PROVE  IInv'
<1> USE DEF CommitArtifact
<1>1. Runs' /\ CallsTyped' /\ LocalsValid'
  BY LocalStepKeepsRuns
<1>2. Ownership'
  BY FallBackKeepsOwnership DEF IInv, OwnershipTransferVia
<1>3. state' = "review_ready" /\ state' \in TaskState /\ Objects'
  BY DEF IInv, Objects, TaskState
<1>4. Log'
  BY <1>2, <1>3, CommitOneKeepsLog DEF IInv, AuditAction
<1> QED
  BY <1>1, <1>2, <1>3, <1>4 DEF IInv, WorkHasRun, BlockedHasOpenCheckpoint

LEMMA SubmitReviewKeepsIInv ==
  ASSUME IInv, NEW n \in 1 .. artifacts, NEW reviewer \in Humans,
         NEW kind \in ReviewKind, NEW verdict \in ReviewVerdict,
         SubmitReview(n, reviewer, kind, verdict)
  PROVE  IInv'
<1> DEFINE review == [artifact |-> n, reviewer |-> reviewer, kind |-> kind,
                      verdict |-> verdict, versioned |-> PolicyActive(kind)]
           outcome == Outcome(n, kind, verdict)
           rework == \/ outcome = "changes_requested"
                     \/ kind = "plan" /\ outcome = "approved"
           via == IF outcome = "approved" THEN "approve" ELSE "reject"
<1>1. /\ state \in {"review_ready", "under_review"}
      /\ reviews' = Append(reviews, review)
      /\ state' = IF rework THEN "in_progress"
                  ELSE IF outcome = "approved" THEN "completed"
                  ELSE IF outcome = "rejected" THEN "rejected"
                  ELSE "under_review"
      /\ IF rework THEN ReturnTo(LastAssigneeBefore("handoff"), via)
         ELSE KeepOwnership
      /\ UNCHANGED <<checkpoints, steering, artifacts, run, told, calls>>
  BY DEF SubmitReview
<1>2. review \in Review
  BY DEF Review, Actors, PolicyActive, IInv, Objects
<1>3. Objects' /\ run' = run
  <2> HIDE DEF review
  <2> QED
    BY <1>1, <1>2 DEF IInv, Objects
<1>4. Runs' /\ CallsTyped' /\ LocalsValid'
  BY <1>1, LocalStepKeepsRuns
<1>5. via \in OwnershipTransferVia /\ LastAssigneeBefore("handoff") \in SUBSET Actors
  BY LastAssigneeIsActor DEF OwnershipTransferVia, IInv
<1> HIDE DEF outcome, rework, via, review
<1>6. Ownership'
  BY <1>1, <1>5, ReturnKeepsOwnership, KeepOwnershipKeepsOwnership DEF IInv
<1>7. state' \in TaskState /\ state' # "blocked"
  BY <1>1 DEF TaskState
<1>8. Log'
  <2> DEFINE first == Event("review.submitted", "actor")
             second == Event("task.completed", "system")
  <2>1. first \in AuditEvent
    BY <1>6, <1>7, EventType DEF IInv, Log, Ownership, AuditAction
  <2>2. second \in AuditEvent
    BY <1>6, <1>7, EventType DEF IInv, Log, Ownership, AuditAction
  <2>3. \/ Commit(<<first>>)
        \/ Commit(<<first, second>>)
    BY DEF SubmitReview
  <2> HIDE DEF first, second
  <2>4. <<first>> \in Seq(AuditEvent) /\ <<first, second>> \in Seq(AuditEvent)
    BY <2>1, <2>2
  <2> QED
    BY <2>3, <2>4, CommitKeepsLog DEF IInv
<1>9. WorkHasRun'
  BY <1>1, <1>3 DEF IInv, WorkHasRun
<1> QED
  BY <1>3, <1>4, <1>6, <1>7, <1>8, <1>9 DEF IInv, BlockedHasOpenCheckpoint

LEMMA CommentReviewKeepsIInv ==
  ASSUME IInv, NEW n \in DOMAIN reviews, NEW by \in Actors, CommentReview(n, by)
  PROVE  IInv'
<1> DEFINE copy == [reviews[n] EXCEPT !.reviewer = by, !.versioned = FALSE]
<1> USE DEF CommentReview
<1>1. reviews[n] \in Review
  BY ElementOfSeq DEF IInv, Objects
<1>2. copy \in Review
  BY <1>1 DEF Review
<1>3. Objects'
  <2>1. reviews' = Append(reviews, copy)
    OBVIOUS
  <2> HIDE DEF copy
  <2> QED
    BY <1>2, <2>1 DEF IInv, Objects
<1>4. Runs' /\ CallsTyped' /\ LocalsValid'
  BY LocalStepKeepsRuns
<1>5. Ownership' /\ state' = state
  BY DEF IInv, Ownership, ChainLinked
<1>6. Log'
  <2>1. Event("review.commented", "actor") \in AuditEvent
    BY <1>5, EventType DEF IInv, Log, Ownership, AuditAction
  <2> QED
    BY <2>1 DEF IInv, Log
<1> QED
  BY <1>3, <1>4, <1>5, <1>6 DEF IInv, WorkHasRun, BlockedHasOpenCheckpoint
-----------------------------------------------------------------------------
LEMMA StepKeepsIInv == IInv /\ [Next]_vars => IInv'
<1> SUFFICES ASSUME IInv, [Next]_vars PROVE IInv'
  OBVIOUS
<1>1. CASE UNCHANGED vars
  BY <1>1 DEF vars, taskVars, IInv, Ownership, ChainLinked, Log, Runs, Objects,
              CallsTyped, LocalsValid, WorkHasRun, BlockedHasOpenCheckpoint
<1>2. CASE LocalStep
  BY <1>2, StartKeepsIInv, CancelUnboundKeepsIInv, ExpireKeepsIInv,
     TransferLocallyKeepsIInv, CommitArtifactKeepsIInv, SubmitReviewKeepsIInv,
     CommentReviewKeepsIInv DEF LocalStep
<1>3. ASSUME NEW c \in Calls, AwaitingStep(c)
      PROVE  IInv'
  BY <1>3, BeginsKeepIInv, FinishAssignKeepsIInv, FinishCancelKeepsIInv,
     FinishAmendKeepsIInv, FinishBlockKeepsIInv, FinishResolveKeepsIInv,
     FinishHandoffKeepsIInv, FinishDelegateKeepsIInv, AdapterFailsKeepsIInv
     DEF AwaitingStep
<1> QED
  BY <1>1, <1>2, <1>3 DEF Next

THEOREM InductiveInvariant == Spec => []IInv
<1> QED
  BY InitEstablishesIInv, StepKeepsIInv, PTL DEF Spec
-----------------------------------------------------------------------------
\* The variables only ever hold values of their types, whatever the number of
\* callers and however their awaits interleave (operations/*.py).
THEOREM TypeCorrect == Spec => []TypeOK
<1>1. IInv => TypeOK
  BY DEF IInv, TypeOK, Ownership, Log, Runs, Objects, CallsTyped
<1> QED
  BY <1>1, InductiveInvariant, PTL

\* The credential chain is unbroken from the principal to the assignee,
\* although refused and late handlers extend it too (Ownership.transfer).
THEOREM OwnershipChainLinked == Spec => []ChainLinked
<1>1. IInv => ChainLinked
  BY DEF IInv, Ownership
<1> QED
  BY <1>1, InductiveInvariant, PTL

\* A task that is being worked on or reviewed always has a bound run
\* (store.bind_run in task_assign, ownership_transfer, ownership_delegate).
THEOREM WorkAlwaysHasRun == Spec => []WorkHasRun
<1>1. IInv => WorkHasRun
  BY DEF IInv
<1> QED
  BY <1>1, InductiveInvariant, PTL

\* A blocked task always has a checkpoint, stored last, that is pending or has
\* expired (checkpoint_raise, task_interrupt, checkpoint_resolve).
THEOREM BlockedAlwaysHasOpenCheckpoint == Spec => []BlockedHasOpenCheckpoint
<1>1. IInv => BlockedHasOpenCheckpoint
  BY DEF IInv
<1> QED
  BY <1>1, InductiveInvariant, PTL
-----------------------------------------------------------------------------
\* check_transition accepts no move out of a terminal state.
LEMMA NoMoveFromTerminal ==
  ASSUME state \in TERMINAL_STATES, NEW target, LegalTransition(state, target)
  PROVE  target = state
BY DEF TERMINAL_STATES, LegalTransition, LEGAL_TRANSITIONS

LEMMA StepKeepsTerminal ==
  ASSUME state \in TERMINAL_STATES, [Next]_vars
  PROVE  state' = state
<1> USE DEF TERMINAL_STATES
<1>1. CASE UNCHANGED vars
  BY <1>1 DEF vars, taskVars
<1>2. CASE LocalStep
  <2>1. CancelUnbound => state' = state
    BY NoMoveFromTerminal DEF CancelUnbound, CloseTask, Refused
  <2>2. ASSUME NEW n \in DOMAIN checkpoints, Expire(n)
        PROVE  state' = state
    BY <2>2 DEF Expire
  <2>3. ASSUME NEW n \in DOMAIN reviews, NEW by \in Actors, CommentReview(n, by)
        PROVE  state' = state
    BY <2>3 DEF CommentReview
  <2>4. ~Start /\ ~CommitArtifact
    BY DEF Start, CommitArtifact
  <2>5. \A to, via : ~TransferLocally(to, via)
    BY DEF TransferLocally
  <2>6. \A n, reviewer, kind, verdict : ~SubmitReview(n, reviewer, kind, verdict)
    BY DEF SubmitReview
  <2> QED
    BY <1>2, <2>1, <2>2, <2>3, <2>4, <2>5, <2>6 DEF LocalStep
<1>3. ASSUME NEW c \in Calls, AwaitingStep(c)
      PROVE  state' = state
  <2>1. ASSUME NEW local, Await(c, local)
        PROVE  state' = state
    BY <2>1 DEF Await, taskVars
  <2>2. BeginAssign(c) \/ BeginCancel(c) \/ BeginAmend(c) \/ BeginResolve(c)
        \/ BeginHandoff(c) \/ BeginDelegate(c) => state' = state
    BY <2>1 DEF BeginAssign, BeginCancel, BeginAmend, BeginResolve, BeginHandoff,
                BeginDelegate
  <2>3. \A op : BeginBlock(c, op) => state' = state
    BY <2>1 DEF BeginBlock
  <2>4. FinishAssign(c) => state' = state
    BY NoMoveFromTerminal DEF FinishAssign, Refused
  <2>5. FinishCancel(c) => state' = state
    BY NoMoveFromTerminal DEF FinishCancel, CloseTask, Refused
  <2>6. FinishAmend(c) => state' = state
    BY DEF FinishAmend, Refused
  <2>7. FinishBlock(c) => state' = state
    BY NoMoveFromTerminal DEF FinishBlock, Refused
  <2>8. FinishResolve(c) => state' = state
    BY NoMoveFromTerminal DEF FinishResolve, Refused
  <2>9. FinishHandoff(c) \/ FinishDelegate(c) \/ AdapterFails(c) => state' = state
    BY DEF FinishHandoff, FinishDelegate, AdapterFails, taskVars
  <2> QED
    BY <1>3, <2>2, <2>3, <2>4, <2>5, <2>6, <2>7, <2>8, <2>9 DEF AwaitingStep
<1> QED
  BY <1>1, <1>2, <1>3 DEF Next

\* No handler, however late its adapter answers, takes a task out of a
\* terminal state (check_transition, state_machine.py:20-36).
THEOREM TerminalForever == Spec => TerminalIsFinal
<1>1. [Next]_vars => [(state \in TERMINAL_STATES) => state' = state]_vars
  BY StepKeepsTerminal
<1> QED
  BY <1>1, PTL DEF Spec, TerminalIsFinal
=============================================================================
