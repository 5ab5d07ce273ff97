------------------------ MODULE HLPSequential_proofs ------------------------
(***************************************************************************)
(* What HLPOperations keeps for a client that awaits each call before the  *)
(* next one (Overlap = FALSE): for any humans, agents and requests, any    *)
(* review policy and any bound, through failing adapters; and that it      *)
(* implements AtomicTask then.                                             *)
(***************************************************************************)
EXTENDS HLPOperations_proofs

\* At most one call is awaiting the adapter.
OneCall == \A c, d \in Calls : calls[c] # Idle /\ calls[d] # Idle => c = d

\* What the handler checked before its await.
StillHolds(call) ==
  /\ call.op = "assign" => state = "created"
  /\ call.op \in {"cancel", "handoff", "delegate"} => state \notin TERMINAL_STATES
  /\ call.op \in {"cancel", "handoff", "amend", "block", "resume"}
       => run # 0 /\ call.run = run
  /\ call.op = "amend" => /\ state = call.stateBefore
                          /\ state \in {"in_progress", "blocked"}
  /\ call.op = "block" => state = "in_progress"
  /\ call.op = "resume" => state = "blocked" /\ Open(call.object)

\* No handler looks again at what it checked before its await: the task must
\* still be as it was (operations/task.py, checkpoint.py, ownership.py).
ChecksStillHold == \A c \in Calls : StillHolds(calls[c])

\* Only a blocked or a cancelled task has a checkpoint that may be answered,
\* and then it has one.
OneOpen ==
  \A n \in 1 .. Len(checkpoints) : Open(n) =>
    /\ state \in {"blocked", "completed"}
    /\ \A m \in 1 .. Len(checkpoints) : Open(m) => m = n

\* Unless the task is blocked, its run was not told to block last.
RunKnowsUnblocked == state # "blocked" /\ run # 0 => told[run] # "blocked"

\* A cancellation in the log has completed the task and stopped its run.
CancelIsTold ==
  \A i \in 1 .. Len(audit) : audit[i].action = "task.cancelled" =>
    /\ state = "completed"
    /\ run # 0 => told[run] = "cancelled"

\* The log starts with the creation and names the holder of the task, except
\* that a cancellation refused under review moves the task off the record.
LogNamesHolder ==
  /\ Len(audit) > 0
  /\ audit[1].action = "task.created"
  /\ state \notin {"review_ready", "under_review"}
       => audit[Len(audit)].assignee = assignee

SInv ==
  /\ OneCall
  /\ ChecksStillHold
  /\ OneOpen
  /\ RunKnowsUnblocked
  /\ CancelIsTold
  /\ LogNamesHolder

Quiet == \A c \in Calls : calls[c] = Idle
-----------------------------------------------------------------------------
\* The calls: one at a time, each ended by its own answer or failure.
LEMMA QuietKeepsChecks ==
  ASSUME Quiet
  PROVE  OneCall /\ ChecksStillHold
BY DEF Quiet, OneCall, ChecksStillHold, StillHolds, Idle

LEMMA CallIsNotIdle ==
  ASSUME NEW c, calls[c].op # "idle"
  PROVE  calls[c] # Idle
BY DEF Idle

LEMMA AnsweredLeavesQuiet ==
  ASSUME CallsTyped, OneCall, NEW c \in Calls, calls[c] # Idle,
         calls' = [calls EXCEPT ![c] = Idle]
  PROVE  Quiet'
<1> SUFFICES ASSUME NEW d \in Calls PROVE calls'[d] = Idle
  BY DEF Quiet
<1>1. CASE d = c
  BY <1>1 DEF CallsTyped
<1>2. CASE d # c
  <2>1. calls'[d] = calls[d]
    BY <1>2 DEF CallsTyped
  <2> QED
    BY <1>2, <2>1 DEF OneCall
<1> QED
  BY <1>1, <1>2

LEMMA CallsStartQuiet ==
  ASSUME Overlap = FALSE, NEW op, MayCall(op)
  PROVE  Quiet
BY DEF MayCall, Quiet

LEMMA AwaitKeepsChecks ==
  ASSUME CallsTyped, Quiet, NEW c \in Calls, NEW local, Await(c, local),
         StillHolds(local)
  PROVE  OneCall' /\ ChecksStillHold'
<1>1. \A d \in Calls : calls'[d] = IF d = c THEN local ELSE Idle
  BY DEF CallsTyped, Quiet, Await
<1>2. OneCall'
  BY <1>1 DEF OneCall
<1>3. StillHolds(local)'
  BY DEF StillHolds, Open, Stored, Await, taskVars
<1>4. ASSUME NEW d \in Calls
      PROVE  StillHolds(calls[d])'
  <2>1. CASE d = c
    BY <1>1, <1>3, <2>1 DEF StillHolds, Open, Stored
  <2>2. CASE d # c
    BY <1>1, <2>2 DEF StillHolds, Idle
  <2> QED
    BY <2>1, <2>2
<1> QED
  BY <1>2, <1>4 DEF ChecksStillHold

LEMMA BeginsKeepChecks ==
  ASSUME Overlap = FALSE, IInv, NEW c \in Calls,
         \/ BeginAssign(c) \/ BeginCancel(c) \/ BeginAmend(c)
         \/ BeginBlock(c, "interrupt") \/ BeginBlock(c, "raise")
         \/ BeginResolve(c) \/ BeginHandoff(c) \/ BeginDelegate(c)
  PROVE  OneCall' /\ ChecksStillHold'
<1>1. CallsTyped
  BY DEF IInv
<1>2. state \in {"in_progress", "blocked"} => run # 0
  BY DEF IInv, WorkHasRun
<1>3. Quiet
  BY CallsStartQuiet DEF BeginAssign, BeginCancel, BeginAmend, BeginBlock,
     BeginResolve, BeginHandoff, BeginDelegate
<1>4. \E local : Await(c, local) /\ StillHolds(local)
  <2>1. CASE BeginAssign(c)
    BY <2>1 DEF BeginAssign, StillHolds
  <2>2. CASE BeginCancel(c)
    BY <2>2 DEF BeginCancel, StillHolds
  <2>3. CASE BeginAmend(c)
    BY <1>2, <2>3 DEF BeginAmend, StillHolds
  <2>4. ASSUME NEW op, BeginBlock(c, op)
        PROVE  \E local : Await(c, local) /\ StillHolds(local)
    BY <1>2, <2>4 DEF BeginBlock, StillHolds
  <2>5. CASE BeginResolve(c)
    BY <1>2, <2>5 DEF BeginResolve, StillHolds
  <2>6. CASE BeginHandoff(c)
    BY <2>6 DEF BeginHandoff, StillHolds
  <2>7. CASE BeginDelegate(c)
    BY <2>7 DEF BeginDelegate, StillHolds
  <2> QED
    BY <2>1, <2>2, <2>3, <2>4, <2>5, <2>6, <2>7
<1> QED
  BY <1>1, <1>3, <1>4, AwaitKeepsChecks

LEMMA StepKeepsChecks ==
  ASSUME Overlap = FALSE, IInv, OneCall, ChecksStillHold, [Next]_vars
  PROVE  OneCall' /\ ChecksStillHold'
<1>1. CASE UNCHANGED vars
  BY <1>1 DEF vars, taskVars, OneCall, ChecksStillHold, StillHolds, Open, Stored
<1>2. CASE LocalStep
  <2>1. \E op : MayCall(op)
    BY <1>2 DEF LocalStep, Start, CancelUnbound, Expire, TransferLocally,
       CommitArtifact, SubmitReview, CommentReview
  <2>2. UNCHANGED calls
    BY <1>2 DEF LocalStep, Start, CancelUnbound, Expire, TransferLocally,
       CommitArtifact, SubmitReview, CommentReview
  <2>3. Quiet'
    BY <2>1, <2>2, CallsStartQuiet DEF Quiet
  <2> QED
    BY <2>3, QuietKeepsChecks, PTL
<1>3. ASSUME NEW c \in Calls, AwaitingStep(c)
      PROVE  OneCall' /\ ChecksStillHold'
  <2>1. CASE calls[c] # Idle /\ calls' = [calls EXCEPT ![c] = Idle]
    <3>1. Quiet'
      BY <2>1, AnsweredLeavesQuiet DEF IInv
    <3> QED
      BY <3>1, QuietKeepsChecks, PTL
  <2>2. \A op : op # "idle" /\ Answered(c, op) =>
          calls[c] # Idle /\ calls' = [calls EXCEPT ![c] = Idle]
    BY CallIsNotIdle DEF Answered
  <2> QED
    BY <1>3, <2>1, <2>2, BeginsKeepChecks
       DEF AwaitingStep, FinishAssign, FinishCancel, FinishAmend, FinishBlock,
           FinishResolve, FinishHandoff, FinishDelegate, AdapterFails
<1> QED
  BY <1>1, <1>2, <1>3 DEF Next

\* What a finishing handler finds.
LEMMA FinishFinds ==
  ASSUME ChecksStillHold, NEW c \in Calls
  PROVE  /\ FinishAssign(c) => state = "created"
         /\ FinishCancel(c) => /\ state \notin TERMINAL_STATES
                              /\ run # 0 /\ calls[c].run = run
         /\ FinishBlock(c) => /\ state = "in_progress"
                             /\ run # 0 /\ calls[c].run = run
         /\ FinishResolve(c) => /\ state = "blocked" /\ Open(calls[c].object)
                               /\ run # 0 /\ calls[c].run = run
         /\ FinishHandoff(c) => state \notin TERMINAL_STATES
         /\ FinishDelegate(c) => state \notin TERMINAL_STATES
BY DEF ChecksStillHold, StillHolds, Answered, FinishAssign, FinishCancel,
   FinishBlock, FinishResolve, FinishHandoff, FinishDelegate
-----------------------------------------------------------------------------
\* The checkpoints: which of them may be answered.

\* A blocked task goes on only when its checkpoint is resolved.
LEMMA BlockedUntilResolved ==
  ASSUME IInv, ChecksStillHold, state = "blocked", Next,
         \A c \in Calls : ~FinishResolve(c)
  PROVE  state' \in {"blocked", "completed"}
<1>1. CASE LocalStep
  BY <1>1 DEF LocalStep, Start, CancelUnbound, CloseTask, Refused, Expire,
     TransferLocally, CommitArtifact, SubmitReview, CommentReview
<1>2. ASSUME NEW c \in Calls, AwaitingStep(c)
      PROVE  state' \in {"blocked", "completed"}
  <2>1. ASSUME NEW local, Await(c, local)
        PROVE  state' = state
    BY <2>1 DEF Await, taskVars
  <2>2. ~FinishAssign(c) /\ ~FinishBlock(c)
    BY FinishFinds
  <2>3. CASE FinishCancel(c) \/ FinishAmend(c) \/ FinishHandoff(c)
             \/ FinishDelegate(c) \/ AdapterFails(c)
    BY <2>3 DEF FinishCancel, CloseTask, FinishAmend, FinishHandoff,
       FinishDelegate, AdapterFails, taskVars, Refused
  <2>4. CASE \/ BeginAssign(c) \/ BeginCancel(c) \/ BeginAmend(c)
             \/ BeginBlock(c, "interrupt") \/ BeginBlock(c, "raise")
             \/ BeginResolve(c) \/ BeginHandoff(c) \/ BeginDelegate(c)
    BY <2>1, <2>4 DEF BeginAssign, BeginCancel, BeginAmend, BeginBlock,
       BeginResolve, BeginHandoff, BeginDelegate
  <2> QED
    BY <1>2, <2>2, <2>3, <2>4 DEF AwaitingStep
<1> QED
  BY <1>1, <1>2 DEF Next

\* Answering or expiring a checkpoint opens no other one.
LEMMA OpenWasOpen ==
  ASSUME Len(checkpoints') = Len(checkpoints),
         \A m \in 1 .. Len(checkpoints) :
           /\ checkpoints'[m].id = checkpoints[m].id
           /\ checkpoints'[m].state = "pending" => checkpoints[m].state = "pending",
         Len(checkpoints) \in Nat,
         NEW n \in 1 .. Len(checkpoints), Open(n)'
  PROVE  Open(n) /\ checkpoints'[n].state = "pending"
BY DEF Open, Stored

\* What resolving and expiring do to the checkpoint objects.
LEMMA AnswerChanges ==
  ASSUME checkpoints \in Seq(Checkpoint), NEW n \in 1 .. Len(checkpoints),
         NEW new, new.id = checkpoints[n].id, new.state # "pending",
         checkpoints' = [checkpoints EXCEPT ![n] = new]
  PROVE  /\ Len(checkpoints') = Len(checkpoints) /\ Len(checkpoints) \in Nat
         /\ checkpoints'[n].state # "pending"
         /\ \A m \in 1 .. Len(checkpoints) :
              /\ checkpoints'[m].id = checkpoints[m].id
              /\ m # n => checkpoints'[m] = checkpoints[m]
              /\ checkpoints'[m].state = "pending" => checkpoints[m].state = "pending"
OBVIOUS

LEMMA ResolveChanges ==
  ASSUME IInv, NEW c \in Calls, FinishResolve(c)
  PROVE  LET n == calls[c].object IN
         /\ n \in 1 .. Len(checkpoints)
         /\ Len(checkpoints') = Len(checkpoints) /\ Len(checkpoints) \in Nat
         /\ checkpoints'[n].state # "pending"
         /\ \A m \in 1 .. Len(checkpoints) :
              /\ checkpoints'[m].id = checkpoints[m].id
              /\ m # n => checkpoints'[m] = checkpoints[m]
              /\ checkpoints'[m].state = "pending" => checkpoints[m].state = "pending"
<1> DEFINE n == calls[c].object
           new == [[checkpoints[n] EXCEPT !.state = "resolved"]
                     EXCEPT !.action = calls[c].action]
<1>1. n \in 1 .. Len(checkpoints) /\ checkpoints \in Seq(Checkpoint)
  BY DEF IInv, LocalsValid, Objects, FinishResolve, Answered
<1>2. checkpoints[n] \in Checkpoint
  BY <1>1, ElementOfSeq
<1>3. new.id = checkpoints[n].id /\ new.state = "resolved"
  BY <1>2 DEF Checkpoint
<1>4. checkpoints' = [checkpoints EXCEPT ![n] = new]
  BY DEF FinishResolve, Answer
<1> HIDE DEF n, new
<1>5. QED
  BY <1>1, <1>3, <1>4, AnswerChanges DEF n

LEMMA ExpireChanges ==
  ASSUME IInv, NEW n \in DOMAIN checkpoints, Expire(n)
  PROVE  /\ n \in 1 .. Len(checkpoints)
         /\ Len(checkpoints') = Len(checkpoints) /\ Len(checkpoints) \in Nat
         /\ checkpoints'[n].state # "pending"
         /\ \A m \in 1 .. Len(checkpoints) :
              /\ checkpoints'[m].id = checkpoints[m].id
              /\ m # n => checkpoints'[m] = checkpoints[m]
              /\ checkpoints'[m].state = "pending" => checkpoints[m].state = "pending"
<1> DEFINE new == [checkpoints[n] EXCEPT !.state = "expired"]
<1>1. n \in 1 .. Len(checkpoints) /\ checkpoints \in Seq(Checkpoint)
  BY DEF IInv, Objects
<1>2. checkpoints[n] \in Checkpoint
  BY <1>1, ElementOfSeq
<1>3. new.id = checkpoints[n].id /\ new.state = "expired"
  BY <1>2 DEF Checkpoint
<1>4. checkpoints' = [checkpoints EXCEPT ![n] = new]
  BY DEF Expire
<1> HIDE DEF new
<1>5. QED
  BY <1>1, <1>3, <1>4, AnswerChanges

\* The steps that may change a checkpoint.
LEMMA WhoChangesCheckpoints ==
  ASSUME Next
  PROVE  \/ UNCHANGED checkpoints
         \/ \E n \in DOMAIN checkpoints : Expire(n)
         \/ \E c \in Calls : FinishBlock(c) \/ FinishResolve(c)
<1>1. CASE LocalStep
  BY <1>1 DEF LocalStep, Start, CancelUnbound, CloseTask, TransferLocally,
     CommitArtifact, SubmitReview, CommentReview
<1>2. ASSUME NEW c \in Calls, AwaitingStep(c)
      PROVE  UNCHANGED checkpoints \/ FinishBlock(c) \/ FinishResolve(c)
  <2>1. ASSUME NEW local, Await(c, local)
        PROVE  UNCHANGED checkpoints
    BY <2>1 DEF Await, taskVars
  <2>2. CASE \/ FinishAssign(c) \/ FinishCancel(c) \/ FinishAmend(c)
             \/ FinishHandoff(c) \/ FinishDelegate(c) \/ AdapterFails(c)
    BY <2>2 DEF FinishAssign, FinishCancel, CloseTask, FinishAmend,
       FinishHandoff, FinishDelegate, AdapterFails, taskVars
  <2>3. CASE \/ BeginAssign(c) \/ BeginCancel(c) \/ BeginAmend(c)
             \/ BeginBlock(c, "interrupt") \/ BeginBlock(c, "raise")
             \/ BeginResolve(c) \/ BeginHandoff(c) \/ BeginDelegate(c)
    BY <2>1, <2>3 DEF BeginAssign, BeginCancel, BeginAmend, BeginBlock,
       BeginResolve, BeginHandoff, BeginDelegate
  <2> QED
    BY <1>2, <2>2, <2>3 DEF AwaitingStep
<1> QED
  BY <1>1, <1>2 DEF Next

LEMMA FinishBlockOpensOne ==
  ASSUME IInv, OneOpen, ChecksStillHold, NEW c \in Calls, FinishBlock(c)
  PROVE  OneOpen' /\ state' = "blocked"
<1> DEFINE new == [id |-> calls[c].id, state |-> "pending", action |-> "none"]
<1>1. checkpoints \in Seq(Checkpoint) /\ checkpoints' = Append(checkpoints, new)
  BY DEF IInv, Objects, FinishBlock, StoreCheckpoint
<1> HIDE DEF new
<1>2. /\ Len(checkpoints) \in Nat /\ Len(checkpoints') = Len(checkpoints) + 1
      /\ \A m \in 1 .. Len(checkpoints) : checkpoints'[m] = checkpoints[m]
  BY <1>1
<1>3. state = "in_progress" /\ state' = "blocked"
  BY FinishFinds DEF FinishBlock, LegalTransition, LEGAL_TRANSITIONS
<1>4. ASSUME NEW n \in 1 .. Len(checkpoints), Open(n)'
      PROVE  FALSE
  <2>1. Open(n)
    BY <1>2, <1>4 DEF Open, Stored
  <2> QED
    BY <1>3, <2>1 DEF OneOpen
<1>5. ASSUME NEW n \in 1 .. Len(checkpoints'), Open(n)'
      PROVE  n = Len(checkpoints')
  BY <1>2, <1>4, <1>5
<1> QED
  BY <1>3, <1>5 DEF OneOpen

LEMMA StepKeepsOneOpen ==
  ASSUME IInv, ChecksStillHold, OneOpen, [Next]_vars
  PROVE  OneOpen'
<1>1. CASE UNCHANGED vars
  BY <1>1 DEF vars, taskVars, OneOpen, Open, Stored
<1>2. ASSUME Next, \A c \in Calls : ~FinishResolve(c),
             state \in {"blocked", "completed"}
      PROVE  state' \in {"blocked", "completed"}
  BY <1>2, BlockedUntilResolved, StepKeepsTerminal DEF TERMINAL_STATES
<1>3. ASSUME NEW c \in Calls, FinishResolve(c)
      PROVE  OneOpen'
  <2> DEFINE k == calls[c].object
  <2>1. /\ k \in 1 .. Len(checkpoints) /\ Open(k)
        /\ Len(checkpoints') = Len(checkpoints) /\ Len(checkpoints) \in Nat
        /\ checkpoints'[k].state # "pending"
        /\ \A m \in 1 .. Len(checkpoints) :
              /\ checkpoints'[m].id = checkpoints[m].id
              /\ checkpoints'[m].state = "pending" => checkpoints[m].state = "pending"
    BY <1>3, ResolveChanges, FinishFinds
  <2> HIDE DEF k
  <2>2. ASSUME NEW n \in 1 .. Len(checkpoints), Open(n)'
        PROVE  FALSE
    <3>1. Open(n) /\ checkpoints'[n].state = "pending"
      BY <2>1, <2>2, OpenWasOpen
    <3> QED
      BY <2>1, <3>1 DEF OneOpen
  <2> QED
    BY <2>1, <2>2 DEF OneOpen
<1>4. ASSUME NEW n \in DOMAIN checkpoints, Expire(n)
      PROVE  OneOpen'
  <2>1. /\ Len(checkpoints') = Len(checkpoints) /\ Len(checkpoints) \in Nat
        /\ \A m \in 1 .. Len(checkpoints) :
              /\ checkpoints'[m].id = checkpoints[m].id
              /\ checkpoints'[m].state = "pending" => checkpoints[m].state = "pending"
    BY <1>4, ExpireChanges
  <2>2. \A m \in 1 .. Len(checkpoints) : Open(m)' => Open(m)
    BY <2>1, OpenWasOpen
  <2>3. state' = state
    BY <1>4 DEF Expire
  <2> QED
    BY <2>1, <2>2, <2>3 DEF OneOpen
<1>5. CASE Next /\ (\A c \in Calls : ~FinishResolve(c)) /\ UNCHANGED checkpoints
  <2>1. \A m : Open(m)' => Open(m)
    BY <1>5 DEF Open, Stored
  <2> QED
    BY <1>2, <1>5, <2>1 DEF OneOpen
<1> QED
  BY <1>1, <1>3, <1>4, <1>5, FinishBlockOpensOne, WhoChangesCheckpoints
-----------------------------------------------------------------------------
\* The agent's run: what it was told last.
LEMMA WhoTellsRuns ==
  ASSUME Next
  PROVE  \/ run' = run /\ told' = told /\ (LocalStep \/ state' = state)
         \/ \E c \in Calls : \/ FinishAssign(c) \/ FinishCancel(c) \/ FinishBlock(c)
                             \/ FinishResolve(c) \/ FinishHandoff(c)
                             \/ FinishDelegate(c)
<1>1. CASE LocalStep
  <2>1. run' = run /\ told' = told
    BY <1>1 DEF LocalStep, Start, CancelUnbound, CloseTask, Expire,
       TransferLocally, CommitArtifact, SubmitReview, CommentReview
  <2> QED
    BY <1>1, <2>1
<1>2. ASSUME NEW c \in Calls, AwaitingStep(c)
      PROVE  \/ run' = run /\ told' = told /\ state' = state
             \/ FinishAssign(c) \/ FinishCancel(c) \/ FinishBlock(c)
             \/ FinishResolve(c) \/ FinishHandoff(c) \/ FinishDelegate(c)
  <2>1. ASSUME NEW local, Await(c, local)
        PROVE  run' = run /\ told' = told /\ state' = state
    BY <2>1 DEF Await, taskVars
  <2>2. CASE FinishAmend(c) \/ AdapterFails(c)
    BY <2>2 DEF FinishAmend, AdapterFails, taskVars, Refused
  <2>3. CASE \/ BeginAssign(c) \/ BeginCancel(c) \/ BeginAmend(c)
             \/ BeginBlock(c, "interrupt") \/ BeginBlock(c, "raise")
             \/ BeginResolve(c) \/ BeginHandoff(c) \/ BeginDelegate(c)
    BY <2>1, <2>3 DEF BeginAssign, BeginCancel, BeginAmend, BeginBlock,
       BeginResolve, BeginHandoff, BeginDelegate
  <2> QED
    BY <1>2, <2>2, <2>3 DEF AwaitingStep
<1> QED
  BY <1>1, <1>2 DEF Next

\* A new run is running; a call on the bound run leaves its own status there.
LEMMA NewRunIsRunning ==
  ASSUME Runs, StartRun, run' = Len(told')
  PROVE  told'[run'] = "running"
BY DEF Runs, StartRun

LEMMA BoundRunIsTold ==
  ASSUME Runs, run # 0, run' = run, NEW status, Tell(run, status)
  PROVE  told'[run'] = status
BY DEF Runs, Tell

LEMMA FinishTellsRun ==
  ASSUME IInv, ChecksStillHold, NEW c \in Calls
  PROVE  /\ FinishAssign(c) => told'[run'] = "running"
         /\ FinishCancel(c) => told'[run'] = "cancelled"
         /\ FinishBlock(c) => told'[run'] = "blocked"
         /\ FinishResolve(c) => told'[run'] = "running"
         /\ FinishHandoff(c) => told'[run'] = "running"
         /\ FinishDelegate(c) => told'[run'] = "running"
<1>1. LegalTransition("created", "assigned")
  BY DEF LegalTransition, LEGAL_TRANSITIONS
<1>2. FinishAssign(c) => told'[run'] = "running"
  BY <1>1, FinishFinds, NewRunIsRunning DEF IInv, FinishAssign
<1>3. FinishCancel(c) => told'[run'] = "cancelled"
  BY FinishFinds, BoundRunIsTold DEF IInv, FinishCancel, CloseTask
<1>4. FinishBlock(c) => told'[run'] = "blocked"
  BY FinishFinds, BoundRunIsTold DEF IInv, FinishBlock
<1>5. FinishResolve(c) => told'[run'] = "running"
  BY FinishFinds, BoundRunIsTold DEF IInv, FinishResolve
<1>6. FinishHandoff(c) \/ FinishDelegate(c) => told'[run'] = "running"
  BY NewRunIsRunning DEF IInv, FinishHandoff, FinishDelegate
<1> QED
  BY <1>2, <1>3, <1>4, <1>5, <1>6

LEMMA StepKeepsRunKnowsUnblocked ==
  ASSUME IInv, ChecksStillHold, OneOpen, RunKnowsUnblocked, [Next]_vars
  PROVE  RunKnowsUnblocked'
<1>1. CASE UNCHANGED vars
  BY <1>1 DEF vars, taskVars, RunKnowsUnblocked
<1>2. ASSUME NEW c \in Calls,
             \/ FinishAssign(c) \/ FinishCancel(c) \/ FinishBlock(c)
             \/ FinishResolve(c) \/ FinishHandoff(c) \/ FinishDelegate(c)
      PROVE  RunKnowsUnblocked'
  BY <1>2, FinishTellsRun, FinishBlockOpensOne DEF RunKnowsUnblocked
<1>3. CASE run' = run /\ told' = told /\ state' = state
  BY <1>3 DEF RunKnowsUnblocked
<1>4. CASE run' = run /\ told' = told /\ LocalStep
  <2>1. state = "blocked" => run = 0 \/ state' = "blocked"
    BY <1>4 DEF LocalStep, Start, CancelUnbound, Expire, TransferLocally,
       CommitArtifact, SubmitReview, CommentReview
  <2> QED
    BY <1>4, <2>1 DEF RunKnowsUnblocked
<1> QED
  BY <1>1, <1>2, <1>3, <1>4, WhoTellsRuns
-----------------------------------------------------------------------------
\* The log: what a step adds to it and whom it names.

\* The events that put the task on hold.
Blocking(e) ==
  e.action \in {"task.interrupted", "task.checkpoint.raised"} /\ e.by = "actor"

\* An event that names the holder the step leaves, and hides neither a
\* cancellation nor a block.
Names(e) ==
  /\ e \in AuditEvent
  /\ e.assignee = assignee'
  /\ e.action = "task.cancelled" => state' = "completed" /\
                                    (run' # 0 => told'[run'] = "cancelled")

\* The ownership moves on without a checkpoint.
PlainTransfer ==
  \/ chain' = chain
  \/ \E link \in OwnershipTransfer :
       /\ chain' = Append(chain, link)
       /\ link.via \in EnabledVias \cup {"assign", "handoff"}

\* The holder is put on hold: the principal gets the task, unless it has it.
Hold ==
  /\ state = "in_progress" /\ state' = "blocked"
  /\ \/ chain' = Append(chain, [from |-> assignee, to |-> Principal,
                                via |-> "checkpoint"])
     \/ chain' = chain /\ assignee = Principal

\* What one step may do to the log: nothing, and then only a cancellation
\* refused under review moves the task; log one event, perhaps with a second
\* one of the same call; or log that the task is blocked.
LogStep ==
  \/ /\ audit' = audit /\ state' = state
     /\ \/ chain' = chain /\ assignee' = assignee
        \/ state \in {"review_ready", "under_review"}
  \/ \E e : /\ Names(e) /\ ~Blocking(e)
            /\ \/ audit' = Append(audit, e)
               \/ \E f : /\ Names(f) /\ ~Blocking(f)
                         /\ audit' = Append(Append(audit, e), f)
            /\ state' = "blocked" => state = "blocked" /\ PlainTransfer
  \/ \E e : /\ Names(e) /\ Blocking(e) /\ Hold
            /\ \/ audit' = Append(audit, e)
               \/ \E f : /\ Names(f) /\ ~Blocking(f)
                         /\ audit' = Append(Append(audit, e), f)

LEMMA CommitAppends ==
  ASSUME audit \in Seq(AuditEvent), NEW e \in AuditEvent, NEW f \in AuditEvent
  PROVE  /\ Commit(<<e>>) => audit' = Append(audit, e)
         /\ Commit(<<e, f>>) => audit' = Append(Append(audit, e), f)
BY DEF Commit

\* An operation that puts nothing on hold makes a LogStep.
LEMMA CommitOneNames ==
  ASSUME IInv, IInv', NEW action \in AuditAction, NEW by \in {"actor", "system"},
         Commit(<<Event(action, by)>>),
         action = "task.cancelled" => state' = "completed" /\
                                      (run' # 0 => told'[run'] = "cancelled"),
         action \in {"task.interrupted", "task.checkpoint.raised"} => by = "system",
         state' = "blocked" => state = "blocked" /\ PlainTransfer
  PROVE  LogStep
<1> DEFINE e == Event(action, by)
<1>1. e \in AuditEvent
  BY EventType DEF IInv, Log, Ownership
<1>2. Names(e) /\ ~Blocking(e)
  BY <1>1 DEF Names, Blocking, Event
<1> HIDE DEF e
<1>3. audit' = Append(audit, e)
  BY <1>1, CommitAppends DEF IInv, Log, e
<1> QED
  BY <1>2, <1>3 DEF LogStep

\* Adding to a task's chain by delegation, handoff or a local transfer.
LEMMA TransferIsPlain ==
  ASSUME IInv, NEW to \in Actors, NEW via \in EnabledVias \cup {"assign", "handoff"},
         Transfer(to, via)
  PROVE  PlainTransfer
<1> DEFINE link == [from |-> assignee, to |-> to, via |-> via]
<1>1. link \in OwnershipTransfer
  BY BoundsAssumption DEF IInv, Ownership, OwnershipTransfer, OwnershipTransferVia
<1>2. chain' = Append(chain, link) /\ link.via = via
  BY DEF Transfer
<1> QED
  BY <1>1, <1>2 DEF PlainTransfer

LEMMA FinishBlockLogs ==
  ASSUME IInv, IInv', ChecksStillHold, NEW c \in Calls, FinishBlock(c)
  PROVE  LogStep
<1> DEFINE raised == Event("task.checkpoint.raised", "actor")
           stopped == Event("task.interrupted", "actor")
           noted == Event("task.checkpoint.raised", "system")
<1>1. state = "in_progress" /\ LegalTransition(state, "blocked") /\ state' = "blocked"
  BY FinishFinds DEF FinishBlock, LegalTransition, LEGAL_TRANSITIONS
<1>2. raised \in AuditEvent /\ stopped \in AuditEvent /\ noted \in AuditEvent
  BY EventType DEF IInv, Log, Ownership, AuditAction
<1>3. /\ Names(raised) /\ Blocking(raised)
      /\ Names(stopped) /\ Blocking(stopped)
      /\ Names(noted) /\ ~Blocking(noted)
  BY <1>2 DEF Names, Blocking, Event
<1>4. CASE calls[c].id.op = "raise"
  <2>1. Commit(<<raised>>) /\ Transfer(Principal, "checkpoint")
    BY <1>1, <1>4 DEF FinishBlock
  <2>2. Hold
    BY <1>1, <2>1 DEF Hold, Transfer
  <2> HIDE DEF raised
  <2>3. audit' = Append(audit, raised)
    BY <1>2, <2>1, CommitAppends DEF IInv, Log
  <2> QED
    BY <1>3, <2>2, <2>3 DEF LogStep
<1>5. CASE calls[c].id.op # "raise"
  <2>1. Commit(<<stopped, noted>>) /\ FallBackToPrincipal("checkpoint")
    BY <1>1, <1>5 DEF FinishBlock
  <2>2. Hold
    BY <1>1, <2>1 DEF Hold, FallBackToPrincipal, Transfer, KeepOwnership
  <2> HIDE DEF stopped, noted
  <2>3. audit' = Append(Append(audit, stopped), noted)
    BY <1>2, <2>1, CommitAppends DEF IInv, Log
  <2> QED
    BY <1>3, <2>2, <2>3 DEF LogStep
<1> QED
  BY <1>4, <1>5

LEMMA CloseTaskLogs ==
  ASSUME IInv, IInv', CloseTask, state \notin TERMINAL_STATES,
         run # 0 => told'[run'] = "cancelled"
  PROVE  LogStep
<1>1. run' = run
  BY DEF CloseTask
<1>2. CASE LegalTransition(state, "completed")
  <2>1. state' = "completed" /\ Commit(<<Event("task.cancelled", "actor")>>)
    BY <1>2 DEF CloseTask
  <2> QED
    BY <1>1, <2>1, CommitOneNames DEF AuditAction
<1>3. CASE ~LegalTransition(state, "completed")
  <2>1. audit' = audit /\ state' = state
    BY <1>3 DEF CloseTask, Refused
  <2>2. state \in {"review_ready", "under_review"}
    BY <1>3 DEF IInv, TaskState, TERMINAL_STATES, LegalTransition, LEGAL_TRANSITIONS
  <2> QED
    BY <2>1, <2>2 DEF LogStep
<1> QED
  BY <1>2, <1>3

LEMMA AwaitingStepLogs ==
  ASSUME IInv, IInv', ChecksStillHold, NEW c \in Calls, AwaitingStep(c)
  PROVE  LogStep
<1>1. ASSUME NEW local, Await(c, local)
      PROVE  LogStep
  BY <1>1 DEF Await, taskVars, LogStep
<1>2. CASE \/ BeginAssign(c) \/ BeginCancel(c) \/ BeginAmend(c)
           \/ BeginBlock(c, "interrupt") \/ BeginBlock(c, "raise")
           \/ BeginResolve(c) \/ BeginHandoff(c) \/ BeginDelegate(c)
  BY <1>1, <1>2 DEF BeginAssign, BeginCancel, BeginAmend, BeginBlock,
     BeginResolve, BeginHandoff, BeginDelegate
<1>3. CASE FinishAssign(c)
  <2>1. LegalTransition(state, "assigned")
    BY <1>3, FinishFinds DEF LegalTransition, LEGAL_TRANSITIONS
  <2>2. state' = "assigned" /\ Commit(<<Event("task.assigned", "actor")>>)
    BY <1>3, <2>1 DEF FinishAssign
  <2> QED
    BY <2>2, CommitOneNames DEF AuditAction
<1>4. CASE FinishCancel(c)
  BY <1>4, FinishFinds, FinishTellsRun, CloseTaskLogs DEF FinishCancel
<1>5. CASE FinishAmend(c)
  <2>1. chain' = chain /\ assignee' = assignee
    BY <1>5 DEF FinishAmend, KeepOwnership
  <2>2. CASE audit' = audit /\ state' = state
    BY <2>1, <2>2 DEF LogStep
  <2>3. CASE Commit(<<Event("task.amended", "actor")>>) /\ state' = state
    BY <2>1, <2>3, CommitOneNames DEF AuditAction, PlainTransfer
  <2> QED
    BY <1>5, <2>2, <2>3 DEF FinishAmend, Refused
<1>6. CASE FinishResolve(c)
  <2>1. state = "blocked" /\ calls[c].action \in ResolutionAction
    BY <1>6, FinishFinds, LocalTypes DEF FinishResolve, Answered, IInv
  <2>2. LegalTransition(state, "completed") /\ LegalTransition(state, "in_progress")
    BY <2>1, LegalMoves DEF IInv
  <2>3. state' # "blocked" /\ Commit(<<Event("task.checkpoint.resolved", "actor")>>)
    BY <1>6, <2>2 DEF FinishResolve
  <2> QED
    BY <2>3, CommitOneNames DEF AuditAction
<1>7. CASE FinishHandoff(c)
  <2>1. PlainTransfer
    BY <1>7, TransferIsPlain, LocalTypes DEF FinishHandoff, Answered, IInv
  <2> QED
    BY <1>7, <2>1, CommitOneNames DEF FinishHandoff, AuditAction
<1>8. CASE FinishDelegate(c)
  <2>1. PlainTransfer
    BY <1>8, TransferIsPlain, LocalTypes DEF FinishDelegate, Answered, IInv
  <2> QED
    BY <1>8, <2>1, CommitOneNames DEF FinishDelegate, AuditAction
<1>9. CASE AdapterFails(c)
  BY <1>9 DEF AdapterFails, taskVars, LogStep
<1> QED
  BY <1>2, <1>3, <1>4, <1>5, <1>6, <1>7, <1>8, <1>9, FinishBlockLogs DEF AwaitingStep

LEMMA LocalStepLogs ==
  ASSUME IInv, IInv', LocalStep
  PROVE  LogStep
<1>1. CASE Start
  BY <1>1, CommitOneNames DEF Start, AuditAction
<1>2. CASE CancelUnbound
  BY <1>2, CloseTaskLogs DEF CancelUnbound
<1>3. ASSUME NEW n \in DOMAIN checkpoints, Expire(n)
      PROVE  LogStep
  BY <1>3, CommitOneNames DEF Expire, KeepOwnership, PlainTransfer, AuditAction
<1>4. ASSUME NEW to \in Actors, NEW via \in EnabledVias, TransferLocally(to, via)
      PROVE  LogStep
  <2>1. PlainTransfer
    BY <1>4, TransferIsPlain DEF TransferLocally
  <2> QED
    BY <1>4, <2>1, CommitOneNames DEF TransferLocally, AuditAction
<1>5. CASE CommitArtifact
  BY <1>5, CommitOneNames DEF CommitArtifact, AuditAction
<1>6. ASSUME NEW n \in 1 .. artifacts, NEW reviewer \in Humans,
             NEW kind \in ReviewKind, NEW verdict \in ReviewVerdict,
             SubmitReview(n, reviewer, kind, verdict)
      PROVE  LogStep
  <2> DEFINE first == Event("review.submitted", "actor")
             second == Event("task.completed", "system")
  <2>1. state' # "blocked"
    BY <1>6 DEF SubmitReview
  <2>2. Commit(<<first>>) \/ Commit(<<first, second>>)
    BY <1>6 DEF SubmitReview
  <2>3. first \in AuditEvent /\ second \in AuditEvent
    BY EventType DEF IInv, Log, Ownership, AuditAction
  <2>4. /\ Names(first) /\ ~Blocking(first)
        /\ Names(second) /\ ~Blocking(second)
    BY <2>3 DEF Names, Blocking, Event
  <2> HIDE DEF first, second
  <2>5. audit' = Append(audit, first) \/ audit' = Append(Append(audit, first), second)
    BY <2>2, <2>3, CommitAppends DEF IInv, Log
  <2> QED
    BY <2>1, <2>4, <2>5 DEF LogStep
<1>7. ASSUME NEW n \in DOMAIN reviews, NEW by \in Actors, CommentReview(n, by)
      PROVE  LogStep
  <2> DEFINE e == Event("review.commented", "actor")
  <2>1. e \in AuditEvent
    BY EventType DEF IInv, Log, Ownership, AuditAction
  <2>2. Names(e) /\ ~Blocking(e)
    BY <2>1 DEF Names, Blocking, Event
  <2>3. audit' = Append(audit, e) /\ state' = state /\ PlainTransfer
    BY <1>7 DEF CommentReview, PlainTransfer
  <2> HIDE DEF e
  <2> QED
    BY <2>2, <2>3 DEF LogStep
<1> QED
  BY <1>1, <1>2, <1>3, <1>4, <1>5, <1>6, <1>7 DEF LocalStep

LEMMA StepLogs ==
  ASSUME IInv, IInv', ChecksStillHold, Next
  PROVE  LogStep
BY AwaitingStepLogs, LocalStepLogs DEF Next

\* Appending to a log leaves the rest of it as it was.
LEMMA Appended ==
  ASSUME NEW log \in Seq(AuditEvent), NEW e \in AuditEvent
  PROVE  /\ Append(log, e) \in Seq(AuditEvent)
         /\ Len(log) \in Nat /\ Len(Append(log, e)) = Len(log) + 1
         /\ Append(log, e)[Len(log) + 1] = e
         /\ \A i \in 1 .. Len(log) : Append(log, e)[i] = log[i]
OBVIOUS

\* The log grows by events that name the holder.
LEMMA LogGrows ==
  ASSUME audit \in Seq(AuditEvent), Len(audit) > 0, LogStep
  PROVE  /\ audit' \in Seq(AuditEvent)
         /\ Len(audit) \in Nat /\ Len(audit) <= Len(audit')
         /\ \A i \in 1 .. Len(audit) : audit'[i] = audit[i]
         /\ \A i \in Len(audit) + 1 .. Len(audit') : Names(audit'[i])
         /\ Len(audit') = Len(audit) =>
              /\ state' = state
              /\ assignee' = assignee \/ state \in {"review_ready", "under_review"}
<1>1. CASE audit' = audit
  <2>1. ~(\E e \in AuditEvent : audit' = Append(audit, e) \/
            \E f \in AuditEvent : audit' = Append(Append(audit, e), f))
    BY <1>1, Appended
  <2> QED
    BY <1>1, <2>1 DEF LogStep, Names
<1>2. ASSUME NEW e, NEW f, Names(e), Names(f),
             audit' = Append(audit, e) \/ audit' = Append(Append(audit, e), f)
      PROVE  /\ audit' \in Seq(AuditEvent)
             /\ Len(audit) \in Nat /\ Len(audit) < Len(audit')
             /\ \A i \in 1 .. Len(audit) : audit'[i] = audit[i]
             /\ \A i \in Len(audit) + 1 .. Len(audit') : Names(audit'[i])
  <2> DEFINE middle == Append(audit, e)
  <2>1. e \in AuditEvent /\ f \in AuditEvent
    BY <1>2 DEF Names
  <2>2. /\ middle \in Seq(AuditEvent)
        /\ Len(audit) \in Nat /\ Len(middle) = Len(audit) + 1
        /\ middle[Len(audit) + 1] = e
        /\ \A i \in 1 .. Len(audit) : middle[i] = audit[i]
    BY <2>1, Appended
  <2>3. CASE audit' = middle
    <3>1. ASSUME NEW i \in Len(audit) + 1 .. Len(audit')
          PROVE  audit'[i] = e
      BY <2>2, <2>3
    <3> QED
      BY <1>2, <2>2, <2>3, <3>1
  <2>4. CASE audit' = Append(middle, f)
    <3> HIDE DEF middle
    <3>1. /\ audit' \in Seq(AuditEvent)
          /\ Len(audit') = Len(audit) + 2
          /\ audit'[Len(audit) + 2] = f
          /\ \A i \in 1 .. Len(audit) + 1 : audit'[i] = middle[i]
      BY <2>1, <2>2, <2>4, Appended
    <3>2. ASSUME NEW i \in Len(audit) + 1 .. Len(audit')
          PROVE  audit'[i] = e \/ audit'[i] = f
      BY <2>2, <3>1
    <3> QED
      BY <1>2, <2>2, <3>1, <3>2
  <2> QED
    BY <1>2, <2>3, <2>4
<1> QED
  BY <1>1, <1>2 DEF LogStep

LEMMA StepKeepsCancelIsTold ==
  ASSUME IInv, IInv', ChecksStillHold, LogNamesHolder, CancelIsTold, [Next]_vars
  PROVE  CancelIsTold'
<1>1. CASE UNCHANGED vars
  BY <1>1 DEF vars, taskVars, CancelIsTold
<1>2. CASE Next
  <2>1. /\ Len(audit) \in Nat /\ Len(audit) <= Len(audit')
        /\ audit' \in Seq(AuditEvent)
        /\ \A i \in 1 .. Len(audit) : audit'[i] = audit[i]
        /\ \A i \in Len(audit) + 1 .. Len(audit') : Names(audit'[i])
    BY <1>2, StepLogs, LogGrows DEF IInv, Log, LogNamesHolder
  <2>2. ASSUME NEW i \in 1 .. Len(audit), audit[i].action = "task.cancelled"
        PROVE  state' = "completed" /\ (run' # 0 => told'[run'] = "cancelled")
    <3>1. state = "completed" /\ (run # 0 => told[run] = "cancelled")
      BY <2>2 DEF CancelIsTold
    <3>2. state' = "completed"
      BY <1>2, <3>1, StepKeepsTerminal DEF TERMINAL_STATES
    <3>3. run' = run /\ told' = told
      BY <1>2, <3>1, WhoTellsRuns, FinishFinds DEF TERMINAL_STATES
    <3> QED
      BY <3>1, <3>2, <3>3
  <2>3. ASSUME NEW i \in 1 .. Len(audit'), audit'[i].action = "task.cancelled"
        PROVE  state' = "completed" /\ (run' # 0 => told'[run'] = "cancelled")
    <3>1. CASE i \in 1 .. Len(audit)
      BY <2>1, <2>2, <2>3, <3>1
    <3>2. CASE i \in Len(audit) + 1 .. Len(audit')
      BY <2>1, <2>3, <3>2 DEF Names
    <3> QED
      BY <2>1, <3>1, <3>2
  <2> QED
    BY <2>3 DEF CancelIsTold
<1> QED
  BY <1>1, <1>2

LEMMA StepKeepsLogNamesHolder ==
  ASSUME IInv, IInv', ChecksStillHold, LogNamesHolder, [Next]_vars
  PROVE  LogNamesHolder'
<1>1. CASE UNCHANGED vars
  BY <1>1 DEF vars, taskVars, LogNamesHolder
<1>2. CASE Next
  <2>1. /\ Len(audit) \in Nat /\ Len(audit) <= Len(audit')
        /\ audit' \in Seq(AuditEvent)
        /\ \A i \in 1 .. Len(audit) : audit'[i] = audit[i]
        /\ \A i \in Len(audit) + 1 .. Len(audit') : Names(audit'[i])
        /\ Len(audit') = Len(audit) =>
             /\ state' = state
             /\ assignee' = assignee \/ state \in {"review_ready", "under_review"}
    BY <1>2, StepLogs, LogGrows DEF IInv, Log, LogNamesHolder
  <2>2. Len(audit') \in Nat /\ Len(audit) > 0
    BY <2>1 DEF LogNamesHolder
  <2>3. Len(audit') > 0 /\ audit'[1].action = "task.created"
    BY <2>1, <2>2 DEF LogNamesHolder
  <2>4. CASE Len(audit') = Len(audit)
    <3>1. audit'[Len(audit')] = audit[Len(audit)]
      BY <2>1, <2>2, <2>4
    <3> QED
      BY <2>1, <2>3, <2>4, <3>1 DEF LogNamesHolder
  <2>5. CASE Len(audit') # Len(audit)
    <3>1. Len(audit') \in Len(audit) + 1 .. Len(audit')
      BY <2>1, <2>2, <2>5
    <3>2. audit'[Len(audit')].assignee = assignee'
      BY <2>1, <3>1 DEF Names
    <3> QED
      BY <2>3, <3>2 DEF LogNamesHolder
  <2> QED
    BY <2>4, <2>5
<1> QED
  BY <1>1, <1>2
-----------------------------------------------------------------------------
LEMMA InitEstablishesSInv == Init => SInv
<1> SUFFICES ASSUME Init PROVE SInv
  OBVIOUS
<1>1. Quiet
  BY DEF Init, Quiet
<1>2. OneOpen /\ RunKnowsUnblocked
  BY DEF Init, OneOpen, RunKnowsUnblocked
<1>3. CancelIsTold /\ LogNamesHolder
  BY DEF Init, CancelIsTold, LogNamesHolder
<1> QED
  BY <1>1, <1>2, <1>3, QuietKeepsChecks DEF SInv

LEMMA StepKeepsSInv ==
  ASSUME Overlap = FALSE, IInv, IInv', SInv, [Next]_vars
  PROVE  SInv'
BY StepKeepsChecks, StepKeepsOneOpen, StepKeepsRunKnowsUnblocked,
   StepKeepsCancelIsTold, StepKeepsLogNamesHolder DEF SInv

\* The inductive invariant of a client that awaits each of its calls.
LEMMA SequentialInvariant ==
  ASSUME Overlap = FALSE
  PROVE  Spec => []SInv
<1>1. IInv /\ IInv' /\ SInv /\ [Next]_vars => SInv'
  BY StepKeepsSInv
<1> QED
  BY <1>1, InitEstablishesSInv, InductiveInvariant, PTL DEF Spec

\* What a handler checked before its await still holds when the adapter
\* answers, although no handler looks again: the task is in the state and on
\* the run the call started from, the checkpoint it answers is still open.
THEOREM SequentialChecksHold ==
  ASSUME Overlap = FALSE
  PROVE  Spec => []ChecksStillHold
<1>1. SInv => ChecksStillHold
  BY DEF SInv
<1> QED
  BY <1>1, SequentialInvariant, PTL

\* A checkpoint that is pending belongs to a task that is blocked, where a
\* human can answer it, or cancelled (checkpoint_raise, checkpoint_resolve).
THEOREM SequentialPendingAnswerable ==
  ASSUME Overlap = FALSE
  PROVE  Spec => []PendingIsAnswerable
<1>1. IInv /\ SInv => PendingIsAnswerable
  BY DEF IInv, Objects, SInv, OneOpen, PendingIsAnswerable
<1> QED
  BY <1>1, InductiveInvariant, SequentialInvariant, PTL

\* A task in progress has not left its agent waiting at a block.
THEOREM SequentialRunNotLeftBlocked ==
  ASSUME Overlap = FALSE
  PROVE  Spec => []RunNotLeftBlocked
<1>1. IInv /\ SInv => RunNotLeftBlocked
  BY DEF IInv, WorkHasRun, SInv, RunKnowsUnblocked, RunNotLeftBlocked
<1> QED
  BY <1>1, InductiveInvariant, SequentialInvariant, PTL

\* A cancelled task has told the run bound to it to stop (task_cancel).
THEOREM SequentialCancelStopsRun ==
  ASSUME Overlap = FALSE
  PROVE  Spec => []CancelStopsRun
<1>1. IInv /\ SInv => CancelStopsRun
  BY DEF IInv, Log, SInv, CancelIsTold, CancelStopsRun
<1> QED
  BY <1>1, InductiveInvariant, SequentialInvariant, PTL

\* A checkpoint that left pending never changes again (checkpoint_resolve and
\* checkpoint_expire refuse it, and no answer was on its way).
THEOREM SequentialAnswerIsFinal ==
  ASSUME Overlap = FALSE
  PROVE  Spec => AnswerIsFinal
<1>1. ASSUME IInv, SInv, [Next]_vars, NEW n \in DOMAIN checkpoints,
             checkpoints[n].state # "pending"
      PROVE  checkpoints'[n] = checkpoints[n]
  <2>1. checkpoints \in Seq(Checkpoint) /\ n \in 1 .. Len(checkpoints)
    BY <1>1 DEF IInv, Objects
  <2>2. CASE UNCHANGED vars
    BY <2>2 DEF vars, taskVars
  <2>3. ASSUME NEW m \in DOMAIN checkpoints, Expire(m)
        PROVE  checkpoints'[n] = checkpoints[n]
    BY <1>1, <2>1, <2>3, ExpireChanges DEF Expire, Open
  <2>4. ASSUME NEW c \in Calls, FinishResolve(c)
        PROVE  checkpoints'[n] = checkpoints[n]
    BY <1>1, <2>1, <2>4, ResolveChanges, FinishFinds DEF SInv, Open
  <2>5. ASSUME NEW c \in Calls, FinishBlock(c)
        PROVE  checkpoints'[n] = checkpoints[n]
    BY <2>1, <2>5 DEF FinishBlock, StoreCheckpoint
  <2> QED
    BY <1>1, <2>2, <2>3, <2>4, <2>5, WhoChangesCheckpoints
<1>2. IInv /\ SInv /\ [Next]_vars =>
        [\A n \in DOMAIN checkpoints :
           checkpoints[n].state # "pending" => checkpoints'[n] = checkpoints[n]]_vars
  BY <1>1
<1> QED
  BY <1>2, InductiveInvariant, SequentialInvariant, PTL DEF Spec, AnswerIsFinal
-----------------------------------------------------------------------------
\* Who held the task when it was blocked, as the log shows it and as the
\* ownership chain does.

\* The holder named just before the last event of a log that blocks the task.
Holders(log) ==
  {log[i-1].assignee : i \in {i \in 1 .. Len(log) :
     Blocking(log[i]) /\ \A j \in i+1 .. Len(log) : ~Blocking(log[j])}}

\* The log and the chain agree on the agent a blocked task was taken from.
HolderKept ==
  state = "blocked" =>
    \E h \in Actors : /\ Holders(audit) = {h}
                      /\ h \in Agents => LastAssigneeBefore("checkpoint") = {h}

LEMMA HoldersAfterBlock ==
  ASSUME NEW log \in Seq(AuditEvent), NEW e \in AuditEvent, Blocking(e)
  PROVE  Holders(Append(log, e)) = {log[Len(log)].assignee}
         \/ Len(log) = 0
<1> SUFFICES ASSUME Len(log) # 0
             PROVE  Holders(Append(log, e)) = {log[Len(log)].assignee}
  OBVIOUS
<1> DEFINE longer == Append(log, e)
<1>1. /\ Len(log) \in Nat /\ Len(longer) = Len(log) + 1
      /\ longer[Len(log) + 1] = e
      /\ \A i \in 1 .. Len(log) : longer[i] = log[i]
  BY Appended
<1> HIDE DEF longer
<1>2. Len(log) \in 1 .. Len(log)
  BY <1>1
<1>3. \A i \in 1 .. Len(longer) :
        (\A j \in i+1 .. Len(longer) : ~Blocking(longer[j])) => i = Len(log) + 1
  <2>1. ASSUME NEW i \in 1 .. Len(longer), i # Len(log) + 1
        PROVE  Len(log) + 1 \in i+1 .. Len(longer)
    BY <1>1, <2>1
  <2> QED
    BY <1>1, <2>1
<1>4. /\ Len(log) + 1 \in 1 .. Len(longer)
      /\ Blocking(longer[Len(log) + 1])
      /\ \A j \in (Len(log) + 1) + 1 .. Len(longer) : ~Blocking(longer[j])
  BY <1>1
<1>5. longer[(Len(log) + 1) - 1] = log[Len(log)]
  BY <1>1, <1>2
<1>6. Holders(longer) = {longer[(Len(log) + 1) - 1].assignee}
  BY <1>3, <1>4 DEF Holders
<1> QED
  BY <1>5, <1>6 DEF longer

LEMMA HoldersAfterOther ==
  ASSUME NEW log \in Seq(AuditEvent), NEW e \in AuditEvent, ~Blocking(e),
         Len(log) > 0, ~Blocking(log[1])
  PROVE  Holders(Append(log, e)) = Holders(log)
<1> DEFINE longer == Append(log, e)
           Last(w) == {i \in 1 .. Len(w) :
                         Blocking(w[i]) /\ \A j \in i+1 .. Len(w) : ~Blocking(w[j])}
<1>1. /\ Len(log) \in Nat /\ Len(longer) = Len(log) + 1
      /\ longer[Len(log) + 1] = e
      /\ \A i \in 1 .. Len(log) : longer[i] = log[i]
  BY Appended
<1> HIDE DEF longer
<1>2. ASSUME NEW i \in Last(longer)
      PROVE  i \in Last(log)
  <2>1. i \in 1 .. Len(log)
    BY <1>1
  <2>2. \A j \in i+1 .. Len(log) : j \in i+1 .. Len(longer) /\ longer[j] = log[j]
    BY <1>1, <2>1
  <2> QED
    BY <1>1, <2>1, <2>2
<1>3. ASSUME NEW i \in Last(log)
      PROVE  i \in Last(longer)
  <2>1. i \in 1 .. Len(longer) /\ longer[i] = log[i]
    BY <1>1
  <2>2. ASSUME NEW j \in i+1 .. Len(longer)
        PROVE  ~Blocking(longer[j])
    <3>1. CASE j = Len(log) + 1
      BY <1>1, <3>1
    <3>2. CASE j # Len(log) + 1
      <4>1. j \in i+1 .. Len(log) /\ longer[j] = log[j]
        BY <1>1, <3>2
      <4> QED
        BY <4>1
    <3> QED
      BY <3>1, <3>2
  <2> QED
    BY <2>1, <2>2
<1>4. ASSUME NEW i \in Last(log)
      PROVE  longer[i-1] = log[i-1]
  <2>1. i # 1
    OBVIOUS
  <2>2. i - 1 \in 1 .. Len(log)
    BY <1>1, <2>1
  <2> QED
    BY <1>1, <2>2
<1>5. Last(longer) = Last(log)
  BY <1>2, <1>3
<1>6. /\ Holders(longer) = {longer[i-1].assignee : i \in Last(longer)}
      /\ Holders(log) = {log[i-1].assignee : i \in Last(log)}
  BY DEF Holders
<1> HIDE DEF Last
<1>7. Holders(longer) = Holders(log)
  BY <1>4, <1>5, <1>6
<1> QED
  BY <1>7 DEF longer

\* What one more entry in the ownership chain does to a look-up by via.
LEMMA LookupAfterTransfer ==
  ASSUME chain \in Seq(OwnershipTransfer), NEW link \in OwnershipTransfer, NEW via,
         chain' = Append(chain, link)
  PROVE  /\ link.to = Principal /\ link.via = via
              => LastAssigneeBefore(via)' = {link.from}
         /\ link.via # via => LastAssigneeBefore(via)' = LastAssigneeBefore(via)
<1> DEFINE Gave(ch, i) == ch[i].to = Principal /\ ch[i].via = via
           Last(ch) == {i \in DOMAIN ch :
                          Gave(ch, i) /\ \A j \in i+1 .. Len(ch) : ~Gave(ch, j)}
           From(ch) == {ch[i].from : i \in Last(ch)}
<1>1. LastAssigneeBefore(via) = From(chain) /\ LastAssigneeBefore(via)' = From(chain')
  BY DEF LastAssigneeBefore
<1>2. /\ Len(chain) \in Nat /\ Len(chain') = Len(chain) + 1
      /\ DOMAIN chain = 1 .. Len(chain) /\ DOMAIN chain' = 1 .. Len(chain) + 1
      /\ chain'[Len(chain) + 1] = link
      /\ \A i \in 1 .. Len(chain) : chain'[i] = chain[i]
  OBVIOUS
<1>3. ASSUME Gave(chain', Len(chain) + 1)
      PROVE  From(chain') = {link.from}
  <2>1. \A i \in 1 .. Len(chain) : Len(chain) + 1 \in i+1 .. Len(chain')
    BY <1>2
  <2>2. Last(chain') = {Len(chain) + 1}
    BY <1>2, <1>3, <2>1
  <2> HIDE DEF Last
  <2> QED
    BY <1>2, <2>2
<1>4. ASSUME ~Gave(chain', Len(chain) + 1)
      PROVE  From(chain') = From(chain)
  <2>1. ASSUME NEW i \in 1 .. Len(chain)
        PROVE  i \in Last(chain') <=> i \in Last(chain)
    <3>1. /\ \A j \in i+1 .. Len(chain) :
               j \in i+1 .. Len(chain') /\ chain'[j] = chain[j]
          /\ \A j \in i+1 .. Len(chain') :
               (j \in i+1 .. Len(chain) /\ chain'[j] = chain[j]) \/ j = Len(chain) + 1
      BY <1>2
    <3> QED
      BY <1>2, <1>4, <3>1
  <2>2. Len(chain) + 1 \notin Last(chain') /\ Len(chain) + 1 \notin Last(chain)
    BY <1>2, <1>4
  <2>3. Last(chain') = Last(chain) /\ \A i \in Last(chain) : chain'[i] = chain[i]
    BY <1>2, <2>1, <2>2
  <2> HIDE DEF Last
  <2> QED
    BY <2>3
<1>5. Gave(chain', Len(chain) + 1) <=> link.to = Principal /\ link.via = via
  BY <1>2
<1> QED
  BY <1>1, <1>3, <1>4, <1>5

LEMMA StepKeepsHolder ==
  ASSUME "checkpoint" \notin EnabledVias, IInv, IInv', ChecksStillHold,
         LogNamesHolder, HolderKept, [Next]_vars
  PROVE  HolderKept'
<1> SUFFICES ASSUME state' = "blocked"
             PROVE  \E h \in Actors :
                      /\ Holders(audit') = {h}
                      /\ h \in Agents => LastAssigneeBefore("checkpoint")' = {h}
  BY DEF HolderKept, Holders
<1>1. /\ audit \in Seq(AuditEvent) /\ Len(audit) > 0 /\ ~Blocking(audit[1])
      /\ chain \in Seq(OwnershipTransfer)
  BY DEF IInv, Log, Ownership, LogNamesHolder, Blocking
<1>2. ASSUME audit' = audit, chain' = chain, state' = state
      PROVE  \E h \in Actors :
               /\ Holders(audit') = {h}
               /\ h \in Agents => LastAssigneeBefore("checkpoint")' = {h}
  BY <1>2 DEF HolderKept, LastAssigneeBefore
<1>3. CASE UNCHANGED vars
  BY <1>2, <1>3 DEF vars, taskVars
<1>4. CASE /\ audit' = audit /\ state' = state
           /\ \/ chain' = chain /\ assignee' = assignee
              \/ state \in {"review_ready", "under_review"}
  BY <1>2, <1>4
\* A later event of the same step that blocks nothing hides nothing.
<1>5. ASSUME NEW log \in Seq(AuditEvent), Len(log) > 0, ~Blocking(log[1]),
             \/ audit' = log
             \/ \E f : Names(f) /\ ~Blocking(f) /\ audit' = Append(log, f)
      PROVE  Holders(audit') = Holders(log)
  BY <1>5, HoldersAfterOther DEF Names
<1>6. ASSUME NEW e, Names(e), ~Blocking(e),
             \/ audit' = Append(audit, e)
             \/ \E f : Names(f) /\ ~Blocking(f) /\ audit' = Append(Append(audit, e), f),
             state = "blocked", PlainTransfer
      PROVE  \E h \in Actors :
               /\ Holders(audit') = {h}
               /\ h \in Agents => LastAssigneeBefore("checkpoint")' = {h}
  <2> DEFINE middle == Append(audit, e)
  <2>1. e \in AuditEvent
    BY <1>6 DEF Names
  <2>2. middle \in Seq(AuditEvent) /\ Len(middle) > 0 /\ ~Blocking(middle[1])
    BY <1>1, <2>1, Appended
  <2>3. Holders(middle) = Holders(audit)
    BY <1>1, <1>6, <2>1, HoldersAfterOther
  <2>4. Holders(audit') = Holders(audit)
    BY <1>5, <1>6, <2>2, <2>3
  <2>5. LastAssigneeBefore("checkpoint")' = LastAssigneeBefore("checkpoint")
    <3>1. CASE chain' = chain
      BY <3>1 DEF LastAssigneeBefore
    <3>2. ASSUME NEW link \in OwnershipTransfer, chain' = Append(chain, link),
                 link.via \in EnabledVias \cup {"assign", "handoff"}
          PROVE  LastAssigneeBefore("checkpoint")' = LastAssigneeBefore("checkpoint")
      BY <1>1, <3>2, LookupAfterTransfer
    <3> QED
      BY <1>6, <3>1, <3>2 DEF PlainTransfer
  <2> QED
    BY <1>6, <2>4, <2>5 DEF HolderKept
<1>7. ASSUME NEW e, Names(e), Blocking(e), Hold,
             \/ audit' = Append(audit, e)
             \/ \E f : Names(f) /\ ~Blocking(f) /\ audit' = Append(Append(audit, e), f)
      PROVE  \E h \in Actors :
               /\ Holders(audit') = {h}
               /\ h \in Agents => LastAssigneeBefore("checkpoint")' = {h}
  <2> DEFINE middle == Append(audit, e)
  <2>1. e \in AuditEvent
    BY <1>7 DEF Names
  <2>2. middle \in Seq(AuditEvent) /\ Len(middle) > 0 /\ ~Blocking(middle[1])
    BY <1>1, <2>1, Appended
  <2>3. audit[Len(audit)].assignee = assignee /\ assignee \in Actors
    BY <1>7 DEF Hold, LogNamesHolder, IInv, Ownership
  <2>4. Holders(middle) = {assignee}
    BY <1>1, <1>7, <2>1, <2>3, HoldersAfterBlock
  <2>5. Holders(audit') = {assignee}
    BY <1>5, <1>7, <2>2, <2>4
  <2>6. assignee \in Agents => LastAssigneeBefore("checkpoint")' = {assignee}
    <3>1. CASE chain' = chain /\ assignee = Principal
      BY <3>1, ActorsAssumption
    <3>2. CASE chain' = Append(chain, [from |-> assignee, to |-> Principal,
                                       via |-> "checkpoint"])
      <4> DEFINE link == [from |-> assignee, to |-> Principal, via |-> "checkpoint"]
      <4>1. link \in OwnershipTransfer
        BY <2>3, ActorsAssumption DEF OwnershipTransfer, OwnershipTransferVia, Actors
      <4> QED
        BY <1>1, <3>2, <4>1, LookupAfterTransfer
    <3> QED
      BY <1>7, <3>1, <3>2 DEF Hold
  <2> QED
    BY <2>3, <2>5, <2>6
<1>8. CASE Next
  BY <1>4, <1>6, <1>7, <1>8, StepLogs DEF LogStep
<1> QED
  BY <1>3, <1>8

LEMMA HolderInvariant ==
  ASSUME Overlap = FALSE, "checkpoint" \notin EnabledVias
  PROVE  Spec => []HolderKept
<1>1. Init => HolderKept
  BY DEF Init, HolderKept
<1>2. IInv /\ IInv' /\ SInv /\ HolderKept /\ [Next]_vars => HolderKept'
  BY StepKeepsHolder DEF SInv
<1> QED
  BY <1>1, <1>2, InductiveInvariant, SequentialInvariant, PTL DEF Spec

\* An answer that lets the task go on returns it to the agent that held it when
\* it was blocked, through any number of handoffs, delegations and transfers in
\* between, as long as nobody transfers the task "via checkpoint" by hand
\* (_last_assignee_before, checkpoint_resolve).
THEOREM SequentialAnswerReturns ==
  ASSUME Overlap = FALSE, "checkpoint" \notin EnabledVias
  PROVE  Spec => AnswerReturnsToHolder
<1>1. ASSUME IInv, SInv, HolderKept, Next, NEW c \in Calls,
             calls[c].op = "resume", calls'[c] = Idle,
             state = "blocked", state' = "in_progress",
             calls[c].reassignTo = NoActor, HolderBeforeBlock \subseteq Agents
      PROVE  HolderBeforeBlock = {assignee'}
  <2>1. HolderBeforeBlock = Holders(audit)
    BY <1>1 DEF IInv, Log, HolderBeforeBlock, Holders, Blocking
  <2>2. PICK h \in Agents : /\ Holders(audit) = {h}
                            /\ LastAssigneeBefore("checkpoint") = {h}
    BY <1>1, <2>1 DEF HolderKept
  <2>3. PICK d \in Calls : FinishResolve(d)
    BY <1>1, BlockedUntilResolved DEF SInv
  <2>4. d = c
    <3>1. calls[d] # Idle /\ calls[c] # Idle
      BY <1>1, <2>3, CallIsNotIdle DEF FinishResolve, Answered
    <3> QED
      BY <1>1, <3>1 DEF SInv, OneCall
  <2>5. calls[c].action # "reject"
    BY <1>1, <2>3, <2>4, LegalMoves DEF FinishResolve, IInv
  <2>6. ReturnTo(LastAssigneeBefore("checkpoint"), "approve")
    BY <1>1, <2>3, <2>4, <2>5, LegalMoves DEF FinishResolve, IInv
  <2>7. assignee' = h
    <3>1. ReturnTo({h}, "approve")
      BY <2>2, <2>6
    <3>2. CASE {h} \subseteq {assignee}
      BY <3>1, <3>2 DEF ReturnTo, KeepOwnership
    <3>3. CASE ~({h} \subseteq {assignee})
      BY <3>1, <3>3 DEF ReturnTo, Transfer
    <3> QED
      BY <3>2, <3>3
  <2> QED
    BY <2>1, <2>2, <2>7
<1>2. ASSUME IInv, SInv, HolderKept, [Next]_vars
      PROVE  [\A c \in Calls :
                /\ calls[c].op = "resume" /\ calls'[c] = Idle
                /\ state = "blocked" /\ state' = "in_progress"
                /\ calls[c].reassignTo = NoActor
                /\ HolderBeforeBlock \subseteq Agents
                => HolderBeforeBlock = {assignee'}]_vars
  BY <1>1, <1>2
<1> QED
  BY <1>2, InductiveInvariant, SequentialInvariant, HolderInvariant, PTL
     DEF Spec, AnswerReturnsToHolder
-----------------------------------------------------------------------------
\* The abstract task: each step of the handlers maps to one of its steps.
seenVars == <<state, assignee, Asked, AgentTold, revision>>

LEMMA AskedSame ==
  ASSUME checkpoints' = checkpoints
  PROVE  Asked' = Asked
BY DEF Asked, Open, Stored

LEMMA AgentSame ==
  ASSUME run' = run, told' = told
  PROVE  AgentTold' = AgentTold
BY DEF AgentTold

\* What a handler that has awaited the adapter leaves for the agent to see.
LEMMA AgentAfterCall ==
  ASSUME IInv, IInv', ChecksStillHold, NEW c \in Calls
  PROVE  /\ FinishAssign(c) \/ FinishResolve(c) \/ FinishHandoff(c)
              \/ FinishDelegate(c) => AgentTold' = "running"
         /\ FinishCancel(c) => AgentTold' = "cancelled"
         /\ FinishBlock(c) => AgentTold' = "blocked"
<1>1. FinishHandoff(c) \/ FinishDelegate(c) => run' # 0
  BY DEF FinishHandoff, FinishDelegate, StartRun, IInv, Runs
<1>2. FinishAssign(c) => run' # 0
  <2>1. LegalTransition("created", "assigned")
    BY DEF LegalTransition, LEGAL_TRANSITIONS
  <2> QED
    BY <2>1, FinishFinds DEF FinishAssign, StartRun, IInv, Runs
<1>3. FinishCancel(c) \/ FinishBlock(c) \/ FinishResolve(c) => run' # 0
  BY FinishFinds DEF FinishCancel, CloseTask, FinishBlock, FinishResolve
<1> QED
  BY <1>1, <1>2, <1>3, FinishTellsRun DEF AgentTold

\* A checkpoint is answered or expires: it was open, and no other one is.
LEMMA AskedNoMore ==
  ASSUME OneOpen, Len(checkpoints) \in Nat, NEW n \in 1 .. Len(checkpoints), Open(n),
         DOMAIN checkpoints = 1 .. Len(checkpoints),
         DOMAIN checkpoints' = 1 .. Len(checkpoints'),
         Len(checkpoints') = Len(checkpoints),
         checkpoints'[n].state # "pending",
         \A m \in 1 .. Len(checkpoints) :
           /\ checkpoints'[m].id = checkpoints[m].id
           /\ checkpoints'[m].state = "pending" => checkpoints[m].state = "pending"
  PROVE  Asked /\ ~Asked'
<1>1. Asked
  BY DEF Asked
<1>2. ASSUME NEW m \in 1 .. Len(checkpoints), Open(m)'
      PROVE  FALSE
  <2>1. Open(m) /\ checkpoints'[m].state = "pending"
    BY <1>2, OpenWasOpen
  <2>2. m = n
    BY <2>1 DEF OneOpen
  <2> QED
    BY <2>1, <2>2
<1> QED
  BY <1>1, <1>2 DEF Asked

LEMMA NobodyAskedAtWork ==
  ASSUME IInv, OneOpen, state = "in_progress"
  PROVE  ~Asked
BY DEF IInv, Objects, OneOpen, Asked

\* Operations that await the agent, one by one.
LEMMA FinishAssignMaps ==
  ASSUME IInv, IInv', ChecksStillHold, NEW c \in Calls, FinishAssign(c)
  PROVE  Atomic!Assign /\ revision' = revision + 1
<1>1. /\ state = "created" /\ state' = "assigned"
      /\ revision' = revision + 1 /\ checkpoints' = checkpoints
  <2>1. LegalTransition("created", "assigned")
    BY DEF LegalTransition, LEGAL_TRANSITIONS
  <2> QED
    BY <2>1, FinishFinds DEF FinishAssign, Commit
<1>2. assignee' \in Actors
  BY DEF IInv, Ownership
<1>3. Asked' = Asked /\ AgentTold' = "running"
  BY <1>1, AskedSame, AgentAfterCall
<1> QED
  BY <1>1, <1>2, <1>3 DEF Atomic!Assign

LEMMA CloseTaskMaps ==
  ASSUME IInv, state \notin TERMINAL_STATES, CloseTask,
         AgentTold' = IF AgentTold = "none" THEN "none" ELSE "cancelled"
  PROVE  Atomic!Next
<1>1. Atomic!TakeBack
  <2>1. assignee' = Principal
    BY DEF CloseTask, FallBackToPrincipal, Transfer, KeepOwnership
  <2>2. Asked' = Asked
    BY AskedSame DEF CloseTask
  <2> QED
    BY <2>1, <2>2 DEF Atomic!TakeBack
<1>2. CASE LegalTransition(state, "completed")
  <2>1. state' = "completed" /\ revision' = revision + 1
    BY <1>2 DEF CloseTask, Commit
  <2>2. state \notin {"review_ready", "under_review"}
    BY <1>2, LegalMoves DEF IInv
  <2>3. Atomic!Cancel
    BY <1>1, <2>1, <2>2 DEF TERMINAL_STATES, Atomic!Cancel, Atomic!Reviewed, Atomic!Over
  <2> QED
    BY <2>1, <2>3 DEF Atomic!Next, Atomic!Operation
<1>3. CASE ~LegalTransition(state, "completed")
  <2>1. state' = state /\ revision' = revision
    BY <1>3 DEF CloseTask, Refused
  <2>2. state \in {"review_ready", "under_review"}
    BY <1>3 DEF IInv, TaskState, TERMINAL_STATES, LegalTransition, LEGAL_TRANSITIONS
  <2>3. Atomic!RefuseCancel
    BY <1>1, <2>1, <2>2 DEF Atomic!RefuseCancel, Atomic!Reviewed
  <2> QED
    BY <2>1, <2>3 DEF Atomic!Next
<1> QED
  BY <1>2, <1>3

LEMMA FinishCancelMaps ==
  ASSUME IInv, IInv', ChecksStillHold, NEW c \in Calls, FinishCancel(c)
  PROVE  Atomic!Next
<1>1. state \notin TERMINAL_STATES /\ run # 0 /\ CloseTask
  BY FinishFinds DEF FinishCancel
<1>2. AgentTold # "none"
  BY <1>1 DEF IInv, Runs, RunStatus, AgentTold
<1> QED
  BY <1>1, <1>2, CloseTaskMaps, AgentAfterCall

LEMMA CancelUnboundMaps ==
  ASSUME IInv, CancelUnbound
  PROVE  Atomic!Next
<1>1. AgentTold = "none" /\ AgentTold' = "none" /\ CloseTask
      /\ state \notin TERMINAL_STATES
  BY DEF CancelUnbound, CloseTask, AgentTold
<1> QED
  BY <1>1, CloseTaskMaps

LEMMA FinishAmendMaps ==
  ASSUME ChecksStillHold, IInv, NEW c \in Calls, FinishAmend(c)
  PROVE  Atomic!Amend /\ revision' = revision + 1
<1>1. calls[c].stateBefore = state /\ state \in {"in_progress", "blocked"}
  BY DEF FinishAmend, Answered, ChecksStillHold, StillHolds
<1>2. state' = state /\ assignee' = assignee /\ revision' = revision + 1
  BY <1>1 DEF FinishAmend, KeepOwnership, Commit
<1>3. Asked' = Asked /\ AgentTold' = AgentTold
  BY AskedSame, AgentSame DEF FinishAmend
<1> QED
  BY <1>1, <1>2, <1>3 DEF Atomic!Amend
LEMMA FinishBlockMaps ==
  ASSUME IInv, IInv', OneOpen, ChecksStillHold, NEW c \in Calls, FinishBlock(c)
  PROVE  Atomic!Block /\ revision' = revision + 1
<1> DEFINE new == [id |-> calls[c].id, state |-> "pending", action |-> "none"]
<1>1. state = "in_progress" /\ state' = "blocked"
  BY FinishFinds, FinishBlockOpensOne
<1>2. LegalTransition(state, "blocked")
  BY <1>1 DEF LegalTransition, LEGAL_TRANSITIONS
<1>3. assignee' = Principal /\ revision' = revision + 1
  BY <1>2 DEF FinishBlock, Transfer, FallBackToPrincipal, KeepOwnership, Commit
<1>4. Asked'
  <2>1. checkpoints' = Append(checkpoints, new) /\ checkpoints \in Seq(Checkpoint)
    BY DEF IInv, Objects, FinishBlock, StoreCheckpoint
  <2>2. new.state = "pending"
    OBVIOUS
  <2> HIDE DEF new
  <2>3. /\ Len(checkpoints') \in DOMAIN checkpoints'
        /\ checkpoints'[Len(checkpoints')] = new
        /\ Len(checkpoints') \in Nat
    BY <2>1
  <2> QED
    BY <2>2, <2>3 DEF Asked, Open, Stored
<1>5. ~Asked
  BY <1>1, NobodyAskedAtWork
<1>6. AgentTold' = "blocked"
  BY AgentAfterCall
<1> QED
  BY <1>1, <1>3, <1>4, <1>5, <1>6 DEF Atomic!Block

LEMMA FinishResolveMaps ==
  ASSUME IInv, IInv', OneOpen, ChecksStillHold, NEW c \in Calls, FinishResolve(c)
  PROVE  Atomic!Answer /\ revision' = revision + 1
<1> DEFINE target == IF calls[c].action = "reject" THEN "completed" ELSE "in_progress"
<1>1. state = "blocked" /\ Open(calls[c].object)
  BY FinishFinds
<1>2. LegalTransition(state, target)
  BY <1>1, LegalMoves DEF IInv
<1>3. /\ state' = target /\ revision' = revision + 1
      /\ target = "completed" => assignee' = assignee
  BY <1>2 DEF FinishResolve, KeepOwnership, Commit
<1>4. Asked /\ ~Asked'
  <2>1. checkpoints \in Seq(Checkpoint) /\ checkpoints' \in Seq(Checkpoint)
    BY DEF IInv, Objects
  <2> QED
    BY <1>1, <2>1, ResolveChanges, AskedNoMore
<1>5. assignee' \in Actors
  BY DEF IInv, Ownership
<1>6. AgentTold' = "running"
  BY AgentAfterCall
<1> QED
  BY <1>1, <1>3, <1>4, <1>5, <1>6 DEF Atomic!Answer

LEMMA ExpireMaps ==
  ASSUME IInv, IInv', OneOpen, NEW n \in DOMAIN checkpoints, Expire(n)
  PROVE  Atomic!Expire /\ revision' = revision + 1
<1>1. Asked /\ ~Asked'
  <2>1. checkpoints \in Seq(Checkpoint) /\ checkpoints' \in Seq(Checkpoint)
    BY DEF IInv, Objects
  <2> QED
    BY <2>1, ExpireChanges, AskedNoMore DEF Expire
<1>2. AgentTold' = AgentTold
  BY AgentSame DEF Expire
<1> QED
  BY <1>1, <1>2 DEF Expire, KeepOwnership, Commit, Atomic!Expire

LEMMA NewHolderMaps ==
  ASSUME IInv, IInv', ChecksStillHold, NEW c \in Calls,
         FinishHandoff(c) \/ FinishDelegate(c)
  PROVE  Atomic!Transfer /\ revision' = revision + 1
<1>1. state \notin TERMINAL_STATES
  BY FinishFinds
<1>2. assignee' \in Actors
  BY DEF IInv, Ownership
<1>3. Asked' = Asked /\ AgentTold' = "running"
  BY AskedSame, AgentAfterCall DEF FinishHandoff, FinishDelegate
<1>4. state' = state /\ revision' = revision + 1
  BY DEF FinishHandoff, FinishDelegate, Commit
<1> QED
  BY <1>1, <1>2, <1>3, <1>4 DEF TERMINAL_STATES, Atomic!Transfer, Atomic!Over

LEMMA SubmitReviewMaps ==
  ASSUME IInv', NEW n, NEW reviewer, NEW kind, NEW verdict,
         SubmitReview(n, reviewer, kind, verdict)
  PROVE  Atomic!Review /\ revision' = revision + 1
<1> DEFINE outcome == Outcome(n, kind, verdict)
           rework == \/ outcome = "changes_requested"
                     \/ kind = "plan" /\ outcome = "approved"
<1>1. /\ state' = IF rework THEN "in_progress"
                  ELSE IF outcome = "approved" THEN "completed"
                  ELSE IF outcome = "rejected" THEN "rejected"
                  ELSE "under_review"
      /\ ~rework => assignee' = assignee
  BY DEF SubmitReview, KeepOwnership
<1> HIDE DEF rework, outcome
<1>2. assignee' \in Actors
  BY DEF IInv, Ownership
<1>3. state \in {"review_ready", "under_review"} /\ revision' = revision + 1
  BY DEF SubmitReview, Commit
<1>4. Asked' = Asked /\ AgentTold' = AgentTold
  BY AskedSame, AgentSame DEF SubmitReview
<1> QED
  BY <1>1, <1>2, <1>3, <1>4 DEF Atomic!Review, Atomic!Reviewed, Atomic!Over

\* Every step on the task is a step of the abstract task or invisible there.
LEMMA LocalStepMaps ==
  ASSUME IInv, IInv', OneOpen, LocalStep
  PROVE  Atomic!Next \/ UNCHANGED seenVars
<1>1. CASE Start
  <2>1. Asked' = Asked /\ AgentTold' = AgentTold
    BY <1>1, AskedSame, AgentSame DEF Start
  <2>2. Atomic!Start /\ revision' = revision + 1
    BY <1>1, <2>1 DEF Start, KeepOwnership, Commit, Atomic!Start
  <2> QED
    BY <2>2 DEF Atomic!Next, Atomic!Operation
<1>2. CASE CancelUnbound
  BY <1>2, CancelUnboundMaps
<1>3. ASSUME NEW n \in DOMAIN checkpoints, Expire(n)
      PROVE  Atomic!Next
  BY <1>3, ExpireMaps DEF Atomic!Next, Atomic!Operation
<1>4. ASSUME NEW to \in Actors, NEW via \in EnabledVias, TransferLocally(to, via)
      PROVE  Atomic!Next
  <2>1. Asked' = Asked /\ AgentTold' = AgentTold
    BY <1>4, AskedSame, AgentSame DEF TransferLocally
  <2>2. /\ state \notin TERMINAL_STATES /\ state' = state
        /\ assignee' = to /\ revision' = revision + 1
    BY <1>4 DEF TransferLocally, Transfer, Commit
  <2>3. Atomic!Transfer
    BY <2>1, <2>2 DEF TERMINAL_STATES, Atomic!Transfer, Atomic!Over
  <2> QED
    BY <2>2, <2>3 DEF Atomic!Next, Atomic!Operation
<1>5. CASE CommitArtifact
  <2>1. Asked' = Asked /\ AgentTold' = AgentTold
    BY <1>5, AskedSame, AgentSame DEF CommitArtifact
  <2>2. assignee' = Principal
    BY <1>5 DEF CommitArtifact, FallBackToPrincipal, Transfer, KeepOwnership
  <2>3. Atomic!Commit /\ revision' = revision + 1
    BY <1>5, <2>1, <2>2 DEF CommitArtifact, Commit, Atomic!Commit
  <2> QED
    BY <2>3 DEF Atomic!Next, Atomic!Operation
<1>6. ASSUME NEW n, NEW reviewer, NEW kind, NEW verdict,
             SubmitReview(n, reviewer, kind, verdict)
      PROVE  Atomic!Next
  BY <1>6, SubmitReviewMaps DEF Atomic!Next, Atomic!Operation
<1>7. ASSUME NEW n, NEW by, CommentReview(n, by)
      PROVE  UNCHANGED seenVars
  BY <1>7, AskedSame, AgentSame DEF CommentReview, seenVars
<1> QED
  BY <1>1, <1>2, <1>3, <1>4, <1>5, <1>6, <1>7 DEF LocalStep

LEMMA AwaitingStepMaps ==
  ASSUME IInv, IInv', OneOpen, ChecksStillHold, NEW c \in Calls, AwaitingStep(c)
  PROVE  Atomic!Next \/ UNCHANGED seenVars
<1>1. ASSUME UNCHANGED <<taskVars, run, told, audit>>
      PROVE  UNCHANGED seenVars
  BY <1>1, AskedSame, AgentSame DEF taskVars, seenVars
<1>2. CASE \/ BeginAssign(c) \/ BeginCancel(c) \/ BeginAmend(c)
           \/ BeginBlock(c, "interrupt") \/ BeginBlock(c, "raise")
           \/ BeginResolve(c) \/ BeginHandoff(c) \/ BeginDelegate(c)
  BY <1>1, <1>2 DEF BeginAssign, BeginCancel, BeginAmend, BeginBlock,
     BeginResolve, BeginHandoff, BeginDelegate, Await
<1>3. CASE AdapterFails(c)
  BY <1>1, <1>3 DEF AdapterFails
<1>4. CASE FinishCancel(c)
  BY <1>4, FinishCancelMaps
<1>5. CASE \/ FinishAssign(c) \/ FinishAmend(c) \/ FinishBlock(c)
           \/ FinishResolve(c) \/ FinishHandoff(c) \/ FinishDelegate(c)
  BY <1>5, FinishAssignMaps, FinishAmendMaps, FinishBlockMaps,
     FinishResolveMaps, NewHolderMaps DEF Atomic!Next, Atomic!Operation
<1> QED
  BY <1>2, <1>3, <1>4, <1>5 DEF AwaitingStep

LEMMA StepMaps ==
  ASSUME IInv, IInv', SInv, [Next]_vars
  PROVE  [Atomic!Next]_seenVars
<1>1. CASE UNCHANGED vars
  BY <1>1, AskedSame, AgentSame DEF vars, taskVars, seenVars
<1>2. CASE LocalStep
  BY <1>2, LocalStepMaps DEF SInv
<1>3. ASSUME NEW c \in Calls, AwaitingStep(c)
      PROVE  [Atomic!Next]_seenVars
  BY <1>3, AwaitingStepMaps DEF SInv
<1> QED
  BY <1>1, <1>2, <1>3 DEF Next

\* A client that awaits its calls sees each of them take effect at once and in
\* full on a task that still allows it (operations/task.py, checkpoint.py,
\* ownership.py), whatever the people, the agents, the review policy and the
\* bounds, and however often an adapter fails.
THEOREM SequentialCallsTakeEffectAtOnce ==
  ASSUME Overlap = FALSE
  PROVE  Spec => CallsTakeEffectAtOnce
<1>1. Init => Atomic!Init
  BY DEF Init, Asked, AgentTold, Atomic!Init
<1>2. IInv /\ IInv' /\ SInv /\ [Next]_vars => [Atomic!Next]_seenVars
  BY StepMaps
<1> QED
  BY <1>1, <1>2, InductiveInvariant, SequentialInvariant, PTL
     DEF Spec, CallsTakeEffectAtOnce, Atomic!Spec, seenVars
=============================================================================
