-------------------------- MODULE HarnessProjection --------------------------
(***************************************************************************)
(* How the events of one agent run become checkpoints and artifacts of its *)
(* task (loops/hlp/sdk.py, project_harness_events), with the adapter's     *)
(* event queue (adapters/_harness.py, fake.py) on one side and the console *)
(* that summarises the outcome (tui/_base.py) on the other.                *)
(*                                                                         *)
(* A pass peeks at the queue, projects its events one by one and           *)
(* acknowledges each.  It is suspended while the adapter blocks the run    *)
(* for a checkpoint and while the event bus publishes; other passes,       *)
(* turns of the agent and decisions of the human run meanwhile.            *)
(*                                                                         *)
(* The queue only loses a prefix, so it is the part of all events so far   *)
(* that follows the first `acked` ones.                                    *)
(***************************************************************************)
EXTENDS Integers, Sequences

CONSTANTS
  Projectors,      \* callers of project_harness_events
  AgentCursors,    \* event ids that an agent puts on its own events
  MaxEvents,       \* bound: events the agent emits
  MaxFaults        \* bound: adapter and event bus calls that raise

ASSUME ProjectionConstants ==
  /\ AgentCursors \cap Nat = {}
  /\ MaxEvents \in Nat /\ MaxFaults \in Nat

VARIABLES
  state,         \* task.state; "over" stands for the terminal states
  events,        \* all events queued so far
  acked,         \* how many of them are acknowledged, that is deleted
  passes,        \* projector -> its running pass
  checkpoints,   \* the checkpoints of the task, in the order of creation
  projected,     \* the events that were projected successfully
  shown,         \* the checkpoints the console told the human of
  faults

vars == <<state, events, acked, passes, checkpoints, projected, shown, faults>>
-----------------------------------------------------------------------------
\* A question is needs_approval, needs_choice or needs_input; a faulty event
\* fails whenever it is projected: it names another task, or offers no choices.
EventKind == {"question", "artifact", "faulty"}

\* An event without an id of its own is numbered by the adapter.
Event == [kind : EventKind, cursor : Nat \cup AgentCursors]

Checkpoint == [event : Nat \ {0}, state : {"pending", "resolved"}]

Idle == [phase |-> "idle"]
\* next is the event being projected, last the last one of the peeked batch.
Pass == {Idle} \cup [phase : {"blocking", "publishing"}, next : Nat \ {0}, last : Nat]

Pending == {c \in DOMAIN checkpoints : checkpoints[c].state = "pending"}

\* _queue_harness_events, with what one call of the agent printed.
Emits ==
  \E k \in 0 .. MaxEvents - Len(events) :
    \E batch \in [1 .. k -> EventKind \X ({0} \cup AgentCursors)] :
      events' = events \o
        [i \in 1 .. k |->
           [kind |-> batch[i][1],
            cursor |-> IF batch[i][2] = 0 THEN Len(events) + i ELSE batch[i][2]]]
-----------------------------------------------------------------------------
Init ==
  /\ state = "in_progress"
  /\ events = << >>
  /\ acked = 0
  /\ passes = [p \in Projectors |-> Idle]
  /\ checkpoints = << >>
  /\ projected = {}
  /\ shown = {}
  /\ faults = 0

\* Operations of the human, atomic here; HLPOperations interleaves them.

\* task_amend steers the agent, which may print events.
Amend ==
  /\ state \in {"in_progress", "blocked"}
  /\ Emits
  /\ UNCHANGED <<state, acked, passes, checkpoints, projected, shown, faults>>

\* checkpoint_resolve resumes the agent.
Resolve(c) ==
  /\ state = "blocked" /\ c \in Pending
  /\ checkpoints' = [checkpoints EXCEPT ![c].state = "resolved"]
  /\ state' = "in_progress"
  /\ Emits
  /\ UNCHANGED <<acked, passes, projected, shown, faults>>

\* A review asks for changes.
RequestChanges ==
  /\ state = "review_ready"
  /\ state' = "in_progress"
  /\ UNCHANGED <<events, acked, passes, checkpoints, projected, shown, faults>>

\* The task is cancelled, delivered or rejected.
End ==
  /\ state # "over"
  /\ state' = "over"
  /\ UNCHANGED <<events, acked, passes, checkpoints, projected, shown, faults>>
-----------------------------------------------------------------------------
\* One step of a pass ends at its next suspension.

\* The pass returns.  The console shows the projected objects and the inbox.
Returns(p) ==
  /\ passes' = [passes EXCEPT ![p] = Idle]
  /\ shown' = shown \cup Pending
  /\ UNCHANGED <<state, checkpoints, projected>>

\* The pass raises: the console catches that and says nothing.
Raises(p) ==
  /\ passes' = [passes EXCEPT ![p] = Idle]
  /\ UNCHANGED <<state, checkpoints, projected, shown>>

\* The body of the loop for event n, up to its first suspension.
Project_SkipsRefused(p, n, last) ==
  IF n > last THEN Returns(p)
  ELSE /\ passes' = [passes EXCEPT ![p] =
                       [phase |-> "publishing", next |-> n, last |-> last]]
       /\ projected' = IF state = "in_progress" /\ events[n].kind # "faulty"
                         THEN projected \cup {n} ELSE projected
       /\ UNCHANGED <<state, checkpoints, shown>>
Project(p, n, last) ==
  \/ n > last /\ Returns(p)
  \/ /\ n <= last
     /\ state # "in_progress" \/ events[n].kind = "faulty"
     /\ Raises(p)
  \/ /\ n <= last /\ state = "in_progress" /\ events[n].kind = "question"
     /\ passes' = [passes EXCEPT ![p] =
                     [phase |-> "blocking", next |-> n, last |-> last]]
     /\ UNCHANGED <<state, checkpoints, projected, shown>>
  \/ /\ n <= last /\ state = "in_progress" /\ events[n].kind = "artifact"
     /\ state' = "review_ready"
     /\ projected' = projected \cup {n}
     /\ passes' = [passes EXCEPT ![p] =
                     [phase |-> "publishing", next |-> n, last |-> last]]
     /\ UNCHANGED <<checkpoints, shown>>

\* peek_events, and the first event.
Peek(p) ==
  /\ passes[p] = Idle
  /\ Project(p, acked + 1, Len(events))
  /\ UNCHANGED <<events, acked, faults>>

\* adapter.block returns, with what the agent printed: checkpoint_raise stores
\* its checkpoint and only then looks whether the task may become blocked.
BlockReturns(p) ==
  LET pass == passes[p] IN
  /\ pass.phase = "blocking"
  /\ Emits
  /\ checkpoints' = Append(checkpoints, [event |-> pass.next, state |-> "pending"])
  /\ IF state \in {"in_progress", "blocked"}
     THEN /\ state' = "blocked"
          /\ projected' = projected \cup {pass.next}
          /\ passes' = [passes EXCEPT ![p].phase = "publishing"]
     ELSE /\ passes' = [passes EXCEPT ![p] = Idle]
          /\ UNCHANGED <<state, projected>>
  /\ UNCHANGED <<acked, shown, faults>>

\* ack_events deletes the queue up to the first event with the cursor.
Through(n) == {m \in acked + 1 .. Len(events) : events[m].cursor = events[n].cursor}

\* The event bus is done: the event is acknowledged, and the next one begins.
Published_NoAck(p) ==
  LET pass == passes[p] IN
  /\ pass.phase = "publishing"
  /\ Project(p, pass.next + 1, pass.last)
  /\ UNCHANGED <<events, acked, faults>>
Published(p) ==
  LET pass == passes[p] IN
  /\ pass.phase = "publishing"
  /\ IF Through(pass.next) = {}
     THEN Raises(p) /\ UNCHANGED acked
     ELSE /\ acked' = CHOOSE m \in Through(pass.next) :
                        \A other \in Through(pass.next) : m <= other
          /\ Project(p, pass.next + 1, pass.last)
  /\ UNCHANGED <<events, faults>>

\* adapter.block or the event bus raises: the event is not acknowledged.
Fails_Hangs(p) ==
  /\ passes[p] # Idle
  /\ faults < MaxFaults
  /\ faults' = faults + 1
  /\ passes' = [passes EXCEPT ![p].phase = "hung"]
  /\ UNCHANGED <<state, checkpoints, projected, shown, events, acked>>
Fails(p) ==
  /\ passes[p] # Idle
  /\ faults < MaxFaults
  /\ faults' = faults + 1
  /\ Raises(p)
  /\ UNCHANGED <<events, acked>>

Resume(p) == BlockReturns(p) \/ Published(p)

Next ==
  \/ Amend \/ RequestChanges \/ End
  \/ \E c \in Pending : Resolve(c)
  \/ \E p \in Projectors : Peek(p) \/ Resume(p) \/ Fails(p)

Spec == Init /\ [][Next]_vars

\* The console peeks after every command, the event loop resumes every pass,
\* and the human answers what is pending and reviews what is delivered.
FairSpec ==
  /\ Spec
  /\ WF_vars(\E c \in Pending : Resolve(c))
  /\ WF_vars(RequestChanges)
  /\ \A p \in Projectors : WF_vars(Peek(p)) /\ WF_vars(Resume(p))
-----------------------------------------------------------------------------
\* Properties.

TypeOK ==
  /\ state \in {"in_progress", "blocked", "review_ready", "over"}
  /\ events \in Seq(Event)
  /\ acked \in 0 .. Len(events)
  /\ passes \in [Projectors -> Pass]
  /\ checkpoints \in Seq(Checkpoint)
  /\ projected \subseteq 1 .. Len(events)
  /\ shown \subseteq DOMAIN checkpoints
  /\ faults \in 0 .. MaxFaults

\* An event leaves the queue only after it was projected, whoever else is
\* projecting the same queue (HLP.md: a failed projection must not ack).
AckedWasProjected == 1 .. acked \subseteq projected

\* No event takes effect before all earlier ones have: a pass that cannot
\* project an event stops there.
ProjectedInOrder == \A n \in projected : 1 .. n \subseteq projected

\* The number of events that took effect, for the refinement.
Delivered == CHOOSE n \in 0 .. Len(events) : projected = 1 .. n
Delivery == INSTANCE EventDelivery WITH delivered <- Delivered, confirmed <- acked

\* The projection of a run delivers its events reliably.
DeliversReliably == Delivery!Spec

\* Every event is projected in the end, unless the task is over or a faulty
\* event is stuck at the head of the queue (FairSpec).
EveryEventIsProjected ==
  <>[](\A n \in DOMAIN events :
         n \in projected \/ state = "over"
           \/ \E m \in 1 .. n : events[m].kind = "faulty")

\* Not kept when an event of a batch fails after another took effect.
\* When no pass is running, the human was told of every checkpoint the task is
\* blocked on (_sync_harness_human_loop: summarize for the host).
BlockedIsShown ==
  state = "blocked" /\ (\A p \in Projectors : passes[p] = Idle) => Pending \subseteq shown
=============================================================================
