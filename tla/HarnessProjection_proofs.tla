----------------------- MODULE HarnessProjection_proofs -----------------------
(***************************************************************************)
(* What HarnessProjection guarantees for any number of passes, events and  *)
(* failures, when the adapter numbers the events: nothing is acknowledged  *)
(* that did not take effect, nothing is overtaken, and the projection      *)
(* implements EventDelivery.                                               *)
(*                                                                         *)
(* The inductive invariant IInv says where a suspended pass may be: not    *)
(* more than one event after the acknowledged ones, on an event that is in *)
(* the queue, and, once it publishes, on one that took effect.             *)
(***************************************************************************)
EXTENDS HarnessProjection, TLAPS

\* The agent puts no ids of its own on its events.
AdapterNumbers == AgentCursors = {}
Numbered == AdapterNumbers => \A n \in DOMAIN events : events[n].cursor = n

\* What took effect is an initial part of the events.
ProjectedIsPrefix == \E n \in 0 .. Len(events) : projected = 1 .. n

PassInv(p) ==
  passes[p] # Idle =>
    /\ passes[p].next <= passes[p].last
    /\ passes[p].last <= Len(events)
    /\ passes[p].next <= acked + 1
    /\ passes[p].phase = "publishing" => passes[p].next \in projected

IInv ==
  /\ TypeOK
  /\ Numbered
  /\ ProjectedIsPrefix
  /\ AckedWasProjected
  /\ \A p \in Projectors : PassInv(p)
-----------------------------------------------------------------------------
\* The queue grows at its end only.
LEMMA EmitsGrows ==
  ASSUME TypeOK, Numbered, Emits
  PROVE  /\ events' \in Seq(Event)
         /\ Len(events') >= Len(events)
         /\ Len(events') \in Nat
         /\ AdapterNumbers => \A n \in DOMAIN events' : events'[n].cursor = n
<1> DEFINE Cursor(b, i) == IF b = 0 THEN Len(events) + i ELSE b
<1>1. PICK k \in 0 .. MaxEvents - Len(events) :
        \E batch \in [1 .. k -> EventKind \X ({0} \cup AgentCursors)] :
          events' = events \o [i \in 1 .. k |->
            [kind |-> batch[i][1], cursor |-> Cursor(batch[i][2], i)]]
  BY DEF Emits
<1>2. PICK batch \in [1 .. k -> EventKind \X ({0} \cup AgentCursors)] :
        events' = events \o [i \in 1 .. k |->
          [kind |-> batch[i][1], cursor |-> Cursor(batch[i][2], i)]]
  BY <1>1
<1> DEFINE new == [i \in 1 .. k |->
             [kind |-> batch[i][1], cursor |-> Cursor(batch[i][2], i)]]
<1>3. events \in Seq(Event) /\ Len(events) \in Nat /\ k \in Nat
  BY ProjectionConstants DEF TypeOK
<1>4. ASSUME NEW i \in 1 .. k
      PROVE  new[i] \in Event
  <2>1. batch[i][1] \in EventKind /\ batch[i][2] \in {0} \cup AgentCursors
    BY <1>4
  <2>2. Cursor(batch[i][2], i) \in Nat \cup AgentCursors
    BY <2>1, <1>3, <1>4
  <2> QED BY <2>1, <2>2, <1>4 DEF Event
<1>5. new \in Seq(Event) /\ Len(new) = k
  BY <1>3, <1>4
<1>6. events' = events \o new
  BY <1>2
<1>7. events' \in Seq(Event) /\ Len(events') = Len(events) + k
  BY <1>3, <1>5, <1>6
<1>8. ASSUME AdapterNumbers, NEW n \in DOMAIN events'
      PROVE  events'[n].cursor = n
  <2>1. n \in 1 .. Len(events) + k
    BY <1>7, <1>8
  <2>2. CASE n <= Len(events)
    BY <2>1, <2>2, <1>3, <1>5, <1>6, <1>8 DEF Numbered
  <2>3. CASE n > Len(events)
    <3>1. n - Len(events) \in 1 .. k /\ events'[n] = new[n - Len(events)]
      BY <2>1, <2>3, <1>3, <1>5, <1>6
    <3>2. batch[n - Len(events)][2] = 0
      BY <3>1, <1>8 DEF AdapterNumbers
    <3>3. new[n - Len(events)].cursor = Cursor(0, n - Len(events))
      BY <3>1, <3>2
    <3>4. Cursor(0, n - Len(events)) = n
      BY <2>1, <1>3
    <3> HIDE DEF new, Cursor
    <3> QED BY <3>1, <3>3, <3>4
  <2> QED BY <2>1, <2>2, <2>3, <1>3
<1> QED BY <1>3, <1>7, <1>8
-----------------------------------------------------------------------------
LEMMA InitHolds == Init => IInv
BY ProjectionConstants
   DEF Init, IInv, TypeOK, Numbered, ProjectedIsPrefix, AckedWasProjected, PassInv,
       Pass, Idle

\* A turn of the agent that touches nothing but the state, the queue and the
\* checkpoints.
LEMMA TurnKeeps ==
  ASSUME IInv, Emits \/ UNCHANGED events,
         state' \in {"in_progress", "blocked", "review_ready", "over"},
         checkpoints' \in Seq(Checkpoint), DOMAIN checkpoints' = DOMAIN checkpoints,
         UNCHANGED <<acked, passes, projected, shown, faults>>
  PROVE  IInv'
<1>1. events' \in Seq(Event) /\ Len(events') >= Len(events) /\ Len(events') \in Nat
  BY EmitsGrows DEF IInv, TypeOK
<1>2. TypeOK'
  BY <1>1 DEF IInv, TypeOK
<1>3. Numbered'
  BY EmitsGrows DEF IInv, Numbered, AdapterNumbers
<1>4. ProjectedIsPrefix'
  BY <1>1 DEF IInv, TypeOK, ProjectedIsPrefix
<1>5. AckedWasProjected'
  BY DEF IInv, AckedWasProjected
<1>6. ASSUME NEW p \in Projectors
      PROVE  PassInv(p)'
  BY <1>1 DEF IInv, TypeOK, PassInv, Pass, Idle
<1> QED BY <1>2, <1>3, <1>4, <1>5, <1>6 DEF IInv
-----------------------------------------------------------------------------
\* An event whose predecessors took effect may take effect.
LEMMA EffectKeeps ==
  ASSUME IInv, NEW n \in Nat \ {0}, NEW a \in Nat, n <= a + 1,
         1 .. a \subseteq projected, n <= Len(events'),
         Len(events') \in Nat, Len(events') >= Len(events),
         projected' = projected \cup {n}
  PROVE  ProjectedIsPrefix'
<1>1. PICK m \in 0 .. Len(events) : projected = 1 .. m
  BY DEF IInv, ProjectedIsPrefix
<1>2. Len(events) \in Nat
  BY DEF IInv, TypeOK
<1>3. a <= m
  <2>1. a = 0 \/ a \in 1 .. a
    OBVIOUS
  <2> QED BY <2>1, <1>1, <1>2
<1>4. m \in Nat /\ n <= m + 1
  BY <1>1, <1>2, <1>3
<1>5. CASE n <= m
  <2>1. projected' = 1 .. m
    BY <1>1, <1>4, <1>5
  <2>2. m \in 0 .. Len(events')
    BY <1>1, <1>2
  <2> QED BY <2>1, <2>2 DEF ProjectedIsPrefix
<1>6. CASE n = m + 1
  <2>1. projected' = 1 .. n
    BY <1>1, <1>4, <1>6
  <2>2. n \in 0 .. Len(events')
    OBVIOUS
  <2> QED BY <2>1, <2>2 DEF ProjectedIsPrefix
<1> QED BY <1>4, <1>5, <1>6

\* One step of the loop over a batch, after the acknowledgments up to a.
LEMMA ProjectKeeps ==
  ASSUME IInv, NEW p \in Projectors, NEW n \in Nat \ {0}, NEW last \in Nat,
         last <= Len(events), n <= acked' + 1,
         acked' \in acked .. Len(events), 1 .. acked' \subseteq projected,
         Project(p, n, last), UNCHANGED <<events, faults>>
  PROVE  IInv'
<1> DEFINE Going(phase) == [phase |-> phase, next |-> n, last |-> last]
<1>1. /\ passes' \in [Projectors -> Pass]
      /\ \A q \in Projectors \ {p} : passes'[q] = passes[q]
      /\ passes'[p] = Idle \/ (\E phase \in {"blocking", "publishing"} : passes'[p] = Going(phase))
  <2>1. \E pass \in Pass :
           /\ passes' = [passes EXCEPT ![p] = pass]
           /\ pass = Idle \/ (\E phase \in {"blocking", "publishing"} : pass = Going(phase))
    BY DEF Project, Returns, Raises, Pass
  <2> QED BY <2>1 DEF IInv, TypeOK
<1>2. /\ projected' = projected \/ (projected' = projected \cup {n} /\ n <= last)
      /\ projected \subseteq projected'
      /\ passes'[p] = Idle \/ n <= last
      /\ passes'[p] = Going("publishing") => n \in projected'
  BY DEF Project, Returns, Raises, Idle, IInv, TypeOK
<1>3. /\ state' \in {"in_progress", "blocked", "review_ready", "over"}
      /\ checkpoints' = checkpoints
      /\ shown' \subseteq DOMAIN checkpoints
  BY DEF Project, Returns, Raises, Pending, IInv, TypeOK
<1>4. TypeOK'
  BY <1>1, <1>2, <1>3 DEF IInv, TypeOK
<1>5. Numbered'
  BY DEF IInv, Numbered
<1>6. AckedWasProjected'
  BY <1>2 DEF AckedWasProjected
<1>7. ProjectedIsPrefix'
  <2>1. CASE projected' = projected
    BY <2>1 DEF IInv, ProjectedIsPrefix
  <2>2. CASE projected' = projected \cup {n} /\ n <= last
    <3>1. Len(events) \in Nat /\ acked' \in Nat /\ events' = events
      BY DEF IInv, TypeOK
    <3>2. PICK a \in Nat : a = acked'
      BY <3>1
    <3>3. n <= a + 1 /\ 1 .. a \subseteq projected
      BY <3>2
    <3>4. n <= Len(events') /\ Len(events') \in Nat /\ Len(events') >= Len(events)
      BY <3>1, <2>2
    <3> QED BY <2>2, <3>3, <3>4, EffectKeeps
  <2> QED BY <2>1, <2>2, <1>2
<1>8. ASSUME NEW q \in Projectors
      PROVE  PassInv(q)'
  <2>1. CASE q # p
    BY <2>1, <1>1, <1>2, <1>8 DEF IInv, TypeOK, PassInv, Pass, Idle
  <2>2. CASE q = p /\ passes'[p] = Idle
    BY <2>2 DEF PassInv
  <2>3. CASE q = p /\ n <= last /\ passes'[p] = Going("blocking")
    <3>1. /\ passes'[q].next = n /\ passes'[q].last = last
          /\ passes'[q].phase # "publishing"
      BY <2>3
    <3>2. events' = events
      OBVIOUS
    <3> HIDE DEF Going
    <3> QED BY <3>1, <3>2, <2>3 DEF PassInv
  <2>4. CASE q = p /\ n <= last /\ passes'[p] = Going("publishing")
    <3>1. n \in projected' /\ events' = events
      BY <2>4, <1>2
    <3>2. passes'[q].next = n /\ passes'[q].last = last
      BY <2>4
    <3> HIDE DEF Going
    <3> QED BY <3>1, <3>2, <2>4 DEF PassInv
  <2> QED BY <2>1, <2>2, <2>3, <2>4, <1>1, <1>2
<1> QED BY <1>4, <1>5, <1>6, <1>7, <1>8 DEF IInv
-----------------------------------------------------------------------------
LEMMA PeekKeeps ==
  ASSUME IInv, NEW p \in Projectors, Peek(p)
  PROVE  IInv'
<1>1. acked \in Nat /\ Len(events) \in Nat /\ acked <= Len(events)
  BY DEF IInv, TypeOK
<1>2. Project(p, acked + 1, Len(events)) /\ acked' = acked /\ UNCHANGED <<events, faults>>
  BY DEF Peek
<1>3. PICK n \in Nat \ {0} : n = acked + 1
  BY <1>1
<1>4. PICK last \in Nat : last = Len(events)
  BY <1>1
<1>5. Project(p, n, last)
  BY <1>2, <1>3, <1>4
<1>6. 1 .. acked' \subseteq projected
  BY <1>2 DEF IInv, AckedWasProjected
<1>7. acked' \in acked .. Len(events) /\ n <= acked' + 1 /\ last <= Len(events)
  BY <1>1, <1>2, <1>3, <1>4
<1> QED BY <1>2, <1>5, <1>6, <1>7, ProjectKeeps

\* An acknowledgment goes through the event that was projected, no further.
LEMMA PublishedAcks ==
  ASSUME IInv, AdapterNumbers, NEW p \in Projectors, Published(p)
  PROVE  /\ passes[p].next \in projected
         /\ passes[p].next \in Nat \ {0}
         /\ passes[p].last \in Nat
         /\ passes[p].last <= Len(events)
         /\ \/ Raises(p) /\ acked' = acked
            \/ /\ acked' = passes[p].next
               /\ acked' > acked
               /\ acked' <= Len(events)
               /\ Project(p, passes[p].next + 1, passes[p].last)
         /\ UNCHANGED <<events, faults>>
<1> DEFINE n == passes[p].next
<1>1. /\ passes[p] # Idle /\ passes[p].phase = "publishing"
      /\ UNCHANGED <<events, faults>>
  BY DEF Published, Idle
<1>2. /\ n \in projected /\ n \in Nat \ {0} /\ passes[p].last \in Nat
      /\ passes[p].last <= Len(events) /\ n <= passes[p].last
  BY <1>1 DEF IInv, PassInv, TypeOK, Pass
<1>3. acked \in Nat /\ Len(events) \in Nat /\ n \in 1 .. Len(events)
  BY <1>2 DEF IInv, TypeOK
<1>4. \A m \in 1 .. Len(events) : events[m].cursor = m
  BY AdapterNumbers DEF IInv, Numbered, TypeOK
<1>5. Through(n) = IF n > acked THEN {n} ELSE {}
  BY <1>3, <1>4 DEF Through
<1>6. CASE n <= acked
  BY <1>1, <1>2, <1>3, <1>5, <1>6 DEF Published
<1>7. CASE n > acked
  <2>1. Through(n) = {n}
    BY <1>3, <1>5, <1>7
  <2>2. (CHOOSE m \in Through(n) : \A other \in Through(n) : m <= other) = n
    BY <2>1, <1>3
  <2>3. Through(n) # {}
    BY <2>1
  <2>4. /\ acked' = CHOOSE m \in Through(n) : \A other \in Through(n) : m <= other
        /\ Project(p, n + 1, passes[p].last)
    BY <2>3 DEF Published
  <2>5. acked' = n
    BY <2>2, <2>4
  <2>6. acked' > acked /\ acked' <= Len(events)
    BY <1>3, <1>7, <2>5
  <2> QED BY <1>1, <1>2, <2>4, <2>5, <2>6, Zenon
<1> QED BY <1>2, <1>3, <1>6, <1>7

LEMMA RaisesKeeps ==
  ASSUME IInv, NEW p \in Projectors, Raises(p), UNCHANGED <<events, acked>>,
         faults' \in 0 .. MaxFaults
  PROVE  IInv'
<1>1. /\ passes' \in [Projectors -> Pass] /\ passes'[p] = Idle
      /\ \A q \in Projectors \ {p} : passes'[q] = passes[q]
  BY DEF Raises, IInv, TypeOK, Pass
<1>2. TypeOK'
  BY <1>1 DEF Raises, IInv, TypeOK
<1>3. Numbered' /\ ProjectedIsPrefix' /\ AckedWasProjected'
  BY DEF Raises, IInv, Numbered, ProjectedIsPrefix, AckedWasProjected
<1>4. ASSUME NEW q \in Projectors
      PROVE  PassInv(q)'
  BY <1>1 DEF Raises, IInv, PassInv
<1> QED BY <1>2, <1>3, <1>4 DEF IInv

LEMMA PublishedKeeps ==
  ASSUME IInv, AdapterNumbers, NEW p \in Projectors, Published(p)
  PROVE  IInv'
<1>1. CASE Raises(p) /\ acked' = acked
  BY <1>1, PublishedAcks, RaisesKeeps DEF IInv, TypeOK
<1>2. CASE /\ acked' = passes[p].next
           /\ acked' > acked
           /\ acked' <= Len(events)
           /\ Project(p, passes[p].next + 1, passes[p].last)
  <2>1. acked \in Nat /\ Len(events) \in Nat /\ passes[p].next \in Nat \ {0}
        /\ UNCHANGED <<events, faults>>
    BY PublishedAcks DEF IInv, TypeOK
  <2>2. PICK n \in Nat \ {0} : n = passes[p].next + 1
    BY <2>1
  <2>3. PICK last \in Nat : last = passes[p].last
    BY PublishedAcks
  <2>4. Project(p, n, last) /\ last <= Len(events)
    BY <1>2, <2>2, <2>3, PublishedAcks
  <2>5. acked' \in acked .. Len(events) /\ n <= acked' + 1
    BY <1>2, <2>1, <2>2
  <2>6. 1 .. acked' \subseteq projected
    <3>1. PICK m \in 0 .. Len(events) : projected = 1 .. m
      BY DEF IInv, ProjectedIsPrefix
    <3>2. acked' \in 1 .. m
      BY <1>2, <3>1, PublishedAcks
    <3> QED BY <3>1, <3>2, <2>1
  <2> QED BY <2>1, <2>4, <2>5, <2>6, ProjectKeeps
<1> QED BY <1>1, <1>2, PublishedAcks

\* adapter.block comes back while the pass holds an event that is next.
LEMMA BlockReturnsKeeps ==
  ASSUME IInv, NEW p \in Projectors, BlockReturns(p)
  PROVE  IInv'
<1> DEFINE n == passes[p].next
<1>1. /\ passes[p] # Idle /\ Emits /\ UNCHANGED <<acked, shown, faults>>
  BY DEF BlockReturns, Idle
<1>2. /\ events' \in Seq(Event) /\ Len(events') >= Len(events) /\ Len(events') \in Nat
      /\ acked \in Nat /\ Len(events) \in Nat
      /\ Numbered'
  BY <1>1, EmitsGrows DEF IInv, TypeOK, Numbered, AdapterNumbers
<1>3. n \in Nat \ {0} /\ passes[p].last \in Nat /\ n <= passes[p].last
      /\ passes[p].last <= Len(events) /\ n <= acked + 1
  BY <1>1 DEF IInv, PassInv, TypeOK, Pass
<1>4. checkpoints' = Append(checkpoints, [event |-> n, state |-> "pending"])
  BY DEF BlockReturns
<1>5. checkpoints' \in Seq(Checkpoint) /\ shown' \subseteq DOMAIN checkpoints'
  <2>1. [event |-> n, state |-> "pending"] \in Checkpoint
    BY <1>3 DEF Checkpoint
  <2>2. checkpoints \in Seq(Checkpoint) /\ shown \subseteq 1 .. Len(checkpoints)
    BY DEF IInv, TypeOK
  <2> QED BY <1>1, <1>4, <2>1, <2>2
<1>6. CASE /\ state' = "blocked"
           /\ projected' = projected \cup {n}
           /\ passes' = [passes EXCEPT ![p].phase = "publishing"]
  <2>1. passes' \in [Projectors -> Pass]
        /\ passes'[p] = [phase |-> "publishing", next |-> n, last |-> passes[p].last]
        /\ \A q \in Projectors \ {p} : passes'[q] = passes[q]
    BY <1>1, <1>3, <1>6 DEF IInv, TypeOK, Pass
  <2>2. projected' \subseteq 1 .. Len(events')
    BY <1>2, <1>3, <1>6 DEF IInv, TypeOK
  <2>3. TypeOK'
    BY <1>1, <1>2, <1>5, <1>6, <2>1, <2>2 DEF IInv, TypeOK
  <2>4. ProjectedIsPrefix'
    <3>1. 1 .. acked \subseteq projected
      BY DEF IInv, AckedWasProjected
    <3>2. n <= Len(events')
      BY <1>2, <1>3
    <3> QED BY <1>2, <1>3, <1>6, <3>1, <3>2, EffectKeeps
  <2>5. AckedWasProjected'
    BY <1>1, <1>6 DEF IInv, AckedWasProjected
  <2>6. ASSUME NEW q \in Projectors
        PROVE  PassInv(q)'
    <3>1. CASE q = p
      BY <3>1, <2>1, <1>1, <1>2, <1>3, <1>6 DEF PassInv
    <3>2. CASE q # p
      BY <3>2, <2>1, <1>1, <1>2, <1>6 DEF IInv, TypeOK, PassInv, Pass, Idle
    <3> QED BY <3>1, <3>2
  <2> QED BY <1>2, <2>3, <2>4, <2>5, <2>6 DEF IInv
<1>7. CASE passes' = [passes EXCEPT ![p] = Idle] /\ UNCHANGED <<state, projected>>
  <2>1. passes' \in [Projectors -> Pass] /\ passes'[p] = Idle
        /\ \A q \in Projectors \ {p} : passes'[q] = passes[q]
    BY <1>7 DEF IInv, TypeOK, Pass
  <2>2. projected' \subseteq 1 .. Len(events')
    BY <1>2, <1>7 DEF IInv, TypeOK
  <2>3. TypeOK'
    BY <1>1, <1>2, <1>5, <1>7, <2>1, <2>2 DEF IInv, TypeOK
  <2>4. ProjectedIsPrefix'
    BY <1>2, <1>7 DEF IInv, ProjectedIsPrefix
  <2>5. AckedWasProjected'
    BY <1>1, <1>7 DEF IInv, AckedWasProjected
  <2>6. ASSUME NEW q \in Projectors
        PROVE  PassInv(q)'
    <3>1. CASE q = p
      BY <3>1, <2>1 DEF PassInv
    <3>2. CASE q # p
      BY <3>2, <2>1, <1>1, <1>2, <1>7 DEF IInv, TypeOK, PassInv, Pass, Idle
    <3> QED BY <3>1, <3>2
  <2> QED BY <1>2, <2>3, <2>4, <2>5, <2>6 DEF IInv
<1> QED BY <1>6, <1>7 DEF BlockReturns
-----------------------------------------------------------------------------
LEMMA NextKeeps ==
  ASSUME AdapterNumbers, IInv, [Next]_vars
  PROVE  IInv'
<1>1. CASE Amend
  BY <1>1, TurnKeeps DEF Amend, IInv, TypeOK
<1>2. CASE RequestChanges
  BY <1>2, TurnKeeps DEF RequestChanges, IInv, TypeOK
<1>3. CASE End
  BY <1>3, TurnKeeps DEF End, IInv, TypeOK
<1>4. ASSUME NEW c \in Pending, Resolve(c)
      PROVE  IInv'
  <2>1. checkpoints \in Seq(Checkpoint) /\ c \in 1 .. Len(checkpoints)
    BY <1>4 DEF Pending, IInv, TypeOK
  <2>2. checkpoints' = [checkpoints EXCEPT ![c].state = "resolved"]
    BY <1>4 DEF Resolve
  <2>3. /\ checkpoints' \in Seq(Checkpoint)
        /\ DOMAIN checkpoints' = DOMAIN checkpoints
    <3>1. checkpoints[c] \in Checkpoint
      BY <2>1
    <3>2. [checkpoints[c] EXCEPT !.state = "resolved"] \in Checkpoint
      BY <3>1 DEF Checkpoint
    <3> QED BY <2>1, <2>2, <3>2
  <2> QED BY <1>4, <2>3, TurnKeeps DEF Resolve
<1>5. ASSUME NEW p \in Projectors, Fails(p)
      PROVE  IInv'
  <2>1. faults' \in 0 .. MaxFaults
    BY <1>5, ProjectionConstants DEF Fails, IInv, TypeOK
  <2> QED BY <1>5, <2>1, RaisesKeeps DEF Fails
<1>6. CASE UNCHANGED vars
  BY <1>6 DEF vars, IInv, TypeOK, Numbered, ProjectedIsPrefix, AckedWasProjected,
              PassInv, Pass, Idle
<1> QED
  BY <1>1, <1>2, <1>3, <1>4, <1>5, <1>6, PeekKeeps, BlockReturnsKeeps, PublishedKeeps
     DEF Next, Resume

THEOREM InvariantHolds == ASSUME AdapterNumbers PROVE Spec => []IInv
<1>1. IInv /\ [Next]_vars => IInv'
  BY NextKeeps, AdapterNumbers
<1> QED BY <1>1, InitHolds, PTL DEF Spec

\* Types, for any number of passes, events and failures.
THEOREM ProjectionTypeCorrect == ASSUME AdapterNumbers PROVE Spec => []TypeOK
<1>1. IInv => TypeOK
  BY DEF IInv
<1> QED BY <1>1, InvariantHolds, AdapterNumbers, PTL

\* ack_events deletes only what project_harness_events has projected, however
\* many passes share the queue and wherever they fail.
THEOREM AcknowledgedTookEffect ==
  ASSUME AdapterNumbers PROVE Spec => []AckedWasProjected
<1>1. IInv => AckedWasProjected
  BY DEF IInv
<1> QED BY <1>1, InvariantHolds, AdapterNumbers, PTL

\* No pass overtakes an event that could not be projected.
THEOREM EventsTakeEffectInOrder ==
  ASSUME AdapterNumbers PROVE Spec => []ProjectedInOrder
<1>1. IInv => ProjectedInOrder
  BY DEF IInv, TypeOK, ProjectedIsPrefix, ProjectedInOrder
<1> QED BY <1>1, InvariantHolds, AdapterNumbers, PTL
-----------------------------------------------------------------------------
\* The refinement of EventDelivery.

\* The number the mapping chooses is the one the invariant speaks of.
LEMMA DeliveredIs ==
  ASSUME IInv
  PROVE  Delivered \in Nat /\ projected = 1 .. Delivered
BY DEF IInv, TypeOK, ProjectedIsPrefix, Delivered

\* What one step does to the projected and the acknowledged events.
LEMMA StepEffect ==
  ASSUME AdapterNumbers, IInv, [Next]_vars
  PROVE  /\ projected' = projected \/ (\E n \in Nat \ {0} : projected' = projected \cup {n})
         /\ acked' = acked \/ (acked' \in projected /\ acked' > acked)
<1>1. ASSUME NEW p \in Projectors, NEW n \in Nat \ {0}, NEW last, Project(p, n, last)
      PROVE  projected' = projected \/ projected' = projected \cup {n}
  BY <1>1 DEF Project, Returns, Raises
<1>2. ASSUME NEW p \in Projectors, Peek(p)
      PROVE  /\ projected' = projected \/ (\E n \in Nat \ {0} : projected' = projected \cup {n})
             /\ acked' = acked
  <2>1. acked + 1 \in Nat \ {0}
    BY DEF IInv, TypeOK
  <2> QED BY <1>1, <1>2, <2>1 DEF Peek
<1>3. ASSUME NEW p \in Projectors, BlockReturns(p)
      PROVE  /\ projected' = projected \/ (\E n \in Nat \ {0} : projected' = projected \cup {n})
             /\ acked' = acked
  <2>1. passes[p].next \in Nat \ {0}
    BY <1>3 DEF BlockReturns, IInv, TypeOK, Pass, Idle
  <2> QED BY <1>3, <2>1 DEF BlockReturns
<1>4. ASSUME NEW p \in Projectors, Published(p)
      PROVE  /\ projected' = projected \/ (\E n \in Nat \ {0} : projected' = projected \cup {n})
             /\ acked' = acked \/ (acked' \in projected /\ acked' > acked)
  <2>1. CASE Raises(p) /\ acked' = acked
    BY <2>1 DEF Raises
  <2>2. CASE /\ acked' = passes[p].next
             /\ acked' > acked
             /\ Project(p, passes[p].next + 1, passes[p].last)
    <3>1. passes[p].next + 1 \in Nat \ {0} /\ passes[p].next \in projected
      BY <1>4, PublishedAcks
    <3> QED BY <1>1, <2>2, <3>1
  <2> QED BY <1>4, <2>1, <2>2, PublishedAcks
<1>5. ASSUME NEW p \in Projectors, Fails(p)
      PROVE  projected' = projected /\ acked' = acked
  BY <1>5 DEF Fails, Raises
<1>6. CASE Amend \/ RequestChanges \/ End \/ (\E c \in Pending : Resolve(c))
           \/ UNCHANGED vars
  BY <1>6 DEF Amend, RequestChanges, End, Resolve, vars
<1> QED BY <1>2, <1>3, <1>4, <1>5, <1>6 DEF Next, Resume

LEMMA StepMaps ==
  ASSUME AdapterNumbers, IInv, IInv', [Next]_vars
  PROVE  [Delivery!Next]_<<Delivered, acked>>
<1> DEFINE D == Delivered
<1>1. D \in Nat /\ projected = 1 .. D
  BY DeliveredIs
<1>2. D' \in Nat /\ projected' = 1 .. D'
  BY DEF IInv, TypeOK, ProjectedIsPrefix, Delivered
<1>3. acked \in Nat
  BY DEF IInv, TypeOK
<1> HIDE DEF D
<1>4. D' = D \/ D' = D + 1
  <2>1. CASE projected' = projected
    <3>1. D = 0 \/ D \in 1 .. D'
      BY <1>1, <1>2, <2>1
    <3>2. D' = 0 \/ D' \in 1 .. D
      BY <1>1, <1>2, <2>1
    <3>3. D <= D' /\ D' <= D
      BY <1>1, <1>2, <3>1, <3>2
    <3> QED BY <1>1, <1>2, <3>3
  <2>2. ASSUME NEW n \in Nat \ {0}, projected' = projected \cup {n}
        PROVE  D' = D \/ D' = D + 1
    <3>1. \A m : m \in 1 .. D' <=> m \in 1 .. D \/ m = n
      BY <1>1, <1>2, <2>2
    <3>2. D <= D' /\ n <= D'
      <4>1. D = 0 \/ D \in 1 .. D'
        BY <1>1, <3>1
      <4> QED BY <1>1, <1>2, <3>1, <4>1
    <3>3. D' <= D \/ D' = n
      BY <1>1, <1>2, <3>1, <3>2
    <3>4. D + 1 > D' \/ D + 1 = n
      <4>1. D + 1 \notin 1 .. D
        BY <1>1
      <4>2. D + 1 > D' \/ D + 1 \in 1 .. D'
        BY <1>1, <1>2
      <4> QED BY <3>1, <4>1, <4>2
    <3> QED BY <1>1, <1>2, <3>2, <3>3, <3>4
  <2> QED BY <2>1, <2>2, StepEffect
<1>5. acked' = acked \/ acked' \in acked + 1 .. D
  BY <1>1, <1>3, StepEffect
<1> QED BY <1>4, <1>5 DEF D, Delivery!Next, Delivery!Deliver, Delivery!Confirm

\* project_harness_events delivers the events of a run reliably: in order, none
\* passed over, none confirmed before it took effect.
THEOREM ProjectionIsReliable ==
  ASSUME AdapterNumbers PROVE Spec => DeliversReliably
<1>1. Init => Delivery!Init
  <2>1. Init => IInv
    BY InitHolds
  <2>2. ASSUME Init PROVE Delivered = 0 /\ acked = 0
    <3>1. projected = {} /\ acked = 0 /\ Delivered \in Nat /\ projected = 1 .. Delivered
      BY <2>1, <2>2, DeliveredIs DEF Init
    <3>2. Delivered = 0 \/ 1 \in 1 .. Delivered
      BY <3>1
    <3> QED BY <3>1, <3>2
  <2> QED BY <2>2 DEF Delivery!Init
<1>2. IInv /\ IInv' /\ [Next]_vars => [Delivery!Next]_<<Delivered, acked>>
  BY StepMaps, AdapterNumbers
<1> QED
  BY <1>1, <1>2, InvariantHolds, AdapterNumbers, PTL DEF Spec, DeliversReliably, Delivery!Spec
=============================================================================
