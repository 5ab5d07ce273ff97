-------------------------- MODULE AuditStream_proofs --------------------------
(***************************************************************************)
(* What AuditStream guarantees for any tasks, readers and bounds: the log  *)
(* and its snapshot are chained, what was published is in the snapshot,    *)
(* readers get consecutive numbers, and a reader whose events verify has   *)
(* a prefix of the log or an event that the log has not.                   *)
(*                                                                         *)
(* The inductive invariant IInv says in closed form what the chain is: the *)
(* hash of an event is the trail of all events up to it.  So two chains    *)
(* with a common event agree on everything before it, and no induction     *)
(* over the length of a chain is needed.                                   *)
(*                                                                         *)
(* The last part is about ledgers: in memory and in the snapshot, the n-th *)
(* entry of a scope is the n-th write event of that scope in the log, with *)
(* the writing task, because an operation extends both in one step and a   *)
(* flush copies both.                                                      *)
(***************************************************************************)
EXTENDS AuditStream, FiniteSetTheorems, SequenceTheorems, TLAPS

Trail(events, n) == [i \in 1 .. n |-> <<events[i].seq, events[i].body>>]

\* A chain in closed form.
Trailed(events) ==
  \A i \in 1 .. Len(events) :
    /\ events[i].hash = Trail(events, i)
    /\ events[i].prev_hash = Trail(events, i - 1)
Numbered(events) == \A i \in 1 .. Len(events) : events[i].seq = i

\* The snapshot is the log as it was at some earlier time.
LogInv ==
  /\ Numbered(log) /\ Trailed(log)
  /\ lastSeq = Len(log)
  /\ Len(disk.log) <= Len(log)
  /\ \A i \in 1 .. Len(disk.log) : disk.log[i] = log[i]

\* What is about to be flushed is in the log, what is about to be published
\* and what was published are in the snapshot.
InLog(event, events) == \E i \in 1 .. Len(events) : events[i] = event
StageInv ==
  /\ stage.at = "flush" => InLog(stage.event, log)
  /\ stage.at = "publish" => InLog(stage.event, disk.log)
  /\ \A i \in 1 .. Len(bus) : InLog(bus[i], disk.log)

\* Events are numbered on from what a reader has through what is on the wire
\* to what its handler is about to send.
ReaderInv(r) ==
  /\ Numbered(got[r])
  /\ \A i \in 1 .. Len(wire[r]) : wire[r][i].seq = Len(got[r]) + i
  /\ conn[r] # Closed =>
       /\ conn[r].cursor = Len(got[r]) + Len(wire[r])
       /\ \A i \in 1 .. Len(conn[r].batch) : conn[r].batch[i].seq = conn[r].cursor + i
  /\ VerifyHashChain(got[r]) => Trailed(got[r])

IInv == TypeOK /\ LogInv /\ StageInv /\ \A r \in Readers : ReaderInv(r)
-----------------------------------------------------------------------------
\* An event that continues a chain makes a longer chain.
LEMMA ChainGrows ==
  ASSUME NEW events \in Seq(Event), Trailed(events), NEW event \in Event,
         event.prev_hash = (IF events = << >> THEN << >> ELSE events[Len(events)].hash),
         event.hash = EventHash(event.seq, event.body, event.prev_hash)
  PROVE  Trailed(Append(events, event))
<1> DEFINE next == Append(events, event)
           trail == Trail(events, Len(events))
           last == <<event.seq, event.body>>
<1>1. /\ Len(events) \in Nat
      /\ next \in Seq(Event) /\ Len(next) = Len(events) + 1
      /\ \A i \in 1 .. Len(events) : next[i] = events[i]
      /\ next[Len(events) + 1] = event
  OBVIOUS
<1>2. event.prev_hash = trail
  <2>1. CASE events = << >>
    <3>1. Trail(events, 0) = << >>
      BY DEF Trail
    <3> QED BY <2>1, <3>1
  <2>2. CASE events # << >>
    <3>1. Len(events) \in 1 .. Len(events)
      BY <1>1, <2>2
    <3> QED BY <2>2, <3>1 DEF Trailed
  <2> QED BY <2>1, <2>2
<1>3. \A n \in 0 .. Len(events) : Trail(next, n) = Trail(events, n)
  BY <1>1 DEF Trail
<1>4. event.hash = Trail(next, Len(events) + 1)
  <2>1. event.hash = Append(trail, last)
    BY <1>2 DEF EventHash
  <2>2. trail \in Seq((Nat \ {0}) \X Body) /\ last \in (Nat \ {0}) \X Body
    BY <1>2 DEF Event, Hash
  <2>3. Len(trail) = Len(events)
    BY <1>1, <2>2 DEF Trail
  <2> DEFINE u == Append(trail, last)
  <2>4. \A i \in 1 .. Len(events) : trail[i] = <<events[i].seq, events[i].body>>
    BY DEF Trail
  <2> HIDE DEF trail, last
  <2>5. /\ u \in Seq((Nat \ {0}) \X Body) /\ Len(u) = Len(trail) + 1
        /\ \A i \in 1 .. Len(trail) : u[i] = trail[i]
        /\ u[Len(trail) + 1] = last
    BY <2>2, AppendProperties
  <2> HIDE DEF u
  <2>6. \A i \in 1 .. Len(events) + 1 : u[i] = <<next[i].seq, next[i].body>>
    BY <2>3, <2>4, <2>5, <1>1 DEF last
  <2>7. u = [i \in 1 .. Len(events) + 1 |-> u[i]]
    BY <2>3, <2>5
  <2>8. u = [i \in 1 .. Len(events) + 1 |-> <<next[i].seq, next[i].body>>]
    BY <2>6, <2>7
  <2> QED BY <2>1, <2>8 DEF u, Trail
<1> SUFFICES ASSUME NEW i \in 1 .. Len(next)
             PROVE  next[i].hash = Trail(next, i) /\ next[i].prev_hash = Trail(next, i - 1)
  BY DEF Trailed
<1>5. CASE i \in 1 .. Len(events)
  <2>1. i \in 0 .. Len(events) /\ i - 1 \in 0 .. Len(events)
    BY <1>5, <1>1
  <2>2. events[i].hash = Trail(events, i) /\ events[i].prev_hash = Trail(events, i - 1)
    BY <1>5 DEF Trailed
  <2> QED BY <1>1, <1>3, <1>5, <2>1, <2>2
<1>6. CASE i = Len(events) + 1
  <2>1. next[i].hash = Trail(next, i)
    BY <1>1, <1>4, <1>6
  <2>2. next[i].prev_hash = Trail(events, Len(events)) /\ Len(events) \in 0 .. Len(events)
    BY <1>1, <1>2, <1>6
  <2>3. i - 1 = Len(events)
    BY <1>1, <1>6
  <2> QED BY <1>3, <2>1, <2>2, <2>3
<1> QED BY <1>1, <1>5, <1>6

\* An event appended by AuditLog.append is an event, and the chain goes on.
LEMMA NewEventFacts ==
  ASSUME TypeOK, LogInv, NEW kind \in Kind, NEW write \in Write \cup {NoWrite},
         NEW event, event = NewEvent([n |-> issued + 1, kind |-> kind, write |-> write])
  PROVE  /\ event \in Event
         /\ event.body \in Body
         /\ event.seq = Len(log) + 1
         /\ Append(log, event) \in Seq(Event)
         /\ Numbered(Append(log, event))
         /\ Trailed(Append(log, event))
<1> DEFINE body == [n |-> issued + 1, kind |-> kind, write |-> write]
           prev == IF log = << >> THEN << >> ELSE log[Len(log)].hash
           hash == Append(prev, <<Len(log) + 1, body>>)
<1>1. body \in Body
  BY DEF TypeOK, Body
<1>2. log \in Seq(Event) /\ Len(log) \in Nat /\ lastSeq = Len(log)
  BY DEF TypeOK, LogInv
<1>3. prev \in Hash
  <2>1. log # << >> => log[Len(log)] \in Event
    BY <1>2
  <2>2. << >> \in Hash
    BY DEF Hash
  <2> QED BY <2>1, <2>2 DEF Event
<1>4. event = [seq |-> Len(log) + 1, body |-> body, prev_hash |-> prev, hash |-> hash]
  BY <1>2 DEF NewEvent, EventHash
<1>5. hash \in Hash /\ Len(log) + 1 \in Nat \ {0}
  BY <1>1, <1>2, <1>3 DEF Hash
<1> HIDE DEF body, prev, hash
<1>6. event \in Event
  BY <1>1, <1>3, <1>4, <1>5 DEF Event
<1>7. /\ event.prev_hash = (IF log = << >> THEN << >> ELSE log[Len(log)].hash)
      /\ event.hash = EventHash(event.seq, event.body, event.prev_hash)
  BY <1>4 DEF prev, hash, EventHash
<1>8. Trailed(Append(log, event))
  BY <1>2, <1>6, <1>7, ChainGrows DEF LogInv
<1>9. Append(log, event) \in Seq(Event) /\ Numbered(Append(log, event))
  BY <1>2, <1>4, <1>6 DEF LogInv, Numbered
<1> QED BY <1>1, <1>4, <1>6, <1>8, <1>9

\* audit_events_after, of a log whose numbers are its places: what follows
\* the cursor, from the next number on.
LEMMA EventsAfterFacts ==
  ASSUME TypeOK, LogInv, NEW cursor \in Nat
  PROVE  /\ EventsAfter(cursor) \in Seq(Event)
         /\ \A i \in 1 .. Len(EventsAfter(cursor)) : EventsAfter(cursor)[i].seq = cursor + i
<1> DEFINE later == {i \in 1 .. Len(log) : log[i].seq > cursor}
           nth(n) == CHOOSE i \in later : Cardinality({j \in later : j <= i}) = n
<1>1. log \in Seq(Event) /\ Len(log) \in Nat
  BY DEF TypeOK
<1>2. later = cursor + 1 .. Len(log)
  BY <1>1 DEF LogInv, Numbered
<1>3. Cardinality(later) \in Nat
      /\ Cardinality(later) = IF cursor + 1 > Len(log) THEN 0 ELSE Len(log) - cursor
  <2>1. cursor + 1 \in Int /\ Len(log) \in Int
    BY <1>1
  <2>2. Cardinality(cursor + 1 .. Len(log)) =
          IF cursor + 1 > Len(log) THEN 0 ELSE Len(log) - (cursor + 1) + 1
    BY <2>1, FS_Interval
  <2>3. Cardinality(cursor + 1 .. Len(log)) =
          IF cursor + 1 > Len(log) THEN 0 ELSE Len(log) - cursor
    BY <2>1, <2>2
  <2> HIDE DEF later
  <2> QED BY <1>1, <1>2, <2>3
<1>4. ASSUME NEW i \in later
      PROVE  Cardinality({j \in later : j <= i}) = i - cursor
  <2>1. {j \in later : j <= i} = cursor + 1 .. i
    BY <1>1, <1>2, <1>4
  <2>2. i \in Nat /\ cursor + 1 <= i
    BY <1>1, <1>2, <1>4
  <2>3. Cardinality(cursor + 1 .. i) = IF cursor + 1 > i THEN 0 ELSE i - (cursor + 1) + 1
    BY <2>2, FS_Interval
  <2>4. Cardinality(cursor + 1 .. i) = i - cursor
    BY <2>2, <2>3
  <2> QED BY <2>1, <2>4
<1>5. ASSUME NEW n \in 1 .. Cardinality(later)
      PROVE  nth(n) = cursor + n /\ nth(n) \in 1 .. Len(log)
  <2>1. cursor + n \in later /\ n \in Nat
    BY <1>1, <1>2, <1>3, <1>5
  <2>2. Cardinality({j \in later : j <= cursor + n}) = n
    BY <2>1, <1>4
  <2>3. nth(n) \in later /\ Cardinality({j \in later : j <= nth(n)}) = n
    BY <2>1, <2>2
  <2>4. n = nth(n) - cursor
    BY <2>3, <1>4
  <2> HIDE DEF nth
  <2> QED BY <2>3, <2>4, <2>1, <1>1, <1>2
<1>6. EventsAfter(cursor) = [n \in 1 .. Cardinality(later) |-> log[nth(n)]]
  BY DEF EventsAfter
<1> HIDE DEF later, nth
<1>7. \A n \in 1 .. Cardinality(later) : log[nth(n)] \in Event /\ log[nth(n)].seq = cursor + n
  BY <1>1, <1>5 DEF LogInv, Numbered
<1> QED BY <1>3, <1>6, <1>7
-----------------------------------------------------------------------------
LEMMA InitIInv == Init => IInv
<1> SUFFICES ASSUME Init PROVE IInv
  OBVIOUS
<1>1. \A S : << >> \in Seq(S) /\ Len(<< >>) = 0
  OBVIOUS
<1>2. TypeOK
  BY <1>1 DEF Init, TypeOK, Stage, Conn, Idle, Closed
<1>3. LogInv
  BY DEF Init, LogInv, Numbered, Trailed
<1>4. StageInv
  BY DEF Init, StageInv, Idle
<1>5. \A r \in Readers : ReaderInv(r)
  BY DEF Init, ReaderInv, Numbered, Trailed
<1> QED BY <1>2, <1>3, <1>4, <1>5 DEF IInv

\* What a connected handler's state is made of, and a loop that is not at rest.
LEMMA ConnType ==
  ASSUME TypeOK, NEW r \in Readers, conn[r] # Closed
  PROVE  conn[r] \in [at : {"poll", "send"}, cursor : Nat, batch : Seq(Event)]
BY DEF TypeOK, Conn

LEMMA StageType ==
  ASSUME TypeOK, stage.at \in {"flush", "publish"}
  PROVE  stage \in [at : {"flush", "publish"}, event : Event]
BY DEF TypeOK, Stage, Idle

\* The steps of readers leave the log alone, those of the loop the readers.
LEMMA LogUnchanged ==
  ASSUME LogInv, UNCHANGED <<log, lastSeq, disk>>
  PROVE  LogInv'
BY DEF LogInv, Numbered, Trailed, Trail

LEMMA StageUnchanged ==
  ASSUME StageInv, UNCHANGED <<log, disk, stage, bus>>
  PROVE  StageInv'
BY DEF StageInv, InLog

LEMMA OtherReader ==
  ASSUME NEW r \in Readers, ReaderInv(r),
         got'[r] = got[r], wire'[r] = wire[r], conn'[r] = conn[r]
  PROVE  ReaderInv(r)'
BY DEF ReaderInv

LEMMA ReadersUnchanged ==
  ASSUME \A r \in Readers : ReaderInv(r), UNCHANGED readVars
  PROVE  \A r \in Readers : ReaderInv(r)'
<1>1. ASSUME NEW r \in Readers PROVE ReaderInv(r)'
  BY <1>1, OtherReader DEF readVars
<1> QED BY <1>1
-----------------------------------------------------------------------------
LEMMA HandleOpStep ==
  ASSUME IInv, NEW kind \in Kind, NEW write \in Write \cup {NoWrite}, HandleOp(kind, write)
  PROVE  IInv'
<1> DEFINE event == NewEvent([n |-> issued + 1, kind |-> kind, write |-> write])
           next == Append(log, event)
<1>1. /\ event \in Event /\ event.body \in Body /\ event.seq = Len(log) + 1
      /\ next \in Seq(Event) /\ Numbered(next) /\ Trailed(next)
  BY NewEventFacts DEF IInv
<1>2. TypeOK /\ LogInv /\ StageInv /\ stage = Idle
  BY DEF IInv, HandleOp
<1>3. /\ log' = next /\ lastSeq' = event.seq
      /\ ledger' = IF write = NoWrite THEN ledger ELSE [ledger EXCEPT ![write[1]] = Append(@, event.body)]
      /\ stage' = IF kind \in {"keyed", "sdk"} THEN [at |-> "flush", event |-> event] ELSE Idle
      /\ issued' = issued + 1
      /\ UNCHANGED <<disk, bus, restarts, readVars>>
  BY DEF HandleOp
<1> HIDE DEF event
<1>4. /\ Len(log) \in Nat /\ Len(next) = Len(log) + 1
      /\ \A i \in 1 .. Len(log) : next[i] = log[i]
      /\ next[Len(log) + 1] = event
  BY <1>1, <1>2 DEF TypeOK
<1>5. TypeOK'
  <2>1. ledger' \in [Scopes -> Seq(Body)]
    <3>1. ledger \in [Scopes -> Seq(Body)]
      BY <1>2 DEF TypeOK
    <3>2. CASE write = NoWrite
      BY <1>3, <3>1, <3>2
    <3>3. CASE write \in Write
      <4>1. write[1] \in Scopes /\ write # NoWrite
        BY <3>3 DEF Write, NoWrite
      <4>2. Append(ledger[write[1]], event.body) \in Seq(Body)
        BY <1>1, <3>1, <4>1
      <4> QED BY <1>3, <3>1, <4>1, <4>2
    <3> QED BY <3>2, <3>3
  <2>2. stage' \in Stage
    BY <1>1, <1>3 DEF Stage
  <2>3. lastSeq' \in Nat /\ issued' \in Nat
    BY <1>1, <1>2, <1>3, <1>4 DEF TypeOK
  <2> QED BY <1>1, <1>2, <1>3, <2>1, <2>2, <2>3 DEF TypeOK, readVars
<1>6. LogInv'
  <2>1. Len(disk.log) \in Nat
    BY <1>2 DEF TypeOK
  <2>2. /\ Len(disk.log) <= Len(next)
        /\ \A i \in 1 .. Len(disk.log) : disk.log[i] = next[i]
    BY <1>2, <1>4, <2>1 DEF LogInv
  <2> HIDE DEF next
  <2> QED BY <1>1, <1>3, <1>4, <2>2 DEF LogInv
<1>7. StageInv'
  <2>1. stage'.at = "flush" => InLog(stage'.event, log')
    <3>1. Len(log) + 1 \in 1 .. Len(next) /\ next[Len(log) + 1] = event
      BY <1>4
    <3>2. InLog(event, next)
      BY <3>1 DEF InLog
    <3> QED BY <1>3, <3>2 DEF Idle
  <2>2. stage'.at # "publish"
    BY <1>3 DEF Idle
  <2>3. \A i \in 1 .. Len(bus') : InLog(bus'[i], disk'.log)
    BY <1>2, <1>3 DEF StageInv
  <2> QED BY <2>1, <2>2, <2>3 DEF StageInv, InLog
<1>8. \A r \in Readers : ReaderInv(r)'
  BY <1>3, ReadersUnchanged DEF IInv
<1> QED BY <1>5, <1>6, <1>7, <1>8 DEF IInv

\* A flush, of an event or of an intent, makes the snapshot the log.
LEMMA SnapshotStep ==
  ASSUME IInv, disk' = Snapshot, stage' \in Stage,
         stage'.at \in {"rest", "publish"},
         stage'.at = "publish" => stage.at = "flush" /\ stage'.event = stage.event,
         UNCHANGED <<log, lastSeq, ledger, bus, issued, restarts, readVars>>
  PROVE  IInv'
<1>1. TypeOK /\ LogInv /\ StageInv
  BY DEF IInv
<1>2. disk'.log = log /\ disk' \in [log : Seq(Event), ledger : [Scopes -> Seq(Body)]]
  BY <1>1 DEF Snapshot, TypeOK
<1>3. TypeOK'
  BY <1>1, <1>2 DEF TypeOK, readVars
<1>4. LogInv'
  <2>1. Len(log) \in Nat
    BY <1>1 DEF TypeOK
  <2>2. log' = log /\ lastSeq' = lastSeq
    OBVIOUS
  <2>3. /\ Len(disk'.log) <= Len(log)
        /\ \A i \in 1 .. Len(disk'.log) : disk'.log[i] = log[i]
    BY <1>2, <2>1
  <2> QED BY <1>1, <2>2, <2>3 DEF LogInv
<1>5. StageInv'
  <2>1. ASSUME NEW e, InLog(e, disk.log) PROVE InLog(e, log)
    <3>1. PICK i \in 1 .. Len(disk.log) : disk.log[i] = e
      BY <2>1 DEF InLog
    <3>2. i \in 1 .. Len(log) /\ log[i] = e
      BY <1>1, <3>1 DEF LogInv, TypeOK
    <3> QED BY <3>2 DEF InLog
  <2>2. \A i \in 1 .. Len(bus) : InLog(bus[i], log)
    BY <1>1, <2>1 DEF StageInv
  <2>3. stage'.at = "publish" => InLog(stage'.event, log)
    BY <1>1 DEF StageInv
  <2> QED BY <1>2, <2>2, <2>3 DEF StageInv, InLog
<1>6. \A r \in Readers : ReaderInv(r)'
  BY ReadersUnchanged DEF IInv
<1> QED BY <1>3, <1>4, <1>5, <1>6 DEF IInv

LEMMA FlushStep == ASSUME IInv, Flush \/ FlushIntent PROVE IInv'
<1>1. CASE Flush
  <2>1. stage \in [at : {"flush", "publish"}, event : Event] /\ stage.at = "flush"
    BY <1>1, StageType DEF IInv, Flush
  <2>2. stage' = IF stage.event.body.kind = "sdk" THEN [stage EXCEPT !.at = "publish"] ELSE Idle
    BY <1>1 DEF Flush
  <2>3. stage' \in Stage /\ stage'.at \in {"rest", "publish"}
        /\ (stage'.at = "publish" => stage'.event = stage.event)
    BY <2>1, <2>2 DEF Stage, Idle
  <2> QED BY <1>1, <2>1, <2>3, SnapshotStep DEF Flush
<1>2. CASE FlushIntent
  <2>1. stage' = Idle /\ Idle \in Stage /\ Idle.at = "rest"
    BY <1>2 DEF FlushIntent, Stage, Idle
  <2> QED BY <1>2, <2>1, SnapshotStep DEF FlushIntent
<1> QED BY <1>1, <1>2

LEMMA PublishStep == ASSUME IInv, Publish PROVE IInv'
<1>1. TypeOK /\ LogInv /\ StageInv
  BY DEF IInv
<1>2. stage.event \in Event /\ InLog(stage.event, disk.log)
  BY <1>1, StageType DEF Publish, StageInv
<1>3. /\ bus \in Seq(Event) /\ bus' = Append(bus, stage.event) /\ stage' = Idle
      /\ UNCHANGED <<log, lastSeq, ledger, disk, issued, restarts, readVars>>
  BY <1>1 DEF TypeOK, Publish
<1>4. TypeOK'
  <2>1. bus' \in Seq(Event) /\ stage' \in Stage
    BY <1>2, <1>3 DEF Stage
  <2> QED BY <1>1, <1>3, <2>1 DEF TypeOK, readVars
<1>5. LogInv'
  BY <1>1, <1>3, LogUnchanged
<1>6. StageInv'
  <2>1. \A i \in 1 .. Len(bus') : InLog(bus'[i], disk.log)
    <3>1. Len(bus') = Len(bus) + 1 /\ bus'[Len(bus) + 1] = stage.event
          /\ \A i \in 1 .. Len(bus) : bus'[i] = bus[i]
      BY <1>2, <1>3
    <3>2. Len(bus) \in Nat
      BY <1>3
    <3>3. ASSUME NEW i \in 1 .. Len(bus') PROVE InLog(bus'[i], disk.log)
      <4>1. CASE i \in 1 .. Len(bus)
        BY <3>1, <4>1, <1>1 DEF StageInv
      <4>2. CASE i = Len(bus) + 1
        BY <3>1, <4>2, <1>2
      <4> QED BY <3>1, <3>2, <3>3, <4>1, <4>2
    <3> QED BY <3>3
  <2> QED BY <1>3, <2>1 DEF StageInv, Idle, InLog
<1>7. \A r \in Readers : ReaderInv(r)'
  BY <1>3, ReadersUnchanged DEF IInv
<1> QED BY <1>4, <1>5, <1>6, <1>7 DEF IInv

LEMMA RestartStep == ASSUME IInv, Restart PROVE IInv'
<1>1. TypeOK /\ LogInv /\ StageInv
  BY DEF IInv
<1>2. /\ log' = disk.log /\ lastSeq' = LoadedSeq(disk.log) /\ ledger' = disk.ledger
      /\ stage' = Idle /\ restarts' = restarts + 1
      /\ conn' = [r \in Readers |-> Closed]
      /\ UNCHANGED <<disk, bus, issued, wire, got, breaks>>
  BY DEF Restart
<1>3. Len(disk.log) \in Nat /\ disk.log \in Seq(Event)
      /\ (\A i \in 1 .. Len(disk.log) : i \in 1 .. Len(log))
  BY <1>1 DEF TypeOK, LogInv
<1>4. Numbered(disk.log)
  BY <1>1, <1>3 DEF LogInv, Numbered
<1>5. Trailed(disk.log)
  <2> SUFFICES ASSUME NEW i \in 1 .. Len(disk.log)
               PROVE  disk.log[i].hash = Trail(disk.log, i)
                      /\ disk.log[i].prev_hash = Trail(disk.log, i - 1)
    BY DEF Trailed
  <2>1. \A j \in 1 .. i : disk.log[j] = log[j]
    BY <1>1, <1>3 DEF LogInv
  <2>2. Trail(disk.log, i) = Trail(log, i) /\ Trail(disk.log, i - 1) = Trail(log, i - 1)
    BY <2>1, <1>3 DEF Trail
  <2> QED BY <1>1, <1>3, <2>1, <2>2 DEF LogInv, Trailed
<1>6. lastSeq' = Len(disk.log)
  <2>1. CASE disk.log = << >>
    BY <1>2, <2>1 DEF LoadedSeq
  <2>2. CASE disk.log # << >>
    <3>1. Len(disk.log) \in 1 .. Len(disk.log)
      BY <1>3, <2>2
    <3> QED BY <1>2, <1>4, <2>2, <3>1 DEF LoadedSeq, Numbered
  <2> QED BY <2>1, <2>2
<1>7. TypeOK'
  BY <1>1, <1>2, <1>3, <1>6 DEF TypeOK, Stage, Conn
<1>8. LogInv'
  BY <1>2, <1>3, <1>4, <1>5, <1>6 DEF LogInv
<1>9. StageInv'
  BY <1>1, <1>2 DEF StageInv, Idle, InLog
<1>10. ASSUME NEW r \in Readers PROVE ReaderInv(r)'
  BY <1>2 DEF IInv, ReaderInv
<1> QED BY <1>7, <1>8, <1>9, <1>10 DEF IInv
-----------------------------------------------------------------------------
\* What the steps of readers have in common: the log is not touched.
LEMMA ReaderStep ==
  ASSUME IInv, NEW r \in Readers, UNCHANGED loopVars,
         breaks' \in Nat,
         conn' = [conn EXCEPT ![r] = conn'[r]],
         wire' = [wire EXCEPT ![r] = wire'[r]],
         got' = [got EXCEPT ![r] = got'[r]],
         conn'[r] \in Conn, wire'[r] \in Seq(Event), got'[r] \in Seq(Event),
         ReaderInv(r)'
  PROVE  IInv'
<1>1. TypeOK'
  BY DEF IInv, TypeOK, loopVars
<1>2. LogInv' /\ StageInv'
  BY LogUnchanged, StageUnchanged DEF IInv, loopVars
<1>3. ASSUME NEW q \in Readers PROVE ReaderInv(q)'
  <2>1. CASE q = r
    BY <2>1
  <2>2. CASE q # r
    <3>1. got'[q] = got[q] /\ wire'[q] = wire[q] /\ conn'[q] = conn[q]
      BY <2>2 DEF IInv, TypeOK
    <3> QED BY <3>1, OtherReader DEF IInv
  <2> QED BY <2>1, <2>2
<1> QED BY <1>1, <1>2, <1>3 DEF IInv

LEMMA ConnectStep == ASSUME IInv, NEW r \in Readers, Connect(r) PROVE IInv'
<1> DEFINE new == [at |-> "poll", cursor |-> LastReceived(r), batch |-> << >>]
<1>1. /\ wire[r] = << >> /\ conn' = [conn EXCEPT ![r] = new]
      /\ UNCHANGED <<loopVars, wire, got, breaks>>
  BY DEF Connect
<1>2. got[r] \in Seq(Event) /\ Numbered(got[r]) /\ wire[r] \in Seq(Event) /\ breaks \in Nat
  BY DEF IInv, TypeOK, ReaderInv
<1>3. LastReceived(r) = Len(got[r]) /\ Len(got[r]) \in Nat
  <2>1. CASE got[r] = << >>
    BY <2>1 DEF LastReceived
  <2>2. CASE got[r] # << >>
    <3>1. Len(got[r]) \in 1 .. Len(got[r])
      BY <1>2, <2>2
    <3> QED BY <1>2, <2>2, <3>1 DEF LastReceived, Last, Numbered
  <2> QED BY <2>1, <2>2
<1>4. conn'[r] = new /\ new \in Conn
  <2>1. << >> \in Seq(Event)
    OBVIOUS
  <2> QED BY <1>1, <1>3, <2>1 DEF IInv, TypeOK, Conn
<1>5. ReaderInv(r)'
  <2>1. /\ new.cursor = Len(got[r]) + Len(wire[r])
        /\ \A i \in 1 .. Len(new.batch) : new.batch[i].seq = new.cursor + i
    BY <1>1, <1>3
  <2> HIDE DEF new
  <2> QED BY <1>1, <1>4, <2>1 DEF IInv, ReaderInv
<1>6. wire' = [wire EXCEPT ![r] = wire'[r]] /\ got' = [got EXCEPT ![r] = got'[r]]
  BY <1>1 DEF IInv, TypeOK
<1> HIDE DEF new
<1> QED BY <1>1, <1>2, <1>4, <1>5, <1>6, ReaderStep

LEMMA PollStep == ASSUME IInv, NEW r \in Readers, Poll(r) PROVE IInv'
<1> DEFINE batch == EventsAfter(conn[r].cursor)
<1>1. /\ conn[r].at = "poll"
      /\ conn' = [conn EXCEPT ![r].at = "send", ![r].batch = batch]
      /\ UNCHANGED <<loopVars, wire, got, breaks>>
  BY DEF Poll
<1>2. conn[r] # Closed
      /\ conn[r] \in [at : {"poll", "send"}, cursor : Nat, batch : Seq(Event)]
  BY <1>1, ConnType DEF IInv, Closed
<1>3. batch \in Seq(Event) /\ \A i \in 1 .. Len(batch) : batch[i].seq = conn[r].cursor + i
  BY <1>2, EventsAfterFacts DEF IInv
<1> HIDE DEF batch
<1>4. conn'[r] = [at |-> "send", cursor |-> conn[r].cursor, batch |-> batch]
  BY <1>1, <1>2 DEF IInv, TypeOK
<1>5. conn'[r] \in Conn
  BY <1>2, <1>3, <1>4 DEF Conn
<1>6. ReaderInv(r)'
  <2>1. conn'[r].cursor = conn[r].cursor /\ conn'[r].batch = batch
    BY <1>4
  <2> QED BY <1>1, <1>2, <1>3, <2>1 DEF IInv, ReaderInv
<1>7. /\ conn' = [conn EXCEPT ![r] = conn'[r]]
      /\ wire' = [wire EXCEPT ![r] = wire'[r]] /\ got' = [got EXCEPT ![r] = got'[r]]
      /\ wire'[r] \in Seq(Event) /\ got'[r] \in Seq(Event) /\ breaks' \in Nat
  BY <1>1 DEF IInv, TypeOK
<1> QED BY <1>1, <1>5, <1>6, <1>7, ReaderStep

LEMMA SendStep == ASSUME IInv, NEW r \in Readers, Send(r) PROVE IInv'
<1> DEFINE event == Head(conn[r].batch)
<1>1. /\ conn[r].at = "send" /\ conn[r].batch # << >>
      /\ conn' = [conn EXCEPT ![r].cursor = event.seq, ![r].batch = Tail(@)]
      /\ wire' = [wire EXCEPT ![r] = Append(@, event)]
      /\ UNCHANGED <<loopVars, got, breaks>>
  BY DEF Send
<1>2. conn[r] # Closed
      /\ conn[r] \in [at : {"poll", "send"}, cursor : Nat, batch : Seq(Event)]
  BY <1>1, ConnType DEF IInv, Closed
<1>3. /\ got[r] \in Seq(Event) /\ wire[r] \in Seq(Event) /\ breaks \in Nat
      /\ Len(got[r]) \in Nat /\ Len(wire[r]) \in Nat
  BY DEF IInv, TypeOK
<1>4. /\ \A i \in 1 .. Len(wire[r]) : wire[r][i].seq = Len(got[r]) + i
      /\ conn[r].cursor = Len(got[r]) + Len(wire[r])
      /\ \A i \in 1 .. Len(conn[r].batch) : conn[r].batch[i].seq = conn[r].cursor + i
  BY <1>2 DEF IInv, ReaderInv
<1>5. event \in Event /\ event.seq = conn[r].cursor + 1
      /\ Tail(conn[r].batch) \in Seq(Event)
      /\ Len(Tail(conn[r].batch)) = Len(conn[r].batch) - 1
      /\ \A i \in 1 .. Len(conn[r].batch) - 1 : Tail(conn[r].batch)[i] = conn[r].batch[i + 1]
  <2>1. 1 \in 1 .. Len(conn[r].batch) /\ conn[r].batch \in Seq(Event)
        /\ event = conn[r].batch[1]
    BY <1>1, <1>2
  <2>2. event.seq = conn[r].cursor + 1 /\ event \in Event
    <3> HIDE DEF event
    <3>1. conn[r].batch[1].seq = conn[r].cursor + 1
      BY <1>4, <2>1
    <3> QED BY <2>1, <3>1
  <2> DEFINE b == conn[r].batch
  <2>3. b \in Seq(Event) /\ b # << >>
    BY <1>1, <1>2
  <2> HIDE DEF b, event
  <2>4. /\ Tail(b) \in Seq(Event) /\ Len(Tail(b)) = Len(b) - 1
        /\ \A i \in 1 .. Len(b) - 1 : Tail(b)[i] = b[i + 1]
    BY <2>3
  <2> QED BY <2>2, <2>4 DEF b
<1> HIDE DEF event
<1>6. conn'[r] = [at |-> "send", cursor |-> event.seq, batch |-> Tail(conn[r].batch)]
  BY <1>1, <1>2 DEF IInv, TypeOK
<1>7. wire'[r] = Append(wire[r], event)
  BY <1>1 DEF IInv, TypeOK
<1>8. conn'[r] \in Conn
  BY <1>2, <1>5, <1>6 DEF Conn, Event
<1>9. wire'[r] \in Seq(Event) /\ got'[r] \in Seq(Event)
  BY <1>1, <1>3, <1>5, <1>7
<1>10. ReaderInv(r)'
  <2>1. /\ Len(wire'[r]) = Len(wire[r]) + 1 /\ wire'[r][Len(wire[r]) + 1] = event
        /\ \A i \in 1 .. Len(wire[r]) : wire'[r][i] = wire[r][i]
    BY <1>3, <1>5, <1>7
  <2>2. \A i \in 1 .. Len(wire'[r]) : wire'[r][i].seq = Len(got[r]) + i
    <3>1. event.seq = Len(got[r]) + Len(wire[r]) + 1
      BY <1>4, <1>5
    <3>2. ASSUME NEW i \in 1 .. Len(wire'[r]) PROVE wire'[r][i].seq = Len(got[r]) + i
      <4>1. CASE i \in 1 .. Len(wire[r])
        BY <1>4, <2>1, <4>1
      <4>2. CASE i = Len(wire[r]) + 1
        <5> DEFINE g == Len(got[r])
                   w == Len(wire[r])
        <5>1. g \in Nat /\ w \in Nat /\ event.seq = g + w + 1 /\ i = w + 1
          BY <1>3, <3>1, <4>2
        <5> HIDE DEF g, w
        <5>2. event.seq = g + i
          BY <5>1
        <5> QED BY <2>1, <4>2, <5>2 DEF g
      <4> QED BY <1>3, <2>1, <3>2, <4>1, <4>2
    <3> QED BY <3>2
  <2>3. event.seq = Len(got[r]) + Len(wire'[r])
    <3>1. event.seq = Len(got[r]) + Len(wire[r]) + 1
      BY <1>4, <1>5
    <3>2. Len(wire'[r]) = Len(wire[r]) + 1
      BY <2>1
    <3> DEFINE g == Len(got[r])
               w == Len(wire[r])
               v == Len(wire'[r])
    <3>3. g \in Nat /\ w \in Nat /\ event.seq = g + w + 1 /\ v = w + 1
      BY <1>3, <3>1, <3>2
    <3> HIDE DEF g, w, v
    <3>4. event.seq = g + v
      BY <3>3
    <3> QED BY <3>4 DEF g, v
  <2>4. Len(conn[r].batch) \in Nat /\ conn[r].cursor \in Nat
    BY <1>2
  <2>5. \A i \in 1 .. Len(Tail(conn[r].batch)) : Tail(conn[r].batch)[i].seq = event.seq + i
    <3>1. ASSUME NEW i \in 1 .. Len(Tail(conn[r].batch))
          PROVE  Tail(conn[r].batch)[i].seq = event.seq + i
      <4>1. i + 1 \in 1 .. Len(conn[r].batch) /\ i \in 1 .. Len(conn[r].batch) - 1
        BY <1>5, <2>4, <3>1
      <4>2. Tail(conn[r].batch)[i].seq = conn[r].cursor + (i + 1)
        BY <1>4, <1>5, <4>1
      <4> QED BY <1>5, <2>4, <4>2
    <3> QED BY <3>1
  <2>6. conn'[r].cursor = event.seq /\ conn'[r].batch = Tail(conn[r].batch)
    BY <1>6
  <2>7. Numbered(got[r]) /\ (VerifyHashChain(got[r]) => Trailed(got[r]))
    BY DEF IInv, ReaderInv
  <2> QED BY <1>1, <2>2, <2>3, <2>5, <2>6, <2>7 DEF ReaderInv
<1>11. /\ conn' = [conn EXCEPT ![r] = conn'[r]]
       /\ wire' = [wire EXCEPT ![r] = wire'[r]] /\ got' = [got EXCEPT ![r] = got'[r]]
       /\ breaks' \in Nat
  BY <1>1 DEF IInv, TypeOK
<1> QED BY <1>1, <1>8, <1>9, <1>10, <1>11, ReaderStep

LEMMA CloseStep ==
  ASSUME IInv, NEW r \in Readers, Sleep(r) \/ Break(r)
  PROVE  IInv'
<1>1. /\ got[r] \in Seq(Event) /\ wire[r] \in Seq(Event) /\ breaks \in Nat
      /\ ReaderInv(r)
      /\ << >> \in Seq(Event)
  BY DEF IInv, TypeOK
<1>2. CASE Sleep(r)
  <2>1. /\ conn[r].at = "send"
        /\ \/ conn' = [conn EXCEPT ![r].at = "poll"]
           \/ conn' = [conn EXCEPT ![r] = Closed]
        /\ UNCHANGED <<loopVars, wire, got, breaks>>
    BY <1>2 DEF Sleep
  <2>2. conn[r] # Closed
        /\ conn[r] \in [at : {"poll", "send"}, cursor : Nat, batch : Seq(Event)]
    BY <2>1, ConnType DEF IInv, Closed
  <2>3. \/ conn'[r] = [at |-> "poll", cursor |-> conn[r].cursor, batch |-> conn[r].batch]
        \/ conn'[r] = Closed
    BY <2>1, <2>2 DEF IInv, TypeOK
  <2>4. conn'[r] \in Conn
    BY <2>2, <2>3 DEF Conn
  <2>5. ReaderInv(r)'
    <3>1. conn'[r] # Closed =>
            conn'[r].cursor = conn[r].cursor /\ conn'[r].batch = conn[r].batch
      BY <2>3
    <3> QED BY <1>1, <2>1, <2>2, <3>1 DEF ReaderInv
  <2>6. /\ conn' = [conn EXCEPT ![r] = conn'[r]]
        /\ wire' = [wire EXCEPT ![r] = wire'[r]] /\ got' = [got EXCEPT ![r] = got'[r]]
    BY <2>1 DEF IInv, TypeOK
  <2> QED BY <1>1, <2>1, <2>4, <2>5, <2>6, ReaderStep
<1>3. CASE Break(r)
  <2>1. /\ conn' = [conn EXCEPT ![r] = Closed] /\ wire' = [wire EXCEPT ![r] = << >>]
        /\ breaks' = breaks + 1
        /\ UNCHANGED <<loopVars, got>>
    BY <1>3 DEF Break
  <2>2. conn'[r] = Closed /\ wire'[r] = << >> /\ Closed \in Conn
    BY <2>1 DEF IInv, TypeOK, Conn
  <2>3. ReaderInv(r)'
    <3>1. \A i \in 1 .. Len(wire'[r]) : wire'[r][i].seq = Len(got[r]) + i
      BY <2>2
    <3>2. Numbered(got[r]) /\ (VerifyHashChain(got[r]) => Trailed(got[r]))
      BY <1>1 DEF ReaderInv
    <3> QED BY <2>1, <2>2, <3>1, <3>2 DEF ReaderInv
  <2>4. /\ conn' = [conn EXCEPT ![r] = conn'[r]]
        /\ wire' = [wire EXCEPT ![r] = wire'[r]] /\ got' = [got EXCEPT ![r] = got'[r]]
    BY <2>1 DEF IInv, TypeOK
  <2>5. breaks' \in Nat /\ wire'[r] \in Seq(Event) /\ got'[r] \in Seq(Event)
    BY <1>1, <2>1, <2>2
  <2> QED BY <2>1, <2>2, <2>3, <2>4, <2>5, ReaderStep
<1> QED BY <1>2, <1>3

\* A chain that verifies with one event more verified before, and the event
\* continues it.
LEMMA VerifiedPrefix ==
  ASSUME NEW events \in Seq(Event), NEW event \in Event,
         VerifyHashChain(Append(events, event))
  PROVE  /\ VerifyHashChain(events)
         /\ event.prev_hash = (IF events = << >> THEN << >> ELSE events[Len(events)].hash)
         /\ event.hash = EventHash(event.seq, event.body, event.prev_hash)
<1> DEFINE next == Append(events, event)
<1>1. /\ Len(events) \in Nat /\ Len(next) = Len(events) + 1
      /\ \A i \in 1 .. Len(events) : next[i] = events[i]
      /\ next[Len(events) + 1] = event
  OBVIOUS
<1>2. \A i \in 1 .. Len(next) :
        /\ next[i].prev_hash = IF i = 1 THEN << >> ELSE next[i-1].hash
        /\ next[i].hash = EventHash(next[i].seq, next[i].body, next[i].prev_hash)
  BY DEF VerifyHashChain
<1> HIDE DEF next
<1>3. VerifyHashChain(events)
  <2> SUFFICES ASSUME NEW i \in 1 .. Len(events)
               PROVE  /\ events[i].prev_hash = IF i = 1 THEN << >> ELSE events[i-1].hash
                      /\ events[i].hash = EventHash(events[i].seq, events[i].body, events[i].prev_hash)
    BY DEF VerifyHashChain
  <2>1. i \in 1 .. Len(next) /\ next[i] = events[i] /\ (i # 1 => next[i-1] = events[i-1])
    BY <1>1
  <2> QED BY <1>2, <2>1
<1>4. Len(events) + 1 \in 1 .. Len(next) /\ (events # << >> => Len(events) >= 1)
      /\ (events = << >> => Len(events) = 0)
  BY <1>1
<1>5. events # << >> => next[Len(events) + 1 - 1] = events[Len(events)]
  BY <1>1, <1>4
<1>6. event.prev_hash = (IF events = << >> THEN << >> ELSE events[Len(events)].hash)
  BY <1>1, <1>2, <1>4, <1>5
<1> QED BY <1>1, <1>2, <1>3, <1>4, <1>6

LEMMA ReceiveStep == ASSUME IInv, NEW r \in Readers, Receive(r) PROVE IInv'
<1> DEFINE event == Head(wire[r])
<1>1. /\ wire[r] # << >>
      /\ got' = [got EXCEPT ![r] = Append(@, event)]
      /\ wire' = [wire EXCEPT ![r] = Tail(@)]
      /\ UNCHANGED <<loopVars, conn, breaks>>
  BY DEF Receive
<1>2. /\ got[r] \in Seq(Event) /\ wire[r] \in Seq(Event) /\ breaks \in Nat
      /\ conn[r] \in Conn /\ ReaderInv(r)
  BY DEF IInv, TypeOK
<1> DEFINE w == wire[r]
           g == got[r]
<1>3. /\ 1 \in 1 .. Len(w) /\ event = w[1] /\ event \in Event
      /\ Tail(w) \in Seq(Event) /\ Len(Tail(w)) = Len(w) - 1
      /\ \A i \in 1 .. Len(w) - 1 : Tail(w)[i] = w[i + 1]
  <2> HIDE DEF w
  <2> QED BY <1>1, <1>2 DEF w
<1> HIDE DEF event
<1>4. got'[r] = Append(g, event) /\ wire'[r] = Tail(w) /\ conn'[r] = conn[r]
  BY <1>1 DEF IInv, TypeOK
<1>5. /\ Append(g, event) \in Seq(Event) /\ Len(Append(g, event)) = Len(g) + 1
      /\ \A i \in 1 .. Len(g) : Append(g, event)[i] = g[i]
      /\ Append(g, event)[Len(g) + 1] = event
  BY <1>2, <1>3
<1>6. Len(g) \in Nat /\ Len(w) \in Nat
  BY <1>2
<1>7. event.seq = Len(g) + 1
  BY <1>2, <1>3 DEF ReaderInv
<1>8. ReaderInv(r)'
  <2>1. Numbered(Append(g, event))
    BY <1>2, <1>5, <1>6, <1>7 DEF ReaderInv, Numbered
  <2>2. ASSUME NEW i \in 1 .. Len(Tail(w))
        PROVE  Tail(w)[i].seq = Len(Append(g, event)) + i
    <3>1. i + 1 \in 1 .. Len(w) /\ Tail(w)[i] = w[i + 1]
      BY <1>3, <1>6, <2>2
    <3>2. w[i + 1].seq = Len(g) + (i + 1)
      BY <1>2, <3>1 DEF ReaderInv
    <3> DEFINE n == Len(g)
    <3>3. n \in Nat /\ w[i + 1].seq = n + (i + 1) /\ Len(Append(g, event)) = n + 1
      BY <1>5, <1>6, <3>2
    <3> HIDE DEF n
    <3>4. n + (i + 1) = n + 1 + i
      BY <3>3
    <3> QED BY <3>1, <3>3, <3>4
  <2>3. conn[r] # Closed => conn[r].cursor = Len(Append(g, event)) + Len(Tail(w))
    <3> DEFINE n == Len(g)
               m == Len(w)
    <3>1. n \in Nat /\ m \in Nat /\ Len(Append(g, event)) = n + 1 /\ Len(Tail(w)) = m - 1
          /\ (conn[r] # Closed => conn[r].cursor = n + m)
      BY <1>2, <1>3, <1>5, <1>6 DEF ReaderInv
    <3> HIDE DEF n, m
    <3>2. n + m = n + 1 + (m - 1)
      BY <3>1
    <3> QED BY <3>1, <3>2
  <2>4. VerifyHashChain(Append(g, event)) => Trailed(Append(g, event))
    <3> SUFFICES ASSUME VerifyHashChain(Append(g, event)) PROVE Trailed(Append(g, event))
      OBVIOUS
    <3>1. /\ VerifyHashChain(g)
          /\ event.prev_hash = (IF g = << >> THEN << >> ELSE g[Len(g)].hash)
          /\ event.hash = EventHash(event.seq, event.body, event.prev_hash)
      BY <1>2, <1>3, VerifiedPrefix
    <3>2. Trailed(g)
      BY <1>2, <3>1 DEF ReaderInv
    <3> QED BY <1>2, <1>3, <3>1, <3>2, ChainGrows
  <2>5. conn[r] # Closed =>
          \A i \in 1 .. Len(conn[r].batch) : conn[r].batch[i].seq = conn[r].cursor + i
    BY <1>2 DEF ReaderInv
  <2> HIDE DEF g, w
  <2> QED BY <1>4, <2>1, <2>2, <2>3, <2>4, <2>5 DEF ReaderInv
<1>9. /\ conn' = [conn EXCEPT ![r] = conn'[r]]
      /\ wire' = [wire EXCEPT ![r] = wire'[r]] /\ got' = [got EXCEPT ![r] = got'[r]]
  BY <1>1 DEF IInv, TypeOK
<1> HIDE DEF g, w
<1> QED BY <1>1, <1>2, <1>3, <1>4, <1>5, <1>8, <1>9, ReaderStep
-----------------------------------------------------------------------------
LEMMA NextIInv == IInv /\ [Next]_vars => IInv'
<1> SUFFICES ASSUME IInv, [Next]_vars PROVE IInv'
  OBVIOUS
<1>1. CASE Operate
  BY <1>1, HandleOpStep DEF Operate
<1>2. CASE Flush \/ FlushIntent
  BY <1>2, FlushStep
<1>3. CASE Publish
  BY <1>3, PublishStep
<1>4. CASE Restart
  BY <1>4, RestartStep
<1>5. ASSUME NEW r \in Readers, Follow(r) PROVE IInv'
  BY <1>5, ConnectStep, PollStep, SendStep, CloseStep, ReceiveStep DEF Follow
<1>6. ASSUME NEW r \in Readers, Break(r) PROVE IInv'
  BY <1>6, CloseStep
<1>7. CASE UNCHANGED vars
  <2>1. TypeOK'
    BY <1>7 DEF IInv, TypeOK, vars, loopVars, readVars
  <2>2. LogInv' /\ StageInv'
    BY <1>7, LogUnchanged, StageUnchanged DEF IInv, vars, loopVars
  <2>3. \A r \in Readers : ReaderInv(r)'
    BY <1>7, ReadersUnchanged DEF IInv, vars
  <2> QED BY <2>1, <2>2, <2>3 DEF IInv
<1> QED BY <1>1, <1>2, <1>3, <1>4, <1>5, <1>6, <1>7 DEF Next, Loop

\* The invariant that the theorems are read off.
THEOREM StreamInductive == Spec => []IInv
BY InitIInv, NextIInv, PTL DEF Spec

\* All state stays in its types, for any tasks, readers and bounds.
THEOREM StreamTypes == Spec => []TypeOK
<1>1. IInv => TypeOK
  BY DEF IInv
<1> QED BY <1>1, StreamInductive, PTL

\* However operations, flushes and restarts interleave, the log and the
\* snapshot number their events from one and pass verify_hash_chain.
THEOREM LogChained == Spec => []LogIsChained
<1>1. ASSUME NEW events \in Seq(Event), Numbered(events), Trailed(events)
      PROVE  VerifyHashChain(events)
  <2> SUFFICES ASSUME NEW i \in 1 .. Len(events)
               PROVE  /\ events[i].prev_hash = IF i = 1 THEN << >> ELSE events[i-1].hash
                      /\ events[i].hash =
                           EventHash(events[i].seq, events[i].body, events[i].prev_hash)
    BY DEF VerifyHashChain
  <2>1. events[i].hash = Trail(events, i) /\ events[i].prev_hash = Trail(events, i - 1)
        /\ events[i].prev_hash \in Seq((Nat \ {0}) \X Body)
        /\ <<events[i].seq, events[i].body>> \in (Nat \ {0}) \X Body
    <3>1. events[i] \in Event
      BY <1>1
    <3>2. /\ events[i].prev_hash \in Hash
          /\ events[i].seq \in Nat \ {0} /\ events[i].body \in Body
      BY <3>1 DEF Event
    <3>3. events[i].hash = Trail(events, i) /\ events[i].prev_hash = Trail(events, i - 1)
      BY <1>1 DEF Trailed
    <3> QED BY <3>2, <3>3 DEF Hash
  <2>2. events[i].prev_hash = IF i = 1 THEN << >> ELSE events[i-1].hash
    <3>1. CASE i = 1
      <4>1. Trail(events, 0) = << >>
        BY DEF Trail
      <4> QED BY <2>1, <3>1, <4>1
    <3>2. CASE i # 1
      <4>1. i - 1 \in 1 .. Len(events)
        BY <1>1, <3>2
      <4> QED BY <1>1, <2>1, <3>2, <4>1 DEF Trailed
    <3> QED BY <3>1, <3>2
  <2>3. events[i].hash = EventHash(events[i].seq, events[i].body, events[i].prev_hash)
    <3> DEFINE t == Trail(events, i - 1)
               last == <<events[i].seq, events[i].body>>
               u == Append(t, last)
    <3>1. t \in Seq((Nat \ {0}) \X Body) /\ last \in (Nat \ {0}) \X Body
      BY <2>1
    <3>2. Len(t) = i - 1 /\ i \in Nat
      BY <3>1, <1>1 DEF Trail
    <3>3. \A j \in 1 .. i - 1 : t[j] = <<events[j].seq, events[j].body>>
      BY DEF Trail
    <3> HIDE DEF t, last
    <3>4. /\ u \in Seq((Nat \ {0}) \X Body) /\ Len(u) = Len(t) + 1
          /\ \A j \in 1 .. Len(t) : u[j] = t[j]
          /\ u[Len(t) + 1] = last
      BY <3>1, AppendProperties
    <3> HIDE DEF u
    <3>5. \A j \in 1 .. i : u[j] = <<events[j].seq, events[j].body>>
      BY <3>2, <3>3, <3>4 DEF last
    <3>6. u = [j \in 1 .. i |-> u[j]]
      BY <3>2, <3>4
    <3>7. u = Trail(events, i)
      BY <3>5, <3>6 DEF Trail
    <3> QED BY <2>1, <3>7 DEF u, t, last, EventHash
  <2> QED BY <2>2, <2>3
<1>2. IInv => LogIsChained
  <2> SUFFICES ASSUME IInv PROVE LogIsChained
    OBVIOUS
  <2>1. log \in Seq(Event) /\ disk.log \in Seq(Event)
    BY DEF IInv, TypeOK
  <2>2. Numbered(disk.log) /\ Trailed(disk.log)
    <3>1. \A i \in 1 .. Len(disk.log) : i \in 1 .. Len(log) /\ disk.log[i] = log[i]
      BY <2>1 DEF IInv, LogInv
    <3>2. ASSUME NEW i \in 1 .. Len(disk.log)
          PROVE  Trail(disk.log, i) = Trail(log, i) /\ Trail(disk.log, i - 1) = Trail(log, i - 1)
      <4>1. \A j \in 1 .. i : disk.log[j] = log[j]
        BY <2>1, <3>1, <3>2
      <4> QED BY <4>1 DEF Trail
    <3> QED BY <3>1, <3>2 DEF IInv, LogInv, Numbered, Trailed
  <2>3. VerifyHashChain(log) /\ VerifyHashChain(disk.log)
    BY <1>1, <2>1, <2>2 DEF IInv, LogInv
  <2> QED BY <2>2, <2>3 DEF LogIsChained, IInv, LogInv, Numbered
<1> QED BY <1>2, StreamInductive, PTL

\* What the SDK published is in the snapshot, so no restart takes it back.
THEOREM PublishedDurable == Spec => []PublishedIsDurable
<1>1. IInv => PublishedIsDurable
  <2> SUFFICES ASSUME IInv, NEW n \in DOMAIN bus
               PROVE  bus[n] \in Range(disk.log)
    BY DEF PublishedIsDurable, Range
  <2>1. n \in 1 .. Len(bus) /\ disk.log \in Seq(Event)
    BY DEF IInv, TypeOK
  <2>2. PICK i \in 1 .. Len(disk.log) : disk.log[i] = bus[n]
    BY <2>1 DEF IInv, StageInv, InLog
  <2> QED BY <2>1, <2>2 DEF Range
<1> QED BY <1>1, StreamInductive, PTL

\* A reader gets the numbers one after the other, over any number of polls,
\* broken connections and restarts of the server.
THEOREM ReadersConsecutive == Spec => []ReceivedConsecutive
<1>1. IInv => ReceivedConsecutive
  BY DEF IInv, ReaderInv, Numbered, ReceivedConsecutive
<1> QED BY <1>1, StreamInductive, PTL

\* A reader whose events verify and who shares its last one with the log
\* shares all of them, so a loss at a restart shows in the chain.
THEOREM LossDetected == Spec => []ChainDetectsLoss
<1>1. IInv => ChainDetectsLoss
  <2> SUFFICES ASSUME IInv, NEW r \in Readers, got[r] # << >>,
                      VerifyHashChain(got[r]), Last(got[r]) \in Range(log)
               PROVE  IsPrefix(got[r], log)
    BY DEF ChainDetectsLoss
  <2> DEFINE g == got[r]
             n == Len(g)
  <2>1. /\ g \in Seq(Event) /\ log \in Seq(Event)
        /\ Numbered(g) /\ Trailed(g) /\ Numbered(log) /\ Trailed(log)
    BY DEF IInv, TypeOK, ReaderInv, LogInv
  <2>2. n \in Nat /\ n \in 1 .. n
    BY <2>1
  <2>3. PICK k \in 1 .. Len(log) : log[k] = g[n]
    BY <2>1 DEF Last, Range
  <2>4. k = n
    BY <2>1, <2>2, <2>3 DEF Numbered
  <2> HIDE DEF g
  <2>5. Trail(g, n) = Trail(log, n) /\ n \in 1 .. Len(log)
    BY <2>1, <2>2, <2>3, <2>4 DEF Trailed
  <2>6. ASSUME NEW i \in 1 .. n PROVE g[i] = log[i]
    <3>1. \A j \in 1 .. n : Trail(g, n)[j] = <<g[j].seq, g[j].body>>
                             /\ Trail(log, n)[j] = <<log[j].seq, log[j].body>>
      BY DEF Trail
    <3>2. \A j \in 1 .. n : g[j].seq = log[j].seq /\ g[j].body = log[j].body
      BY <2>5, <3>1
    <3>3. Trail(g, i) = Trail(log, i) /\ Trail(g, i - 1) = Trail(log, i - 1)
      BY <2>2, <2>6, <3>2 DEF Trail
    <3>4. i \in 1 .. Len(log) /\ g[i] \in Event /\ log[i] \in Event
      BY <2>1, <2>2, <2>5, <2>6
    <3>5. g[i].hash = log[i].hash /\ g[i].prev_hash = log[i].prev_hash
      BY <2>1, <2>6, <3>3, <3>4 DEF Trailed
    <3> QED BY <3>2, <3>4, <3>5, <2>6 DEF Event
  <2>7. Len(g) <= Len(log) /\ SubSeq(g, 1, Len(g)) = SubSeq(log, 1, Len(g))
    <3>1. Len(g) <= Len(log)
      BY <2>1, <2>2, <2>5
    <3>2. /\ SubSeq(g, 1, n) \in Seq(Event) /\ SubSeq(log, 1, n) \in Seq(Event)
          /\ Len(SubSeq(g, 1, n)) = n /\ Len(SubSeq(log, 1, n)) = n
          /\ \A i \in 1 .. n : SubSeq(g, 1, n)[i] = g[i] /\ SubSeq(log, 1, n)[i] = log[i]
      BY <2>1, <2>2, <2>5
    <3>3. SubSeq(g, 1, n) = SubSeq(log, 1, n)
      BY <2>6, <3>2, SeqEqual
    <3> QED BY <3>1, <3>3
  <2> QED BY <2>7 DEF IsPrefix, g
<1> QED BY <1>1, StreamInductive, PTL
-----------------------------------------------------------------------------
(* Ledgers.  A log and a ledger match when the places of the audited writes, *)
(* counted, are those of the writes; this is kept by an event and its write. *)

\* An event that is a write to the scope.
WritesTo(event, s) == \E by \in Tasks : event.body.write = <<s, by>>

Matches(events, writes, s) ==
  LET audited == Query(events, s)
      nth(i) == Cardinality({j \in audited : j <= i})
  IN /\ Len(writes) = Cardinality(audited)
     /\ \A i \in audited : writes[nth(i)] = events[i].body

LEMMA QueryFinite ==
  ASSUME NEW events \in Seq(Event), NEW s
  PROVE  /\ IsFiniteSet(Query(events, s))
         /\ \A i \in Query(events, s) : i \in 1 .. Len(events)
<1>1. Len(events) \in Nat /\ DOMAIN events = 1 .. Len(events)
  BY LenProperties
<1>2. IsFiniteSet(1 .. Len(events))
  BY <1>1, FS_Interval
<1>3. Query(events, s) \subseteq 1 .. Len(events)
  BY <1>1 DEF Query
<1> QED BY <1>2, <1>3, FS_Subset

\* The events of a longer log: those before, and the new one if it is asked for.
LEMMA QueryGrows ==
  ASSUME NEW events \in Seq(Event), NEW event \in Event, NEW s
  PROVE  LET longer == Query(Append(events, event), s) IN
         /\ WritesTo(event, s) =>
              longer = Query(events, s) \cup {Len(events) + 1}
         /\ ~WritesTo(event, s) => longer = Query(events, s)
<1>1. /\ Len(events) \in Nat /\ DOMAIN events = 1 .. Len(events)
      /\ Append(events, event) \in Seq(Event) /\ Len(Append(events, event)) = Len(events) + 1
      /\ \A i \in 1 .. Len(events) : Append(events, event)[i] = events[i]
      /\ Append(events, event)[Len(events) + 1] = event
  BY LenProperties, AppendProperties
<1>2. DOMAIN Append(events, event) = 1 .. Len(events) + 1
  BY <1>1, LenProperties
<1>3. \A i : i \in 1 .. Len(events) + 1 <=> i \in 1 .. Len(events) \/ i = Len(events) + 1
  BY <1>1
<1> QED BY <1>1, <1>2, <1>3 DEF Query, WritesTo

\* An event that is no write to the scope.
LEMMA OtherEvent ==
  ASSUME NEW events \in Seq(Event), NEW event \in Event, NEW writes, NEW s,
         Matches(events, writes, s), ~WritesTo(event, s)
  PROVE  Matches(Append(events, event), writes, s)
<1>1. Query(Append(events, event), s) = Query(events, s)
  BY QueryGrows
<1>2. \A i \in Query(events, s) : Append(events, event)[i] = events[i]
  BY QueryFinite, AppendProperties
<1> QED BY <1>1, <1>2 DEF Matches

\* A write and its event.
LEMMA WrittenEvent ==
  ASSUME NEW events \in Seq(Event), NEW event \in Event, NEW writes \in Seq(Body), NEW s,
         Matches(events, writes, s), WritesTo(event, s)
  PROVE  Matches(Append(events, event), Append(writes, event.body), s)
<1> DEFINE audited == Query(events, s)
           longer == Query(Append(events, event), s)
           n == Len(events) + 1
           upTo(places, i) == {j \in places : j <= i}
<1>1. longer = audited \cup {n}
  BY QueryGrows
<1>2. /\ IsFiniteSet(audited) /\ \A i \in audited : i \in Int /\ i < n
      /\ n \in Nat /\ Cardinality(audited) \in Nat
  <2>1. Len(events) \in Nat
    BY LenProperties
  <2> QED BY <2>1, QueryFinite, FS_CardinalityType
<1>3. /\ Len(writes) = Cardinality(audited)
      /\ \A i \in audited : writes[Cardinality(upTo(audited, i))] = events[i].body
  BY DEF Matches
<1>4. Cardinality(longer) = Cardinality(audited) + 1
  <2>1. n \notin audited
    BY <1>2
  <2> HIDE DEF audited, longer, n
  <2> QED BY <1>1, <1>2, <2>1, FS_AddElement
<1>5. /\ \A i \in audited : Append(events, event)[i] = events[i]
      /\ Append(events, event)[n] = event
  BY QueryFinite, AppendProperties
<1>6. event.body \in Body
  BY DEF Event
<1>7. /\ Len(Append(writes, event.body)) = Len(writes) + 1
      /\ \A i \in 1 .. Len(writes) : Append(writes, event.body)[i] = writes[i]
      /\ Append(writes, event.body)[Len(writes) + 1] = event.body
  BY <1>6, AppendProperties
<1> HIDE DEF audited, longer, n
<1>8. ASSUME NEW i \in audited
      PROVE  Append(writes, event.body)[Cardinality(upTo(longer, i))] = events[i].body
  <2>1. upTo(longer, i) = upTo(audited, i)
    BY <1>1, <1>2
  <2>2. IsFiniteSet(upTo(audited, i)) /\ Cardinality(upTo(audited, i)) <= Cardinality(audited)
    BY <1>2, FS_Subset
  <2>3. Cardinality(upTo(audited, i)) \in Nat \ {0}
    <3>1. i \in upTo(audited, i)
      BY <1>2
    <3> HIDE DEF upTo
    <3> QED BY <2>2, <3>1, FS_CardinalityType, FS_EmptySet
  <2>4. Cardinality(upTo(audited, i)) \in 1 .. Len(writes)
    BY <1>2, <1>3, <2>2, <2>3
  <2> HIDE DEF upTo
  <2> QED BY <1>3, <1>7, <2>1, <2>4
<1>9. Append(writes, event.body)[Cardinality(upTo(longer, n))] = event.body
  <2>1. upTo(longer, n) = longer
    BY <1>1, <1>2
  <2> QED BY <1>3, <1>4, <1>7, <2>1
<1> QED BY <1>1, <1>3, <1>4, <1>5, <1>7, <1>8, <1>9 DEF Matches, longer, audited, n

LedgerInv ==
  \A s \in Scopes : Matches(log, ledger[s], s) /\ Matches(disk.log, disk.ledger[s], s)

LEMMA LedgerInit == Init => LedgerInv
<1> SUFFICES ASSUME Init, NEW s \in Scopes
             PROVE  Matches(<< >>, << >>, s)
  BY DEF Init, LedgerInv
<1>1. Query(<< >>, s) = {}
  BY DEF Query
<1> QED BY <1>1, FS_EmptySet, EmptySeq DEF Matches

LEMMA LedgerStep ==
  ASSUME IInv, LedgerInv, [Next]_vars
  PROVE  LedgerInv'
<1>1. /\ log \in Seq(Event) /\ lastSeq \in Nat /\ issued \in Nat
      /\ ledger \in [Scopes -> Seq(Body)]
  BY DEF IInv, TypeOK
<1>2. CASE UNCHANGED <<log, ledger, disk>>
  BY <1>2 DEF LedgerInv
<1>3. CASE UNCHANGED <<log, ledger>> /\ disk' = Snapshot
  BY <1>3 DEF LedgerInv, Snapshot
<1>4. CASE Restart
  BY <1>4 DEF LedgerInv, Restart
<1>5. ASSUME NEW kind \in Kind, NEW write \in Write \cup {NoWrite}, HandleOp(kind, write)
      PROVE  LedgerInv'
  <2> DEFINE body == [n |-> issued + 1, kind |-> kind, write |-> write]
             event == NewEvent(body)
  <2>1. /\ log' = Append(log, event) /\ disk' = disk
        /\ ledger' = IF write = NoWrite THEN ledger ELSE [ledger EXCEPT ![write[1]] = Append(@, event.body)]
    BY <1>5 DEF HandleOp
  <2>2. body \in Body /\ body.write = write
    BY <1>1 DEF Body
  <2>3. event \in Event /\ event.body = body
    <3>1. event = NewEvent([n |-> issued + 1, kind |-> kind, write |-> write])
      OBVIOUS
    <3>2. event.body = body
      BY DEF NewEvent
    <3> HIDE DEF event
    <3> QED BY <3>1, <3>2, NewEventFacts DEF IInv
  <2> HIDE DEF body, event
  <2> SUFFICES ASSUME NEW s \in Scopes
               PROVE  Matches(log', ledger'[s], s)
    BY <2>1 DEF LedgerInv
  <2>4. Matches(log, ledger[s], s) /\ ledger[s] \in Seq(Body)
    BY <1>1 DEF LedgerInv
  <2>5. CASE WritesTo(event, s)
    <3>1. write # NoWrite /\ write[1] = s
      BY <2>2, <2>3, <2>5 DEF WritesTo, NoWrite
    <3>2. ledger'[s] = Append(ledger[s], event.body)
      BY <1>1, <2>1, <3>1
    <3> QED BY <1>1, <2>1, <2>3, <2>4, <2>5, <3>2, WrittenEvent
  <2>6. CASE ~WritesTo(event, s)
    <3>1. write = NoWrite \/ write[1] # s
      BY <2>2, <2>3, <2>6 DEF WritesTo, Write
    <3>2. ledger'[s] = ledger[s]
      BY <1>1, <2>1, <3>1
    <3> QED BY <1>1, <2>1, <2>3, <2>4, <2>6, <3>2, OtherEvent
  <2> QED BY <2>5, <2>6
<1>6. CASE Loop
  BY <1>2, <1>3, <1>5, <1>6 DEF Loop, Operate, Flush, FlushIntent, Publish
<1>7. CASE \E r \in Readers : Follow(r) \/ Break(r)
  BY <1>2, <1>7 DEF Follow, Connect, Poll, Send, Sleep, Receive, Break, loopVars
<1>8. CASE UNCHANGED vars
  BY <1>2, <1>8 DEF vars, loopVars
<1> QED BY <1>4, <1>6, <1>7, <1>8 DEF Next

\* In memory and in the snapshot the ledger of a scope has the audited writes to
\* it, whichever tasks wrote them, in the order of the log, whenever the process stops between a write and the
\* flush that makes it durable.
THEOREM LedgersAgreeWithAudit == Spec => []LedgerMatchesAudit
<1>1. ASSUME LedgerInv PROVE LedgerMatchesAudit
  <2> SUFFICES ASSUME NEW s \in Scopes, NEW state \in {[log |-> log, ledger |-> ledger], disk}
               PROVE  Matches(state.log, state.ledger[s], s)
    BY DEF LedgerMatchesAudit, Matches
  <2> QED BY <1>1 DEF LedgerInv
<1>2. Init /\ [][Next]_vars => []IInv
  BY StreamInductive DEF Spec
<1> QED BY <1>1, <1>2, LedgerInit, LedgerStep, PTL DEF Spec
=============================================================================
