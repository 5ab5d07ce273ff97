----------------------------- MODULE AuditStream -----------------------------
(***************************************************************************)
(* The audit log and those who follow it: the log in memory with its hash  *)
(* chain (loops/hlp/audit.py), its snapshot on disk (sqlite_store.py), the *)
(* ledgers that are written beside it, the events the SDK publishes, and   *)
(* the readers of GET /v1/events (transport/server.py, client.py).         *)
(*                                                                         *)
(* Operations run one at a time on the event loop, from the audit event to *)
(* the answer without a suspension.  The handlers of the stream run in     *)
(* threads of their own and read the list while the loop appends to it     *)
(* and writes the snapshot.  A process that stops loses what was not       *)
(* flushed; readers reconnect with the last sequence number they have.     *)
(***************************************************************************)
EXTENDS Integers, Sequences, FiniteSets, SequencesExt

CONSTANTS
  Tasks,         \* tasks that write ledgers
  Scopes,        \* scopes of ledgers: a project, a team, shared by tasks
  Readers,       \* clients that follow the stream
  MaxEvents,     \* bound: events appended
  MaxRestarts,   \* bound: crashes of the serving process
  MaxBreaks      \* bound: connections that break

ASSUME StreamConstants ==
  MaxEvents \in Nat /\ MaxRestarts \in Nat /\ MaxBreaks \in Nat

VARIABLES
  log,        \* AuditLog._events
  lastSeq,    \* AuditLog._seq
  ledger,     \* scope -> the writes to its ledger, last one wins
  disk,       \* the snapshot: log and ledgers
  stage,      \* where the event loop is: at rest, or about to flush or publish
  bus,        \* audit events whose lifecycle event the SDK has published
  conn,       \* reader -> its connection and the handler thread serving it
  wire,       \* reader -> events sent and not yet read
  got,        \* reader -> events received
  issued,     \* number of events ever appended: tells events apart
  restarts, breaks

loopVars == <<log, lastSeq, ledger, disk, stage, bus, issued, restarts>>
readVars == <<conn, wire, got, breaks>>
vars == <<loopVars, readVars>>
-----------------------------------------------------------------------------
\* SDK calls go through HLPClient; the others arrive over HTTP, with an
\* idempotency key or without one.
Kind == {"plain", "keyed", "sdk"}

\* ledger.write is audited with the scope and, as the task of the event, the
\* writer; several tasks may write to one scope.
Write == Scopes \X Tasks
NoWrite == << >>

\* What an event says.  Of which task it is, is kept of the writes only.
Body == [n : Nat \ {0}, kind : Kind, write : Write \cup {NoWrite}]

\* A hash stands for what it was computed of: the events up to its own.
Hash == Seq((Nat \ {0}) \X Body)

Event == [seq : Nat \ {0}, body : Body, prev_hash : Hash, hash : Hash]

\* Faulty, used by no action: the hash leaves out what the event says.
EventHash_Bodiless(seq, body, prev) == Append(prev, <<seq, seq>>)

\* _audit_event_hash
EventHash(seq, body, prev) == Append(prev, <<seq, body>>)

\* verify_hash_chain, of the log or of the events a reader has
VerifyHashChain(events) ==
  \A i \in 1 .. Len(events) :
    /\ events[i].prev_hash = IF i = 1 THEN << >> ELSE events[i-1].hash
    /\ events[i].hash = EventHash(events[i].seq, events[i].body, events[i].prev_hash)

\* The places of the events "ledger.written" of a scope.
Query(events, scope) ==
  {i \in DOMAIN events : \E by \in Tasks : events[i].body.write = <<scope, by>>}

Idle == [at |-> "rest"]
Closed == [at |-> "closed"]

Stage == {Idle} \cup [at : {"flush", "publish"}, event : Event]

\* The handler polls the log, sends what it found, and sleeps or stops.
Conn == {Closed} \cup [at : {"poll", "send"}, cursor : Nat, batch : Seq(Event)]

LastReceived(r) == IF got[r] = << >> THEN 0 ELSE Last(got[r]).seq
-----------------------------------------------------------------------------
Init ==
  /\ log = << >>
  /\ lastSeq = 0
  /\ ledger = [s \in Scopes |-> << >>]
  /\ disk = [log |-> << >>, ledger |-> [s \in Scopes |-> << >>]]
  /\ stage = Idle
  /\ bus = << >>
  /\ conn = [r \in Readers |-> Closed]
  /\ wire = [r \in Readers |-> << >>]
  /\ got = [r \in Readers |-> << >>]
  /\ issued = 0
  /\ restarts = 0
  /\ breaks = 0

\* Faulty, used by no action: numbers start at zero.
NewEvent_FromZero(body) ==
  LET prev == IF log = << >> THEN << >> ELSE log[Len(log)].hash IN
    [seq |-> lastSeq, body |-> body, prev_hash |-> prev,
     hash |-> EventHash(lastSeq, body, prev)]

\* AuditLog.append
NewEvent(body) ==
  LET prev == IF log = << >> THEN << >> ELSE log[Len(log)].hash IN
    [seq |-> lastSeq + 1, body |-> body, prev_hash |-> prev,
     hash |-> EventHash(lastSeq + 1, body, prev)]

\* _handle_op, or an HLPClient method, runs an operation: it appends an audit
\* event, ledger.write also an entry of the scope.  One with a key is then
\* flushed, one through the SDK flushed and published; the others are answered
\* as they are.  ledger.write takes no key.
HandleOp(kind, write) ==
  LET event == NewEvent([n |-> issued + 1, kind |-> kind, write |-> write]) IN
    /\ stage = Idle
    /\ write # NoWrite => kind # "keyed"
    /\ issued < MaxEvents
    /\ issued' = issued + 1
    /\ log' = Append(log, event)
    /\ lastSeq' = event.seq
    /\ ledger' = IF write = NoWrite THEN ledger
                 ELSE [ledger EXCEPT ![write[1]] = Append(@, event.body)]
    /\ stage' = IF kind \in {"keyed", "sdk"} THEN [at |-> "flush", event |-> event]
                ELSE Idle
    /\ UNCHANGED <<disk, bus, restarts, readVars>>

\* Faulty, used by no action: the snapshot leaves the ledgers as they were.
Snapshot_NoLedger == [log |-> log, ledger |-> disk.ledger]

\* SQLiteHumanLoopStore.flush: one transaction replaces the snapshot.
Snapshot == [log |-> log, ledger |-> ledger]

\* Faulty, used by no action: an event is published without a flush.
Flush_PublishesFirst ==
  /\ stage.at = "flush"
  /\ IF stage.event.body.kind = "sdk"
     THEN stage' = [stage EXCEPT !.at = "publish"] /\ UNCHANGED disk
     ELSE stage' = Idle /\ disk' = Snapshot
  /\ UNCHANGED <<log, lastSeq, ledger, bus, issued, restarts, readVars>>

\* _commit_task_operation and _after_mutation
Flush ==
  /\ stage.at = "flush"
  /\ disk' = Snapshot
  /\ stage' = IF stage.event.body.kind = "sdk" THEN [stage EXCEPT !.at = "publish"] ELSE Idle
  /\ UNCHANGED <<log, lastSeq, ledger, bus, issued, restarts, readVars>>

\* _prepare_adapter_outbox: a new intent is flushed before the agent is told.
FlushIntent ==
  /\ stage = Idle
  /\ disk' = Snapshot
  /\ UNCHANGED <<log, lastSeq, ledger, stage, bus, issued, restarts, readVars>>

\* _publish_event
Publish ==
  /\ stage.at = "publish"
  /\ bus' = Append(bus, stage.event)
  /\ stage' = Idle
  /\ UNCHANGED <<log, lastSeq, ledger, disk, issued, restarts, readVars>>

\* SQLiteHumanLoopStore._load
LoadedSeq(events) == IF events = << >> THEN 0 ELSE events[Len(events)].seq

\* The process stops, its handlers with it, and another loads the snapshot.
Restart ==
  /\ restarts < MaxRestarts
  /\ restarts' = restarts + 1
  /\ log' = disk.log
  /\ lastSeq' = LoadedSeq(disk.log)
  /\ ledger' = disk.ledger
  /\ stage' = Idle
  /\ conn' = [r \in Readers |-> Closed]
  /\ UNCHANGED <<disk, bus, issued, wire, got, breaks>>
-----------------------------------------------------------------------------
\* HLPHttpClient.events(after): the client has read all the last connection
\* brought it.
Connect(r) ==
  /\ conn[r] = Closed
  /\ wire[r] = << >>
  /\ conn' = [conn EXCEPT ![r] = [at |-> "poll", cursor |-> LastReceived(r), batch |-> << >>]]
  /\ UNCHANGED <<loopVars, wire, got, breaks>>

\* Faulty, used by no action: the event at the cursor is sent again.
EventsAfter_Inclusive(cursor) == SelectSeq(log, LAMBDA e : e.seq >= cursor)

\* Faulty, used by no action: the event after the cursor is left out.
EventsAfter_Skips(cursor) == SelectSeq(log, LAMBDA e : e.seq > cursor + 1)

\* audit_events_after: the events with a later number, in the order of the log.
EventsAfter(cursor) ==
  LET later == {i \in 1 .. Len(log) : log[i].seq > cursor}
      nth(n) == CHOOSE i \in later : Cardinality({j \in later : j <= i}) = n
  IN [n \in 1 .. Cardinality(later) |-> log[nth(n)]]

\* _handle_events
Poll(r) ==
  /\ conn[r].at = "poll"
  /\ conn' = [conn EXCEPT ![r].at = "send", ![r].batch = EventsAfter(conn[r].cursor)]
  /\ UNCHANGED <<loopVars, wire, got, breaks>>

Send(r) ==
  /\ conn[r].at = "send"
  /\ conn[r].batch # << >>
  /\ LET event == Head(conn[r].batch) IN
       /\ conn' = [conn EXCEPT ![r].cursor = event.seq, ![r].batch = Tail(@)]
       /\ wire' = [wire EXCEPT ![r] = Append(@, event)]
  /\ UNCHANGED <<loopVars, got, breaks>>

\* The batch is out: the handler sleeps and polls again, or its time is over.
Sleep(r) ==
  /\ conn[r].at = "send"
  /\ conn[r].batch = << >>
  /\ \/ conn' = [conn EXCEPT ![r].at = "poll"]
     \/ conn' = [conn EXCEPT ![r] = Closed]
  /\ UNCHANGED <<loopVars, wire, got, breaks>>

\* The connection breaks: what was on it is gone, and the handler returns.
Break(r) ==
  /\ breaks < MaxBreaks
  /\ conn[r] # Closed \/ wire[r] # << >>
  /\ breaks' = breaks + 1
  /\ conn' = [conn EXCEPT ![r] = Closed]
  /\ wire' = [wire EXCEPT ![r] = << >>]
  /\ UNCHANGED <<loopVars, got>>

Receive(r) ==
  /\ wire[r] # << >>
  /\ got' = [got EXCEPT ![r] = Append(@, Head(wire[r]))]
  /\ wire' = [wire EXCEPT ![r] = Tail(@)]
  /\ UNCHANGED <<loopVars, conn, breaks>>
-----------------------------------------------------------------------------
Operate == \E kind \in Kind, write \in Write \cup {NoWrite} : HandleOp(kind, write)
Loop == Operate \/ Flush \/ FlushIntent \/ Publish
Follow(r) == Connect(r) \/ Poll(r) \/ Send(r) \/ Sleep(r) \/ Receive(r)

Next ==
  \/ Loop
  \/ Restart
  \/ \E r \in Readers : Follow(r) \/ Break(r)

Spec == Init /\ [][Next]_vars

\* Each connected handler thread and each client goes on; the client connects
\* again when its stream has ended.  Nothing is assumed of operations.
FairSpec ==
  /\ Spec
  /\ WF_vars(Flush) /\ WF_vars(Publish)
  /\ \A r \in Readers :
       /\ WF_vars(Connect(r)) /\ WF_vars(Poll(r))
       /\ WF_vars(Send(r)) /\ WF_vars(Sleep(r)) /\ WF_vars(Receive(r))
-----------------------------------------------------------------------------
TypeOK ==
  /\ log \in Seq(Event)
  /\ lastSeq \in Nat
  /\ ledger \in [Scopes -> Seq(Body)]
  /\ disk \in [log : Seq(Event), ledger : [Scopes -> Seq(Body)]]
  /\ stage \in Stage
  /\ bus \in Seq(Event)
  /\ conn \in [Readers -> Conn]
  /\ wire \in [Readers -> Seq(Event)]
  /\ got \in [Readers -> Seq(Event)]
  /\ issued \in Nat /\ restarts \in Nat /\ breaks \in Nat

\* The log, and the log a restarted process would load, count their events
\* from one and pass verify_hash_chain, whatever was lost before.
LogIsChained ==
  \A events \in {log, disk.log} :
    /\ \A i \in 1 .. Len(events) : events[i].seq = i
    /\ VerifyHashChain(events)

\* Across polls, broken connections, expired streams and restarts of the
\* server, a reader gets each sequence number once and none is left out.
ReceivedConsecutive ==
  \A r \in Readers : \A i \in 1 .. Len(got[r]) : got[r][i].seq = i

\* What the hash chain is for: a reader whose events verify and whose last
\* one is in the log has no event that the log does not have at that place;
\* when a restart replaced an event it has seen, the chain shows it.
ChainDetectsLoss ==
  \A r \in Readers :
    (got[r] # << >> /\ VerifyHashChain(got[r]) /\ Last(got[r]) \in Range(log))
      => IsPrefix(got[r], log)

\* What a subscriber of the SDK's events was told of survives a restart.
PublishedIsDurable == Range(bus) \subseteq Range(disk.log)

\* In memory and in the snapshot, every entry of a scope has its audit event,
\* under the task that wrote it, and the events are in the order of the
\* entries, whichever tasks share the scope and whichever of their writes were
\* flushed when the process stopped.
LedgerMatchesAudit ==
  \A s \in Scopes :
    \A state \in {[log |-> log, ledger |-> ledger], disk} :
      LET audited == Query(state.log, s)
          nth(i) == Cardinality({j \in audited : j <= i})
      IN /\ Len(state.ledger[s]) = Cardinality(audited)
         /\ \A i \in audited : state.ledger[s][nth(i)] = state.log[i].body

\* A reader that keeps following gets as far as the log does, unless the
\* log itself is cut back by a restart.
ReaderCatchesUp ==
  \A r \in Readers, n \in 1 .. MaxEvents :
    Len(log) >= n ~> (LastReceived(r) >= n \/ Len(log) < n)
=============================================================================
