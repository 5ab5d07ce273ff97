----------------------- MODULE IdempotentOutbox_proofs -----------------------
(***************************************************************************)
(* What IdempotentOutbox guarantees for any clients, keys and fault        *)
(* bounds: a key commits once when it is retried serially, an intent is on *)
(* disk before the agent acts, and an answered effect survives restarts.   *)
(*                                                                         *)
(* The inductive invariant IInv adds to the properties what makes them     *)
(* inductive: the running store and the snapshot agree on the records and  *)
(* the outbox (every change to these is flushed in the same step), the     *)
(* snapshot's audit log is part of the store's, and what a coroutine       *)
(* remembers over its await is backed by an intent.  Two more are          *)
(* inductive on top of it: LedgerInv, under which the audit log accounts   *)
(* for every settled intent and every record, and CasInv, which fixes the  *)
(* operation id of a client that compares and sets.                        *)
(***************************************************************************)
EXTENDS IdempotentOutbox, TLAPS

Types ==
  /\ IsStore(mem)
  /\ IsStore(disk)
  /\ calls \in [Clients -> Coroutines]
  /\ clients \in [Clients -> [outcome : Outcomes, expected : Nat \cup {NoRevision}]]
  /\ effects \in SUBSET [client : Clients, id : OperationIds, payload : Payloads]
  /\ fresh \in Nat
  /\ faults \in [failures : 0..MaxFailures, crashes : 0..MaxCrashes,
                 giveUps : 0..MaxGiveUps]

\* The two stores, and the records that account for the audit log.
Synced == mem.records = disk.records /\ mem.outbox = disk.outbox
DiskBehind == disk.audit \subseteq mem.audit
KeysRecorded ==
  \A e \in mem.audit : e.id.key # NoKey => e.id.key \in DOMAIN mem.records
RecordsExplained ==
  \A k \in DOMAIN disk.records :
    \E e \in disk.audit : /\ e.id.key = k
                          /\ e.id.request = disk.records[k].request
StoreInv ==
  /\ Synced
  /\ DiskBehind
  /\ KeysRecorded
  /\ RecordsExplained
  /\ SerialKeys => OncePerKey(mem)

\* What a coroutine holds over its await.
InFlight(c) == calls[c].phase \in {"calling", "acted"}
Backed(c) ==
  /\ calls[c].id.key = Key(c)
  /\ calls[c].id.request = Request(c)
  /\ calls[c].id \in DOMAIN disk.outbox
  /\ disk.outbox[calls[c].id].payload = calls[c].payload
  /\ SerialKeys => Key(c) \notin DOMAIN mem.records
CallInv == \A c \in Clients : InFlight(c) => Backed(c)
OneCallPerKey ==
  SerialKeys => \A c, d \in Clients :
    c # d /\ Key(c) = Key(d) /\ Key(c) # NoKey => calls[c] = Idle \/ calls[d] = Idle

\* Whoever is told, or about to be told, that its request succeeded.
ToldInv ==
  \A c \in Clients :
    /\ calls[c].phase = "returned" \/ clients[c].outcome = "ok"
    /\ Key(c) # NoKey \/ CallsAdapter(Op(c))
    => CarriedOutFor(disk, c)

IInv == Types /\ StoreInv /\ CallInv /\ OneCallPerKey /\ ToldInv /\ IntentBeforeAct
-----------------------------------------------------------------------------
\* What the operators on stores do to the fields.

LEMMA ClientFacts ==
  ASSUME NEW c \in Clients
  PROVE  /\ Request(c) \in Requests
         /\ Key(c) \in Keys \cup {NoKey}
         /\ Op(c) \in Operations
BY OutboxConstants DEF Request, Key, Op

LEMMA TargetType ==
  ASSUME NEW op \in Operations, NEW s \in TaskState
  PROVE  Target(op, s) \in TaskState
BY DEF Target, Operations, TaskState

\* A commit adds one audit entry, one record if the call has a key, and keeps
\* every intent with its payload.
LEMMA CommittedFields ==
  ASSUME NEW s, IsStore(s), NEW c \in Clients, NEW id \in OperationIds
  PROVE  LET t == Committed(s, c, id) IN
         /\ t.audit = s.audit \cup {[client |-> c, id |-> id, after |-> s.revision + 1]}
         /\ t.records = Recorded(s.records, c, s.revision + 1)
         /\ t.outbox = Settled(s.outbox, id)
         /\ t.attached = s.attached
         /\ IsStore(t)
<1> DEFINE t == Committed(s, c, id)
           entry == [client |-> c, id |-> id, after |-> s.revision + 1]
<1>1. /\ t.audit = s.audit \cup {entry}
      /\ t.records = Recorded(s.records, c, s.revision + 1)
      /\ t.outbox = Settled(s.outbox, id)
      /\ t.attached = s.attached
      /\ t.state = Target(Op(c), s.state)
      /\ t.revision = s.revision + 1
      /\ t \in [state : {t.state}, revision : {t.revision}, attached : {t.attached},
                audit : {t.audit}, records : {t.records}, outbox : {t.outbox}]
  BY DEF Committed, IsStore
<1>2. t.state \in TaskState /\ t.revision \in Nat /\ t.attached \in SUBSET Payloads
  BY <1>1, TargetType, ClientFacts DEF IsStore
<1>3. t.audit \in SUBSET AuditEntry
  BY <1>1 DEF IsStore, AuditEntry
<1>4. DOMAIN t.records \subseteq Keys /\ t.records \in [DOMAIN t.records -> IdempotencyRecord]
  <2>1. CASE Key(c) = NoKey
    BY <1>1, <2>1 DEF Recorded, IsStore
  <2>2. CASE Key(c) # NoKey
    <3>1. [request |-> Request(c), after |-> s.revision + 1] \in IdempotencyRecord
      BY ClientFacts DEF IsStore, IdempotencyRecord
    <3>2. Key(c) \in Keys
      BY <2>2, ClientFacts
    <3>3. DOMAIN s.records \subseteq Keys /\ s.records \in [DOMAIN s.records -> IdempotencyRecord]
      BY DEF IsStore
    <3>4. t.records = Put(s.records, Key(c), [request |-> Request(c), after |-> s.revision + 1])
      BY <1>1, <2>2 DEF Recorded
    <3> DEFINE p == Put(s.records, Key(c), [request |-> Request(c), after |-> s.revision + 1])
    <3>5. DOMAIN p \subseteq Keys /\ p \in [DOMAIN p -> IdempotencyRecord]
      BY <3>1, <3>2, <3>3 DEF Put
    <3> QED
      BY <3>4, <3>5
  <2> QED BY <2>1, <2>2
<1>5. DOMAIN t.outbox \subseteq OperationIds /\ t.outbox \in [DOMAIN t.outbox -> Intent]
  <2>1. CASE id \notin DOMAIN s.outbox
    BY <1>1, <2>1 DEF Settled, IsStore
  <2>2. CASE id \in DOMAIN s.outbox
    <3>1. [payload |-> s.outbox[id].payload, state |-> "succeeded"] \in Intent
      BY <2>2 DEF IsStore, Intent
    <3>2. DOMAIN s.outbox \subseteq OperationIds /\ s.outbox \in [DOMAIN s.outbox -> Intent]
      BY DEF IsStore
    <3>3. t.outbox = Put(s.outbox, id, [payload |-> s.outbox[id].payload, state |-> "succeeded"])
      BY <1>1, <2>2 DEF Settled
    <3> DEFINE p == Put(s.outbox, id, [payload |-> s.outbox[id].payload, state |-> "succeeded"])
    <3>5. DOMAIN p \subseteq OperationIds /\ p \in [DOMAIN p -> Intent]
      BY <3>1, <3>2, <3>3 DEF Put
    <3> QED
      BY <3>3, <3>5
  <2> QED BY <2>1, <2>2
<1>6. IsStore(t)
  BY <1>1, <1>2, <1>3, <1>4, <1>5 DEF IsStore
<1> QED BY <1>1, <1>6

LEMMA SettledFacts ==
  ASSUME NEW outbox, NEW id
  PROVE  /\ DOMAIN Settled(outbox, id) = DOMAIN outbox
         /\ \A i \in DOMAIN outbox : Settled(outbox, id)[i].payload = outbox[i].payload
BY DEF Settled, Put
-----------------------------------------------------------------------------
\* Initial states.

LEMMA InitIInv == Init => IInv
<1> SUFFICES ASSUME Init PROVE IInv
  OBVIOUS
<1>1. IsStore(mem)
  BY OutboxConstants DEF Init, IsStore
<1>2. Types
  <2>1. Idle \in Coroutines
    BY DEF Coroutines
  <2> QED BY <1>1, <2>1, OutboxConstants DEF Init, Types, Outcomes
<1>3. StoreInv
  BY DEF Init, StoreInv, Synced, DiskBehind, KeysRecorded, RecordsExplained, OncePerKey
<1>4. CallInv /\ OneCallPerKey /\ ToldInv
  BY DEF Init, CallInv, InFlight, OneCallPerKey, ToldInv, Idle
<1>5. IntentBeforeAct
  BY DEF Init, IntentBeforeAct
<1> QED BY <1>2, <1>3, <1>4, <1>5 DEF IInv
-----------------------------------------------------------------------------
\* Steps that leave both stores alone.

\* Sending takes the only place of its key.
LEMMA SendKeepsOneCall ==
  ASSUME NEW c \in Clients, NEW call, calls \in [Clients -> Coroutines],
         Sends(c), OneCallPerKey, calls' = [calls EXCEPT ![c] = call]
  PROVE  OneCallPerKey'
BY DEF Sends, OneCallPerKey

\* A call that goes on keeps the place it has.
LEMMA GoingOnKeepsOneCall ==
  ASSUME NEW c \in Clients, NEW call, calls \in [Clients -> Coroutines],
         calls[c] # Idle, OneCallPerKey, calls' = [calls EXCEPT ![c] = call]
  PROVE  OneCallPerKey'
BY DEF OneCallPerKey

\* A call that ends gives its place up.
LEMMA EndingKeepsOneCall ==
  ASSUME NEW c \in Clients, calls \in [Clients -> Coroutines],
         OneCallPerKey, calls' = [calls EXCEPT ![c] = Idle]
  PROVE  OneCallPerKey'
BY DEF OneCallPerKey

LEMMA StoresKept ==
  ASSUME StoreInv, UNCHANGED <<mem, disk>>
  PROVE  StoreInv'
BY DEF StoreInv, Synced, DiskBehind, KeysRecorded, RecordsExplained, OncePerKey

LEMMA ReadRevisionStep ==
  ASSUME IInv, NEW c \in Clients, ReadRevision(c)
  PROVE  IInv'
<1>1. Types'
  BY DEF IInv, Types, ReadRevision, IsStore
<1>2. StoreInv' /\ IntentBeforeAct'
  BY StoresKept DEF IInv, ReadRevision, IntentBeforeAct
<1>3. CallInv' /\ OneCallPerKey'
  BY DEF IInv, ReadRevision, CallInv, InFlight, Backed, OneCallPerKey
<1>4. ToldInv'
  BY DEF IInv, Types, ReadRevision, ToldInv, CarriedOutFor
<1> QED BY <1>1, <1>2, <1>3, <1>4 DEF IInv

\* The answer that is replayed is of a commit the snapshot holds.
LEMMA ReplayStep ==
  ASSUME IInv, NEW c \in Clients, Replay(c)
  PROVE  IInv'
<1> DEFINE call == [phase |-> "returned"]
<1>0. call \in Coroutines /\ calls' = [calls EXCEPT ![c] = call]
  BY DEF Coroutines, Replay
<1>1. Types'
  BY <1>0 DEF IInv, Types, Replay, IsStore, Outcomes
<1>2. StoreInv' /\ IntentBeforeAct'
  BY StoresKept DEF IInv, Replay, IntentBeforeAct
<1>3. OneCallPerKey'
  BY <1>0, SendKeepsOneCall DEF IInv, Types, Replay
<1>4. CallInv'
  BY DEF IInv, Types, Replay, CallInv, InFlight, Backed
<1>5. CarriedOutFor(disk, c)
  <2>1. Key(c) \in DOMAIN disk.records /\ disk.records[Key(c)].request = Request(c)
    BY DEF IInv, StoreInv, Synced, Replay, HasRecord, SameRequest
  <2>2. PICK e \in disk.audit : e.id.key = Key(c) /\ e.id.request = disk.records[Key(c)].request
    BY <2>1 DEF IInv, StoreInv, RecordsExplained
  <2>3. Key(c) # NoKey
    BY <2>1, OutboxConstants DEF IInv, Types, IsStore
  <2> QED BY <2>1, <2>2, <2>3 DEF CarriedOutFor
<1>6. ToldInv'
  BY <1>5 DEF IInv, Types, Replay, ToldInv, CarriedOutFor
<1> QED BY <1>1, <1>2, <1>3, <1>4, <1>6 DEF IInv

LEMMA RefuseStep ==
  ASSUME IInv, NEW c \in Clients, Refuse(c)
  PROVE  IInv'
<1>1. Types'
  BY DEF IInv, Types, Refuse, IsStore, Outcomes
<1>2. StoreInv' /\ IntentBeforeAct'
  BY StoresKept DEF IInv, Refuse, IntentBeforeAct
<1>3. CallInv' /\ OneCallPerKey'
  BY DEF IInv, Refuse, CallInv, InFlight, Backed, OneCallPerKey
<1>4. ToldInv'
  BY DEF IInv, Types, Refuse, ToldInv, CarriedOutFor
<1> QED BY <1>1, <1>2, <1>3, <1>4 DEF IInv

\* The agent acts on an intent that was flushed when the call began.
LEMMA ActStep ==
  ASSUME IInv, NEW c \in Clients, Act(c)
  PROVE  IInv'
<1> DEFINE call == [calls[c] EXCEPT !.phase = "acted"]
<1>1. /\ calls[c] \in [phase : {"calling", "acted"}, id : OperationIds,
                        payload : Payloads, before : TaskState]
      /\ calls' = [calls EXCEPT ![c] = call]
      /\ calls[c] # Idle
  BY DEF IInv, Types, Act, Coroutines, Idle
<1>2. /\ call \in Coroutines
      /\ call.id = calls[c].id /\ call.payload = calls[c].payload /\ call.phase = "acted"
  BY <1>1 DEF Coroutines
<1>3. Types'
  BY <1>1, <1>2 DEF IInv, Types, Act, IsStore
<1>4. StoreInv'
  BY StoresKept DEF IInv, Act
<1>5. Backed(c)
  BY DEF IInv, CallInv, InFlight, Act
<1>6. IntentBeforeAct'
  BY <1>5 DEF IInv, IntentBeforeAct, Backed, Act
<1>7. OneCallPerKey'
  BY <1>1, GoingOnKeepsOneCall DEF IInv, Types
<1>8. CallInv'
  BY <1>1, <1>2, <1>5 DEF IInv, Types, Act, CallInv, InFlight, Backed
<1>9. ToldInv'
  BY <1>1, <1>2 DEF IInv, Types, Act, ToldInv, CarriedOutFor
<1> QED BY <1>3, <1>4, <1>6, <1>7, <1>8, <1>9 DEF IInv

LEMMA AdapterFailsStep ==
  ASSUME IInv, NEW c \in Clients, AdapterFails(c)
  PROVE  IInv'
<1>0. Idle \in Coroutines /\ calls' = [calls EXCEPT ![c] = Idle]
  BY DEF Coroutines, AdapterFails
<1>1. Types'
  <2>1. faults' \in [failures : 0..MaxFailures, crashes : 0..MaxCrashes, giveUps : 0..MaxGiveUps]
    BY OutboxConstants DEF IInv, Types, AdapterFails
  <2>2. clients' \in [Clients -> [outcome : Outcomes, expected : Nat \cup {NoRevision}]]
    BY DEF IInv, Types, AdapterFails, Told, Outcomes
  <2> QED BY <1>0, <2>1, <2>2 DEF IInv, Types, AdapterFails, IsStore
<1>2. StoreInv' /\ IntentBeforeAct'
  BY StoresKept DEF IInv, AdapterFails, IntentBeforeAct
<1>3. OneCallPerKey'
  BY <1>0, EndingKeepsOneCall DEF IInv, Types
<1>4. CallInv'
  BY <1>0 DEF IInv, Types, AdapterFails, CallInv, InFlight, Backed, Idle
<1>5. ToldInv'
  BY <1>0 DEF IInv, Types, AdapterFails, Told, ToldInv, CarriedOutFor, Idle
<1> QED BY <1>1, <1>2, <1>3, <1>4, <1>5 DEF IInv

LEMMA RespondStep ==
  ASSUME IInv, NEW c \in Clients, Respond(c)
  PROVE  IInv'
<1>0. Idle \in Coroutines /\ calls' = [calls EXCEPT ![c] = Idle]
  BY DEF Coroutines, Respond
<1>1. Types'
  <2>1. clients' \in [Clients -> [outcome : Outcomes, expected : Nat \cup {NoRevision}]]
    BY DEF IInv, Types, Respond, Told, Outcomes
  <2> QED BY <1>0, <2>1 DEF IInv, Types, Respond, IsStore
<1>2. StoreInv' /\ IntentBeforeAct'
  BY StoresKept DEF IInv, Respond, IntentBeforeAct
<1>3. OneCallPerKey'
  BY <1>0, EndingKeepsOneCall DEF IInv, Types
<1>4. CallInv'
  BY <1>0 DEF IInv, Types, Respond, CallInv, InFlight, Backed, Idle
<1>5. ToldInv'
  BY <1>0 DEF IInv, Types, Respond, Told, ToldInv, CarriedOutFor, Idle
<1> QED BY <1>1, <1>2, <1>3, <1>4, <1>5 DEF IInv

LEMMA GiveUpStep ==
  ASSUME IInv, NEW c \in Clients, GiveUp(c)
  PROVE  IInv'
<1>1. Types'
  <2>1. faults' \in [failures : 0..MaxFailures, crashes : 0..MaxCrashes, giveUps : 0..MaxGiveUps]
    BY OutboxConstants DEF IInv, Types, GiveUp
  <2>2. clients' \in [Clients -> [outcome : Outcomes, expected : Nat \cup {NoRevision}]]
    BY DEF IInv, Types, GiveUp, Outcomes
  <2> QED BY <2>1, <2>2 DEF IInv, Types, GiveUp, IsStore
<1>2. StoreInv' /\ IntentBeforeAct'
  BY StoresKept DEF IInv, GiveUp, IntentBeforeAct
<1>3. CallInv' /\ OneCallPerKey'
  BY DEF IInv, GiveUp, CallInv, InFlight, Backed, OneCallPerKey
<1>4. ToldInv'
  BY DEF IInv, Types, GiveUp, ToldInv, CarriedOutFor
<1> QED BY <1>1, <1>2, <1>3, <1>4 DEF IInv
-----------------------------------------------------------------------------
\* Steps that change a store.

\* A restart falls back to a snapshot that lacks nothing a record, an intent
\* or an answer relies on.
LEMMA RestartStep ==
  ASSUME IInv, Restart
  PROVE  IInv'
<1>1. Types'
  <2>1. faults' \in [failures : 0..MaxFailures, crashes : 0..MaxCrashes, giveUps : 0..MaxGiveUps]
    BY OutboxConstants DEF IInv, Types, Restart
  <2>2. clients' \in [Clients -> [outcome : Outcomes, expected : Nat \cup {NoRevision}]]
    BY DEF IInv, Types, Restart, Outcomes
  <2>3. calls' \in [Clients -> Coroutines]
    BY DEF Restart, Coroutines
  <2> QED BY <2>1, <2>2, <2>3 DEF IInv, Types, Restart, IsStore
<1>2. StoreInv'
  BY DEF IInv, StoreInv, Synced, DiskBehind, KeysRecorded, RecordsExplained, OncePerKey, Restart
<1>3. CallInv' /\ OneCallPerKey'
  BY DEF Restart, CallInv, InFlight, OneCallPerKey, Idle
<1>4. ToldInv'
  BY DEF IInv, Types, Restart, ToldInv, CarriedOutFor, Idle
<1>5. IntentBeforeAct'
  BY DEF IInv, Restart, IntentBeforeAct
<1> QED BY <1>1, <1>2, <1>3, <1>4, <1>5 DEF IInv

\* The late refusal attaches an object and changes nothing else.
LEMMA RefuseLateStep ==
  ASSUME IInv, NEW c \in Clients, RefuseLate(c)
  PROVE  IInv'
<1>0. Idle \in Coroutines /\ calls' = [calls EXCEPT ![c] = Idle]
  BY DEF Coroutines, RefuseLate
<1>1. /\ mem'.audit = mem.audit /\ mem'.records = mem.records /\ mem'.outbox = mem.outbox
      /\ IsStore(mem')
  <2>1. calls[c].payload \in Payloads
    BY DEF IInv, Types, RefuseLate, Coroutines, Idle
  <2> QED BY <2>1 DEF IInv, Types, RefuseLate, Attached, IsStore
<1>2. Types'
  <2>1. clients' \in [Clients -> [outcome : Outcomes, expected : Nat \cup {NoRevision}]]
    BY DEF IInv, Types, RefuseLate, Told, Outcomes
  <2> QED BY <1>0, <1>1, <2>1 DEF IInv, Types, RefuseLate, IsStore
<1>3. StoreInv' /\ IntentBeforeAct'
  BY <1>1 DEF IInv, RefuseLate, StoreInv, Synced, DiskBehind, KeysRecorded, RecordsExplained,
              OncePerKey, IntentBeforeAct
<1>4. OneCallPerKey'
  BY <1>0, EndingKeepsOneCall DEF IInv, Types
<1>5. CallInv'
  BY <1>0, <1>1 DEF IInv, Types, RefuseLate, CallInv, InFlight, Backed, Idle
<1>6. ToldInv'
  BY <1>0 DEF IInv, Types, RefuseLate, Told, ToldInv, CarriedOutFor, Idle
<1> QED BY <1>2, <1>3, <1>4, <1>5, <1>6 DEF IInv

\* A new intent reaches both stores in one step and changes no other field.
LEMMA PrepareFacts ==
  ASSUME IInv, NEW id \in OperationIds, Prepare(id)
  PROVE  /\ IsStore(mem') /\ IsStore(disk') /\ fresh' \in Nat
         /\ mem'.audit = mem.audit /\ mem'.records = mem.records
         /\ Synced' /\ DiskBehind' /\ disk'.records = mem.records
         /\ disk.audit \subseteq disk'.audit
         /\ DOMAIN disk'.outbox = DOMAIN disk.outbox \cup {id}
         /\ \A i \in DOMAIN disk.outbox : disk'.outbox[i] = disk.outbox[i]
         /\ mem'.outbox[id].payload \in Payloads
<1>1. CASE id \in DOMAIN mem.outbox
  <2>1. mem' = mem /\ disk' = disk /\ fresh' = fresh
    BY <1>1 DEF Prepare
  <2>2. mem.outbox[id].payload \in Payloads
    BY <1>1 DEF IInv, Types, IsStore, Intent
  <2> QED
    BY <1>1, <2>1, <2>2 DEF IInv, Types, StoreInv, Synced, DiskBehind
<1>2. CASE id \notin DOMAIN mem.outbox
  <2> DEFINE box == Put(mem.outbox, id, NewIntent)
  <2>1. /\ DOMAIN box = DOMAIN mem.outbox \cup {id}
        /\ \A i \in DOMAIN mem.outbox : box[i] = mem.outbox[i]
        /\ box[id] = NewIntent
    BY <1>2 DEF Put
  <2>2. NewIntent \in Intent /\ NewIntent.payload \in Payloads
    BY DEF IInv, Types, NewIntent, Intent, Payloads
  <2>3. DOMAIN box \subseteq OperationIds /\ box \in [DOMAIN box -> Intent]
    BY <2>2 DEF IInv, Types, IsStore, Put
  <2> HIDE DEF box
  <2>4. /\ mem' = [mem EXCEPT !.outbox = box]
        /\ disk' = mem' /\ fresh' = fresh + 1
    BY <1>2 DEF Prepare, box
  <2>5. /\ IsStore(mem') /\ mem'.outbox = box
        /\ mem'.audit = mem.audit /\ mem'.records = mem.records
    BY <2>3, <2>4 DEF IInv, Types, IsStore
  <2> QED
    BY <2>1, <2>2, <2>4, <2>5 DEF IInv, Types, StoreInv, Synced, DiskBehind
<1> QED BY <1>1, <1>2

LEMMA CallAdapterStep ==
  ASSUME IInv, NEW c \in Clients, CallAdapter(c)
  PROVE  IInv'
<1> DEFINE id == OperationId(c)
           call == [phase |-> "calling", id |-> id,
                    payload |-> mem'.outbox[id].payload, before |-> mem.state]
<1>1. id \in OperationIds /\ id.key = Key(c) /\ id.request = Request(c)
  BY ClientFacts DEF IInv, Types, IsStore, OperationId, OperationIds
<1>2. Prepare(id) /\ calls' = [calls EXCEPT ![c] = call] /\ effects' = effects /\ faults' = faults
  BY DEF CallAdapter
<1> HIDE DEF id
<1>3. /\ IsStore(mem') /\ IsStore(disk') /\ fresh' \in Nat
      /\ mem'.audit = mem.audit /\ mem'.records = mem.records
      /\ Synced' /\ DiskBehind' /\ disk'.records = mem.records
      /\ disk.audit \subseteq disk'.audit
      /\ DOMAIN disk'.outbox = DOMAIN disk.outbox \cup {id}
      /\ \A i \in DOMAIN disk.outbox : disk'.outbox[i] = disk.outbox[i]
      /\ mem'.outbox[id].payload \in Payloads
  BY <1>1, <1>2, PrepareFacts
<1>4. call \in Coroutines /\ call # Idle
  BY <1>1, <1>3 DEF Coroutines, IInv, Types, IsStore, Idle
<1>5. Types'
  BY <1>2, <1>3, <1>4 DEF IInv, Types, CallAdapter, Outcomes
<1>6. StoreInv'
  BY <1>3 DEF IInv, StoreInv, Synced, KeysRecorded, RecordsExplained, OncePerKey
<1>7. IntentBeforeAct'
  BY <1>2, <1>3 DEF IInv, IntentBeforeAct
<1>8. OneCallPerKey'
  BY <1>2, SendKeepsOneCall DEF IInv, Types, CallAdapter
<1>9. CallInv'
  <2> SUFFICES ASSUME NEW d \in Clients, InFlight(d)' PROVE Backed(d)'
    BY DEF CallInv
  <2>1. CASE d = c
    <3>1. calls'[d] = call
      BY <1>2, <2>1 DEF IInv, Types
    <3>2. Key(c) \notin DOMAIN mem.records
      BY DEF CallAdapter, Admitted, HasRecord
    <3>3. call.id = id /\ call.payload = mem'.outbox[id].payload
      OBVIOUS
    <3> HIDE DEF call
    <3> QED BY <1>1, <1>3, <2>1, <3>1, <3>2, <3>3 DEF Backed, Synced
  <2>2. CASE d # c
    BY <1>2, <1>3, <2>2 DEF IInv, Types, CallInv, InFlight, Backed
  <2> QED BY <2>1, <2>2
<1>10. ToldInv'
  <2>1. call.phase # "returned"
    OBVIOUS
  <2>2. \A d \in Clients : CarriedOutFor(disk, d) => CarriedOutFor(disk', d)
    BY <1>3 DEF CarriedOutFor
  <2>3. \A d \in Clients : CarriedOutFor(disk', d) = CarriedOutFor(disk, d)'
    BY DEF CarriedOutFor, Key, Request
  <2> HIDE DEF call
  <2> QED BY <1>2, <2>1, <2>2, <2>3 DEF IInv, Types, CallAdapter, ToldInv, Key, Op
<1> QED BY <1>5, <1>6, <1>7, <1>8, <1>9, <1>10 DEF IInv

\* A commit of a request whose key has no record yet, on a store that differs
\* from mem at most in what is attached to the task.
LEMMA CommitFacts ==
  ASSUME IInv, NEW c \in Clients, NEW b, IsStore(b), NEW id \in OperationIds,
         b.audit = mem.audit, b.records = mem.records, b.outbox = mem.outbox,
         id.key = Key(c), id.request = Request(c),
         SerialKeys => Key(c) \notin DOMAIN mem.records,
         mem' = Committed(b, c, id),
         disk' = IF FlushesOnCommit(mem, c, id) THEN mem' ELSE disk
  PROVE  /\ IsStore(mem') /\ IsStore(disk')
         /\ StoreInv'
         /\ Key(c) # NoKey \/ id \in DOMAIN mem.outbox => CarriedOutFor(disk', c)
         /\ disk.audit \subseteq disk'.audit
         /\ DOMAIN mem'.records \subseteq DOMAIN mem.records \cup {Key(c)}
         /\ Key(c) = NoKey => mem'.records = mem.records
         /\ DOMAIN disk'.outbox = DOMAIN disk.outbox
         /\ \A i \in DOMAIN disk.outbox : disk'.outbox[i].payload = disk.outbox[i].payload
<1> DEFINE entry == [client |-> c, id |-> id, after |-> b.revision + 1]
           flushes == FlushesOnCommit(mem, c, id)
<1>1. /\ mem'.audit = mem.audit \cup {entry}
      /\ mem'.records = Recorded(mem.records, c, b.revision + 1)
      /\ mem'.outbox = Settled(mem.outbox, id)
      /\ IsStore(mem')
  BY CommittedFields
<1>2. entry.id.key = Key(c) /\ entry.id.request = Request(c) /\ entry.client = c
  OBVIOUS
<1>3. IsStore(disk')
  BY <1>1 DEF IInv, Types
<1>4. /\ DOMAIN mem'.outbox = DOMAIN mem.outbox
      /\ \A i \in DOMAIN mem.outbox : mem'.outbox[i].payload = mem.outbox[i].payload
  BY <1>1, SettledFacts
<1>5. ~flushes => /\ Key(c) = NoKey
                  /\ mem'.records = mem.records /\ mem'.outbox = mem.outbox
                  /\ disk' = disk
  BY <1>1 DEF FlushesOnCommit, Recorded, Settled
<1>6. flushes => disk' = mem'
  OBVIOUS
<1>7. /\ DOMAIN mem'.records = DOMAIN mem.records \cup (IF Key(c) = NoKey THEN {} ELSE {Key(c)})
      /\ \A k \in DOMAIN mem.records : k # Key(c) => mem'.records[k] = mem.records[k]
      /\ Key(c) # NoKey => mem'.records[Key(c)].request = Request(c)
  BY <1>1 DEF Recorded, Put
<1>8. Key(c) = NoKey => mem'.records = mem.records
  BY <1>1 DEF Recorded
<1> HIDE DEF entry, flushes
<1>9. Synced' /\ DiskBehind'
  BY <1>1, <1>5, <1>6 DEF IInv, StoreInv, Synced, DiskBehind
<1>10. KeysRecorded'
  BY <1>1, <1>2, <1>7 DEF IInv, StoreInv, KeysRecorded
<1>11. RecordsExplained'
  <2>1. CASE ~flushes
    BY <1>5, <2>1 DEF IInv, StoreInv, RecordsExplained
  <2>2. CASE flushes
    <3> SUFFICES ASSUME NEW k \in DOMAIN mem'.records
                 PROVE  \E e \in mem'.audit : /\ e.id.key = k
                                             /\ e.id.request = mem'.records[k].request
      BY <1>6, <2>2 DEF RecordsExplained
    <3>1. CASE k = Key(c) /\ Key(c) # NoKey
      BY <1>1, <1>2, <1>7, <3>1
    <3>2. CASE k # Key(c)
      <4>1. k \in DOMAIN disk.records /\ mem'.records[k] = disk.records[k]
        BY <1>7, <3>2 DEF IInv, StoreInv, Synced
      <4> QED
        BY <1>1, <4>1 DEF IInv, StoreInv, RecordsExplained, DiskBehind
    <3>3. CASE k = Key(c) /\ Key(c) = NoKey
      BY <1>8, <3>3, OutboxConstants DEF IInv, Types, IsStore
    <3> QED BY <3>1, <3>2, <3>3
  <2> QED BY <2>1, <2>2
<1>12. SerialKeys => OncePerKey(mem)'
  <2> SUFFICES ASSUME SerialKeys, NEW e \in mem'.audit, NEW f \in mem'.audit,
                      e.id.key = f.id.key, e.id.key # NoKey
               PROVE  e = f
    BY DEF OncePerKey
  <2>1. Key(c) # NoKey => \A g \in mem.audit : g.id.key # Key(c)
    BY DEF IInv, StoreInv, KeysRecorded
  <2>2. CASE e \in mem.audit /\ f \in mem.audit
    BY <2>2 DEF IInv, StoreInv, OncePerKey
  <2> QED BY <1>1, <1>2, <2>1, <2>2
<1>13. StoreInv'
  BY <1>9, <1>10, <1>11, <1>12 DEF StoreInv
<1>14. Key(c) # NoKey \/ id \in DOMAIN mem.outbox => CarriedOutFor(disk', c)
  <2> SUFFICES ASSUME Key(c) # NoKey \/ id \in DOMAIN mem.outbox
               PROVE  CarriedOutFor(disk', c)
    OBVIOUS
  <2>1. disk' = mem'
    BY <1>6 DEF flushes, FlushesOnCommit
  <2>2. entry \in disk'.audit
    BY <1>1, <2>1
  <2> QED BY <1>2, <2>2 DEF CarriedOutFor
<1>15. disk.audit \subseteq disk'.audit
  BY <1>1, <1>5, <1>6 DEF IInv, StoreInv, DiskBehind
<1>16. /\ DOMAIN disk'.outbox = DOMAIN disk.outbox
       /\ \A i \in DOMAIN disk.outbox : disk'.outbox[i].payload = disk.outbox[i].payload
  BY <1>4, <1>5, <1>6 DEF IInv, StoreInv, Synced
<1> QED
  BY <1>1, <1>3, <1>7, <1>8, <1>13, <1>14, <1>15, <1>16

\* The coroutines of other clients are still backed after such a commit: none
\* of them holds the same key.
LEMMA CommitKeepsOthers ==
  ASSUME IInv, NEW c \in Clients, NEW d \in Clients, d # c, InFlight(d),
         SerialKeys /\ Key(c) # NoKey => Key(d) # Key(c),
         calls' = [calls EXCEPT ![c] = [phase |-> "returned"]],
         DOMAIN mem'.records \subseteq DOMAIN mem.records \cup {Key(c)},
         Key(c) = NoKey => mem'.records = mem.records,
         DOMAIN disk'.outbox = DOMAIN disk.outbox,
         \A i \in DOMAIN disk.outbox : disk'.outbox[i].payload = disk.outbox[i].payload
  PROVE  Backed(d)'
<1>1. Backed(d) /\ calls'[d] = calls[d]
  BY DEF IInv, Types, CallInv
<1>2. SerialKeys => Key(d) \notin DOMAIN mem'.records
  BY <1>1 DEF Backed
<1> QED
  BY <1>1, <1>2 DEF Backed, Key, Request

\* Everything but the one-call rule follows for both committing actions.
LEMMA CommitKeepsIInv ==
  ASSUME IInv, NEW c \in Clients, NEW b, IsStore(b), NEW id \in OperationIds,
         b.audit = mem.audit, b.records = mem.records, b.outbox = mem.outbox,
         id.key = Key(c), id.request = Request(c),
         SerialKeys => Key(c) \notin DOMAIN mem.records,
         CallsAdapter(Op(c)) => id \in DOMAIN mem.outbox,
         \A d \in Clients : d # c /\ InFlight(d) /\ SerialKeys /\ Key(c) # NoKey
                              => Key(d) # Key(c),
         mem' = Committed(b, c, id),
         disk' = IF FlushesOnCommit(mem, c, id) THEN mem' ELSE disk,
         calls' = [calls EXCEPT ![c] = [phase |-> "returned"]],
         clients' \in [Clients -> [outcome : Outcomes, expected : Nat \cup {NoRevision}]],
         \A d \in Clients : clients'[d].outcome = "ok" => clients[d].outcome = "ok",
         UNCHANGED <<effects, fresh, faults>>, OneCallPerKey'
  PROVE  IInv'
<1>1. /\ IsStore(mem') /\ IsStore(disk')
      /\ StoreInv'
      /\ Key(c) # NoKey \/ id \in DOMAIN mem.outbox => CarriedOutFor(disk', c)
      /\ disk.audit \subseteq disk'.audit
      /\ DOMAIN mem'.records \subseteq DOMAIN mem.records \cup {Key(c)}
      /\ Key(c) = NoKey => mem'.records = mem.records
      /\ DOMAIN disk'.outbox = DOMAIN disk.outbox
      /\ \A i \in DOMAIN disk.outbox : disk'.outbox[i].payload = disk.outbox[i].payload
  BY CommitFacts
<1>2. Types'
  <2>1. [phase |-> "returned"] \in Coroutines
    BY DEF Coroutines
  <2>2. calls' \in [Clients -> Coroutines]
    BY <2>1 DEF IInv, Types
  <2> QED BY <1>1, <2>2 DEF IInv, Types
<1>3. CallInv'
  <2> SUFFICES ASSUME NEW d \in Clients, InFlight(d)' PROVE Backed(d)'
    BY DEF CallInv
  <2>1. d # c /\ InFlight(d)
    BY DEF IInv, Types, InFlight
  <2> QED BY <1>1, <2>1, CommitKeepsOthers
<1>4. ToldInv'
  <2>1. \A d \in Clients : CarriedOutFor(disk, d) => CarriedOutFor(disk', d)
    BY <1>1 DEF CarriedOutFor
  <2>2. \A d \in Clients : CarriedOutFor(disk', d) = CarriedOutFor(disk, d)'
    BY DEF CarriedOutFor, Key, Request
  <2> SUFFICES ASSUME NEW d \in Clients,
                      calls'[d].phase = "returned" \/ clients'[d].outcome = "ok",
                      Key(d) # NoKey \/ CallsAdapter(Op(d))
               PROVE  CarriedOutFor(disk', d)
    BY <2>2 DEF ToldInv, Key, Op, Request
  <2>3. CASE d = c
    BY <1>1, <2>3
  <2>4. CASE d # c
    BY <2>1, <2>4 DEF IInv, Types, ToldInv
  <2> QED BY <2>3, <2>4
<1>5. IntentBeforeAct'
  BY <1>1 DEF IInv, IntentBeforeAct
<1> QED BY <1>1, <1>2, <1>3, <1>4, <1>5 DEF IInv

LEMMA RunLocalStep ==
  ASSUME IInv, NEW c \in Clients, RunLocal(c)
  PROVE  IInv'
<1> DEFINE id == OperationId(c)
<1>1. id \in OperationIds /\ id.key = Key(c) /\ id.request = Request(c)
  BY ClientFacts DEF IInv, Types, IsStore, OperationId, OperationIds
<1>2. /\ mem' = Committed(mem, c, id)
      /\ disk' = IF FlushesOnCommit(mem, c, id) THEN mem' ELSE disk
      /\ Key(c) \notin DOMAIN mem.records
      /\ ~CallsAdapter(Op(c))
  BY DEF RunLocal, Admitted, HasRecord
<1> HIDE DEF id
<1>3. OneCallPerKey'
  BY SendKeepsOneCall DEF IInv, Types, RunLocal
<1>4. \A d \in Clients : d # c /\ InFlight(d) /\ SerialKeys /\ Key(c) # NoKey => Key(d) # Key(c)
  BY DEF RunLocal, Sends, InFlight, Idle
<1>5. /\ clients' \in [Clients -> [outcome : Outcomes, expected : Nat \cup {NoRevision}]]
      /\ \A d \in Clients : clients'[d].outcome = "ok" => clients[d].outcome = "ok"
  BY DEF IInv, Types, RunLocal, Outcomes
<1>6. IsStore(mem)
  BY DEF IInv, Types
<1>7. calls' = [calls EXCEPT ![c] = [phase |-> "returned"]] /\ UNCHANGED <<effects, fresh, faults>>
  BY DEF RunLocal
<1> QED
  BY <1>1, <1>2, <1>3, <1>4, <1>5, <1>6, <1>7, CommitKeepsIInv

LEMMA CommitStep ==
  ASSUME IInv, NEW c \in Clients, Commit(c)
  PROVE  IInv'
<1> DEFINE id == calls[c].id
           b == Attached(c)
<1>1. /\ calls[c] \in [phase : {"calling", "acted"}, id : OperationIds,
                        payload : Payloads, before : TaskState]
      /\ calls[c] # Idle
      /\ InFlight(c)
  BY DEF IInv, Types, Commit, Coroutines, Idle, InFlight
<1>2. Backed(c)
  BY <1>1 DEF IInv, CallInv
<1>3. /\ id \in OperationIds /\ id.key = Key(c) /\ id.request = Request(c)
      /\ SerialKeys => Key(c) \notin DOMAIN mem.records
      /\ id \in DOMAIN mem.outbox
  BY <1>1, <1>2 DEF Backed, IInv, StoreInv, Synced
<1>4. /\ IsStore(b) /\ b.audit = mem.audit /\ b.records = mem.records /\ b.outbox = mem.outbox
  <2>1. calls[c].payload \in Payloads
    BY <1>1
  <2> QED BY <2>1 DEF IInv, Types, Attached, IsStore
<1>5. /\ mem' = Committed(b, c, id)
      /\ disk' = IF FlushesOnCommit(mem, c, id) THEN mem' ELSE disk
      /\ calls' = [calls EXCEPT ![c] = [phase |-> "returned"]]
      /\ UNCHANGED <<clients, effects, fresh, faults>>
  BY DEF Commit
<1> HIDE DEF id, b
<1>6. OneCallPerKey'
  BY <1>1, <1>5, GoingOnKeepsOneCall DEF IInv, Types
<1>7. \A d \in Clients : d # c /\ InFlight(d) /\ SerialKeys /\ Key(c) # NoKey => Key(d) # Key(c)
  BY <1>1 DEF IInv, OneCallPerKey, InFlight, Idle
<1>8. /\ clients' \in [Clients -> [outcome : Outcomes, expected : Nat \cup {NoRevision}]]
      /\ \A d \in Clients : clients'[d].outcome = "ok" => clients[d].outcome = "ok"
  BY <1>5 DEF IInv, Types
<1> QED
  BY <1>3, <1>4, <1>5, <1>6, <1>7, <1>8, CommitKeepsIInv
-----------------------------------------------------------------------------
\* The theorems.

LEMMA NextKeepsIInv == IInv /\ [Next]_vars => IInv'
<1> SUFFICES ASSUME IInv, [Next]_vars PROVE IInv'
  OBVIOUS
<1>1. CASE UNCHANGED vars
  <2>1. Types'
    BY <1>1 DEF IInv, Types, vars, IsStore
  <2>2. StoreInv' /\ IntentBeforeAct'
    BY <1>1, StoresKept DEF IInv, vars, IntentBeforeAct
  <2>3. CallInv' /\ OneCallPerKey' /\ ToldInv'
    BY <1>1 DEF IInv, vars, CallInv, InFlight, Backed, OneCallPerKey, ToldInv, CarriedOutFor
  <2> QED BY <2>1, <2>2, <2>3 DEF IInv
<1>2. CASE Restart
  BY <1>2, RestartStep
<1>3. ASSUME NEW c \in Clients,
             ReadRevision(c) \/ Handle(c) \/ AdapterFails(c) \/ GiveUp(c)
      PROVE  IInv'
  <2>1. CASE ReadRevision(c) BY <2>1, ReadRevisionStep
  <2>2. CASE AdapterFails(c) BY <2>2, AdapterFailsStep
  <2>3. CASE GiveUp(c) BY <2>3, GiveUpStep
  <2>4. CASE Handle(c)
    <3>1. CASE Replay(c) BY <3>1, ReplayStep
    <3>2. CASE Refuse(c) BY <3>2, RefuseStep
    <3>3. CASE RunLocal(c) BY <3>3, RunLocalStep
    <3>4. CASE CallAdapter(c) BY <3>4, CallAdapterStep
    <3>5. CASE Act(c) BY <3>5, ActStep
    <3>6. CASE Commit(c) BY <3>6, CommitStep
    <3>7. CASE RefuseLate(c) BY <3>7, RefuseLateStep
    <3>8. CASE Respond(c) BY <3>8, RespondStep
    <3> QED BY <2>4, <3>1, <3>2, <3>3, <3>4, <3>5, <3>6, <3>7, <3>8 DEF Handle
  <2> QED BY <1>3, <2>1, <2>2, <2>3, <2>4
<1> QED BY <1>1, <1>2, <1>3 DEF Next

LEMMA InvariantHolds == Spec => []IInv
BY InitIInv, NextKeepsIInv, PTL DEF Spec

\* Every value the store, the coroutines and the clients take is of its type.
THEOREM OutboxTypeCorrect == Spec => []TypeOK
<1>1. IInv => TypeOK
  BY DEF IInv, Types, TypeOK
<1> QED BY <1>1, InvariantHolds, PTL

\* Whatever the agent was asked to do is on disk before it is asked
\* (_prepare_adapter_outbox), for any number of clients and any interleaving.
THEOREM AgentActsOnDurableIntent == Spec => []IntentBeforeAct
<1>1. IInv => IntentBeforeAct
  BY DEF IInv
<1> QED BY <1>1, InvariantHolds, PTL

\* No restart undoes what a client with a key, or of an adapter operation, was
\* told (_commit_task_operation flushes before it returns).
THEOREM AnswersAreDurable == Spec => []AnsweredIsDurable
<1>1. IInv => AnsweredIsDurable
  BY DEF IInv, ToldInv, AnsweredIsDurable
<1> QED BY <1>1, InvariantHolds, PTL

\* A key whose calls do not overlap commits at most once, through any number of
\* retries, lost answers and restarts.
THEOREM SerialKeysCommitOnce ==
  ASSUME SerialKeys
  PROVE  Spec => []KeyTakesEffectOnce
<1>1. IInv => KeyTakesEffectOnce
  BY SerialKeys DEF IInv, StoreInv, DiskBehind, OncePerKey, KeyTakesEffectOnce
<1> QED BY <1>1, InvariantHolds, PTL
-----------------------------------------------------------------------------
\* The audit log accounts for the outbox and for the records.

\* A settled intent has an entry in the snapshot; an entry whose operation has
\* an intent settled it; every entry of an adapter operation has one, so a new
\* intent is never of an operation that committed already.
IntentSettled ==
  \A i \in DOMAIN disk.outbox :
    disk.outbox[i].state = "succeeded" => \E e \in disk.audit : e.id = i
CommitSettles ==
  \A e \in mem.audit :
    e.id \in DOMAIN mem.outbox => mem.outbox[e.id].state = "succeeded"
CommitHadIntent ==
  \A e \in mem.audit : CallsAdapter(e.id.request.op) => e.id \in DOMAIN mem.outbox
RecordsDated ==
  \A k \in DOMAIN disk.records :
    \E e \in disk.audit : /\ e.id.key = k
                          /\ e.id.request = disk.records[k].request
                          /\ e.after = disk.records[k].after
LedgerInv == IntentSettled /\ CommitSettles /\ CommitHadIntent /\ RecordsDated

\* Steps that touch none of the three dictionaries.
LEMMA LedgerKept ==
  ASSUME LedgerInv, mem'.audit = mem.audit, mem'.outbox = mem.outbox, disk' = disk
  PROVE  LedgerInv'
BY DEF LedgerInv, IntentSettled, CommitSettles, CommitHadIntent, RecordsDated

LEMMA LedgerRestart ==
  ASSUME IInv, LedgerInv, Restart
  PROVE  LedgerInv'
BY DEF IInv, StoreInv, Synced, DiskBehind, LedgerInv, IntentSettled, CommitSettles,
       CommitHadIntent, RecordsDated, Restart

\* A new intent is pending, and no entry has its id.
LEMMA LedgerCallAdapter ==
  ASSUME IInv, LedgerInv, NEW c \in Clients, CallAdapter(c)
  PROVE  LedgerInv'
<1> DEFINE id == OperationId(c)
<1>1. id.request = Request(c) /\ CallsAdapter(id.request.op) /\ Prepare(id)
  BY DEF CallAdapter, OperationId, Op
<1> HIDE DEF id
<1>2. CASE id \in DOMAIN mem.outbox
  <2>1. mem' = mem /\ disk' = disk
    BY <1>1, <1>2 DEF Prepare
  <2> QED BY <2>1, LedgerKept
<1>3. CASE id \notin DOMAIN mem.outbox
  <2> DEFINE box == Put(mem.outbox, id, NewIntent)
  <2>1. /\ DOMAIN box = DOMAIN mem.outbox \cup {id}
        /\ \A i \in DOMAIN mem.outbox : box[i] = mem.outbox[i]
        /\ box[id].state = "pending"
    BY <1>3 DEF Put, NewIntent
  <2> HIDE DEF box
  <2>2. mem' = [mem EXCEPT !.outbox = box] /\ disk' = mem'
    BY <1>1, <1>3 DEF Prepare, box
  <2>3. mem'.outbox = box /\ mem'.audit = mem.audit /\ mem'.records = mem.records
    BY <2>2 DEF IInv, Types, IsStore
  <2>4. \A e \in mem.audit : e.id # id
    BY <1>1, <1>3 DEF LedgerInv, CommitHadIntent
  <2>5. CommitSettles' /\ CommitHadIntent'
    BY <2>1, <2>3, <2>4 DEF LedgerInv, CommitSettles, CommitHadIntent
  <2>6. IntentSettled'
    <3> SUFFICES ASSUME NEW i \in DOMAIN box, box[i].state = "succeeded"
                 PROVE  \E e \in mem.audit : e.id = i
      BY <2>2, <2>3 DEF IntentSettled
    <3>1. i \in DOMAIN disk.outbox /\ disk.outbox[i].state = "succeeded"
      BY <2>1 DEF IInv, StoreInv, Synced
    <3> QED BY <3>1 DEF LedgerInv, IntentSettled, IInv, StoreInv, DiskBehind
  <2>7. RecordsDated'
    BY <2>2, <2>3 DEF IInv, StoreInv, Synced, DiskBehind, LedgerInv, RecordsDated
  <2> QED BY <2>5, <2>6, <2>7 DEF LedgerInv
<1> QED BY <1>2, <1>3

\* A commit writes the entry, the record and the outcome of the intent
\* together, and flushes whenever it wrote one of the last two.
LEMMA LedgerCommitted ==
  ASSUME IInv, LedgerInv, NEW c \in Clients, NEW b, IsStore(b), NEW id \in OperationIds,
         b.audit = mem.audit, b.records = mem.records, b.outbox = mem.outbox,
         id.key = Key(c), id.request = Request(c),
         CallsAdapter(Op(c)) => id \in DOMAIN mem.outbox,
         mem' = Committed(b, c, id),
         disk' = IF FlushesOnCommit(mem, c, id) THEN mem' ELSE disk
  PROVE  LedgerInv'
<1> DEFINE entry == [client |-> c, id |-> id, after |-> b.revision + 1]
           flushes == FlushesOnCommit(mem, c, id)
<1>1. /\ mem'.audit = mem.audit \cup {entry}
      /\ mem'.records = Recorded(mem.records, c, b.revision + 1)
      /\ mem'.outbox = Settled(mem.outbox, id)
  BY CommittedFields
<1>2. entry.id = id /\ entry.after = b.revision + 1
  OBVIOUS
<1>3. /\ DOMAIN mem'.outbox = DOMAIN mem.outbox
      /\ \A i \in DOMAIN mem.outbox : i # id => mem'.outbox[i] = mem.outbox[i]
      /\ id \in DOMAIN mem.outbox => mem'.outbox[id].state = "succeeded"
  BY <1>1 DEF Settled, Put
<1>4. ~flushes => /\ mem'.records = mem.records /\ mem'.outbox = mem.outbox
                  /\ disk' = disk
  BY <1>1 DEF FlushesOnCommit, Recorded, Settled
<1>5. flushes => disk' = mem'
  OBVIOUS
<1>6. \A k \in DOMAIN mem'.records :
        \/ k \in DOMAIN mem.records /\ mem'.records[k] = mem.records[k]
        \/ k = Key(c) /\ mem'.records[k] = [request |-> Request(c), after |-> b.revision + 1]
  BY <1>1 DEF Recorded, Put
<1> HIDE DEF entry, flushes
<1>7. CommitSettles'
  BY <1>1, <1>2, <1>3 DEF LedgerInv, CommitSettles
<1>8. CommitHadIntent'
  BY <1>1, <1>2, <1>3 DEF LedgerInv, CommitHadIntent, Op
<1>9. IntentSettled'
  <2>1. CASE ~flushes
    BY <1>4, <2>1 DEF LedgerInv, IntentSettled
  <2>2. CASE flushes
    <3> SUFFICES ASSUME NEW i \in DOMAIN mem'.outbox, mem'.outbox[i].state = "succeeded"
                 PROVE  \E e \in mem'.audit : e.id = i
      BY <1>5, <2>2 DEF IntentSettled
    <3>1. CASE i = id
      BY <1>1, <1>2, <3>1
    <3>2. CASE i # id
      <4>1. i \in DOMAIN disk.outbox /\ disk.outbox[i].state = "succeeded"
        BY <1>3, <3>2 DEF IInv, StoreInv, Synced
      <4> QED
        BY <1>1, <4>1 DEF LedgerInv, IntentSettled, IInv, StoreInv, DiskBehind
    <3> QED BY <3>1, <3>2
  <2> QED BY <2>1, <2>2
<1>10. RecordsDated'
  <2>1. CASE ~flushes
    BY <1>4, <2>1 DEF LedgerInv, RecordsDated
  <2>2. CASE flushes
    <3> SUFFICES ASSUME NEW k \in DOMAIN mem'.records
                 PROVE  \E e \in mem'.audit : /\ e.id.key = k
                                             /\ e.id.request = mem'.records[k].request
                                             /\ e.after = mem'.records[k].after
      BY <1>5, <2>2 DEF RecordsDated
    <3>1. CASE k \in DOMAIN mem.records /\ mem'.records[k] = mem.records[k]
      <4>1. k \in DOMAIN disk.records /\ mem'.records[k] = disk.records[k]
        BY <3>1 DEF IInv, StoreInv, Synced
      <4> QED
        BY <1>1, <4>1 DEF LedgerInv, RecordsDated, IInv, StoreInv, DiskBehind
    <3>2. CASE k = Key(c)
               /\ mem'.records[k] = [request |-> Request(c), after |-> b.revision + 1]
      <4>1. entry \in mem'.audit
        BY <1>1
      <4>2. mem'.records[k].request = Request(c) /\ mem'.records[k].after = b.revision + 1
        BY <3>2
      <4> QED BY <1>2, <3>2, <4>1, <4>2
    <3> QED BY <1>6, <3>1, <3>2
  <2> QED BY <2>1, <2>2
<1> QED BY <1>7, <1>8, <1>9, <1>10 DEF LedgerInv

LEMMA LedgerRunLocal ==
  ASSUME IInv, LedgerInv, NEW c \in Clients, RunLocal(c)
  PROVE  LedgerInv'
<1> DEFINE id == OperationId(c)
<1>1. id \in OperationIds /\ id.key = Key(c) /\ id.request = Request(c)
  BY ClientFacts DEF IInv, Types, IsStore, OperationId, OperationIds
<1>2. /\ mem' = Committed(mem, c, id)
      /\ disk' = IF FlushesOnCommit(mem, c, id) THEN mem' ELSE disk
      /\ ~CallsAdapter(Op(c))
      /\ IsStore(mem)
  BY DEF RunLocal, IInv, Types
<1> HIDE DEF id
<1> QED BY <1>1, <1>2, LedgerCommitted

LEMMA LedgerCommit ==
  ASSUME IInv, LedgerInv, NEW c \in Clients, Commit(c)
  PROVE  LedgerInv'
<1> DEFINE id == calls[c].id
           b == Attached(c)
<1>1. /\ calls[c].payload \in Payloads /\ id \in OperationIds
      /\ InFlight(c)
  BY DEF IInv, Types, Commit, Coroutines, Idle, InFlight
<1>2. id.key = Key(c) /\ id.request = Request(c) /\ id \in DOMAIN mem.outbox
  BY <1>1 DEF IInv, CallInv, Backed, StoreInv, Synced
<1>3. IsStore(b) /\ b.audit = mem.audit /\ b.records = mem.records /\ b.outbox = mem.outbox
  BY <1>1 DEF IInv, Types, Attached, IsStore
<1>4. /\ mem' = Committed(b, c, id)
      /\ disk' = IF FlushesOnCommit(mem, c, id) THEN mem' ELSE disk
  BY DEF Commit
<1> HIDE DEF id, b
<1> QED BY <1>1, <1>2, <1>3, <1>4, LedgerCommitted

LEMMA NextKeepsLedger == IInv /\ LedgerInv /\ [Next]_vars => LedgerInv'
<1> SUFFICES ASSUME IInv, LedgerInv, [Next]_vars PROVE LedgerInv'
  OBVIOUS
<1>1. CASE UNCHANGED vars
  BY <1>1, LedgerKept DEF vars
<1>2. CASE Restart
  BY <1>2, LedgerRestart
<1>3. ASSUME NEW c \in Clients,
             ReadRevision(c) \/ Handle(c) \/ AdapterFails(c) \/ GiveUp(c)
      PROVE  LedgerInv'
  <2>1. CASE RunLocal(c)
    BY <2>1, LedgerRunLocal
  <2>2. CASE CallAdapter(c)
    BY <2>2, LedgerCallAdapter
  <2>3. CASE Commit(c)
    BY <2>3, LedgerCommit
  <2>4. CASE RefuseLate(c)
    <3>1. mem'.audit = mem.audit /\ mem'.outbox = mem.outbox /\ disk' = disk
      BY <2>4 DEF RefuseLate, Attached, IInv, Types, IsStore
    <3> QED BY <3>1, LedgerKept
  <2>5. CASE \/ ReadRevision(c) \/ AdapterFails(c) \/ GiveUp(c)
             \/ Replay(c) \/ Refuse(c) \/ Act(c) \/ Respond(c)
    BY <2>5, LedgerKept
       DEF ReadRevision, AdapterFails, GiveUp, Replay, Refuse, Act, Respond
  <2> QED BY <1>3, <2>1, <2>2, <2>3, <2>4, <2>5 DEF Handle
<1> QED BY <1>1, <1>2, <1>3 DEF Next

LEMMA LedgerHolds == Spec => [](IInv /\ LedgerInv)
<1>1. Init => LedgerInv
  BY DEF Init, LedgerInv, IntentSettled, CommitSettles, CommitHadIntent, RecordsDated
<1> QED BY <1>1, NextKeepsLedger, InvariantHolds, PTL DEF Spec

\* An intent is settled exactly when its operation is in the audit log
\* (mark_adapter_outbox_succeeded runs inside the commit), in the running store
\* and in whatever snapshot a restart finds.
THEOREM OutboxAgreesWithAudit == Spec => []OutboxMatchesAudit
<1>1. IInv /\ LedgerInv => OutboxMatchesAudit
  BY DEF IInv, StoreInv, Synced, DiskBehind, LedgerInv, IntentSettled, CommitSettles,
         OutboxMatchesAudit, Settles
<1> QED BY <1>1, LedgerHolds, PTL

\* A replay returns the revision that a commit under its key produced, and a
\* key without a record has committed nothing (_begin_task_operation,
\* _commit_task_operation), before and after any restart.
THEOREM RecordsAgreeWithAudit == Spec => []RecordsMatchAudit
<1>1. IInv /\ LedgerInv => RecordsMatchAudit
  <2> SUFFICES ASSUME IInv, LedgerInv, NEW store \in {mem, disk}, NEW k \in Keys
               PROVE  IF k \notin DOMAIN store.records
                      THEN \A e \in store.audit : e.id.key # k
                      ELSE \E e \in store.audit : /\ e.id.key = k
                                                  /\ e.id.request = store.records[k].request
                                                  /\ e.after = store.records[k].after
    BY DEF RecordsMatchAudit
  <2>1. store.records = disk.records /\ store.records = mem.records
        /\ store.audit \subseteq mem.audit /\ disk.audit \subseteq store.audit
    BY DEF IInv, StoreInv, Synced, DiskBehind
  <2>2. CASE k \notin DOMAIN store.records
    BY <2>1, <2>2, OutboxConstants DEF IInv, StoreInv, KeysRecorded
  <2>3. CASE k \in DOMAIN store.records
    BY <2>1, <2>3 DEF LedgerInv, RecordsDated
  <2> QED BY <2>2, <2>3
<1> QED BY <1>1, LedgerHolds, PTL
-----------------------------------------------------------------------------
\* What pins the operation id of a client that compares and sets.

\* The revision such a client sends is part of the id of every call it makes,
\* so all its attempts have one id.
PinnedId(c) ==
  [key |-> Key(c), request |-> Request(c), revision |-> clients[c].expected]
CasInv ==
  \A c \in CasClients :
    /\ InFlight(c) => calls[c].id = PinnedId(c)
    /\ \A e \in effects : e.client = c => e.id = PinnedId(c)

LEMMA CasKept ==
  ASSUME CasInv, effects' = effects,
         \A c \in CasClients : /\ clients'[c].expected = clients[c].expected
                               /\ InFlight(c)' => InFlight(c) /\ calls'[c].id = calls[c].id
  PROVE  CasInv'
BY DEF CasInv, PinnedId, Key, Request

\* The revision is read once, before the first call.
LEMMA CasReadRevision ==
  ASSUME IInv, CasInv, NEW c \in Clients, ReadRevision(c)
  PROVE  CasInv'
<1> SUFFICES ASSUME NEW d \in CasClients
             PROVE  /\ InFlight(d)' => calls'[d].id = PinnedId(d)'
                    /\ \A e \in effects' : e.client = d => e.id = PinnedId(d)'
  BY DEF CasInv
<1>1. calls' = calls /\ effects' = effects
  BY DEF ReadRevision
<1>2. CASE d # c
  <2>1. clients'[d] = clients[d]
    BY <1>2, OutboxConstants DEF ReadRevision, IInv, Types
  <2> QED BY <1>1, <2>1 DEF CasInv, InFlight, PinnedId, Key, Request
<1>3. CASE d = c
  <2>1. PinnedId(c).revision \notin Nat
    BY DEF ReadRevision, PinnedId, NoRevision
  <2>2. ~InFlight(c)
    <3>1. InFlight(c) => calls[c].id \in OperationIds
      BY DEF IInv, Types, InFlight, Coroutines, Idle
    <3> QED BY <1>3, <2>1, <3>1 DEF CasInv, OperationIds
  <2>3. \A e \in effects : e.client # c
    <3>1. \A e \in effects : e.id \in OperationIds
      BY DEF IInv, Types
    <3> QED BY <1>3, <2>1, <3>1 DEF CasInv, OperationIds
  <2> QED BY <1>1, <1>3, <2>2, <2>3 DEF InFlight
<1> QED BY <1>2, <1>3

\* The call is admitted because the revision is still the one that was sent.
LEMMA CasCallAdapter ==
  ASSUME IInv, CasInv, NEW c \in Clients, CallAdapter(c)
  PROVE  CasInv'
<1> SUFFICES ASSUME NEW d \in CasClients
             PROVE  /\ InFlight(d)' => calls'[d].id = PinnedId(d)'
                    /\ \A e \in effects' : e.client = d => e.id = PinnedId(d)'
  BY DEF CasInv
<1>1. effects' = effects /\ d \in Clients /\ clients'[d].expected = clients[d].expected
  BY OutboxConstants DEF CallAdapter, IInv, Types
<1>2. PinnedId(d)' = PinnedId(d)
  BY <1>1 DEF PinnedId, Key, Request
<1>3. CASE d # c
  <2>1. calls'[d] = calls[d]
    BY <1>1, <1>3 DEF CallAdapter, IInv, Types
  <2> QED BY <1>1, <1>2, <2>1 DEF CasInv, InFlight
<1>4. CASE d = c
  <2>1. calls'[c].id = OperationId(c)
    BY DEF CallAdapter, IInv, Types
  <2>2. OperationId(c) = PinnedId(c)
    BY <1>4 DEF CallAdapter, Admitted, RevisionMatches, OperationId, PinnedId
  <2> QED BY <1>1, <1>2, <1>4, <2>1, <2>2 DEF CasInv
<1> QED BY <1>3, <1>4

LEMMA CasAct ==
  ASSUME IInv, CasInv, NEW c \in Clients, Act(c)
  PROVE  CasInv'
<1> SUFFICES ASSUME NEW d \in CasClients
             PROVE  /\ InFlight(d)' => calls'[d].id = PinnedId(d)'
                    /\ \A e \in effects' : e.client = d => e.id = PinnedId(d)'
  BY DEF CasInv
<1> DEFINE effect == [client |-> c, id |-> calls[c].id, payload |-> calls[c].payload]
<1>1. d \in Clients /\ clients' = clients /\ effects' = effects \cup {effect} /\ InFlight(c)
  BY OutboxConstants DEF Act, InFlight
<1>2. PinnedId(d)' = PinnedId(d)
  BY <1>1 DEF PinnedId, Key, Request
<1>3. calls[c] \in [phase : {"calling", "acted"}, id : OperationIds,
                    payload : Payloads, before : TaskState]
  BY DEF IInv, Types, Act, Coroutines, Idle
<1>4. calls'[d].id = calls[d].id /\ (InFlight(d)' => InFlight(d))
  BY <1>1, <1>3 DEF Act, IInv, Types, InFlight
<1>5. effect.client = c /\ effect.id = calls[c].id
  OBVIOUS
<1> HIDE DEF effect
<1> QED BY <1>1, <1>2, <1>4, <1>5 DEF CasInv

LEMMA NextKeepsCas == IInv /\ CasInv /\ [Next]_vars => CasInv'
<1> SUFFICES ASSUME IInv, CasInv, [Next]_vars PROVE CasInv'
  OBVIOUS
<1>1. CASE UNCHANGED vars
  BY <1>1, CasKept DEF vars, InFlight
<1>2. CASE Restart
  <2>1. \A c \in Clients : /\ clients'[c].expected = clients[c].expected
                           /\ ~InFlight(c)'
    BY <1>2 DEF Restart, IInv, Types, InFlight, Idle
  <2> QED BY <1>2, <2>1, CasKept, OutboxConstants DEF Restart
<1>3. ASSUME NEW c \in Clients,
             ReadRevision(c) \/ Handle(c) \/ AdapterFails(c) \/ GiveUp(c)
      PROVE  CasInv'
  <2>1. CASE ReadRevision(c)
    BY <2>1, CasReadRevision
  <2>2. CASE CallAdapter(c)
    BY <2>2, CasCallAdapter
  <2>3. CASE Act(c)
    BY <2>3, CasAct
  <2>4. CASE Refuse(c) \/ GiveUp(c)
    <3>1. \A d \in Clients : clients'[d].expected = clients[d].expected
      BY <2>4 DEF Refuse, GiveUp, IInv, Types
    <3>2. calls' = calls /\ effects' = effects
      BY <2>4 DEF Refuse, GiveUp
    <3> QED BY <3>1, <3>2, CasKept, OutboxConstants DEF InFlight
  <2>5. CASE \/ Replay(c) \/ RunLocal(c) \/ Commit(c)
             \/ RefuseLate(c) \/ Respond(c) \/ AdapterFails(c)
    <3>1. \A d \in Clients : clients'[d].expected = clients[d].expected
      BY <2>5 DEF Replay, RunLocal, Commit, RefuseLate, Respond, AdapterFails, Told, IInv, Types
    <3>2. \A d \in Clients : InFlight(d)' => calls'[d] = calls[d]
      BY <2>5 DEF Replay, RunLocal, Commit, RefuseLate, Respond, AdapterFails, InFlight, Idle,
                  IInv, Types
    <3>3. effects' = effects
      BY <2>5 DEF Replay, RunLocal, Commit, RefuseLate, Respond, AdapterFails
    <3> QED BY <3>1, <3>2, <3>3, CasKept, OutboxConstants DEF InFlight
  <2> QED BY <1>3, <2>1, <2>2, <2>3, <2>4, <2>5 DEF Handle
<1> QED BY <1>1, <1>2, <1>3 DEF Next

\* A client that sends expected_task_revision gives the agent one payload at
\* every attempt (_adapter_operation_id hashes the revision, and
\* _prepare_adapter_outbox uses the intent that is there).
THEOREM CasRetriesAreSafe == Spec => []CasRetriesReuseIntent
<1>1. Init => CasInv
  BY OutboxConstants DEF Init, CasInv, InFlight, Idle
<1>2. IInv /\ CasInv => CasRetriesReuseIntent
  <2> SUFFICES ASSUME IInv, CasInv, NEW e \in effects, NEW f \in effects,
                      e.client = f.client, e.client \in CasClients
               PROVE  e.payload = f.payload
    BY DEF CasRetriesReuseIntent
  <2>1. e.id = f.id
    BY DEF CasInv
  <2> QED BY <2>1 DEF IInv, IntentBeforeAct
<1> QED BY <1>1, <1>2, NextKeepsCas, InvariantHolds, PTL DEF Spec
-----------------------------------------------------------------------------
\* The refinement of TakesEffectOnce.

\* What was committed under a key is in the snapshot too.
LEMMA KeyedIsDurable ==
  ASSUME SerialKeys, IInv, NEW e \in mem.audit, e.id.key # NoKey
  PROVE  e \in disk.audit
<1>1. PICK f \in disk.audit : f.id.key = e.id.key
  BY DEF IInv, StoreInv, KeysRecorded, Synced, RecordsExplained
<1>2. f \in mem.audit
  BY <1>1 DEF IInv, StoreInv, DiskBehind
<1>3. e = f
  BY <1>1, <1>2 DEF IInv, StoreInv, OncePerKey
<1> QED BY <1>1, <1>3

\* The state functions of the mapping depend on the audit log and on who was
\* told "ok" only.
LEMMA AppliedKept ==
  ASSUME mem'.audit = mem.audit
  PROVE  Applied' = Applied
BY DEF Applied

LEMMA AnsweredKept ==
  ASSUME \A c \in Clients : clients'[c].outcome = "ok" <=> clients[c].outcome = "ok"
  PROVE  Answered' = Answered
BY DEF Answered, Key, Request

\* A commit is an Apply when the call has a key and a stutter otherwise.
LEMMA CommitMaps ==
  ASSUME SerialKeys, IInv, NEW c \in Clients, NEW id, NEW after,
         id.key = Key(c), id.request = Request(c),
         Key(c) \notin DOMAIN mem.records,
         mem'.audit = mem.audit \cup {[client |-> c, id |-> id, after |-> after]},
         Answered' = Answered
  PROVE  [Once!Next]_<<Applied, Answered>>
<1> DEFINE entry == [client |-> c, id |-> id, after |-> after]
           call == <<Key(c), Request(c)>>
<1>0. entry.id.key = Key(c) /\ entry.id.request = Request(c)
  OBVIOUS
<1> HIDE DEF entry
<1>a. mem'.audit = mem.audit \cup {entry}
  BY DEF entry
<1>1. CASE Key(c) = NoKey
  <2>1. {f \in mem'.audit : f.id.key # NoKey} = {f \in mem.audit : f.id.key # NoKey}
    BY <1>0, <1>a, <1>1
  <2>2. Applied' = Applied
    BY <2>1 DEF Applied
  <2> QED BY <2>2
<1>2. CASE Key(c) # NoKey
  <2>1. {f \in mem'.audit : f.id.key # NoKey}
          = {f \in mem.audit : f.id.key # NoKey} \cup {entry}
    BY <1>0, <1>a, <1>2
  <2>2. Applied' = Applied \cup {call}
    BY <1>0, <2>1 DEF Applied
  <2>3. \A other \in Applied : other[1] # call[1]
    <3> SUFFICES ASSUME NEW e \in mem.audit, e.id.key # NoKey
                 PROVE  e.id.key # Key(c)
      BY DEF Applied
    <3> QED BY DEF IInv, StoreInv, KeysRecorded
  <2>4. call \in KeyedCalls
    BY <1>2 DEF KeyedCalls
  <2> HIDE DEF call
  <2> QED BY <2>2, <2>3, <2>4 DEF Once!Next, Once!Apply
<1> QED BY <1>1, <1>2

LEMMA RespondMaps ==
  ASSUME SerialKeys, IInv, NEW c \in Clients, Respond(c)
  PROVE  [Once!Next]_<<Applied, Answered>>
<1> DEFINE call == <<Key(c), Request(c)>>
<1>1. mem' = mem /\ clients' = Told(c, "ok")
  BY DEF Respond
<1>2. Applied' = Applied
  BY <1>1, AppliedKept
<1>3. \A d \in Clients : d # c => clients'[d] = clients[d]
  BY <1>1 DEF Told, IInv, Types
<1>4. CASE Key(c) = NoKey
  <2>1. {d \in Clients : Key(d) # NoKey /\ clients'[d].outcome = "ok"}
          = {d \in Clients : Key(d) # NoKey /\ clients[d].outcome = "ok"}
    BY <1>3, <1>4
  <2>2. Answered' = Answered
    BY <2>1 DEF Answered, Key, Request
  <2> QED BY <1>2, <2>2
<1>5. CASE Key(c) # NoKey /\ clients'[c].outcome # "ok"
  <2>1. clients[c].outcome # "ok"
    BY <1>1, <1>5 DEF Told, IInv, Types
  <2>2. Answered' = Answered
    BY <1>3, <1>5, <2>1, AnsweredKept
  <2> QED BY <1>2, <2>2
<1>6. CASE Key(c) # NoKey /\ clients'[c].outcome = "ok"
  <2>1. {d \in Clients : Key(d) # NoKey /\ clients'[d].outcome = "ok"}
          = {d \in Clients : Key(d) # NoKey /\ clients[d].outcome = "ok"} \cup {c}
    BY <1>3, <1>6
  <2>2. Answered' = Answered \cup {call}
    BY <2>1 DEF Answered, Key, Request
  <2>3. CarriedOutFor(disk, c)
    BY <1>6 DEF Respond, IInv, ToldInv
  <2>4. PICK e \in mem.audit : e.id.request = Request(c) /\ e.id.key = Key(c)
    BY <2>3 DEF CarriedOutFor, IInv, StoreInv, DiskBehind
  <2>5. call \in Applied
    BY <1>6, <2>4 DEF Applied
  <2>6. call \in KeyedCalls
    BY <1>6 DEF KeyedCalls
  <2> HIDE DEF call
  <2> QED BY <1>2, <2>2, <2>5, <2>6 DEF Once!Next, Once!Answer
<1> QED BY <1>4, <1>5, <1>6

\* A restart keeps the audit entries of keyed calls, whose answers stand.
LEMMA RestartMaps ==
  ASSUME SerialKeys, IInv, Restart
  PROVE  UNCHANGED <<Applied, Answered>>
<1>1. mem' = disk
  BY DEF Restart
<1>2. {f \in disk.audit : f.id.key # NoKey} = {f \in mem.audit : f.id.key # NoKey}
  BY KeyedIsDurable DEF IInv, StoreInv, DiskBehind
<1>3. Applied' = Applied
  BY <1>1, <1>2 DEF Applied
<1>4. \A c \in Clients : clients'[c].outcome = "ok" <=> clients[c].outcome = "ok"
  BY DEF Restart, IInv, Types
<1>5. Answered' = Answered
  BY <1>4, AnsweredKept
<1> QED BY <1>3, <1>5

\* Every step of the server is a step of the promise, or a stutter.
LEMMA StepMaps ==
  ASSUME SerialKeys, IInv, [Next]_vars
  PROVE  [Once!Next]_<<Applied, Answered>>
<1>1. CASE Restart
  BY <1>1, RestartMaps
<1>2. CASE UNCHANGED vars
  <2>1. mem' = mem /\ clients' = clients
    BY <1>2 DEF vars
  <2> QED BY <2>1, AppliedKept, AnsweredKept
<1>3. ASSUME NEW c \in Clients,
             ReadRevision(c) \/ Handle(c) \/ AdapterFails(c) \/ GiveUp(c)
      PROVE  [Once!Next]_<<Applied, Answered>>
  <2>0. clients[c] \in [outcome : Outcomes, expected : Nat \cup {NoRevision}]
        /\ clients \in [Clients -> [outcome : Outcomes, expected : Nat \cup {NoRevision}]]
    BY DEF IInv, Types
  <2>1. CASE ReadRevision(c)
    <3>1. mem' = mem /\ \A d \in Clients : clients'[d].outcome = clients[d].outcome
      BY <2>0, <2>1 DEF ReadRevision
    <3> QED BY <3>1, AppliedKept, AnsweredKept
  <2>2. CASE Replay(c)
    <3>1. mem' = mem
      BY <2>2 DEF Replay
    <3>2. \A d \in Clients : clients'[d].outcome = "ok" <=> clients[d].outcome = "ok"
      BY <2>0, <2>2 DEF Replay, Sends
    <3> QED BY <3>1, <3>2, AppliedKept, AnsweredKept
  <2>3. CASE Refuse(c)
    <3>1. mem' = mem
      BY <2>3 DEF Refuse
    <3>2. \A d \in Clients : clients'[d].outcome = "ok" <=> clients[d].outcome = "ok"
      BY <2>0, <2>3 DEF Refuse, Sends
    <3> QED BY <3>1, <3>2, AppliedKept, AnsweredKept
  <2>4. CASE RunLocal(c)
    <3>1. /\ OperationId(c).key = Key(c) /\ OperationId(c).request = Request(c)
          /\ Key(c) \notin DOMAIN mem.records
      BY <2>4 DEF RunLocal, OperationId, Admitted, HasRecord
    <3>2. mem'.audit = mem.audit \cup {[client |-> c, id |-> OperationId(c),
                                        after |-> mem.revision + 1]}
      BY <2>4 DEF RunLocal, Committed, IInv, Types, IsStore
    <3>3. \A d \in Clients : clients'[d].outcome = "ok" <=> clients[d].outcome = "ok"
      BY <2>0, <2>4 DEF RunLocal, Sends
    <3>4. Answered' = Answered
      BY <3>3, AnsweredKept
    <3> QED BY <3>1, <3>2, <3>4, CommitMaps
  <2>5. CASE CallAdapter(c)
    <3>1. mem'.audit = mem.audit
      BY <2>5 DEF CallAdapter, Prepare, IInv, Types, IsStore
    <3>2. \A d \in Clients : clients'[d].outcome = "ok" <=> clients[d].outcome = "ok"
      BY <2>0, <2>5 DEF CallAdapter, Sends
    <3> QED BY <3>1, <3>2, AppliedKept, AnsweredKept
  <2>6. CASE Act(c)
    <3>1. mem' = mem /\ clients' = clients
      BY <2>6 DEF Act
    <3> QED BY <3>1, AppliedKept, AnsweredKept
  <2>7. CASE Commit(c)
    <3>1. InFlight(c) /\ Backed(c)
      BY <2>7 DEF Commit, InFlight, IInv, CallInv
    <3>2. /\ calls[c].id.key = Key(c) /\ calls[c].id.request = Request(c)
          /\ Key(c) \notin DOMAIN mem.records
      BY <3>1 DEF Backed
    <3>3. Attached(c).audit = mem.audit
      BY DEF Attached, IInv, Types, IsStore
    <3>4. mem' = Committed(Attached(c), c, calls[c].id)
      BY <2>7 DEF Commit
    <3>5. mem'.audit = mem.audit \cup {[client |-> c, id |-> calls[c].id,
                                        after |-> Attached(c).revision + 1]}
      BY <3>3, <3>4 DEF Committed, Attached, IInv, Types, IsStore
    <3>6. clients' = clients
      BY <2>7 DEF Commit
    <3>7. Answered' = Answered
      BY <3>6, AnsweredKept
    <3> QED BY <3>2, <3>5, <3>7, CommitMaps
  <2>8. CASE RefuseLate(c)
    <3>1. mem'.audit = mem.audit
      BY <2>8 DEF RefuseLate, Attached, IInv, Types, IsStore
    <3>2. \A d \in Clients : clients'[d].outcome = "ok" <=> clients[d].outcome = "ok"
      BY <2>0, <2>8 DEF RefuseLate, Told
    <3> QED BY <3>1, <3>2, AppliedKept, AnsweredKept
  <2>9. CASE Respond(c)
    BY <2>9, RespondMaps
  <2>10. CASE AdapterFails(c)
    <3>1. mem' = mem
      BY <2>10 DEF AdapterFails
    <3>2. \A d \in Clients : clients'[d].outcome = "ok" <=> clients[d].outcome = "ok"
      BY <2>0, <2>10 DEF AdapterFails, Told
    <3> QED BY <3>1, <3>2, AppliedKept, AnsweredKept
  <2>11. CASE GiveUp(c)
    <3>1. mem' = mem
      BY <2>11 DEF GiveUp
    <3>2. \A d \in Clients : clients'[d].outcome = "ok" <=> clients[d].outcome = "ok"
      BY <2>0, <2>11 DEF GiveUp
    <3> QED BY <3>1, <3>2, AppliedKept, AnsweredKept
  <2> QED
    BY <1>3, <2>1, <2>2, <2>3, <2>4, <2>5, <2>6, <2>7, <2>8, <2>9, <2>10, <2>11
       DEF Handle
<1> QED BY <1>1, <1>2, <1>3 DEF Next

LEMMA InitMaps == Init => Once!Init
BY DEF Init, Once!Init, Applied, Answered

\* When a key is retried one call at a time, the server is an implementation of
\* what an idempotency key promises: _begin_task_operation and
\* _commit_task_operation apply each keyed call once and for good.
THEOREM ServerTakesEffectOnce ==
  ASSUME SerialKeys
  PROVE  Spec => KeysTakeEffectOnce
<1>1. IInv /\ [Next]_vars => [Once!Next]_<<Applied, Answered>>
  BY StepMaps, SerialKeys
<1> QED
  BY <1>1, InitMaps, InvariantHolds, PTL DEF Spec, KeysTakeEffectOnce, Once!Spec
=============================================================================
