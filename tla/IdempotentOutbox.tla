-------------------------- MODULE IdempotentOutbox --------------------------
(***************************************************************************)
(* How one task's operations stay safe to retry                            *)
(* (loops/hlp/operations/_base.py, store.py, sqlite_store.py), served over *)
(* HTTP (transport/server.py) to clients that may lose the answer.         *)
(*                                                                         *)
(* A mutating operation is guarded by three mechanisms: the compare-and-   *)
(* set token expected_task_revision, the idempotency record of its key,    *)
(* and the adapter outbox, in which the adapter request is made durable    *)
(* before the adapter is called.  The server process may stop at any       *)
(* moment and restart from the last snapshot it flushed.                   *)
(*                                                                         *)
(* Each client has one request to make and makes it again until it is      *)
(* answered.  Two clients with the same key and request are two deliveries *)
(* of one logical call.  What the operations do to the task itself is the  *)
(* subject of HLPOperations; here a task is its state, its revision and    *)
(* the objects attached to it.                                             *)
(***************************************************************************)
EXTENDS Integers, TaskStateMachine

CONSTANTS
  Clients,
  Requests,          \* canonical request fingerprints: [op, arg] records
  Keys,              \* idempotency keys
  NoKey,             \* the request carries no idempotency_key
  RequestOf,         \* client -> the request it makes
  KeyOf,             \* client -> its key, or NoKey
  CasClients,        \* the clients that send expected_task_revision
  InitialState,      \* the state of the task when the clients arrive
  SerialKeys,        \* is a key retried only after its earlier call ended?
  MaxFailures,       \* bound: adapter calls that raise
  MaxCrashes,        \* bound: process stops
  MaxGiveUps         \* bound: answers given up on

NoRevision == -1
Operations == {"task.start", "task.amend", "task.interrupt", "artifact.commit"}

ASSUME OutboxConstants ==
  /\ Requests \subseteq [op : Operations, arg : STRING]
  /\ NoKey \notin Keys
  /\ RequestOf \in [Clients -> Requests]
  /\ KeyOf \in [Clients -> Keys \cup {NoKey}]
  /\ CasClients \subseteq Clients
  /\ InitialState \in TaskState
  /\ SerialKeys \in BOOLEAN
  /\ MaxFailures \in Nat /\ MaxCrashes \in Nat /\ MaxGiveUps \in Nat

VARIABLES
  mem,       \* the store of the running process
  disk,      \* the snapshot of it that SQLite holds
  calls,     \* client -> the coroutine that runs its request
  clients,   \* client -> what it has been told
  effects,   \* what the agent has been asked to do, never undone
  fresh,     \* the next unused payload
  faults     \* how much of the fault bounds is used up

vars == <<mem, disk, calls, clients, effects, fresh, faults>>
-----------------------------------------------------------------------------
\* What the store holds.

\* _adapter_operation_id hashes exactly these values.
OperationIds == [key : Keys \cup {NoKey}, request : Requests, revision : Nat]

\* A payload is what an attempt draws anew: the time stamp of an amendment or
\* the id of a checkpoint.
Payloads == Nat

Intent == [payload : Payloads, state : {"pending", "succeeded"}]
AuditEntry == [client : Clients, id : OperationIds, after : Nat]
IdempotencyRecord == [request : Requests, after : Nat]

\* attached stands for the steering log and the checkpoints, audit has one
\* entry per committed operation; records and outbox are dictionaries.
IsStore(store) ==
  /\ store \in [state : TaskState, revision : Nat, attached : SUBSET Payloads,
                audit : SUBSET AuditEntry, records : {store.records},
                outbox : {store.outbox}]
  /\ DOMAIN store.records \subseteq Keys
  /\ store.records \in [DOMAIN store.records -> IdempotencyRecord]
  /\ DOMAIN store.outbox \subseteq OperationIds
  /\ store.outbox \in [DOMAIN store.outbox -> Intent]

Idle == [phase |-> "idle"]

\* before is the task state the handler read when the call began.
Coroutines ==
  {Idle} \cup
  [phase : {"calling", "acted"}, id : OperationIds, payload : Payloads,
   before : TaskState]
  \cup [phase : {"returned"}]

Outcomes == {"unsent", "waiting", "lost", "refused", "ok"}

Key(c) == KeyOf[c]
Request(c) == RequestOf[c]
Op(c) == Request(c).op
-----------------------------------------------------------------------------
\* What the operations require and do.

Accepts(op, state) ==
  CASE op = "task.start"      -> state = "assigned"
    [] op = "task.amend"      -> state \in {"in_progress", "blocked"}
    [] op = "task.interrupt"  -> state = "in_progress"
    [] op = "artifact.commit" -> state = "in_progress"

Target(op, state) ==
  CASE op = "task.start"      -> "in_progress"
    [] op = "task.amend"      -> state
    [] op = "task.interrupt"  -> "blocked"
    [] op = "artifact.commit" -> "review_ready"

\* The task has a run, as every task past created has.
CallsAdapter(op) == op \in {"task.amend", "task.interrupt"}

\* The check a handler makes after its await: an amendment must find the state
\* it left, an interrupt a state that may become blocked.
StillApplies(op, before, now) ==
  IF op = "task.amend" THEN now = before
                       ELSE LegalTransition(now, Target(op, now))

OperationId(c) == [key |-> Key(c), request |-> Request(c),
                   revision |-> mem.revision]

\* A dictionary after d[x] = v.
Put(d, x, v) == [y \in DOMAIN d \cup {x} |-> IF y = x THEN v ELSE d[y]]

\* The idempotency record of a keyed call; the outcome of an outbox intent.
Recorded_RevisionBefore(records, c, after) ==
  IF Key(c) = NoKey THEN records
  ELSE Put(records, Key(c), [request |-> Request(c), after |-> after - 1])
Recorded(records, c, after) ==
  IF Key(c) = NoKey THEN records
  ELSE Put(records, Key(c), [request |-> Request(c), after |-> after])
Settled_Skipped(outbox, id) == outbox
Settled(outbox, id) ==
  IF id \notin DOMAIN outbox THEN outbox
  ELSE Put(outbox, id, [payload |-> outbox[id].payload, state |-> "succeeded"])

\* _commit_task_operation, with the state change and the audit entry before it.
Committed_NoRecord(store, c, id) ==
  [store EXCEPT
     !.state = Target(Op(c), @),
     !.revision = @ + 1,
     !.audit = @ \cup {[client |-> c, id |-> id, after |-> store.revision + 1]},
     !.outbox = Settled(@, id)]
Committed(store, c, id) ==
  [store EXCEPT
     !.state = Target(Op(c), @),
     !.revision = @ + 1,
     !.audit = @ \cup {[client |-> c, id |-> id, after |-> store.revision + 1]},
     !.records = Recorded(@, c, store.revision + 1),
     !.outbox = Settled(@, id)]

\* The commit flushes when it wrote a record or settled an intent.  The HTTP
\* server calls the operations without the client SDK, which would flush after
\* every mutation.
FlushesOnCommit_IntentsOnly(store, c, id) == id \in DOMAIN store.outbox
FlushesOnCommit(store, c, id) == Key(c) # NoKey \/ id \in DOMAIN store.outbox

\* _prepare_adapter_outbox: an intent that is already there is used as it is,
\* a new one is flushed before the adapter is called.
NewIntent == [payload |-> fresh, state |-> "pending"]
Prepare_Overwrites(id) ==
  /\ mem' = [mem EXCEPT !.outbox = Put(@, id, NewIntent)]
  /\ disk' = mem'
  /\ fresh' = fresh + 1
Prepare_NotFlushed(id) ==
  IF id \in DOMAIN mem.outbox
  THEN UNCHANGED <<mem, disk, fresh>>
  ELSE /\ mem' = [mem EXCEPT !.outbox = Put(@, id, NewIntent)]
       /\ fresh' = fresh + 1
       /\ UNCHANGED disk
Prepare(id) ==
  IF id \in DOMAIN mem.outbox
  THEN UNCHANGED <<mem, disk, fresh>>
  ELSE /\ mem' = [mem EXCEPT !.outbox = Put(@, id, NewIntent)]
       /\ disk' = mem'
       /\ fresh' = fresh + 1
-----------------------------------------------------------------------------
Init ==
  /\ mem = [state |-> InitialState, revision |-> 0, attached |-> {},
            audit |-> {}, records |-> << >>, outbox |-> << >>]
  /\ disk = mem
  /\ calls = [c \in Clients |-> Idle]
  /\ clients = [c \in Clients |-> [outcome |-> "unsent", expected |-> NoRevision]]
  /\ effects = {}
  /\ fresh = 0
  /\ faults = [failures |-> 0, crashes |-> 0, giveUps |-> 0]

\* task.get, before a client that compares and sets sends its request.  A
\* retry sends the revision of the first attempt again.
ReadRevision(c) ==
  /\ c \in CasClients
  /\ clients[c].expected = NoRevision
  /\ clients' = [clients EXCEPT ![c].expected = mem.revision]
  /\ UNCHANGED <<mem, disk, calls, effects, fresh, faults>>

\* The client sends its request, or sends it again after it lost the answer.
Sends(c) ==
  /\ clients[c].outcome \in {"unsent", "lost"}
  /\ calls[c] = Idle
  /\ c \in CasClients => clients[c].expected # NoRevision
  /\ SerialKeys /\ Key(c) # NoKey =>
       \A d \in Clients \ {c} : Key(d) = Key(c) => calls[d] = Idle

HasRecord(c) == Key(c) \in DOMAIN mem.records
SameRequest(c) == mem.records[Key(c)].request = Request(c)
RevisionMatches(c) == c \in CasClients => clients[c].expected = mem.revision

\* _begin_task_operation and the precondition of the handler let it through.
Admitted(c) ==
  /\ ~HasRecord(c)
  /\ RevisionMatches(c)
  /\ Accepts(Op(c), mem.state)

\* The answer of the first call with this key is returned again.
Replay(c) ==
  /\ Sends(c) /\ HasRecord(c) /\ SameRequest(c)
  /\ calls' = [calls EXCEPT ![c] = [phase |-> "returned"]]
  /\ clients' = [clients EXCEPT ![c].outcome = "waiting"]
  /\ UNCHANGED <<mem, disk, effects, fresh, faults>>

\* CONFLICT, of the key or of the revision, or PRECONDITION_FAILED.
Refuse(c) ==
  /\ Sends(c)
  /\ IF HasRecord(c) THEN ~SameRequest(c) ELSE ~Admitted(c)
  /\ clients' = [clients EXCEPT ![c].outcome = "refused"]
  /\ UNCHANGED <<mem, disk, calls, effects, fresh, faults>>

\* An operation without an adapter call runs from start to end.
RunLocal(c) ==
  /\ Sends(c) /\ Admitted(c) /\ ~CallsAdapter(Op(c))
  /\ mem' = Committed(mem, c, OperationId(c))
  /\ disk' = IF FlushesOnCommit(mem, c, OperationId(c)) THEN mem' ELSE disk
  /\ calls' = [calls EXCEPT ![c] = [phase |-> "returned"]]
  /\ clients' = [clients EXCEPT ![c].outcome = "waiting"]
  /\ UNCHANGED <<effects, fresh, faults>>

\* An operation with an adapter call runs up to the await.
CallAdapter(c) ==
  /\ Sends(c) /\ Admitted(c) /\ CallsAdapter(Op(c))
  /\ Prepare(OperationId(c))
  /\ calls' = [calls EXCEPT ![c] =
                 [phase |-> "calling", id |-> OperationId(c),
                  payload |-> mem'.outbox[OperationId(c)].payload,
                  before |-> mem.state]]
  /\ clients' = [clients EXCEPT ![c].outcome = "waiting"]
  /\ UNCHANGED <<effects, faults>>

\* The agent does what it is asked to: nothing undoes this step.
Act(c) ==
  /\ calls[c].phase = "calling"
  /\ effects' = effects \cup {[client |-> c, id |-> calls[c].id,
                               payload |-> calls[c].payload]}
  /\ calls' = [calls EXCEPT ![c].phase = "acted"]
  /\ UNCHANGED <<mem, disk, clients, fresh, faults>>

\* What a client learns when its call ends: nothing, if it gave up before.
Told(c, outcome) ==
  [clients EXCEPT ![c].outcome = IF @ = "waiting" THEN outcome ELSE @]

\* The adapter raises, before or after the agent acted.
AdapterFails_Hangs(c) ==
  /\ calls[c].phase \in {"calling", "acted"}
  /\ faults.failures < MaxFailures
  /\ clients' = Told(c, "lost")
  /\ calls' = [calls EXCEPT ![c].phase = "hung"]
  /\ faults' = [faults EXCEPT !.failures = @ + 1]
  /\ UNCHANGED <<mem, disk, effects, fresh>>
AdapterFails(c) ==
  /\ calls[c].phase \in {"calling", "acted"}
  /\ faults.failures < MaxFailures
  /\ clients' = Told(c, "lost")
  /\ calls' = [calls EXCEPT ![c] = Idle]
  /\ faults' = [faults EXCEPT !.failures = @ + 1]
  /\ UNCHANGED <<mem, disk, effects, fresh>>

\* The handler attaches its amendment or checkpoint before it checks the state
\* again: when that check fails the object stays, uncommitted.
Attached(c) == [mem EXCEPT !.attached = @ \cup {calls[c].payload}]

Commit(c) ==
  /\ calls[c].phase = "acted"
  /\ StillApplies(Op(c), calls[c].before, mem.state)
  /\ mem' = Committed(Attached(c), c, calls[c].id)
  /\ disk' = IF FlushesOnCommit(mem, c, calls[c].id) THEN mem' ELSE disk
  /\ calls' = [calls EXCEPT ![c] = [phase |-> "returned"]]
  /\ UNCHANGED <<clients, effects, fresh, faults>>

RefuseLate(c) ==
  /\ calls[c].phase = "acted"
  /\ ~StillApplies(Op(c), calls[c].before, mem.state)
  /\ mem' = Attached(c)
  /\ calls' = [calls EXCEPT ![c] = Idle]
  /\ clients' = Told(c, "refused")
  /\ UNCHANGED <<disk, effects, fresh, faults>>

\* The handler thread sends the result.
Respond(c) ==
  /\ calls[c].phase = "returned"
  /\ calls' = [calls EXCEPT ![c] = Idle]
  /\ clients' = Told(c, "ok")
  /\ UNCHANGED <<mem, disk, effects, fresh, faults>>

\* run_op's deadline, or the client's own, passes.  The coroutine goes on.
GiveUp(c) ==
  /\ clients[c].outcome = "waiting"
  /\ faults.giveUps < MaxGiveUps
  /\ clients' = [clients EXCEPT ![c].outcome = "lost"]
  /\ faults' = [faults EXCEPT !.giveUps = @ + 1]
  /\ UNCHANGED <<mem, disk, calls, effects, fresh>>

\* The process stops, by a crash or by HLPHttpServer.stop, and a new one loads
\* the snapshot.
Restart ==
  /\ faults.crashes < MaxCrashes
  /\ mem' = disk
  /\ calls' = [c \in Clients |-> Idle]
  /\ clients' = [c \in Clients |->
                   [clients[c] EXCEPT !.outcome =
                      IF @ = "waiting" THEN "lost" ELSE @]]
  /\ faults' = [faults EXCEPT !.crashes = @ + 1]
  /\ UNCHANGED <<disk, effects, fresh>>

Handle(c) ==
  \/ Replay(c) \/ Refuse(c) \/ RunLocal(c) \/ CallAdapter(c)
  \/ Act(c) \/ Commit(c) \/ RefuseLate(c) \/ Respond(c)

Next ==
  \/ \E c \in Clients : ReadRevision(c) \/ Handle(c) \/ AdapterFails(c) \/ GiveUp(c)
  \/ Restart

Spec == Init /\ [][Next]_vars

\* Clients repeat a request that was not answered, the event loop runs every
\* coroutine that can go on, and an adapter call ends: the process runner kills
\* an agent that exceeds its timeout.
FairSpec ==
  /\ Spec
  /\ \A c \in Clients : WF_vars(ReadRevision(c)) /\ WF_vars(Handle(c))
-----------------------------------------------------------------------------
\* Properties.

TypeOK ==
  /\ IsStore(mem)
  /\ IsStore(disk)
  /\ calls \in [Clients -> Coroutines]
  /\ clients \in [Clients -> [outcome : Outcomes, expected : Nat \cup {NoRevision}]]
  /\ effects \in SUBSET [client : Clients, id : OperationIds, payload : Payloads]
  /\ fresh \in Nat
  /\ faults \in [failures : 0..MaxFailures, crashes : 0..MaxCrashes,
                 giveUps : 0..MaxGiveUps]

\* A key commits once, in the running store and in the snapshot, however often
\* its request is delivered and wherever the process stops in between
\* (_begin_task_operation reads the record, _commit_task_operation writes it).
OncePerKey(store) ==
  \A e, f \in store.audit : e.id.key = f.id.key /\ e.id.key # NoKey => e = f
KeyTakesEffectOnce == OncePerKey(mem) /\ OncePerKey(disk)

\* The effect a client was told of survives every restart, when its request
\* has a key or calls the adapter: the commit flushed before the answer.
CarriedOutFor(store, c) ==
  \E e \in store.audit : /\ e.id.request = Request(c)
                         /\ e.id.key = Key(c)
                         /\ Key(c) = NoKey => e.client = c
AnsweredIsDurable ==
  \A c \in Clients :
    clients[c].outcome = "ok" /\ (Key(c) # NoKey \/ CallsAdapter(Op(c)))
      => CarriedOutFor(disk, c)

\* Whatever the agent was asked to do is on disk as an outbox intent with the
\* payload the agent was given, so a restarted process can find out about it.
IntentBeforeAct ==
  \A e \in effects : /\ e.id \in DOMAIN disk.outbox
                     /\ disk.outbox[e.id].payload = e.payload

\* The outbox and the audit log agree: an intent is settled exactly when its
\* operation committed (mark_adapter_outbox_succeeded), in both stores.
Settles(store) ==
  \A i \in DOMAIN store.outbox :
    store.outbox[i].state = "succeeded" <=> \E e \in store.audit : e.id = i
OutboxMatchesAudit == Settles(mem) /\ Settles(disk)

\* A client that compares and sets gives the agent the same payload at every
\* attempt: the revision it sends pins the operation id, hence the intent.
CasRetriesReuseIntent ==
  \A e, f \in effects :
    e.client = f.client /\ e.client \in CasClients => e.payload = f.payload

\* The result every replay of a key returns is the revision its one commit
\* produced, before and after a restart.
RecordsMatchAudit ==
  \A store \in {mem, disk} : \A k \in Keys :
    IF k \notin DOMAIN store.records
    THEN \A e \in store.audit : e.id.key # k
    ELSE \E e \in store.audit : /\ e.id.key = k
                                /\ e.id.request = store.records[k].request
                                /\ e.after = store.records[k].after

\* The keyed calls of this instance, as the abstract specification sees them.
KeyedCalls == {<<Key(c), Request(c)>> : c \in {d \in Clients : Key(d) # NoKey}}
Applied == {<<e.id.key, e.id.request>> : e \in {f \in mem.audit : f.id.key # NoKey}}
Answered == {<<Key(c), Request(c)>> :
               c \in {d \in Clients : Key(d) # NoKey /\ clients[d].outcome = "ok"}}
Once == INSTANCE TakesEffectOnce WITH Calls <- KeyedCalls, applied <- Applied,
                                      answered <- Answered

\* With keys retried one call at a time, the server implements what a key
\* promises: no restart takes an effect back and none happens twice.
KeysTakeEffectOnce == Once!Spec

\* Every caller that keeps asking is answered, with a result or a refusal, once
\* failures and restarts stop (FairSpec).
EveryCallerIsAnswered ==
  <>[](\A c \in Clients : clients[c].outcome \in {"ok", "refused"})

\* What the documentation says and the code does not do: another operation in
\* between changes the revision and with it the operation id.

\* README.md: retrying with the same key reuses the persisted intent.
RetryReusesIntent ==
  \A e, f \in effects :
    e.id.key = f.id.key /\ e.id.key # NoKey /\ e.client = f.client
      => e.payload = f.payload
=============================================================================
