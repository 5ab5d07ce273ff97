# Formal models of the Human Loop Protocol reference implementation

`loops` implements the Human Loop Protocol (HLP): a human owns a *task*, hands
it to an agent harness, and stays in control through checkpoints, ownership
transfers, reviews and an audit log. This directory holds TLA+ models of the
implementation, the TLC configurations that check them and TLAPS proofs.
Everything is translated from the code under `loops/`; the specification in
`docs/specs/HLP.md` is used only to say what the code *should* do.

## 1. Inventory of the system

| Component | State it keeps | Operations | Interacts with |
|---|---|---|---|
| Task lifecycle (`state_machine.py`, `types.py`) | none | `check_transition`, `is_legal` | called by every handler |
| Operations (`operations/*.py`) | `last_operation_replayed`, `last_operation_id` | 13 mutating coroutines on a task, its checkpoints, artifacts, reviews | store (direct calls), adapter (awaits), audit log |
| Review policy (`operations/review.py`, `objects.py`) | none | `evaluate_review_outcome` | `review_submit` |
| Store (`store.py`, `sqlite_store.py`) | tasks, checkpoints, reviews, artifacts, ledgers, run bindings, idempotency records, adapter outbox | put/get, `bump_task_revision`, `flush`, `_load` | one SQLite document, rewritten by `flush` |
| Audit log (`audit.py`) | event list, sequence number, hash chain | `append`, `query`, `verify` | every handler; the SSE stream reads it by cursor |
| Adapters (`adapters/*`) | run registry, contract calls, event queues, sessions | `delegate`, `block`, `resume`, `steer`, `handoff`, `cancel`, `peek`, `ack` | agent processes |
| Client SDK (`sdk.py`) | subscribers | one method per operation, `project_harness_events`, `human_inbox` | operations; adapter event queues |
| HTTP transport (`transport/*`) | event loop thread | one route per operation, SSE | SDK; client retries |
| Realtime profile (`realtime.py`) | none | gate on hard signals, merging of signals | console, SDK |
| Permissions (`permissions.py`) | none | grant lookup by tier and action | host |
| Ledger (`operations/ledger.py`) | versioned key-value entries | read, write, history | store |
| Console (`loops/tui/*`) | soft buffer, session file | slash commands | SDK |
| Schema, MCP server, host (`schema.py`, `mcp_server.py`, `host.py`) | none | encoding, facade | SDK |

**Where it is hard.** All handlers are coroutines on one event loop. A handler
checks its preconditions, *awaits the agent adapter* (seconds to minutes) and
then changes the task. It does not look at its preconditions again; the only
thing that stands between a late handler and the task is `check_transition`,
which also accepts a task that is already in the target state. There are no
locks. Compare-and-set on the task revision is compared before the await only.
Other hard parts: a crash between the adapter call and the commit, retries with
idempotency keys, HTTP deadlines that leave the coroutine running, event queues
that are projected and then acknowledged, stores flushed for some operations
only, stream handlers in threads of their own, agent sessions and run numbers
that a new process does not know while the store brings its bindings back, a
console that may be cut at any call of an adapter. The list with lines is in
`PROJECT.json` under `hazards`.

**What makes each part correct.**
- *Operations*: no terminal task moves; the ownership chain is unbroken; a
  blocked task has a checkpoint to answer; the agent run agrees
  with the task (blocked, told to go on, told to stop); what was answered stays
  answered; every change is on record exactly once, in revision order.
- *Reviews*: a delivery has the quorum's approval of one version; a veto
  is never lost; waiting means that the outcome is open.
- *Idempotency and outbox*: a keyed request takes effect once whatever is
  retried; after a restart an intent is found again.
- *Event projection*: every event takes effect, in order, and is acknowledged
  only then.
- *Agent runs*: a session belongs to one task and holds all its run was told,
  also when calls overlap;
  events and progress are what the run's agents printed; an id names one task's
  run.
- *Audit stream*: a reader gets each number once; what a restart replaced shows.
- *Console*: what the human typed is never lost and recorded once; a session
  follows the run its task is bound to.

## 2. Modules

| Module | Models | Code |
|---|---|---|
| `TaskStateMachine` | states, legal moves, `check_transition` | `state_machine.py` |
| `ReviewPolicy` | aggregation of verdicts | `operations/review.py:12-39` |
| `AtomicTask` | abstract: each operation takes effect at once, on state, holder, open checkpoint, agent and revision | - |
| `HLPOperations` | one task and every mutating operation on it, split at the await | `operations/task.py`, `checkpoint.py`, `ownership.py`, `artifact.py`, `review.py`, `_base.py`; run registry from `adapters/_registry.py`, `fake.py` |
| `TakesEffectOnce` | abstract: what an idempotency key promises | - |
| `IdempotentOutbox` | compare-and-set, idempotency records, adapter outbox, flush, restart, lost answers | `operations/_base.py`, `store.py`, `sqlite_store.py`, `transport/server.py` |
| `EventDelivery` | abstract: reliable delivery of a run's events | - |
| `HarnessProjection` | event queue, projection, acknowledgment, what the console shows | `sdk.py`, `adapters/_harness.py`, `tui/_base.py`, `operations/checkpoint.py` |
| `RunOutput` | what an adapter reads in the lines of one answer | `adapters/_parsing.py`, `_harness.py`, `_types.py` |
| `AgentRuns` | runs, native sessions, event queues and progress of one adapter of any kind, for several tasks | `adapters/*.py`, `_registry.py` |
| `AuditStream` | the log over flush and restart, published events, ledgers, readers of the stream | `audit.py`, `sqlite_store.py`, `sdk.py`, `operations/ledger.py`, `transport/server.py`, `transport/client.py` |
| `ConsoleSession` | sessions, active task and run, soft buffer, adapter switches, Ctrl+C | `tui/*.py`, `realtime.py` |
| `MC...` | model values, vocabularies, policies and clients for TLC | - |
| `..._proofs`, `HLPAudit_proofs`, `HLPSequential_proofs` | the theorems of section 4 | - |

The modules down to `HarnessProjection` describe one task and meet in it: `HLPOperations` has all of
the task and abstracts how a call is made safe to repeat; `IdempotentOutbox` has
that and four operations to try it on; `HarnessProjection` has the operations a
projection calls, with their suspensions, and takes those of the human as
atomic. `TaskStateMachine` is shared by the first two. The others
describe what several tasks share: the adapter (`AgentRuns`), the log
(`AuditStream`) and the console (`ConsoleSession`); to these an operation is
what it leaves behind, a call of the adapter, an audit event, a state.

A definition `<Op>_<Fault>` in any module is a faulty variant of `<Op>` with a
plausible bug, used by no action; replacing `<Op>` by it makes the property
named in `PROJECT.json` under `mutants` fail.

### `HLPOperations`

State and code:

| Variable | Code |
|---|---|
| `state`, `revision` | `task.state`, `task.revision` |
| `assignee`, `chain` | `task.ownership.assignee`, `.chain`; the principal is the constant `Principal` |
| `checkpoints` | checkpoint objects in the order `put_checkpoint` stored them; two entries with one id are two objects, of which `_get_checkpoint_for_update` finds the later (`Stored`) |
| `steering`, `artifacts` | lengths of `task.steering_log`, `task.artifacts` |
| `reviews` | the store's reviews of the task's artifacts, in submission order |
| `run` | `store.run_of_task`: an index in `told`, 0 for none |
| `told` | for each run, the last of `delegate`/`handoff`/`resume` (running), `block`, `cancel` that the adapter's registry recorded |
| `audit` | the audit log: action, whether the system or somebody is the actor, and the state, revision and assignee of the task snapshot in the reducer payload |
| `calls` | the handlers that are suspended at their await, with the local variables they use afterwards |

A handler that awaits the adapter is two actions, `Begin...` (checks, outbox
request, start of the adapter call) and `Finish...` (the registry's record, and
everything up to the return); one that never awaits is one action. In `Finish`
actions the order of the code matters: what is assigned before
`check_transition` stays assigned when it refuses (`Refused`). `AdapterFails`
drops a call whose adapter raised. `BeginBlock`/`FinishBlock` serve
`checkpoint_raise` and `task_interrupt`, which differ in one transfer and in
their audit events. The id of a checkpoint is a function of operation, request
and revision because it is read back from the durable adapter request when the
same call is repeated at the same revision (`_prepare_adapter_outbox`).

Abstracted: texts, payloads and reasons; checks of arguments that only refuse;
the actor's name in audit events; `approve`, `choose` and `provide`, which take
the same path. `review_submit` is called by humans only, as the code requires;
assignments, delegations and transfers may name anyone, as the code allows.

`Overlap = FALSE` is a client that awaits every call before the next one, as
the console does; `Overlap = TRUE` several callers of one server. Without
overlap the module implements `AtomicTask` (`CallsTakeEffectAtOnce`): `Asked`
says whether some checkpoint is pending where an answer finds it, `AgentTold`
what the bound run was told last. A `Begin...`, a comment and a failed adapter
map to a stutter, a `Finish...` and a handler that never awaits to one atomic
operation with one revision. `RefuseCancel` is the exception the code makes: a
cancellation under review takes the task back and stops the agent before
`check_transition` refuses it, with no revision (`v_cancel_in_review`).

### `IdempotentOutbox`

| Variable | Code |
|---|---|
| `mem` | the store of the running process: the task's state and revision, the objects attached to it, the audit log, `_idempotency_records`, `_adapter_outbox` |
| `disk` | the snapshot of the same that `SQLiteHumanLoopStore.flush` wrote last |
| `calls` | per client, the coroutine that runs its request: at its await before (`calling`) or after the agent acted (`acted`), or about to answer (`returned`) |
| `clients` | per client, what it knows, and the revision it read for `expected_task_revision` |
| `effects` | what the agent was asked to do; a restart does not undo it |
| `fresh` | ids and time stamps not drawn yet |

`Sends`, `Replay`, `Refuse` and `Admitted` are `_begin_task_operation`;
`Prepare` is `_prepare_adapter_outbox` with its flush; `Committed` and
`FlushesOnCommit` are `_commit_task_operation`; `GiveUp` is the deadline of
`run_op` or the client's own, after which the coroutine goes on; `Restart`
loads the last snapshot. The operations are `task.start` and `artifact.commit`,
which never await, and `task.amend` and `task.interrupt`, which call the adapter
and check the state again afterwards: every other operation goes through the
same three functions in one of these two ways. `SerialKeys = TRUE` is a client
that waits until its earlier call has ended before it uses a key again.

### `HarnessProjection`

| Variable | Code |
|---|---|
| `events`, `acked` | `_harness_events[run_id]` is what follows the first `acked` of all `events` queued so far |
| `passes` | the running calls of `project_harness_events`: waiting for `adapter.block` or for the event bus, at event `next` of a batch that ends at `last` |
| `state`, `checkpoints` | the task's |
| `projected` | history: the events that took effect |
| `shown` | history: the checkpoints the console spoke of |

`Peek` is `peek_events` and the loop up to its first suspension, `Project` the
body of the loop for one event, `BlockReturns` the rest of `checkpoint_raise`,
`Published` the acknowledgment and the next event, `Fails` an adapter or an
event bus that raises. `Emits` is `_queue_harness_events`; a turn of the agent
happens in `block`, `resume` and `steer`. An event is a question, an artifact or
*faulty*: one that names another task or offers no choices and is refused
whenever it is tried. Expiry of checkpoints is left out.

### `RunOutput` and `AgentRuns`

`RunOutput` has the functions of an answer: its result, whether it correlates,
the lines that become human-loop events, the merge of progress line by line. A
line is the record of what the parsers look for in it; the order in which
sub-agents are listed is left out. `AgentRuns` has the state:

| Variable | Code |
|---|---|
| `setup` | which adapter is used, with which outputs of its agents, and how often its process may stop |
| `runs`, `sessions`, `queue`, `progress`, `counter` | `_runs`, `_run_sessions`, `_harness_events`, `_run_progress`, `_run_counter` of the adapter |
| `runOf` | `store._task_runs`, which alone survives `Restart` |
| `calls` | per caller, the call of the adapter in progress: composed (`called`) or the agent acted (`acted`); several callers may call for one task |
| `history` | the native sessions of the agent CLI, as the turns each consists of |
| `told`, `printed`, `observed`, `answers` | history variables: turns acted on for a run, the answers about progress taken for it, events a host took, the number of answers taken |

A call is `Delegate` or `Address` (the command composed from registry and
session), `Act` (the agent takes its turn, in the session resumed, a fork of it
or a new one) and a `Return...`, or `Fail` at any time: exit code, timeout or a
refused answer, after which the turn stays in the session. `Record` and
`RecordHandoff` are the adapters that only record. The operations that call
`block`, `resume`, `steer` and `cancel` are one `follow` here. Five kinds of
adapter stand for those in the code, see `Setup`. Assumed of agents: who
names a run names its own, by a fresh id, a line has one correlation id, and two
processes of a CLI that resume one native session append to it one after the
other.

`Delegate` starts an agent for a task without a run (`task.assign`) or, with the
run as `parent_run`, for one that has a run (`ownership.delegate`). The latter
keeps the parent's id in the handle and nothing else of it: its session is a new
one and need not hold the parent's turns, so `SessionHoldsRun` asks for these
after a fork only. `ReturnRun` binds the run; an assignment that is refused
because another call was faster leaves its run unbound, with its agent at work.
Two calls on one run may be answered in the other order than their agents acted:
`ObservedInOrder` speaks of the order of the answers, which is that of the queue.

### `AuditStream`

| Variable | Code |
|---|---|
| `log`, `lastSeq` | `AuditLog._events`, `_seq` |
| `ledger`, `disk` | per scope, the store's ledger as the list of its writes, from whichever tasks; the snapshot of log and ledgers |
| `stage` | the event loop: at rest, before the flush, or before the publication of the event it has appended |
| `bus` | the audit events that `_publish_event` told subscribers of |
| `conn` | per reader, the handler thread of `GET /v1/events`: polling the log, or sending the rest of a batch from its cursor |
| `wire`, `got` | what is on the connection, what the client has read |

`HandleOp` is an operation from the append to its answer or to its flush;
whether there is one depends on how it was called (`Kind`); `ledger.write` takes
no key, so over HTTP it is not flushed. `FlushIntent` is the
flush any adapter operation makes before its call. `Restart` stops the process
at any of these points and closes every connection; `Break` loses what was on
the wire. A hash is the sequence of what was hashed, that is, a hash function
without collisions.

### `ConsoleSession`

| Variable | Code |
|---|---|
| `file`, `current` | `SessionStore`; the session the console is in |
| `at`, `call` | whether the console reads a line, waits for an adapter with a command, or has ended |
| `client` | the adapter of the client with its `_run_counter`, the tasks of its run handles and the runs it has a native session of |
| `state`, `runOf`, `told` | the tasks of the console's in-memory store, the runs bound to them and the promotions in their steering logs |

A command is one action up to its adapter call and one from the answer to its
end. What an amendment merged from the buffer says is the set of its texts: no
property is about their order. In between `Fail` and `CtrlC` cut it: what it
assigned before stays. `CtrlC` on a task in progress turns into the interrupt of
`app.py`, whose failure nobody catches. `Start` is a new console on the old
session file. `/model`, `/adapter` and `Start` make a new client whose counter starts
at zero (`NewClient`), over tasks that keep their bindings, so run numbers repeat.
A line in a session whose task is gone ends the console, but what it saves first
is kept (`StaleLine`). `entered`, `withdrawn`, `chosen`, `informed`, `switched` are
history variables of the properties.

## 3. Runs

All runs but `stream` have `CHECK_DEADLOCK FALSE`: a terminal task, one at the
bound, or one whose clients are all answered really has no further step.

| Run | Instance | Shows |
|---|---|---|
| `seq` | 1 slot, no overlap, all operations, `MaxRevision` 6 | the handlers implement `AtomicTask`; a pending checkpoint can be answered or its task was cancelled; a cancelled task's run was told to stop; answers are final; an approval returns the task to who held it |
| `par` | 2 overlapping slots, all operations, `MaxRevision` 4 | terminal is final; the chain is linked; a blocked task has an open checkpoint; one event per revision; the log replays to the state |
| `review` | panel of three, majority, 2 versions and more, comments, `MaxRevision` 7 | deliveries are endorsed by the panel's approval of one version; waiting means undecided |
| `outbox` | a start and an interrupt without a key, an amendment with compare-and-set and a delivery that use one key; 2 adapter failures, 2 crashes, 2 lost answers | the agent acts on durable intents only; intents are settled exactly when committed; compare-and-set retries reuse their intent; what a keyed or adapter call was told is on disk; records match the log; the server implements `TakesEffectOnce`; every client is answered in the end |
| `projection` | 2 overlapping passes, 3 events, 1 failure | the projection implements `EventDelivery`; every event takes effect in the end |
| `stream` | 1 reader, 3 events of all kinds, 2 tasks that write one ledger, 1 restart, 1 broken connection | a reader gets every number once; a replaced event shows in the chain; what was published survives; a scope's ledger agrees with the log; the reader catches up |
| `agents` | 2 tasks, 2 calls at a time, 2 ids that agents choose, 3 turns, 1 failed call; all kinds of adapter, one restart where agents name their runs | sessions are one task's and complete; events and progress are those printed; a run keeps its task |
| `console` | 2 sessions, 2 tasks, 2 adapters one of which forks, 2 runs of a client, 2 promotions, 1 soft control, 1 fault | a soft control is not lost, and in one recorded amendment at most; a session follows the run its task is bound to |

**Bounds.** `MaxRevision` stops new calls at that revision; calls in flight
still finish. A task is in progress at revision 2, so 4 leaves two more commits
and up to two pending calls (a raise and its answer overlapping another call),
6 leaves four: block, answer, block again, cancel. In `review` the first
artifact is committed at revision 3; 7 allows rework, a second version and
two more verdicts on either. `MaxReviews` bounds comments, which advance no
revision. Two agents are enough for "the other agent", one request is enough
to make two identical calls, and different operations make different ones.
In `outbox` every client has one request, which it repeats; two failures
and two crashes let the same intent be found again by a second and a third
attempt, in the same process and in the next. Three events in `projection` are a
pass that is suspended at the first while a second pass takes the next, and one
more that arrives meanwhile; with one failure either pass may stop anywhere.

Readers of the stream do not touch each other's state, one is enough; three
events are one that is flushed, one that a restart loses and one that takes its
number while the reader has the lost one. In `agents` three turns are a run with
two overlapping follow-ups, handoffs or delegations, or the runs of two tasks and
a follow-up; the failure may hit any of them before or after the agent acted
(`v_run_reused`, with one restart, has four). In `console` two
runs are a delegation and a handoff or one of each session, and the fault may be
a failed call, Ctrl+C or a restart at any point; its run identifies states that
differ only in the client's adapter, the native sessions it knows, `informed` and
`switched`, which nothing reads but the updates of the last two and, of its
properties, the type invariant. One soft control shows loss and
repetition; two of them, merged into one amendment, were checked too with
`MaxSoft` 2 and `MaxAmends` 1 (19.5 million states, five
minutes with four workers). Symmetry is used in the runs `agents`
and `console` only, which have no liveness property.

**Fairness.** `seq`, `par`, `review`, `agents` and `console` check safety under
`Spec`. `outbox` assumes that a client repeats a request that was not answered,
and that the event loop runs every coroutine that can go on, an agent that was
asked included: the process runner kills one that exceeds its timeout of 120 s
(`adapters/process.py`), and the call then fails. Failures are bounded, not
fair. `projection` assumes that the console synchronises again and again
(`_sync_harness_human_loop` runs after every command), that a suspended pass
goes on, that the human answers a pending checkpoint and asks for changes on
what is in review. The end of a task, steering and failures are not fair.
`EveryEventIsProjected` makes no promise for a task that is over, or for events
behind a faulty one, which is never acknowledged and stays at the head.
`stream` assumes that handler threads and the event loop go on and that a client
whose connection ended connects again; nothing is assumed of operations,
restarts or breaks.

**What the code does not keep.** Four runs are expected to fail, each on one
property that the documentation states and the code breaks; the quotes and
traces are under `findings` in `PROJECT.json`:

| Run | Property | In short |
|---|---|---|
| `v_cancel_in_review` | `WorkOnLiveRun` | a refused cancel has stopped the run the task later works on |
| `v_key_race` | `KeyTakesEffectOnce` | a retry that overlaps its first call commits under the key again |
| `v_run_reused` | `CorrelationIsTask` | after a restart a new run gets an older task's run id, and that task is told as the new one |
| `v_adapter_switch` | `SwitchInforms` | `/adapter` reports a handoff via the native session that no client knows any more |

The modules state some properties that no run lists because TLC refutes them;
each is commented "Not kept":

- `HLPOperations.MutationsAreAudited` (instance `par`): a late handler that is
  refused has changed the task before, off the record.
- `HLPOperations.DeliveryIsCurrent` (instance `review`): approvals of a
  superseded version deliver the task.
- `IdempotentOutbox.RetryReusesIntent` (instance `outbox` with `CasClients`
  empty): a keyed retry after another operation gives the agent a new request,
  because the operation id contains the task's revision.
- `HarnessProjection.BlockedIsShown` (instance `projection`): two questions in
  one turn block the task and the human is told of neither.
- `ConsoleSession.ShowsRunOfItsTask` (instance `console`): run numbers repeat.
  `/model` and `/adapter` build a new adapter, whose counter starts at zero
  (`adapters/_registry.py:25`), over the same tasks: after a prompt in session s1,
  `/model`, `/new` and a prompt in s2 the tasks of both are bound to `run_000001`,
  and after `/resume` s1 shows progress and questions of s2's task.

More was seen while modelling. With `Overlap = TRUE`, overlapping raises leave
two pending checkpoints (`store.py:131` assumes one), a late answer moves a task
that is blocked again on another checkpoint (`PendingIsAnswerable`), a late
delegation starts a run for a cancelled task (`CancelStopsRun`), a late answer
overwrites an expiry (`AnswerIsFinal`), and two calls that expect one revision can
both commit. An
operation that has neither key nor adapter call is answered before it is flushed
and may be gone after a restart, which is why `AnsweredIsDurable` is about the
others. Its sequence number is then issued again, so a reader with an old cursor
never gets the event that took it: `ReceivedConsecutive` holds, and only the
chain shows the loss (`ChainDetectsLoss`). A plan review with verdict `rejected`
ends the task whatever the policy says (`review.py:185`). The result of any tool
counts as the end of a sub-agent (`_parsing.py:432`). A handoff leaves events
that were printed and not yet projected on the old run, where nobody looks.

In the console `FollowsBoundRun` does not say that a run is one task's, only that
session and binding name the same one. `/promote` clears the buffer when the
amendment is recorded: if the agent acted and the call then failed or was cut, the
next `/promote` sends the same again, which `PromotedOnce`, about recorded
amendments, does not count.

A saved session whose task is gone ends the console at the next line
(`app.py:339`); so does an interrupt after Ctrl+C whose adapter call fails
(`app.py:349-367`); Ctrl+C during the first prompt leaves a task that no session
has.

## 4. Proofs

All theorems hold for every value of the constants, from the named assumptions
of the modules and, where a theorem states one, a hypothesis on the constants
that says how the system is used.

**`HLPOperations_proofs`** proves the inductive invariant `IInv`: the types, the
linked chain, `WorkHasRun`, `BlockedHasOpenCheckpoint`, and `LocalsValid`. The
last is what makes it inductive: a handler that resumes after its await uses
the run and the checkpoint object it kept in local variables, so the invariant
must say that they are still in the registry and in the store. `WorkHasRun` is
needed because `amend`, `raise`, `interrupt` and `resolve` address the bound
run without a further check. There is one lemma per handler; `TypeCorrect`,
`OwnershipChainLinked`, `WorkAlwaysHasRun`, `BlockedAlwaysHasOpenCheckpoint`
follow. `TerminalForever` needs no invariant: it follows from the table.

**`HLPSequential_proofs`** is about a client that awaits each call before the
next one (`Overlap = FALSE`), which the properties of `seq` need: overlap
refutes them (section 3). On top of `IInv` its invariant says that at most one
call waits; that what its handler checked before the await still holds, although
no handler looks again (`ChecksStillHold`, a theorem of its own); that a task
has at most one open checkpoint, and only while it is blocked or after it was
cancelled; that the registry has not recorded a block last for a run whose task
is not blocked; and that a cancellation on record has completed the task and
stopped its run. `SequentialPendingAnswerable`, `SequentialRunNotLeftBlocked`,
`SequentialCancelStopsRun` and `SequentialAnswerIsFinal` follow.
`SequentialCallsTakeEffectAtOnce` is the refinement of `AtomicTask`, one lemma
per handler (`...Maps`). What the handler checked still holds, so each
`check_transition` but the one of `task_cancel` passes; at most one checkpoint
is open, so an answer or an expiry leaves none; the run the handler kept is the
bound one, so what it was told is what the abstract agent was told. It implies
`RunNotLeftBlocked` and `PendingIsAnswerable` and puts them in one picture; the
run `seq` checks it in place of the first.
`SequentialAnswerReturns` also needs that the last audit event names the holder
of the task, and that nobody transfers a task "via checkpoint" by hand
(`"checkpoint" \notin EnabledVias`): `_last_assignee_before` takes such a
transfer, which the code allows, for the one a block makes and finds somebody
else. The run `seq` makes the same choice.

**`HLPAudit_proofs`** summarises every step as a `LogStep` (nothing; a comment;
one operation event, perhaps with a second event of the same call, and one more
revision) and proves from it `AuditReplays` and `RevisionsAreExplained`. Its
second part is about reviews, for any panel, quorum and overlap. `ReviewInv`:
a task that is not over has no decided version; a delivered one is completed and
has a version that the panel's latest verdicts endorse. A review changes the
counted verdict of one seat on one version, so what it decides it decides about
the version it names; a comment counts for nothing. `DeliveriesAreEndorsed` and
`ReviewsAreOpen` follow.

**`IdempotentOutbox_proofs`** has an invariant in three parts. The store: `mem`
and `disk` agree on records and outbox at all times, because each change to
these is flushed in the step that makes it, while the audit log on disk may be
behind; a keyed entry of the log has its record. The coroutines: what one holds
over its await is in the outbox on disk, with the payload it gave the agent.
The clients: who is told of success, or is about to be, finds the entry on
disk. `AgentActsOnDurableIntent` and `AnswersAreDurable` follow without further
assumption, `SerialKeysCommitOnce` and the refinement `ServerTakesEffectOnce`
from `SerialKeys`, without which `v_key_race` refutes them. `LedgerInv`, on top
of it, relates outbox and records to the audit log: a settled intent and a record
have their entry in the snapshot, and each entry of an adapter operation has its
intent, settled; `OutboxAgreesWithAudit` and `RecordsAgreeWithAudit` are about
memory and snapshot alike. `CasInv` says that all attempts of a client with
compare-and-set have one operation id, because the revision it sends is part of
it, which gives `CasRetriesAreSafe`.

**`HarnessProjection_proofs`** assumes that the adapter numbers the events
(`AgentCursors = {}`); with ids of the agent's own, equal ids could make an
acknowledgment go too far or not far enough. What took effect is always an
initial part of the queue; a suspended pass is at most one event beyond the
acknowledged ones, so that every predecessor of the event it holds took effect,
even if another pass acknowledged it. `AcknowledgedTookEffect`,
`EventsTakeEffectInOrder` and the refinement `ProjectionIsReliable` follow, for
any number of passes.

**`AuditStream_proofs`** replaces the recursive idea of a hash chain by a closed
form: in a chained log the hash of event `i` is its `Trail`, what the events up
to `i` say. Two chains with a common event then agree on everything before it
without an induction over their length, which gives `LossDetected`. The rest of
the invariant: the snapshot is an initial part of the log; what is about to be
published is in the snapshot; the numbers a reader has, those on the wire and
those its handler is about to send follow each other, whatever the log is by
then. `StreamTypes`, `LogChained`, `PublishedDurable` and `ReadersConsecutive`
are its other consequences. For `LedgersAgreeWithAudit` the invariant says of
memory and of the snapshot that the n-th write of a ledger is the n-th write
event of its scope.

**`AgentRuns_proofs`** assumes `RunIdsStayUnique`: no restart, or agents that
name every run. Without it `v_run_reused` is a counterexample. The invariant
says that numbers not yet issued belong to nobody, that a callable's number,
taken before its call, is nobody else's until the call returns, that a task's
run is no other task's, and that a session that a run or a call refers to
consists of turns of the same task. It has one lemma per action;
`SessionsKeptApart` and `RunsKeepTheirTask` follow. Four more invariants rest
on it. `TurnsInv`: every turn has a number of its own, and what a run was told was
a turn of some session, so that "the turns the parent had by then" are those with
lower numbers. `ContInv`: the session of a run knows all that the run was told,
and a call that acted used one that knows its turn and, after a fork, its
parent's earlier ones; `SessionsAreContinuous`. `CorrInv`: handles correlate with their own task;
`CorrelationIsKept`, the property that `v_run_reused` breaks with run ids that
come again. `EventInv`: a queue holds lines of its run's task, and what the host took
of a task, what waits in the queue of its run and the answers to come are of later
and later answers, whichever calls they belong to; with the lemma that the lines
taken from one output differ (`HumanLoopLinesFacts`), `EventsObservedInOrder`.
`AgentRunsTypes` and `ProgressIsKept` need no unique ids, only that `Setups` are
setups. The second is an induction over the lines of an answer: the library's
induction theorems take an operator, which the provers cannot instantiate, but
for the *set* of numbers with a property induction is a lemma (`Induction`, from
the pigeonhole principle). With it the recursive function of `MergeProgress`
exists (`ProgressLineByLine`), one line keeps the snapshot in step with what the
lines report (`ReportsOneMore`), and so does an answer (`MergeReports`).

**`ConsoleSession_proofs`** needs no assumption but that its bounds are numbers.
For `SessionFollowsItsRun` (`FollowsBoundRun`) the invariant adds that a task of
this console belongs to one session at most unless it was taken over with `/use`,
so that a handoff in one session does not leave another behind, and that a command
that waits for its adapter is about the session's task, a delegation apart. `TInv` has the types (`ConsoleTypes`) and
why no list outgrows its bound. `SoftInv` says where a soft control that was
entered is: in one session's buffer, at one place of one task's steering log, or
withdrawn; a `/promote` that waits carries what its buffer still holds.
`SoftControlsAreKept` and `SoftControlsSteerOnce` follow.

Only model-checked: the three liveness properties (`EveryCallerIsAnswered`,
`EveryEventIsProjected`, `ReaderCatchesUp`), which are out of the prover's reach.

## 5. What is left

Not modelled, and why:

- *Permissions*: a pure decision over a table of grants that nothing changes.
- *Wire schema, MCP server, host*: encoding, and a facade over the SDK.
- *Hard-signal gate* of the realtime profile: a check without state.
- *Human inbox*: a view over the store. It hides an artifact after its first
  review although a panel still has to decide (`sdk.py:451`).
- *Encodings*: the snapshot's packing, the JSON of each agent CLI, command lines,
  the console's rendering and streaming.
- *Two consoles on one session file* (`tui/session.py:52`): the later save wins;
  no document promises more.
- *Contents of answers*: the HTTP thread encodes the live task object
  (`transport/server.py:404`), so an answer may show a later state than its own
  call's.
- *References between artifacts* (`artifact_reference`, `artifact.py:86`): a list
  and an audit event without a revision; nothing modelled reads it.
- *Examples and scripts*.

Worth doing next: more than one fault in `console`; expiry of checkpoints in
`HarnessProjection`.
