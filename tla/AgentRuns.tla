------------------------------ MODULE AgentRuns ------------------------------
(***************************************************************************)
(* What an adapter knows of the runs it started, and what the agents it    *)
(* started know of their tasks (loops/hlp/adapters): the registry of run   *)
(* handles, the native sessions of the agent CLIs, the queues of events    *)
(* they printed, and the store's binding of a task to its run.             *)
(*                                                                         *)
(* A call of an agent has three steps: the adapter composes the command,   *)
(* the agent acts, the adapter takes its answer.  Calls overlap, those for *)
(* one task too.  A call may fail before or after the agent acted: it is   *)
(* killed when its time is over, exits with an error, or prints something  *)
(* that is refused.  The registry is in memory; the binding survives the   *)
(* process.  Which operation of HLP calls is in HLPOperations; blocking,   *)
(* resuming, steering and cancelling a run are one follow-up here.         *)
(***************************************************************************)
EXTENDS RunOutput

CONSTANTS
  Tasks,         \* task ids, which are the correlation ids of their runs
  Callers,       \* operations that call the adapter at a time
  AgentIds,      \* run ids that agents choose
  Setups,        \* which adapter is used and how, see Setup
  MaxTurns,      \* bound: times an agent acts
  MaxFailures    \* bound: calls that fail

\* No task and no run; numbers of runs start at one.
None == 0

ASSUME RunConstants ==
  /\ MaxTurns \in Nat /\ MaxFailures \in Nat
  /\ None \notin Tasks
  /\ AgentIds \cap (0 .. MaxTurns) = {}

VARIABLES
  setup,
  runOf,         \* store._task_runs
  runs,          \* adapter._runs
  sessions,      \* adapter._run_sessions
  queue,         \* adapter._harness_events
  progress,      \* adapter._run_progress
  counter,       \* adapter._run_counter
  calls,         \* caller -> its call in progress
  history,       \* native session -> the turns it consists of
  told,          \* run -> the turns an agent acted on for it
  printed,       \* run -> the lines of the answers about progress taken for it
  observed,      \* task -> the events the host took from its runs
  answers,       \* number of answers whose lines were taken
  failures, restarts

outputVars == <<queue, progress, printed, answers>>
adapterVars == <<runs, sessions, counter, outputVars>>
agentVars == <<history, told>>
vars == <<setup, runOf, adapterVars, calls, agentVars, observed, failures, restarts>>
-----------------------------------------------------------------------------
(* harness: a CLI whose native session is resumed (codex, kimi), forking:   *)
(* one whose session a handoff can fork (pi, claude); process: a JSON       *)
(* command; framework: an SDK that returns an id; callable: a Python        *)
(* function, and the fake adapter.  prints holds the outputs of its agents,  *)
(* restarts says how often the process may stop.                            *)
Setup == [adapter : {"harness", "forking", "process", "framework", "callable"},
          prints : SUBSET Seq(Line), restarts : Nat]

HasSessions == setup.adapter \in {"harness", "forking"}
\* Adapters that only record a follow-up and do not reach the agent.
RecordsOnly == setup.adapter \in {"framework", "callable"}

RunIds == (1 .. MaxTurns) \cup AgentIds
Handle == [task : Tasks, correlation_id : Tasks, parent_run : RunIds \cup {None}]
NoRun == [task |-> None]
NoSession == 0

Ops == {"delegate", "handoff", "follow"}
\* A turn of an agent: for whom it was asked for, and as what task the agent
\* was told to see it.
Turn == [n : 1 .. MaxTurns, op : Ops, task : Tasks, as : Tasks]
\* A line that waits in a queue: the task it is about and the one its agent
\* was told, the answer it was part of, and what it asks.
Queuing == [about : {"nobody", "own", "other"}, as : Tasks, answer : Nat,
            signature : Signatures]
Event == [task : Tasks, answer : Nat, signature : Signatures]

Idle == [phase |-> "idle"]
Call == {Idle} \cup
  [phase : {"called", "acted"}, op : Ops, task : Tasks,
   run : RunIds \cup {None},          \* the run addressed, for a delegation the number taken
   handle : Handle,                   \* what the adapter knows of it
   mode : {"new", "resume", "fork"},  \* how the session is started
   session : Nat,                     \* the one resumed or forked, then the one used
   turn : 0 .. MaxTurns]

Turns == Cardinality(UNION {Range(history[s]) : s \in DOMAIN history})
\* Agents choose run ids that nobody had before.
Named == {r \in AgentIds : runs[r] # NoRun \/ (\E t \in Tasks : runOf[t] = r)
                              \/ told[r] # {}}
-----------------------------------------------------------------------------
Init ==
  /\ setup \in Setups
  /\ runOf = [t \in Tasks |-> None]
  /\ runs = [r \in RunIds |-> NoRun]
  /\ sessions = [r \in RunIds |-> NoSession]
  /\ queue = [r \in RunIds |-> << >>]
  /\ progress = [r \in RunIds |-> NoProgress]
  /\ printed = [r \in RunIds |-> << >>]
  /\ counter = 0
  /\ calls = [c \in Callers |-> Idle]
  /\ history = << >>
  /\ told = [r \in RunIds |-> {}]
  /\ observed = [t \in Tasks |-> << >>]
  /\ answers = 0
  /\ failures = 0
  /\ restarts = 0

NewHandle(t, correlation, parent) ==
  [task |-> t, correlation_id |-> correlation, parent_run |-> parent]

\* Faulty, used by no action: the handle made up of the context lacks the task.
RequireRun_NoTask(t) ==
  IF runs[runOf[t]] # NoRun THEN runs[runOf[t]] ELSE NewHandle(None, t, None)

\* _require_run with a context: the handle known, or one made up of the context.
RequireRun(t) ==
  IF runs[runOf[t]] # NoRun THEN runs[runOf[t]] ELSE NewHandle(t, t, None)

\* Faulty, used by no action: a handoff starts anew also where it could fork.
CommandMode_NoFork(op, run) ==
  IF op = "follow" /\ run # None /\ sessions[run] # NoSession THEN "resume" ELSE "new"

\* _command_for_prompt: a follow-up resumes the session of its run, a handoff
\* forks it where the CLI can, anything else starts anew.
CommandMode(op, run) ==
  IF ~HasSessions \/ run = None \/ sessions[run] = NoSession THEN "new"
  ELSE IF op = "follow" THEN "resume"
  ELSE IF op = "handoff" /\ setup.adapter = "forking" THEN "fork" ELSE "new"

Calling(c, t, op, run, handle, mode, session) ==
  /\ calls[c] = Idle
  /\ Turns < MaxTurns
  /\ calls' = [calls EXCEPT ![c] =
       [phase |-> "called", op |-> op, task |-> t, run |-> run, handle |-> handle,
        mode |-> mode, session |-> session, turn |-> 0]]

\* Faulty, used by no action: a callable's number is read but not taken.
Delegate_NumberNotTaken(c, t, parent) ==
  /\ parent \in {None, runOf[t]}
  /\ Calling(c, t, "delegate", counter + 1, NewHandle(t, t, parent), "new", NoSession)
  /\ UNCHANGED <<setup, runOf, adapterVars, agentVars, observed, failures, restarts>>

\* delegate, up to the start of the agent: without a parent for task.assign,
\* with the task's run for ownership.delegate.  A callable's number is taken first.
Delegate(c, t, parent) ==
  LET counts == setup.adapter = "callable" IN
  /\ parent \in {None, runOf[t]}
  /\ Calling(c, t, "delegate", IF counts THEN counter + 1 ELSE None,
              NewHandle(t, t, parent), "new", NoSession)
  /\ IF counts THEN counter < MaxTurns /\ counter' = counter + 1 ELSE UNCHANGED counter
  /\ UNCHANGED <<setup, runOf, runs, sessions, outputVars, agentVars, observed, failures, restarts>>

\* Faulty, used by no action: the CLI is told to resume its latest session.
Address_LatestSession(c, t, op) ==
  LET mode == CommandMode(op, runOf[t]) IN
  /\ runOf[t] # None /\ ~RecordsOnly
  /\ runs' = [runs EXCEPT ![runOf[t]] = RequireRun(t)]
  /\ Calling(c, t, op, runOf[t], RequireRun(t), mode,
              IF mode = "new" THEN NoSession ELSE Len(history))
  /\ UNCHANGED <<setup, runOf, sessions, outputVars, counter, agentVars, observed, failures, restarts>>

\* block, resume, steer, cancel and handoff of a run, up to the agent's start.
Address(c, t, op) ==
  LET mode == CommandMode(op, runOf[t]) IN
  /\ runOf[t] # None /\ ~RecordsOnly
  /\ runs' = [runs EXCEPT ![runOf[t]] = RequireRun(t)]
  /\ Calling(c, t, op, runOf[t], RequireRun(t), mode,
              IF mode = "new" THEN NoSession ELSE sessions[runOf[t]])
  /\ UNCHANGED <<setup, runOf, sessions, outputVars, counter, agentVars, observed, failures, restarts>>

\* RunRegistryAdapter.block and the others: a call is recorded, no agent told.
Record(t) ==
  /\ runOf[t] # None /\ RecordsOnly
  /\ runs' = [runs EXCEPT ![runOf[t]] = RequireRun(t)]
  /\ UNCHANGED <<setup, runOf, sessions, outputVars, counter, calls, agentVars, observed, failures, restarts>>

\* FakeAgentAdapter.handoff
RecordHandoff(t) ==
  LET handle == RequireRun(t)
      run == counter + 1
  IN
  /\ runOf[t] # None /\ RecordsOnly
  /\ counter < MaxTurns
  /\ counter' = run
  /\ runs' = [runs EXCEPT ![runOf[t]] = handle,
                          ![run] = NewHandle(handle.task, handle.correlation_id, runOf[t])]
  /\ runOf' = [runOf EXCEPT ![t] = run]
  /\ UNCHANGED <<setup, sessions, outputVars, calls, agentVars, observed, failures, restarts>>

TurnOf(call, n) ==
  [n |-> n, op |-> call.op, task |-> call.task, as |-> call.handle.correlation_id]

\* The agent acts: in the session resumed, in a copy of it, or in a new one.
Act(c) ==
  LET call == calls[c]
      turn == TurnOf(call, Turns + 1)
      before == IF call.mode = "new" THEN << >> ELSE history[call.session]
      session == IF call.mode = "resume" THEN call.session ELSE Len(history) + 1
  IN
  /\ call.phase = "called"
  /\ Turns < MaxTurns
  /\ history' = IF call.mode = "resume"
                THEN [history EXCEPT ![session] = Append(@, turn)]
                ELSE Append(history, Append(before, turn))
  /\ told' = IF call.op = "follow" THEN [told EXCEPT ![call.run] = @ \cup {turn}] ELSE told
  /\ calls' = [calls EXCEPT ![c].phase = "acted", ![c].session = session, ![c].turn = turn.n]
  /\ UNCHANGED <<setup, runOf, adapterVars, observed, failures, restarts>>

\* A call raises AgentAdapterError: the runner failed or timed out, the exit
\* code was not 0, or the output was refused.  What the agent printed is dropped.
Fail(c) ==
  /\ calls[c].phase \in {"called", "acted"}
  /\ failures < MaxFailures
  /\ failures' = failures + 1
  /\ calls' = [calls EXCEPT ![c] = Idle]
  /\ UNCHANGED <<setup, runOf, adapterVars, agentVars, observed, restarts>>

-----------------------------------------------------------------------------
\* What is taken as an answer: a harness looks at every line, a JSON command
\* and an SDK at the result; what a Python function returns is not looked at.
Accepted(output) ==
  \/ HasSessions /\ EventsCorrelate(output)
  \/ setup.adapter \in {"process", "framework"} /\ ResultCorrelates(output)
  \/ setup.adapter = "callable"

\* The lines that _queue_harness_events puts into the queue of a run.
Queued(call, output) ==
  LET asking == HumanLoopLines(output) IN
  [i \in 1 .. Len(asking) |->
     [about |-> asking[i].about, as |-> call.handle.correlation_id,
      answer |-> answers + 1, signature |-> asking[i].content.asks]]

\* _queue_harness_events and _accumulate_progress, for the answer of a call.
TakeLines(run, call, output) ==
  /\ answers' = answers + 1
  /\ queue' = [queue EXCEPT ![run] = @ \o Queued(call, output)]
  /\ IF TellsProgress(output)
     THEN /\ progress' = [progress EXCEPT ![run] = MergeProgress(@, output)]
          /\ printed' = [printed EXCEPT ![run] = @ \o output]
     ELSE UNCHANGED <<progress, printed>>

\* The call returns the run, and its caller binds the task to it, unless it is
\* task.assign and the task has moved on: that is refused and the run stays unbound.
ReturnRun(c, run) ==
  LET call == calls[c]
      parent == IF call.op = "delegate" THEN call.handle.parent_run ELSE call.run
  IN
  /\ call.phase = "acted" /\ call.op # "follow"
  /\ runs' = [runs EXCEPT ![run] =
       NewHandle(call.handle.task, call.handle.correlation_id, parent)]
  /\ \/ runOf' = [runOf EXCEPT ![call.task] = run]
     \/ call.op = "delegate" /\ parent = None /\ UNCHANGED runOf
  /\ told' = [told EXCEPT ![run] = @ \cup {TurnOf(call, call.turn)}]
  /\ calls' = [calls EXCEPT ![c] = Idle]
  /\ UNCHANGED <<setup, history, observed, failures, restarts>>

\* The run an answer is for: named by the agent, or the next number.
NamedRun(output, run) ==
  /\ NamesRun(output)
  /\ run \in AgentIds \ Named
  /\ UNCHANGED counter
NumberedRun(output, run) ==
  /\ ~NamesRun(output)
  /\ run = counter + 1 /\ counter < MaxTurns
  /\ counter' = run

\* HarnessAdapterBase.delegate and handoff, from the agent's answer.
ReturnHarnessRun(c, run, output) ==
  /\ HasSessions /\ Accepted(output)
  /\ ReturnRun(c, run)
  /\ NamedRun(output, run) \/ NumberedRun(output, run)
  /\ TakeLines(run, calls[c], output)
  /\ sessions' = IF TellsSession(output) THEN [sessions EXCEPT ![run] = calls[c].session]
                 ELSE sessions

\* ProcessAgentAdapter.delegate, which insists on a name, and handoff.
ReturnProcessRun(c, run, output) ==
  /\ setup.adapter = "process" /\ Accepted(output)
  /\ ReturnRun(c, run)
  /\ \/ NamedRun(output, run)
     \/ calls[c].op = "handoff" /\ NumberedRun(output, run)
  /\ UNCHANGED <<sessions, outputVars>>

\* _record_framework_result and the delegations of the SDK adapters.
ReturnRecordedRun(c, run, output) ==
  /\ setup.adapter = "framework" /\ Accepted(output)
  /\ ReturnRun(c, run)
  /\ NamedRun(output, run) \/ NumberedRun(output, run)
  /\ UNCHANGED <<sessions, outputVars>>

\* PythonCallableAgentAdapter.delegate: the number was taken before the call.
ReturnCallableRun(c, output) ==
  /\ setup.adapter = "callable" /\ Accepted(output)
  /\ calls[c].phase = "acted" /\ ReturnRun(c, calls[c].run)
  /\ UNCHANGED <<sessions, counter, outputVars>>

\* block, resume, steer and cancel, from the agent's answer.  A JSON command's
\* is not looked at.
ReturnFollow(c, output) ==
  LET call == calls[c] IN
  /\ call.phase = "acted" /\ call.op = "follow"
  /\ setup.adapter = "process" \/ Accepted(output)
  /\ IF HasSessions THEN TakeLines(call.run, call, output) ELSE UNCHANGED outputVars
  /\ calls' = [calls EXCEPT ![c] = Idle]
  /\ UNCHANGED <<setup, runOf, runs, sessions, counter, agentVars, observed, failures, restarts>>

\* codex_event_to_harness_event: a line about nobody is about the run's task.
\* Of no task here is a line that the adapter should not have taken.
Delivered(run, line) ==
  [task |-> CASE line.about = "nobody" -> runs[run].task
              [] line.about = "own" -> line.as
              [] OTHER -> None,
   answer |-> line.answer, signature |-> line.signature]

\* observe, or peek_events and ack_events: without a context an unknown run is refused.
Observe(t) ==
  LET run == runOf[t] IN
  /\ HasSessions
  /\ run # None /\ runs[run] # NoRun
  /\ queue[run] # << >>
  /\ observed' = [observed EXCEPT ![t] = @ \o
       [i \in 1 .. Len(queue[run]) |-> Delivered(run, queue[run][i])]]
  /\ queue' = [queue EXCEPT ![run] = << >>]
  /\ UNCHANGED <<setup, runOf, runs, sessions, progress, printed, answers, counter, calls,
                  agentVars, failures, restarts>>

\* The process stops, with the calls in progress; a new adapter knows nothing.
Restart ==
  /\ restarts < setup.restarts
  /\ restarts' = restarts + 1
  /\ runs' = [r \in RunIds |-> NoRun]
  /\ sessions' = [r \in RunIds |-> NoSession]
  /\ queue' = [r \in RunIds |-> << >>]
  /\ progress' = [r \in RunIds |-> NoProgress]
  /\ printed' = [r \in RunIds |-> << >>]
  /\ counter' = 0
  /\ calls' = [c \in Callers |-> Idle]
  /\ UNCHANGED <<setup, runOf, answers, agentVars, observed, failures>>

Return(c) ==
  \E output \in setup.prints :
    \/ ReturnFollow(c, output)
    \/ ReturnCallableRun(c, output)
    \/ \E run \in RunIds :
         \/ ReturnHarnessRun(c, run, output)
         \/ ReturnProcessRun(c, run, output)
         \/ ReturnRecordedRun(c, run, output)

Start(c, t) ==
  \/ \E parent \in RunIds \cup {None} : Delegate(c, t, parent)
  \/ Address(c, t, "follow") \/ Address(c, t, "handoff")

Next ==
  \/ \E c \in Callers :
       \/ \E t \in Tasks : Start(c, t)
       \/ Act(c) \/ Fail(c) \/ Return(c)
  \/ \E t \in Tasks : Record(t) \/ RecordHandoff(t) \/ Observe(t)
  \/ Restart

Spec == Init /\ [][Next]_vars
-----------------------------------------------------------------------------
TypeOK ==
  /\ setup \in Setup
  /\ runOf \in [Tasks -> RunIds \cup {None}]
  /\ runs \in [RunIds -> Handle \cup {NoRun}]
  /\ sessions \in [RunIds -> 0 .. Len(history)]
  /\ queue \in [RunIds -> Seq(Queuing)]
  /\ progress \in [RunIds -> Snapshot]
  /\ printed \in [RunIds -> Seq(Line)]
  /\ counter \in 0 .. MaxTurns
  /\ calls \in [Callers -> Call]
  /\ history \in Seq(Seq(Turn))
  /\ told \in [RunIds -> SUBSET Turn]
  /\ observed \in [Tasks -> Seq(Event)]
  /\ answers \in Nat
  /\ failures \in 0 .. MaxFailures
  /\ restarts \in Nat

\* "Implementations must keep task_id as the run correlation id"
\* (protocol.py:97-99): whatever other tasks do in between, every turn an
\* agent takes for a task is presented to it as one of that task.
CorrelationIsTask ==
  \A s \in DOMAIN history : \A i \in 1 .. Len(history[s]) :
    history[s][i].as = history[s][i].task

\* A native session is one task's: no agent reads two tasks' instructions as
\* one conversation, however runs of several tasks start, fail and fork.
SessionsDoNotMix ==
  \A s \in DOMAIN history : \A i, j \in 1 .. Len(history[s]) :
    history[s][i].task = history[s][j].task

\* Session continuity: the session kept for a run holds every turn the agent
\* acted on for the run, those of calls that timed out or were refused
\* included, also when they overlapped; after a fork, unlike after a delegation,
\* also the turns that the run it was forked from had by then.
SessionHoldsRun ==
  \A r \in RunIds :
    sessions[r] # NoSession =>
      LET known == Range(history[sessions[r]])
          parent == runs[r].parent_run
      IN
      /\ told[r] \subseteq known
      /\ \A own \in told[r] :
           (/\ own.op = "handoff" /\ setup.adapter = "forking"
            /\ parent # None /\ sessions[parent] # NoSession)
             => {turn \in told[parent] : turn.n < own.n} \subseteq known

\* A host that takes the events of a task's run gets events of that task,
\* each once and in the order in which the adapter took the answers they were
\* in, whichever calls overlapped and whichever run the task had at the time.
ObservedInOrder ==
  \A t \in Tasks :
    /\ \A i \in 1 .. Len(observed[t]) : observed[t][i].task = t
    /\ \A i, j \in 1 .. Len(observed[t]) : i < j =>
         /\ observed[t][i].answer <= observed[t][j].answer
         /\ observed[t][i] # observed[t][j]

\* However the lines about progress are spread over a run's calls and answers,
\* and whatever failed in between, the snapshot of the run says what all of
\* them together say (_merge_progress keeps only the snapshot, not the lines).
ProgressIsReplay ==
  HasSessions => \A r \in RunIds : Reports(progress[r], printed[r])

\* A run id that is known to the adapter never passes to another task.
RunKeepsTask ==
  [][\A r \in RunIds : (runs[r] # NoRun /\ runs'[r] # NoRun) => runs'[r].task = runs[r].task]_vars
=============================================================================
