--------------------------- MODULE AgentRuns_proofs ---------------------------
(***************************************************************************)
(* What AgentRuns guarantees for any tasks, agents and bounds as long as   *)
(* run ids stay unique: no native session holds turns of two tasks, a run  *)
(* id known to the adapter never passes to another task, the session kept  *)
(* for a run holds all that the run was told, agents are told their own    *)
(* task, and a host gets the events of a task's run once and in order.     *)
(*                                                                         *)
(* Run ids stay unique when the process is not restarted, or when agents   *)
(* name every run themselves.  The inductive invariant IInv says that the  *)
(* numbers not yet taken belong to nobody, that a task's run is the run of *)
(* no other task, and that whatever refers to a session, be it a run or a  *)
(* call in progress, refers to one of its own task.  Besides, TurnsInv      *)
(* says that turns are numbered and that what a run was told was a turn of *)
(* some session, ContInv what the sessions of runs and of calls contain,   *)
(* CorrInv as what task agents see a turn, and EventInv that what the host *)
(* took of a task's runs and what still waits in their queues is of later  *)
(* and later answers, whichever calls they came from.                      *)
(*                                                                         *)
(* Types and ProgressInv hold whatever happens to run ids: the state has   *)
(* its type, and the progress a run shows is what all the lines say that   *)
(* its agents printed, by induction over the lines of each answer.         *)
(***************************************************************************)
EXTENDS AgentRuns, SequenceTheorems, FiniteSetTheorems, TLAPS

\* No setup lets a counter that starts again at zero give out a run id.
RunIdsStayUnique ==
  \A s \in Setups :
    /\ s \in Setup
    /\ \/ s.restarts = 0
       \/ s.adapter \in {"harness", "forking", "process"} /\ \A o \in s.prints : NamesRun(o)

Active(c) == calls[c].phase # "idle"

CallType(call) ==
  \/ call = Idle
  \/ call \in [phase : {"called", "acted"}, op : Ops, task : Tasks,
               run : RunIds \cup {None}, handle : Handle,
               mode : {"new", "resume", "fork"}, session : Nat, turn : {call.turn}]

TypeInv ==
  /\ setup \in Setups
  /\ runOf \in [Tasks -> RunIds \cup {None}]
  /\ runs \in [RunIds -> Handle \cup {NoRun}]
  /\ sessions \in [RunIds -> Nat]
  /\ counter \in 0 .. MaxTurns
  /\ calls = [c \in Callers |-> calls[c]]
  /\ \A c \in Callers : CallType(calls[c])
  /\ \E S : history \in Seq(Seq(S))

\* A task's run is its own.
RunInv ==
  /\ \A t \in Tasks : runOf[t] # None => runs[runOf[t]] = NoRun \/ runs[runOf[t]].task = t
  /\ \A t, u \in Tasks : t # u /\ runOf[t] # None => runOf[t] # runOf[u]

\* The number a callable took belongs to nobody until its call returns.
Taken(c) ==
  /\ calls[c].run \in 1 .. counter
  /\ runs[calls[c].run] = NoRun
  /\ \A u \in Tasks : runOf[u] # calls[c].run
  /\ \A d \in Callers : d # c /\ Active(d) => calls[d].run # calls[c].run

\* What a call knows of its run is still so, whatever run the task has by now.
CallInv ==
  \A c \in Callers : Active(c) =>
    /\ calls[c].handle.task = calls[c].task
    /\ setup.adapter = "callable" => calls[c].op = "delegate" /\ Taken(c)
    /\ calls[c].op # "delegate" =>
         /\ calls[c].run \in RunIds /\ runs[calls[c].run] # NoRun
         /\ runs[calls[c].run].task = calls[c].task

\* The numbers still to come are free, and a restart makes none come again.
CounterInv ==
  /\ \A n \in counter + 1 .. MaxTurns : runs[n] = NoRun /\ \A t \in Tasks : runOf[t] # n
  /\ setup.restarts # 0 => counter = 0

\* Session s consists of turns for task t.
OneTask(s, t) ==
  /\ s \in 1 .. Len(history)
  /\ \A i \in 1 .. Len(history[s]) : history[s][i].task = t

RunSessions ==
  \A r \in RunIds : sessions[r] # NoSession =>
    runs[r] # NoRun /\ OneTask(sessions[r], runs[r].task)
CallSessions ==
  \A c \in Callers :
    calls[c].phase = "acted" \/ (calls[c].phase = "called" /\ calls[c].mode # "new")
      => OneTask(calls[c].session, calls[c].task)
Histories ==
  \A s \in 1 .. Len(history) : Len(history[s]) >= 1 /\ \E t \in Tasks : OneTask(s, t)
SessionInv == RunSessions /\ CallSessions /\ Histories

IInv == TypeInv /\ RunInv /\ CallInv /\ CounterInv /\ SessionInv
-----------------------------------------------------------------------------
LEMMA InitIInv == Init => IInv
<1> SUFFICES ASSUME Init PROVE IInv
  OBVIOUS
<1>1. history = << >> /\ Len(history) = 0 /\ \E S : history \in Seq(Seq(S))
  BY DEF Init
<1>2. TypeInv
  BY <1>1, RunConstants DEF Init, TypeInv, CallType, NoSession
<1>3. (\A c \in Callers : calls[c].phase = "idle") /\ \A t \in Tasks : runOf[t] = None
  BY DEF Init, Idle
<1>4. RunInv /\ CallInv
  BY <1>3 DEF RunInv, CallInv, Active
<1>5. CounterInv
  BY RunConstants DEF Init, CounterInv, RunIds, None
<1>6. SessionInv
  BY <1>1, <1>3 DEF Init, SessionInv, RunSessions, CallSessions, Histories
<1> QED BY <1>2, <1>4, <1>5, <1>6 DEF IInv

\* A call in progress has all the fields of one.
LEMMA ActiveCall ==
  ASSUME TypeInv, NEW c \in Callers, Active(c)
  PROVE  calls[c] \in [phase : {"called", "acted"}, op : Ops, task : Tasks,
                       run : RunIds \cup {None}, handle : Handle,
                       mode : {"new", "resume", "fork"}, session : Nat, turn : {calls[c].turn}]
BY DEF TypeInv, CallType, Active, Idle

\* The handle of a task's run is one of that task.
LEMMA RequireRunFacts ==
  ASSUME TypeInv, RunInv, NEW t \in Tasks, runOf[t] # None
  PROVE  /\ RequireRun(t) \in Handle /\ RequireRun(t).task = t
         /\ RequireRun(t) # NoRun /\ runOf[t] \in RunIds
         /\ runs[runOf[t]] # NoRun => RequireRun(t) = runs[runOf[t]]
<1>1. runOf[t] \in RunIds /\ runs[runOf[t]] \in Handle \cup {NoRun}
  BY DEF TypeInv
<1>2. CASE runs[runOf[t]] # NoRun
  BY <1>1, <1>2 DEF RequireRun, RunInv
<1>3. CASE runs[runOf[t]] = NoRun
  <2>1. RequireRun(t) = [task |-> t, correlation_id |-> t, parent_run |-> None]
    BY <1>3 DEF RequireRun, NewHandle
  <2>2. RequireRun(t) \in Handle /\ RequireRun(t).task = t
    BY <2>1 DEF Handle
  <2>3. RequireRun(t) # NoRun
    BY <2>2, RunConstants DEF NoRun
  <2> QED BY <1>1, <1>3, <2>2, <2>3
<1> QED BY <1>2, <1>3

\* Handles have a task, the absence of one has none.
LEMMA HandleIsRun == ASSUME NEW h \in Handle PROVE h # NoRun
BY RunConstants DEF Handle, NoRun

\* A setup that restarts lets agents name the runs.
LEMMA SetupFacts ==
  ASSUME RunIdsStayUnique, TypeInv
  PROVE  /\ setup \in Setup
         /\ setup.restarts # 0 => /\ setup.adapter \in {"harness", "forking", "process"}
                                 /\ \A o \in setup.prints : NamesRun(o)
BY DEF RunIdsStayUnique, TypeInv

\* Taking numbers leaves fewer to come.
LEMMA LaterNumbers ==
  \A m \in Nat : \A c, d \in 0 .. m : c <= d => d + 1 .. m \subseteq c + 1 .. m
OBVIOUS
-----------------------------------------------------------------------------
KeepsTask ==
  \A r \in RunIds : runs[r] # NoRun /\ runs'[r] # NoRun => runs'[r].task = runs[r].task

\* A call ends without a run: it failed, or was a follow-up.
LEMMA EndStep ==
  ASSUME IInv, NEW c \in Callers, calls' = [calls EXCEPT ![c] = Idle],
         UNCHANGED <<setup, runOf, runs, sessions, counter, history>>
  PROVE  IInv' /\ KeepsTask
<1>1. /\ calls' = [d \in Callers |-> calls'[d]] /\ calls'[c] = Idle
      /\ \A d \in Callers : d # c => calls'[d] = calls[d]
  BY DEF IInv, TypeInv
<1>2. TypeInv'
  BY <1>1 DEF IInv, TypeInv, CallType
<1>3. RunInv' /\ CounterInv'
  BY DEF IInv, RunInv, CounterInv
<1>4. CallInv'
  BY <1>1 DEF IInv, CallInv, Active, Taken, Idle
<1>5. SessionInv'
  BY <1>1 DEF IInv, SessionInv, RunSessions, CallSessions, Histories, OneTask, Idle
<1> QED BY <1>2, <1>3, <1>4, <1>5 DEF IInv, KeepsTask

LEMMA DelegateStep ==
  ASSUME RunIdsStayUnique, IInv, NEW c \in Callers, NEW t \in Tasks,
         NEW parent \in RunIds \cup {None}, Delegate(c, t, parent)
  PROVE  IInv' /\ KeepsTask
<1> DEFINE taken == IF setup.adapter = "callable" THEN counter + 1 ELSE None
           new == [phase |-> "called", op |-> "delegate", task |-> t, run |-> taken,
                   handle |-> NewHandle(t, t, parent), mode |-> "new",
                   session |-> NoSession, turn |-> 0]
<1>1. /\ calls[c] = Idle
      /\ IF setup.adapter = "callable" THEN counter < MaxTurns /\ counter' = counter + 1
         ELSE counter' = counter
      /\ calls' = [calls EXCEPT ![c] = new]
      /\ UNCHANGED <<setup, runOf, runs, sessions, history>>
  BY DEF Delegate, Calling, agentVars
<1>2. /\ calls' = [d \in Callers |-> calls'[d]] /\ calls'[c] = new
      /\ \A d \in Callers : d # c => calls'[d] = calls[d]
  BY <1>1 DEF IInv, TypeInv
<1>3. counter \in 0 .. MaxTurns /\ counter' \in 0 .. MaxTurns /\ MaxTurns \in Nat
      /\ counter <= counter'
  BY <1>1, RunConstants DEF IInv, TypeInv
<1>4. taken \in RunIds \cup {None}
  BY <1>1, <1>3 DEF RunIds
<1>5. NewHandle(t, t, parent) \in Handle /\ NewHandle(t, t, parent).task = t
  BY DEF NewHandle, Handle
<1> HIDE DEF taken
<1>6. CallType(new) /\ new.phase = "called" /\ new.op = "delegate" /\ new.run = taken
      /\ new.handle.task = new.task /\ new.mode = "new"
  BY <1>4, <1>5, RunConstants DEF CallType, NoSession, Ops
<1> HIDE DEF new
<1>7. TypeInv'
  BY <1>1, <1>2, <1>3, <1>6 DEF IInv, TypeInv, CallType
<1>8. RunInv'
  BY <1>1 DEF IInv, RunInv
<1>9. CounterInv'
  <2>1. setup.adapter = "callable" => setup.restarts = 0
    BY SetupFacts DEF IInv
  <2>2. counter' + 1 .. MaxTurns \subseteq counter + 1 .. MaxTurns
    BY <1>3, LaterNumbers
  <2> QED BY <1>1, <2>1, <2>2 DEF IInv, CounterInv
<1>10. CallInv'
  <2>1. \A d \in Callers : d # c => (Active(d)' <=> Active(d))
    BY <1>2 DEF Active
  <2>2. ASSUME setup.adapter = "callable" PROVE Taken(c)'
    <3>1. taken = counter + 1 /\ counter' = counter + 1 /\ counter + 1 \in counter + 1 .. MaxTurns
      BY <1>1, <1>3, <2>2 DEF taken
    <3>2. runs[counter + 1] = NoRun /\ \A u \in Tasks : runOf[u] # counter + 1
      BY <3>1 DEF IInv, CounterInv
    <3>3. ASSUME NEW d \in Callers, d # c, Active(d) PROVE calls[d].run # counter + 1
      <4>1. calls[d].run \in 1 .. counter
        BY <2>2, <3>3 DEF IInv, CallInv, Taken
      <4> QED BY <4>1, <1>3
    <3>4. calls'[c].run = counter + 1 /\ counter + 1 \in 1 .. counter'
      BY <1>2, <1>3, <1>6, <3>1
    <3> QED BY <1>1, <1>2, <2>1, <3>2, <3>3, <3>4 DEF Taken
  <2>3. ASSUME NEW d \in Callers, d # c, Active(d), setup.adapter = "callable" PROVE Taken(d)'
    <3>1. Taken(d)
      BY <2>3 DEF IInv, CallInv
    <3>2. calls[d].run \in 1 .. counter' /\ calls[d].run # counter + 1
      BY <3>1, <1>3 DEF Taken
    <3>3. calls'[c].run # calls[d].run
      BY <1>2, <1>6, <3>2, <2>3 DEF taken
    <3> QED BY <1>1, <1>2, <2>1, <2>3, <3>1, <3>2, <3>3 DEF Taken
  <2> QED BY <1>1, <1>2, <1>6, <2>1, <2>2, <2>3 DEF IInv, CallInv
<1>11. SessionInv'
  BY <1>1, <1>2, <1>6 DEF IInv, SessionInv, RunSessions, CallSessions, Histories, OneTask
<1> QED BY <1>1, <1>7, <1>8, <1>9, <1>10, <1>11 DEF IInv, KeepsTask

\* A handle known to the adapter is replaced by itself, an unknown one of a
\* task's run by one of that task.
LEMMA KnowRun ==
  ASSUME IInv, NEW t \in Tasks, runOf[t] # None,
         runs' = [runs EXCEPT ![runOf[t]] = RequireRun(t)],
         UNCHANGED <<setup, runOf, sessions, history>>
  PROVE  /\ runs' \in [RunIds -> Handle \cup {NoRun}]
         /\ \A r \in RunIds : runs[r] # NoRun => runs'[r] = runs[r]
         /\ \A r \in RunIds : r # runOf[t] => runs'[r] = runs[r]
         /\ runs'[runOf[t]] = RequireRun(t) /\ runs'[runOf[t]] # NoRun
         /\ RunInv'
         /\ RunSessions'
         /\ KeepsTask
<1>1. /\ runs \in [RunIds -> Handle \cup {NoRun}] /\ runOf[t] \in RunIds
      /\ RequireRun(t) \in Handle /\ RequireRun(t).task = t /\ RequireRun(t) # NoRun
      /\ runs[runOf[t]] # NoRun => RequireRun(t) = runs[runOf[t]]
  BY RequireRunFacts DEF IInv, TypeInv
<1>2. runs' \in [RunIds -> Handle \cup {NoRun}]
  BY <1>1
<1>3. runs'[runOf[t]] = RequireRun(t) /\ \A r \in RunIds : r # runOf[t] => runs'[r] = runs[r]
  BY <1>1
<1>4. \A r \in RunIds : runs[r] # NoRun => runs'[r] = runs[r]
  BY <1>1, <1>3
<1>5. RunInv'
  <2>1. ASSUME NEW u \in Tasks, runOf[u] # None
        PROVE  runs'[runOf[u]] = NoRun \/ runs'[runOf[u]].task = u
    <3>1. CASE u = t
      BY <1>1, <1>3, <3>1
    <3>2. CASE u # t
      <4>1. runOf[u] # runOf[t] /\ runOf[u] \in RunIds
        BY <2>1, <3>2 DEF IInv, RunInv, TypeInv
      <4> QED BY <4>1, <1>3, <2>1 DEF IInv, RunInv
    <3> QED BY <3>1, <3>2
  <2> QED BY <2>1 DEF IInv, RunInv
<1>6. \A r \in RunIds : sessions[r] # NoSession => runs'[r] # NoRun /\ OneTask(sessions[r], runs'[r].task)
  BY <1>4 DEF IInv, SessionInv, RunSessions
<1>7. RunSessions'
  BY <1>6 DEF RunSessions, OneTask
<1> QED BY <1>1, <1>2, <1>3, <1>4, <1>5, <1>7 DEF KeepsTask

LEMMA AddressStep ==
  ASSUME IInv, NEW c \in Callers, NEW t \in Tasks, NEW op \in {"follow", "handoff"}, Address(c, t, op)
  PROVE  IInv' /\ KeepsTask
<1> DEFINE run == runOf[t]
           mode == CommandMode(op, run)
           session == IF mode = "new" THEN NoSession ELSE sessions[run]
           new == [phase |-> "called", op |-> op, task |-> t, run |-> run, handle |-> RequireRun(t),
                   mode |-> mode, session |-> session, turn |-> 0]
<1>1. /\ calls[c] = Idle /\ run # None /\ ~RecordsOnly
      /\ runs' = [runs EXCEPT ![run] = RequireRun(t)]
      /\ calls' = [calls EXCEPT ![c] = new]
      /\ UNCHANGED <<setup, runOf, sessions, counter, history>>
  BY DEF Address, Calling, agentVars
<1>2. /\ calls' = [d \in Callers |-> calls'[d]] /\ calls'[c] = new
      /\ \A d \in Callers : d # c => calls'[d] = calls[d]
  BY <1>1 DEF IInv, TypeInv
<1>3. /\ RequireRun(t) \in Handle /\ RequireRun(t).task = t /\ run \in RunIds
      /\ runs[run] # NoRun => RequireRun(t) = runs[run]
  BY <1>1, RequireRunFacts DEF IInv
<1>4. /\ runs' \in [RunIds -> Handle \cup {NoRun}]
      /\ \A r \in RunIds : runs[r] # NoRun => runs'[r] = runs[r]
      /\ runs'[run] # NoRun
      /\ \A r \in RunIds : r # run => runs'[r] = runs[r]
      /\ RunInv' /\ RunSessions' /\ KeepsTask
  BY <1>1, KnowRun
<1>5. mode \in {"new", "resume", "fork"} /\ session \in Nat
      /\ (mode # "new" => OneTask(session, t))
  <2>1. mode \in {"new", "resume", "fork"} /\ (mode # "new" => sessions[run] # NoSession)
    BY DEF CommandMode
  <2>2. sessions[run] # NoSession => runs[run] # NoRun /\ OneTask(sessions[run], runs[run].task)
    BY <1>3 DEF IInv, SessionInv, RunSessions
  <2>3. runs[run] # NoRun => runs[run].task = t
    BY <1>3
  <2>4. sessions[run] \in Nat
    BY <1>3 DEF IInv, TypeInv
  <2> QED BY <2>1, <2>2, <2>3, <2>4 DEF NoSession
<1> HIDE DEF run, mode, session
<1>6. CallType(new) /\ new.phase = "called" /\ new.op # "delegate" /\ new.run = run
      /\ new.handle.task = t /\ new.task = t /\ new.mode = mode /\ new.session = session
  BY <1>3, <1>5 DEF CallType, Ops
<1> HIDE DEF new
<1>7. TypeInv'
  BY <1>1, <1>2, <1>4, <1>6 DEF IInv, TypeInv, CallType
<1>8. CallInv'
  <2>1. setup.adapter # "callable"
    BY <1>1 DEF RecordsOnly
  <2>2. ASSUME NEW d \in Callers, d # c, Active(d), calls[d].op # "delegate"
        PROVE  /\ calls[d].run \in RunIds /\ runs'[calls[d].run] # NoRun
               /\ runs'[calls[d].run].task = calls[d].task
    BY <2>2, <1>4 DEF IInv, CallInv
  <2>3. \A d \in Callers : d # c => (Active(d)' <=> Active(d))
    BY <1>2 DEF Active
  <2>4. run \in RunIds /\ runs'[run] # NoRun /\ runs'[run].task = t
    BY <1>1, <1>3, <1>4 DEF IInv, TypeInv, run
  <2> QED BY <1>1, <1>2, <1>6, <2>1, <2>2, <2>3, <2>4 DEF IInv, CallInv
<1>9. CounterInv'
  <2>1. ASSUME NEW n \in counter + 1 .. MaxTurns PROVE runs'[n] = NoRun
    <3>1. n \in RunIds /\ runs[n] = NoRun /\ n # run
      BY RunConstants DEF IInv, CounterInv, TypeInv, RunIds, run
    <3> QED BY <3>1, <1>4
  <2> QED BY <1>1, <2>1 DEF IInv, CounterInv
<1>10. SessionInv'
  BY <1>1, <1>2, <1>4, <1>5, <1>6 DEF IInv, SessionInv, CallSessions, Histories, OneTask
<1> QED BY <1>4, <1>7, <1>8, <1>9, <1>10 DEF IInv

LEMMA RecordStep == ASSUME IInv, NEW t \in Tasks, Record(t) PROVE IInv' /\ KeepsTask
<1>1. /\ runOf[t] # None
      /\ runs' = [runs EXCEPT ![runOf[t]] = RequireRun(t)]
      /\ UNCHANGED <<setup, runOf, sessions, counter, calls, history>>
  BY DEF Record, agentVars
<1>2. /\ runs' \in [RunIds -> Handle \cup {NoRun}]
      /\ \A r \in RunIds : runs[r] # NoRun => runs'[r] = runs[r]
      /\ \A r \in RunIds : r # runOf[t] => runs'[r] = runs[r]
      /\ runs'[runOf[t]] # NoRun
      /\ RunInv' /\ RunSessions' /\ KeepsTask
  BY <1>1, KnowRun
<1>3. TypeInv'
  BY <1>1, <1>2 DEF IInv, TypeInv
<1>4. CallInv'
  <2>1. ASSUME NEW c \in Callers, Active(c), calls[c].op # "delegate"
        PROVE  runs'[calls[c].run] = runs[calls[c].run] /\ calls[c].run \in RunIds
    BY <2>1, <1>2 DEF IInv, CallInv
  <2>2. ASSUME NEW c \in Callers, Active(c), setup.adapter = "callable" PROVE Taken(c)'
    <3>1. Taken(c)
      BY <2>2 DEF IInv, CallInv
    <3>2. calls[c].run \in RunIds /\ calls[c].run # runOf[t]
      BY <3>1, RunConstants DEF Taken, RunIds, IInv, TypeInv
    <3>3. runs'[calls[c].run] = NoRun
      BY <3>1, <3>2, <1>2 DEF Taken
    <3> QED BY <1>1, <3>1, <3>3 DEF Taken, Active
  <2> QED BY <1>1, <2>1, <2>2 DEF IInv, CallInv, Active
<1>5. CounterInv'
  <2>1. ASSUME NEW n \in counter + 1 .. MaxTurns PROVE runs'[n] = NoRun
    <3>1. n \in RunIds /\ runs[n] = NoRun /\ n # runOf[t]
      BY RunConstants DEF IInv, CounterInv, TypeInv, RunIds
    <3> QED BY <3>1, <1>2
  <2> QED BY <1>1, <2>1 DEF IInv, CounterInv
<1>6. SessionInv'
  BY <1>1, <1>2 DEF IInv, SessionInv, CallSessions, Histories, OneTask
<1> QED BY <1>2, <1>3, <1>4, <1>5, <1>6 DEF IInv

\* A run that nobody had, given to a task, disturbs no other run.
LEMMA NewRun ==
  ASSUME IInv, NEW t \in Tasks, NEW run \in RunIds,
         runs[run] = NoRun, \A u \in Tasks : runOf[u] # run,
         runs' \in [RunIds -> Handle \cup {NoRun}], runs'[run] # NoRun, runs'[run].task = t,
         \A r \in RunIds : runs[r] # NoRun => runs'[r] = runs[r],
         \A r \in RunIds : r # run /\ r # runOf[t] => runs'[r] = runs[r],
         runOf[t] # None => runs'[runOf[t]] = NoRun \/ runs'[runOf[t]].task = t,
         runOf' = [runOf EXCEPT ![t] = run] \/ runOf' = runOf, UNCHANGED setup
  PROVE  /\ runOf' \in [Tasks -> RunIds \cup {None}]
         /\ runOf'[t] \in {run, runOf[t]} /\ \A u \in Tasks : u # t => runOf'[u] = runOf[u]
         /\ RunInv' /\ KeepsTask
<1>1. runOf \in [Tasks -> RunIds \cup {None}]
  BY DEF IInv, TypeInv
<1>2. /\ runOf' \in [Tasks -> RunIds \cup {None}]
      /\ runOf'[t] \in {run, runOf[t]} /\ \A u \in Tasks : u # t => runOf'[u] = runOf[u]
  BY <1>1
<1>3. ASSUME NEW u \in Tasks, runOf'[u] # None
      PROVE  runs'[runOf'[u]] = NoRun \/ runs'[runOf'[u]].task = u
  <2>1. CASE u = t
    <3>1. CASE runOf'[t] = run
      BY <2>1, <3>1
    <3>2. CASE runOf'[t] = runOf[t]
      <4>1. runOf[t] # None /\ runOf[t] # run /\ runOf[t] \in RunIds
        BY <1>1, <1>3, <2>1, <3>2
      <4> QED BY <2>1, <3>2, <4>1
    <3> QED BY <1>2, <3>1, <3>2
  <2>2. CASE u # t
    <3>1. runOf[u] # None /\ runOf[u] # run /\ runOf[u] # runOf[t] /\ runOf[u] \in RunIds
      BY <1>1, <1>2, <1>3, <2>2 DEF IInv, RunInv
    <3>2. runs'[runOf'[u]] = runs[runOf[u]]
      BY <3>1, <1>2, <2>2
    <3> QED BY <3>1, <3>2 DEF IInv, RunInv
  <2> QED BY <2>1, <2>2
<1>4. ASSUME NEW u \in Tasks, NEW v \in Tasks, u # v, runOf'[u] # None PROVE runOf'[u] # runOf'[v]
  BY <1>2, <1>4 DEF IInv, RunInv
<1>5. RunInv'
  BY <1>3, <1>4 DEF RunInv
<1> QED BY <1>2, <1>5 DEF KeepsTask

LEMMA RecordHandoffStep ==
  ASSUME RunIdsStayUnique, IInv, NEW t \in Tasks, RecordHandoff(t)
  PROVE  IInv' /\ KeepsTask
<1> DEFINE handle == RequireRun(t)
           run == counter + 1
           new == NewHandle(handle.task, handle.correlation_id, runOf[t])
<1>1. /\ runOf[t] # None /\ RecordsOnly
      /\ counter < MaxTurns /\ counter' = run
      /\ runs' = [runs EXCEPT ![runOf[t]] = handle, ![run] = new]
      /\ runOf' = [runOf EXCEPT ![t] = run]
      /\ UNCHANGED <<setup, sessions, calls, history>>
  BY DEF RecordHandoff, agentVars
<1>2. /\ runs \in [RunIds -> Handle \cup {NoRun}] /\ runOf[t] \in RunIds
      /\ handle \in Handle /\ handle.task = t /\ handle # NoRun
      /\ runs[runOf[t]] # NoRun => handle = runs[runOf[t]]
  BY <1>1, RequireRunFacts DEF IInv, TypeInv
<1>3. counter \in 0 .. MaxTurns /\ counter' \in 0 .. MaxTurns /\ MaxTurns \in Nat
      /\ counter < counter' /\ run \in counter + 1 .. MaxTurns /\ run \in RunIds
      /\ counter' + 1 .. MaxTurns \subseteq counter + 1 .. MaxTurns
  <2>1. counter \in 0 .. MaxTurns /\ MaxTurns \in Nat /\ counter < MaxTurns
    BY <1>1, RunConstants DEF IInv, TypeInv
  <2>2. run \in counter + 1 .. MaxTurns /\ run \in 0 .. MaxTurns /\ counter < run /\ run \in RunIds
    BY <2>1 DEF RunIds
  <2> QED BY <1>1, <2>1, <2>2, LaterNumbers
<1>4. runs[run] = NoRun /\ \A u \in Tasks : runOf[u] # run
  BY <1>3 DEF IInv, CounterInv
<1>5. new \in Handle /\ new.task = t /\ new # NoRun
  <2>1. new \in Handle /\ new.task = t
    BY <1>2 DEF NewHandle, Handle
  <2> QED BY <2>1, HandleIsRun
<1> HIDE DEF handle, new
<1>6. /\ runs' \in [RunIds -> Handle \cup {NoRun}]
      /\ runs'[run] = new
      /\ runs'[runOf[t]] = handle
      /\ \A r \in RunIds : r # run /\ r # runOf[t] => runs'[r] = runs[r]
  BY <1>1, <1>2, <1>3, <1>4, <1>5
<1>7. \A r \in RunIds : runs[r] # NoRun => runs'[r] = runs[r]
  BY <1>2, <1>4, <1>6
<1>8. /\ runOf' \in [Tasks -> RunIds \cup {None}]
      /\ runOf'[t] \in {run, runOf[t]} /\ \A u \in Tasks : u # t => runOf'[u] = runOf[u]
      /\ RunInv' /\ KeepsTask
  <2>1. run \in RunIds /\ runs'[run] # NoRun /\ runs'[run].task = t
    BY <1>3, <1>5, <1>6
  <2>2. runOf' = [runOf EXCEPT ![t] = run] /\ setup' = setup
    BY <1>1
  <2>3. /\ runs[run] = NoRun /\ \A u \in Tasks : runOf[u] # run
        /\ runs' \in [RunIds -> Handle \cup {NoRun}]
        /\ \A r \in RunIds : r # run /\ r # runOf[t] => runs'[r] = runs[r]
        /\ runs'[runOf[t]].task = t
    BY <1>2, <1>4, <1>6
  <2> HIDE DEF run
  <2> QED BY <1>7, <2>1, <2>2, <2>3, NewRun
<1>9. TypeInv'
  BY <1>1, <1>3, <1>6, <1>8 DEF IInv, TypeInv
<1>10. CallInv'
  <2>1. ASSUME NEW c \in Callers, Active(c), calls[c].op # "delegate"
        PROVE  runs'[calls[c].run] = runs[calls[c].run] /\ calls[c].run \in RunIds
    BY <1>7, <2>1 DEF IInv, CallInv
  <2>2. ASSUME NEW c \in Callers, Active(c), setup.adapter = "callable" PROVE Taken(c)'
    <3>1. Taken(c)
      BY <2>2 DEF IInv, CallInv
    <3> DEFINE n == calls[c].run
    <3>2. n \in 1 .. counter' /\ n \in RunIds /\ n # run /\ n # runOf[t]
      BY <3>1, <1>3 DEF Taken, RunIds
    <3>3. runs'[n] = NoRun
      BY <3>1, <3>2, <1>6 DEF Taken
    <3>4. \A v \in Tasks : runOf'[v] # n
      BY <3>1, <3>2, <1>8 DEF Taken
    <3> QED BY <1>1, <3>1, <3>2, <3>3, <3>4 DEF Taken, Active
  <2>3. \A c \in Callers : Active(c)' <=> Active(c)
    BY <1>1 DEF Active
  <2> QED BY <1>1, <2>1, <2>2, <2>3 DEF IInv, CallInv
<1>11. CounterInv'
  <2>1. setup.restarts = 0
    BY <1>1, SetupFacts DEF IInv, RecordsOnly
  <2>2. ASSUME NEW n \in counter' + 1 .. MaxTurns
        PROVE  runs'[n] = NoRun /\ \A u \in Tasks : runOf'[u] # n
    <3>1. n \in counter + 1 .. MaxTurns /\ n # run
      BY <1>1, <1>3, <2>2
    <3>2. runs[n] = NoRun /\ (\A u \in Tasks : runOf[u] # n) /\ n \in RunIds
      BY <3>1, <1>3 DEF IInv, CounterInv, RunIds
    <3> QED BY <3>1, <3>2, <1>6, <1>8
  <2> QED BY <1>1, <2>1, <2>2 DEF CounterInv
<1>12. SessionInv'
  <2>1. \A r \in RunIds : sessions[r] # NoSession =>
          runs'[r] # NoRun /\ OneTask(sessions[r], runs'[r].task)
    BY <1>7 DEF IInv, SessionInv, RunSessions
  <2>2. RunSessions'
    BY <1>1, <2>1 DEF RunSessions, OneTask
  <2> QED BY <1>1, <2>2 DEF IInv, SessionInv, CallSessions, Histories, OneTask
<1> QED BY <1>8, <1>9, <1>10, <1>11, <1>12 DEF IInv

\* The session an agent acts in.
SessionUsed(c) ==
  IF calls[c].mode = "resume" THEN calls[c].session ELSE Len(history) + 1

\* An agent's turn goes to a session of its task, or to a new one.
LEMMA ActHistory ==
  ASSUME IInv, NEW c \in Callers, Act(c), NEW session, session = SessionUsed(c)
  PROVE  /\ calls'[c].session = session
         /\ \E S : history' \in Seq(Seq(S))
         /\ session \in Nat /\ OneTask(session, calls[c].task)'
         /\ \A s, u : OneTask(s, u) => OneTask(s, u)'
         /\ \A s \in 1 .. Len(history') : s # session => s \in 1 .. Len(history) /\ history'[s] = history[s]
         /\ Len(history'[session]) >= 1
<1> DEFINE call == calls[c]
           turn == TurnOf(call, Turns + 1)
           t == call.task
           before == IF call.mode = "new" THEN << >> ELSE history[call.session]
           kept == IF call.mode = "resume" THEN history[call.session] ELSE before
<1>1. /\ session = IF call.mode = "resume" THEN call.session ELSE Len(history) + 1
      /\ call.phase = "called"
      /\ history' = IF call.mode = "resume"
                    THEN [history EXCEPT ![session] = Append(@, turn)]
                    ELSE Append(history, Append(before, turn))
      /\ calls' = [calls EXCEPT ![c].phase = "acted", ![c].session = session, ![c].turn = turn.n]
  BY DEF Act, SessionUsed
<1>2. call \in [phase : {"called", "acted"}, op : Ops, task : Tasks,
                run : RunIds \cup {None}, handle : Handle,
                mode : {"new", "resume", "fork"}, session : Nat, turn : {call.turn}]
  BY <1>1, ActiveCall DEF IInv, Active
<1>3. calls'[c].session = session /\ calls'[c].task = t
  <2> HIDE DEF turn
  <2> QED BY <1>1, <1>2 DEF IInv, TypeInv
<1>4. PICK S : history \in Seq(Seq(S))
  BY DEF IInv, TypeInv
<1> DEFINE T == S \cup {turn}
<1>5. Len(history) \in Nat /\ history \in Seq(Seq(T))
  <2>1. Seq(S) \subseteq Seq(T)
    BY SeqMonotonic
  <2> QED BY <1>4, <2>1, SeqMonotonic
<1>6. call.mode # "new" => OneTask(call.session, t)
  BY <1>1 DEF IInv, SessionInv, CallSessions
<1>7. kept \in Seq(T) /\ \A i \in 1 .. Len(kept) : kept[i].task = t
  <2>1. CASE call.mode = "new"
    BY <2>1
  <2>2. CASE call.mode # "new"
    BY <2>2, <1>5, <1>6 DEF OneTask
  <2> QED BY <2>1, <2>2
<1>8. turn \in T /\ turn.task = t
  BY DEF TurnOf
<1> HIDE DEF turn, before, T
<1> DEFINE longer == Append(kept, turn)
<1>9. longer \in Seq(T) /\ Len(longer) = Len(kept) + 1 /\ Len(longer) >= 1
      /\ \A i \in 1 .. Len(longer) : longer[i].task = t
  <2> HIDE DEF kept
  <2> QED BY <1>7, <1>8
<1>10. /\ history' \in Seq(Seq(T))
       /\ session \in 1 .. Len(history') /\ history'[session] = longer
       /\ Len(history') >= Len(history)
       /\ \A s \in 1 .. Len(history') : s # session => s \in 1 .. Len(history) /\ history'[s] = history[s]
       /\ session \in 1 .. Len(history) => call.mode = "resume"
  <2>1. CASE call.mode = "resume"
    <3>1. session = call.session /\ session \in 1 .. Len(history)
          /\ history' = [history EXCEPT ![session] = longer]
      BY <1>1, <1>6, <2>1 DEF OneTask
    <3> HIDE DEF longer
    <3> QED BY <2>1, <3>1, <1>5, <1>9
  <2>2. CASE call.mode # "resume"
    <3>1. session = Len(history) + 1 /\ history' = Append(history, longer)
      BY <1>1, <2>2
    <3> HIDE DEF longer
    <3> QED BY <2>2, <3>1, <1>5, <1>9
  <2> QED BY <2>1, <2>2
<1> HIDE DEF longer, kept
<1>11. OneTask(session, calls[c].task)'
  BY <1>3, <1>9, <1>10 DEF OneTask
<1>12. ASSUME NEW s, NEW u, OneTask(s, u) PROVE OneTask(s, u)'
  <2>1. s \in 1 .. Len(history')
    BY <1>5, <1>10, <1>12 DEF OneTask
  <2>2. CASE s # session
    BY <1>10, <1>12, <2>1, <2>2 DEF OneTask
  <2>3. CASE s = session
    <3>1. OneTask(session, t) /\ session \in 1 .. Len(history)
      BY <1>1, <1>6, <1>10, <1>12, <2>3 DEF OneTask
    <3>2. 1 \in 1 .. Len(history[session])
      BY <1>5, <3>1 DEF IInv, SessionInv, Histories
    <3>3. history[session][1].task = t /\ history[session][1].task = u
      BY <1>12, <2>3, <3>1, <3>2 DEF OneTask
    <3> QED BY <1>3, <1>11, <2>3, <3>3
  <2> QED BY <2>2, <2>3
<1>13. session \in Nat
  BY <1>10, <1>1, <1>2, <1>5
<1> QED BY <1>3, <1>9, <1>10, <1>11, <1>12, <1>13

LEMMA ActStep == ASSUME IInv, NEW c \in Callers, Act(c) PROVE IInv' /\ KeepsTask
<1> DEFINE call == calls[c]
<1>1. PICK session : session = SessionUsed(c)
  OBVIOUS
<1>2. /\ call.phase = "called"
      /\ UNCHANGED <<setup, runOf, runs, sessions, counter>>
      /\ \E n : calls' = [calls EXCEPT ![c].phase = "acted", ![c].session = session, ![c].turn = n]
  BY <1>1 DEF Act, SessionUsed, adapterVars
<1>3. call \in [phase : {"called", "acted"}, op : Ops, task : Tasks,
                run : RunIds \cup {None}, handle : Handle,
                mode : {"new", "resume", "fork"}, session : Nat, turn : {call.turn}]
  BY <1>2, ActiveCall DEF IInv, Active
<1>4. /\ calls'[c].session = session
      /\ \E S : history' \in Seq(Seq(S))
      /\ session \in Nat /\ OneTask(session, calls[c].task)'
      /\ \A s, u : OneTask(s, u) => OneTask(s, u)'
      /\ \A s \in 1 .. Len(history') : s # session => s \in 1 .. Len(history) /\ history'[s] = history[s]
      /\ Len(history'[session]) >= 1
  BY <1>1, ActHistory
<1>5. /\ calls' = [d \in Callers |-> calls'[d]]
      /\ CallType(calls'[c]) /\ calls'[c].phase = "acted" /\ calls'[c].op = call.op
      /\ calls'[c].run = call.run /\ calls'[c].handle = call.handle /\ calls'[c].task = call.task
      /\ \A d \in Callers : d # c => calls'[d] = calls[d]
  <2>1. PICK n : calls' = [calls EXCEPT ![c].phase = "acted", ![c].session = session, ![c].turn = n]
    BY <1>2
  <2>2. /\ calls' = [d \in Callers |-> calls'[d]]
        /\ calls'[c] = [call EXCEPT !.phase = "acted", !.session = session, !.turn = n]
        /\ \A d \in Callers : d # c => calls'[d] = calls[d]
    BY <2>1 DEF IInv, TypeInv
  <2>3. /\ CallType(calls'[c]) /\ calls'[c].phase = "acted" /\ calls'[c].op = call.op
        /\ calls'[c].run = call.run /\ calls'[c].handle = call.handle /\ calls'[c].task = call.task
    BY <1>3, <1>4, <2>2 DEF CallType
  <2> QED BY <2>2, <2>3
<1>6. TypeInv'
  BY <1>2, <1>4, <1>5 DEF IInv, TypeInv, CallType
<1>7. RunInv' /\ CounterInv' /\ KeepsTask
  BY <1>2 DEF IInv, RunInv, CounterInv, KeepsTask
<1>8. CallInv'
  <2>1. \A d \in Callers : (Active(d)' <=> Active(d)) /\ calls'[d].run = calls[d].run
           /\ calls'[d].op = calls[d].op /\ calls'[d].handle = calls[d].handle
           /\ calls'[d].task = calls[d].task
    BY <1>2, <1>5 DEF Active
  <2>2. ASSUME NEW d \in Callers, Taken(d) PROVE Taken(d)'
    BY <1>2, <2>1, <2>2 DEF Taken
  <2>3. \A d \in Callers : Active(d) =>
          /\ calls[d].handle.task = calls[d].task
          /\ setup.adapter = "callable" => calls[d].op = "delegate" /\ Taken(d)
          /\ calls[d].op # "delegate" =>
               /\ calls[d].run \in RunIds /\ runs[calls[d].run] # NoRun
               /\ runs[calls[d].run].task = calls[d].task
    BY DEF IInv, CallInv
  <2> QED BY <1>2, <2>1, <2>2, <2>3 DEF CallInv
<1>9. RunSessions'
  BY <1>2, <1>4 DEF IInv, SessionInv, RunSessions
<1>10. CallSessions'
  BY <1>4, <1>5 DEF IInv, SessionInv, CallSessions
<1>11. Histories'
  <2>1. ASSUME NEW s \in 1 .. Len(history')
        PROVE  Len(history'[s]) >= 1 /\ \E u \in Tasks : OneTask(s, u)'
    BY <1>3, <1>4, <1>5, <2>1 DEF IInv, SessionInv, Histories
  <2> QED BY <2>1 DEF Histories
<1> QED BY <1>6, <1>7, <1>8, <1>9, <1>10, <1>11 DEF IInv, SessionInv

\* The run of an answer was nobody's: the call's task gets it, and the session
\* that was used with it.
LEMMA ReturnRunStep ==
  ASSUME IInv, NEW c \in Callers, NEW run \in RunIds, ReturnRun(c, run),
         runs[run] = NoRun, \A u \in Tasks : runOf[u] # run,
         setup.adapter = "callable" => \A d \in Callers : d # c /\ Active(d) => calls[d].run # run,
         counter' \in 0 .. MaxTurns, counter <= counter', run \notin counter' + 1 .. MaxTurns,
         setup.restarts # 0 => counter' = counter,
         sessions' = sessions \/ sessions' = [sessions EXCEPT ![run] = calls[c].session]
  PROVE  IInv' /\ KeepsTask
<1> DEFINE call == calls[c]
           t == call.task
           parent == IF call.op = "delegate" THEN call.handle.parent_run ELSE call.run
           new == NewHandle(call.handle.task, call.handle.correlation_id, parent)
<1>1. /\ call.phase = "acted" /\ call.op # "follow"
      /\ runs' = [runs EXCEPT ![run] = new]
      /\ runOf' = [runOf EXCEPT ![t] = run] \/ runOf' = runOf
      /\ calls' = [calls EXCEPT ![c] = Idle]
      /\ UNCHANGED <<setup, history>>
  BY DEF ReturnRun
<1>2. call \in [phase : {"called", "acted"}, op : Ops, task : Tasks,
                run : RunIds \cup {None}, handle : Handle,
                mode : {"new", "resume", "fork"}, session : Nat, turn : {call.turn}]
  BY <1>1, ActiveCall DEF IInv, Active
<1>3. new \in Handle /\ new.task = t /\ new # NoRun
  <2>1. call.handle \in Handle /\ call.handle.task = t /\ parent \in RunIds \cup {None}
    BY <1>1, <1>2 DEF IInv, CallInv, Active, Handle
  <2>2. new \in Handle /\ new.task = t
    <3> HIDE DEF parent
    <3> QED BY <2>1 DEF NewHandle, Handle
  <2> QED BY <2>2, HandleIsRun
<1>4. OneTask(call.session, t)
  BY <1>1 DEF IInv, SessionInv, CallSessions
<1>t. t \in Tasks
  BY <1>2
<1> HIDE DEF parent, new, t
<1>5. /\ runs' \in [RunIds -> Handle \cup {NoRun}]
      /\ runs'[run] = new
      /\ \A r \in RunIds : r # run => runs'[r] = runs[r]
      /\ \A r \in RunIds : runs[r] # NoRun => runs'[r] = runs[r]
  BY <1>1, <1>3 DEF IInv, TypeInv
<1>6. /\ runOf' \in [Tasks -> RunIds \cup {None}]
      /\ runOf'[t] \in {run, runOf[t]} /\ \A u \in Tasks : u # t => runOf'[u] = runOf[u]
      /\ RunInv' /\ KeepsTask
  <2>1. runs'[run] # NoRun /\ runs'[run].task = t
    BY <1>3, <1>5
  <2>2. /\ \A r \in RunIds : r # run => runs'[r] = runs[r]
        /\ \A u \in Tasks : runOf[u] # run
    BY <1>5
  <2>3. (runOf' = [runOf EXCEPT ![t] = run] \/ runOf' = runOf) /\ setup' = setup
    BY <1>1 DEF t
  <2>4. runOf[t] # None => runs'[runOf[t]] = NoRun \/ runs'[runOf[t]].task = t
    <3>1. runOf[t] # None => runOf[t] \in RunIds /\ (runs[runOf[t]] = NoRun \/ runs[runOf[t]].task = t)
      BY <1>t DEF IInv, RunInv, TypeInv
    <3> QED BY <1>t, <2>2, <3>1
  <2> QED BY <1>t, <1>5, <2>1, <2>2, <2>3, <2>4, NewRun
<1>7. /\ calls' = [d \in Callers |-> calls'[d]] /\ calls'[c] = Idle
      /\ \A d \in Callers : d # c => calls'[d] = calls[d]
  BY <1>1 DEF IInv, TypeInv
<1>8. /\ sessions' \in [RunIds -> Nat]
      /\ \A r \in RunIds : r # run => sessions'[r] = sessions[r]
      /\ sessions'[run] = sessions[run] \/ sessions'[run] = call.session
  BY <1>2 DEF IInv, TypeInv
<1>9. TypeInv'
  BY <1>1, <1>5, <1>6, <1>7, <1>8 DEF IInv, TypeInv, CallType
<1>10. CallInv'
  <2>1. \A d \in Callers : Active(d)' => d # c /\ Active(d) /\ calls'[d] = calls[d]
    BY <1>7 DEF Active, Idle
  <2>2. ASSUME NEW d \in Callers, Active(d)', calls[d].op # "delegate"
        PROVE  runs'[calls[d].run] = runs[calls[d].run] /\ calls[d].run \in RunIds
    BY <2>1, <2>2, <1>5 DEF IInv, CallInv
  <2>3. ASSUME NEW d \in Callers, Active(d)', setup.adapter = "callable" PROVE Taken(d)'
    <3> DEFINE n == calls[d].run
    <3>1. Taken(d) /\ d # c /\ calls'[d] = calls[d]
      BY <2>1, <2>3 DEF IInv, CallInv
    <3>2. counter \in 0 .. MaxTurns /\ MaxTurns \in Nat
      BY RunConstants DEF IInv, TypeInv
    <3>3. n \in 1 .. counter' /\ n \in RunIds /\ n # run
      BY <2>1, <2>3, <3>1, <3>2 DEF Taken, RunIds
    <3>4. runs'[n] = NoRun
      BY <3>1, <3>3, <1>5 DEF Taken
    <3>5. \A v \in Tasks : runOf'[v] # n
      BY <3>1, <3>3, <1>6 DEF Taken
    <3>6. \A e \in Callers : e # d /\ Active(e)' => calls'[e].run # n
      BY <2>1, <3>1 DEF Taken
    <3> HIDE DEF n
    <3>7. calls'[d].run = n
      BY <3>1 DEF n
    <3> QED BY <3>3, <3>4, <3>5, <3>6, <3>7 DEF Taken
  <2> QED BY <1>1, <2>1, <2>2, <2>3 DEF IInv, CallInv
<1>11. CounterInv'
  <2>1. counter \in 0 .. MaxTurns /\ MaxTurns \in Nat
    BY RunConstants DEF IInv, TypeInv
  <2>2. counter' + 1 .. MaxTurns \subseteq counter + 1 .. MaxTurns
    BY <2>1, LaterNumbers
  <2>3. ASSUME NEW n \in counter' + 1 .. MaxTurns
        PROVE  runs'[n] = NoRun /\ \A u \in Tasks : runOf'[u] # n
    <3>1. n \in counter + 1 .. MaxTurns /\ n # run
      BY <2>2, <2>3
    <3>2. runs[n] = NoRun /\ (\A u \in Tasks : runOf[u] # n) /\ n \in RunIds
      BY <3>1, <2>1 DEF IInv, CounterInv, RunIds
    <3> QED BY <3>1, <3>2, <1>5, <1>6
  <2> QED BY <1>1, <2>3 DEF IInv, CounterInv
<1>12. RunSessions'
  <2>1. ASSUME NEW r \in RunIds, sessions'[r] # NoSession
        PROVE  runs'[r] # NoRun /\ OneTask(sessions'[r], runs'[r].task)
    <3>1. sessions[r] # NoSession => runs[r] # NoRun /\ OneTask(sessions[r], runs[r].task)
      BY DEF IInv, SessionInv, RunSessions
    <3>2. CASE r # run
      BY <3>1, <3>2, <2>1, <1>5, <1>8
    <3>3. CASE r = run
      BY <3>1, <3>3, <2>1, <1>3, <1>4, <1>5, <1>8
    <3> QED BY <3>2, <3>3
  <2> QED BY <1>1, <2>1 DEF RunSessions, OneTask
<1>13. CallSessions' /\ Histories'
  BY <1>1, <1>7 DEF IInv, SessionInv, CallSessions, Histories, OneTask, Idle
<1> QED BY <1>6, <1>9, <1>10, <1>11, <1>12, <1>13 DEF IInv, SessionInv

\* A name that is new to the adapter, or the next number, is nobody's run.
LEMMA FreshRun ==
  ASSUME RunIdsStayUnique, IInv, NEW output \in setup.prints, NEW run \in RunIds,
         NamedRun(output, run) \/ NumberedRun(output, run)
  PROVE  /\ runs[run] = NoRun /\ \A u \in Tasks : runOf[u] # run
         /\ counter' \in 0 .. MaxTurns /\ counter <= counter' /\ run \notin counter' + 1 .. MaxTurns
         /\ setup.restarts # 0 => counter' = counter
<1>1. counter \in 0 .. MaxTurns /\ MaxTurns \in Nat
  BY RunConstants DEF IInv, TypeInv
<1>2. CASE NamedRun(output, run)
  <2>1. runs[run] = NoRun /\ (\A u \in Tasks : runOf[u] # run) /\ run \in AgentIds /\ counter' = counter
    BY <1>2 DEF NamedRun, Named
  <2>2. run \notin counter' + 1 .. MaxTurns
    BY <1>1, <2>1, RunConstants
  <2> QED BY <1>1, <2>1, <2>2
<1>3. CASE NumberedRun(output, run)
  <2>1. ~NamesRun(output) /\ run = counter + 1 /\ counter < MaxTurns /\ counter' = run
    BY <1>3 DEF NumberedRun
  <2>2. run \in counter + 1 .. MaxTurns /\ counter' \in 0 .. MaxTurns /\ counter <= counter'
        /\ run \notin counter' + 1 .. MaxTurns
    BY <1>1, <2>1
  <2>3. runs[run] = NoRun /\ \A u \in Tasks : runOf[u] # run
    BY <2>2 DEF IInv, CounterInv
  <2>4. setup.restarts = 0
    BY <2>1, SetupFacts DEF IInv
  <2> QED BY <2>2, <2>3, <2>4
<1> QED BY <1>2, <1>3

LEMMA ReturnNamedStep ==
  ASSUME RunIdsStayUnique, IInv, NEW c \in Callers, NEW run \in RunIds, NEW output \in setup.prints,
         \/ ReturnHarnessRun(c, run, output)
         \/ ReturnProcessRun(c, run, output)
         \/ ReturnRecordedRun(c, run, output)
  PROVE  IInv' /\ KeepsTask
<1>1. /\ ReturnRun(c, run)
      /\ NamedRun(output, run) \/ NumberedRun(output, run)
      /\ sessions' = sessions \/ sessions' = [sessions EXCEPT ![run] = calls[c].session]
      /\ setup.adapter # "callable"
  BY DEF ReturnHarnessRun, ReturnProcessRun, ReturnRecordedRun, HasSessions
<1>2. /\ runs[run] = NoRun /\ \A u \in Tasks : runOf[u] # run
      /\ counter' \in 0 .. MaxTurns /\ counter <= counter' /\ run \notin counter' + 1 .. MaxTurns
      /\ setup.restarts # 0 => counter' = counter
  BY <1>1, FreshRun
<1> QED BY <1>1, <1>2, ReturnRunStep

LEMMA ReturnCallableStep ==
  ASSUME IInv, NEW c \in Callers, NEW output, ReturnCallableRun(c, output)
  PROVE  IInv' /\ KeepsTask
<1> DEFINE run == calls[c].run
<1>1. /\ setup.adapter = "callable" /\ Active(c) /\ ReturnRun(c, run)
      /\ sessions' = sessions /\ counter' = counter
  BY DEF ReturnCallableRun, Active
<1>2. Taken(c)
  BY <1>1 DEF IInv, CallInv
<1>3. counter \in 0 .. MaxTurns /\ MaxTurns \in Nat
  BY RunConstants DEF IInv, TypeInv
<1>4. /\ run \in RunIds /\ runs[run] = NoRun /\ \A u \in Tasks : runOf[u] # run
      /\ \A d \in Callers : d # c /\ Active(d) => calls[d].run # run
  BY <1>2, <1>3 DEF Taken, RunIds
<1>5. counter' \in 0 .. MaxTurns /\ counter <= counter' /\ run \notin counter' + 1 .. MaxTurns
  BY <1>1, <1>2, <1>3 DEF Taken
<1> HIDE DEF run
<1> QED BY <1>1, <1>4, <1>5, ReturnRunStep

\* Taking the events of a run touches nothing that the invariant is about.
LEMMA SameRunsStep ==
  ASSUME IInv, UNCHANGED <<setup, runOf, runs, sessions, counter, calls, history>>
  PROVE  IInv' /\ KeepsTask
<1>1. TypeInv' /\ RunInv' /\ CounterInv'
  BY DEF IInv, TypeInv, RunInv, CounterInv
<1>2. CallInv'
  BY DEF IInv, CallInv, Active, Taken
<1>3. SessionInv'
  BY DEF IInv, SessionInv, RunSessions, CallSessions, Histories, OneTask
<1> QED BY <1>1, <1>2, <1>3 DEF IInv, KeepsTask

LEMMA RestartStep ==
  ASSUME RunIdsStayUnique, IInv, restarts \in Nat, Restart
  PROVE  IInv' /\ KeepsTask
<1>1. /\ setup.restarts # 0
      /\ runs' = [r \in RunIds |-> NoRun] /\ sessions' = [r \in RunIds |-> NoSession]
      /\ counter' = 0 /\ calls' = [c \in Callers |-> Idle]
      /\ UNCHANGED <<setup, runOf, history>>
  <2>1. restarts < setup.restarts /\ setup.restarts \in Nat
    BY SetupFacts DEF Restart, IInv, Setup
  <2> QED BY <2>1 DEF Restart, agentVars
<1>2. TypeInv'
  BY <1>1, RunConstants DEF IInv, TypeInv, CallType, NoSession
<1>3. RunInv' /\ CounterInv'
  <2>1. \A n \in 0 + 1 .. MaxTurns : n \in RunIds /\ runOf \in [Tasks -> RunIds \cup {None}]
    BY DEF IInv, TypeInv, RunIds
  <2>2. \A n \in 0 + 1 .. MaxTurns : \A t \in Tasks : runOf[t] # n
    BY <1>1 DEF IInv, CounterInv
  <2>3. CounterInv'
    BY <1>1, <2>1, <2>2 DEF CounterInv
  <2>4. RunInv'
    BY <1>1 DEF IInv, RunInv, TypeInv
  <2> QED BY <2>3, <2>4
<1>4. CallInv' /\ RunSessions' /\ CallSessions'
  BY <1>1 DEF CallInv, Active, RunSessions, CallSessions, Idle
<1>5. Histories'
  BY <1>1 DEF IInv, SessionInv, Histories, OneTask
<1>6. KeepsTask
  BY <1>1 DEF KeepsTask
<1> QED BY <1>2, <1>3, <1>4, <1>5, <1>6 DEF IInv, SessionInv

Inductive == IInv /\ restarts \in Nat

LEMMA NextStep ==
  ASSUME RunIdsStayUnique, Inductive, Next
  PROVE  Inductive' /\ KeepsTask
<1>1. IInv /\ restarts \in Nat
  BY DEF Inductive
<1>2. ASSUME NEW c \in Callers, NEW t \in Tasks, NEW parent \in RunIds \cup {None},
             Delegate(c, t, parent) PROVE Inductive' /\ KeepsTask
  BY <1>1, <1>2, DelegateStep DEF Inductive, Delegate
<1>3. ASSUME NEW c \in Callers, NEW t \in Tasks, NEW op \in {"follow", "handoff"},
             Address(c, t, op)
      PROVE  Inductive' /\ KeepsTask
  BY <1>1, <1>3, AddressStep DEF Inductive, Address
<1>4. ASSUME NEW t \in Tasks, Record(t) PROVE Inductive' /\ KeepsTask
  BY <1>1, <1>4, RecordStep DEF Inductive, Record
<1>5. ASSUME NEW t \in Tasks, RecordHandoff(t) PROVE Inductive' /\ KeepsTask
  BY <1>1, <1>5, RecordHandoffStep DEF Inductive, RecordHandoff
<1>6. ASSUME NEW c \in Callers, Act(c) PROVE Inductive' /\ KeepsTask
  BY <1>1, <1>6, ActStep DEF Inductive, Act
<1>7. ASSUME NEW c \in Callers, Fail(c) PROVE Inductive' /\ KeepsTask
  BY <1>1, <1>7, EndStep DEF Inductive, Fail, adapterVars, agentVars
<1>8. ASSUME NEW c \in Callers, Return(c) PROVE Inductive' /\ KeepsTask
  <2>1. PICK output \in setup.prints :
          \/ ReturnFollow(c, output)
          \/ ReturnCallableRun(c, output)
          \/ \E run \in RunIds :
               \/ ReturnHarnessRun(c, run, output)
               \/ ReturnProcessRun(c, run, output)
               \/ ReturnRecordedRun(c, run, output)
    BY <1>8 DEF Return
  <2>2. CASE ReturnFollow(c, output)
    BY <1>1, <2>2, EndStep DEF Inductive, ReturnFollow, agentVars
  <2>3. CASE ReturnCallableRun(c, output)
    <3>1. restarts' = restarts
      BY <2>3 DEF ReturnCallableRun, ReturnRun
    <3> QED BY <1>1, <2>3, <3>1, ReturnCallableStep DEF Inductive
  <2>4. ASSUME NEW run \in RunIds,
               \/ ReturnHarnessRun(c, run, output)
               \/ ReturnProcessRun(c, run, output)
               \/ ReturnRecordedRun(c, run, output)
        PROVE  Inductive' /\ KeepsTask
    <3>1. restarts' = restarts
      BY <2>4 DEF ReturnHarnessRun, ReturnProcessRun, ReturnRecordedRun, ReturnRun
    <3> QED BY <1>1, <2>1, <2>4, <3>1, ReturnNamedStep DEF Inductive
  <2> QED BY <2>1, <2>2, <2>3, <2>4
<1>9. ASSUME NEW t \in Tasks, Observe(t) PROVE Inductive' /\ KeepsTask
  <2>1. UNCHANGED <<setup, runOf, runs, sessions, counter, calls, history, restarts>>
    BY <1>9 DEF Observe, agentVars
  <2> QED BY <1>1, <2>1, SameRunsStep DEF Inductive
<1>10. ASSUME Restart PROVE Inductive' /\ KeepsTask
  BY <1>1, <1>10, RestartStep DEF Inductive, Restart
<1> QED BY <1>2, <1>3, <1>4, <1>5, <1>6, <1>7, <1>8, <1>9, <1>10 DEF Next, Start

LEMMA BoxStep ==
  ASSUME RunIdsStayUnique, Inductive, [Next]_vars
  PROVE  Inductive' /\ KeepsTask
<1>1. CASE Next
  BY <1>1, NextStep
<1>2. CASE UNCHANGED vars
  <2>1. UNCHANGED <<setup, runOf, runs, sessions, counter, calls, history, restarts>>
    BY <1>2 DEF vars, adapterVars, agentVars
  <2> QED BY <2>1, SameRunsStep DEF Inductive
<1> QED BY <1>1, <1>2
-----------------------------------------------------------------------------
\* The inductive invariant holds in every state of the adapter and its agents.
THEOREM RunsInductive == ASSUME RunIdsStayUnique PROVE Spec => []Inductive
<1>1. Init => Inductive
  BY InitIInv DEF Inductive, Init
<1>2. Inductive /\ [Next]_vars => Inductive'
  BY BoxStep
<1> QED BY <1>1, <1>2, PTL DEF Spec

\* No native session ever holds the turns of two tasks, whichever calls
\* overlap, fail, resume and fork, for any adapter whose run ids stay unique.
THEOREM SessionsKeptApart == ASSUME RunIdsStayUnique PROVE Spec => []SessionsDoNotMix
<1>1. ASSUME Inductive PROVE SessionsDoNotMix
  <2> SUFFICES ASSUME NEW s \in DOMAIN history, NEW i \in 1 .. Len(history[s]),
                      NEW j \in 1 .. Len(history[s])
               PROVE  history[s][i].task = history[s][j].task
    BY DEF SessionsDoNotMix
  <2>1. \E S : history \in Seq(Seq(S))
    BY <1>1 DEF Inductive, IInv, TypeInv
  <2>2. s \in 1 .. Len(history)
    BY <2>1
  <2>3. PICK t \in Tasks : OneTask(s, t)
    BY <1>1, <2>2 DEF Inductive, IInv, SessionInv, Histories
  <2> QED BY <2>3 DEF OneTask
<1> QED BY <1>1, RunsInductive, PTL

\* A run id that the adapter knows never passes to another task, as long as
\* run ids stay unique: handles outlive handoffs and failed calls unchanged.
THEOREM RunsKeepTheirTask == ASSUME RunIdsStayUnique PROVE Spec => RunKeepsTask
<1>1. Inductive /\ [Next]_vars =>
        [\A r \in RunIds : (runs[r] # NoRun /\ runs'[r] # NoRun) => runs'[r].task = runs[r].task]_vars
  BY BoxStep DEF KeepsTask
<1> QED BY <1>1, RunsInductive, PTL DEF Spec, RunKeepsTask
-----------------------------------------------------------------------------
\* The turns of the agents: each has a number of its own, the last the highest.

\* The turns of a session, those of all sessions (a fork repeats those of its
\* origin), and the turn a call that acted took.
Known(s) == Range(history[s])
AllTurns == UNION {Range(history[s]) : s \in DOMAIN history}
Took(c) == TurnOf(calls[c], calls[c].turn)

TurnsNumbered ==
  IsFiniteSet(AllTurns) /\ \A e \in AllTurns : e.n \in Nat /\ e.n <= Cardinality(AllTurns)

\* What a run was told, and what a call has to tell, was a turn of some session.
TurnsInv ==
  /\ TurnsNumbered
  /\ told = [r \in RunIds |-> told[r]]
  /\ \A r \in RunIds : told[r] \subseteq AllTurns
  /\ \A c \in Callers : calls[c].phase = "acted" => Took(c) \in AllTurns

LEMMA TurnsCounted == Turns = Cardinality(AllTurns)
BY DEF Turns, AllTurns

LEMMA RangeOfAppend ==
  ASSUME NEW S, NEW s \in Seq(S), NEW e
  PROVE  Range(Append(s, e)) = Range(s) \cup {e}
<1>1. /\ DOMAIN s = 1 .. Len(s) /\ Len(s) \in Nat
      /\ DOMAIN Append(s, e) = 1 .. Len(s) + 1
      /\ \A i \in 1 .. Len(s) : Append(s, e)[i] = s[i]
      /\ Append(s, e)[Len(s) + 1] = e
  OBVIOUS
<1>2. 1 .. Len(s) + 1 = (1 .. Len(s)) \cup {Len(s) + 1}
  BY <1>1
<1> QED BY <1>1, <1>2 DEF Range

\* The agent acts: the session it acts in has the turn, whatever it was before.
LEMMA ActKnown ==
  ASSUME IInv, NEW c \in Callers, Act(c), NEW session, session = SessionUsed(c)
  PROVE  /\ calls'[c].session = session /\ calls'[c].phase = "acted"
         /\ calls'[c].op = calls[c].op /\ calls'[c].run = calls[c].run
         /\ calls'[c].handle = calls[c].handle /\ calls'[c].task = calls[c].task
         /\ calls'[c].turn = Turns + 1
         /\ \A d \in Callers : d # c => calls'[d] = calls[d]
         /\ told' = IF calls[c].op = "follow"
                    THEN [told EXCEPT ![calls[c].run] = @ \cup {Took(c)'}] ELSE told
         /\ Took(c)' \in Known(session)'
         /\ \A q \in 1 .. Len(history) : Known(q) \subseteq Known(q)'
         /\ calls[c].mode = "fork" => Known(calls[c].session) \subseteq Known(session)'
         /\ \A q \in 1 .. Len(history') : \A e \in Known(q)' :
              e = Took(c)' \/ \E s \in 1 .. Len(history) : e \in Known(s)
<1> DEFINE call == calls[c]
           before == IF call.mode = "new" THEN << >> ELSE history[call.session]
<1>0. PICK m : m = Turns + 1
  OBVIOUS
<1>t. PICK turn : turn = TurnOf(call, m)
  OBVIOUS
<1>1. /\ session = IF call.mode = "resume" THEN call.session ELSE Len(history) + 1
      /\ call.phase = "called"
      /\ history' = IF call.mode = "resume"
                    THEN [history EXCEPT ![session] = Append(@, turn)]
                    ELSE Append(history, Append(before, turn))
      /\ told' = IF call.op = "follow" THEN [told EXCEPT ![call.run] = @ \cup {turn}] ELSE told
      /\ calls' = [calls EXCEPT ![c].phase = "acted", ![c].session = session, ![c].turn = turn.n]
  BY <1>0, <1>t DEF Act, SessionUsed
<1>2. call \in [phase : {"called", "acted"}, op : Ops, task : Tasks,
                run : RunIds \cup {None}, handle : Handle,
                mode : {"new", "resume", "fork"}, session : Nat, turn : {call.turn}]
  BY <1>1, ActiveCall DEF IInv, Active
<1>4. turn = [n |-> m, op |-> call.op, task |-> call.task, as |-> call.handle.correlation_id]
      /\ turn.n = m
  BY <1>t DEF TurnOf
<1>5. /\ calls'[c].session = session /\ calls'[c].phase = "acted" /\ calls'[c].turn = m
      /\ calls'[c].handle = call.handle /\ calls'[c].op = call.op /\ calls'[c].run = call.run
      /\ calls'[c].task = call.task
      /\ \A d \in Callers : d # c => calls'[d] = calls[d]
  <2>1. /\ calls'[c] = [call EXCEPT !.phase = "acted", !.session = session, !.turn = m]
        /\ \A d \in Callers : d # c => calls'[d] = calls[d]
    BY <1>1, <1>4 DEF IInv, TypeInv
  <2> QED BY <1>2, <2>1
<1>6. turn = Took(c)'
  BY <1>4, <1>5 DEF Took, TurnOf
<1>7. PICK S : history \in Seq(Seq(S))
  BY DEF IInv, TypeInv
<1>8. Len(history) \in Nat
  BY <1>7
<1>9. call.mode # "new" => call.session \in 1 .. Len(history)
  BY <1>1 DEF IInv, SessionInv, CallSessions, OneTask
<1>10. CASE call.mode = "resume"
  <2>1. session \in 1 .. Len(history) /\ history[session] \in Seq(S)
    BY <1>1, <1>7, <1>9, <1>10
  <2>2. /\ history'[session] = Append(history[session], turn)
        /\ \A q \in 1 .. Len(history) : q # session => history'[q] = history[q]
    BY <1>1, <1>7, <1>10, <2>1
  <2>3. Known(session)' = Known(session) \cup {turn}
    BY <2>1, <2>2, RangeOfAppend DEF Known
  <2>4. \A q \in 1 .. Len(history) : Known(q) \subseteq Known(q)'
    BY <2>2, <2>3 DEF Known
  <2>5. Len(history') = Len(history)
    BY <1>1, <1>7, <1>10, <2>1
  <2>6. \A q \in 1 .. Len(history') : \A e \in Known(q)' :
          e = turn \/ \E s \in 1 .. Len(history) : e \in Known(s)
    BY <2>1, <2>2, <2>3, <2>5 DEF Known
  <2> QED BY <1>0, <1>1, <1>5, <1>6, <1>10, <2>3, <2>4, <2>6
<1>11. CASE call.mode # "resume"
  <2>1. before \in Seq(S)
    BY <1>7, <1>9
  <2> HIDE DEF before
  <2>2. /\ session = Len(history) + 1
        /\ history' = Append(history, Append(before, turn))
    BY <1>1, <1>11
  <2> DEFINE longer == Append(before, turn)
  <2> HIDE DEF longer
  <2>3. /\ history'[session] = longer
        /\ \A q \in 1 .. Len(history) : history'[q] = history[q]
    BY <1>7, <1>8, <2>2 DEF longer
  <2>4. Range(longer) = Range(before) \cup {turn}
    BY <2>1, RangeOfAppend DEF longer
  <2>5. Known(session)' = Range(before) \cup {turn}
    BY <2>3, <2>4 DEF Known
  <2>6. call.mode = "fork" => Known(call.session) \subseteq Known(session)'
    BY <2>5 DEF before, Known
  <2>7. \A q \in 1 .. Len(history) : Known(q) \subseteq Known(q)'
    BY <2>3 DEF Known
  <2>8. \A e \in Range(before) : \E s \in 1 .. Len(history) : e \in Known(s)
    BY <1>9 DEF before, Known, Range
  <2>9. 1 .. Len(history') = (1 .. Len(history)) \cup {session}
    BY <1>7, <1>8, <2>2
  <2>10. \A q \in 1 .. Len(history') : \A e \in Known(q)' :
           e = turn \/ \E s \in 1 .. Len(history) : e \in Known(s)
    BY <2>3, <2>5, <2>8, <2>9 DEF Known
  <2> QED BY <1>0, <1>1, <1>5, <1>6, <2>5, <2>6, <2>7, <2>10
<1> QED BY <1>10, <1>11

\* An agent's turn is a new one, and the last.
LEMMA ActedTurn ==
  ASSUME IInv, TurnsNumbered, NEW c \in Callers, Act(c)
  PROVE  /\ TurnsNumbered' /\ Turns \in Nat /\ Turns' = Turns + 1
         /\ AllTurns' = AllTurns \cup {Took(c)'}
         /\ Took(c)'.n = Turns + 1
<1>1. PICK session : session = SessionUsed(c)
  OBVIOUS
<1>2. /\ Took(c)' \in Known(session)'
      /\ calls'[c].turn = Turns + 1
      /\ \A q \in 1 .. Len(history) : Known(q) \subseteq Known(q)'
      /\ \A q \in 1 .. Len(history') : \A e \in Known(q)' :
           e = Took(c)' \/ \E s \in 1 .. Len(history) : e \in Known(s)
  BY <1>1, ActKnown
<1>3. /\ session \in 1 .. Len(history')
      /\ \A q \in 1 .. Len(history) : q \in 1 .. Len(history')
      /\ \E S : history' \in Seq(Seq(S))
  BY <1>1, ActHistory DEF IInv, SessionInv, Histories, OneTask
<1>4. DOMAIN history = 1 .. Len(history) /\ DOMAIN history' = 1 .. Len(history')
  BY <1>3 DEF IInv, TypeInv
<1>5. AllTurns' = AllTurns \cup {Took(c)'}
  <2>1. \A e : e \in AllTurns <=> \E q \in 1 .. Len(history) : e \in Known(q)
    BY <1>4 DEF AllTurns, Known
  <2>2. \A e : e \in AllTurns' <=> \E q \in 1 .. Len(history') : e \in Known(q)'
    BY <1>4 DEF AllTurns, Known
  <2> QED BY <1>2, <1>3, <2>1, <2>2
<1>6. Turns \in Nat /\ Turns = Cardinality(AllTurns)
  BY FS_CardinalityType, TurnsCounted DEF TurnsNumbered
<1>8. Took(c)'.n = Turns + 1
  BY <1>2 DEF Took, TurnOf
<1>9. Took(c)' \notin AllTurns
  BY <1>6, <1>8 DEF TurnsNumbered
<1>10. IsFiniteSet(AllTurns') /\ Cardinality(AllTurns') = Turns + 1
  BY <1>5, <1>6, <1>9, FS_AddElement DEF TurnsNumbered
<1>11. Turns' = Turns + 1
  BY <1>10, TurnsCounted DEF Turns, AllTurns
<1>12. TurnsNumbered'
  <2> SUFFICES ASSUME NEW e \in AllTurns'
               PROVE  e.n \in Nat /\ e.n <= Turns + 1
    BY <1>10 DEF TurnsNumbered
  <2> QED BY <1>5, <1>6, <1>8 DEF TurnsNumbered
<1> QED BY <1>5, <1>6, <1>8, <1>11, <1>12

\* The turns known are those that were taken so far.
LEMMA TurnsBounded ==
  ASSUME TurnsInv
  PROVE  /\ Turns \in Nat
         /\ \A e \in AllTurns : e.n \in Nat /\ e.n <= Turns
         /\ \A r \in RunIds : \A e \in told[r] : e.n \in Nat /\ e.n <= Turns
         /\ \A c \in Callers : calls[c].phase = "acted" => calls[c].turn \in Nat /\ calls[c].turn <= Turns
<1>1. Turns \in Nat /\ \A e \in AllTurns : e.n \in Nat /\ e.n <= Turns
  BY TurnsCounted, FS_CardinalityType DEF TurnsInv, TurnsNumbered
<1>2. \A c \in Callers : Took(c).n = calls[c].turn
  BY DEF Took, TurnOf
<1> QED BY <1>1, <1>2 DEF TurnsInv

LEMMA TurnsRest ==
  ASSUME TurnsInv, UNCHANGED history, told' = [r \in RunIds |-> told'[r]],
         \A r \in RunIds : told'[r] \subseteq AllTurns,
         \A c \in Callers : calls'[c].phase = "acted" => calls'[c] = calls[c]
  PROVE  TurnsInv'
<1>1. TurnsNumbered' /\ AllTurns' = AllTurns
  BY DEF TurnsInv, TurnsNumbered, AllTurns
<1> QED BY <1>1 DEF TurnsInv, Took

LEMMA TurnsReturn ==
  ASSUME IInv, TurnsInv, NEW c \in Callers, NEW run \in RunIds, ReturnRun(c, run)
  PROVE  TurnsInv'
<1>1. /\ calls[c].phase = "acted"
      /\ told' = [told EXCEPT ![run] = @ \cup {Took(c)}]
      /\ calls' = [calls EXCEPT ![c] = Idle]
      /\ UNCHANGED history
  BY DEF ReturnRun, Took
<1>2. Took(c) \in AllTurns
  BY <1>1 DEF TurnsInv
<1>3. PICK turn : turn = Took(c)
  OBVIOUS
<1>4. told' = [r \in RunIds |-> told'[r]] /\ \A r \in RunIds : told'[r] \subseteq told[r] \cup {turn}
  BY <1>1, <1>3 DEF TurnsInv
<1>5. \A d \in Callers : calls'[d].phase = "acted" => calls'[d] = calls[d]
  BY <1>1 DEF IInv, TypeInv, Idle
<1> QED BY <1>1, <1>2, <1>3, <1>4, <1>5, TurnsRest DEF TurnsInv

LEMMA TurnsNext == ASSUME IInv, TurnsInv, [Next]_vars PROVE TurnsInv'
<1>0. calls = [c \in Callers |-> calls[c]] /\ told = [r \in RunIds |-> told[r]]
      /\ \A r \in RunIds : told[r] \subseteq AllTurns
  BY DEF IInv, TypeInv, TurnsInv
<1>1. ASSUME UNCHANGED <<history, told>>,
             \A c \in Callers : calls'[c].phase = "acted" => calls'[c] = calls[c]
      PROVE  TurnsInv'
  BY <1>0, <1>1, TurnsRest
<1>2. CASE UNCHANGED vars
  BY <1>1, <1>2 DEF vars, agentVars
<1>3. CASE Restart
  BY <1>1, <1>3 DEF Restart, agentVars, Idle
<1>4. ASSUME NEW c \in Callers, NEW t \in Tasks, Start(c, t) PROVE TurnsInv'
  <2>1. UNCHANGED <<history, told>>
    BY <1>4 DEF Start, Delegate, Address, agentVars
  <2>2. \E new : new.phase = "called" /\ calls' = [calls EXCEPT ![c] = new]
    BY <1>4 DEF Start, Delegate, Address, Calling
  <2>3. \A d \in Callers : calls'[d].phase = "acted" => calls'[d] = calls[d]
    BY <1>0, <2>2
  <2> QED BY <1>1, <2>1, <2>3
<1>5. ASSUME NEW t \in Tasks, Record(t) \/ RecordHandoff(t) \/ Observe(t) PROVE TurnsInv'
  BY <1>1, <1>5 DEF Record, RecordHandoff, Observe, agentVars
<1>6. ASSUME NEW c \in Callers, Act(c) PROVE TurnsInv'
  <2>1. PICK session : session = SessionUsed(c)
    OBVIOUS
  <2>2. /\ TurnsNumbered' /\ AllTurns' = AllTurns \cup {Took(c)'}
    BY <1>6, ActedTurn DEF TurnsInv
  <2>3. /\ \A d \in Callers : d # c => calls'[d] = calls[d]
        /\ told' = IF calls[c].op = "follow"
                   THEN [told EXCEPT ![calls[c].run] = @ \cup {Took(c)'}] ELSE told
    BY <1>6, <2>1, ActKnown
  <2>4. PICK turn : turn = Took(c)'
    OBVIOUS
  <2>5. told' = [r \in RunIds |-> told'[r]] /\ \A r \in RunIds : told'[r] \subseteq told[r] \cup {turn}
    BY <1>0, <2>3, <2>4
  <2>6. \A d \in Callers : d # c => Took(d)' = Took(d)
    BY <2>3 DEF Took
  <2> QED BY <1>0, <2>2, <2>3, <2>4, <2>5, <2>6 DEF TurnsInv
<1>7. ASSUME NEW c \in Callers, Fail(c) PROVE TurnsInv'
  <2>1. UNCHANGED <<history, told>> /\ calls' = [calls EXCEPT ![c] = Idle]
    BY <1>7 DEF Fail, agentVars
  <2> QED BY <1>0, <1>1, <2>1 DEF Idle
<1>8. ASSUME NEW c \in Callers, Return(c) PROVE TurnsInv'
  <2>1. \/ \E output \in setup.prints : ReturnFollow(c, output)
        \/ \E run \in RunIds : ReturnRun(c, run)
    <3>1. ASSUME ReturnRun(c, calls[c].run), setup.adapter = "callable"
          PROVE  calls[c].run \in RunIds
      BY <3>1, RunConstants DEF ReturnRun, IInv, CallInv, Taken, Active, TypeInv, RunIds
    <3> QED BY <1>8, <3>1 DEF Return, ReturnCallableRun, ReturnHarnessRun, ReturnProcessRun,
                              ReturnRecordedRun
  <2>2. ASSUME NEW output \in setup.prints, ReturnFollow(c, output) PROVE TurnsInv'
    <3>1. UNCHANGED <<history, told>> /\ calls' = [calls EXCEPT ![c] = Idle]
      BY <2>2 DEF ReturnFollow, agentVars
    <3> QED BY <1>0, <1>1, <3>1 DEF Idle
  <2> QED BY <2>1, <2>2, TurnsReturn
<1> QED BY <1>2, <1>3, <1>4, <1>5, <1>6, <1>7, <1>8 DEF Next

LEMMA TurnsInit == Init => TurnsInv
<1> SUFFICES ASSUME Init PROVE TurnsInv
  OBVIOUS
<1>1. AllTurns = {}
  BY DEF Init, AllTurns
<1> QED BY <1>1, FS_EmptySet DEF Init, TurnsInv, TurnsNumbered, Idle
-----------------------------------------------------------------------------
\* Session continuity: what the agent behind a session knows of its run.

\* The session of a run knows what the run was told, and a run that is still to
\* be numbered was told nothing.
ToldKept ==
  \A r \in RunIds : sessions[r] # NoSession => told[r] \subseteq Known(sessions[r])
NothingToldYet == \A n \in counter + 1 .. MaxTurns : told[n] = {}

\* What run p was told before turn n.
ToldBefore(p, n) == {turn \in told[p] : turn.n < n}

\* The session of a run that a handoff started has what the run it was forked
\* from was told until then.
ForksHold ==
  setup.adapter = "forking" => \A r \in RunIds : \A own \in told[r] :
    own.op = "handoff" /\ runs[r] # NoRun /\ runs[r].parent_run # None =>
      /\ runs[runs[r].parent_run] # NoRun
      /\ sessions[r] # NoSession /\ sessions[runs[r].parent_run] # NoSession
           => ToldBefore(runs[r].parent_run, own.n) \subseteq Known(sessions[r])

\* A call goes to the session of its run or forks it, and when the agent acted
\* the session used holds the turn, after a fork also what the run was told
\* before.
Forks(c) ==
  /\ calls[c].op = "handoff" /\ setup.adapter = "forking"
  /\ sessions[calls[c].run] # NoSession
Addresses(c) ==
  /\ calls[c].op = "follow" =>
       IF sessions[calls[c].run] = NoSession THEN calls[c].mode = "new"
       ELSE calls[c].mode = "resume" /\ calls[c].session = sessions[calls[c].run]
  /\ Forks(c) => calls[c].mode = "fork" /\ calls[c].session = sessions[calls[c].run]
Used(c) ==
  /\ Took(c) \in Known(calls[c].session)
  /\ Forks(c) => ToldBefore(calls[c].run, calls[c].turn) \subseteq Known(calls[c].session)
CallsHold ==
  \A c \in Callers : /\ calls[c].phase = "called" => Addresses(c)
                     /\ calls[c].phase = "acted" => Used(c)

ContInv ==
  IF HasSessions THEN ToldKept /\ NothingToldYet /\ ForksHold /\ CallsHold
  ELSE \A r \in RunIds : sessions[r] = NoSession

\* Sessions that runs and calls refer to are there.
LEMMA SessionsAreThere ==
  ASSUME IInv
  PROVE  /\ \A r \in RunIds : sessions[r] # NoSession => sessions[r] \in 1 .. Len(history)
         /\ \A c \in Callers : calls[c].phase = "acted" => calls[c].session \in 1 .. Len(history)
BY DEF IInv, SessionInv, RunSessions, CallSessions, OneTask

\* A call for a run that exists addresses a run that the adapter knows.
LEMMA AddressedRun ==
  ASSUME IInv, NEW c \in Callers, Active(c), calls[c].op # "delegate"
  PROVE  calls[c].run \in RunIds /\ runs[calls[c].run] # NoRun
BY DEF IInv, CallInv

\* Handles name their parents.
LEMMA ParentType ==
  ASSUME IInv
  PROVE  \A r \in RunIds : runs[r] # NoRun => runs[r].parent_run \in RunIds \cup {None}
BY DEF IInv, TypeInv, Handle

\* The adapters without sessions.
LEMMA NoSessionsStep ==
  ASSUME ContInv, ~HasSessions, UNCHANGED <<setup, sessions>>
  PROVE  ContInv'
BY DEF ContInv, HasSessions

\* A call begins or ends, and a run that was unknown may get a handle.
LEMMA CallStep ==
  ASSUME ContInv, UNCHANGED <<setup, sessions, told, history>>,
         HasSessions => counter' = counter,
         \A r \in RunIds : runs'[r] = runs[r]
           \/ (runs[r] = NoRun /\ runs'[r] # NoRun /\ runs'[r].parent_run = None),
         \A r \in RunIds : runs[r] # NoRun => runs[r].parent_run \in RunIds \cup {None},
         HasSessions => CallsHold'
  PROVE  ContInv'
<1>1. CASE ~HasSessions
  BY <1>1, NoSessionsStep
<1>2. CASE HasSessions
  <2>1. ToldKept' /\ NothingToldYet'
    BY <1>2 DEF ContInv, ToldKept, NothingToldYet, Known
  <2>2. ForksHold'
    <3> SUFFICES ASSUME setup.adapter = "forking", NEW r \in RunIds, NEW own \in told[r],
                        own.op = "handoff", runs'[r] # NoRun, runs'[r].parent_run # None
                 PROVE  LET p == runs'[r].parent_run IN
                        /\ runs'[p] # NoRun
                        /\ sessions[r] # NoSession /\ sessions[p] # NoSession
                             => ToldBefore(p, own.n) \subseteq Known(sessions[r])
      BY DEF ForksHold, Known, ToldBefore
    <3>1. runs'[r] = runs[r] /\ runs[r].parent_run \in RunIds
      OBVIOUS
    <3>2. runs[runs[r].parent_run] # NoRun
      BY <1>2, <3>1 DEF ContInv, ForksHold
    <3>3. runs'[runs[r].parent_run] # NoRun
      BY <3>1, <3>2
    <3> QED BY <1>2, <3>1, <3>3 DEF ContInv, ForksHold
  <2> QED BY <1>2, <2>1, <2>2 DEF ContInv, HasSessions
<1> QED BY <1>1, <1>2

\* The other calls keep what they rely on.
LEMMA OtherCalls ==
  ASSUME ContInv, HasSessions, NEW d \in Callers,
         calls'[d] = calls[d], UNCHANGED <<setup, sessions, told, history>>
  PROVE  /\ calls'[d].phase = "called" => Addresses(d)'
         /\ calls'[d].phase = "acted" => Used(d)'
BY DEF ContInv, CallsHold, Addresses, Used, Forks, Took, ToldBefore, Known

LEMMA ContEnd ==
  ASSUME IInv, ContInv, NEW c \in Callers, calls' = [calls EXCEPT ![c] = Idle],
         UNCHANGED <<setup, runs, sessions, counter, told, history>>
  PROVE  ContInv'
<1>1. calls'[c] = Idle /\ \A d \in Callers : d # c => calls'[d] = calls[d]
  BY DEF IInv, TypeInv
<1>2. ASSUME HasSessions PROVE CallsHold'
  BY <1>1, <1>2, OtherCalls DEF CallsHold, Idle
<1> QED BY <1>2, CallStep, ParentType

LEMMA ContDelegate ==
  ASSUME IInv, ContInv, NEW c \in Callers, NEW t \in Tasks, NEW parent, Delegate(c, t, parent)
  PROVE  ContInv'
<1>1. /\ UNCHANGED <<setup, runs, sessions, told, history>>
      /\ HasSessions => counter' = counter
  BY DEF Delegate, agentVars, HasSessions
<1>2. /\ calls'[c].phase = "called" /\ calls'[c].op = "delegate"
      /\ \A d \in Callers : d # c => calls'[d] = calls[d]
  BY DEF Delegate, Calling, IInv, TypeInv
<1>3. ASSUME HasSessions PROVE CallsHold'
  BY <1>1, <1>2, <1>3, OtherCalls DEF CallsHold, Addresses, Forks
<1> QED BY <1>1, <1>3, CallStep, ParentType

\* The command is composed from the session that the run has now.
LEMMA ContAddress ==
  ASSUME IInv, ContInv, NEW c \in Callers, NEW t \in Tasks, NEW op \in {"follow", "handoff"},
         Address(c, t, op)
  PROVE  ContInv'
<1> DEFINE run == runOf[t]
<1>1. /\ run # None
      /\ runs' = [runs EXCEPT ![run] = RequireRun(t)]
      /\ UNCHANGED <<setup, sessions, counter, told, history>>
  BY DEF Address, agentVars
<1>2. /\ run \in RunIds /\ runs \in [RunIds -> Handle \cup {NoRun}] /\ RequireRun(t) # NoRun
  BY <1>1, RequireRunFacts DEF IInv, TypeInv
<1>3. \A r \in RunIds : runs'[r] = runs[r]
        \/ (runs[r] = NoRun /\ runs'[r] # NoRun /\ runs'[r].parent_run = None)
  BY <1>1, <1>2 DEF RequireRun, NewHandle
<1>4. /\ calls'[c].op = op /\ calls'[c].run = run /\ calls'[c].phase = "called"
      /\ calls'[c].mode = CommandMode(op, run)
      /\ calls'[c].mode # "new" => calls'[c].session = sessions[run]
      /\ \A d \in Callers : d # c => calls'[d] = calls[d]
  BY DEF Address, Calling, IInv, TypeInv
<1>5. ASSUME HasSessions PROVE CallsHold'
  <2>1. Addresses(c)'
    BY <1>1, <1>4, <1>5 DEF Addresses, Forks, CommandMode
  <2> QED BY <1>1, <1>4, <1>5, <2>1, OtherCalls DEF CallsHold
<1> QED BY <1>1, <1>3, <1>5, CallStep, ParentType

\* The agent acts: its turn is later than all that was told before.
LEMMA ContAct ==
  ASSUME IInv, TurnsInv, ContInv, NEW c \in Callers, Act(c)
  PROVE  ContInv'
<1> DEFINE call == calls[c]
<1>1. PICK session : session = SessionUsed(c)
  OBVIOUS
<1>0. PICK turn : turn = Took(c)'
  OBVIOUS
<1>2. /\ calls'[c].session = session /\ calls'[c].phase = "acted"
      /\ calls'[c].op = call.op /\ calls'[c].run = call.run
      /\ \A d \in Callers : d # c => calls'[d] = calls[d]
      /\ told' = IF call.op = "follow"
                 THEN [told EXCEPT ![call.run] = @ \cup {turn}] ELSE told
      /\ turn \in Known(session)'
      /\ \A q \in 1 .. Len(history) : Known(q) \subseteq Known(q)'
      /\ call.mode = "fork" => Known(call.session) \subseteq Known(session)'
  BY <1>0, <1>1, ActKnown
<1>3. /\ call.phase = "called" /\ Active(c)
      /\ call.mode = "resume" => session = call.session
      /\ UNCHANGED <<setup, runs, sessions, counter>>
  BY <1>1 DEF Act, Active, SessionUsed, adapterVars
<1>4. told = [r \in RunIds |-> told[r]]
  BY DEF TurnsInv
<1>5. call.op = "follow" => call.run \in RunIds /\ runs[call.run] # NoRun
  BY <1>3, AddressedRun
<1>6. \A r \in RunIds : told'[r] = told[r]
        \/ (call.op = "follow" /\ r = call.run /\ told'[r] = told[r] \cup {turn})
  BY <1>2, <1>4, <1>5
<1>7. CASE ~HasSessions
  BY <1>3, <1>7, NoSessionsStep
<1>8. CASE HasSessions
  <2>0. ToldKept /\ NothingToldYet /\ ForksHold /\ CallsHold
    BY <1>8 DEF ContInv
  <2>1. \A r \in RunIds : sessions[r] # NoSession => sessions[r] \in 1 .. Len(history)
    BY SessionsAreThere
  <2>2. Addresses(c)
    BY <1>3, <2>0 DEF CallsHold
  <2>3. ToldKept'
    <3> SUFFICES ASSUME NEW r \in RunIds, sessions[r] # NoSession
                 PROVE  told'[r] \subseteq Known(sessions[r])'
      BY <1>3 DEF ToldKept, Known
    <3>1. told[r] \subseteq Known(sessions[r])'
      BY <1>2, <1>3, <2>0, <2>1 DEF ToldKept, Known
    <3>2. CASE call.op = "follow" /\ r = call.run
      <4>1. session = sessions[r]
        BY <1>3, <2>2, <3>2 DEF Addresses
      <4> QED BY <1>2, <1>3, <1>6, <3>1, <4>1 DEF Known
    <3> QED BY <1>6, <3>1, <3>2
  <2>4. NothingToldYet'
    <3> SUFFICES ASSUME NEW n \in counter + 1 .. MaxTurns PROVE told'[n] = {}
      BY <1>3 DEF NothingToldYet
    <3>1. n \in RunIds /\ runs[n] = NoRun
      BY RunConstants DEF IInv, TypeInv, CounterInv, RunIds
    <3>2. told'[n] = told[n]
      BY <1>5, <1>6, <3>1
    <3> QED BY <2>0, <3>2 DEF NothingToldYet
  \* What is told now is told after all that was: nobody's past changes.
  <2>5. turn.n = Turns + 1 /\ Turns \in Nat
    BY <1>0, ActedTurn DEF TurnsInv
  <2>6. ASSUME NEW p \in RunIds, NEW n \in Nat, n <= Turns
        PROVE  {e \in told'[p] : e.n < n} \subseteq ToldBefore(p, n)
    <3>1. ~(turn.n < n)
      BY <2>5, <2>6
    <3> QED BY <1>6, <3>1 DEF ToldBefore
  <2>7. ForksHold'
    <3> SUFFICES ASSUME setup.adapter = "forking", NEW r \in RunIds, NEW own \in told'[r],
                        own.op = "handoff", runs[r] # NoRun, runs[r].parent_run # None
                 PROVE  LET p == runs[r].parent_run IN
                        /\ runs[p] # NoRun
                        /\ sessions[r] # NoSession /\ sessions[p] # NoSession
                             => {e \in told'[p] : e.n < own.n} \subseteq Known(sessions[r])'
      BY <1>3 DEF ForksHold, Known, ToldBefore
    <3>1. runs[r].parent_run \in RunIds
      BY ParentType
    <3>2. turn.op = call.op
      BY <1>0, <1>2 DEF Took, TurnOf
    <3>3. own \in told[r]
      BY <1>6, <3>2
    <3>4. own.n \in Nat /\ own.n <= Turns
      BY <3>3, TurnsBounded
    <3>5. runs[runs[r].parent_run] # NoRun
      BY <2>0, <3>3 DEF ForksHold
    <3>6. ASSUME sessions[r] # NoSession, sessions[runs[r].parent_run] # NoSession
          PROVE  {e \in told'[runs[r].parent_run] : e.n < own.n} \subseteq Known(sessions[r])'
      <4>1. ToldBefore(runs[r].parent_run, own.n) \subseteq Known(sessions[r])
        BY <2>0, <3>3, <3>6 DEF ForksHold
      <4>2. Known(sessions[r]) \subseteq Known(sessions[r])'
        BY <1>2, <1>3, <2>1, <3>6 DEF Known
      <4> QED BY <2>6, <3>1, <3>4, <4>1, <4>2
    <3> QED BY <3>5, <3>6
  <2>8. Used(c)'
    <3>1. ASSUME Forks(c) PROVE {e \in told'[call.run] : e.n < turn.n} \subseteq Known(session)'
      <4>1. call.run \in RunIds /\ told' = told
        BY <1>2, <1>3, <3>1, AddressedRun DEF Forks
      <4>2. call.mode = "fork" /\ call.session = sessions[call.run]
        BY <2>2, <3>1 DEF Addresses
      <4>3. told[call.run] \subseteq Known(call.session)
        BY <2>0, <3>1, <4>1, <4>2 DEF ToldKept, Forks
      <4> QED BY <1>2, <4>1, <4>2, <4>3
    <3>2. calls'[c].turn = turn.n
      BY <1>0 DEF Took, TurnOf
    <3>3. Forks(c)' <=> Forks(c)
      BY <1>2, <1>3 DEF Forks
    <3> QED BY <1>0, <1>2, <3>1, <3>2, <3>3 DEF Used, Known, ToldBefore
  <2>9. ASSUME NEW d \in Callers, d # c
        PROVE  /\ calls'[d].phase = "called" => Addresses(d)'
               /\ calls'[d].phase = "acted" => Used(d)'
    <3>1. calls'[d] = calls[d]
      BY <1>2, <2>9
    <3>2. calls[d].phase = "called" => Addresses(d)'
      BY <1>3, <2>0, <3>1 DEF CallsHold, Addresses, Forks
    <3>3. ASSUME calls[d].phase = "acted" PROVE Used(d)'
      <4>1. Used(d) /\ Active(d) /\ calls[d].session \in 1 .. Len(history)
        BY <2>0, <3>3, SessionsAreThere DEF CallsHold, Active
      <4>2. Known(calls[d].session) \subseteq Known(calls[d].session)'
        BY <1>2, <3>1, <4>1 DEF Known
      <4>3. ASSUME Forks(d)
            PROVE  {e \in told'[calls[d].run] : e.n < calls[d].turn} \subseteq Known(calls[d].session)
        <5>1. calls[d].run \in RunIds
          BY <4>1, <4>3, AddressedRun DEF Forks
        <5>2. calls[d].turn \in Nat /\ calls[d].turn <= Turns
          BY <3>3, TurnsBounded
        <5>3. {e \in told'[calls[d].run] : e.n < calls[d].turn}
                \subseteq ToldBefore(calls[d].run, calls[d].turn)
          BY <2>6, <5>1, <5>2
        <5> QED BY <4>1, <4>3, <5>3 DEF Used
      <4>4. (Forks(d)' <=> Forks(d)) /\ Took(d)' = Took(d)
        BY <1>3, <3>1 DEF Forks, Took
      <4> QED BY <3>1, <4>1, <4>2, <4>3, <4>4 DEF Used, Known, ToldBefore
    <3> QED BY <3>1, <3>2, <3>3
  <2>10. CallsHold'
    BY <1>2, <2>8, <2>9 DEF CallsHold
  <2> QED BY <1>3, <1>8, <2>3, <2>4, <2>7, <2>10 DEF ContInv, HasSessions
<1> QED BY <1>7, <1>8

\* The run of an answer was told nothing before, and gets the session used.
LEMMA ContReturn ==
  ASSUME RunIdsStayUnique, IInv, TurnsInv, ContInv, NEW c \in Callers, NEW run \in RunIds,
         NEW output \in setup.prints, ReturnHarnessRun(c, run, output)
  PROVE  ContInv'
<1> DEFINE call == calls[c]
           parent == IF call.op = "delegate" THEN call.handle.parent_run ELSE call.run
           handle == NewHandle(call.handle.task, call.handle.correlation_id, parent)
<1>0. PICK turn : turn = Took(c)
  OBVIOUS
<1>1. /\ HasSessions
      /\ call.phase = "acted" /\ call.op # "follow" /\ Active(c)
      /\ runs' = [runs EXCEPT ![run] = handle]
      /\ told' = [told EXCEPT ![run] = @ \cup {turn}]
      /\ calls' = [calls EXCEPT ![c] = Idle]
      /\ UNCHANGED <<setup, history>>
      /\ NamedRun(output, run) \/ NumberedRun(output, run)
      /\ sessions' = sessions \/ sessions' = [sessions EXCEPT ![run] = call.session]
  BY <1>0 DEF ReturnHarnessRun, ReturnRun, Active, Took
<1>2. /\ runs[run] = NoRun
      /\ counter' \in 0 .. MaxTurns /\ counter <= counter' /\ run \notin counter' + 1 .. MaxTurns
  BY <1>1, FreshRun
<1>3. counter \in 0 .. MaxTurns /\ MaxTurns \in Nat
  BY RunConstants DEF IInv, TypeInv
<1>4. ToldKept /\ NothingToldYet /\ ForksHold /\ Used(c)
  BY <1>1 DEF ContInv, CallsHold
<1>5. told[run] = {} /\ sessions[run] = NoSession
  <2>1. ASSUME NamedRun(output, run) PROVE told[run] = {}
    BY <2>1 DEF NamedRun, Named
  <2>2. ASSUME NumberedRun(output, run) PROVE told[run] = {}
    <3>1. run \in counter + 1 .. MaxTurns
      BY <1>3, <2>2 DEF NumberedRun
    <3> QED BY <1>4, <3>1 DEF NothingToldYet
  <2>3. sessions[run] = NoSession
    BY <1>2 DEF IInv, SessionInv, RunSessions
  <2> QED BY <1>1, <2>1, <2>2, <2>3
<1>6. told'[run] = {turn} /\ \A r \in RunIds : r # run => told'[r] = told[r]
  BY <1>1, <1>5 DEF TurnsInv
<1>7. /\ \A r \in RunIds : r # run => sessions'[r] = sessions[r]
      /\ sessions'[run] # NoSession => sessions'[run] = call.session
  BY <1>1, <1>5 DEF IInv, TypeInv
<1>8. /\ runs'[run] = handle /\ handle.parent_run = parent /\ handle # NoRun
      /\ \A r \in RunIds : r # run => runs'[r] = runs[r]
  <2>1. handle.parent_run = parent /\ handle.task = call.handle.task
    BY DEF NewHandle
  <2>2. call.handle.task \in Tasks
    <3>1. call.handle \in Handle
      BY <1>1, ActiveCall DEF IInv
    <3> QED BY <3>1 DEF Handle
  <2>3. handle # NoRun
    BY <2>1, <2>2, RunConstants DEF NoRun
  <2> HIDE DEF handle
  <2> QED BY <1>1, <2>1, <2>3 DEF IInv, TypeInv
<1>9. calls'[c] = Idle /\ \A d \in Callers : d # c => calls'[d] = calls[d]
  BY <1>1 DEF IInv, TypeInv
<1>10. call.op # "delegate" => /\ parent = call.run /\ call.op = "handoff"
                               /\ parent \in RunIds /\ runs[parent] # NoRun /\ parent # run
  <2>1. call.op \in Ops
    BY <1>1, ActiveCall DEF IInv
  <2> QED BY <1>1, <1>2, <2>1, AddressedRun DEF Ops
<1>t. turn.n = call.turn /\ turn.op = call.op
  BY <1>0 DEF Took, TurnOf
<1> HIDE DEF parent, handle
<1>11. ToldKept'
  <2> SUFFICES ASSUME NEW r \in RunIds, sessions'[r] # NoSession
               PROVE  told'[r] \subseteq Known(sessions'[r])
    BY <1>1 DEF ToldKept, Known
  <2>1. CASE r = run
    BY <1>0, <1>4, <1>6, <1>7, <2>1 DEF Used
  <2>2. CASE r # run
    BY <1>4, <1>6, <1>7, <2>2 DEF ToldKept
  <2> QED BY <2>1, <2>2
<1>12. NothingToldYet'
  <2> SUFFICES ASSUME NEW n \in counter' + 1 .. MaxTurns PROVE told'[n] = {}
    BY DEF NothingToldYet
  <2>1. n \in counter + 1 .. MaxTurns /\ n \in RunIds /\ n # run
    BY <1>2, <1>3 DEF RunIds
  <2> QED BY <1>4, <1>6, <2>1 DEF NothingToldYet
<1>13. ForksHold'
  <2> SUFFICES ASSUME setup.adapter = "forking", NEW r \in RunIds, NEW own \in told'[r],
                      own.op = "handoff", runs'[r] # NoRun, runs'[r].parent_run # None
               PROVE  LET p == runs'[r].parent_run IN
                      /\ runs'[p] # NoRun
                      /\ sessions'[r] # NoSession /\ sessions'[p] # NoSession
                           => {e \in told'[p] : e.n < own.n} \subseteq Known(sessions'[r])
    BY <1>1 DEF ForksHold, Known, ToldBefore
  <2>1. CASE r = run
    <3>1. own = turn /\ call.op = "handoff" /\ runs'[r].parent_run = parent
      BY <1>6, <1>8, <1>t, <2>1
    <3>2. /\ parent = call.run /\ parent \in RunIds /\ runs[parent] # NoRun /\ parent # run
      BY <1>10, <3>1
    <3>3. runs'[parent] # NoRun /\ told'[parent] = told[parent] /\ sessions'[parent] = sessions[parent]
      BY <1>6, <1>7, <1>8, <3>2
    <3>4. ASSUME sessions[parent] # NoSession
          PROVE  ToldBefore(parent, call.turn) \subseteq Known(call.session)
      BY <1>1, <1>4, <3>1, <3>2, <3>4 DEF Used, Forks
    <3> QED BY <1>7, <1>t, <2>1, <3>1, <3>3, <3>4 DEF ToldBefore
  <2>2. CASE r # run
    <3>1. runs'[r] = runs[r] /\ sessions'[r] = sessions[r] /\ own \in told[r]
      BY <1>6, <1>7, <1>8, <2>2
    <3>2. PICK p : p = runs[r].parent_run
      OBVIOUS
    <3>3. p \in RunIds /\ runs[p] # NoRun /\ p # run
      BY <1>2, <1>4, <3>1, <3>2, ParentType DEF ForksHold
    <3>4. runs'[p] = runs[p] /\ told'[p] = told[p] /\ sessions'[p] = sessions[p]
      BY <1>6, <1>7, <1>8, <3>3
    <3>5. sessions[r] # NoSession /\ sessions[p] # NoSession =>
            ToldBefore(p, own.n) \subseteq Known(sessions[r])
      BY <1>4, <3>1, <3>2 DEF ForksHold
    <3> QED BY <3>1, <3>2, <3>3, <3>4, <3>5 DEF ToldBefore
  <2> QED BY <2>1, <2>2
<1>15. CallsHold'
  <2> SUFFICES ASSUME NEW d \in Callers, d # c
               PROVE  /\ calls'[d].phase = "called" => Addresses(d)'
                      /\ calls'[d].phase = "acted" => Used(d)'
    BY <1>9 DEF CallsHold, Idle
  <2>1. calls'[d] = calls[d]
    BY <1>9
  <2>2. ASSUME Active(d), calls[d].op # "delegate"
        PROVE  told'[calls[d].run] = told[calls[d].run] /\ sessions'[calls[d].run] = sessions[calls[d].run]
    <3>1. calls[d].run \in RunIds /\ calls[d].run # run
      BY <1>2, <2>2, AddressedRun
    <3> QED BY <1>6, <1>7, <3>1
  <2>3. /\ calls[d].phase = "called" => Active(d) /\ Addresses(d)
        /\ calls[d].phase = "acted" => Active(d) /\ Used(d)
    BY <1>1 DEF ContInv, CallsHold, Active
  <2>4. calls[d].phase = "called" => Addresses(d)'
    BY <1>1, <2>1, <2>2, <2>3 DEF Addresses, Forks
  <2>5. calls[d].phase = "acted" => Used(d)'
    BY <1>1, <2>1, <2>2, <2>3 DEF Used, Forks, Took, ToldBefore, Known
  <2> QED BY <2>1, <2>4, <2>5
<1> QED BY <1>1, <1>11, <1>12, <1>13, <1>15 DEF ContInv, HasSessions

\* A new adapter knows no session, so it has nothing to hold.
LEMMA ContRestart ==
  ASSUME RunIdsStayUnique, Inductive, ContInv, Restart
  PROVE  ContInv'
<1>1. /\ sessions' = [r \in RunIds |-> NoSession] /\ runs' = [r \in RunIds |-> NoRun]
      /\ calls' = [c \in Callers |-> Idle] /\ counter' = 0
      /\ UNCHANGED <<setup, told>>
  BY DEF Restart, agentVars
<1>2. counter = 0
  <2>1. restarts < setup.restarts /\ setup.restarts \in Nat /\ restarts \in Nat
    BY SetupFacts DEF Restart, Inductive, IInv, Setup
  <2> QED BY <2>1 DEF Inductive, IInv, CounterInv
<1>3. CASE ~HasSessions
  BY <1>1, <1>3 DEF ContInv, HasSessions
<1>4. CASE HasSessions
  <2>1. NothingToldYet'
    BY <1>1, <1>2, <1>4 DEF ContInv, NothingToldYet
  <2>2. ToldKept' /\ ForksHold' /\ CallsHold'
    BY <1>1 DEF ToldKept, ForksHold, CallsHold, Idle
  <2> QED BY <1>1, <1>4, <2>1, <2>2 DEF ContInv, HasSessions
<1> QED BY <1>3, <1>4

LEMMA ContNext ==
  ASSUME RunIdsStayUnique, Inductive, TurnsInv, ContInv, [Next]_vars
  PROVE  ContInv'
<1>0. IInv
  BY DEF Inductive
<1>1. ASSUME UNCHANGED <<setup, runs, sessions, counter, calls, told, history>> PROVE ContInv'
  BY <1>1 DEF ContInv, HasSessions, ToldKept, NothingToldYet, ForksHold, CallsHold, Addresses,
              Used, Forks, Took, ToldBefore, Known
<1>2. CASE UNCHANGED vars
  BY <1>1, <1>2 DEF vars, adapterVars, agentVars
<1>3. CASE Restart
  BY <1>3, ContRestart
<1>4. ASSUME NEW c \in Callers, NEW t \in Tasks, Start(c, t) PROVE ContInv'
  BY <1>0, <1>4, ContDelegate, ContAddress DEF Start
<1>5. ASSUME NEW t \in Tasks, Record(t) \/ RecordHandoff(t) PROVE ContInv'
  <2>1. ~HasSessions /\ UNCHANGED <<setup, sessions>>
    BY <1>5 DEF Record, RecordHandoff, RecordsOnly, HasSessions
  <2> QED BY <2>1, NoSessionsStep
<1>6. ASSUME NEW c \in Callers, Act(c) PROVE ContInv'
  BY <1>0, <1>6, ContAct
<1>7. ASSUME NEW c \in Callers, Fail(c) PROVE ContInv'
  BY <1>0, <1>7, ContEnd DEF Fail, adapterVars, agentVars
<1>8. ASSUME NEW t \in Tasks, Observe(t) PROVE ContInv'
  BY <1>1, <1>8 DEF Observe, agentVars
<1>9. ASSUME NEW c \in Callers, Return(c) PROVE ContInv'
  <2>1. PICK output \in setup.prints :
          \/ ReturnFollow(c, output)
          \/ ReturnCallableRun(c, output)
          \/ \E run \in RunIds :
               \/ ReturnHarnessRun(c, run, output)
               \/ ReturnProcessRun(c, run, output)
               \/ ReturnRecordedRun(c, run, output)
    BY <1>9 DEF Return
  <2>2. CASE ReturnFollow(c, output)
    BY <1>0, <2>2, ContEnd DEF ReturnFollow, agentVars
  <2>3. ASSUME NEW run \in RunIds, ReturnHarnessRun(c, run, output) PROVE ContInv'
    BY <1>0, <2>3, ContReturn
  <2>4. CASE \/ ReturnCallableRun(c, output)
             \/ \E run \in RunIds : \/ ReturnProcessRun(c, run, output)
                                    \/ ReturnRecordedRun(c, run, output)
    <3>1. ~HasSessions /\ UNCHANGED <<setup, sessions>>
      BY <2>4 DEF ReturnCallableRun, ReturnProcessRun, ReturnRecordedRun, ReturnRun, HasSessions
    <3> QED BY <3>1, NoSessionsStep
  <2> QED BY <2>1, <2>2, <2>3, <2>4
<1> QED BY <1>2, <1>3, <1>4, <1>5, <1>6, <1>7, <1>8, <1>9 DEF Next

\* The native session kept for a run holds every turn the agent acted on for
\* it, those of calls that failed or overlapped included, and after a fork what
\* the run it was forked from was told until then (_command_for_prompt,
\* _run_sessions), as long as run ids stay unique.
THEOREM SessionsAreContinuous == ASSUME RunIdsStayUnique PROVE Spec => []SessionHoldsRun
<1>1. Init => ContInv
  <2> SUFFICES ASSUME Init PROVE ContInv
    OBVIOUS
  <2>1. \A c \in Callers : calls[c].phase = "idle"
    BY DEF Init, Idle
  <2>2. \A n \in counter + 1 .. MaxTurns : n \in RunIds
    BY RunConstants DEF Init, RunIds
  <2> QED BY <2>1, <2>2 DEF Init, ContInv, ToldKept, NothingToldYet, ForksHold, CallsHold
<1>2. ASSUME Inductive, ContInv PROVE SessionHoldsRun
  <2> SUFFICES ASSUME NEW r \in RunIds, sessions[r] # NoSession
               PROVE  /\ told[r] \subseteq Known(sessions[r])
                      /\ \A own \in told[r] :
                           (/\ own.op = "handoff" /\ setup.adapter = "forking"
                            /\ runs[r].parent_run # None
                            /\ sessions[runs[r].parent_run] # NoSession)
                             => {turn \in told[runs[r].parent_run] : turn.n < own.n}
                                  \subseteq Known(sessions[r])
    BY DEF SessionHoldsRun, Known
  <2>1. HasSessions /\ runs[r] # NoRun
    BY <1>2 DEF ContInv, Inductive, IInv, SessionInv, RunSessions
  <2> QED BY <1>2, <2>1 DEF ContInv, ToldKept, ForksHold, ToldBefore
<1>3. Inductive /\ TurnsInv /\ ContInv /\ [Next]_vars => TurnsInv' /\ ContInv'
  BY ContNext, TurnsNext DEF Inductive
<1> QED BY <1>1, <1>2, <1>3, TurnsInit, RunsInductive, PTL DEF Spec
-----------------------------------------------------------------------------
\* Correlation: as what task an agent is told to see its turn.

CorrInv ==
  /\ \A r \in RunIds : runs[r] # NoRun => runs[r].correlation_id = runs[r].task
  /\ \A c \in Callers : Active(c) => calls[c].handle.correlation_id = calls[c].task
  /\ \A s \in 1 .. Len(history) : \A e \in Known(s) : e.as = e.task

LEMMA CorrKept ==
  ASSUME CorrInv, UNCHANGED history,
         \A r \in RunIds : runs'[r] = runs[r] \/ runs'[r] = NoRun
                             \/ runs'[r].correlation_id = runs'[r].task,
         \A c \in Callers : calls'[c] = calls[c] \/ calls'[c] = Idle
                              \/ calls'[c].handle.correlation_id = calls'[c].task
  PROVE  CorrInv'
BY DEF CorrInv, Active, Known, Idle

\* The handle of a task's run tells the task.
LEMMA HandleCorrelates ==
  ASSUME IInv, CorrInv, NEW t \in Tasks, runOf[t] # None
  PROVE  RequireRun(t).correlation_id = t /\ RequireRun(t).task = t
<1>1. runOf[t] \in RunIds /\ RequireRun(t).task = t
  BY RequireRunFacts DEF IInv
<1> QED BY <1>1 DEF RequireRun, NewHandle, CorrInv

LEMMA CorrReturn ==
  ASSUME IInv, CorrInv, NEW c \in Callers, NEW run, ReturnRun(c, run)
  PROVE  CorrInv'
<1> DEFINE call == calls[c]
           parent == IF call.op = "delegate" THEN call.handle.parent_run ELSE call.run
           handle == NewHandle(call.handle.task, call.handle.correlation_id, parent)
<1>1. /\ runs' = [runs EXCEPT ![run] = handle]
      /\ calls' = [calls EXCEPT ![c] = Idle]
      /\ UNCHANGED history /\ Active(c)
  BY DEF ReturnRun, Active
<1>2. handle.correlation_id = handle.task
  BY <1>1 DEF NewHandle, IInv, CallInv, CorrInv
<1> HIDE DEF handle
<1>3. \A r \in RunIds : runs'[r] = runs[r] \/ runs'[r] = handle
  BY <1>1 DEF IInv, TypeInv
<1>4. \A d \in Callers : calls'[d] = calls[d] \/ calls'[d] = Idle
  BY <1>1 DEF IInv, TypeInv
<1> QED BY <1>1, <1>2, <1>3, <1>4, CorrKept

LEMMA CorrNext ==
  ASSUME Inductive, CorrInv, [Next]_vars
  PROVE  CorrInv'
<1>0. /\ IInv /\ runs \in [RunIds -> Handle \cup {NoRun}]
      /\ calls = [c \in Callers |-> calls[c]]
  BY DEF Inductive, IInv, TypeInv
<1>1. CASE UNCHANGED vars
  BY <1>1, CorrKept DEF vars, adapterVars, agentVars
<1>2. CASE Restart
  <2>1. /\ runs' = [r \in RunIds |-> NoRun] /\ calls' = [c \in Callers |-> Idle]
        /\ UNCHANGED history
    BY <1>2 DEF Restart, agentVars
  <2> QED BY <2>1, CorrKept
<1>3. ASSUME NEW c \in Callers, NEW t \in Tasks, NEW parent, Delegate(c, t, parent) PROVE CorrInv'
  <2>1. UNCHANGED <<runs, history>> /\ calls'[c].handle.correlation_id = t /\ calls'[c].task = t
        /\ \A d \in Callers : d # c => calls'[d] = calls[d]
    BY <1>0, <1>3 DEF Delegate, Calling, agentVars, NewHandle
  <2> QED BY <2>1, CorrKept
<1>4. ASSUME NEW c \in Callers, NEW t \in Tasks, NEW op \in {"follow", "handoff"}, Address(c, t, op)
      PROVE  CorrInv'
  <2>1. RequireRun(t).correlation_id = t /\ RequireRun(t).task = t
    BY <1>0, <1>4, HandleCorrelates DEF Address
  <2>2. UNCHANGED history /\ calls'[c].handle = RequireRun(t) /\ calls'[c].task = t
        /\ \A d \in Callers : d # c => calls'[d] = calls[d]
    BY <1>0, <1>4 DEF Address, Calling, agentVars
  <2>3. \A r \in RunIds : runs'[r] = runs[r] \/ runs'[r] = RequireRun(t)
    BY <1>0, <1>4 DEF Address
  <2> QED BY <2>1, <2>2, <2>3, CorrKept
<1>5. ASSUME NEW t \in Tasks, Record(t) PROVE CorrInv'
  <2>1. RequireRun(t).correlation_id = t /\ RequireRun(t).task = t
    BY <1>0, <1>5, HandleCorrelates DEF Record
  <2>2. UNCHANGED <<history, calls>>
        /\ \A r \in RunIds : runs'[r] = runs[r] \/ runs'[r] = RequireRun(t)
    BY <1>0, <1>5 DEF Record, agentVars
  <2> QED BY <2>1, <2>2, CorrKept
<1>6. ASSUME NEW t \in Tasks, RecordHandoff(t) PROVE CorrInv'
  <2> DEFINE handle == RequireRun(t)
             new == NewHandle(handle.task, handle.correlation_id, runOf[t])
  <2>1. handle.correlation_id = t /\ handle.task = t
    BY <1>0, <1>6, HandleCorrelates DEF RecordHandoff
  <2>2. new.correlation_id = t /\ new.task = t
    BY <2>1 DEF NewHandle
  <2>3. UNCHANGED <<history, calls>>
        /\ runs' = [runs EXCEPT ![runOf[t]] = handle, ![counter + 1] = new]
    BY <1>6 DEF RecordHandoff, agentVars
  <2> HIDE DEF handle, new
  <2>4. \A r \in RunIds : runs'[r] = runs[r] \/ runs'[r] = handle \/ runs'[r] = new
    BY <1>0, <2>3
  <2> QED BY <2>1, <2>2, <2>3, <2>4, CorrKept
<1>7. ASSUME NEW c \in Callers, Act(c) PROVE CorrInv'
  <2>1. PICK session : session = SessionUsed(c)
    OBVIOUS
  <2>2. /\ Active(c)' /\ \A d \in Callers : d # c => calls'[d] = calls[d]
        /\ calls'[c].handle = calls[c].handle /\ calls'[c].task = calls[c].task
        /\ \A q \in 1 .. Len(history') : \A e \in Known(q)' :
             e = Took(c)' \/ \E s \in 1 .. Len(history) : e \in Known(s)
    BY <1>0, <1>7, <2>1, ActKnown DEF Active
  <2>3. Active(c) /\ UNCHANGED runs
    BY <1>7 DEF Act, Active, adapterVars
  <2>4. calls'[c].handle.correlation_id = calls'[c].task
    BY <2>2, <2>3 DEF CorrInv
  <2>5. Took(c)'.as = Took(c)'.task
    BY <2>4 DEF Took, TurnOf
  <2>6. \A s \in 1 .. Len(history') : \A e \in Known(s)' : e.as = e.task
    BY <2>2, <2>5 DEF CorrInv
  <2> QED BY <2>2, <2>3, <2>4, <2>6 DEF CorrInv, Active, Known
<1>8. ASSUME NEW c \in Callers, Fail(c) PROVE CorrInv'
  <2>1. UNCHANGED <<runs, history>> /\ \A d \in Callers : calls'[d] = calls[d] \/ calls'[d] = Idle
    BY <1>0, <1>8 DEF Fail, adapterVars, agentVars
  <2> QED BY <2>1, CorrKept
<1>9. ASSUME NEW t \in Tasks, Observe(t) PROVE CorrInv'
  BY <1>9, CorrKept DEF Observe, agentVars
<1>10. ASSUME NEW c \in Callers, Return(c) PROVE CorrInv'
  <2>1. PICK output \in setup.prints :
          \/ ReturnFollow(c, output)
          \/ ReturnCallableRun(c, output)
          \/ \E run \in RunIds :
               \/ ReturnHarnessRun(c, run, output)
               \/ ReturnProcessRun(c, run, output)
               \/ ReturnRecordedRun(c, run, output)
    BY <1>10 DEF Return
  <2>2. CASE ReturnFollow(c, output)
    <3>1. UNCHANGED <<runs, history>> /\ \A d \in Callers : calls'[d] = calls[d] \/ calls'[d] = Idle
      BY <1>0, <2>2 DEF ReturnFollow, agentVars
    <3> QED BY <3>1, CorrKept
  <2>3. CASE \E run : ReturnRun(c, run)
    BY <1>0, <2>3, CorrReturn
  <2> QED
    BY <2>1, <2>2, <2>3
       DEF ReturnCallableRun, ReturnHarnessRun, ReturnProcessRun, ReturnRecordedRun
<1> QED BY <1>1, <1>2, <1>3, <1>4, <1>5, <1>6, <1>7, <1>8, <1>9, <1>10 DEF Next, Start

\* "Implementations must keep task_id as the run correlation id": the adapters
\* do, whatever overlaps and fails, as long as run ids stay unique.
THEOREM CorrelationIsKept == ASSUME RunIdsStayUnique PROVE Spec => []CorrelationIsTask
<1>1. Init => CorrInv
  BY DEF Init, CorrInv, Active, Idle
<1>2. ASSUME Inductive, CorrInv PROVE CorrelationIsTask
  <2> SUFFICES ASSUME NEW s \in DOMAIN history, NEW i \in 1 .. Len(history[s])
               PROVE  history[s][i].as = history[s][i].task
    BY DEF CorrelationIsTask
  <2>1. PICK S : history \in Seq(Seq(S))
    BY <1>2 DEF Inductive, IInv, TypeInv
  <2>2. s \in 1 .. Len(history) /\ history[s][i] \in Known(s)
    BY <2>1 DEF Known, Range
  <2> QED BY <1>2, <2>2 DEF CorrInv
<1>3. Inductive /\ CorrInv /\ [Next]_vars => CorrInv'
  BY CorrNext
<1> QED BY <1>1, <1>2, <1>3, RunsInductive, PTL DEF Spec
-----------------------------------------------------------------------------
\* Events: what the host takes from the queues of a task's runs.

\* Every rank in a set of places is the rank of one of them.
LEMMA EveryRankIsTaken ==
  ASSUME NEW N \in Nat, NEW places \in SUBSET (1 .. N), NEW n \in 1 .. Cardinality(places)
  PROVE  \E i \in places : Cardinality({j \in places : j <= i}) = n
<1> DEFINE K == Cardinality(places)
           upTo(i) == {j \in places : j <= i}
           rank == [i \in places |-> Cardinality(upTo(i))]
<1>1. IsFiniteSet(places) /\ K \in Nat
  <2>1. IsFiniteSet(1 .. N)
    BY FS_Interval
  <2>2. IsFiniteSet(places)
    BY <2>1, FS_Subset
  <2> QED BY <2>2, FS_CardinalityType
<1>2. ASSUME NEW i \in places PROVE rank[i] \in 1 .. K
  <2>1. /\ IsFiniteSet(upTo(i)) /\ Cardinality(upTo(i)) <= K /\ i \in upTo(i)
        /\ Cardinality(upTo(i)) \in Nat
    BY <1>1, FS_Subset, FS_CardinalityType
  <2>2. Cardinality(upTo(i)) # 0
    BY <2>1, FS_EmptySet
  <2> QED BY <1>1, <2>1, <2>2
<1>3. ASSUME NEW i \in places, NEW k \in places, i < k PROVE rank[i] # rank[k]
  <2>1. upTo(i) \in SUBSET upTo(k) /\ k \in upTo(k) /\ k \notin upTo(i)
    <3>1. \A j \in places : j \in Nat
      OBVIOUS
    <3>2. \A j \in places : j <= i => j <= k
      BY <1>3, <3>1
    <3>3. ~(k <= i) /\ k <= k
      BY <1>3, <3>1
    <3> QED BY <1>3, <3>2, <3>3
  <2>0. IsFiniteSet(upTo(k))
    BY <1>1, FS_Subset
  <2> HIDE DEF upTo
  <2>2. Cardinality(upTo(i)) # Cardinality(upTo(k))
    BY <2>0, <2>1, FS_Subset
  <2> QED BY <2>2 DEF rank
<1>4. SUFFICES ASSUME \A i \in places : rank[i] # n PROVE FALSE
  OBVIOUS
<1>5. IsFiniteSet((1 .. K) \ {n}) /\ Cardinality((1 .. K) \ {n}) < K
  <2>1. IsFiniteSet(1 .. K) /\ Cardinality(1 .. K) = K
    BY <1>1, FS_Interval
  <2>2. n \in 1 .. K /\ K - 1 < K
    BY <1>1
  <2> HIDE DEF K
  <2> QED BY <2>1, <2>2, FS_RemoveElement
<1>6. rank \in [places -> (1 .. K) \ {n}]
  BY <1>2, <1>4
<1>7. PICK i \in places, k \in places : i # k /\ rank[i] = rank[k]
  <2> HIDE DEF rank
  <2> QED BY <1>1, <1>5, <1>6, FS_PigeonHole
<1>8. i < k \/ k < i
  BY <1>7
<1> QED BY <1>3, <1>7, <1>8

\* The lines that are queued are lines of the output that ask, no two alike.
LEMMA HumanLoopLinesFacts ==
  ASSUME NEW output \in Seq(Line)
  PROVE  LET lines == HumanLoopLines(output) IN
         /\ Len(lines) \in Nat /\ DOMAIN lines = 1 .. Len(lines)
         /\ \A n \in 1 .. Len(lines) : \E i \in DOMAIN output : lines[n] = output[i] /\ Asks(output[i])
         /\ \A n, m \in 1 .. Len(lines) : n # m => lines[n].content # lines[m].content
<1> DEFINE places == {i \in DOMAIN output :
                        Asks(output[i]) /\ \A j \in 1 .. i - 1 : output[j].content # output[i].content}
           nth(n) == CHOOSE i \in places : Cardinality({j \in places : j <= i}) = n
           lines == [n \in 1 .. Cardinality(places) |-> output[nth(n)]]
<1>1. HumanLoopLines(output) = lines
  BY DEF HumanLoopLines
<1>2. DOMAIN output = 1 .. Len(output) /\ Len(output) \in Nat /\ places \in SUBSET (1 .. Len(output))
  OBVIOUS
<1>3. Cardinality(places) \in Nat
  <2> HIDE DEF places
  <2>1. IsFiniteSet(1 .. Len(output))
    BY <1>2, FS_Interval
  <2>2. IsFiniteSet(places)
    BY <1>2, <2>1, FS_Subset
  <2> QED BY <2>2, FS_CardinalityType
<1>4. Len(lines) = Cardinality(places) /\ DOMAIN lines = 1 .. Len(lines)
  <2> HIDE DEF places, nth
  <2> QED BY <1>3
<1>5. ASSUME NEW n \in 1 .. Cardinality(places)
      PROVE  nth(n) \in places /\ Cardinality({j \in places : j <= nth(n)}) = n
  <2>1. \E i \in places : Cardinality({j \in places : j <= i}) = n
    BY <1>2, EveryRankIsTaken
  <2> QED BY <2>1
<1>6. ASSUME NEW n \in 1 .. Cardinality(places), NEW m \in 1 .. Cardinality(places), n # m
      PROVE  lines[n].content # lines[m].content
  <2>1. nth(n) # nth(m) /\ nth(n) \in places /\ nth(m) \in places
    BY <1>5, <1>6
  <2> HIDE DEF nth
  <2>2. nth(n) \in 1 .. nth(m) - 1 \/ nth(m) \in 1 .. nth(n) - 1
    BY <1>2, <2>1
  <2>3. output[nth(n)].content # output[nth(m)].content
    BY <2>1, <2>2
  <2> QED BY <2>3
<1>7. \A n \in 1 .. Cardinality(places) : \E i \in DOMAIN output : lines[n] = output[i] /\ Asks(output[i])
  BY <1>5
<1> HIDE DEF lines, places
<1> QED BY <1>1, <1>3, <1>4, <1>6, <1>7

\* A line that asks carries one of the signatures, which says what it asks.
LEMMA AskingLine ==
  ASSUME NEW line \in Line, Asks(line)
  PROVE  line.content.asks \in Signatures /\ line.content = [asks |-> line.content.asks]
<1>1. line.content \in Content /\ "asks" \in DOMAIN line.content
  BY DEF Line, Asks
<1>2. /\ DOMAIN Nothing = {"says"}
      /\ \A c \in [todo : Seq(ItemState)] : DOMAIN c = {"todo"}
      /\ \A c \in [agent : SubAgents, done : BOOLEAN] : DOMAIN c = {"agent", "done"}
  BY DEF Nothing
<1>3. line.content \in [asks : Signatures]
  BY <1>1, <1>2 DEF Content
<1> QED BY <1>3

\* What an accepted answer adds to the queue: lines about the task
\* that the agent was told, no two of them alike.
LEMMA QueuedFacts ==
  ASSUME NEW call, NEW output \in Seq(Line), EventsCorrelate(output)
  PROVE  LET new == Queued(call, output) IN
         /\ new \in Seq([about : {"nobody", "own"}, as : {call.handle.correlation_id},
                         answer : {answers + 1}, signature : Signatures])
         /\ \A n, m \in 1 .. Len(new) : n # m => new[n].signature # new[m].signature
<1> DEFINE lines == HumanLoopLines(output)
           entry(n) == [about |-> lines[n].about, as |-> call.handle.correlation_id,
                        answer |-> answers + 1, signature |-> lines[n].content.asks]
           new == [n \in 1 .. Len(lines) |-> entry(n)]
<1>1. Queued(call, output) = new
  BY DEF Queued
<1>2. /\ Len(lines) \in Nat
      /\ \A n \in 1 .. Len(lines) : \E i \in DOMAIN output : lines[n] = output[i] /\ Asks(output[i])
      /\ \A n, m \in 1 .. Len(lines) : n # m => lines[n].content # lines[m].content
  BY HumanLoopLinesFacts
<1> HIDE DEF lines
<1>3. ASSUME NEW n \in 1 .. Len(lines)
      PROVE  /\ lines[n].about \in {"nobody", "own"}
             /\ lines[n].content.asks \in Signatures
             /\ lines[n].content = [asks |-> lines[n].content.asks]
  <2>1. PICK i \in DOMAIN output : lines[n] = output[i] /\ Asks(output[i])
    BY <1>2
  <2>2. output[i] \in Line /\ output[i].about # "other"
    BY DEF EventsCorrelate
  <2>3. output[i].about \in {"nobody", "own"}
    BY <2>2 DEF Line
  <2> QED BY <2>1, <2>2, <2>3, AskingLine
<1>4. \A n, m \in 1 .. Len(lines) : n # m => lines[n].content.asks # lines[m].content.asks
  BY <1>2, <1>3
<1>5. \A n \in 1 .. Len(lines) :
        entry(n) \in [about : {"nobody", "own"}, as : {call.handle.correlation_id},
                      answer : {answers + 1}, signature : Signatures]
  BY <1>3
<1>6. /\ new \in Seq([about : {"nobody", "own"}, as : {call.handle.correlation_id},
                      answer : {answers + 1}, signature : Signatures])
      /\ Len(new) = Len(lines)
  <2> HIDE DEF entry
  <2> QED BY <1>2, <1>5
<1>7. \A n \in 1 .. Len(lines) : new[n].signature = lines[n].content.asks
  OBVIOUS
<1> HIDE DEF new
<1> QED BY <1>1, <1>4, <1>6, <1>7

\* Events of later answers come later, those of one answer differ.
InOrder(events) ==
  \A i, j \in 1 .. Len(events) : i < j =>
    /\ events[i].answer <= events[j].answer
    /\ events[i].answer = events[j].answer => events[i].signature # events[j].signature
Before(events, answer) == \A i \in 1 .. Len(events) : events[i].answer < answer

\* What waits in the queue of a run is about the task of the run.
QueuesOrdered ==
  /\ queue \in [RunIds -> Seq(Queuing)]
  /\ \A r \in RunIds : InOrder(queue[r])
  /\ \A r \in RunIds : \A i \in 1 .. Len(queue[r]) :
       /\ runs[r] # NoRun /\ queue[r][i].as = runs[r].task
       /\ queue[r][i].about # "other"
       /\ queue[r][i].answer <= answers
ObservedOrdered ==
  /\ observed \in [Tasks -> Seq(Event)]
  /\ \A t \in Tasks : InOrder(observed[t])
  /\ \A t \in Tasks : \A i \in 1 .. Len(observed[t]) :
       observed[t][i].task = t /\ observed[t][i].answer <= answers

\* What the host has not taken yet from the task's present run is of later
\* answers than what it took, from that run or from earlier ones.
QueuedLater ==
  \A t \in Tasks : runOf[t] # None =>
    \A i \in 1 .. Len(queue[runOf[t]]) : Before(observed[t], queue[runOf[t]][i].answer)

EventInv == answers \in Nat /\ QueuesOrdered /\ ObservedOrdered /\ QueuedLater

\* What an answer adds to the events of earlier answers keeps them in order.
LEMMA LaterEvents ==
  ASSUME NEW A, NEW B, NEW a \in Seq(A), NEW b \in Seq(B),
         \A e \in A : e.answer \in Nat, \A e \in B : e.answer \in Nat,
         InOrder(a), InOrder(b), \A i \in 1 .. Len(b) : Before(a, b[i].answer)
  PROVE  InOrder(a \o b)
<1> DEFINE ab == a \o b
<1>1. /\ Len(a) \in Nat /\ Len(b) \in Nat /\ Len(ab) = Len(a) + Len(b)
      /\ \A i \in 1 .. Len(a) : ab[i] = a[i]
      /\ \A i \in Len(a) + 1 .. Len(ab) : ab[i] = b[i - Len(a)] /\ i - Len(a) \in 1 .. Len(b)
      /\ \A i \in 1 .. Len(a) : a[i].answer \in Nat
      /\ \A i \in 1 .. Len(b) : b[i].answer \in Nat
  OBVIOUS
<1> HIDE DEF ab
<1> SUFFICES ASSUME NEW i \in 1 .. Len(ab), NEW j \in 1 .. Len(ab), i < j
             PROVE  /\ ab[i].answer <= ab[j].answer
                    /\ ab[i].answer = ab[j].answer => ab[i].signature # ab[j].signature
  BY DEF InOrder, ab
<1>2. CASE i \in 1 .. Len(a) /\ j \in 1 .. Len(a)
  BY <1>1, <1>2 DEF InOrder
<1>3. CASE i \in 1 .. Len(a) /\ j \in Len(a) + 1 .. Len(ab)
  <2>1. ab[i].answer < ab[j].answer /\ ab[i].answer \in Nat /\ ab[j].answer \in Nat
    BY <1>1, <1>3 DEF Before
  <2> QED BY <2>1
<1>4. CASE i \in Len(a) + 1 .. Len(ab) /\ j \in Len(a) + 1 .. Len(ab)
  <2>1. /\ i - Len(a) < j - Len(a)
        /\ i - Len(a) \in 1 .. Len(b) /\ j - Len(a) \in 1 .. Len(b)
        /\ ab[i] = b[i - Len(a)] /\ ab[j] = b[j - Len(a)]
    BY <1>1, <1>4
  <2>2. \A m, n \in 1 .. Len(b) : m < n =>
          /\ b[m].answer <= b[n].answer
          /\ b[m].answer = b[n].answer => b[m].signature # b[n].signature
    BY DEF InOrder
  <2> QED BY <2>1, <2>2
<1> QED BY <1>1, <1>2, <1>3, <1>4

\* Nothing is taken in or taken out; a task may move to a run without events.
LEMMA EventsRest ==
  ASSUME EventInv, UNCHANGED <<queue, observed, answers>>,
         \A r \in RunIds : runs[r] # NoRun => runs'[r] # NoRun /\ runs'[r].task = runs[r].task,
         \A t \in Tasks : runOf'[t] = runOf[t] \/ queue[runOf'[t]] = << >>
  PROVE  EventInv'
<1>1. QueuesOrdered'
  BY DEF EventInv, QueuesOrdered, InOrder
<1>2. ObservedOrdered'
  BY DEF EventInv, ObservedOrdered, InOrder
<1>3. QueuedLater'
  <2> SUFFICES ASSUME NEW t \in Tasks, runOf'[t] # None, NEW i \in 1 .. Len(queue[runOf'[t]])
               PROVE  Before(observed[t], queue[runOf'[t]][i].answer)
    BY DEF QueuedLater, Before
  <2>1. queue[runOf'[t]] # << >>
    <3>1. Len(<< >>) = 0
      OBVIOUS
    <3> QED BY <3>1
  <2> QED BY <2>1 DEF EventInv, QueuedLater
<1> QED BY <1>1, <1>2, <1>3 DEF EventInv

\* A run that is not known has nothing in its queue.
LEMMA UnknownIsEmpty ==
  ASSUME QueuesOrdered, NEW r \in RunIds, runs[r] = NoRun
  PROVE  queue[r] = << >>
<1>1. queue[r] \in Seq(Queuing) /\ ~ \E i \in 1 .. Len(queue[r]) : TRUE
  BY DEF QueuesOrdered
<1> QED BY <1>1

\* An answer is taken for a run, which is known by then as a run of the call's
\* task: it was so before, or it was nobody's and the task may move to it.
LEMMA EventsTake ==
  ASSUME RunIdsStayUnique, IInv, CorrInv, EventInv,
         NEW c \in Callers, NEW t \in Tasks, NEW run \in RunIds, NEW output \in setup.prints,
         HasSessions, Accepted(output), Active(c), calls[c].task = t,
         queue' = [queue EXCEPT ![run] = @ \o Queued(calls[c], output)],
         answers' = answers + 1, UNCHANGED observed,
         runs[run] = NoRun \/ runs[run].task = t,
         runs'[run] # NoRun, runs'[run].task = t,
         \A r \in RunIds : r # run => runs'[r] = runs[r],
         \A u \in Tasks : runOf'[u] = runOf[u] \/ (runOf'[u] = run /\ runs[run] = NoRun)
  PROVE  EventInv'
<1> DEFINE call == calls[c]
           old == queue[run]
           new == Queued(call, output)
<1>1. output \in Seq(Line) /\ EventsCorrelate(output)
  <2>1. setup \in Setup
    BY SetupFacts DEF IInv
  <2> QED BY <2>1 DEF Setup, Accepted, HasSessions
<1>2. call.handle.correlation_id = t
  BY DEF CorrInv
<1>n. PICK next : next = answers + 1
  OBVIOUS
<1>m. next \in Nat /\ answers \in Nat /\ answers < next /\ next = answers'
  BY <1>n DEF EventInv
<1>3. /\ new \in Seq([about : {"nobody", "own"}, as : {t}, answer : {next},
                      signature : Signatures])
      /\ \A n, m \in 1 .. Len(new) : n # m => new[n].signature # new[m].signature
  <2>1. /\ new \in Seq([about : {"nobody", "own"}, as : {call.handle.correlation_id},
                        answer : {answers + 1}, signature : Signatures])
        /\ \A n, m \in 1 .. Len(new) : n # m => new[n].signature # new[m].signature
    <3> HIDE DEF call
    <3> QED BY <1>1, QueuedFacts
  <2> HIDE DEF new
  <2> QED BY <1>2, <1>n, <2>1
<1> HIDE DEF new
<1>4. /\ new \in Seq(Queuing)
      /\ \A i \in 1 .. Len(new) : new[i].about # "other" /\ new[i].as = t /\ new[i].answer = next
  <2> DEFINE W == [about : {"nobody", "own"}, as : {t}, answer : {next}, signature : Signatures]
  <2>1. W \subseteq Queuing
    BY <1>m DEF Queuing
  <2>2. \A e \in W : e.about # "other" /\ e.as = t /\ e.answer = next
    OBVIOUS
  <2>3. new \in Seq(W)
    BY <1>3
  <2> HIDE DEF W
  <2> QED BY <2>1, <2>2, <2>3, SeqMonotonic
<1>6. (\A e \in Queuing : e.answer \in Nat) /\ \A e \in Event : e.answer \in Nat
  BY DEF Queuing, Event
<1>5. /\ old \in Seq(Queuing) /\ InOrder(old) /\ Before(old, next)
      /\ \A i \in 1 .. Len(old) : old[i].about # "other" /\ old[i].as = t /\ old[i].answer <= next
  <2>1. /\ old \in Seq(Queuing) /\ InOrder(old)
        /\ \A i \in 1 .. Len(old) : /\ runs[run] # NoRun /\ old[i].as = runs[run].task
                                    /\ old[i].about # "other" /\ old[i].answer <= answers
    BY DEF EventInv, QueuesOrdered
  <2> HIDE DEF old
  <2>2. \A i \in 1 .. Len(old) : old[i].answer < next /\ old[i].answer <= next
    BY <1>6, <1>m, <2>1
  <2> QED BY <2>1, <2>2 DEF Before
<1>o. \A u \in Tasks : Before(observed[u], next)
  <2>1. \A u \in Tasks : \A i \in 1 .. Len(observed[u]) :
          observed[u][i].answer \in Nat /\ observed[u][i].answer <= answers
    BY <1>6 DEF EventInv, ObservedOrdered
  <2> QED BY <1>m, <2>1 DEF Before
<1>7. InOrder(new)
  <2>1. next <= next
    BY <1>m
  <2> QED BY <1>3, <1>4, <2>1 DEF InOrder
<1>8. queue'[run] = old \o new /\ \A r \in RunIds : r # run => queue'[r] = queue[r]
  BY DEF EventInv, QueuesOrdered, new
<1> HIDE DEF old
<1>9. InOrder(old \o new)
  <2>1. \A i \in 1 .. Len(new) : Before(old, new[i].answer)
    BY <1>4, <1>5
  <2> QED BY <1>4, <1>5, <1>6, <1>7, <2>1, LaterEvents
<1>10. /\ old \o new \in Seq(Queuing)
       /\ \A i \in 1 .. Len(old \o new) :
            \/ \E j \in 1 .. Len(old) : (old \o new)[i] = old[j]
            \/ \E j \in 1 .. Len(new) : (old \o new)[i] = new[j]
  BY <1>4, <1>5
<1> DEFINE all == old \o new
<1>11. \A i \in 1 .. Len(all) : all[i].about # "other" /\ all[i].as = t /\ all[i].answer <= next
  <2>1. next <= next
    BY <1>m
  <2> QED BY <1>4, <1>5, <1>10, <2>1
<1>12. \A i \in 1 .. Len(all) :
         (\E j \in 1 .. Len(old) : all[i] = old[j]) \/ all[i].answer = next
  BY <1>4, <1>10
<1> HIDE DEF all
<1>14. QueuesOrdered'
  <2>1. queue' \in [RunIds -> Seq(Queuing)]
    BY <1>8, <1>10 DEF EventInv, QueuesOrdered, new
  <2>2. \A r \in RunIds : InOrder(queue[r])' = InOrder(queue'[r])
    BY DEF InOrder
  <2>3. \A r \in RunIds : InOrder(queue'[r])
    BY <1>8, <1>9 DEF EventInv, QueuesOrdered
  <2>4. ASSUME NEW r \in RunIds, NEW i \in 1 .. Len(queue'[r])
        PROVE  /\ runs'[r] # NoRun /\ queue'[r][i].as = runs'[r].task
               /\ queue'[r][i].about # "other" /\ queue'[r][i].answer <= next
    <3>1. CASE r = run
      BY <1>8, <1>11, <2>4, <3>1 DEF all
    <3>2. CASE r # run
      <4>1. /\ queue'[r] = queue[r] /\ runs'[r] = runs[r] /\ queue[r] \in Seq(Queuing)
            /\ i \in 1 .. Len(queue[r])
        BY <1>8, <2>4, <3>2 DEF EventInv, QueuesOrdered
      <4>2. /\ runs[r] # NoRun /\ queue[r][i].as = runs[r].task
            /\ queue[r][i].about # "other" /\ queue[r][i].answer <= answers
        BY <4>1 DEF EventInv, QueuesOrdered
      <4>3. queue[r][i].answer \in Nat
        BY <1>6, <4>1
      <4>4. queue[r][i].answer <= next
        BY <1>m, <4>2, <4>3
      <4> QED BY <4>1, <4>2, <4>4
    <3> QED BY <3>1, <3>2
  <2> QED BY <1>m, <2>1, <2>2, <2>3, <2>4 DEF QueuesOrdered
<1>15. ObservedOrdered'
  <2>1. \A u \in Tasks : \A i \in 1 .. Len(observed[u]) : observed[u][i].answer <= next
    <3>1. \A u \in Tasks : \A i \in 1 .. Len(observed[u]) :
            observed[u][i].answer \in Nat /\ observed[u][i].answer < next
      BY <1>6, <1>o DEF EventInv, ObservedOrdered, Before
    <3> QED BY <1>m, <3>1
  <2> QED BY <1>m, <2>1 DEF EventInv, ObservedOrdered, InOrder
<1>16. QueuedLater'
  <2> SUFFICES ASSUME NEW u \in Tasks, runOf'[u] # None, NEW i \in 1 .. Len(queue'[runOf'[u]])
               PROVE  Before(observed[u], queue'[runOf'[u]][i].answer)
    BY DEF QueuedLater, Before
  <2>1. CASE runOf'[u] # run
    <3>1. runOf'[u] = runOf[u] /\ runOf[u] \in RunIds /\ runOf[u] # run
      BY <2>1 DEF IInv, TypeInv
    <3> QED BY <1>8, <3>1 DEF EventInv, QueuedLater
  <2>2. CASE runOf'[u] = run
    <3>1. i \in 1 .. Len(all) /\ queue'[runOf'[u]][i] = all[i]
      BY <1>8, <2>2 DEF all
    <3>2. CASE all[i].answer = next
      BY <1>o, <3>1, <3>2
    <3>3. ASSUME NEW j \in 1 .. Len(old), all[i] = old[j]
          PROVE  Before(observed[u], queue'[runOf'[u]][i].answer)
      <4>1. runs[run] # NoRun
        BY DEF EventInv, QueuesOrdered, old
      <4>2. runOf[u] = run /\ run # None
        BY <2>2, <4>1
      <4>3. Before(observed[u], old[j].answer)
        BY <3>3, <4>2 DEF EventInv, QueuedLater, old
      <4> QED BY <3>1, <3>3, <4>3
    <3> QED BY <1>12, <3>1, <3>2, <3>3
  <2> QED BY <2>1, <2>2
<1> QED BY <1>m, <1>14, <1>15, <1>16 DEF EventInv

\* The host takes a queue: its events are about the run's task, and later than
\* what it took before.
LEMMA EventsObserve ==
  ASSUME IInv, EventInv, NEW t \in Tasks, Observe(t)
  PROVE  EventInv'
<1> DEFINE run == runOf[t]
           q == queue[run]
           new == [i \in 1 .. Len(q) |-> Delivered(run, q[i])]
<1>1. /\ run # None /\ runs[run] # NoRun
      /\ observed' = [observed EXCEPT ![t] = @ \o new]
      /\ queue' = [queue EXCEPT ![run] = << >>]
      /\ UNCHANGED <<runOf, runs, answers>>
  BY DEF Observe, agentVars
<1>2. run \in RunIds /\ runs[run].task = t /\ \A u \in Tasks : u # t => runOf[u] # run
  BY <1>1 DEF IInv, TypeInv, RunInv
<1>3. /\ q \in Seq(Queuing) /\ InOrder(q) /\ Len(q) \in Nat
      /\ \A i \in 1 .. Len(q) : /\ q[i] \in Queuing /\ q[i].as = t /\ q[i].about # "other"
                                /\ q[i].answer <= answers
                                /\ Before(observed[t], q[i].answer)
  BY <1>1, <1>2 DEF EventInv, QueuesOrdered, QueuedLater
<1> HIDE DEF q, run
<1>4. ASSUME NEW i \in 1 .. Len(q)
      PROVE  Delivered(run, q[i]) = [task |-> t, answer |-> q[i].answer, signature |-> q[i].signature]
  <2>1. q[i].about \in {"nobody", "own"}
    BY <1>3 DEF Queuing
  <2> QED BY <1>2, <1>3, <2>1 DEF Delivered
<1>5. /\ new \in Seq(Event) /\ Len(new) = Len(q)
      /\ \A i \in 1 .. Len(new) : /\ new[i].task = t /\ new[i].answer = q[i].answer
                                  /\ new[i].signature = q[i].signature
  <2>1. \A i \in 1 .. Len(q) :
          [task |-> t, answer |-> q[i].answer, signature |-> q[i].signature] \in Event
    BY <1>3 DEF Queuing, Event
  <2> DEFINE taken(i) == Delivered(run, q[i])
  <2>2. \A i \in 1 .. Len(q) :
          /\ taken(i) \in Event
          /\ taken(i).task = t /\ taken(i).answer = q[i].answer /\ taken(i).signature = q[i].signature
    <3> SUFFICES ASSUME NEW i \in 1 .. Len(q)
                 PROVE  /\ taken(i) \in Event
                        /\ taken(i).task = t /\ taken(i).answer = q[i].answer
                        /\ taken(i).signature = q[i].signature
      OBVIOUS
    <3>1. taken(i) = [task |-> t, answer |-> q[i].answer, signature |-> q[i].signature]
      BY <1>4
    <3> HIDE DEF taken
    <3> QED BY <2>1, <3>1
  <2>3. new = [i \in 1 .. Len(q) |-> taken(i)]
    OBVIOUS
  <2> HIDE DEF taken, new
  <2> QED BY <1>3, <2>2, <2>3
<1> HIDE DEF new
<1>6. InOrder(new)
  BY <1>3, <1>5 DEF InOrder
<1>7. observed[t] \in Seq(Event) /\ InOrder(observed[t])
      /\ \A i \in 1 .. Len(observed[t]) : observed[t][i].task = t /\ observed[t][i].answer <= answers
  BY DEF EventInv, ObservedOrdered
<1>8. \A e \in Event : e.answer \in Nat
  BY DEF Event
<1> DEFINE all == observed[t] \o new
<1>9. InOrder(all)
  <2>1. \A i \in 1 .. Len(new) : Before(observed[t], new[i].answer)
    BY <1>3, <1>5
  <2> QED BY <1>5, <1>6, <1>7, <1>8, <2>1, LaterEvents
<1>10. /\ all \in Seq(Event)
       /\ \A i \in 1 .. Len(all) : \/ \E j \in 1 .. Len(observed[t]) : all[i] = observed[t][j]
                                   \/ \E j \in 1 .. Len(new) : all[i] = new[j]
  BY <1>5, <1>7
<1>11. \A i \in 1 .. Len(all) : all[i].task = t /\ all[i].answer <= answers
  <2> HIDE DEF all
  <2>1. \A i \in 1 .. Len(new) : new[i].task = t /\ new[i].answer <= answers
    BY <1>3, <1>5
  <2> QED BY <1>7, <1>10, <2>1
<1>12. /\ observed'[t] = all /\ \A u \in Tasks : u # t => observed'[u] = observed[u]
       /\ observed' \in [Tasks -> Seq(Event)]
  <2>1. observed' = [observed EXCEPT ![t] = all]
    BY <1>1
  <2> HIDE DEF all
  <2> QED BY <1>10, <2>1 DEF EventInv, ObservedOrdered
<1>13. /\ queue'[run] = << >> /\ \A r \in RunIds : r # run => queue'[r] = queue[r]
       /\ queue' \in [RunIds -> Seq(Queuing)]
  BY <1>1, <1>2 DEF EventInv, QueuesOrdered
<1>14. answers' = answers
  BY <1>1
<1>15. QueuesOrdered'
  <2>1. \A r \in RunIds : queue'[r] = queue[r] \/ queue'[r] = << >>
    BY <1>13
  <2>2. InOrder(<< >>)
    BY DEF InOrder
  <2>3. \A r \in RunIds : InOrder(queue'[r])
    BY <2>1, <2>2 DEF EventInv, QueuesOrdered
  <2>4. \A r \in RunIds : \A i \in 1 .. Len(queue'[r]) :
          /\ runs[r] # NoRun /\ queue'[r][i].as = runs[r].task
          /\ queue'[r][i].about # "other"
          /\ queue'[r][i].answer <= answers
    BY <2>1 DEF EventInv, QueuesOrdered
  <2> QED BY <1>1, <1>13, <1>14, <2>3, <2>4 DEF QueuesOrdered, InOrder
<1>16. ObservedOrdered'
  <2> HIDE DEF all
  <2>1. \A u \in Tasks : InOrder(observed'[u])
    BY <1>9, <1>12 DEF EventInv, ObservedOrdered
  <2>2. \A u \in Tasks : \A i \in 1 .. Len(observed'[u]) :
          observed'[u][i].task = u /\ observed'[u][i].answer <= answers
    BY <1>11, <1>12 DEF EventInv, ObservedOrdered
  <2> QED BY <1>12, <1>14, <2>1, <2>2 DEF ObservedOrdered, InOrder
<1>17. QueuedLater'
  <2> SUFFICES ASSUME NEW u \in Tasks, runOf[u] # None, NEW i \in 1 .. Len(queue'[runOf[u]])
               PROVE  Before(observed'[u], queue'[runOf[u]][i].answer)
    BY <1>1 DEF QueuedLater, Before
  <2>1. u # t
    BY <1>13 DEF run
  <2>2. queue'[runOf[u]] = queue[runOf[u]] /\ observed'[u] = observed[u]
    BY <1>2, <1>12, <1>13, <2>1 DEF IInv, TypeInv
  <2> QED BY <2>2 DEF EventInv, QueuedLater
<1> QED BY <1>1, <1>14, <1>15, <1>16, <1>17 DEF EventInv

\* A new adapter has no events.
LEMMA EventsRestart ==
  ASSUME IInv, EventInv, Restart
  PROVE  EventInv'
<1>1. queue' = [r \in RunIds |-> << >>] /\ UNCHANGED <<runOf, observed, answers>>
  BY DEF Restart
<1>2. QueuesOrdered'
  BY <1>1 DEF QueuesOrdered, InOrder
<1>3. ObservedOrdered'
  BY <1>1 DEF EventInv, ObservedOrdered, InOrder
<1>4. QueuedLater'
  <2> SUFFICES ASSUME NEW t \in Tasks, runOf[t] # None, NEW i \in 1 .. Len(queue'[runOf[t]])
               PROVE  FALSE
    BY <1>1 DEF QueuedLater
  <2>1. runOf[t] \in RunIds
    BY DEF IInv, TypeInv
  <2> QED BY <1>1, <2>1
<1> QED BY <1>1, <1>2, <1>3, <1>4 DEF EventInv

\* A task's run gets its handle.
LEMMA EventsKnow ==
  ASSUME IInv, EventInv, NEW t \in Tasks, runOf[t] # None,
         runs' = [runs EXCEPT ![runOf[t]] = RequireRun(t)],
         UNCHANGED <<queue, observed, answers, runOf>>
  PROVE  EventInv'
<1>1. \A r \in RunIds : runs[r] # NoRun => runs'[r] = runs[r]
  BY RequireRunFacts DEF IInv, TypeInv
<1> QED BY <1>1, EventsRest

\* A run that was nobody's is returned, and its answer has no events.
LEMMA EventsBind ==
  ASSUME IInv, EventInv, NEW c \in Callers, NEW run \in RunIds, ReturnRun(c, run),
         runs[run] = NoRun, UNCHANGED <<queue, answers>>
  PROVE  EventInv'
<1>1. \E handle : runs' = [runs EXCEPT ![run] = handle]
  BY DEF ReturnRun
<1>2. \A r \in RunIds : runs[r] # NoRun => runs'[r] = runs[r]
  BY <1>1 DEF IInv, TypeInv
<1>3. queue[run] = << >>
  BY UnknownIsEmpty DEF EventInv
<1>4. UNCHANGED observed /\ \A u \in Tasks : runOf'[u] = runOf[u] \/ runOf'[u] = run
  BY DEF ReturnRun, IInv, TypeInv
<1> QED BY <1>2, <1>3, <1>4, EventsRest

LEMMA EventsRecordHandoff ==
  ASSUME IInv, EventInv, NEW t \in Tasks, RecordHandoff(t)
  PROVE  EventInv'
<1> DEFINE handle == RequireRun(t)
           run == counter + 1
           new == NewHandle(handle.task, handle.correlation_id, runOf[t])
<1>1. /\ runOf[t] # None /\ counter < MaxTurns
      /\ runs' = [runs EXCEPT ![runOf[t]] = handle, ![run] = new]
      /\ runOf' = [runOf EXCEPT ![t] = run]
      /\ UNCHANGED <<queue, answers, observed>>
  BY DEF RecordHandoff, outputVars
<1>2. run \in counter + 1 .. MaxTurns /\ run \in RunIds
  BY <1>1, RunConstants DEF IInv, TypeInv, RunIds
<1>3. runs[run] = NoRun /\ runs[runOf[t]] # NoRun => handle = runs[runOf[t]]
  BY <1>1, <1>2, RequireRunFacts DEF IInv, CounterInv
<1>4. queue[run] = << >>
  BY <1>1, <1>2, UnknownIsEmpty DEF EventInv, IInv, CounterInv
<1>5. runs[run] = NoRun
  BY <1>2 DEF IInv, CounterInv
<1> HIDE DEF handle, new, run
<1>6. \A r \in RunIds : runs[r] # NoRun => runs'[r] = runs[r]
  BY <1>1, <1>3, <1>5 DEF IInv, TypeInv
<1>7. \A u \in Tasks : runOf'[u] = runOf[u] \/ queue[runOf'[u]] = << >>
  BY <1>1, <1>4 DEF IInv, TypeInv
<1> QED BY <1>1, <1>6, <1>7, EventsRest

LEMMA EventsReturn ==
  ASSUME RunIdsStayUnique, IInv, CorrInv, EventInv, NEW c \in Callers, Return(c)
  PROVE  EventInv'
<1>1. PICK output \in setup.prints :
        \/ ReturnFollow(c, output)
        \/ ReturnCallableRun(c, output)
        \/ \E run \in RunIds :
             \/ ReturnHarnessRun(c, run, output)
             \/ ReturnProcessRun(c, run, output)
             \/ ReturnRecordedRun(c, run, output)
  BY DEF Return
<1>2. CASE ReturnFollow(c, output)
  <2>1. /\ calls[c].phase = "acted" /\ calls[c].op = "follow" /\ Active(c)
        /\ IF HasSessions
           THEN /\ Accepted(output) /\ answers' = answers + 1
                /\ queue' = [queue EXCEPT ![calls[c].run] = @ \o Queued(calls[c], output)]
           ELSE UNCHANGED <<queue, answers>>
        /\ UNCHANGED <<runOf, runs, observed>>
    BY <1>2 DEF ReturnFollow, TakeLines, outputVars, Active, HasSessions
  <2>2. CASE ~HasSessions
    BY <2>1, <2>2, EventsRest
  <2>3. CASE HasSessions
    <3>1. PICK run \in RunIds, t \in Tasks : run = calls[c].run /\ t = calls[c].task
      <4>1. calls[c].run \in RunIds /\ calls[c].task \in Tasks
        BY <2>1, AddressedRun, ActiveCall DEF IInv
      <4> QED BY <4>1
    <3>2. runs[run] # NoRun /\ runs[run].task = t
      BY <2>1, <3>1 DEF IInv, CallInv
    <3>3. queue' = [queue EXCEPT ![run] = @ \o Queued(calls[c], output)]
          /\ answers' = answers + 1 /\ Accepted(output)
      BY <2>1, <2>3, <3>1
    <3> QED BY <2>1, <2>3, <3>1, <3>2, <3>3, EventsTake
  <2> QED BY <2>2, <2>3
<1>3. CASE ReturnCallableRun(c, output)
  <2>1. /\ setup.adapter = "callable" /\ Active(c)
        /\ ReturnRun(c, calls[c].run) /\ UNCHANGED <<queue, answers>>
    BY <1>3 DEF ReturnCallableRun, ReturnRun, Active, outputVars
  <2>2. runs[calls[c].run] = NoRun /\ calls[c].run \in RunIds
    BY <2>1, RunConstants DEF IInv, CallInv, Taken, TypeInv, RunIds
  <2> QED BY <2>1, <2>2, EventsBind
<1>4. ASSUME NEW run \in RunIds, ReturnProcessRun(c, run, output) \/ ReturnRecordedRun(c, run, output)
      PROVE  EventInv'
  <2>1. /\ ReturnRun(c, run) /\ UNCHANGED <<queue, answers>>
        /\ NamedRun(output, run) \/ NumberedRun(output, run)
    BY <1>4 DEF ReturnProcessRun, ReturnRecordedRun, outputVars
  <2>2. runs[run] = NoRun
    BY <2>1, FreshRun
  <2> QED BY <2>1, <2>2, EventsBind
<1>5. ASSUME NEW run \in RunIds, ReturnHarnessRun(c, run, output)
      PROVE  EventInv'
  <2> DEFINE call == calls[c]
             handle == NewHandle(call.handle.task, call.handle.correlation_id,
                          IF call.op = "delegate" THEN call.handle.parent_run ELSE call.run)
  <2>1. /\ HasSessions /\ Accepted(output) /\ call.phase = "acted" /\ Active(c)
        /\ NamedRun(output, run) \/ NumberedRun(output, run)
        /\ queue' = [queue EXCEPT ![run] = @ \o Queued(call, output)]
        /\ answers' = answers + 1
        /\ runs' = [runs EXCEPT ![run] = handle]
        /\ runOf' = [runOf EXCEPT ![call.task] = run] \/ runOf' = runOf
        /\ UNCHANGED observed
    BY <1>5 DEF ReturnHarnessRun, ReturnRun, TakeLines, Active
  <2>2. runs[run] = NoRun
    BY <2>1, FreshRun
  <2>3. PICK t \in Tasks : t = call.task
    BY <2>1, ActiveCall DEF IInv
  <2>4. handle.task = t /\ handle # NoRun
    <3>1. call.handle.task = t
      BY <2>1, <2>3 DEF IInv, CallInv
    <3> QED BY <3>1, RunConstants DEF NewHandle, NoRun
  <2> HIDE DEF handle
  <2>5. runs'[run] = handle /\ \A r \in RunIds : r # run => runs'[r] = runs[r]
    BY <2>1 DEF IInv, TypeInv
  <2>6. \A u \in Tasks : runOf'[u] = runOf[u] \/ runOf'[u] = run
    BY <2>1 DEF IInv, TypeInv
  <2> QED BY <2>1, <2>2, <2>3, <2>4, <2>5, <2>6, EventsTake
<1> QED BY <1>1, <1>2, <1>3, <1>4, <1>5

LEMMA EventsNext ==
  ASSUME RunIdsStayUnique, Inductive, CorrInv, EventInv, [Next]_vars
  PROVE  EventInv'
<1>0. IInv
  BY DEF Inductive
<1>1. ASSUME UNCHANGED <<queue, observed, answers, runs, runOf>> PROVE EventInv'
  BY <1>1, EventsRest
<1>2. CASE UNCHANGED vars
  BY <1>1, <1>2 DEF vars, adapterVars, outputVars
<1>3. CASE Restart
  BY <1>0, <1>3, EventsRestart
<1>4. ASSUME NEW c \in Callers, NEW t \in Tasks, Start(c, t) PROVE EventInv'
  <2>1. ASSUME NEW parent, Delegate(c, t, parent) PROVE EventInv'
    BY <1>1, <2>1 DEF Delegate, outputVars
  <2>2. ASSUME NEW op, Address(c, t, op) PROVE EventInv'
    BY <1>0, <2>2, EventsKnow DEF Address, outputVars
  <2> QED BY <1>4, <2>1, <2>2 DEF Start
<1>5. ASSUME NEW t \in Tasks, Record(t) PROVE EventInv'
  BY <1>0, <1>5, EventsKnow DEF Record, outputVars
<1>6. ASSUME NEW t \in Tasks, RecordHandoff(t) PROVE EventInv'
  BY <1>0, <1>6, EventsRecordHandoff
<1>7. ASSUME NEW c \in Callers, Act(c) \/ Fail(c) PROVE EventInv'
  BY <1>1, <1>7 DEF Act, Fail, adapterVars, outputVars
<1>8. ASSUME NEW t \in Tasks, Observe(t) PROVE EventInv'
  BY <1>0, <1>8, EventsObserve
<1>9. ASSUME NEW c \in Callers, Return(c) PROVE EventInv'
  BY <1>0, <1>9, EventsReturn
<1> QED BY <1>2, <1>3, <1>4, <1>5, <1>6, <1>7, <1>8, <1>9 DEF Next

\* A host that takes the events of a task's run gets that task's, each once and
\* in the order in which the adapter took the answers, whichever calls overlap,
\* fail or hand the task over (_queue_harness_events, observe), as long as run
\* ids stay unique.
THEOREM EventsObservedInOrder == ASSUME RunIdsStayUnique PROVE Spec => []ObservedInOrder
<1>1. Init => EventInv
  BY DEF Init, EventInv, QueuesOrdered, ObservedOrdered, QueuedLater, InOrder
<1>2. ASSUME EventInv PROVE ObservedInOrder
  <2> SUFFICES ASSUME NEW t \in Tasks
               PROVE  /\ \A i \in 1 .. Len(observed[t]) : observed[t][i].task = t
                      /\ \A i, j \in 1 .. Len(observed[t]) : i < j =>
                           /\ observed[t][i].answer <= observed[t][j].answer
                           /\ observed[t][i] # observed[t][j]
    BY DEF ObservedInOrder
  <2> QED BY <1>2 DEF EventInv, ObservedOrdered, InOrder
<1>3. Init => CorrInv
  BY DEF Init, CorrInv, Active, Idle
<1>4. Inductive /\ CorrInv /\ EventInv /\ [Next]_vars => CorrInv' /\ EventInv'
  BY CorrNext, EventsNext
<1> QED BY <1>1, <1>2, <1>3, <1>4, RunsInductive, PTL DEF Spec
-----------------------------------------------------------------------------
\* Progress: what a run shows of the lines its agents printed.
\* Induction for sets of numbers.  Were m not in S, i |-> i + 1 would map the
\* members of S up to m into themselves and never to zero.
LEMMA Induction ==
  ASSUME NEW S, 0 \in S, \A n \in Nat : n \in S => n + 1 \in S
  PROVE  Nat \subseteq S
<1> SUFFICES ASSUME NEW m \in Nat, m \notin S PROVE FALSE
  OBVIOUS
<1> DEFINE U == {i \in 0 .. m : i \in S}
           V == U \ {0}
           next == [i \in U |-> i + 1]
<1>1. IsFiniteSet(U)
  <2>1. IsFiniteSet(0 .. m)
    BY FS_Interval
  <2> QED BY <2>1, FS_Subset
<1>2. 0 \in U
  OBVIOUS
<1>3. IsFiniteSet(V) /\ Cardinality(V) = Cardinality(U) - 1 /\ Cardinality(U) \in Nat
  BY <1>1, <1>2, FS_RemoveElement, FS_CardinalityType
<1>4. next \in [U -> V]
  <2>1. ASSUME NEW i \in U PROVE i + 1 \in V
    <3>1. i \in Nat /\ i <= m /\ i # m /\ i + 1 \in S
      OBVIOUS
    <3>2. i + 1 \in 0 .. m /\ i + 1 # 0
      BY <3>1
    <3> QED BY <3>1, <3>2
  <2> QED BY <2>1
<1>5. Cardinality(V) < Cardinality(U)
  <2> HIDE DEF U, V
  <2> QED BY <1>3
<1>6. \E i, j \in U : i # j /\ next[i] = next[j]
  <2> HIDE DEF U, V, next
  <2> QED BY <1>1, <1>3, <1>4, <1>5, FS_PigeonHole
<1> QED BY <1>6

\* The state after every line exists, and the snapshot is found line by line.
LEMMA ProgressLineByLine ==
  ASSUME NEW prior, NEW output, Len(output) \in Nat
  PROVE  LET after == ProgressAfter(prior, output)
         IN  /\ after[0] = prior
             /\ \A n \in 1 .. Len(output) : after[n] = WithLine(after[n - 1], output[n])
<1> DEFINE N == Len(output)
           Upto(g, n) == g = [i \in 0 .. n |-> IF i = 0 THEN prior ELSE WithLine(g[i - 1], output[i])]
           S == {n \in Nat : \E g : Upto(g, n)}
<1>1. 0 \in S
  <2> DEFINE g == [i \in 0 .. 0 |-> prior]
  <2>1. Upto(g, 0)
    OBVIOUS
  <2> QED BY <2>1
<1>2. ASSUME NEW n \in Nat, n \in S PROVE n + 1 \in S
  <2>1. PICK g : Upto(g, n)
    BY <1>2
  <2> DEFINE h == [i \in 0 .. n + 1 |-> IF i <= n THEN g[i] ELSE WithLine(g[n], output[n + 1])]
             want(i) == IF i = 0 THEN prior ELSE WithLine(h[i - 1], output[i])
  <2>2. ASSUME NEW i \in 0 .. n + 1 PROVE h[i] = want(i)
    <3>1. CASE i = 0
      BY <2>1, <3>1
    <3>2. CASE i \in 1 .. n
      <4>1. i - 1 \in 0 .. n + 1 /\ i - 1 <= n /\ i <= n /\ i # 0 /\ i \in 0 .. n
        BY <3>2
      <4>2. h[i - 1] = g[i - 1] /\ h[i] = g[i]
        BY <4>1
      <4>3. g[i] = WithLine(g[i - 1], output[i])
        BY <2>1, <4>1
      <4> HIDE DEF h
      <4> QED BY <4>1, <4>2, <4>3
    <3>3. CASE i = n + 1
      <4>1. i - 1 = n /\ n \in 0 .. n + 1 /\ n <= n /\ ~(i <= n) /\ i # 0
        BY <3>3
      <4>2. h[i - 1] = g[n] /\ h[i] = WithLine(g[n], output[i])
        BY <3>3, <4>1
      <4> HIDE DEF h
      <4> QED BY <4>1, <4>2
    <3> QED BY <3>1, <3>2, <3>3
  <2>3. h = [i \in 0 .. n + 1 |-> h[i]]
    OBVIOUS
  <2>4. [i \in 0 .. n + 1 |-> h[i]] = [i \in 0 .. n + 1 |-> want(i)]
    <3> HIDE DEF h, want
    <3> QED BY <2>2
  <2>5. Upto(h, n + 1)
    <3>1. h = [i \in 0 .. n + 1 |-> want(i)]
      <4> HIDE DEF h, want
      <4> QED BY <2>3, <2>4
    <3> HIDE DEF h
    <3> QED BY <3>1
  <2>6. \E f : Upto(f, n + 1)
    <3> HIDE DEF h
    <3> QED BY <2>5
  <2> QED BY <2>6
<1>3. N \in S
  <2> HIDE DEF S
  <2> QED BY <1>1, <1>2, Induction
<1>4. \E g : Upto(g, N)
  BY <1>3
<1> DEFINE after == ProgressAfter(prior, output)
<1>5. Upto(after, N)
  BY <1>4 DEF ProgressAfter
<1> HIDE DEF after
<1> SUFFICES /\ after[0] = prior
             /\ \A n \in 1 .. N : after[n] = WithLine(after[n - 1], output[n])
  BY DEF after
<1>6. after[0] = prior
  BY <1>5
<1>7. ASSUME NEW n \in 1 .. N PROVE after[n] = WithLine(after[n - 1], output[n])
  <2>1. n \in 0 .. N /\ n # 0
    OBVIOUS
  <2> HIDE DEF N
  <2> QED BY <1>5, <2>1
<1> QED BY <1>6, <1>7

\* What a line may say is told by the fields of its content.
LEMMA ContentKinds ==
  ASSUME NEW line \in Line
  PROVE  /\ line.content \in Content
         /\ IsTodo(line) => line.content.todo \in Seq(ItemState) /\ ~IsSubAgent(line)
         /\ IsSubAgent(line) => line.content.agent \in SubAgents /\ line.content.done \in BOOLEAN
<1>1. line.content \in Content
  BY DEF Line
<1>2. CASE line.content = Nothing
  BY <1>1, <1>2 DEF Nothing, IsTodo, IsSubAgent
<1>3. CASE line.content \in [asks : Signatures]
  BY <1>1, <1>3 DEF IsTodo, IsSubAgent
<1>4. CASE line.content \in [todo : Seq(ItemState)]
  BY <1>1, <1>4 DEF IsTodo, IsSubAgent
<1>5. CASE line.content \in [agent : SubAgents, done : BOOLEAN]
  BY <1>1, <1>5 DEF IsTodo, IsSubAgent
<1> QED BY <1>1, <1>2, <1>3, <1>4, <1>5 DEF Content

LEMMA PromotedType == ASSUME NEW items \in Seq(ItemState) PROVE Promoted(items) \in Seq(ItemState)
<1> DEFINE first == Min({i \in DOMAIN items : items[i] = "pending"})
           promoted == [items EXCEPT ![first] = "in_progress"]
<1>1. promoted \in Seq(ItemState)
  <2> HIDE DEF first
  <2>1. items \in [1 .. Len(items) -> ItemState] /\ Len(items) \in Nat
    BY LenProperties
  <2>2. promoted \in [1 .. Len(items) -> ItemState]
    BY <2>1 DEF ItemState
  <2> HIDE DEF promoted
  <2> QED BY <2>1, <2>2
<1> QED BY <1>1 DEF Promoted

LEMMA WithLineType ==
  ASSUME NEW snapshot \in Snapshot, NEW line \in Line
  PROVE  WithLine(snapshot, line) \in Snapshot
<1>1. CASE IsTodo(line)
  <2>1. Promoted(line.content.todo) \in Seq(ItemState)
    BY <1>1, ContentKinds, PromotedType
  <2> QED BY <1>1, <2>1 DEF WithLine, Snapshot
<1>2. CASE ~IsTodo(line) /\ IsSubAgent(line)
  <2> DEFINE known == {a \in snapshot.agents : a.id = line.content.agent}
             started == ~line.content.done \/ \E a \in known : a.labelled
             new == [id |-> line.content.agent, labelled |-> started, done |-> line.content.done]
  <2>1. WithSubAgent(snapshot.agents, line.content) = (snapshot.agents \ known) \cup {new}
    BY DEF WithSubAgent
  <2>2. started \in BOOLEAN
    OBVIOUS
  <2>3. new \in SubAgentStatus
    <3> HIDE DEF started
    <3> QED BY <1>2, <2>2, ContentKinds DEF SubAgentStatus
  <2>4. WithSubAgent(snapshot.agents, line.content) \in SUBSET SubAgentStatus
    <3> HIDE DEF new, known
    <3>1. snapshot.agents \in SUBSET SubAgentStatus
      BY DEF Snapshot
    <3> QED BY <2>1, <2>3, <3>1
  <2> QED BY <1>2, <2>4 DEF WithLine, Snapshot
<1>3. CASE ~IsTodo(line) /\ ~IsSubAgent(line)
  BY <1>3 DEF WithLine
<1> QED BY <1>1, <1>2, <1>3

\* The lines that are todo lists, and those about a sub-agent.
ListsIn(lines) == {i \in DOMAIN lines : IsTodo(lines[i])}
LinesOn(g, lines) == {i \in DOMAIN lines : IsSubAgent(lines[i]) /\ lines[i].content.agent = g}
Latest(i, places) == i \in places /\ \A j \in places : j <= i

ReportsItems(items, lines) ==
  IF ListsIn(lines) = {} THEN items = << >>
  ELSE \E i \in ListsIn(lines) :
         Latest(i, ListsIn(lines)) /\ items = Promoted(lines[i].content.todo)
ReportsAgent(a, lines) ==
  /\ \E i \in LinesOn(a.id, lines) :
       Latest(i, LinesOn(a.id, lines)) /\ a.done = lines[i].content.done
  /\ a.labelled = \E i \in LinesOn(a.id, lines) : ~lines[i].content.done
ReportsAgents(agents, lines) ==
  /\ \A a, b \in agents : a.id = b.id => a = b
  /\ {a.id : a \in agents} = {g \in SubAgents : LinesOn(g, lines) # {}}
  /\ \A a \in agents : ReportsAgent(a, lines)

LEMMA ReportsParts ==
  ASSUME NEW snapshot, NEW lines
  PROVE  Reports(snapshot, lines) <=>
           ReportsItems(snapshot.items, lines) /\ ReportsAgents(snapshot.agents, lines)
BY DEF Reports, ReportsItems, ReportsAgents, ReportsAgent, ListsIn, LinesOn, Latest

\* One more line is one more place to look at.
LEMMA OneMoreLine ==
  ASSUME NEW lines \in Seq(Line), NEW line \in Line
  PROVE  LET next == Append(lines, line)
             n == Len(lines) + 1
         IN  /\ n \in Nat /\ next[n] = line
             /\ \A i \in DOMAIN lines : next[i] = lines[i] /\ i \in Nat /\ i < n
             /\ ListsIn(next) = ListsIn(lines) \cup (IF IsTodo(line) THEN {n} ELSE {})
             /\ \A g : LinesOn(g, next) = LinesOn(g, lines) \cup
                  (IF IsSubAgent(line) /\ line.content.agent = g THEN {n} ELSE {})
<1> DEFINE next == Append(lines, line)
           n == Len(lines) + 1
<1>1. /\ n \in Nat /\ DOMAIN next = 1 .. n /\ DOMAIN lines = 1 .. n - 1
      /\ next[n] = line /\ \A i \in 1 .. n - 1 : next[i] = lines[i]
  OBVIOUS
<1> HIDE DEF next, n
<1>2. /\ 1 .. n = (1 .. n - 1) \cup {n} /\ n \notin 1 .. n - 1
      /\ \A i \in 1 .. n - 1 : i \in Nat /\ i < n
  <2>1. n # 0
    BY DEF n
  <2> QED BY <1>1, <2>1
<1>3. ListsIn(next) = ListsIn(lines) \cup (IF IsTodo(line) THEN {n} ELSE {})
  BY <1>1, <1>2 DEF ListsIn
<1>4. ASSUME NEW g
      PROVE  LinesOn(g, next) = LinesOn(g, lines) \cup
                  (IF IsSubAgent(line) /\ line.content.agent = g THEN {n} ELSE {})
  BY <1>1, <1>2 DEF LinesOn
<1> SUFFICES /\ n \in Nat /\ next[n] = line
             /\ \A i \in DOMAIN lines : next[i] = lines[i] /\ i \in Nat /\ i < n
             /\ ListsIn(next) = ListsIn(lines) \cup (IF IsTodo(line) THEN {n} ELSE {})
             /\ \A g : LinesOn(g, next) = LinesOn(g, lines) \cup
                  (IF IsSubAgent(line) /\ line.content.agent = g THEN {n} ELSE {})
  BY DEF next, n
<1> QED BY <1>1, <1>2, <1>3, <1>4

\* A snapshot that reports the lines so far reports one more when that is taken.
LEMMA ReportsOneMore ==
  ASSUME NEW snapshot \in Snapshot, NEW lines \in Seq(Line), NEW line \in Line,
         Reports(snapshot, lines)
  PROVE  Reports(WithLine(snapshot, line), Append(lines, line))
<1> DEFINE next == Append(lines, line)
           n == Len(lines) + 1
           after == WithLine(snapshot, line)
<1>1. ReportsItems(snapshot.items, lines) /\ ReportsAgents(snapshot.agents, lines)
  BY ReportsParts
<1>2. /\ n \in Nat /\ next[n] = line
      /\ \A i \in DOMAIN lines : next[i] = lines[i] /\ i \in Nat /\ i < n
      /\ ListsIn(next) = ListsIn(lines) \cup (IF IsTodo(line) THEN {n} ELSE {})
      /\ \A g : LinesOn(g, next) = LinesOn(g, lines) \cup
           (IF IsSubAgent(line) /\ line.content.agent = g THEN {n} ELSE {})
  BY OneMoreLine
<1>3. ListsIn(lines) \subseteq DOMAIN lines /\ \A g : LinesOn(g, lines) \subseteq DOMAIN lines
  BY DEF ListsIn, LinesOn
<1> HIDE DEF next, n
<1>4. ReportsItems(after.items, next)
  <2>1. CASE IsTodo(line)
    <3>1. after.items = Promoted(line.content.todo)
      BY <2>1 DEF WithLine, Snapshot
    <3>2. n \in ListsIn(next) /\ Latest(n, ListsIn(next))
      BY <1>2, <1>3, <2>1 DEF Latest
    <3> HIDE DEF after
    <3> QED BY <1>2, <3>1, <3>2 DEF ReportsItems
  <2>2. CASE ~IsTodo(line)
    <3>1. after.items = snapshot.items
      BY <2>2 DEF WithLine, Snapshot
    <3>2. ListsIn(next) = ListsIn(lines)
      BY <1>2, <2>2
    <3>3. \A i \in ListsIn(lines) : next[i] = lines[i]
      BY <1>2, <1>3
    <3> HIDE DEF after
    <3> QED BY <1>1, <3>1, <3>2, <3>3 DEF ReportsItems
  <2> QED BY <2>1, <2>2
<1>5. ASSUME NEW a, ReportsAgent(a, lines), ~(IsSubAgent(line) /\ line.content.agent = a.id)
      PROVE  ReportsAgent(a, next)
  <2>1. LinesOn(a.id, next) = LinesOn(a.id, lines)
    BY <1>2, <1>5
  <2>2. \A i \in LinesOn(a.id, lines) : next[i] = lines[i]
    BY <1>2, <1>3
  <2> QED BY <1>5, <2>1, <2>2 DEF ReportsAgent
<1>6. ReportsAgents(after.agents, next)
  <2>1. CASE IsTodo(line) \/ ~IsSubAgent(line)
    <3>1. ~IsSubAgent(line)
      BY <2>1, ContentKinds
    <3>2. after.agents = snapshot.agents
      BY <2>1, <3>1 DEF WithLine, Snapshot
    <3>3. \A g : LinesOn(g, next) = LinesOn(g, lines)
      BY <1>2, <3>1
    <3> HIDE DEF after
    <3> QED BY <1>1, <1>5, <3>1, <3>2, <3>3 DEF ReportsAgents
  <2>2. CASE ~IsTodo(line) /\ IsSubAgent(line)
    <3> DEFINE g == line.content.agent
               known == {a \in snapshot.agents : a.id = g}
               new == [id |-> g, labelled |-> ~line.content.done \/ \E a \in known : a.labelled,
                       done |-> line.content.done]
    <3>1. after.agents = (snapshot.agents \ known) \cup {new}
      BY <2>2 DEF WithLine, WithSubAgent, Snapshot
    <3>2. g \in SubAgents /\ line.content.done \in BOOLEAN
      BY <2>2, ContentKinds
    <3>3. new.id = g /\ new.done = line.content.done
      OBVIOUS
    <3>4. new.labelled = (~line.content.done \/ \E a \in known : a.labelled)
      OBVIOUS
    <3>5. LinesOn(g, next) = LinesOn(g, lines) \cup {n} /\ n \notin LinesOn(g, lines)
      BY <1>2, <1>3, <2>2
    <3>6. ReportsAgent(new, next)
      <4>1. n \in LinesOn(g, next) /\ Latest(n, LinesOn(g, next))
        BY <1>2, <1>3, <3>5 DEF Latest
      <4>2. (\E a \in known : a.labelled) <=> \E i \in LinesOn(g, lines) : ~lines[i].content.done
        <5>1. CASE known = {}
          <6>1. LinesOn(g, lines) = {}
            <7>1. g \notin {a.id : a \in snapshot.agents}
              BY <5>1
            <7> HIDE DEF g
            <7> QED BY <1>1, <3>2, <7>1 DEF ReportsAgents
          <6> QED BY <5>1, <6>1
        <5>2. CASE known # {}
          <6>1. PICK b \in known : TRUE
            BY <5>2
          <6>2. known = {b} /\ b.id = g
            BY <1>1, <6>1 DEF ReportsAgents
          <6>3. b.labelled = \E i \in LinesOn(g, lines) : ~lines[i].content.done
            BY <1>1, <6>1, <6>2 DEF ReportsAgents, ReportsAgent
          <6> HIDE DEF g, known
          <6> QED BY <6>2, <6>3
        <5> QED BY <5>1, <5>2
      <4>3. (\E i \in LinesOn(g, next) : ~next[i].content.done) <=>
              (~line.content.done \/ \E i \in LinesOn(g, lines) : ~lines[i].content.done)
        <5> HIDE DEF g
        <5> QED BY <1>2, <1>3, <3>5
      <4>4. new.labelled = \E i \in LinesOn(g, next) : ~next[i].content.done
        <5> HIDE DEF g, known, new
        <5> QED BY <3>4, <4>2, <4>3
      <4> HIDE DEF g, known, new
      <4> QED BY <1>2, <3>3, <4>1, <4>4 DEF ReportsAgent
    <3>7. ASSUME NEW a \in snapshot.agents \ known PROVE a.id # g /\ ReportsAgent(a, next)
      <4>1. a.id # g /\ ReportsAgent(a, lines)
        BY <1>1 DEF ReportsAgents
      <4> QED BY <1>5, <4>1
    <3>8. {a.id : a \in after.agents} = {h \in SubAgents : LinesOn(h, next) # {}}
      <4>1. {a.id : a \in after.agents} = {a.id : a \in snapshot.agents} \cup {g}
        <5> HIDE DEF after, new
        <5> QED BY <3>1, <3>3
      <4>2. {a.id : a \in snapshot.agents} = {h \in SubAgents : LinesOn(h, lines) # {}}
        BY <1>1 DEF ReportsAgents
      <4>3. \A h : h # g => LinesOn(h, next) = LinesOn(h, lines)
        BY <1>2
      <4> HIDE DEF g, after
      <4> QED BY <3>2, <3>5, <4>1, <4>2, <4>3
    <3>9. \A a, b \in after.agents : a.id = b.id => a = b
      <4>1. \A a, b \in snapshot.agents : a.id = b.id => a = b
        BY <1>1 DEF ReportsAgents
      <4> HIDE DEF g, known, new, after
      <4> QED BY <3>1, <3>3, <3>7, <4>1
    <3>10. \A a \in after.agents : ReportsAgent(a, next)
      <4> HIDE DEF g, known, new, after
      <4> QED BY <3>1, <3>6, <3>7
    <3> HIDE DEF after
    <3> QED BY <3>8, <3>9, <3>10 DEF ReportsAgents
  <2> QED BY <2>1, <2>2
<1>7. Reports(after, next)
  <2> HIDE DEF after
  <2> QED BY <1>4, <1>6, ReportsParts
<1> QED BY <1>7 DEF next

\* Merging an answer into the snapshot of a run keeps it in step with the lines.
LEMMA MergeReports ==
  ASSUME NEW prior \in Snapshot, NEW lines \in Seq(Line), NEW output \in Seq(Line)
  PROVE  /\ MergeProgress(prior, output) \in Snapshot
         /\ Reports(prior, lines) => Reports(MergeProgress(prior, output), lines \o output)
<1> DEFINE N == Len(output)
           after == ProgressAfter(prior, output)
           upTo(n) == lines \o SubSeq(output, 1, n)
           good(n) == after[n] \in Snapshot /\ (Reports(prior, lines) => Reports(after[n], upTo(n)))
           S == {n \in Nat : n <= N => good(n)}
<1>1. /\ N \in Nat /\ after[0] = prior
      /\ \A n \in 1 .. N : after[n] = WithLine(after[n - 1], output[n])
  BY ProgressLineByLine
<1> HIDE DEF after
<1>2. 0 \in S
  <2>1. SubSeq(output, 1, 0) = << >>
    BY SubSeqEmpty
  <2>2. upTo(0) = lines
    BY <2>1, ConcatEmptySeq
  <2> HIDE DEF upTo
  <2>3. good(0)
    BY <1>1, <2>2
  <2> QED BY <2>3
<1>3. ASSUME NEW n \in Nat, n \in S PROVE n + 1 \in S
  <2> SUFFICES ASSUME n + 1 <= N PROVE good(n + 1)
    OBVIOUS
  <2>1. good(n)
    BY <1>1, <1>3
  <2>2. n + 1 \in 1 .. N /\ (n + 1) - 1 = n /\ 1 \in 1 .. N /\ n + 1 \in 1 .. Len(output)
    BY <1>1
  <2>3. output[n + 1] \in Line
    BY <2>2
  <2>4. after[n + 1] = WithLine(after[n], output[n + 1])
    BY <1>1, <2>2
  <2>5. after[n + 1] \in Snapshot
    BY <2>1, <2>3, <2>4, WithLineType
  <2>6. SubSeq(output, 1, n + 1) = SubSeq(output, 1, n) \o <<output[n + 1]>>
    BY <2>2, SubSeqRecursiveSecond
  <2>7. SubSeq(output, 1, n) \in Seq(Line) /\ <<output[n + 1]>> \in Seq(Line)
    BY <2>2, <2>3
  <2>8. upTo(n + 1) = upTo(n) \o <<output[n + 1]>> /\ upTo(n) \in Seq(Line)
    BY <2>6, <2>7, ConcatAssociative, ConcatProperties
  <2> HIDE DEF upTo
  <2>9. upTo(n + 1) = Append(upTo(n), output[n + 1])
    BY <2>8, <2>3
  <2>10. Reports(after[n], upTo(n)) => Reports(after[n + 1], upTo(n + 1))
    BY <2>1, <2>3, <2>4, <2>8, <2>9, ReportsOneMore
  <2> QED BY <2>1, <2>5, <2>10
<1>4. good(N)
  <2>1. N \in S
    <3> HIDE DEF S, N
    <3> QED BY <1>1, <1>2, <1>3, Induction
  <2> HIDE DEF good, N
  <2> QED BY <1>1, <2>1
<1>5. upTo(N) = lines \o output
  BY SubSeqFull
<1> HIDE DEF upTo
<1> QED BY <1>4, <1>5 DEF MergeProgress, after
-----------------------------------------------------------------------------
\* Types: of the registry, of what the adapter took from answers, of what the
\* agents know.  Unlike the rest, they do not need run ids to stay unique.
RegistryTypes ==
  /\ setup \in Setup
  /\ runOf \in [Tasks -> RunIds \cup {None}]
  /\ runs \in [RunIds -> Handle \cup {NoRun}]
  /\ counter \in 0 .. MaxTurns
  /\ failures \in 0 .. MaxFailures
  /\ restarts \in Nat
EventTypes ==
  /\ queue \in [RunIds -> Seq(Queuing)]
  /\ \A r \in RunIds : \A i \in 1 .. Len(queue[r]) : queue[r][i].about # "other"
  /\ observed \in [Tasks -> Seq(Event)]
  /\ answers \in Nat
ProgressTypes == progress \in [RunIds -> Snapshot] /\ printed \in [RunIds -> Seq(Line)]
\* A call that resumes or forks a session has one, and so has one that acted.
CallTypes ==
  /\ calls \in [Callers -> Call]
  /\ \A c \in Callers : calls[c].phase = "acted" =>
       calls[c].session \in 1 .. Len(history) /\ calls[c].turn \in 1 .. MaxTurns
  /\ \A c \in Callers : calls[c].phase = "called" /\ calls[c].mode # "new" =>
       calls[c].session \in 1 .. Len(history)
AgentTypes ==
  /\ history \in Seq(Seq(Turn))
  /\ IsFiniteSet(AllTurns)
  /\ told \in [RunIds -> SUBSET Turn]
  /\ sessions \in [RunIds -> 0 .. Len(history)]
Types == RegistryTypes /\ EventTypes /\ ProgressTypes /\ CallTypes /\ AgentTypes

LEMMA TypesAreTypeOK == Types => TypeOK
BY DEF Types, RegistryTypes, EventTypes, ProgressTypes, CallTypes, AgentTypes, TypeOK

LEMMA NumbersAreRunIds ==
  /\ MaxTurns \in Nat /\ \A n \in 1 .. MaxTurns : n \in RunIds
  /\ counter \in 0 .. MaxTurns /\ counter < MaxTurns =>
       counter + 1 \in RunIds /\ counter + 1 \in 0 .. MaxTurns
BY RunConstants DEF RunIds

\* As ActiveCall, with the turn's bound.
LEMMA CallFields ==
  ASSUME CallTypes, NEW c \in Callers, calls[c].phase # "idle"
  PROVE  calls[c] \in [phase : {"called", "acted"}, op : Ops, task : Tasks,
                       run : RunIds \cup {None}, handle : Handle,
                       mode : {"new", "resume", "fork"}, session : Nat, turn : 0 .. MaxTurns]
BY DEF CallTypes, Call, Idle

LEMMA InitTypes == ASSUME Setups \subseteq Setup, Init PROVE Types
<1>1. history = << >> /\ Len(history) = 0 /\ history \in Seq(Seq(Turn)) /\ << >> \in Seq(Line)
      /\ << >> \in Seq(Queuing) /\ << >> \in Seq(Event) /\ << >> \in Seq(ItemState)
  BY DEF Init
<1>2. RegistryTypes
  BY RunConstants DEF Init, RegistryTypes
<1>3. EventTypes
  BY <1>1 DEF Init, EventTypes
<1>4. ProgressTypes
  BY <1>1 DEF Init, ProgressTypes, NoProgress, Snapshot
<1>5. CallTypes
  BY DEF Init, CallTypes, Call, Idle
<1>6. AgentTypes
  <2>1. AllTurns = {}
    BY <1>1 DEF AllTurns
  <2>2. IsFiniteSet(AllTurns)
    BY <2>1, FS_EmptySet
  <2> QED BY <1>1, <2>2 DEF Init, AgentTypes, NoSession
<1> QED BY <1>2, <1>3, <1>4, <1>5, <1>6 DEF Types

LEMMA RequireRunType ==
  ASSUME RegistryTypes, NEW t \in Tasks, runOf[t] # None
  PROVE  RequireRun(t) \in Handle /\ runOf[t] \in RunIds
<1>1. runOf[t] \in RunIds
  BY DEF RegistryTypes
<1>2. runs[runOf[t]] # NoRun => runs[runOf[t]] \in Handle
  BY <1>1 DEF RegistryTypes
<1> QED BY <1>1, <1>2 DEF RequireRun, NewHandle, Handle

\* The actions, by what they may do to the registry.
LEMMA RegistryNext == ASSUME Types, Next PROVE RegistryTypes'
<1>1. RegistryTypes
  BY DEF Types
<1>2. ASSUME NEW c \in Callers, NEW t \in Tasks, NEW parent, Delegate(c, t, parent) PROVE RegistryTypes'
  <2>1. counter' \in 0 .. MaxTurns
    BY <1>1, <1>2, NumbersAreRunIds DEF RegistryTypes, Delegate
  <2> QED BY <1>1, <1>2, <2>1 DEF RegistryTypes, Delegate, Calling
<1>3. ASSUME NEW t \in Tasks, (\E c, op : Address(c, t, op)) \/ Record(t) PROVE RegistryTypes'
  <2>1. runOf[t] # None /\ runs' = [runs EXCEPT ![runOf[t]] = RequireRun(t)]
    BY <1>3 DEF Address, Record
  <2>2. RequireRun(t) \in Handle
    BY <1>1, <2>1, RequireRunType
  <2>3. runs' \in [RunIds -> Handle \cup {NoRun}]
    BY <1>1, <2>1, <2>2 DEF RegistryTypes
  <2> QED BY <1>1, <1>3, <2>3 DEF RegistryTypes, Address, Record
<1>4. ASSUME NEW t \in Tasks, RecordHandoff(t) PROVE RegistryTypes'
  <2>1. RequireRun(t) \in Handle /\ runOf[t] \in RunIds
    BY <1>1, <1>4, RequireRunType DEF RecordHandoff
  <2>2. counter + 1 \in RunIds /\ counter + 1 \in 0 .. MaxTurns
    BY <1>1, <1>4, NumbersAreRunIds DEF RegistryTypes, RecordHandoff
  <2> DEFINE handle == NewHandle(RequireRun(t).task, RequireRun(t).correlation_id, runOf[t])
  <2>3. handle \in Handle
    BY <2>1 DEF NewHandle, Handle
  <2> HIDE DEF handle
  <2>4. PICK number : number = counter + 1
    OBVIOUS
  <2>5. /\ runs' = [runs EXCEPT ![runOf[t]] = RequireRun(t), ![number] = handle]
        /\ runOf' = [runOf EXCEPT ![t] = number] /\ counter' = number
    BY <1>4, <2>4 DEF RecordHandoff, handle
  <2>6. runs' \in [RunIds -> Handle \cup {NoRun}]
    BY <1>1, <2>1, <2>3, <2>5 DEF RegistryTypes
  <2>7. runOf' \in [Tasks -> RunIds \cup {None}] /\ counter' \in 0 .. MaxTurns
    BY <1>1, <2>2, <2>4, <2>5 DEF RegistryTypes
  <2> QED BY <1>1, <1>4, <2>6, <2>7 DEF RegistryTypes, RecordHandoff
<1>5. CASE (\E c : Act(c)) \/ \E t : Observe(t)
  BY <1>1, <1>5 DEF RegistryTypes, Act, Observe, adapterVars
<1>6. ASSUME NEW c \in Callers, Fail(c) PROVE RegistryTypes'
  <2>1. failures' \in 0 .. MaxFailures
    BY <1>1, <1>6, RunConstants DEF RegistryTypes, Fail
  <2> QED BY <1>1, <1>6, <2>1 DEF RegistryTypes, Fail, adapterVars
<1>7. ASSUME NEW c \in Callers, NEW run \in RunIds \cup {None}, ReturnRun(c, run),
             counter' \in 0 .. MaxTurns
      PROVE  RegistryTypes'
  <2> DEFINE parent == IF calls[c].op = "delegate" THEN calls[c].handle.parent_run
                       ELSE calls[c].run
             handle == NewHandle(calls[c].handle.task, calls[c].handle.correlation_id, parent)
  <2>1. handle \in Handle
    <3>1. calls[c].handle \in Handle /\ calls[c].run \in RunIds \cup {None}
      BY <1>7, CallFields DEF Types, ReturnRun
    <3> QED BY <3>1 DEF NewHandle, Handle
  <2>2. /\ runs' = [runs EXCEPT ![run] = handle]
        /\ runOf' = [runOf EXCEPT ![calls[c].task] = run] \/ runOf' = runOf
    BY <1>7 DEF ReturnRun
  <2> HIDE DEF handle, parent
  <2>3. runs' \in [RunIds -> Handle \cup {NoRun}] /\ runOf' \in [Tasks -> RunIds \cup {None}]
    BY <1>1, <2>1, <2>2 DEF RegistryTypes
  <2> QED BY <1>1, <1>7, <2>3 DEF RegistryTypes, ReturnRun
<1>8. ASSUME NEW c \in Callers, Return(c) PROVE RegistryTypes'
  <2>1. PICK output \in setup.prints :
          \/ ReturnFollow(c, output)
          \/ ReturnCallableRun(c, output)
          \/ \E run \in RunIds :
               \/ ReturnHarnessRun(c, run, output)
               \/ ReturnProcessRun(c, run, output)
               \/ ReturnRecordedRun(c, run, output)
    BY <1>8 DEF Return
  <2>2. CASE ReturnFollow(c, output)
    BY <1>1, <2>2 DEF RegistryTypes, ReturnFollow
  <2>3. CASE ReturnCallableRun(c, output)
    <3>1. calls[c].run \in RunIds \cup {None}
      BY <2>3, CallFields DEF Types, ReturnCallableRun
    <3>2. ReturnRun(c, calls[c].run) /\ counter' \in 0 .. MaxTurns
      BY <1>1, <2>3 DEF RegistryTypes, ReturnCallableRun
    <3> QED BY <1>7, <3>1, <3>2
  <2>4. ASSUME NEW run \in RunIds,
               \/ ReturnHarnessRun(c, run, output)
               \/ ReturnProcessRun(c, run, output)
               \/ ReturnRecordedRun(c, run, output)
        PROVE  RegistryTypes'
    <3>1. ReturnRun(c, run) /\ (NamedRun(output, run) \/ NumberedRun(output, run))
      BY <2>4 DEF ReturnHarnessRun, ReturnProcessRun, ReturnRecordedRun
    <3>2. counter' \in 0 .. MaxTurns
      BY <1>1, <3>1, NumbersAreRunIds DEF RegistryTypes, NamedRun, NumberedRun
    <3> QED BY <1>7, <3>1, <3>2
  <2> QED BY <2>1, <2>2, <2>3, <2>4
<1>9. CASE Restart
  <2>1. restarts' \in Nat /\ counter' \in 0 .. MaxTurns
    BY <1>1, <1>9, RunConstants DEF RegistryTypes, Restart
  <2> QED BY <1>1, <1>9, <2>1 DEF RegistryTypes, Restart
<1> QED BY <1>2, <1>3, <1>4, <1>5, <1>6, <1>8, <1>9 DEF Next, Start

\* An answer taken for a run brings well-formed events of its agent's turn.
LEMMA TakeLinesEvents ==
  ASSUME Types, NEW c \in Callers, calls[c].phase = "acted", NEW run,
         NEW output \in Seq(Line), EventsCorrelate(output), TakeLines(run, calls[c], output),
         UNCHANGED observed
  PROVE  EventTypes'
<1> DEFINE call == calls[c]
           new == Queued(call, output)
           Own == [about : {"nobody", "own"}, as : {call.handle.correlation_id},
                   answer : {answers + 1}, signature : Signatures]
<1>1. call.handle \in Handle /\ answers + 1 \in Nat
  BY CallFields DEF Types, CallTypes, EventTypes
<1>2. new \in Seq(Own)
  BY QueuedFacts
<1>3. Own \subseteq Queuing
  BY <1>1 DEF Queuing, Handle
<1>4. new \in Seq(Queuing) /\ \A i \in 1 .. Len(new) : new[i].about # "other"
  <2>1. \A i \in 1 .. Len(new) : new[i] \in Own
    <3> HIDE DEF new, Own
    <3> QED BY <1>2
  <2>2. new \in Seq(Queuing)
    <3> HIDE DEF new, Own
    <3> QED BY <1>2, <1>3, SeqMonotonic
  <2> QED BY <2>1, <2>2
<1>5. queue' = [queue EXCEPT ![run] = @ \o new] /\ answers' = answers + 1
  BY DEF TakeLines
<1> HIDE DEF new, call
<1>6. ASSUME NEW r \in RunIds
      PROVE  /\ queue'[r] \in Seq(Queuing)
             /\ \A i \in 1 .. Len(queue'[r]) : queue'[r][i].about # "other"
  <2>1. queue[r] \in Seq(Queuing) /\ \A i \in 1 .. Len(queue[r]) : queue[r][i].about # "other"
    BY DEF Types, EventTypes
  <2>2. CASE r # run
    <3>1. queue'[r] = queue[r]
      BY <1>5, <2>2 DEF Types, EventTypes
    <3> QED BY <2>1, <3>1
  <2>3. CASE r = run
    <3>1. queue'[r] = queue[r] \o new
      BY <1>5, <2>3 DEF Types, EventTypes
    <3>2. /\ queue[r] \o new \in Seq(Queuing)
          /\ Len(queue[r]) \in Nat /\ Len(new) \in Nat
          /\ Len(queue[r] \o new) = Len(queue[r]) + Len(new)
          /\ \A i \in 1 .. Len(queue[r]) + Len(new) :
               (queue[r] \o new)[i] = IF i <= Len(queue[r]) THEN queue[r][i] ELSE new[i - Len(queue[r])]
      BY <1>4, <2>1, ConcatProperties
    <3> QED BY <1>4, <2>1, <3>1, <3>2
  <2> QED BY <2>2, <2>3
<1>7. queue' = [r \in RunIds |-> queue'[r]]
  BY <1>5 DEF Types, EventTypes
<1> QED BY <1>1, <1>5, <1>6, <1>7 DEF Types, EventTypes

LEMMA ObserveEvents ==
  ASSUME Types, NEW t \in Tasks, Observe(t) PROVE EventTypes'
<1> DEFINE run == runOf[t]
           taken == [i \in 1 .. Len(queue[run]) |-> Delivered(run, queue[run][i])]
<1>1. run \in RunIds /\ runs[run] \in Handle
  BY DEF Observe, Types, RegistryTypes
<1>2. queue[run] \in Seq(Queuing) /\ \A i \in 1 .. Len(queue[run]) : queue[run][i].about # "other"
  BY <1>1 DEF Types, EventTypes
<1>3. ASSUME NEW i \in 1 .. Len(queue[run]) PROVE Delivered(run, queue[run][i]) \in Event
  <2>1. queue[run][i] \in Queuing /\ queue[run][i].about # "other"
    <3> HIDE DEF run
    <3> QED BY <1>2, ElementOfSeq
  <2>2. queue[run][i].about \in {"nobody", "own"}
    BY <2>1 DEF Queuing
  <2> QED BY <1>1, <2>1, <2>2 DEF Delivered, Event, Queuing, Handle
<1>4. taken \in Seq(Event)
  <2> HIDE DEF run
  <2> QED BY <1>2, <1>3
<1>5. /\ observed' = [observed EXCEPT ![t] = @ \o taken] /\ queue' = [queue EXCEPT ![run] = << >>]
      /\ answers' = answers
  BY DEF Observe
<1> HIDE DEF taken, run
<1>6. observed' \in [Tasks -> Seq(Event)]
  <2>1. observed[t] \o taken \in Seq(Event)
    BY <1>4, ConcatProperties DEF Types, EventTypes
  <2> QED BY <1>5, <2>1 DEF Types, EventTypes
<1>7. << >> \in Seq(Queuing) /\ Len(<< >>) = 0
  OBVIOUS
<1>8. queue' \in [RunIds -> Seq(Queuing)]
  BY <1>5, <1>7 DEF Types, EventTypes
<1>9. ASSUME NEW r \in RunIds, NEW i \in 1 .. Len(queue'[r]) PROVE queue'[r][i].about # "other"
  <2>1. queue'[r] = IF r = run THEN << >> ELSE queue[r]
    BY <1>5 DEF Types, EventTypes
  <2>2. r # run
    BY <1>7, <1>9, <2>1
  <2> QED BY <1>9, <2>1, <2>2 DEF Types, EventTypes
<1>10. answers' \in Nat
  BY <1>5 DEF Types, EventTypes
<1> QED BY <1>6, <1>8, <1>9, <1>10 DEF EventTypes

\* What a return leaves of an accepted answer.
LEMMA ReturnKinds ==
  ASSUME Types, NEW c \in Callers, Return(c)
  PROVE  /\ calls[c].phase = "acted" /\ UNCHANGED <<observed, history>>
         /\ calls' = [calls EXCEPT ![c] = Idle]
         /\ \/ UNCHANGED outputVars
            \/ \E run : \E output \in Seq(Line) :
                 EventsCorrelate(output) /\ TakeLines(run, calls[c], output)
<1>1. PICK output \in setup.prints :
        \/ ReturnFollow(c, output)
        \/ ReturnCallableRun(c, output)
        \/ \E run \in RunIds :
             \/ ReturnHarnessRun(c, run, output)
             \/ ReturnProcessRun(c, run, output)
             \/ ReturnRecordedRun(c, run, output)
  BY DEF Return
<1>2. output \in Seq(Line)
  BY <1>1 DEF Types, RegistryTypes, Setup
<1>3. HasSessions /\ Accepted(output) => EventsCorrelate(output)
  BY DEF HasSessions, Accepted
<1>4. CASE ReturnFollow(c, output)
  BY <1>2, <1>3, <1>4 DEF ReturnFollow, HasSessions, agentVars
<1>5. CASE ReturnCallableRun(c, output)
  BY <1>5 DEF ReturnCallableRun, ReturnRun
<1>6. ASSUME NEW run \in RunIds, ReturnHarnessRun(c, run, output)
      PROVE  /\ calls[c].phase = "acted" /\ UNCHANGED <<observed, history>>
             /\ calls' = [calls EXCEPT ![c] = Idle]
             /\ EventsCorrelate(output) /\ TakeLines(run, calls[c], output)
  BY <1>3, <1>6 DEF ReturnHarnessRun, ReturnRun
<1>7. ASSUME NEW run \in RunIds, ReturnProcessRun(c, run, output) \/ ReturnRecordedRun(c, run, output)
      PROVE  /\ calls[c].phase = "acted" /\ UNCHANGED <<observed, history, outputVars>>
             /\ calls' = [calls EXCEPT ![c] = Idle]
  BY <1>7 DEF ReturnProcessRun, ReturnRecordedRun, ReturnRun
<1> QED BY <1>1, <1>2, <1>4, <1>5, <1>6, <1>7

LEMMA EventTypesNext == ASSUME Types, Next PROVE EventTypes'
<1>1. ASSUME UNCHANGED <<queue, observed, answers>> PROVE EventTypes'
  BY <1>1 DEF Types, EventTypes
<1>2. CASE \E c \in Callers : (\E t \in Tasks : Start(c, t)) \/ Act(c) \/ Fail(c)
  BY <1>1, <1>2 DEF Start, Delegate, Address, Act, Fail, adapterVars, outputVars
<1>6. CASE \E t \in Tasks : Record(t) \/ RecordHandoff(t)
  BY <1>1, <1>6 DEF Record, RecordHandoff, outputVars
<1>3. ASSUME NEW c \in Callers, Return(c) PROVE EventTypes'
  BY <1>1, <1>3, ReturnKinds, TakeLinesEvents DEF outputVars
<1>4. ASSUME NEW t \in Tasks, Observe(t) PROVE EventTypes'
  BY <1>4, ObserveEvents
<1>5. CASE Restart
  <2>1. << >> \in Seq(Queuing) /\ Len(<< >>) = 0
    OBVIOUS
  <2>2. queue' = [r \in RunIds |-> << >>] /\ observed' = observed /\ answers' = answers
    BY <1>5 DEF Restart
  <2> QED BY <2>1, <2>2 DEF Types, EventTypes
<1> QED BY <1>2, <1>3, <1>4, <1>5, <1>6 DEF Next

\* Where a run's answers about progress go, the snapshot keeps in step.
ProgressInv == ProgressTypes /\ \A r \in RunIds : Reports(progress[r], printed[r])

LEMMA NothingReported == NoProgress \in Snapshot /\ Reports(NoProgress, << >>)
<1>1. << >> \in Seq(ItemState) /\ DOMAIN << >> = {}
  OBVIOUS
<1>2. ListsIn(<< >>) = {} /\ \A g : LinesOn(g, << >>) = {}
  BY <1>1 DEF ListsIn, LinesOn
<1>3. NoProgress.items = << >> /\ NoProgress.agents = {}
  BY DEF NoProgress
<1>4. ReportsItems(NoProgress.items, << >>) /\ ReportsAgents(NoProgress.agents, << >>)
  BY <1>2, <1>3 DEF ReportsItems, ReportsAgents
<1> QED BY <1>1, <1>4, ReportsParts DEF NoProgress, Snapshot

LEMMA ProgressTake ==
  ASSUME ProgressInv, NEW run, NEW call, NEW output \in Seq(Line), TakeLines(run, call, output)
  PROVE  ProgressInv'
<1>1. CASE ~TellsProgress(output)
  BY <1>1 DEF TakeLines, ProgressInv, ProgressTypes
<1>2. CASE TellsProgress(output)
  <2>1. /\ progress' = [progress EXCEPT ![run] = MergeProgress(@, output)]
        /\ printed' = [printed EXCEPT ![run] = @ \o output]
    BY <1>2 DEF TakeLines
  <2>2. ASSUME NEW r \in RunIds
        PROVE  progress'[r] \in Snapshot /\ printed'[r] \in Seq(Line) /\ Reports(progress'[r], printed'[r])
    <3>1. progress[r] \in Snapshot /\ printed[r] \in Seq(Line) /\ Reports(progress[r], printed[r])
      BY DEF ProgressInv, ProgressTypes
    <3>2. CASE r # run
      <4>1. progress'[r] = progress[r] /\ printed'[r] = printed[r]
        BY <2>1, <3>2 DEF ProgressInv, ProgressTypes
      <4> QED BY <3>1, <4>1
    <3>3. CASE r = run
      <4>1. progress'[r] = MergeProgress(progress[r], output) /\ printed'[r] = printed[r] \o output
        BY <2>1, <3>3 DEF ProgressInv, ProgressTypes
      <4>2. printed[r] \o output \in Seq(Line)
        BY <3>1, ConcatProperties
      <4> QED BY <3>1, <4>1, <4>2, MergeReports
    <3> QED BY <3>2, <3>3
  <2>3. progress' = [r \in RunIds |-> progress'[r]] /\ printed' = [r \in RunIds |-> printed'[r]]
    BY <2>1 DEF ProgressInv, ProgressTypes
  <2> QED BY <2>2, <2>3 DEF ProgressInv, ProgressTypes
<1> QED BY <1>1, <1>2

LEMMA ProgressNext == ASSUME Types, ProgressInv, [Next]_vars PROVE ProgressInv'
<1>1. ASSUME UNCHANGED <<progress, printed>> PROVE ProgressInv'
  BY <1>1 DEF ProgressInv, ProgressTypes
<1>2. CASE UNCHANGED vars
  BY <1>1, <1>2 DEF vars, adapterVars, outputVars
<1>3. CASE \E c \in Callers : (\E t \in Tasks : Start(c, t)) \/ Act(c) \/ Fail(c)
  BY <1>1, <1>3 DEF Start, Delegate, Address, Act, Fail, adapterVars, outputVars
<1>6. CASE \E t \in Tasks : Record(t) \/ RecordHandoff(t) \/ Observe(t)
  BY <1>1, <1>6 DEF Record, RecordHandoff, Observe, outputVars
<1>4. ASSUME NEW c \in Callers, Return(c) PROVE ProgressInv'
  BY <1>1, <1>4, ReturnKinds, ProgressTake DEF outputVars
<1>5. CASE Restart
  <2>1. << >> \in Seq(Line)
    OBVIOUS
  <2>2. progress' = [r \in RunIds |-> NoProgress] /\ printed' = [r \in RunIds |-> << >>]
    BY <1>5 DEF Restart
  <2> QED BY <2>1, <2>2, NothingReported DEF ProgressInv, ProgressTypes
<1> QED BY <1>2, <1>3, <1>4, <1>5, <1>6 DEF Next

\* A call starts, ends or is given up, and no agent acts.
LEMMA CallsType ==
  ASSUME Types, UNCHANGED history, NEW c \in Callers, NEW call,
         call = Idle \/ (call \in Call /\ call.phase = "called" /\
                         (call.mode # "new" => call.session \in 1 .. Len(history))),
         calls' = [calls EXCEPT ![c] = call]
  PROVE  CallTypes'
<1>1. calls' \in [Callers -> Call]
  BY DEF Types, CallTypes, Call
<1>2. \A d \in Callers : calls'[d] = IF d = c THEN call ELSE calls[d]
  BY DEF Types, CallTypes
<1>3. Idle.phase = "idle"
  BY DEF Idle
<1> QED BY <1>1, <1>2, <1>3 DEF Types, CallTypes

LEMMA CallTypesSame == ASSUME Types, UNCHANGED <<calls, history>> PROVE CallTypes'
BY DEF Types, CallTypes

\* The turn an agent takes, and the history it leaves.
LEMMA ActTypes == ASSUME Types, NEW c \in Callers, Act(c) PROVE CallTypes' /\ AgentTypes'
<1> DEFINE call == calls[c]
           turn == TurnOf(call, Turns + 1)
           before == IF call.mode = "new" THEN << >> ELSE history[call.session]
<1>1. PICK session : session = IF call.mode = "resume" THEN call.session ELSE Len(history) + 1
  OBVIOUS
<1>2. PICK number : number = Turns + 1
  OBVIOUS
<1>3. /\ call.phase = "called" /\ Turns < MaxTurns
      /\ history' = IF call.mode = "resume"
                    THEN [history EXCEPT ![session] = Append(@, turn)]
                    ELSE Append(history, Append(before, turn))
      /\ told' = IF call.op = "follow" THEN [told EXCEPT ![call.run] = @ \cup {turn}] ELSE told
      /\ calls' = [calls EXCEPT ![c].phase = "acted", ![c].session = session, ![c].turn = number]
      /\ UNCHANGED sessions
  BY <1>1, <1>2 DEF Act, adapterVars, TurnOf
<1>4. call \in [phase : {"called", "acted"}, op : Ops, task : Tasks,
                run : RunIds \cup {None}, handle : Handle,
                mode : {"new", "resume", "fork"}, session : Nat, turn : 0 .. MaxTurns]
  BY <1>3, CallFields DEF Types
<1>5. number \in 1 .. MaxTurns
  <2>1. Turns \in Nat
    BY TurnsCounted, FS_CardinalityType DEF Types, AgentTypes
  <2> QED BY <1>2, <1>3, <2>1, RunConstants
<1>6. turn \in Turn
  BY <1>2, <1>4, <1>5 DEF Turn, Handle, TurnOf
<1>7. history \in Seq(Seq(Turn)) /\ Len(history) \in Nat /\ IsFiniteSet(AllTurns)
      /\ (call.mode # "new" => call.session \in 1 .. Len(history))
  BY <1>3 DEF Types, AgentTypes, CallTypes
<1>8. before \in Seq(Turn)
  BY <1>7
<1> HIDE DEF turn, before
<1>9. /\ history' \in Seq(Seq(Turn)) /\ session \in 1 .. Len(history')
      /\ Len(history) <= Len(history') /\ Len(history') \in Nat
      /\ \A s \in 1 .. Len(history') :
           \/ s \in 1 .. Len(history) /\ history'[s] = history[s]
           \/ /\ s = session
              /\ \E old \in Seq(Turn) : /\ history'[s] = Append(old, turn)
                                        /\ old = << >> \/ \E k \in 1 .. Len(history) : old = history[k]
  <2>1. CASE call.mode = "resume"
    <3>1. session \in 1 .. Len(history) /\ history' = [history EXCEPT ![session] = Append(@, turn)]
      BY <1>1, <1>3, <1>7, <2>1
    <3>2. history[session] \in Seq(Turn) /\ Append(history[session], turn) \in Seq(Turn)
      BY <1>6, <1>7, <3>1
    <3>3. /\ history' \in Seq(Seq(Turn)) /\ Len(history') = Len(history)
          /\ \A s \in 1 .. Len(history) :
               history'[s] = IF s = session THEN Append(history[session], turn) ELSE history[s]
      BY <1>7, <3>1, <3>2
    <3> QED BY <1>7, <3>1, <3>2, <3>3
  <2>2. CASE call.mode # "resume"
    <3>1. session = Len(history) + 1 /\ history' = Append(history, Append(before, turn))
      BY <1>1, <1>3, <2>2
    <3>2. Append(before, turn) \in Seq(Turn)
      BY <1>6, <1>8
    <3>3. /\ history' \in Seq(Seq(Turn)) /\ Len(history') = Len(history) + 1
          /\ \A s \in 1 .. Len(history) : history'[s] = history[s]
          /\ history'[Len(history) + 1] = Append(before, turn)
      BY <1>7, <3>1, <3>2
    <3>4. before = << >> \/ \E k \in 1 .. Len(history) : before = history[k]
      BY <1>7 DEF before
    <3>5. ASSUME NEW s \in 1 .. Len(history'), s \notin 1 .. Len(history) PROVE s = session
      BY <1>7, <3>1, <3>3, <3>5
    <3>6. session \in 1 .. Len(history') /\ Len(history) <= Len(history') /\ Len(history') \in Nat
      BY <1>7, <3>1, <3>3
    <3> QED BY <1>8, <3>1, <3>3, <3>4, <3>5, <3>6
  <2> QED BY <2>1, <2>2
<1>10. IsFiniteSet(AllTurns')
  <2>1. DOMAIN history = 1 .. Len(history) /\ DOMAIN history' = 1 .. Len(history')
    BY <1>7, <1>9
  <2>2. ASSUME NEW e \in AllTurns' PROVE e \in AllTurns \cup {turn}
    <3>1. PICK s \in 1 .. Len(history') : e \in Range(history'[s])
      BY <2>1 DEF AllTurns
    <3>2. CASE s \in 1 .. Len(history) /\ history'[s] = history[s]
      BY <2>1, <3>1, <3>2 DEF AllTurns
    <3>3. ASSUME NEW old \in Seq(Turn), history'[s] = Append(old, turn),
                 old = << >> \/ \E k \in 1 .. Len(history) : old = history[k]
          PROVE  e \in AllTurns \cup {turn}
      <4>1. e \in Range(old) \cup {turn}
        BY <3>1, <3>3, RangeOfAppend
      <4>2. Range(<< >>) = {}
        BY DEF Range
      <4> QED BY <2>1, <3>3, <4>1, <4>2 DEF AllTurns
    <3> QED BY <1>9, <3>2, <3>3
  <2>3. IsFiniteSet(AllTurns \cup {turn})
    BY <1>7, FS_AddElement
  <2> QED BY <2>2, <2>3, FS_Subset
<1>11. told' \in [RunIds -> SUBSET Turn]
  <2>1. told \in [RunIds -> SUBSET Turn]
    BY DEF Types, AgentTypes
  <2> QED BY <1>3, <1>6, <2>1
<1>12. sessions' \in [RunIds -> 0 .. Len(history')]
  <2>1. sessions \in [RunIds -> 0 .. Len(history)] /\ \A s \in 0 .. Len(history) : s \in 0 .. Len(history')
    BY <1>7, <1>9 DEF Types, AgentTypes
  <2> QED BY <1>3, <2>1
<1>13. AgentTypes'
  BY <1>9, <1>10, <1>11, <1>12 DEF AgentTypes
<1>14. calls'[c] = [call EXCEPT !.phase = "acted", !.session = session, !.turn = number]
       /\ (\A d \in Callers : d # c => calls'[d] = calls[d])
       /\ calls' = [d \in Callers |-> calls'[d]]
  BY <1>3 DEF Types, CallTypes
<1>15. calls'[c] \in Call /\ calls'[c].phase = "acted" /\ calls'[c].session = session
       /\ calls'[c].turn = number
  <2>1. session \in Nat /\ number \in 0 .. MaxTurns
    BY <1>5, <1>9
  <2> HIDE DEF call
  <2> QED BY <1>4, <1>14, <2>1 DEF Call
<1>16. calls' \in [Callers -> Call]
  BY <1>14, <1>15 DEF Types, CallTypes
<1>17. \A s \in 1 .. Len(history) : s \in 1 .. Len(history')
  BY <1>7, <1>9
<1>18. ASSUME NEW d \in Callers
       PROVE  /\ calls'[d].phase = "acted" =>
                   calls'[d].session \in 1 .. Len(history') /\ calls'[d].turn \in 1 .. MaxTurns
              /\ calls'[d].phase = "called" /\ calls'[d].mode # "new" =>
                   calls'[d].session \in 1 .. Len(history')
  <2>1. CASE d = c
    BY <1>5, <1>9, <1>15, <2>1
  <2>2. CASE d # c
    BY <1>14, <1>17, <2>2 DEF Types, CallTypes
  <2> QED BY <2>1, <2>2
<1> QED BY <1>13, <1>16, <1>18 DEF CallTypes

LEMMA ReturnAgents == ASSUME Types, NEW c \in Callers, Return(c) PROVE CallTypes' /\ AgentTypes'
<1>1. calls[c].phase = "acted" /\ UNCHANGED history /\ calls' = [calls EXCEPT ![c] = Idle]
  BY ReturnKinds
<1>2. CallTypes'
  BY <1>1, CallsType
<1>3. /\ calls[c].session \in 0 .. Len(history) /\ calls[c].turn \in 1 .. MaxTurns
      /\ calls[c].handle.correlation_id \in Tasks /\ calls[c].op \in Ops /\ calls[c].task \in Tasks
  BY <1>1, CallFields DEF Types, CallTypes, Handle
<1>4. ASSUME NEW run, ReturnRun(c, run) PROVE told' \in [RunIds -> SUBSET Turn]
  <2> DEFINE turn == TurnOf(calls[c], calls[c].turn)
  <2>1. turn \in Turn
    BY <1>3 DEF Turn, TurnOf
  <2>2. told' = [told EXCEPT ![run] = @ \cup {turn}]
    BY <1>4 DEF ReturnRun
  <2> HIDE DEF turn
  <2> QED BY <2>1, <2>2 DEF Types, AgentTypes
<1>5. PICK output \in setup.prints :
        \/ ReturnFollow(c, output)
        \/ ReturnCallableRun(c, output)
        \/ \E run \in RunIds :
             \/ ReturnHarnessRun(c, run, output)
             \/ ReturnProcessRun(c, run, output)
             \/ ReturnRecordedRun(c, run, output)
  BY DEF Return
<1>6. told' \in [RunIds -> SUBSET Turn] /\ sessions' \in [RunIds -> 0 .. Len(history)]
  <2>1. CASE ReturnFollow(c, output)
    BY <2>1 DEF ReturnFollow, agentVars, Types, AgentTypes
  <2>2. CASE ReturnCallableRun(c, output)
    BY <1>4, <2>2 DEF ReturnCallableRun, Types, AgentTypes
  <2>3. ASSUME NEW run \in RunIds, ReturnHarnessRun(c, run, output)
        PROVE  told' \in [RunIds -> SUBSET Turn] /\ sessions' \in [RunIds -> 0 .. Len(history)]
    <3>1. ReturnRun(c, run)
      BY <2>3 DEF ReturnHarnessRun
    <3>2. sessions' = [sessions EXCEPT ![run] = calls[c].session] \/ sessions' = sessions
      BY <2>3 DEF ReturnHarnessRun
    <3> QED BY <1>3, <1>4, <3>1, <3>2 DEF Types, AgentTypes
  <2>4. ASSUME NEW run \in RunIds, ReturnProcessRun(c, run, output) \/ ReturnRecordedRun(c, run, output)
        PROVE  told' \in [RunIds -> SUBSET Turn] /\ sessions' \in [RunIds -> 0 .. Len(history)]
    BY <1>4, <2>4 DEF ReturnProcessRun, ReturnRecordedRun, Types, AgentTypes
  <2> QED BY <1>5, <2>1, <2>2, <2>3, <2>4
<1> QED BY <1>1, <1>2, <1>6 DEF Types, AgentTypes, AllTurns

LEMMA AgentTypesNext == ASSUME Types, Next PROVE CallTypes' /\ AgentTypes'
<1>1. ASSUME UNCHANGED <<history, told, sessions>> PROVE AgentTypes'
  BY <1>1 DEF Types, AgentTypes, AllTurns
<1>2. ASSUME NEW c \in Callers, NEW t \in Tasks, NEW parent \in RunIds \cup {None}, Delegate(c, t, parent)
      PROVE  CallTypes' /\ AgentTypes'
  <2>1. PICK number : number = IF setup.adapter = "callable" THEN counter + 1 ELSE None
    OBVIOUS
  <2> DEFINE call == [phase |-> "called", op |-> "delegate", task |-> t, run |-> number,
                      handle |-> NewHandle(t, t, parent), mode |-> "new",
                      session |-> NoSession, turn |-> 0]
  <2>2. calls' = [calls EXCEPT ![c] = call] /\ UNCHANGED <<history, told, sessions>>
    BY <1>2, <2>1 DEF Delegate, Calling, agentVars
  <2>3. number \in RunIds \cup {None} /\ 0 \in 0 .. MaxTurns
    BY <1>2, <2>1, NumbersAreRunIds DEF Types, RegistryTypes, Delegate
  <2>4. NewHandle(t, t, parent) \in Handle
    BY DEF NewHandle, Handle
  <2>5. call \in Call /\ call.phase = "called" /\ call.mode = "new"
    BY <2>3, <2>4 DEF Call, Ops, NoSession
  <2> HIDE DEF call
  <2> QED BY <1>1, <2>2, <2>5, CallsType
<1>3. ASSUME NEW c \in Callers, NEW t \in Tasks, NEW op \in {"follow", "handoff"}, Address(c, t, op)
      PROVE  CallTypes' /\ AgentTypes'
  <2>1. PICK mode : mode = CommandMode(op, runOf[t])
    OBVIOUS
  <2>2. PICK session : session = IF mode = "new" THEN NoSession ELSE sessions[runOf[t]]
    OBVIOUS
  <2> DEFINE call == [phase |-> "called", op |-> op, task |-> t, run |-> runOf[t], handle |-> RequireRun(t),
                      mode |-> mode, session |-> session, turn |-> 0]
  <2>3. /\ calls' = [calls EXCEPT ![c] = call] /\ UNCHANGED <<history, told, sessions>>
        /\ runOf[t] # None
    BY <1>3, <2>1, <2>2 DEF Address, Calling, agentVars
  <2>4. RequireRun(t) \in Handle /\ runOf[t] \in RunIds /\ 0 \in 0 .. MaxTurns
    BY <2>3, RequireRunType, RunConstants DEF Types
  <2>5. mode \in {"new", "resume", "fork"} /\ (mode # "new" => sessions[runOf[t]] # NoSession)
    BY <2>1 DEF CommandMode
  <2>6. sessions[runOf[t]] \in 0 .. Len(history) /\ Len(history) \in Nat
    BY <2>4 DEF Types, AgentTypes
  <2>7. session \in Nat /\ (mode # "new" => session \in 1 .. Len(history))
    BY <2>2, <2>5, <2>6 DEF NoSession
  <2>8. call \in Call /\ call.phase = "called" /\ call.mode = mode /\ call.session = session
    BY <2>4, <2>5, <2>7 DEF Call, Ops
  <2> HIDE DEF call
  <2> QED BY <1>1, <2>3, <2>7, <2>8, CallsType
<1>4. ASSUME NEW t \in Tasks, Record(t) \/ RecordHandoff(t) \/ Observe(t)
      PROVE  CallTypes' /\ AgentTypes'
  BY <1>1, <1>4, CallTypesSame DEF Record, RecordHandoff, Observe, agentVars
<1>5. ASSUME NEW c \in Callers, Fail(c) PROVE CallTypes' /\ AgentTypes'
  <2>1. calls' = [calls EXCEPT ![c] = Idle] /\ UNCHANGED <<history, told, sessions>>
    BY <1>5 DEF Fail, agentVars, adapterVars
  <2> QED BY <1>1, <2>1, CallsType
<1>6. CASE Restart
  <2>1. /\ calls' = [c \in Callers |-> Idle] /\ UNCHANGED <<history, told>>
        /\ sessions' = [r \in RunIds |-> NoSession]
    BY <1>6 DEF Restart, agentVars
  <2>2. NoSession \in 0 .. Len(history)
    BY DEF Types, AgentTypes, NoSession
  <2>3. CallTypes'
    BY <2>1 DEF CallTypes, Call, Idle
  <2> QED BY <2>1, <2>2, <2>3 DEF Types, AgentTypes, AllTurns
<1> QED BY <1>2, <1>3, <1>4, <1>5, <1>6, ActTypes, ReturnAgents DEF Next, Start

LEMMA TypesNext == ASSUME Types, ProgressInv, [Next]_vars PROVE Types' /\ ProgressInv'
<1>1. CASE UNCHANGED vars
  <2>1. UNCHANGED <<setup, runOf, runs, sessions, counter, queue, progress, printed, calls,
                    history, told, observed, answers, failures, restarts>>
    BY <1>1 DEF vars, adapterVars, agentVars, outputVars
  <2> QED BY <1>1, <2>1, ProgressNext DEF Types, RegistryTypes, EventTypes, ProgressTypes, CallTypes,
                                    AgentTypes, AllTurns
<1>2. CASE Next
  BY <1>2, RegistryNext, EventTypesNext, AgentTypesNext, ProgressNext DEF Types, ProgressInv
<1> QED BY <1>1, <1>2

LEMMA TypesInductive == ASSUME Setups \subseteq Setup PROVE Spec => [](Types /\ ProgressInv)
<1>1. Init => Types /\ ProgressInv
  <2> SUFFICES ASSUME Init PROVE Types /\ ProgressInv
    OBVIOUS
  <2>1. Types
    BY InitTypes
  <2>2. \A r \in RunIds : Reports(progress[r], printed[r])
    BY NothingReported DEF Init
  <2> QED BY <2>1, <2>2 DEF Types, ProgressInv
<1>2. Types /\ ProgressInv /\ [Next]_vars => (Types /\ ProgressInv)'
  BY TypesNext
<1> QED BY <1>1, <1>2, PTL DEF Spec

\* The state of the adapter and of its agents has its type, whatever the
\* adapter, however often the process stops, and whether or not run ids stay
\* unique: a call that resumes or forks a session has one to resume, what is
\* not about the run's task never reaches the queue, and an agent's number of
\* turns stays within its bound.
THEOREM AgentRunsTypes == ASSUME Setups \subseteq Setup PROVE Spec => []TypeOK
<1>1. Types /\ ProgressInv => TypeOK
  BY TypesAreTypeOK
<1> QED BY <1>1, TypesInductive, PTL

\* The snapshot that a run shows is what all the lines about progress that its
\* agents printed say together, however they are spread over calls and answers
\* (_merge_progress), by induction over the lines of every answer.
THEOREM ProgressIsKept == ASSUME Setups \subseteq Setup PROVE Spec => []ProgressIsReplay
<1>1. Types /\ ProgressInv => ProgressIsReplay
  BY DEF ProgressInv, ProgressIsReplay
<1> QED BY <1>1, TypesInductive, PTL
=============================================================================
