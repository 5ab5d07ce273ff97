---------------------------- MODULE ConsoleSession ----------------------------
(***************************************************************************)
(* The terminal console (loops/tui): saved sessions with their active task *)
(* and run and their buffer of soft controls, the client over the adapter  *)
(* chosen, and what is left when a command is interrupted (Ctrl+C), its    *)
(* adapter call fails, or the console ends and is started again.           *)
(*                                                                         *)
(* The console runs one command at a time.  A command runs to its call of  *)
(* the adapter, and from the answer to its end; in between it can be cut.  *)
(* The session file survives the console; tasks and adapter do not: both   *)
(* are in memory.  What the operations do inside a task is HLPOperations,  *)
(* the projection of an agent's questions HarnessProjection; here a task   *)
(* has its state and the amendments recorded for it.                       *)
(***************************************************************************)
EXTENDS Integers, Sequences, FiniteSets, SequencesExt

CONSTANTS
  Sessions,         \* session ids
  Tasks,            \* task ids
  Adapters,         \* the names /adapter accepts
  ForkingAdapters,  \* those whose handoff forks the native session
  Texts,            \* texts of soft controls
  MaxSoft, MaxRuns,             \* bounds: soft controls, runs of one client
  MaxAmends,                    \* bound: promotions of a task
  MaxFaults                     \* bound: failed calls, Ctrl+C and restarts

None == 0
ASSUME ConsoleConstants == ForkingAdapters \subseteq Adapters /\ None \notin Tasks
ASSUME ConsoleBounds == {MaxSoft, MaxRuns, MaxAmends, MaxFaults} \subseteq Nat

VARIABLES
  file,      \* SessionStore: session -> its record
  current,   \* the session the console is in
  at,        \* "prompt", "calling" an adapter, or "down"
  call,      \* the command that waits for the adapter
  client,    \* the adapter in use: its name and what it knows of runs
  state,     \* task -> Task.state
  runOf,     \* task -> the run bound to it
  told,      \* task -> the entries of Task.steering_log that /promote recorded, each
             \* as the soft controls it merged
  (* history variables: of nothing in the program, for the properties *)
  entered,   \* soft controls ever entered
  withdrawn, \* those the user took back
  chosen,    \* tasks of this console that a session took over with /use
  informed,  \* tasks whose agent has what was said before, or a briefing
  switched,  \* tasks whose agent a completed /adapter brought in
  faults     \* number of failed calls, of Ctrl+C and of restarts

fileVars == <<file, current>>
taskVars == <<state, runOf, told>>
historyVars == <<entered, withdrawn, chosen, informed, switched>>
vars == <<fileVars, at, call, client, taskVars, historyVars, faults>>
-----------------------------------------------------------------------------
Soft == [n : 1 .. MaxSoft, text : Texts, confident : BOOLEAN]
Session == [task : Tasks \cup {None}, run : 0 .. MaxRuns, adapter : Adapters, soft : Seq(Soft)]
Absent == [task |-> "absent"]

TaskStates == {"none", "created", "in_progress", "blocked", "review_ready", "over", "gone"}

\* A client over a new adapter: its counter starts again (_registry.py:25), so
\* that the numbers it gives to runs repeat those of the client before.  The
\* console's command lines and chat prompts ask no agent to name its runs.
Runs == 1 .. MaxRuns
NewClient(adapter) ==
  [adapter |-> adapter, counted |-> 0, runs |-> [run \in Runs |-> None], knows |-> {}]
Client ==
  [adapter : Adapters,
   counted : 0 .. MaxRuns,           \* _run_counter
   runs : [Runs -> Tasks \cup {None}],  \* run -> the task of its handle
   knows : SUBSET Runs]              \* runs with a native session

Idle == [cmd |-> "none"]
Commands == {"delegate", "amend", "promote", "handoff", "same", "cross", "brief",
             "interrupt", "seize", "resolve"}
Call == {Idle} \cup [cmd : Commands, task : Tasks, merged : SUBSET Soft]

Me == file[current]
SetMe(field, value) == [file EXCEPT ![current][field] = value]

\* The tasks this console's store has: not those of an earlier console.
Live == {t \in Tasks : state[t] \notin {"none", "gone"}}
Stale(s) == file[s].task \in Tasks \ Live

\* merge_soft_control_signals keeps the confident ones; the amendment has the text
\* of each once, in an order that no property tells apart.
Merge(soft) == {e \in Range(soft) : e.confident}
Lines(merged) == {e.text : e \in merged}

Fresh(adapter) == [task |-> None, run |-> None, adapter |-> adapter, soft |-> << >>]

Init ==
  /\ \E adapter \in Adapters, s \in Sessions :
       /\ current = s
       /\ file = [q \in Sessions |-> IF q = s THEN Fresh(adapter) ELSE Absent]
       /\ client = NewClient(adapter)
  /\ at = "prompt" /\ call = Idle
  /\ state = [t \in Tasks |-> "none"]
  /\ runOf = [t \in Tasks |-> None]
  /\ told = [t \in Tasks |-> << >>]
  /\ entered = {} /\ withdrawn = {} /\ chosen = {} /\ informed = {} /\ switched = {}
  /\ faults = 0
-----------------------------------------------------------------------------
(* A line is read: the command runs to its end, or up to its adapter call.  *)

Ready == at = "prompt" /\ ~Stale(current)
Working(states) == Me.task \in Live /\ state[Me.task] \in states

Waits(cmd, task, merged) ==
  /\ at' = "calling"
  /\ call' = [cmd |-> cmd, task |-> task, merged |-> merged]

\* _require_run: an adapter that is asked about a run it does not know takes it
\* for the task of the call.
Known(c, t) ==
  [c EXCEPT !.runs = [run \in Runs |-> IF run = runOf[t] /\ c.runs[run] = None THEN t ELSE c.runs[run]]]
Calls(cmd, task, merged) ==
  /\ Waits(cmd, task, merged)
  /\ client' = Known(client, task)

\* The first prompt of a session creates a task and delegates it.
Prompt(t) ==
  /\ Ready /\ Me.task = None
  /\ state[t] = "none" /\ client.counted < MaxRuns
  /\ state' = [state EXCEPT ![t] = "created"]
  /\ Waits("delegate", t, {})
  /\ UNCHANGED <<fileVars, client, runOf, told, historyVars, faults>>

\* Later prompts, and /amend.
Amend ==
  /\ Ready /\ Working({"in_progress", "blocked"})
  /\ Calls("amend", Me.task, {})
  /\ UNCHANGED <<fileVars, taskVars, historyVars, faults>>

\* Faulty, used by no action: the buffer is cleared before the amendment is sent.
Promote_ClearsFirst ==
  /\ Ready /\ Working({"in_progress", "blocked"})
  /\ Len(told[Me.task]) < MaxAmends
  /\ Merge(Me.soft) # {}
  /\ file' = SetMe("soft", << >>)
  /\ Calls("promote", Me.task, Merge(Me.soft))
  /\ UNCHANGED <<current, taskVars, historyVars, faults>>

\* /promote: the buffer is merged and sent as one amendment.
Promote ==
  /\ Ready /\ Working({"in_progress", "blocked"})
  /\ Len(told[Me.task]) < MaxAmends
  /\ Merge(Me.soft) # {}
  /\ Calls("promote", Me.task, Merge(Me.soft))
  /\ UNCHANGED <<fileVars, taskVars, historyVars, faults>>

\* A soft control is added to the buffer; others are taken back from it.
Enter(text, confident) ==
  LET entry == [n |-> Cardinality(entered) + 1, text |-> text, confident |-> confident] IN
  /\ entry.n <= MaxSoft
  /\ file' = SetMe("soft", Append(Me.soft, entry))
  /\ entered' = entered \cup {entry}
  /\ UNCHANGED withdrawn
Withdraw(rest) ==
  /\ file' = SetMe("soft", rest)
  /\ withdrawn' = withdrawn \cup (Range(Me.soft) \ Range(rest))
  /\ UNCHANGED entered

\* /soft <text>, and the text that /promote adds before it merges; /soft pop and
\* /soft clear.
EditBuffer ==
  \/ \E text \in Texts, confident \in BOOLEAN : Enter(text, confident)
  \/ Me.soft # << >> /\ Withdraw(Front(Me.soft))
  \/ Withdraw(<< >>)
SoftLine ==
  /\ Ready /\ EditBuffer
  /\ UNCHANGED <<current, at, call, client, taskVars, chosen, informed, switched, faults>>

\* Faulty, used by no action: a fork takes the buffer along.
NewSession_KeepsBuffer(s) ==
  /\ at = "prompt" /\ file[s] = Absent
  /\ file' = [file EXCEPT ![s] = [Fresh(Me.adapter) EXCEPT !.soft = Me.soft]]
  /\ current' = s
  /\ UNCHANGED <<at, call, client, taskVars, historyVars, faults>>

\* Faulty, used by no action: a fork goes on with the task and its run.
NewSession_KeepsWork(s) ==
  /\ at = "prompt" /\ file[s] = Absent
  /\ file' = [file EXCEPT ![s] = [Me EXCEPT !.soft = << >>]]
  /\ current' = s
  /\ UNCHANGED <<at, call, client, taskVars, historyVars, faults>>

\* /new and /fork: another session, without task, run or buffer.
NewSession(s) ==
  /\ at = "prompt" /\ file[s] = Absent
  /\ file' = [file EXCEPT ![s] = Fresh(Me.adapter)]
  /\ current' = s
  /\ UNCHANGED <<at, call, client, taskVars, historyVars, faults>>

\* The status line after a command asks for the active task; nobody catches
\* the NOT_FOUND of a stale one (app.py, _status_snapshot).
AfterLine(s) == IF Stale(s) THEN "down" ELSE "prompt"

\* /resume: the client stays the one of the session left.
ResumeSession(s) ==
  /\ at = "prompt" /\ file[s] # Absent
  /\ current' = s
  /\ at' = AfterLine(s)
  /\ UNCHANGED <<file, call, client, taskVars, historyVars, faults>>

\* Any other line in a session whose task is not there: what it saves before it
\* asks for the task, the buffer or the preference of /adapter, is kept.
StaleLine ==
  /\ at = "prompt" /\ Stale(current)
  /\ at' = AfterLine(current)
  /\ \/ UNCHANGED <<file, entered, withdrawn>>
     \/ EditBuffer
     \/ /\ \E target \in Adapters : file' = SetMe("adapter", target)
        /\ UNCHANGED <<entered, withdrawn>>
  /\ UNCHANGED <<current, call, client, taskVars, chosen, informed, switched, faults>>

\* /archive, or the end of the input; /delete.
Leave ==
  /\ at = "prompt"
  /\ at' = "down"
  /\ \/ UNCHANGED <<file, withdrawn>>
     \/ /\ file' = [file EXCEPT ![current] = Absent]
        /\ withdrawn' = withdrawn \cup Range(Me.soft)
  /\ UNCHANGED <<current, call, client, taskVars, entered, chosen, informed, switched, faults>>

\* /use: the task changes, the run stays.
Use(t) ==
  /\ Ready
  /\ t \in Live /\ state[t] # "over"
  /\ file' = SetMe("task", t)
  /\ chosen' = IF Me.task = t THEN chosen ELSE chosen \cup {t}
  /\ UNCHANGED <<current, at, call, client, taskVars, entered, withdrawn, informed, switched, faults>>

\* /handoff <agent>, to another than the task's; without a run there is nothing
\* to hand over but the ownership.
Handoff ==
  /\ Ready /\ Working(TaskStates \ {"over"})
  /\ IF runOf[Me.task] # None
     THEN /\ client.counted < MaxRuns
          /\ Calls("handoff", Me.task, {})
          /\ UNCHANGED file
     ELSE /\ file' = SetMe("run", None)
          /\ UNCHANGED <<at, call, client>>
  /\ UNCHANGED <<current, taskVars, historyVars, faults>>

\* /model
Model ==
  /\ Ready
  /\ client' = NewClient(Me.adapter)
  /\ UNCHANGED <<fileVars, at, call, taskVars, historyVars, faults>>

\* /adapter: client and preference change first, then the task is handed off,
\* to another adapter with a briefing.  The adapter is not called for a task
\* without a run, nor for one that is its agent's already.
SwitchAdapter(target) ==
  LET cross == Me.adapter # target
      switch == [file EXCEPT ![current].adapter = target]
      asks(cmd) == Waits(cmd, Me.task, {}) /\ client' = Known(NewClient(target), Me.task)
      done == client' = NewClient(target) /\ UNCHANGED <<at, call>>
  IN
  /\ Ready
  /\ \/ /\ ~Working(TaskStates \ {"over"})
        /\ file' = switch
        /\ done
     \/ /\ Working(TaskStates \ {"over"}) /\ runOf[Me.task] # None
        /\ file' = switch
        /\ asks(IF cross THEN "cross" ELSE "same")
     \/ /\ Working(TaskStates \ {"over"})
        /\ file' = [switch EXCEPT ![current].run = runOf[Me.task]]
        /\ IF cross /\ Working({"in_progress", "blocked"})
           THEN asks("brief")
           ELSE done
  /\ UNCHANGED <<current, taskVars, historyVars, faults>>

\* /interrupt, and Ctrl+C during another command
Interrupt(cmd) ==
  /\ Working({"in_progress"})
  /\ Calls(cmd, Me.task, {})
  /\ UNCHANGED <<fileVars, taskVars, historyVars>>

\* /approve, /reject, /choose and /input: the pending checkpoint of the task.
Resolve ==
  /\ Ready /\ Working({"blocked"})
  /\ Calls("resolve", Me.task, {})
  /\ UNCHANGED <<fileVars, taskVars, historyVars, faults>>

\* /review calls no adapter.
Review(next) ==
  /\ Ready /\ Working({"review_ready"})
  /\ state' = [state EXCEPT ![Me.task] = next]
  /\ UNCHANGED <<fileVars, at, call, client, runOf, told, historyVars, faults>>
-----------------------------------------------------------------------------
(* The adapter answers, and the command runs to its end.                    *)

\* project_harness_events and what follows: the agent may have asked something
\* or delivered, in the run the session follows, for the task that run has.
Synced(now, run) ==
  \E next \in {"in_progress", "blocked", "review_ready"} :
    state' = [t \in Tasks |-> IF /\ now[t] = "in_progress"
                                /\ run # None /\ client'.runs[run] = t
                             THEN next ELSE now[t]]

\* Faulty, used by no action: the command is done and still waits.
Answered_CallKept(cmd) ==
  /\ at = "calling" /\ call.cmd \in cmd
  /\ at' = "prompt"
  /\ UNCHANGED call

Answered(cmd) ==
  /\ at = "calling" /\ call.cmd \in cmd
  /\ call' = Idle
  /\ at' = "prompt"

\* delegate, start and set_active
DelegateReturns ==
  LET run == client.counted + 1
      t == call.task
  IN
  /\ Answered({"delegate"})
  /\ runOf' = [runOf EXCEPT ![t] = run]
  /\ file' = [file EXCEPT ![current].task = t, ![current].run = run]
  /\ client' = [client EXCEPT !.counted = run, !.runs[run] = t, !.knows = @ \cup {run}]
  /\ informed' = informed \cup {t}
  /\ Synced([state EXCEPT ![t] = "in_progress"], run)
  /\ UNCHANGED <<current, told, entered, withdrawn, chosen, switched, faults>>

\* The amendment is recorded; /promote then clears the buffer.
AmendReturns ==
  LET t == call.task IN
  /\ Answered({"amend", "promote", "brief"})
  /\ IF call.cmd = "promote"
     THEN /\ told' = [told EXCEPT ![t] = Append(@, call.merged)]
          /\ file' = SetMe("soft", << >>)
     ELSE UNCHANGED <<told, file>>
  /\ informed' = IF call.cmd = "brief" THEN informed \cup {t} ELSE informed
  /\ switched' = IF call.cmd = "brief" THEN switched \cup {t} ELSE switched
  /\ UNCHANGED client
  /\ IF call.cmd # "brief" THEN Synced(state, Me.run) ELSE UNCHANGED state
  /\ UNCHANGED <<current, runOf, entered, withdrawn, chosen, faults>>

\* adapter.handoff and bind_run, set_active; the new run is of the task that the
\* adapter has the old one for.  /adapter to another adapter goes on with the
\* briefing, which is refused in review.
HandoffReturns ==
  LET run == client.counted + 1
      t == call.task
      owner == client.runs[runOf[t]]
      forks == client.adapter \in ForkingAdapters /\ runOf[t] \in client.knows
      briefs == call.cmd = "cross" /\ state[t] \in {"in_progress", "blocked"}
  IN
  /\ at = "calling" /\ call.cmd \in {"handoff", "same", "cross"}
  /\ runOf' = [runOf EXCEPT ![t] = run]
  /\ file' = SetMe("run", run)
  /\ client' = [client EXCEPT !.counted = run, !.runs[run] = owner, !.knows = @ \cup {run}]
  /\ informed' = IF forks /\ owner = t THEN informed ELSE informed \ {t}
  /\ switched' = IF call.cmd = "same" THEN switched \cup {t} ELSE switched \ {t}
  /\ IF briefs THEN Waits("brief", t, {}) ELSE at' = "prompt" /\ call' = Idle
  /\ IF call.cmd = "handoff" THEN Synced(state, run) ELSE UNCHANGED state
  /\ UNCHANGED <<current, told, entered, withdrawn, chosen, faults>>

InterruptReturns ==
  /\ Answered({"interrupt", "seize"})
  /\ state' = [state EXCEPT ![call.task] = "blocked"]
  /\ UNCHANGED <<fileVars, client, runOf, told, historyVars, faults>>

\* A rejected checkpoint ends the task.
ResolveReturns ==
  /\ Answered({"resolve"})
  /\ UNCHANGED client
  /\ \/ Synced([state EXCEPT ![call.task] = "in_progress"], Me.run)
     \/ state' = [state EXCEPT ![call.task] = "over"]
  /\ UNCHANGED <<fileVars, runOf, told, historyVars, faults>>

Return == DelegateReturns \/ AmendReturns \/ HandoffReturns \/ InterruptReturns \/ ResolveReturns

\* The adapter raises: handle shows the error.  After Ctrl+C nobody does.
Fail ==
  /\ at = "calling" /\ faults < MaxFaults
  /\ faults' = faults + 1
  /\ at' = IF call.cmd = "seize" THEN "down" ELSE "prompt"
  /\ call' = Idle
  /\ UNCHANGED <<fileVars, client, taskVars, historyVars>>

\* Ctrl+C cancels the command at its call and interrupts the active task, if
\* there is one and it is in progress; a second one ends the console.
CtrlC ==
  /\ at = "calling" /\ faults < MaxFaults
  /\ faults' = faults + 1
  /\ IF call.cmd # "seize" /\ Working({"in_progress"})
     THEN Interrupt("seize")
     ELSE /\ at' = IF call.cmd = "seize" THEN "down" ELSE "prompt"
          /\ call' = Idle
          /\ UNCHANGED <<fileVars, client, taskVars, historyVars>>

\* The console is started again, in a new session or with --resume.
Start(s, adapter) ==
  /\ at = "down" /\ faults < MaxFaults
  /\ faults' = faults + 1
  /\ at' = "prompt"
  /\ current' = s
  /\ file' = IF file[s] = Absent THEN [file EXCEPT ![s] = Fresh(adapter)] ELSE file
  /\ client' = NewClient(adapter)
  /\ state' = [t \in Tasks |-> IF t \in Live THEN "gone" ELSE state[t]]
  /\ runOf' = [t \in Tasks |-> None]
  /\ chosen' = {}
  /\ UNCHANGED <<call, told, entered, withdrawn, informed, switched>>
-----------------------------------------------------------------------------
Command ==
  \/ \E t \in Tasks : Prompt(t) \/ Use(t)
  \/ Amend \/ Promote \/ SoftLine
  \/ \E s \in Sessions : NewSession(s) \/ ResumeSession(s)
  \/ StaleLine \/ Leave
  \/ Handoff \/ Model \/ Resolve
  \/ \E adapter \in Adapters : SwitchAdapter(adapter)
  \/ Ready /\ Interrupt("interrupt") /\ UNCHANGED faults
  \/ \E next \in {"in_progress", "over"} : Review(next)

Next ==
  \/ Command \/ Return \/ Fail \/ CtrlC
  \/ \E s \in Sessions, adapter \in Adapters : Start(s, adapter)

Spec == Init /\ [][Next]_vars
-----------------------------------------------------------------------------
TypeOK ==
  /\ file \in [Sessions -> Session \cup {Absent}]
  /\ current \in Sessions
  /\ at = "calling" <=> call # Idle
  /\ at \in {"prompt", "calling", "down"} /\ call \in Call
  /\ client \in Client
  /\ state \in [Tasks -> TaskStates]
  /\ runOf \in [Tasks -> Runs \cup {None}]
  /\ told \in [Tasks -> Seq(SUBSET Soft)]
  /\ entered \in SUBSET Soft /\ withdrawn \subseteq entered
  /\ faults \in 0 .. MaxFaults
  /\ chosen \cup informed \cup switched \subseteq Tasks

\* What the user entered with confidence and did not take back is not lost:
\* it waits in the buffer of its session, or its text is in an amendment that
\* was recorded, whatever failed, was cut or was started again in between.
Amendments == UNION {Range(told[t]) : t \in Tasks}
SoftKeptUntilTold ==
  \A e \in entered \ withdrawn :
    e.confident =>
      \/ \E s \in Sessions : file[s] # Absent /\ e \in Range(file[s].soft)
      \/ \E merged \in Amendments : e \in merged /\ e.text \in Lines(merged)

\* A soft control steers once: no two amendments, of one task or of several,
\* carry it, and none carries it while it still waits in a buffer.
PromotedOnce ==
  \A e \in entered :
    LET carries(t, i) == i <= Len(told[t]) /\ e \in told[t][i]
        carriers == {c \in Tasks \X (1 .. MaxAmends) : carries(c[1], c[2])}
        buffers == {s \in Sessions : file[s] # Absent /\ e \in Range(file[s].soft)}
    IN Cardinality(carriers) + Cardinality(buffers) <= 1

\* A session follows the run that its task is bound to, whichever sessions,
\* forks, failed calls, adapters and handoffs came in between; only a task that
\* was taken over with /use, which leaves the run as it is, is apart.
FollowsBoundRun ==
  \A s \in Sessions :
    file[s] # Absent =>
      LET t == file[s].task IN
      /\ t = None => file[s].run = None
      /\ t \in Live \ chosen => file[s].run = runOf[t]

\* Not kept, see README, section 3: the adapter has the run that a session shows
\* for the session's own task.  After /model or /adapter a second task gets the
\* run number of the first.
ShowsRunOfItsTask ==
  \A s \in Sessions :
    (file[s] # Absent /\ file[s].run # None /\ file[s].task \in Live \ chosen)
      => client.runs[file[s].run] \in {None, file[s].task}

\* "handed off via the native session" and "handed off with a transcript
\* briefing" (tui/_base.py:176-181): whom a completed /adapter brings in has what
\* was said before, in the native session or in a briefing.  It does not when
\* the adapter is the same, because the new client knows no session to fork;
\* nor when an /adapter whose handoff failed is repeated, because the
\* preference is then that adapter already and no briefing is sent.
SwitchInforms == switched \subseteq informed
=============================================================================
