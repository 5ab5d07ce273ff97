------------------------ MODULE ConsoleSession_proofs ------------------------
(***************************************************************************)
(* What ConsoleSession guarantees for any sessions, tasks, adapters and    *)
(* bounds: a session follows the run its task is bound to, and a soft      *)
(* control is neither lost nor recorded in two amendments.                 *)
(*                                                                         *)
(* The inductive invariant IInv says of a task that was not taken over     *)
(* with /use that no two sessions have it, and of a command that waits for *)
(* its adapter that it is about the task of the session, a delegation      *)
(* apart: its task is no session's, and becomes this one's with the answer. *)
(*                                                                         *)
(* TInv adds the types and why no list outgrows its bound: a command that  *)
(* waits has room in what it will extend.  SoftInv says where a control    *)
(* that was entered is: in the buffer of one session, at one place of one  *)
(* task's steering log, or withdrawn.  They are numbered in the order they *)
(* were entered in, so a new one is in none of these places.               *)
(***************************************************************************)
EXTENDS ConsoleSession, SequenceTheorems, FiniteSetTheorems, TLAPS

IsSession(r) ==
  r = [task |-> r.task, run |-> r.run, adapter |-> r.adapter, soft |-> r.soft]

Shape ==
  /\ file = [s \in Sessions |-> file[s]]
  /\ \A s \in Sessions : file[s] = Absent \/ IsSession(file[s])
  /\ current \in Sessions
  /\ at # "down" => IsSession(Me)

Bindings ==
  /\ runOf = [t \in Tasks |-> runOf[t]]
  /\ state = [t \in Tasks |-> state[t]]

\* A command that waits is about the session's task, or about one that no
\* session has.
Waiting ==
  at = "calling" =>
    /\ call.task \in Live
    /\ IF call.cmd = "delegate"
       THEN \A s \in Sessions : IsSession(file[s]) => file[s].task # call.task
       ELSE call.task = Me.task

\* The record of a session follows the run of its task.
Follows(r) ==
  /\ r.task = None => r.run = None
  /\ r.task \in Tasks => state[r.task] # "none"
  /\ r.task \in Live \ chosen => r.run = runOf[r.task]
SessionRuns == \A s \in Sessions : IsSession(file[s]) => Follows(file[s])

\* No two sessions have a task that was not taken over with /use.
Owners ==
  \A s, q \in Sessions :
    s # q /\ IsSession(file[s]) /\ IsSession(file[q]) /\ file[s].task = file[q].task
      => file[s].task \notin Live \ chosen

IInv == Shape /\ Bindings /\ Waiting /\ SessionRuns /\ Owners

\* A step after which the same tasks are there.
SameTasks == \A t \in Tasks : state'[t] = state[t] \/ (t \in Live /\ t \in Live')
-----------------------------------------------------------------------------
\* A record of a session is not the mark that there is none.
LEMMA SessionIsThere ==
  ASSUME NEW r, IsSession(r)
  PROVE  r # Absent
<1>1. "run" \in DOMAIN [task |-> r.task, run |-> r.run, adapter |-> r.adapter, soft |-> r.soft]
  OBVIOUS
<1>2. "run" \notin DOMAIN Absent
  BY DEF Absent
<1> QED BY <1>1, <1>2 DEF IsSession

\* The assignment of a field of a session.
LEMMA FieldSet ==
  ASSUME NEW r, IsSession(r), NEW x
  PROVE  /\ [r EXCEPT !["task"] = x] =
              [task |-> x, run |-> r.run, adapter |-> r.adapter, soft |-> r.soft]
         /\ [r EXCEPT !["run"] = x] =
              [task |-> r.task, run |-> x, adapter |-> r.adapter, soft |-> r.soft]
         /\ [r EXCEPT !["adapter"] = x] =
              [task |-> r.task, run |-> r.run, adapter |-> x, soft |-> r.soft]
         /\ [r EXCEPT !["soft"] = x] =
              [task |-> r.task, run |-> r.run, adapter |-> r.adapter, soft |-> x]
<1> DEFINE a == r.task
           b == r.run
           c == r.adapter
           d == r.soft
<1>1. r = [task |-> a, run |-> b, adapter |-> c, soft |-> d]
  BY DEF IsSession
<1> HIDE DEF a, b, c, d
<1>2. [r EXCEPT !["task"] = x] = [task |-> x, run |-> b, adapter |-> c, soft |-> d]
  BY <1>1
<1>3. [r EXCEPT !["run"] = x] = [task |-> a, run |-> x, adapter |-> c, soft |-> d]
  BY <1>1
<1>4. [r EXCEPT !["soft"] = x] = [task |-> a, run |-> b, adapter |-> c, soft |-> x]
  BY <1>1
<1>5. [r EXCEPT !["adapter"] = x] = [task |-> a, run |-> b, adapter |-> x, soft |-> d]
  BY <1>1
<1> QED BY <1>2, <1>3, <1>4, <1>5 DEF a, b, c, d

\* A record that is spelled out is a session's.
LEMMA Spelled ==
  ASSUME NEW t, NEW run, NEW adapter, NEW soft
  PROVE  IsSession([task |-> t, run |-> run, adapter |-> adapter, soft |-> soft])
BY DEF IsSession

\* The same assignment to the record of the session the console is in.
LEMMA MeSet ==
  ASSUME IInv, IsSession(Me), NEW x, NEW field \in {"task", "run", "adapter", "soft"},
         file' = SetMe(field, x)
  PROVE  \E r : /\ IsSession(r) /\ file' = [file EXCEPT ![current] = r]
                /\ r.task = IF field = "task" THEN x ELSE Me.task
                /\ r.run = IF field = "run" THEN x ELSE Me.run
                /\ r.soft = IF field = "soft" THEN x ELSE Me.soft
                /\ r.adapter = IF field = "adapter" THEN x ELSE Me.adapter
<1> DEFINE me == Me
           set == [me EXCEPT ![field] = x]
<1>1. file' = [file EXCEPT ![current] = set]
  BY DEF SetMe, Me, IInv, Shape
<1>2. IsSession(me)
  OBVIOUS
<1> HIDE DEF me
<1>3. CASE field = "task"
  <2>1. set = [task |-> x, run |-> me.run, adapter |-> me.adapter, soft |-> me.soft]
    BY <1>2, <1>3, FieldSet
  <2>2. IsSession(set) /\ set.task = x /\ set.run = me.run /\ set.soft = me.soft /\ set.adapter = me.adapter
    BY <2>1, Spelled
  <2> HIDE DEF set
  <2> QED BY <1>1, <1>3, <2>2 DEF me
<1>4. CASE field = "run"
  <2>1. set = [task |-> me.task, run |-> x, adapter |-> me.adapter, soft |-> me.soft]
    BY <1>2, <1>4, FieldSet
  <2>2. IsSession(set) /\ set.task = me.task /\ set.run = x /\ set.soft = me.soft /\ set.adapter = me.adapter
    BY <2>1, Spelled
  <2> HIDE DEF set
  <2> QED BY <1>1, <1>4, <2>2 DEF me
<1>5. CASE field = "soft"
  <2>1. set = [task |-> me.task, run |-> me.run, adapter |-> me.adapter, soft |-> x]
    BY <1>2, <1>5, FieldSet
  <2>2. IsSession(set) /\ set.task = me.task /\ set.run = me.run /\ set.soft = x /\ set.adapter = me.adapter
    BY <2>1, Spelled
  <2> HIDE DEF set
  <2> QED BY <1>1, <1>5, <2>2 DEF me
<1>6. CASE field = "adapter"
  <2>1. set = [task |-> me.task, run |-> me.run, adapter |-> x, soft |-> me.soft]
    BY <1>2, <1>6, FieldSet
  <2>2. IsSession(set) /\ set.task = me.task /\ set.run = me.run /\ set.soft = me.soft /\ set.adapter = x
    BY <2>1, Spelled
  <2> HIDE DEF set
  <2> QED BY <1>1, <1>6, <2>2 DEF me
<1> QED BY <1>3, <1>4, <1>5, <1>6

\* A session that starts has neither task nor run.
LEMMA FreshSession ==
  ASSUME NEW adapter
  PROVE  IsSession(Fresh(adapter)) /\ Fresh(adapter).run = None /\ Fresh(adapter).task = None
BY DEF Fresh, IsSession

\* Tasks that are there stay, and no other appears.
LEMMA TasksStay ==
  ASSUME SameTasks
  PROVE  Live' = Live /\ \A t \in Tasks : state[t] # "none" => state'[t] # "none"
<1>1. \A t \in Tasks : t \in Live <=> t \in Live'
  BY DEF SameTasks, Live
<1> QED BY <1>1 DEF SameTasks, Live

\* A command that leaves the sessions, the runs and the choices alone.
LEMMA QuietStep ==
  ASSUME IInv, UNCHANGED <<file, current, chosen, runOf>>, SameTasks, Bindings',
         at' # "down" => at # "down", Waiting'
  PROVE  IInv'
<1>1. Live' = Live
  BY TasksStay
<1>2. Shape' /\ Bindings'
  BY DEF IInv, Shape, Bindings, Me
<1>3. SessionRuns'
  <2> SUFFICES ASSUME NEW s \in Sessions, IsSession(file[s])
               PROVE  Follows(file[s])'
    BY DEF SessionRuns
  <2>1. Follows(file[s])
    BY DEF IInv, SessionRuns
  <2> DEFINE r == file[s]
  <2> HIDE DEF r
  <2>2. r' = r
    BY DEF r
  <2>3. Follows(r)
    BY <2>1 DEF r
  <2>4. (r.task = None => r.run = None) /\ (r.task \in Tasks => state'[r.task] # "none")
        /\ (r.task \in Live' \ chosen' => r.run = runOf'[r.task])
    BY <2>3, TasksStay DEF Follows
  <2> QED BY <2>2, <2>4 DEF Follows, r
<1>4. Owners'
  BY <1>1 DEF IInv, Owners
<1> QED BY <1>2, <1>3, <1>4 DEF IInv

\* The record r in the place of the session's: what the other sessions follow is
\* as it was, and none of them has its task.
LEMMA RecordStep ==
  ASSUME IInv, UNCHANGED current, Waiting', Bindings',
         NEW r, IsSession(r), file' = [file EXCEPT ![current] = r],
         Live' = Live, \A t \in Tasks : state[t] # "none" => state'[t] # "none",
         chosen \subseteq chosen',
         r.task = None => r.run = None, r.task \in Tasks => state'[r.task] # "none",
         r.task \in Live \ chosen' => r.run = runOf'[r.task],
         \A t \in Live \ chosen' : t # r.task => runOf'[t] = runOf[t],
         \A s \in Sessions \ {current} :
           IsSession(file[s]) /\ file[s].task = r.task => r.task \notin Live \ chosen'
  PROVE  IInv'
<1>1. file'[current] = r /\ \A s \in Sessions \ {current} : file'[s] = file[s]
  BY DEF IInv, Shape
<1>2. Shape'
  BY <1>1 DEF IInv, Shape, Me
<1>3. SessionRuns'
  <2> SUFFICES ASSUME NEW s \in Sessions, IsSession(file'[s])
               PROVE  Follows(file[s])'
    BY DEF SessionRuns
  <2> DEFINE q == file'[s]
  <2>1. q.task = None => q.run = None
    BY <1>1 DEF IInv, SessionRuns, Follows
  <2>2. q.task \in Tasks => state'[q.task] # "none"
    BY <1>1 DEF IInv, SessionRuns, Follows
  <2>3. q.task \in Live \ chosen' => q.run = runOf'[q.task]
    <3>1. CASE s = current
      BY <1>1, <3>1
    <3>2. CASE s # current
      <4>1. q = file[s] /\ Follows(q)
        BY <1>1, <3>2 DEF IInv, SessionRuns
      <4> HIDE DEF q
      <4>2. q.task \in Live \ chosen' => q.task # r.task /\ q.run = runOf[q.task]
        BY <3>2, <4>1 DEF Follows, q
      <4> QED BY <4>2
    <3> QED BY <3>1, <3>2
  <2> HIDE DEF q
  <2>4. q.task \in Live' \ chosen' => q.run = runOf'[q.task]
    BY <2>3
  <2> QED BY <2>1, <2>2, <2>4 DEF Follows, q
<1>4. Owners'
  BY <1>1 DEF IInv, Owners
<1> QED BY <1>2, <1>3, <1>4 DEF IInv

\* An assignment to a record that leaves task and run alone.
LEMMA KeptStep ==
  ASSUME IInv, UNCHANGED <<current, runOf, chosen>>, SameTasks, Bindings', Waiting', IsSession(Me),
         NEW r, IsSession(r), file' = [file EXCEPT ![current] = r],
         r.task = Me.task, r.run = Me.run
  PROVE  IInv'
<1>1. current \in Sessions /\ Follows(Me)
  BY DEF IInv, Shape, SessionRuns, Me
<1>2. Live' = Live /\ \A t \in Tasks : state[t] # "none" => state'[t] # "none"
  BY TasksStay
<1>3. \A s \in Sessions \ {current} :
        IsSession(file[s]) /\ file[s].task = r.task => r.task \notin Live \ chosen
  BY <1>1 DEF IInv, Owners, Me
<1>4. /\ r.task = None => r.run = None
      /\ r.task \in Tasks => state'[r.task] # "none"
      /\ r.task \in Live \ chosen => r.run = runOf[r.task]
  BY <1>1, <1>2 DEF Follows
<1> QED BY <1>2, <1>3, <1>4, RecordStep
-----------------------------------------------------------------------------
\* The commands that only start a call of the adapter for the session's task.
LEMMA CallsStep ==
  ASSUME IInv, NEW cmd, NEW merged, at = "prompt" \/ at = "calling",
         Me.task \in Live, cmd # "delegate", Waits(cmd, Me.task, merged),
         UNCHANGED <<file, current, chosen, runOf, state>>
  PROVE  IInv'
<1>1. Waiting'
  BY DEF Waiting, Waits, Me, Live
<1>2. SameTasks /\ Bindings'
  BY DEF SameTasks, IInv, Bindings
<1> QED BY <1>1, <1>2, QuietStep DEF Waits

LEMMA WorkingTask ==
  ASSUME NEW states, Working(states)
  PROVE  Me.task \in Tasks /\ Me.task \in Live
BY DEF Working, Live

\* Prompt: the task created is no session's yet.
LEMMA PromptStep ==
  ASSUME IInv, NEW t \in Tasks, Prompt(t)
  PROVE  IInv'
<1>1. /\ at = "prompt" /\ state[t] = "none" /\ state' = [state EXCEPT ![t] = "created"]
      /\ Waits("delegate", t, {}) /\ UNCHANGED <<file, current, chosen, runOf>>
  BY DEF Prompt, Ready, fileVars, historyVars
<1>2. \A s \in Sessions : IsSession(file[s]) => file[s].task # t
  BY <1>1 DEF IInv, SessionRuns, Follows
<1>3. \A u \in Tasks : state'[u] = state[u] \/ (u = t /\ state'[u] \in {"created", state[t]})
  BY <1>1 DEF Live
<1>4. Live' \subseteq Live \cup {t}
  BY <1>3 DEF Live
<1>5. Waiting'
  <2>1. t \in Live'
    BY <1>1 DEF IInv, Bindings, Live
  <2> QED BY <1>1, <1>2, <2>1 DEF Waiting, Waits
<1>6. Shape' /\ Bindings'
  BY <1>1 DEF IInv, Shape, Bindings, Me, Waits
<1>7. SessionRuns'
  <2> SUFFICES ASSUME NEW s \in Sessions, IsSession(file[s])
               PROVE  Follows(file[s])'
    BY <1>1 DEF SessionRuns
  <2> DEFINE r == file[s]
  <2>1. r' = r /\ Follows(r) /\ r.task # t
    BY <1>1, <1>2 DEF IInv, SessionRuns
  <2> HIDE DEF r
  <2>2. r.task \in Tasks => state'[r.task] = state[r.task]
    BY <1>3, <2>1
  <2>3. /\ r.task = None => r.run = None
        /\ r.task \in Tasks => state'[r.task] # "none"
        /\ r.task \in Live' \ chosen' => r.run = runOf'[r.task]
    BY <1>1, <1>4, <2>1, <2>2 DEF Follows
  <2> QED BY <2>1, <2>3 DEF Follows, r
<1>8. Owners'
  BY <1>1, <1>2, <1>4 DEF IInv, Owners
<1> QED BY <1>5, <1>6, <1>7, <1>8 DEF IInv

\* Amend, Promote, Resolve and Interrupt.
LEMMA AskStep ==
  ASSUME IInv, Amend \/ Promote \/ Resolve \/ (Ready /\ Interrupt("interrupt"))
  PROVE  IInv'
<1>1. at = "prompt" /\ Me.task \in Live
  BY WorkingTask DEF Amend, Promote, Resolve, Interrupt, Ready
<1>2. UNCHANGED <<file, current, chosen, runOf, state>>
  BY DEF Amend, Promote, Resolve, Interrupt, fileVars, taskVars, historyVars
<1>3. \E cmd, merged : cmd # "delegate" /\ Waits(cmd, Me.task, merged)
  BY DEF Amend, Promote, Resolve, Interrupt, Calls
<1> QED BY <1>1, <1>2, <1>3, CallsStep

\* What a command does to the buffer, or to the preference of an adapter.
LEMMA BufferStep ==
  ASSUME IInv, NEW x, NEW field \in {"soft", "adapter"}, at # "down", file' = SetMe(field, x), Waiting',
         UNCHANGED <<current, runOf, chosen>>, SameTasks, Bindings'
  PROVE  IInv'
<1>1. IsSession(Me) /\ current \in Sessions
  BY DEF IInv, Shape
<1>2. PICK r : /\ IsSession(r) /\ file' = [file EXCEPT ![current] = r]
               /\ r.task = Me.task /\ r.run = Me.run
  BY <1>1, MeSet
<1> QED BY <1>1, <1>2, KeptStep

\* SoftLine and StaleLine
LEMMA SoftStep ==
  ASSUME IInv, SoftLine \/ StaleLine
  PROVE  IInv'
<1>1. /\ at = "prompt" /\ at' \in {"prompt", "down"} /\ UNCHANGED <<current, runOf, state, chosen>>
      /\ \/ file' = file
         \/ \E x : \E field \in {"soft", "adapter"} : file' = SetMe(field, x)
  BY DEF SoftLine, StaleLine, EditBuffer, Enter, Withdraw, Ready, AfterLine, taskVars
<1>2. Waiting' /\ SameTasks /\ Bindings'
  BY <1>1 DEF Waiting, SameTasks, IInv, Bindings
<1>3. CASE file' = file
  BY <1>1, <1>2, <1>3, QuietStep
<1>4. CASE \E x : \E field \in {"soft", "adapter"} : file' = SetMe(field, x)
  BY <1>1, <1>2, <1>4, BufferStep
<1> QED BY <1>1, <1>3, <1>4


\* The record of session s is another one, which follows no run; what the other
\* sessions follow is as it was.
LEMMA OtherRecord ==
  ASSUME IInv, NEW s \in Sessions, NEW r, ~IsSession(r) \/ (r.task = None /\ r.run = None),
         file' = [file EXCEPT ![s] = r], UNCHANGED <<runOf, chosen, state>>
  PROVE  SessionRuns' /\ Owners'
<1>1. \A q \in Sessions : file'[q] = IF q = s THEN r ELSE file[q]
  BY DEF IInv, Shape
<1>2. Live' = Live
  BY DEF Live
<1>3. SessionRuns'
  <2> SUFFICES ASSUME NEW q \in Sessions, IsSession(file'[q])
               PROVE  Follows(file[q])'
    BY DEF SessionRuns
  <2> DEFINE f == file'[q]
  <2>1. Follows(f)
    <3>1. CASE q = s
      BY <1>1, <3>1, ConsoleConstants DEF Follows, Live
    <3>2. CASE q # s
      BY <1>1, <3>2 DEF IInv, SessionRuns
    <3> QED BY <3>1, <3>2
  <2> HIDE DEF f
  <2>2. /\ f.task = None => f.run = None
        /\ f.task \in Tasks => state'[f.task] # "none"
        /\ f.task \in Live' \ chosen' => f.run = runOf'[f.task]
    BY <1>2, <2>1 DEF Follows
  <2> QED BY <2>2 DEF Follows, f
<1>4. Owners'
  <2> SUFFICES ASSUME NEW a \in Sessions, NEW b \in Sessions, a # b, IsSession(file'[a]), IsSession(file'[b]),
                      file'[a].task = file'[b].task, file'[a].task \in Live \ chosen
               PROVE  FALSE
    BY <1>2 DEF Owners
  <2>1. a # s /\ b # s
    BY <1>1, ConsoleConstants DEF Live
  <2> QED BY <1>1, <2>1 DEF IInv, Owners
<1> QED BY <1>3, <1>4

\* NewSession
LEMMA NewSessionStep ==
  ASSUME IInv, NEW s \in Sessions, NewSession(s)
  PROVE  IInv'
<1>1. /\ at = "prompt" /\ at' = at /\ current' = s
      /\ file' = [file EXCEPT ![s] = Fresh(Me.adapter)]
      /\ UNCHANGED <<runOf, chosen, state>>
  BY DEF NewSession, taskVars, historyVars
<1>2. IsSession(Fresh(Me.adapter)) /\ Fresh(Me.adapter).run = None /\ Fresh(Me.adapter).task = None
  BY FreshSession
<1>3. file'[s] = Fresh(Me.adapter) /\ \A q \in Sessions \ {s} : file'[q] = file[q]
  BY <1>1 DEF IInv, Shape
<1>4. Shape'
  BY <1>1, <1>2, <1>3 DEF IInv, Shape, Me
<1>5. SessionRuns' /\ Owners'
  BY <1>1, <1>2, OtherRecord
<1> QED BY <1>1, <1>4, <1>5 DEF IInv, Bindings, Waiting

\* ResumeSession
LEMMA ResumeStep ==
  ASSUME IInv, NEW s \in Sessions, ResumeSession(s)
  PROVE  IInv'
<1>1. /\ at' \in {"prompt", "down"} /\ current' = s /\ file[s] # Absent
      /\ UNCHANGED <<file, runOf, chosen, state>>
  BY DEF ResumeSession, AfterLine, taskVars, historyVars
<1>2. Live' = Live
  BY <1>1 DEF Live
<1>3. Shape' /\ Bindings' /\ Waiting'
  BY <1>1 DEF IInv, Shape, Bindings, Waiting, Me
<1>4. SessionRuns' /\ Owners'
  BY <1>1, <1>2 DEF IInv, SessionRuns, Owners, Follows
<1> QED BY <1>3, <1>4 DEF IInv

\* Model
LEMMA ModelStep ==
  ASSUME IInv, Model
  PROVE  IInv'
<1>1. at = "prompt" /\ at' = at /\ UNCHANGED <<file, current, chosen, runOf, state>>
  BY DEF Model, Ready, fileVars, taskVars, historyVars
<1> QED BY <1>1, QuietStep DEF Waiting, SameTasks, IInv, Bindings

\* Leave: the session stays or is deleted.
LEMMA LeaveStep ==
  ASSUME IInv, Leave
  PROVE  IInv'
<1>1. at = "prompt" /\ at' = "down" /\ UNCHANGED <<current, runOf, state, chosen>>
  BY DEF Leave, taskVars
<1>2. Waiting' /\ SameTasks /\ Bindings'
  BY <1>1 DEF Waiting, SameTasks, IInv, Bindings
<1>3. CASE file' = file
  BY <1>1, <1>2, <1>3, QuietStep
<1>4. CASE file' = [file EXCEPT ![current] = Absent]
  <2>1. current \in Sessions /\ ~IsSession(Absent)
    BY SessionIsThere DEF IInv, Shape
  <2>2. Shape'
    BY <1>1, <1>4, <2>1 DEF IInv, Shape
  <2>3. SessionRuns' /\ Owners'
    BY <1>1, <1>4, <2>1, OtherRecord
  <2> QED BY <1>1, <1>2, <2>2, <2>3 DEF IInv, Bindings
<1> QED BY <1>3, <1>4 DEF Leave

\* Use: the run stays, and the task counts as one taken over.
LEMMA UseStep ==
  ASSUME IInv, NEW t \in Tasks, Use(t)
  PROVE  IInv'
<1>1. /\ at = "prompt" /\ at' = at /\ t \in Live
      /\ IsSession(Me) /\ current \in Sessions
      /\ UNCHANGED <<current, runOf, state>>
      /\ chosen' = IF Me.task = t THEN chosen ELSE chosen \cup {t}
  BY DEF Use, Ready, IInv, Shape, taskVars
<1>2. PICK r : /\ IsSession(r) /\ file' = [file EXCEPT ![current] = r]
               /\ r.task = t /\ r.run = Me.run
  BY <1>1, MeSet DEF Use
<1>3. Waiting' /\ Bindings' /\ SameTasks
  BY <1>1 DEF IInv, Waiting, Bindings, SameTasks
<1>4. CASE Me.task = t
  BY <1>1, <1>2, <1>3, <1>4, KeptStep
<1>5. CASE Me.task # t
  <2>1. Live' = Live /\ state[t] # "none"
    BY <1>1 DEF Live
  <2>2. t \notin Live \ chosen' /\ t # None
    BY <1>1, <1>5, ConsoleConstants
  <2> QED BY <1>1, <1>2, <1>3, <1>5, <2>1, <2>2, RecordStep
<1> QED BY <1>4, <1>5

\* Review
LEMMA ReviewStep ==
  ASSUME IInv, NEW next \in {"in_progress", "over"}, Review(next)
  PROVE  IInv'
<1>1. /\ at = "prompt" /\ at' = at /\ state' = [state EXCEPT ![Me.task] = next]
      /\ UNCHANGED <<file, current, chosen, runOf>> /\ Me.task \in Live
  BY WorkingTask DEF Review, Ready, fileVars, historyVars
<1>2. SameTasks
  <2> SUFFICES ASSUME NEW t \in Tasks, state'[t] # state[t]
               PROVE  t \in Live /\ t \in Live'
    BY DEF SameTasks
  <2>1. t = Me.task
    BY <1>1
  <2> QED BY <1>1, <2>1 DEF Live
<1>3. Bindings'
  BY <1>1 DEF IInv, Bindings
<1> QED BY <1>1, <1>2, <1>3, QuietStep DEF Waiting

\* Handoff: with a run the adapter is called, without one the session's run is
\* cleared.
LEMMA HandoffStep ==
  ASSUME IInv, Handoff
  PROVE  IInv'
<1>1. /\ at = "prompt" /\ Me.task \in Tasks /\ Me.task \in Live
      /\ UNCHANGED <<current, runOf, state, chosen>>
  BY WorkingTask DEF Handoff, Ready, taskVars, historyVars
<1>2. CASE runOf[Me.task] # None
  BY <1>1, <1>2, CallsStep DEF Handoff, Calls
<1>3. CASE runOf[Me.task] = None
  <2>1. /\ file' = SetMe("run", None) /\ at' = at
    BY <1>3 DEF Handoff
  <2>2. IsSession(Me) /\ current \in Sessions
    BY <1>1 DEF IInv, Shape
  <2>3. PICK r : /\ IsSession(r) /\ file' = [file EXCEPT ![current] = r]
                 /\ r.run = None /\ r.task = Me.task
    BY <2>1, <2>2, MeSet
  <2>4. Waiting' /\ Bindings' /\ Live' = Live
    BY <1>1, <2>1 DEF IInv, Waiting, Bindings, Live
  <2>5. \A s \in Sessions \ {current} :
          IsSession(file[s]) /\ file[s].task = r.task => r.task \notin Live \ chosen
    BY <2>2, <2>3 DEF IInv, Owners, Me
  <2>6. state[r.task] # "none"
    BY <1>1, <2>3 DEF Live
  <2> QED BY <1>1, <1>3, <2>3, <2>4, <2>5, <2>6, RecordStep
<1> QED BY <1>2, <1>3

\* SwitchAdapter: the preference changes, the task is handed off.
LEMMA SwitchStep ==
  ASSUME IInv, NEW target \in Adapters, SwitchAdapter(target)
  PROVE  IInv'
<1> DEFINE me == Me
           set == [me EXCEPT !["adapter"] = target]
           switch == [file EXCEPT ![current].adapter = target]
<1>1. /\ at = "prompt" /\ UNCHANGED <<current, runOf, state, chosen>>
      /\ current \in Sessions
  BY DEF SwitchAdapter, Ready, taskVars, historyVars, IInv, Shape
<1>2. IsSession(me)
  BY <1>1 DEF IInv, Shape
<1>3. switch = [file EXCEPT ![current] = set]
  BY DEF Me
<1> HIDE DEF me
<1>4. set = [task |-> me.task, run |-> me.run, adapter |-> target, soft |-> me.soft]
  BY <1>2, FieldSet
<1>5. IsSession(set) /\ set.task = me.task /\ set.run = me.run
  BY <1>4, Spelled
<1> HIDE DEF set, switch
<1>6. /\ me.task = None => me.run = None
      /\ me.task \in Tasks => state[me.task] # "none"
  BY <1>1, <1>2 DEF IInv, SessionRuns, Follows, Me, me
<1>7. ASSUME file' = switch, Waiting'
      PROVE  IInv'
  <2>1. SameTasks /\ Bindings'
    BY <1>1 DEF SameTasks, IInv, Bindings
  <2> QED BY <1>1, <1>2, <1>3, <1>5, <1>7, <2>1, KeptStep DEF me
<1>8. CASE ~Working(TaskStates \ {"over"}) /\ file' = switch /\ UNCHANGED <<at, call>>
  BY <1>1, <1>7, <1>8 DEF Waiting
<1>9. CASE /\ Working(TaskStates \ {"over"})
           /\ file' = switch
           /\ \E cmd \in {"cross", "same"} : Waits(cmd, Me.task, {})
  <2>1. me.task \in Live
    BY <1>9, WorkingTask DEF me
  <2>2. file'[current] = set
    BY <1>1, <1>3, <1>9 DEF IInv, Shape
  <2>3. Waiting'
    BY <1>1, <1>5, <1>9, <2>1, <2>2 DEF Waiting, Waits, Me, me, Live
  <2> QED BY <1>7, <1>9, <2>3
<1>10. CASE /\ Working(TaskStates \ {"over"})
            /\ file' = [switch EXCEPT ![current].run = runOf[Me.task]]
            /\ UNCHANGED <<at, call>> \/ Waits("brief", Me.task, {})
  <2> DEFINE r == [task |-> me.task, run |-> runOf[me.task], adapter |-> target, soft |-> me.soft]
  <2>1. me.task \in Live /\ me.task \in Tasks
    BY <1>10, WorkingTask DEF me
  <2>2. IsSession(r) /\ r.task = me.task /\ r.run = runOf[me.task]
    BY Spelled
  <2>3. switch[current] = set
    BY <1>1, <1>3 DEF IInv, Shape
  <2>4. [set EXCEPT !["run"] = runOf[me.task]] = r
    <3>1. /\ set.task = me.task /\ set.adapter = target /\ set.soft = me.soft
      BY <1>4
    <3>2. [set EXCEPT !["run"] = runOf[me.task]] =
            [task |-> set.task, run |-> runOf[me.task], adapter |-> set.adapter, soft |-> set.soft]
      BY <1>5, FieldSet
    <3> QED BY <3>1, <3>2
  <2>5. file' = [file EXCEPT ![current] = r]
    BY <1>1, <1>3, <1>10, <2>3, <2>4 DEF IInv, Shape, me
  <2> HIDE DEF r
  <2>6. me.task # None
    BY <2>1, ConsoleConstants
  <2>7. file'[current] = r
    BY <1>1, <2>5 DEF IInv, Shape
  <2>8. Waiting'
    <3>1. CASE UNCHANGED <<at, call>>
      BY <1>1, <3>1 DEF Waiting
    <3>2. CASE Waits("brief", me.task, {})
      BY <1>1, <2>1, <2>2, <2>7, <3>2 DEF Waiting, Waits, Me, Live
    <3> QED BY <1>10, <3>1, <3>2 DEF me
  <2>9. Live' = Live /\ Bindings'
    BY <1>1 DEF Live, IInv, Bindings
  <2>10. \A s \in Sessions \ {current} :
          IsSession(file[s]) /\ file[s].task = r.task => r.task \notin Live \ chosen
    BY <1>1, <1>2, <2>2 DEF IInv, Owners, Me, me
  <2> QED BY <1>1, <1>6, <2>1, <2>2, <2>5, <2>6, <2>8, <2>9, <2>10, RecordStep
<1> QED BY <1>8, <1>9, <1>10 DEF SwitchAdapter, switch
-----------------------------------------------------------------------------
\* project_harness_events: no task appears or goes.
LEMMA SyncedStep ==
  ASSUME NEW now, NEW run, Synced(now, run), now = [u \in Tasks |-> now[u]],
         \A u \in Tasks : now[u] = state[u] \/ (u \in Live /\ now[u] \notin {"none", "gone"})
  PROVE  SameTasks
<1>1. PICK next \in {"in_progress", "blocked", "review_ready"} :
        \A u \in Tasks : state'[u] = now[u] \/ (now[u] = "in_progress" /\ state'[u] = next)
  BY DEF Synced
<1> SUFFICES ASSUME NEW u \in Tasks, state'[u] # state[u]
             PROVE  u \in Live /\ u \in Live'
  BY DEF SameTasks
<1>2. now[u] \notin {"none", "gone"} /\ u \in Live
  BY <1>1 DEF Live
<1>3. state'[u] \notin {"none", "gone"}
  BY <1>1, <1>2
<1> QED BY <1>2, <1>3 DEF Live

\* A new run of a task, and the session that has or gets the task follows it.
LEMMA RunStep ==
  ASSUME IInv, SameTasks, Bindings', NEW t \in Live, NEW run, runOf' = [runOf EXCEPT ![t] = run],
         NEW r, IsSession(r), r.task = t, r.run = run,
         file' = [file EXCEPT ![current] = r], UNCHANGED <<current, chosen>>, Waiting',
         \A s \in Sessions \ {current} :
           IsSession(file[s]) /\ file[s].task = t => t \notin Live \ chosen
  PROVE  IInv'
<1>1. Live' = Live /\ \A u \in Tasks : state[u] # "none" => state'[u] # "none"
  BY TasksStay
<1>2. t \in Tasks /\ t # None /\ state[t] # "none"
  BY ConsoleConstants DEF Live
<1>3. runOf'[t] = run /\ \A u \in Tasks : u # t => runOf'[u] = runOf[u]
  BY <1>2 DEF IInv, Bindings
<1>4. \A u \in Live \ chosen' : u # t => runOf'[u] = runOf[u]
  BY <1>3 DEF Live
<1> QED BY <1>1, <1>2, <1>3, <1>4, RecordStep

\* The task of a command that waits, and that its session is there.
LEMMA WaitingTask ==
  ASSUME IInv, at = "calling"
  PROVE  /\ call.task \in Live /\ call.task \in Tasks /\ IsSession(Me) /\ current \in Sessions
         /\ call.cmd # "delegate" => call.task = Me.task
BY DEF IInv, Shape, Waiting, Live

LEMMA DelegateReturnsStep ==
  ASSUME IInv, DelegateReturns
  PROVE  IInv'
<1> DEFINE me == Me
           t == call.task
           run == client.counted + 1
           set == [me EXCEPT !["task"] = t]
           r == [task |-> t, run |-> run, adapter |-> me.adapter, soft |-> me.soft]
           now == [state EXCEPT ![t] = "in_progress"]
<1>1. /\ at = "calling" /\ call.cmd = "delegate" /\ at' = "prompt" /\ UNCHANGED <<current, chosen>>
      /\ runOf' = [runOf EXCEPT ![t] = run]
      /\ file' = [file EXCEPT ![current].task = t, ![current].run = run]
  BY DEF DelegateReturns, Answered
<1>2. t \in Live /\ IsSession(me) /\ current \in Sessions
  BY <1>1, WaitingTask
<1>3. file' = [file EXCEPT ![current] = [set EXCEPT !["run"] = run]]
  BY <1>1, <1>2 DEF IInv, Shape, Me
<1> HIDE DEF me
<1>4. set = [task |-> t, run |-> me.run, adapter |-> me.adapter, soft |-> me.soft]
  BY <1>2, FieldSet
<1>5. IsSession(set)
  BY <1>4, Spelled
<1> HIDE DEF set
<1>6. [set EXCEPT !["run"] = run] = r
  <2>1. set.task = t /\ set.adapter = me.adapter /\ set.soft = me.soft
    BY <1>4
  <2>2. [set EXCEPT !["run"] = run] =
          [task |-> set.task, run |-> run, adapter |-> set.adapter, soft |-> set.soft]
    BY <1>5, FieldSet
  <2> QED BY <2>1, <2>2
<1>7. IsSession(r) /\ r.task = t /\ r.run = run
  BY Spelled
<1>8. Waiting'
  BY <1>1 DEF Waiting
<1>9. SameTasks
  <2>1. Synced(now, run)
    BY DEF DelegateReturns
  <2>2. now = [u \in Tasks |-> now[u]]
    BY DEF IInv, Bindings
  <2>3. \A u \in Tasks : now[u] = state[u] \/ (u \in Live /\ now[u] \notin {"none", "gone"})
    BY <1>2 DEF IInv, Bindings
  <2> HIDE DEF now
  <2> QED BY <2>1, <2>2, <2>3, SyncedStep
<1>10. \A s \in Sessions \ {current} :
         IsSession(file[s]) /\ file[s].task = t => t \notin Live \ chosen
  BY <1>1 DEF IInv, Waiting
<1>11. Bindings'
  BY <1>1, <1>2 DEF DelegateReturns, Synced, IInv, Bindings, Live
<1> HIDE DEF r, now, t, run
<1>12. file' = [file EXCEPT ![current] = r]
  BY <1>3, <1>6
<1> QED BY <1>1, <1>2, <1>12, <1>7, <1>8, <1>9, <1>10, <1>11, RunStep

LEMMA HandoffReturnsStep ==
  ASSUME IInv, HandoffReturns
  PROVE  IInv'
<1> DEFINE t == call.task
           run == client.counted + 1
<1>1. /\ at = "calling" /\ call.cmd # "delegate" /\ UNCHANGED <<current, chosen>>
      /\ runOf' = [runOf EXCEPT ![t] = run]
      /\ file' = SetMe("run", run)
      /\ at' = "prompt" \/ Waits("brief", t, {})
      /\ Synced(state, run) \/ UNCHANGED state
  BY DEF HandoffReturns
<1>2. t \in Live /\ IsSession(Me) /\ current \in Sessions /\ t = Me.task
  BY <1>1, WaitingTask
<1> HIDE DEF run
<1>3. PICK r : /\ IsSession(r) /\ file' = [file EXCEPT ![current] = r]
               /\ r.task = t /\ r.run = run
  BY <1>1, <1>2, MeSet
<1>4. file'[current] = r
  BY <1>2, <1>3 DEF IInv, Shape
<1>5. SameTasks
  <2>1. CASE UNCHANGED state
    BY <2>1 DEF SameTasks
  <2>2. CASE Synced(state, run)
    BY <2>2, SyncedStep DEF IInv, Bindings
  <2> QED BY <1>1, <2>1, <2>2
<1>6. Waiting'
  <2>1. Live' = Live
    BY <1>5, TasksStay
  <2> QED BY <1>1, <1>2, <1>3, <1>4, <2>1 DEF Waiting, Waits, Me
<1>7. \A s \in Sessions \ {current} :
        IsSession(file[s]) /\ file[s].task = t => t \notin Live \ chosen
  BY <1>2 DEF IInv, Owners, Me
<1>8. Bindings'
  BY <1>1, <1>2 DEF Synced, IInv, Bindings, Live
<1> QED BY <1>1, <1>2, <1>3, <1>5, <1>6, <1>7, <1>8, RunStep

LEMMA AmendReturnsStep ==
  ASSUME IInv, AmendReturns
  PROVE  IInv'
<1>1. /\ at = "calling" /\ at' = "prompt"
      /\ UNCHANGED <<current, runOf, chosen>>
      /\ file' = SetMe("soft", << >>) \/ file' = file
      /\ Synced(state, Me.run) \/ UNCHANGED state
  BY DEF AmendReturns, Answered
<1>2. Waiting' /\ Bindings'
  BY <1>1 DEF Waiting, IInv, Bindings, Synced
<1>3. SameTasks
  <2>1. CASE UNCHANGED state
    BY <2>1 DEF SameTasks
  <2>2. CASE Synced(state, Me.run)
    BY <2>2, SyncedStep DEF IInv, Bindings
  <2> QED BY <1>1, <2>1, <2>2
<1>4. CASE file' = file
  BY <1>1, <1>2, <1>3, <1>4, QuietStep
<1>5. CASE file' = SetMe("soft", << >>)
  BY <1>1, <1>2, <1>3, <1>5, BufferStep
<1> QED BY <1>1, <1>4, <1>5

\* InterruptReturns, ResolveReturns, Fail: the console reads the next line, or
\* has ended.
LEMMA DoneStep ==
  ASSUME IInv, InterruptReturns \/ ResolveReturns \/ Fail
  PROVE  IInv'
<1> DEFINE now == [state EXCEPT ![call.task] = "in_progress"]
<1>1. /\ at = "calling" /\ at' \in {"prompt", "down"}
      /\ UNCHANGED <<file, current, chosen, runOf>>
  BY DEF InterruptReturns, ResolveReturns, Fail, Answered, fileVars, taskVars, historyVars
<1>2. call.task \in Live /\ state = [t \in Tasks |-> state[t]]
  BY <1>1, WaitingTask DEF IInv, Bindings
<1>3. \/ UNCHANGED state \/ Synced(now, Me.run)
      \/ \E next \in {"blocked", "over"} : state' = [state EXCEPT ![call.task] = next]
  BY DEF InterruptReturns, ResolveReturns, Fail, taskVars
<1>4. SameTasks
  <2>1. CASE UNCHANGED state
    BY <2>1 DEF SameTasks
  <2>2. CASE Synced(now, Me.run)
    <3>1. now = [u \in Tasks |-> now[u]]
      BY <1>2
    <3>2. \A u \in Tasks : now[u] = state[u] \/ (u \in Live /\ now[u] \notin {"none", "gone"})
      BY <1>2
    <3> HIDE DEF now
    <3> QED BY <2>2, <3>1, <3>2, SyncedStep
  <2>3. CASE \E next \in {"blocked", "over"} : state' = [state EXCEPT ![call.task] = next]
    <3>1. \A u \in Tasks : state'[u] = state[u] \/ (u \in Live /\ state'[u] \notin {"none", "gone"})
      BY <1>2, <2>3
    <3> QED BY <3>1 DEF SameTasks, Live
  <2> QED BY <1>3, <2>1, <2>2, <2>3
<1>5. Waiting' /\ Bindings'
  BY <1>1, <1>2, <1>3 DEF Waiting, IInv, Bindings, Synced
<1> QED BY <1>1, <1>4, <1>5, QuietStep

\* CtrlC: the command's call is dropped, or gives way to an interrupt.
LEMMA CtrlCStep ==
  ASSUME IInv, CtrlC
  PROVE  IInv'
<1>1. at = "calling" /\ UNCHANGED <<file, current, chosen, runOf, state>>
  BY DEF CtrlC, Interrupt, fileVars, taskVars, historyVars
<1>2. CASE Interrupt("seize")
  <2>1. /\ Me.task \in Live /\ Waits("seize", Me.task, {})
    BY <1>2, WorkingTask DEF Interrupt, Calls
  <2> QED BY <1>1, <2>1, CallsStep
<1>3. CASE at' \in {"prompt", "down"}
  BY <1>1, <1>3, QuietStep DEF Waiting, SameTasks, IInv, Bindings
<1> QED BY <1>2, <1>3 DEF CtrlC

\* Start: the bindings are gone with the tasks; the session file is not.
LEMMA StartStep ==
  ASSUME IInv, NEW s \in Sessions, NEW adapter, Start(s, adapter)
  PROVE  IInv'
<1>1. /\ at' = "prompt" /\ current' = s
      /\ file' = IF file[s] = Absent THEN [file EXCEPT ![s] = Fresh(adapter)] ELSE file
      /\ runOf' = [t \in Tasks |-> None]
      /\ state' = [t \in Tasks |-> IF t \in Live THEN "gone" ELSE state[t]]
  BY DEF Start
<1>2. IsSession(Fresh(adapter)) /\ Fresh(adapter).run = None /\ Fresh(adapter).task = None
  BY FreshSession
<1>3. /\ file[s] # Absent => file' = file
      /\ file[s] = Absent => file'[s] = Fresh(adapter)
      /\ \A q \in Sessions \ {s} : file'[q] = file[q]
  BY <1>1 DEF IInv, Shape
<1>4. Live' = {} /\ \A t \in Tasks : state[t] # "none" => state'[t] # "none"
  BY <1>1 DEF Live
<1>5. Shape'
  BY <1>1, <1>2, <1>3 DEF IInv, Shape, Me
<1>6. SessionRuns'
  <2> SUFFICES ASSUME NEW q \in Sessions, IsSession(file'[q])
               PROVE  Follows(file[q])'
    BY DEF SessionRuns
  <2> DEFINE f == file'[q]
  <2>1. /\ f.task = None => f.run = None
        /\ f.task \in Tasks => state'[f.task] # "none"
    <3>1. CASE q = s /\ file[s] = Absent
      BY <1>2, <1>3, <3>1, ConsoleConstants
    <3>2. CASE file'[q] = file[q]
      BY <1>4, <3>2 DEF IInv, SessionRuns, Follows
    <3> QED BY <1>3, <3>1, <3>2
  <2> HIDE DEF f
  <2> QED BY <1>4, <2>1 DEF Follows, f
<1>7. Owners' /\ Bindings' /\ Waiting'
  BY <1>1, <1>4 DEF Owners, Bindings, Waiting
<1> QED BY <1>5, <1>6, <1>7 DEF IInv
-----------------------------------------------------------------------------
\* IInv is inductive.
LEMMA IInvInit == Init => IInv
<1> SUFFICES ASSUME Init PROVE IInv
  OBVIOUS
<1>1. PICK adapter \in Adapters, s \in Sessions :
        current = s /\ file = [q \in Sessions |-> IF q = s THEN Fresh(adapter) ELSE Absent]
  BY DEF Init
<1>2. IsSession(Fresh(adapter)) /\ Fresh(adapter).run = None /\ Fresh(adapter).task = None
  BY FreshSession
<1>3. Shape
  BY <1>1, <1>2 DEF Shape, Me
<1>4. Live = {}
  BY DEF Init, Live
<1>5. SessionRuns
  BY <1>1, <1>2, <1>4, SessionIsThere, ConsoleConstants DEF SessionRuns, Follows
<1>6. Bindings /\ Waiting /\ Owners
  BY <1>4 DEF Init, Bindings, Waiting, Owners
<1> QED BY <1>3, <1>5, <1>6 DEF IInv

LEMMA IInvStep ==
  ASSUME IInv, [Next]_vars
  PROVE  IInv'
<1>1. CASE UNCHANGED vars
  <2>1. UNCHANGED <<file, current, at, call, runOf, state, chosen>>
    BY <1>1 DEF vars, fileVars, taskVars, historyVars
  <2>2. Waiting' /\ Bindings'
    BY <2>1 DEF IInv, Waiting, Bindings, Live, Me
  <2> QED BY <2>1, <2>2, QuietStep DEF SameTasks
<1>2. CASE Command
  <2>1. CASE \E t \in Tasks : Prompt(t) \/ Use(t)
    BY <2>1, PromptStep, UseStep
  <2>2. CASE Amend \/ Promote \/ Resolve \/ (Ready /\ Interrupt("interrupt"))
    BY <2>2, AskStep
  <2>3. CASE SoftLine \/ StaleLine
    BY <2>3, SoftStep
  <2>4. CASE \E s \in Sessions : NewSession(s) \/ ResumeSession(s)
    BY <2>4, NewSessionStep, ResumeStep
  <2>5. CASE Model \/ Leave \/ Handoff
    BY <2>5, ModelStep, LeaveStep, HandoffStep
  <2>6. CASE \E adapter \in Adapters : SwitchAdapter(adapter)
    BY <2>6, SwitchStep
  <2>7. CASE \E next \in {"in_progress", "over"} : Review(next)
    BY <2>7, ReviewStep
  <2> QED BY <1>2, <2>1, <2>2, <2>3, <2>4, <2>5, <2>6, <2>7 DEF Command
<1>3. CASE Return
  BY <1>3, DelegateReturnsStep, AmendReturnsStep, HandoffReturnsStep, DoneStep DEF Return
<1>4. CASE Fail \/ CtrlC
  BY <1>4, DoneStep, CtrlCStep
<1>5. CASE \E s \in Sessions, adapter \in Adapters : Start(s, adapter)
  BY <1>5, StartStep
<1> QED BY <1>1, <1>2, <1>3, <1>4, <1>5 DEF Next

\* Every session follows the run that its task is bound to, unless the task was
\* taken over with /use, through forks, handoffs, switches of the adapter,
\* failures, Ctrl+C and restarts.
THEOREM SessionFollowsItsRun == Spec => []FollowsBoundRun
<1>1. IInv => FollowsBoundRun
  BY DEF IInv, Shape, SessionRuns, Follows, FollowsBoundRun
<1> QED BY <1>1, IInvInit, IInvStep, PTL DEF Spec
-----------------------------------------------------------------------------
(* Types.  A run is started, or a briefing sent, by a command that made sure *)
(* of room for the run, or of a run to brief, before it called the adapter. *)

FileTyped ==
  /\ file \in [Sessions -> Session \cup {Absent}]
  /\ current \in Sessions

CallTyped ==
  /\ at = "calling" <=> call # Idle
  /\ at \in {"prompt", "calling", "down"} /\ call \in Call

TasksTyped ==
  /\ client \in Client
  /\ state \in [Tasks -> TaskStates]
  /\ runOf \in [Tasks -> Runs \cup {None}]
  /\ told \in [Tasks -> Seq(SUBSET Soft)]

HistoryTyped ==
  /\ entered \in SUBSET Soft /\ withdrawn \subseteq entered
  /\ faults \in 0 .. MaxFaults
  /\ chosen \cup informed \cup switched \subseteq Tasks

\* The commands whose answer is a new run.
StartsRun == {"delegate", "handoff", "same", "cross"}

WaitsWithRoom ==
  at = "calling" =>
    /\ call.cmd \in StartsRun => client.counted < MaxRuns
    /\ call.cmd # "delegate" => runOf[call.task] # None

\* A task that is worked on has a run.
WorkHasRun ==
  \A t \in Tasks : state[t] \in {"in_progress", "blocked", "review_ready"} => runOf[t] # None

TInv == FileTyped /\ CallTyped /\ TasksTyped /\ HistoryTyped /\ WaitsWithRoom /\ WorkHasRun

LEMMA SessionTyped ==
  ASSUME NEW t \in Tasks \cup {None}, NEW run \in 0 .. MaxRuns, NEW adapter \in Adapters,
         NEW soft \in Seq(Soft)
  PROVE  [task |-> t, run |-> run, adapter |-> adapter, soft |-> soft] \in Session
BY DEF Session

\* A record with fields of the right types is a session's.
LEMMA RecordTyped ==
  ASSUME NEW r, IsSession(r), r.task \in Tasks \cup {None}, r.run \in 0 .. MaxRuns,
         r.adapter \in Adapters, r.soft \in Seq(Soft)
  PROVE  r \in Session
<1> DEFINE a == r.task
           b == r.run
           c == r.adapter
           d == r.soft
<1>1. r = [task |-> a, run |-> b, adapter |-> c, soft |-> d]
  BY DEF IsSession
<1>2. a \in Tasks \cup {None} /\ b \in 0 .. MaxRuns /\ c \in Adapters /\ d \in Seq(Soft)
  OBVIOUS
<1> HIDE DEF a, b, c, d
<1> QED BY <1>1, <1>2, SessionTyped

LEMMA SessionFields ==
  ASSUME NEW r \in Session
  PROVE  /\ r.task \in Tasks \cup {None} /\ r.run \in 0 .. MaxRuns
         /\ r.adapter \in Adapters /\ r.soft \in Seq(Soft)
BY DEF Session

LEMMA SavedTyped ==
  ASSUME TInv, NEW s \in Sessions, IsSession(file[s])
  PROVE  file[s] \in Session
BY SessionIsThere DEF TInv, FileTyped

LEMMA FreshTyped ==
  ASSUME NEW adapter \in Adapters
  PROVE  Fresh(adapter) \in Session /\ Fresh(adapter).soft = << >>
<1>1. None \in 0 .. MaxRuns
  BY ConsoleBounds DEF None
<1> QED BY <1>1, EmptySeq DEF Fresh, Session

\* A session's record is replaced.
LEMMA FileSet ==
  ASSUME TInv, NEW s \in Sessions, NEW r \in Session \cup {Absent},
         file' = [file EXCEPT ![s] = r], current' \in Sessions
  PROVE  FileTyped' /\ file'[s] = r /\ \A q \in Sessions \ {s} : file'[q] = file[q]
BY DEF TInv, FileTyped

\* What happens to the command that waits.
LEMMA CallTypes ==
  ASSUME TInv,
         \/ UNCHANGED <<at, call>>
         \/ \E cmd \in Commands, t \in Tasks, merged \in SUBSET Soft : Waits(cmd, t, merged)
         \/ at' \in {"prompt", "down"} /\ call' = Idle
         \/ at # "calling" /\ at' \in {"prompt", "down"} /\ call' = call
  PROVE  CallTyped'
<1>1. CASE \E cmd \in Commands, t \in Tasks, merged \in SUBSET Soft : Waits(cmd, t, merged)
  <2>1. PICK cmd \in Commands, t \in Tasks, merged \in SUBSET Soft : Waits(cmd, t, merged)
    BY <1>1
  <2>2. call' \in Call /\ call'.cmd = cmd
    BY <2>1 DEF Waits, Call
  <2>3. call' # Idle
    BY <2>2 DEF Idle, Commands
  <2> QED BY <2>1, <2>2, <2>3 DEF Waits, CallTyped
<1>2. CASE UNCHANGED <<at, call>>
  BY <1>2 DEF TInv, CallTyped
<1>3. CASE at' \in {"prompt", "down"} /\ call' = Idle
  BY <1>3 DEF CallTyped, Call
<1>4. CASE at # "calling" /\ at' \in {"prompt", "down"} /\ call' = call
  BY <1>4 DEF TInv, CallTyped
<1> QED BY <1>1, <1>2, <1>3, <1>4

\* The fields of the command that waits.
LEMMA WaitingCall ==
  ASSUME TInv, at = "calling"
  PROVE  call.cmd \in Commands /\ call.task \in Tasks /\ call.merged \in SUBSET Soft
BY DEF TInv, CallTyped, Call

\* A step that leaves tasks, runs and what is recorded of them alone.
LEMMA TypesQuiet ==
  ASSUME TInv, FileTyped', CallTyped', WaitsWithRoom',
         client' = client \/ client' \in Client,
         UNCHANGED <<taskVars, entered, informed, switched>>,
         withdrawn' \subseteq entered, chosen' \subseteq Tasks, faults' \in 0 .. MaxFaults
  PROVE  TInv'
BY DEF TInv, TasksTyped, HistoryTyped, WorkHasRun, taskVars

\* A client that is new, or is told of a run it did not know.
LEMMA NewClientTyped ==
  ASSUME NEW adapter \in Adapters
  PROVE  NewClient(adapter) \in Client
BY ConsoleBounds DEF NewClient, Client

LEMMA KnownTyped ==
  ASSUME NEW c \in Client, NEW t \in Tasks
  PROVE  Known(c, t) \in Client /\ Known(c, t).counted = c.counted
<1> DEFINE runs == [run \in Runs |-> IF run = runOf[t] /\ c.runs[run] = None THEN t ELSE c.runs[run]]
<1>1. runs \in [Runs -> Tasks \cup {None}]
  BY DEF Client
<1>2. Known(c, t) = [c EXCEPT !.runs = runs]
  BY DEF Known
<1> HIDE DEF runs
<1> QED BY <1>1, <1>2 DEF Client

LEMMA PromptTypes ==
  ASSUME IInv, TInv, NEW t \in Tasks, Prompt(t)
  PROVE  TInv'
<1>1. /\ Waits("delegate", t, {}) /\ client.counted < MaxRuns
      /\ state' = [state EXCEPT ![t] = "created"]
      /\ UNCHANGED <<file, current, client, runOf, told,
                     entered, withdrawn, chosen, informed, switched, faults>>
  BY DEF Prompt, fileVars, historyVars
<1>2. CallTyped'
  BY <1>1, CallTypes DEF Commands
<1>3. WaitsWithRoom'
  BY <1>1 DEF WaitsWithRoom, Waits, StartsRun
<1>4. WorkHasRun' /\ state' \in [Tasks -> TaskStates]
  BY <1>1 DEF TInv, WorkHasRun, TasksTyped, TaskStates
<1> QED BY <1>1, <1>2, <1>3, <1>4 DEF TInv, FileTyped, TasksTyped, HistoryTyped

\* The command waits about a task that has a run.
LEMMA AskTypes ==
  ASSUME IInv, TInv, NEW cmd \in Commands \ StartsRun, NEW t \in Tasks, NEW merged \in SUBSET Soft,
         Waits(cmd, t, merged), runOf[t] # None, FileTyped',
         UNCHANGED <<taskVars, entered, withdrawn, informed, switched>>,
         client' = client \/ client' \in Client,
         chosen' \subseteq Tasks, faults' \in 0 .. MaxFaults
  PROVE  TInv'
<1>1. CallTyped'
  BY CallTypes
<1>2. WaitsWithRoom'
  BY DEF WaitsWithRoom, Waits, taskVars, StartsRun
<1>3. withdrawn' \subseteq entered
  BY DEF TInv, HistoryTyped
<1> QED BY <1>1, <1>2, <1>3, TypesQuiet

\* What /promote sends was entered.
LEMMA MergedTyped ==
  ASSUME TInv, IsSession(Me)
  PROVE  Me.soft \in Seq(Soft) /\ Merge(Me.soft) \subseteq Soft
<1>1. Me.soft \in Seq(Soft)
  BY SavedTyped, SessionFields DEF TInv, FileTyped, Me
<1>2. \A i \in DOMAIN Me.soft : Me.soft[i] \in Soft
  BY <1>1
<1> QED BY <1>1, <1>2 DEF Merge, Range

LEMMA WorkingHasRun ==
  ASSUME TInv, NEW states, Working(states), states \subseteq {"in_progress", "blocked", "review_ready"}
  PROVE  Me.task \in Tasks /\ runOf[Me.task] # None
BY WorkingTask DEF TInv, WorkHasRun, Working

\* Amend, Promote, Resolve, Interrupt
LEMMA AsksTypes ==
  ASSUME IInv, TInv, Amend \/ Promote \/ Resolve \/ (Ready /\ Interrupt("interrupt") /\ UNCHANGED faults)
  PROVE  TInv'
<1>1. IsSession(Me)
  BY DEF Amend, Promote, Resolve, Ready, IInv, Shape
<1>2. Me.task \in Tasks /\ runOf[Me.task] # None
  BY WorkingHasRun DEF Amend, Promote, Resolve, Interrupt
<1>3. /\ UNCHANGED <<taskVars, entered, withdrawn, chosen, informed, switched, faults>>
      /\ UNCHANGED <<file, current>>
  BY DEF Amend, Promote, Resolve, Interrupt, fileVars, historyVars
<1>4. \E cmd \in Commands \ StartsRun, merged \in SUBSET Soft :
        Waits(cmd, Me.task, merged) /\ client' = Known(client, Me.task)
  BY <1>1, MergedTyped DEF Amend, Promote, Resolve, Interrupt, Calls, Commands, StartsRun
<1>5. FileTyped' /\ chosen' \subseteq Tasks /\ faults' \in 0 .. MaxFaults
  BY <1>3 DEF TInv, FileTyped, HistoryTyped
<1>6. client' \in Client
  BY <1>2, <1>4, KnownTyped DEF TInv, TasksTyped
<1> QED BY <1>2, <1>3, <1>4, <1>5, <1>6, AskTypes

\* A command of the prompt that calls no adapter and changes the session file.
LEMMA LineTypes ==
  ASSUME TInv, at = "prompt", FileTyped', at' \in {"prompt", "down"}, call' = call,
         client' = client \/ client' \in Client,
         UNCHANGED <<taskVars, entered, informed, switched, faults>>,
         withdrawn' \subseteq entered, chosen' \subseteq Tasks
  PROVE  TInv'
<1>1. CallTyped'
  BY CallTypes
<1>2. WaitsWithRoom' /\ faults' \in 0 .. MaxFaults
  BY DEF WaitsWithRoom, TInv, HistoryTyped
<1> QED BY <1>1, <1>2, TypesQuiet

\* The record that replaces the session's after an assignment to one field.
LEMMA RecordSet ==
  ASSUME IInv, TInv, IsSession(Me), NEW x, NEW field \in {"task", "run", "adapter", "soft"},
         file' = SetMe(field, x), field = "adapter" => x \in Adapters,
         field = "task" => x \in Tasks \cup {None}, field = "run" => x \in 0 .. MaxRuns,
         field = "soft" => x \in Seq(Soft)
  PROVE  \E r \in Session : /\ IsSession(r) /\ file' = [file EXCEPT ![current] = r]
                            /\ r.soft = IF field = "soft" THEN x ELSE Me.soft
<1>1. Me \in Session
  BY SavedTyped DEF TInv, FileTyped, Me
<1>2. PICK r : /\ IsSession(r) /\ file' = [file EXCEPT ![current] = r]
               /\ r.task = IF field = "task" THEN x ELSE Me.task
               /\ r.run = IF field = "run" THEN x ELSE Me.run
               /\ r.soft = IF field = "soft" THEN x ELSE Me.soft
               /\ r.adapter = IF field = "adapter" THEN x ELSE Me.adapter
  BY MeSet
<1>3. r \in Session
  BY <1>1, <1>2, SessionFields, RecordTyped
<1> QED BY <1>2, <1>3

\* A sequence with one more element, and without its last.
LEMMA AppendRange ==
  ASSUME NEW S, NEW soft \in Seq(S), NEW e \in S
  PROVE  Append(soft, e) \in Seq(S) /\ Range(Append(soft, e)) = Range(soft) \cup {e}
<1>1. /\ Append(soft, e) \in Seq(S) /\ Len(Append(soft, e)) = Len(soft) + 1
      /\ \A i \in 1 .. Len(soft) : Append(soft, e)[i] = soft[i]
      /\ Append(soft, e)[Len(soft) + 1] = e
      /\ Len(soft) \in Nat
  BY AppendProperties, LenProperties
<1>2. DOMAIN Append(soft, e) = 1 .. Len(soft) + 1 /\ DOMAIN soft = 1 .. Len(soft)
  BY <1>1
<1> QED BY <1>1, <1>2 DEF Range

LEMMA FrontRange ==
  ASSUME NEW S, NEW soft \in Seq(S), soft # << >>
  PROVE  Front(soft) \in Seq(S) /\ Range(Front(soft)) \subseteq Range(soft)
<1> DEFINE n == Len(soft)
           front == Front(soft)
<1>1. n \in Int /\ n > 0 /\ DOMAIN soft = 1 .. n /\ \A i \in 1 .. n : soft[i] \in S
  BY EmptySeq, LenProperties
<1>2. front = SubSeq(soft, 1, n - 1)
  BY DEF Front
<1>3. \A i \in 1 .. n - 1 : soft[i] \in S
  BY <1>1
<1>4. /\ front \in Seq(S) /\ Len(front) = IF 1 <= n - 1 THEN n - 1 - 1 + 1 ELSE 0
      /\ \A i \in 1 .. n - 1 - 1 + 1 : front[i] = soft[i + 1 - 1]
  BY <1>1, <1>2, <1>3, SubSeqProperties
<1>5. DOMAIN front = 1 .. Len(front)
  BY <1>4, LenProperties
<1> HIDE DEF n, front
<1>6. Len(front) = n - 1
  BY <1>1, <1>4
<1>7. \A i \in 1 .. n - 1 : front[i] = soft[i] /\ i \in 1 .. n
  BY <1>1, <1>4
<1>8. Range(front) \subseteq Range(soft)
  BY <1>1, <1>5, <1>6, <1>7 DEF Range
<1> QED BY <1>4, <1>8 DEF front

\* What is left in the buffer is a part of it.
LEMMA TakenBack ==
  ASSUME IInv, TInv, at = "prompt", NEW rest,
         Withdraw(rest), rest = << >> \/ (Me.soft # << >> /\ rest = Front(Me.soft))
  PROVE  IsSession(Me) /\ rest \in Seq(Soft) /\ Range(rest) \subseteq Range(Me.soft)
<1>1. IsSession(Me)
  BY DEF IInv, Shape
<1>2. Me.soft \in Seq(Soft)
  BY <1>1, MergedTyped
<1>3. CASE rest = << >>
  <2>1. << >> \in Seq(Soft) /\ Range(<< >>) = {}
    BY EmptySeq DEF Range
  <2> QED BY <1>1, <1>3, <2>1
<1>4. CASE Me.soft # << >> /\ rest = Front(Me.soft)
  BY <1>1, <1>2, <1>4, FrontRange
<1> QED BY <1>3, <1>4

\* The entry that is added.
LEMMA AddedSoft ==
  ASSUME IInv, TInv, IsFiniteSet(entered), NEW text \in Texts, NEW confident \in BOOLEAN,
         at = "prompt", Enter(text, confident)
  PROVE  /\ IsSession(Me) /\ Me.soft \in Seq(Soft)
         /\ \E entry \in Soft :
              /\ entry.n = Cardinality(entered) + 1
              /\ file' = SetMe("soft", Append(Me.soft, entry))
              /\ entered' = entered \cup {entry}
<1> DEFINE entry == [n |-> Cardinality(entered) + 1, text |-> text, confident |-> confident]
<1>1. /\ entry.n <= MaxSoft
      /\ file' = SetMe("soft", Append(Me.soft, entry))
      /\ entered' = entered \cup {entry}
  BY DEF Enter
<1>2. IsSession(Me)
  BY DEF IInv, Shape
<1>3. Cardinality(entered) \in Nat
  BY FS_CardinalityType
<1>4. entry \in Soft /\ entry.n = Cardinality(entered) + 1
  BY <1>1, <1>3, ConsoleBounds DEF Soft
<1> QED BY <1>1, <1>2, <1>4, MergedTyped

\* A line that changes the buffer keeps the types of the file and the history.
LEMMA BufferTypes ==
  ASSUME IInv, TInv, IsFiniteSet(entered), at = "prompt", EditBuffer, current' = current,
         \A e \in Range(Me.soft) : e \in entered
  PROVE  FileTyped' /\ entered' \in SUBSET Soft /\ withdrawn' \subseteq entered'
<1>1. /\ entered \in SUBSET Soft /\ withdrawn \subseteq entered /\ current' \in Sessions
      /\ current \in Sessions
  BY DEF TInv, HistoryTyped, FileTyped
<1>2. ASSUME NEW soft \in Seq(Soft), file' = SetMe("soft", soft)
      PROVE  FileTyped'
  <2>1. IsSession(Me)
    BY DEF IInv, Shape
  <2>2. PICK r \in Session : file' = [file EXCEPT ![current] = r]
    BY <1>2, <2>1, RecordSet
  <2> QED BY <1>1, <2>2, FileSet
<1>3. ASSUME NEW text \in Texts, NEW confident \in BOOLEAN, Enter(text, confident)
      PROVE  FileTyped' /\ entered' \in SUBSET Soft /\ withdrawn' \subseteq entered'
  <2>1. Me.soft \in Seq(Soft)
    BY <1>3, AddedSoft
  <2>2. PICK entry \in Soft : /\ file' = SetMe("soft", Append(Me.soft, entry))
                              /\ entered' = entered \cup {entry}
    BY <1>3, AddedSoft
  <2>3. Append(Me.soft, entry) \in Seq(Soft) /\ withdrawn' = withdrawn
    BY <1>3, <2>1, AppendRange DEF Enter
  <2>4. FileTyped'
    BY <1>2, <2>2, <2>3
  <2> QED BY <1>1, <2>2, <2>3, <2>4
<1>4. ASSUME NEW rest, Withdraw(rest), rest = << >> \/ (Me.soft # << >> /\ rest = Front(Me.soft))
      PROVE  FileTyped' /\ entered' \in SUBSET Soft /\ withdrawn' \subseteq entered'
  <2>1. rest \in Seq(Soft)
    BY <1>4, TakenBack
  <2>2. /\ file' = SetMe("soft", rest) /\ entered' = entered
        /\ withdrawn' = withdrawn \cup (Range(Me.soft) \ Range(rest))
    BY <1>4 DEF Withdraw
  <2>3. FileTyped'
    BY <1>2, <2>1, <2>2
  <2> QED BY <1>1, <2>2, <2>3
<1> QED BY <1>3, <1>4 DEF EditBuffer

\* SoftLine and StaleLine
LEMMA SoftLineTypes ==
  ASSUME IInv, TInv, IsFiniteSet(entered), SoftLine \/ StaleLine,
         \A e \in Range(Me.soft) : e \in entered
  PROVE  TInv'
<1>1. /\ at = "prompt" /\ at' \in {"prompt", "down"} /\ call' = call
      /\ UNCHANGED <<current, client, taskVars, chosen, informed, switched, faults>>
      /\ \/ EditBuffer \/ UNCHANGED <<file, entered, withdrawn>>
         \/ /\ \E target \in Adapters : file' = SetMe("adapter", target)
            /\ UNCHANGED <<entered, withdrawn>>
  BY DEF SoftLine, StaleLine, Ready, AfterLine
<1>2. FileTyped' /\ entered' \in SUBSET Soft /\ withdrawn' \subseteq entered'
  <2>1. CASE EditBuffer
    BY <1>1, <2>1, BufferTypes
  <2>2. CASE UNCHANGED <<file, entered, withdrawn>>
    BY <1>1, <2>2 DEF TInv, FileTyped, HistoryTyped
  <2>3. ASSUME NEW target \in Adapters, file' = SetMe("adapter", target), UNCHANGED <<entered, withdrawn>>
        PROVE  FileTyped' /\ entered' \in SUBSET Soft /\ withdrawn' \subseteq entered'
    <3>1. IsSession(Me) /\ current \in Sessions
      BY <1>1 DEF IInv, Shape
    <3>2. PICK r \in Session : file' = [file EXCEPT ![current] = r]
      BY <2>3, <3>1, RecordSet
    <3>3. FileTyped'
      BY <1>1, <3>1, <3>2, FileSet
    <3> QED BY <2>3, <3>3 DEF TInv, HistoryTyped
  <2> QED BY <1>1, <2>1, <2>2, <2>3
<1>3. CallTyped'
  BY <1>1, CallTypes
<1>4. TasksTyped' /\ WaitsWithRoom' /\ WorkHasRun'
  BY <1>1 DEF TInv, TasksTyped, WaitsWithRoom, WorkHasRun, taskVars
<1>5. HistoryTyped'
  BY <1>1, <1>2 DEF TInv, HistoryTyped
<1> QED BY <1>2, <1>3, <1>4, <1>5 DEF TInv

LEMMA NewSessionTypes ==
  ASSUME IInv, TInv, NEW s \in Sessions, NewSession(s)
  PROVE  TInv'
<1>1. /\ at = "prompt" /\ current' = s /\ file' = [file EXCEPT ![s] = Fresh(Me.adapter)]
      /\ UNCHANGED <<at, call, client, taskVars, entered, withdrawn, chosen, informed, switched, faults>>
  BY DEF NewSession, historyVars
<1>2. IsSession(Me)
  BY <1>1 DEF IInv, Shape
<1>3. Me \in Session
  BY <1>2, SavedTyped DEF TInv, FileTyped, Me
<1>4. Fresh(Me.adapter) \in Session
  BY <1>3, SessionFields, FreshTyped
<1>5. FileTyped'
  BY <1>1, <1>4, FileSet
<1> QED BY <1>1, <1>5, LineTypes DEF TInv, HistoryTyped

\* ResumeSession and Model
LEMMA LinesTypes ==
  ASSUME IInv, TInv, (\E s \in Sessions : ResumeSession(s)) \/ Model
  PROVE  TInv'
<1>1. /\ at = "prompt" /\ at' \in {"prompt", "down"} /\ call' = call
      /\ current' \in Sessions /\ file' = file
      /\ UNCHANGED <<taskVars, entered, withdrawn, chosen, informed, switched, faults>>
  BY DEF ResumeSession, Model, Ready, AfterLine, fileVars, historyVars, TInv, FileTyped
<1>2. FileTyped'
  BY <1>1 DEF TInv, FileTyped
<1>3. client' = client \/ client' \in Client
  <2>1. CASE Model
    <3>1. IsSession(Me)
      BY <1>1 DEF IInv, Shape
    <3>2. Me.adapter \in Adapters
      BY <3>1, SavedTyped, SessionFields DEF TInv, FileTyped, Me
    <3> QED BY <2>1, <3>2, NewClientTyped DEF Model
  <2> QED BY <2>1 DEF ResumeSession
<1> QED BY <1>1, <1>2, <1>3, LineTypes DEF TInv, HistoryTyped

LEMMA LeaveTypes ==
  ASSUME IInv, TInv, Leave, \A e \in Range(Me.soft) : e \in entered
  PROVE  TInv'
<1>1. /\ at = "prompt" /\ at' = "down" /\ current' = current
      /\ UNCHANGED <<call, client, taskVars, entered, informed, switched, faults>>
      /\ file' = file \/ file' = [file EXCEPT ![current] = Absent]
      /\ withdrawn' \subseteq entered /\ chosen' \subseteq Tasks
  BY DEF Leave, TInv, HistoryTyped
<1>2. FileTyped'
  BY <1>1 DEF TInv, FileTyped
<1> QED BY <1>1, <1>2, LineTypes

LEMMA ReviewTypes ==
  ASSUME IInv, TInv, NEW next \in {"in_progress", "over"}, Review(next)
  PROVE  TInv'
<1>1. /\ at = "prompt" /\ Me.task \in Tasks /\ runOf[Me.task] # None
      /\ state' = [state EXCEPT ![Me.task] = next]
      /\ UNCHANGED <<file, current, at, call, client, runOf, told,
                     entered, withdrawn, chosen, informed, switched, faults>>
  BY WorkingHasRun DEF Review, Ready, fileVars, historyVars
<1>2. state' \in [Tasks -> TaskStates] /\ WorkHasRun'
  BY <1>1 DEF TInv, TasksTyped, TaskStates, WorkHasRun
<1>3. CallTyped'
  BY <1>1, CallTypes
<1> QED BY <1>1, <1>2, <1>3 DEF TInv, FileTyped, TasksTyped, HistoryTyped, WaitsWithRoom

\* The records that Use, Handoff, SwitchAdapter and the answers of the adapter
\* put for the session's leave its buffer alone.
Touches(r) == /\ IsSession(Me) /\ IsSession(r) /\ r.soft = Me.soft
              /\ file' = [file EXCEPT ![current] = r]

LEMMA UseRecord ==
  ASSUME IInv, TInv, NEW t \in Tasks, Use(t)
  PROVE  \E r \in Session : Touches(r)
<1>1. IsSession(Me) /\ file' = SetMe("task", t)
  BY DEF Use, Ready, IInv, Shape
<1> QED BY <1>1, RecordSet DEF Touches

LEMMA HandoffRecord ==
  ASSUME IInv, TInv, Handoff, runOf[Me.task] = None
  PROVE  \E r \in Session : Touches(r)
<1>1. IsSession(Me) /\ file' = SetMe("run", None)
  BY DEF Handoff, Ready, IInv, Shape
<1>2. None \in 0 .. MaxRuns
  BY ConsoleBounds DEF None
<1> QED BY <1>1, <1>2, RecordSet DEF Touches

\* A preference, and with it a run, assigned to the session.
LEMMA AdapterSet ==
  ASSUME IInv, TInv, IsSession(Me), NEW target \in Adapters, NEW run \in 0 .. MaxRuns,
         \/ file' = [file EXCEPT ![current].adapter = target]
         \/ file' = [[file EXCEPT ![current].adapter = target] EXCEPT ![current].run = run]
  PROVE  \E r \in Session : Touches(r)
<1> DEFINE me == Me
           set == [me EXCEPT !["adapter"] = target]
           both == [set EXCEPT !["run"] = run]
           switch == [file EXCEPT ![current].adapter = target]
<1>1. me \in Session /\ current \in Sessions /\ IsSession(me)
  BY SavedTyped DEF TInv, FileTyped, Me
<1>2. switch = [file EXCEPT ![current] = set] /\ switch[current] = set
  BY <1>1 DEF Me, IInv, Shape
<1>3. [switch EXCEPT ![current].run = run] = [file EXCEPT ![current] = both]
  BY <1>1, <1>2 DEF IInv, Shape
<1> HIDE DEF me
<1>4. set = [task |-> me.task, run |-> me.run, adapter |-> target, soft |-> me.soft]
  BY <1>1, FieldSet
<1>5. IsSession(set) /\ set.task = me.task /\ set.run = me.run /\ set.adapter = target
      /\ set.soft = me.soft
  BY <1>4, Spelled
<1> HIDE DEF set
<1>6. both = [task |-> set.task, run |-> run, adapter |-> set.adapter, soft |-> set.soft]
  BY <1>5, FieldSet
<1>7. IsSession(both) /\ both.task = me.task /\ both.run = run /\ both.adapter = target
      /\ both.soft = me.soft
  BY <1>5, <1>6, Spelled
<1> HIDE DEF both
<1>8. /\ me.task \in Tasks \cup {None} /\ me.run \in 0 .. MaxRuns /\ me.soft \in Seq(Soft)
  BY <1>1, SessionFields
<1>9. set \in Session /\ both \in Session
  BY <1>5, <1>7, <1>8, RecordTyped
<1> QED BY <1>2, <1>3, <1>5, <1>7, <1>9 DEF Touches, me

LEMMA SwitchRecord ==
  ASSUME IInv, TInv, NEW target \in Adapters, SwitchAdapter(target)
  PROVE  \E r \in Session : Touches(r)
<1>1. IsSession(Me)
  BY DEF SwitchAdapter, Ready, IInv, Shape
<1>2. Working(TaskStates \ {"over"}) => runOf[Me.task] \in 0 .. MaxRuns
  BY WorkingTask, ConsoleBounds DEF TInv, TasksTyped, Runs, None
<1>3. Me.run \in 0 .. MaxRuns
  BY <1>1, SavedTyped, SessionFields DEF TInv, FileTyped, Me
<1>4. CASE file' = [file EXCEPT ![current].adapter = target]
  BY <1>1, <1>3, <1>4, AdapterSet
<1>5. CASE /\ Working(TaskStates \ {"over"})
           /\ file' = [[file EXCEPT ![current].adapter = target] EXCEPT ![current].run = runOf[Me.task]]
  BY <1>1, <1>2, <1>5, AdapterSet
<1> QED BY <1>4, <1>5 DEF SwitchAdapter

\* The run that an answer starts.
LEMMA NewRun ==
  ASSUME IInv, TInv, at = "calling", call.cmd \in StartsRun
  PROVE  client.counted \in Nat /\ client.counted + 1 \in Runs /\ client.counted + 1 \in 0 .. MaxRuns
<1>1. client.counted \in 0 .. MaxRuns /\ client.counted < MaxRuns
  BY DEF TInv, TasksTyped, WaitsWithRoom, Client
<1> QED BY <1>1, ConsoleBounds DEF Runs

LEMMA DelegateRecord ==
  ASSUME IInv, TInv, DelegateReturns
  PROVE  \E r \in Session : Touches(r)
<1> DEFINE me == Me
           t == call.task
           run == client.counted + 1
           set == [me EXCEPT !["task"] = t]
           both == [set EXCEPT !["run"] = run]
<1>1. /\ at = "calling" /\ call.cmd \in StartsRun
      /\ file' = [file EXCEPT ![current].task = t, ![current].run = run]
  BY DEF DelegateReturns, Answered, StartsRun
<1>2. t \in Tasks /\ IsSession(me) /\ current \in Sessions /\ run \in 0 .. MaxRuns
  BY <1>1, WaitingTask, NewRun
<1>3. me \in Session
  BY <1>2, SavedTyped DEF Me
<1>4. file' = [file EXCEPT ![current] = both]
  BY <1>1, <1>2 DEF IInv, Shape, Me
<1> HIDE DEF me, t, run
<1>5. set = [task |-> t, run |-> me.run, adapter |-> me.adapter, soft |-> me.soft]
  BY <1>2, FieldSet
<1>6. IsSession(set) /\ set.task = t /\ set.adapter = me.adapter /\ set.soft = me.soft
  BY <1>5, Spelled
<1> HIDE DEF set
<1>7. both = [task |-> set.task, run |-> run, adapter |-> set.adapter, soft |-> set.soft]
  BY <1>6, FieldSet
<1>8. IsSession(both) /\ both.task = t /\ both.run = run /\ both.adapter = me.adapter
      /\ both.soft = me.soft
  BY <1>6, <1>7, Spelled
<1> HIDE DEF both
<1>9. both \in Session
  BY <1>2, <1>3, <1>8, SessionFields, RecordTyped
<1> QED BY <1>2, <1>4, <1>8, <1>9 DEF Touches, me

LEMMA HandoffReturnsRecord ==
  ASSUME IInv, TInv, HandoffReturns
  PROVE  \E r \in Session : Touches(r)
<1>1. /\ at = "calling" /\ call.cmd \in StartsRun
      /\ file' = SetMe("run", client.counted + 1)
  BY DEF HandoffReturns, StartsRun
<1>2. IsSession(Me) /\ client.counted + 1 \in 0 .. MaxRuns
  BY <1>1, WaitingTask, NewRun
<1> QED BY <1>1, <1>2, RecordSet DEF Touches

LEMMA TouchedFile ==
  ASSUME TInv, NEW r \in Session, Touches(r), current' = current
  PROVE  FileTyped'
BY FileSet DEF TInv, FileTyped, Touches

LEMMA UseTypes ==
  ASSUME IInv, TInv, NEW t \in Tasks, Use(t)
  PROVE  TInv'
<1>1. /\ at = "prompt" /\ chosen' \subseteq chosen \cup {t}
      /\ UNCHANGED <<current, at, call, client, taskVars, entered, withdrawn, informed, switched, faults>>
  BY DEF Use, Ready
<1>2. FileTyped'
  BY <1>1, UseRecord, TouchedFile
<1>3. chosen' \subseteq Tasks /\ withdrawn' \subseteq entered
  BY <1>1 DEF TInv, HistoryTyped
<1> QED BY <1>1, <1>2, <1>3, LineTypes

\* A command of a session waits, and its answer is a new run.
LEMMA StartTypes ==
  ASSUME IInv, TInv, NEW cmd \in StartsRun, NEW t \in Tasks, Waits(cmd, t, {}),
         runOf[t] # None, client'.counted < MaxRuns,
         FileTyped', UNCHANGED <<taskVars, entered, withdrawn, chosen, informed, switched, faults>>,
         client' = client \/ client' \in Client
  PROVE  TInv'
<1>1. CallTyped'
  BY CallTypes DEF Commands, StartsRun
<1>2. WaitsWithRoom'
  BY DEF WaitsWithRoom, Waits, taskVars
<1>3. withdrawn' \subseteq entered /\ chosen' \subseteq Tasks /\ faults' \in 0 .. MaxFaults
  BY DEF TInv, HistoryTyped
<1> QED BY <1>1, <1>2, <1>3, TypesQuiet

LEMMA HandoffTypes ==
  ASSUME IInv, TInv, Handoff
  PROVE  TInv'
<1>1. /\ at = "prompt" /\ Me.task \in Tasks
      /\ UNCHANGED <<current, taskVars, entered, withdrawn, chosen, informed, switched, faults>>
  BY WorkingTask DEF Handoff, Ready, taskVars, historyVars
<1>2. CASE runOf[Me.task] # None
  <2>1. /\ client.counted < MaxRuns /\ Waits("handoff", Me.task, {}) /\ UNCHANGED file
        /\ client' = Known(client, Me.task)
    BY <1>2 DEF Handoff, Calls
  <2>2. FileTyped'
    BY <1>1, <2>1 DEF TInv, FileTyped
  <2>3. client' \in Client /\ client'.counted = client.counted
    BY <1>1, <2>1, KnownTyped DEF TInv, TasksTyped
  <2> QED BY <1>1, <1>2, <2>1, <2>2, <2>3, StartTypes DEF StartsRun
<1>3. CASE runOf[Me.task] = None
  <2>1. UNCHANGED <<at, call, client>>
    BY <1>3 DEF Handoff
  <2>2. FileTyped'
    BY <1>1, <1>3, HandoffRecord, TouchedFile
  <2> QED BY <1>1, <2>1, <2>2, LineTypes DEF TInv, HistoryTyped
<1> QED BY <1>2, <1>3

LEMMA SwitchTypes ==
  ASSUME IInv, TInv, NEW target \in Adapters, SwitchAdapter(target)
  PROVE  TInv'
<1> DEFINE asks == client' = Known(NewClient(target), Me.task)
<1>1. /\ at = "prompt"
      /\ UNCHANGED <<current, taskVars, entered, withdrawn, chosen, informed, switched, faults>>
  BY DEF SwitchAdapter, Ready, historyVars
<1>2. FileTyped'
  BY <1>1, SwitchRecord, TouchedFile
<1>3. chosen' \subseteq Tasks /\ withdrawn' \subseteq entered /\ faults' \in 0 .. MaxFaults
  BY <1>1 DEF TInv, HistoryTyped
<1>4. CASE UNCHANGED <<at, call>> /\ client' = NewClient(target)
  BY <1>1, <1>2, <1>3, <1>4, NewClientTyped, LineTypes
<1>5. ASSUME Me.task \in Tasks, asks
      PROVE  client' \in Client /\ client'.counted = 0
  <2>1. NewClient(target) \in Client /\ NewClient(target).counted = 0
    BY NewClientTyped DEF NewClient
  <2> QED BY <1>5, <2>1, KnownTyped
<1>6. CASE /\ Working(TaskStates \ {"over"}) /\ runOf[Me.task] # None /\ asks
           /\ \E cmd \in {"cross", "same"} : Waits(cmd, Me.task, {})
  <2>1. Me.task \in Tasks
    BY <1>6, WorkingTask
  <2>2. client' \in Client /\ client'.counted < MaxRuns
    <3>1. runOf[Me.task] \in Runs
      BY <1>6, <2>1 DEF TInv, TasksTyped
    <3>2. 0 < MaxRuns
      BY <3>1, ConsoleBounds DEF Runs
    <3> QED BY <1>5, <1>6, <2>1, <3>2
  <2> QED BY <1>1, <1>2, <1>6, <2>1, <2>2, StartTypes DEF StartsRun
<1>7. CASE Working({"in_progress", "blocked"}) /\ Waits("brief", Me.task, {}) /\ asks
  <2>1. Me.task \in Tasks /\ runOf[Me.task] # None
    BY <1>7, WorkingHasRun
  <2> QED BY <1>1, <1>2, <1>3, <1>5, <1>7, <2>1, AskTypes DEF Commands, StartsRun
<1> QED BY <1>4, <1>6, <1>7 DEF SwitchAdapter

\* project_harness_events: a task that works goes on, waits or delivers.
LEMMA SyncedTypes ==
  ASSUME NEW now, NEW run, Synced(now, run), now \in [Tasks -> TaskStates],
         \A t \in Tasks : now[t] \in {"in_progress", "blocked", "review_ready"} => runOf'[t] # None
  PROVE  state' \in [Tasks -> TaskStates] /\ WorkHasRun'
<1>1. PICK next \in {"in_progress", "blocked", "review_ready"} :
        state' = [t \in Tasks |-> IF /\ now[t] = "in_progress" /\ run # None /\ client'.runs[run] = t
                                  THEN next ELSE now[t]]
  BY DEF Synced
<1>2. \A t \in Tasks : \/ state'[t] = now[t]
                       \/ now[t] = "in_progress" /\ state'[t] = next
  BY <1>1
<1>3. \A t \in Tasks : state'[t] \in TaskStates
  BY <1>1, <1>2 DEF TaskStates
<1>4. state' \in [Tasks -> TaskStates]
  BY <1>1, <1>3
<1>5. WorkHasRun'
  BY <1>2 DEF WorkHasRun
<1> QED BY <1>4, <1>5

\* A new run for task t, which the client has for a task or for none.
LEMMA NewRunTypes ==
  ASSUME TInv, NEW run \in Runs, NEW t \in Tasks, NEW owner \in Tasks \cup {None},
         runOf' = [runOf EXCEPT ![t] = run],
         client' = [client EXCEPT !.counted = run, !.runs[run] = owner, !.knows = @ \cup {run}],
         told' = told, state' \in [Tasks -> TaskStates]
  PROVE  TasksTyped' /\ runOf'[t] # None /\ \A u \in Tasks \ {t} : runOf'[u] = runOf[u]
<1>1. runOf'[t] = run /\ \A u \in Tasks \ {t} : runOf'[u] = runOf[u]
  BY DEF TInv, TasksTyped
<1>2. runOf' \in [Tasks -> Runs \cup {None}]
  BY DEF TInv, TasksTyped
<1>3. client' \in Client
  <2>1. client \in Client
    BY DEF TInv, TasksTyped
  <2>2. run \in 0 .. MaxRuns /\ client.knows \cup {run} \in SUBSET Runs
    BY <2>1, ConsoleBounds DEF Client, Runs
  <2>3. [client.runs EXCEPT ![run] = owner] \in [Runs -> Tasks \cup {None}]
    BY <2>1 DEF Client
  <2> QED BY <2>1, <2>2, <2>3 DEF Client
<1>4. run # None
  BY ConsoleBounds DEF None, Runs
<1> QED BY <1>1, <1>2, <1>3, <1>4 DEF TInv, TasksTyped

LEMMA DelegateReturnsTypes ==
  ASSUME IInv, TInv, DelegateReturns
  PROVE  TInv'
<1> DEFINE t == call.task
           run == client.counted + 1
           now == [state EXCEPT ![t] = "in_progress"]
<1>1. /\ at = "calling" /\ at' = "prompt" /\ call' = Idle /\ call.cmd \in StartsRun
      /\ runOf' = [runOf EXCEPT ![t] = run]
      /\ client' = [client EXCEPT !.counted = run, !.runs[run] = t, !.knows = @ \cup {run}]
      /\ informed' = informed \cup {t}
      /\ Synced(now, run)
      /\ UNCHANGED <<current, told, entered, withdrawn, chosen, switched, faults>>
  BY DEF DelegateReturns, Answered, StartsRun
<1>2. t \in Tasks /\ run \in Runs
  BY <1>1, WaitingTask, NewRun
<1>3. runOf'[t] # None /\ \A u \in Tasks \ {t} : runOf'[u] = runOf[u]
  BY <1>1, <1>2, ConsoleBounds DEF TInv, TasksTyped, None, Runs
<1>4. state' \in [Tasks -> TaskStates] /\ WorkHasRun'
  <2>1. now \in [Tasks -> TaskStates] /\ \A u \in Tasks \ {t} : now[u] = state[u]
    BY <1>2 DEF TInv, TasksTyped, TaskStates
  <2>2. \A u \in Tasks : now[u] \in {"in_progress", "blocked", "review_ready"} => runOf'[u] # None
    BY <1>3, <2>1 DEF TInv, WorkHasRun
  <2> HIDE DEF now, run
  <2> QED BY <1>1, <2>1, <2>2, SyncedTypes
<1> HIDE DEF run, now
<1>5. TasksTyped'
  BY <1>1, <1>2, <1>4, NewRunTypes
<1>6. HistoryTyped'
  BY <1>1, <1>2 DEF TInv, HistoryTyped
<1>7. FileTyped'
  BY <1>1, DelegateRecord, TouchedFile
<1>8. CallTyped' /\ WaitsWithRoom'
  BY <1>1, CallTypes DEF WaitsWithRoom
<1> QED BY <1>4, <1>5, <1>6, <1>7, <1>8 DEF TInv

LEMMA HandoffReturnsTypes ==
  ASSUME IInv, TInv, HandoffReturns
  PROVE  TInv'
<1> DEFINE t == call.task
           run == client.counted + 1
           owner == client.runs[runOf[t]]
<1>1. /\ at = "calling" /\ call.cmd \in StartsRun /\ call.cmd # "delegate"
      /\ runOf' = [runOf EXCEPT ![t] = run]
      /\ client' = [client EXCEPT !.counted = run, !.runs[run] = owner, !.knows = @ \cup {run}]
      /\ informed' \subseteq informed \cup {t} /\ switched' \subseteq switched \cup {t}
      /\ Waits("brief", t, {}) \/ (at' = "prompt" /\ call' = Idle)
      /\ Synced(state, run) \/ UNCHANGED state
      /\ UNCHANGED <<current, told, entered, withdrawn, chosen, faults>>
  BY DEF HandoffReturns, StartsRun
<1>2. t \in Tasks /\ run \in Runs
  BY <1>1, WaitingTask, NewRun
<1>3. owner \in Tasks \cup {None}
  BY <1>1, <1>2 DEF TInv, WaitsWithRoom, TasksTyped, Client
<1>4. runOf'[t] # None /\ \A u \in Tasks \ {t} : runOf'[u] = runOf[u]
  BY <1>1, <1>2, ConsoleBounds DEF TInv, TasksTyped, None, Runs
<1>5. state' \in [Tasks -> TaskStates] /\ WorkHasRun'
  <2>1. \A u \in Tasks : state[u] \in {"in_progress", "blocked", "review_ready"} => runOf'[u] # None
    BY <1>4 DEF TInv, WorkHasRun
  <2>2. CASE Synced(state, run)
    BY <2>1, <2>2, SyncedTypes DEF TInv, TasksTyped
  <2>3. CASE UNCHANGED state
    BY <2>1, <2>3 DEF TInv, TasksTyped, WorkHasRun
  <2> QED BY <1>1, <2>2, <2>3
<1> HIDE DEF run, owner
<1>6. TasksTyped'
  BY <1>1, <1>2, <1>3, <1>5, NewRunTypes
<1>7. HistoryTyped'
  BY <1>1, <1>2 DEF TInv, HistoryTyped
<1>8. FileTyped'
  BY <1>1, HandoffReturnsRecord, TouchedFile
<1>9. CallTyped'
  BY <1>1, <1>2, CallTypes DEF Commands
<1>10. WaitsWithRoom'
  BY <1>1, <1>4 DEF WaitsWithRoom, Waits, StartsRun
<1> QED BY <1>5, <1>6, <1>7, <1>8, <1>9, <1>10 DEF TInv

LEMMA AmendReturnsTypes ==
  ASSUME IInv, TInv, AmendReturns
  PROVE  TInv'
<1> DEFINE t == call.task
<1>1. /\ at = "calling" /\ at' = "prompt" /\ call' = Idle /\ call.cmd \notin StartsRun
      /\ call.cmd # "delegate"
      /\ told' = [told EXCEPT ![t] = Append(@, call.merged)] \/ told' = told
      /\ file' = SetMe("soft", << >>) \/ file' = file
      /\ informed' \subseteq informed \cup {t} /\ switched' \subseteq switched \cup {t}
      /\ Synced(state, Me.run) \/ UNCHANGED state
      /\ UNCHANGED <<current, client, runOf, entered, withdrawn, chosen, faults>>
  BY DEF AmendReturns, Answered, StartsRun
<1>2. t \in Tasks /\ call.merged \in SUBSET Soft /\ IsSession(Me)
  BY <1>1, WaitingTask, WaitingCall
<1>4. FileTyped'
  <2>1. CASE file' = file
    BY <1>1, <2>1 DEF TInv, FileTyped
  <2>2. CASE file' = SetMe("soft", << >>)
    <3>1. << >> \in Seq(Soft)
      BY EmptySeq
    <3>2. PICK r \in Session : file' = [file EXCEPT ![current] = r]
      BY <1>2, <2>2, <3>1, RecordSet
    <3> QED BY <1>1, <3>2, FileSet DEF TInv, FileTyped
  <2> QED BY <1>1, <2>1, <2>2
<1>5. state' \in [Tasks -> TaskStates] /\ WorkHasRun'
  <2>1. CASE Synced(state, Me.run)
    BY <1>1, <2>1, SyncedTypes DEF TInv, TasksTyped, WorkHasRun
  <2>2. CASE UNCHANGED state
    BY <1>1, <2>2 DEF TInv, TasksTyped, WorkHasRun
  <2> QED BY <1>1, <2>1, <2>2
<1>6. told' \in [Tasks -> Seq(SUBSET Soft)]
  <2>1. told[t] \in Seq(SUBSET Soft)
    BY <1>2 DEF TInv, TasksTyped
  <2>2. Append(told[t], call.merged) \in Seq(SUBSET Soft)
    BY <1>2, <2>1, AppendProperties
  <2> QED BY <1>1, <1>2, <2>2 DEF TInv, TasksTyped
<1>7. TasksTyped'
  BY <1>1, <1>5, <1>6 DEF TInv, TasksTyped
<1>8. HistoryTyped'
  BY <1>1, <1>2 DEF TInv, HistoryTyped
<1>9. CallTyped' /\ WaitsWithRoom'
  BY <1>1, CallTypes DEF WaitsWithRoom
<1> QED BY <1>4, <1>5, <1>7, <1>8, <1>9 DEF TInv

\* InterruptReturns and ResolveReturns
LEMMA AnswersTypes ==
  ASSUME IInv, TInv, InterruptReturns \/ ResolveReturns
  PROVE  TInv'
<1> DEFINE t == call.task
<1>1. /\ at = "calling" /\ at' = "prompt" /\ call' = Idle /\ call.cmd # "delegate"
      /\ UNCHANGED <<file, current, client, runOf, told,
                     entered, withdrawn, chosen, informed, switched, faults>>
  BY DEF InterruptReturns, ResolveReturns, Answered, StartsRun, fileVars, historyVars
<1>2. t \in Tasks /\ runOf[t] # None
  BY <1>1, WaitingTask DEF TInv, WaitsWithRoom
<1>3. state' \in [Tasks -> TaskStates] /\ WorkHasRun'
  <2>1. CASE Synced([state EXCEPT ![t] = "in_progress"], Me.run)
    <3> DEFINE now == [state EXCEPT ![t] = "in_progress"]
    <3>1. now \in [Tasks -> TaskStates] /\ \A u \in Tasks \ {t} : now[u] = state[u]
      BY <1>2 DEF TInv, TasksTyped, TaskStates
    <3>2. \A u \in Tasks : now[u] \in {"in_progress", "blocked", "review_ready"} => runOf'[u] # None
      BY <1>1, <1>2, <3>1 DEF TInv, WorkHasRun
    <3>3. Synced(now, Me.run)
      BY <2>1
    <3> HIDE DEF now
    <3> QED BY <3>1, <3>2, <3>3, SyncedTypes
  <2>2. CASE \E next \in {"blocked", "over"} : state' = [state EXCEPT ![t] = next]
    BY <1>1, <1>2, <2>2 DEF TInv, TasksTyped, TaskStates, WorkHasRun
  <2> QED BY <2>1, <2>2 DEF InterruptReturns, ResolveReturns
<1>4. CallTyped' /\ WaitsWithRoom'
  BY <1>1, CallTypes DEF WaitsWithRoom
<1> QED BY <1>1, <1>3, <1>4 DEF TInv, FileTyped, TasksTyped, HistoryTyped

\* Fail and CtrlC
LEMMA CutTypes ==
  ASSUME IInv, TInv, Fail \/ CtrlC
  PROVE  TInv'
<1>1. /\ at = "calling" /\ faults' = faults + 1 /\ faults < MaxFaults
      /\ UNCHANGED <<file, current, taskVars, entered, withdrawn, chosen, informed, switched>>
  BY DEF Fail, CtrlC, Interrupt, fileVars, historyVars
<1>2. FileTyped' /\ faults' \in 0 .. MaxFaults /\ withdrawn' \subseteq entered /\ chosen' \subseteq Tasks
  BY <1>1, ConsoleBounds DEF TInv, FileTyped, HistoryTyped
<1>3. CASE at' \in {"prompt", "down"} /\ call' = Idle /\ client' = client
  <2>1. CallTyped' /\ WaitsWithRoom'
    BY <1>3, CallTypes DEF WaitsWithRoom
  <2> QED BY <1>1, <1>2, <1>3, <2>1, TypesQuiet
<1>4. CASE Interrupt("seize")
  <2>1. /\ Me.task \in Tasks /\ runOf[Me.task] # None /\ Waits("seize", Me.task, {})
        /\ client' = Known(client, Me.task)
    BY <1>4, WorkingHasRun DEF Interrupt, Calls
  <2>2. client' \in Client
    BY <2>1, KnownTyped DEF TInv, TasksTyped
  <2> QED BY <1>1, <1>2, <2>1, <2>2, AskTypes DEF Commands, StartsRun
<1> QED BY <1>3, <1>4 DEF Fail, CtrlC

LEMMA RestartTypes ==
  ASSUME IInv, TInv, NEW s \in Sessions, NEW adapter \in Adapters, Start(s, adapter)
  PROVE  TInv'
<1>1. /\ at = "down" /\ at' = "prompt" /\ call' = call /\ current' = s
      /\ faults' = faults + 1 /\ faults < MaxFaults
      /\ file' = file \/ file' = [file EXCEPT ![s] = Fresh(adapter)]
      /\ client' = NewClient(adapter)
      /\ state' = [t \in Tasks |-> IF t \in Live THEN "gone" ELSE state[t]]
      /\ runOf' = [t \in Tasks |-> None] /\ chosen' = {}
      /\ UNCHANGED <<told, entered, withdrawn, informed, switched>>
  BY DEF Start
<1>2. FileTyped'
  <2>1. CASE file' = file
    BY <1>1, <2>1 DEF TInv, FileTyped
  <2>2. CASE file' = [file EXCEPT ![s] = Fresh(adapter)]
    BY <1>1, <2>2, FreshTyped, FileSet
  <2> QED BY <1>1, <2>1, <2>2
<1>3. CallTyped' /\ WaitsWithRoom'
  BY <1>1, CallTypes DEF WaitsWithRoom
<1>4. state' \in [Tasks -> TaskStates] /\ WorkHasRun'
  BY <1>1 DEF TInv, TasksTyped, TaskStates, WorkHasRun, Live
<1>5. TasksTyped'
  <2>1. runOf' \in [Tasks -> Runs \cup {None}]
    BY <1>1
  <2>2. client' \in Client
    BY <1>1, NewClientTyped
  <2> QED BY <1>1, <1>4, <2>1, <2>2 DEF TInv, TasksTyped
<1>6. HistoryTyped'
  BY <1>1, ConsoleBounds DEF TInv, HistoryTyped
<1> QED BY <1>2, <1>3, <1>4, <1>5, <1>6 DEF TInv

LEMMA TInvInit == Init => TInv
<1> SUFFICES ASSUME Init PROVE TInv
  OBVIOUS
<1>1. PICK adapter \in Adapters, s \in Sessions :
        /\ current = s /\ file = [q \in Sessions |-> IF q = s THEN Fresh(adapter) ELSE Absent]
        /\ client = NewClient(adapter)
  BY DEF Init
<1>2. FileTyped
  BY <1>1, FreshTyped DEF FileTyped
<1>3. CallTyped /\ WaitsWithRoom
  BY DEF Init, CallTyped, WaitsWithRoom, Call
<1>4. TasksTyped
  <2>1. client \in Client
    BY <1>1, NewClientTyped
  <2>2. told \in [Tasks -> Seq(SUBSET Soft)]
    BY EmptySeq DEF Init
  <2>3. runOf \in [Tasks -> Runs \cup {None}] /\ state \in [Tasks -> TaskStates]
    BY DEF Init, TaskStates
  <2> QED BY <1>1, <2>1, <2>2, <2>3, ConsoleBounds DEF TasksTyped
<1>5. HistoryTyped /\ WorkHasRun
  BY ConsoleBounds DEF Init, HistoryTyped, WorkHasRun
<1> QED BY <1>2, <1>3, <1>4, <1>5 DEF TInv
-----------------------------------------------------------------------------
(* Soft controls.  Each is in one buffer or in one amendment, or was taken   *)
(* back; /promote moves those that wait, and nothing else takes them out of  *)
(* a buffer without the user's word.                                         *)

Buffer(s) == IF IsSession(file[s]) THEN Range(file[s].soft) ELSE {}

\* The places in the logs of the tasks that carry entry e.
Carries(e, t, i) == i \in DOMAIN told[t] /\ e \in told[t][i]

\* A new entry gets a number of its own.
Numbered == IsFiniteSet(entered) /\ \A e \in entered : e.n <= Cardinality(entered)

\* /promote sends what waits in the buffer, and clears it only with the answer.
WaitsMerged ==
  at = "calling" => call.merged = IF call.cmd = "promote" THEN Merge(Me.soft) ELSE {}

AllEntered ==
  /\ \A s \in Sessions : Buffer(s) \subseteq entered
  /\ \A e, t, i : t \in Tasks /\ Carries(e, t, i) => e \in entered

OnePlace ==
  /\ \A s, q \in Sessions : s # q => Buffer(s) \cap Buffer(q) = {}
  /\ \A s \in Sessions, t \in Tasks : \A e, i : e \in Buffer(s) => ~Carries(e, t, i)
  /\ \A e, i, j : \A t, u \in Tasks : Carries(e, t, i) /\ Carries(e, u, j) => t = u /\ i = j

Kept ==
  \A e \in entered \ withdrawn :
    e.confident => \/ \E s \in Sessions : e \in Buffer(s)
                   \/ \E t \in Tasks : \E i : Carries(e, t, i)

SoftInv == Numbered /\ WaitsMerged /\ AllEntered /\ OnePlace /\ Kept

\* The session's buffer, whose record is replaced.
LEMMA BufferSet ==
  ASSUME IInv, NEW s \in Sessions, NEW r, IsSession(r), file' = [file EXCEPT ![s] = r]
  PROVE  \A q \in Sessions : Buffer(q)' = IF q = s THEN Range(r.soft) ELSE Buffer(q)
BY DEF IInv, Shape, Buffer

LEMMA MyBuffer ==
  ASSUME IInv, IsSession(Me)
  PROVE  current \in Sessions /\ Buffer(current) = Range(Me.soft)
BY DEF IInv, Shape, Buffer, Me

\* A step that takes nothing out of a buffer but what the user took back.
LEMMA LessStep ==
  ASSUME SoftInv, WaitsMerged', UNCHANGED <<told, entered>>, withdrawn \subseteq withdrawn',
         \A s \in Sessions : /\ Buffer(s)' \subseteq Buffer(s)
                             /\ Buffer(s) \ Buffer(s)' \subseteq withdrawn'
  PROVE  SoftInv'
<1>1. \A e, t, i : Carries(e, t, i)' <=> Carries(e, t, i)
  BY DEF Carries
<1>2. Numbered' /\ AllEntered'
  BY <1>1 DEF SoftInv, Numbered, AllEntered
<1>3. OnePlace'
  BY <1>1 DEF SoftInv, OnePlace
<1>4. Kept'
  BY <1>1 DEF SoftInv, Kept
<1> QED BY <1>2, <1>3, <1>4 DEF SoftInv

LEMMA SameBuffers ==
  ASSUME SoftInv, WaitsMerged', UNCHANGED <<told, entered, withdrawn>>,
         \A s \in Sessions : Buffer(s)' = Buffer(s)
  PROVE  SoftInv'
BY LessStep

\* A step that leaves the session file alone.
LEMMA SameFile ==
  ASSUME SoftInv, WaitsMerged', UNCHANGED <<file, told, entered, withdrawn>>
  PROVE  SoftInv'
BY SameBuffers DEF Buffer

\* A step that replaces the session's record and leaves its buffer alone.
LEMMA TouchSoft ==
  ASSUME IInv, SoftInv, NEW r, Touches(r), WaitsMerged', UNCHANGED <<told, entered, withdrawn>>
  PROVE  SoftInv'
<1>1. current \in Sessions /\ Buffer(current) = Range(Me.soft)
  BY MyBuffer DEF Touches
<1>2. \A s \in Sessions : Buffer(s)' = Buffer(s)
  BY <1>1, BufferSet DEF Touches
<1> QED BY <1>2, SameBuffers

\* The buffer of a session that starts is empty.
LEMMA FreshBuffer ==
  ASSUME IInv, SoftInv, NEW s \in Sessions, NEW adapter, file[s] = Absent,
         file' = [file EXCEPT ![s] = Fresh(adapter)], WaitsMerged',
         UNCHANGED <<told, entered, withdrawn>>
  PROVE  SoftInv'
<1>1. Range(Fresh(adapter).soft) = {}
  BY DEF Fresh, Range
<1>2. Buffer(s) = {}
  BY SessionIsThere DEF Buffer
<1>3. \A q \in Sessions : Buffer(q)' = Buffer(q)
  BY <1>1, <1>2, FreshSession, BufferSet
<1> QED BY <1>3, SameBuffers

\* A line enters a control: the entry is new.
LEMMA EnterStep ==
  ASSUME IInv, TInv, SoftInv, NEW text \in Texts, NEW confident \in BOOLEAN,
         at = "prompt", Enter(text, confident), WaitsMerged', UNCHANGED told
  PROVE  SoftInv'
<1>1. IsFiniteSet(entered) /\ Cardinality(entered) \in Nat
  BY FS_CardinalityType DEF SoftInv, Numbered
<1>2. /\ IsSession(Me) /\ Me.soft \in Seq(Soft)
      /\ current \in Sessions /\ Buffer(current) = Range(Me.soft)
  BY <1>1, AddedSoft, MyBuffer
<1>3. PICK entry \in Soft : /\ entry.n = Cardinality(entered) + 1
                            /\ file' = SetMe("soft", Append(Me.soft, entry))
                            /\ entered' = entered \cup {entry}
  BY <1>1, AddedSoft
<1>4. UNCHANGED <<told, withdrawn>>
  BY DEF Enter
<1>5. \A e \in entered : e.n \in Nat /\ e.n <= Cardinality(entered)
  BY DEF SoftInv, Numbered, TInv, HistoryTyped, Soft
<1>6. entry \notin entered
  BY <1>1, <1>3, <1>5
<1>7. Append(Me.soft, entry) \in Seq(Soft) /\ Range(Append(Me.soft, entry)) = Range(Me.soft) \cup {entry}
  BY <1>2, AppendRange
<1>8. PICK r \in Session : /\ IsSession(r) /\ file' = [file EXCEPT ![current] = r]
                           /\ r.soft = Append(Me.soft, entry)
  BY <1>2, <1>3, <1>7, RecordSet
<1>9. \A s \in Sessions :
        Buffer(s)' = IF s = current THEN Buffer(s) \cup {entry} ELSE Buffer(s)
  BY <1>2, <1>7, <1>8, BufferSet
<1>10. \A e, t, i : Carries(e, t, i)' <=> Carries(e, t, i)
  BY <1>4 DEF Carries
<1>11. Numbered'
  <2>1. IsFiniteSet(entered') /\ Cardinality(entered') = Cardinality(entered) + 1
    BY <1>1, <1>3, <1>6, FS_AddElement
  <2>2. \A e \in entered' : e.n <= Cardinality(entered')
    BY <1>1, <1>3, <1>5, <2>1
  <2> QED BY <2>1, <2>2 DEF Numbered
<1>12. AllEntered'
  BY <1>3, <1>9, <1>10 DEF SoftInv, AllEntered
<1>13. OnePlace'
  BY <1>2, <1>6, <1>9, <1>10 DEF SoftInv, AllEntered, OnePlace
<1>14. Kept'
  BY <1>2, <1>3, <1>4, <1>9, <1>10 DEF SoftInv, Kept
<1> QED BY <1>11, <1>12, <1>13, <1>14 DEF SoftInv

\* A line takes controls back: what is no longer in the buffer is withdrawn.
LEMMA WithdrawStep ==
  ASSUME IInv, TInv, SoftInv, at = "prompt", NEW rest, Withdraw(rest),
         rest = << >> \/ (Me.soft # << >> /\ rest = Front(Me.soft)),
         WaitsMerged', UNCHANGED told
  PROVE  SoftInv'
<1>1. /\ IsSession(Me) /\ current \in Sessions /\ Buffer(current) = Range(Me.soft)
      /\ rest \in Seq(Soft) /\ Range(rest) \subseteq Range(Me.soft)
  BY TakenBack, MyBuffer
<1>2. /\ file' = SetMe("soft", rest)
      /\ withdrawn' = withdrawn \cup (Range(Me.soft) \ Range(rest))
      /\ UNCHANGED <<told, entered>>
  BY DEF Withdraw
<1>3. PICK r \in Session : /\ IsSession(r) /\ file' = [file EXCEPT ![current] = r]
                           /\ r.soft = rest
  BY <1>1, <1>2, RecordSet
<1>4. \A s \in Sessions : Buffer(s)' = IF s = current THEN Range(rest) ELSE Buffer(s)
  BY <1>1, <1>3, BufferSet
<1>5. \A s \in Sessions : /\ Buffer(s)' \subseteq Buffer(s)
                          /\ Buffer(s) \ Buffer(s)' \subseteq withdrawn'
  BY <1>1, <1>2, <1>4
<1> QED BY <1>2, <1>5, LessStep

\* SoftLine and StaleLine
LEMMA SoftLineSoft ==
  ASSUME IInv, TInv, SoftInv, SoftLine \/ StaleLine
  PROVE  SoftInv'
<1>1. /\ at = "prompt" /\ at' \in {"prompt", "down"} /\ UNCHANGED told
      /\ \/ EditBuffer \/ UNCHANGED <<file, entered, withdrawn>>
         \/ /\ \E target \in Adapters : file' = SetMe("adapter", target)
            /\ UNCHANGED <<entered, withdrawn>>
  BY DEF SoftLine, StaleLine, Ready, AfterLine, taskVars
<1>2. WaitsMerged'
  BY <1>1 DEF WaitsMerged
<1>3. CASE EditBuffer
  <2>1. CASE \E text \in Texts, confident \in BOOLEAN : Enter(text, confident)
    BY <1>1, <1>2, <2>1, EnterStep
  <2>2. CASE Me.soft # << >> /\ Withdraw(Front(Me.soft))
    BY <1>1, <1>2, <2>2, WithdrawStep
  <2>3. CASE Withdraw(<< >>)
    BY <1>1, <1>2, <2>3, WithdrawStep
  <2> QED BY <1>3, <2>1, <2>2, <2>3 DEF EditBuffer
<1>4. CASE UNCHANGED <<file, entered, withdrawn>>
  BY <1>1, <1>2, <1>4, SameFile
<1>5. ASSUME NEW target \in Adapters, file' = SetMe("adapter", target), UNCHANGED <<entered, withdrawn>>
      PROVE  SoftInv'
  <2>1. IsSession(Me)
    BY <1>1 DEF IInv, Shape
  <2>2. PICK r \in Session : Touches(r)
    BY <1>5, <2>1, RecordSet DEF Touches
  <2> QED BY <1>1, <1>2, <1>5, <2>2, TouchSoft
<1> QED BY <1>1, <1>3, <1>4, <1>5

\* Leave: with the session its buffer is deleted.
LEMMA LeaveSoft ==
  ASSUME IInv, SoftInv, Leave
  PROVE  SoftInv'
<1>1. at' = "down" /\ UNCHANGED <<current, told, entered>>
  BY DEF Leave, taskVars
<1>2. WaitsMerged'
  BY <1>1 DEF WaitsMerged
<1>3. CASE UNCHANGED <<file, withdrawn>>
  BY <1>1, <1>2, <1>3, SameFile
<1>4. CASE file' = [file EXCEPT ![current] = Absent] /\ withdrawn' = withdrawn \cup Range(Me.soft)
  <2>1. IsSession(Me)
    BY DEF Leave, IInv, Shape
  <2>2. current \in Sessions /\ Buffer(current) = Range(Me.soft)
    BY <2>1, MyBuffer
  <2>3. file'[current] = Absent /\ \A s \in Sessions \ {current} : file'[s] = file[s]
    BY <1>4, <2>2 DEF IInv, Shape
  <2>4. \A s \in Sessions : Buffer(s)' = IF s = current THEN {} ELSE Buffer(s)
    BY <2>3, SessionIsThere DEF Buffer
  <2>5. \A s \in Sessions : /\ Buffer(s)' \subseteq Buffer(s)
                            /\ Buffer(s) \ Buffer(s)' \subseteq withdrawn'
    BY <1>4, <2>2, <2>4
  <2> QED BY <1>1, <1>2, <1>4, <2>5, LessStep
<1> QED BY <1>3, <1>4 DEF Leave

\* AmendReturns for /promote: what waited and was confident is in the new entry of
\* the log, and leaves the buffer with it.
LEMMA PromotedSoft ==
  ASSUME IInv, TInv, SoftInv, AmendReturns, call.cmd = "promote"
  PROVE  SoftInv'
<1> DEFINE t == call.task
           m == call.merged
           new == Len(told[t]) + 1
<1>1. /\ at = "calling" /\ at' = "prompt" /\ UNCHANGED <<current, entered, withdrawn>>
      /\ told' = [told EXCEPT ![t] = Append(@, m)]
      /\ file' = SetMe("soft", << >>)
  BY DEF AmendReturns, Answered
<1>2. /\ t \in Tasks /\ IsSession(Me) /\ current \in Sessions /\ m \in SUBSET Soft
      /\ Buffer(current) = Range(Me.soft)
  BY <1>1, WaitingTask, WaitingCall, MyBuffer
<1>3. m = Merge(Me.soft)
  BY <1>1 DEF SoftInv, WaitsMerged
<1>4. \A e, u, i : u \in Tasks =>
        (Carries(e, u, i)' <=> Carries(e, u, i) \/ (u = t /\ i = new /\ e \in m))
  <2>1. /\ told[t] \in Seq(SUBSET Soft) /\ DOMAIN told = Tasks
    BY <1>2 DEF TInv, TasksTyped
  <2>2. /\ Len(told[t]) \in Nat /\ DOMAIN told[t] = 1 .. Len(told[t])
        /\ DOMAIN Append(told[t], m) = 1 .. new
        /\ \A i \in 1 .. Len(told[t]) : Append(told[t], m)[i] = told[t][i]
        /\ Append(told[t], m)[new] = m
    BY <1>2, <2>1, AppendProperties, LenProperties
  <2>3. told'[t] = Append(told[t], m) /\ \A u \in Tasks \ {t} : told'[u] = told[u]
    BY <1>1, <1>2, <2>1
  <2> QED BY <2>2, <2>3 DEF Carries
<1>5. m \subseteq Buffer(current) /\ \A e \in m : e.confident
  BY <1>2, <1>3 DEF Merge
<1>6. \A s \in Sessions : Buffer(s)' = IF s = current THEN {} ELSE Buffer(s)
  <2>1. << >> \in Seq(Soft) /\ Range(<< >>) = {}
    BY EmptySeq DEF Range
  <2>2. PICK r \in Session : /\ IsSession(r) /\ file' = [file EXCEPT ![current] = r]
                             /\ r.soft = << >>
    BY <1>1, <1>2, <2>1, RecordSet
  <2> QED BY <1>2, <2>1, <2>2, BufferSet
<1>7. \A e \in Buffer(current) : e.confident => e \in m
  BY <1>2, <1>3 DEF Merge
<1> HIDE DEF t, m, new
<1>8. Numbered' /\ WaitsMerged'
  BY <1>1 DEF SoftInv, Numbered, WaitsMerged
<1>9. AllEntered'
  <2>1. \A s \in Sessions : Buffer(s)' \subseteq entered
    BY <1>2, <1>6 DEF SoftInv, AllEntered
  <2>2. \A e, u, i : u \in Tasks /\ Carries(e, u, i)' => e \in entered
    BY <1>2, <1>4, <1>5 DEF SoftInv, AllEntered
  <2> QED BY <1>1, <2>1, <2>2 DEF AllEntered
<1>10. OnePlace'
  <2>1. \A s, q \in Sessions : s # q => Buffer(s)' \cap Buffer(q)' = {}
    BY <1>2, <1>6 DEF SoftInv, OnePlace
  <2>2. \A s \in Sessions, u \in Tasks : \A e, i : e \in Buffer(s)' => ~Carries(e, u, i)'
    BY <1>2, <1>4, <1>5, <1>6 DEF SoftInv, OnePlace
  <2>3. \A e, i, j : \A u, v \in Tasks : Carries(e, u, i)' /\ Carries(e, v, j)' => u = v /\ i = j
    BY <1>2, <1>4, <1>5 DEF SoftInv, OnePlace
  <2> QED BY <2>1, <2>2, <2>3 DEF OnePlace
<1>11. Kept'
  <2> SUFFICES ASSUME NEW e \in entered \ withdrawn, e.confident
               PROVE  \/ \E s \in Sessions : e \in Buffer(s)'
                      \/ \E u \in Tasks : \E i : Carries(e, u, i)'
    BY <1>1 DEF Kept
  <2>1. CASE \E u \in Tasks : \E i : Carries(e, u, i)
    BY <1>4, <2>1
  <2>2. CASE e \in m
    BY <1>2, <1>4, <2>2
  <2>3. CASE \E s \in Sessions : e \in Buffer(s) /\ e \notin m
    BY <1>2, <1>6, <1>7, <2>3
  <2> QED BY <2>1, <2>2, <2>3 DEF SoftInv, Kept
<1> QED BY <1>8, <1>9, <1>10, <1>11 DEF SoftInv

\* Prompt, Amend, Promote, Resolve, Interrupt, Review, ResumeSession and Model;
\* and of the adapter's answers those that leave the session file alone.
LEMMA QuietSoft ==
  ASSUME IInv, SoftInv,
         \/ \E t \in Tasks : Prompt(t)
         \/ Amend \/ Promote \/ Resolve \/ (Ready /\ Interrupt("interrupt"))
         \/ \E next : Review(next)
         \/ \E s \in Sessions : ResumeSession(s)
         \/ Model \/ (AmendReturns /\ call.cmd # "promote")
         \/ InterruptReturns \/ ResolveReturns \/ Fail \/ CtrlC
  PROVE  SoftInv'
<1>1. UNCHANGED <<file, told, entered, withdrawn>>
  BY DEF Prompt, Amend, Promote, Resolve, Interrupt, Review, ResumeSession, Model, AmendReturns,
         InterruptReturns, ResolveReturns, Fail, CtrlC, fileVars, taskVars, historyVars
<1>2. CASE at' # "calling"
  BY <1>1, <1>2, SameFile DEF WaitsMerged
<1>3. CASE \E cmd, t : cmd # "promote" /\ Waits(cmd, t, {})
  BY <1>1, <1>3, SameFile DEF WaitsMerged, Waits
<1>4. CASE Promote
  <2>1. Me' = Me
    BY <1>4 DEF Promote, fileVars, Me
  <2>2. WaitsMerged'
    BY <1>4, <2>1 DEF Promote, Calls, Waits, WaitsMerged
  <2> QED BY <1>1, <2>2, SameFile
<1> QED BY <1>2, <1>3, <1>4
        DEF Prompt, Amend, Resolve, Interrupt, Calls, Review, ResumeSession, Model, Ready,
            AfterLine, AmendReturns, InterruptReturns, ResolveReturns, Fail, CtrlC, Answered

\* Use, Handoff, SwitchAdapter, and the answers that start a run
LEMMA TouchesSoft ==
  ASSUME IInv, TInv, SoftInv,
         \/ \E t \in Tasks : Use(t)
         \/ Handoff
         \/ \E adapter \in Adapters : SwitchAdapter(adapter)
         \/ DelegateReturns \/ HandoffReturns
  PROVE  SoftInv'
<1>1. UNCHANGED <<told, entered, withdrawn>>
  BY DEF Use, Handoff, SwitchAdapter, DelegateReturns, HandoffReturns, taskVars, historyVars
<1>2. WaitsMerged'
  <2>1. CASE at' # "calling"
    BY <2>1 DEF WaitsMerged
  <2>2. CASE \E cmd, t : cmd # "promote" /\ Waits(cmd, t, {})
    BY <2>2 DEF WaitsMerged, Waits
  <2>3. ASSUME NEW adapter \in Adapters, SwitchAdapter(adapter), at' = "calling"
        PROVE  \E cmd, t : cmd # "promote" /\ Waits(cmd, t, {})
    <3>1. CASE \E cmd \in {"cross", "same"} : Waits(cmd, Me.task, {})
      BY <3>1
    <3>2. CASE Waits("brief", Me.task, {})
      BY <3>2
    <3> QED BY <2>3, <3>1, <3>2 DEF SwitchAdapter, Ready
  <2>4. CASE Handoff \/ \E t \in Tasks : Use(t)
    BY <2>1, <2>2, <2>4 DEF Use, Handoff, Calls, Ready
  <2>5. CASE DelegateReturns \/ HandoffReturns
    BY <2>1, <2>2, <2>5 DEF DelegateReturns, HandoffReturns, Answered
  <2> QED BY <2>1, <2>2, <2>3, <2>4, <2>5
<1>3. CASE Handoff /\ runOf[Me.task] # None
  BY <1>1, <1>2, <1>3, SameFile DEF Handoff
<1>4. CASE \E r \in Session : Touches(r)
  BY <1>1, <1>2, <1>4, TouchSoft
<1> QED BY <1>3, <1>4, UseRecord, HandoffRecord, SwitchRecord, DelegateRecord, HandoffReturnsRecord

\* NewSession and Start
LEMMA FreshSoft ==
  ASSUME IInv, SoftInv, \E s \in Sessions : NewSession(s) \/ \E adapter \in Adapters : Start(s, adapter)
  PROVE  SoftInv'
<1>1. at' = "prompt" /\ UNCHANGED <<told, entered, withdrawn>>
  BY DEF NewSession, Start, taskVars, historyVars
<1>2. WaitsMerged'
  BY <1>1 DEF WaitsMerged
<1>3. CASE file' = file
  BY <1>1, <1>2, <1>3, SameFile
<1>4. CASE \E s \in Sessions : \E adapter : file[s] = Absent /\ file' = [file EXCEPT ![s] = Fresh(adapter)]
  BY <1>1, <1>2, <1>4, FreshBuffer
<1> QED BY <1>3, <1>4 DEF NewSession, Start

LEMMA SoftInit == Init => SoftInv
<1> SUFFICES ASSUME Init PROVE SoftInv
  OBVIOUS
<1>1. \A s \in Sessions : Buffer(s) = {}
  <2>1. PICK adapter \in Adapters, q \in Sessions :
          file = [s \in Sessions |-> IF s = q THEN Fresh(adapter) ELSE Absent]
    BY DEF Init
  <2>2. Range(Fresh(adapter).soft) = {}
    BY DEF Fresh, Range
  <2> QED BY <2>1, <2>2, SessionIsThere DEF Buffer
<1>2. \A e, t, i : t \in Tasks => ~Carries(e, t, i)
  BY DEF Init, Carries
<1> QED BY <1>1, <1>2, FS_EmptySet
        DEF Init, SoftInv, Numbered, WaitsMerged, AllEntered, OnePlace, Kept

\* All together are inductive.
CInv == IInv /\ TInv /\ SoftInv

LEMMA CInvStep ==
  ASSUME CInv, [Next]_vars
  PROVE  CInv'
<1>1. IInv'
  BY IInvStep DEF CInv
<1>2. IInv /\ TInv /\ SoftInv
  BY DEF CInv
<1>3. IsSession(Me) => \A e \in Range(Me.soft) : e \in entered
  BY <1>2, MyBuffer DEF SoftInv, AllEntered
<1>4. SoftLine \/ StaleLine \/ Leave => IsSession(Me)
  BY <1>2 DEF SoftLine, StaleLine, Leave, Ready, IInv, Shape
<1>5. IsFiniteSet(entered)
  BY <1>2 DEF SoftInv, Numbered
<1>6. CASE UNCHANGED vars
  <2>1. /\ UNCHANGED <<file, current, at, call, client, taskVars>>
        /\ UNCHANGED <<entered, withdrawn, chosen, informed, switched, faults>>
    BY <1>6 DEF vars, fileVars, historyVars
  <2>2. TInv'
    BY <1>2, <2>1 DEF TInv, FileTyped, CallTyped, TasksTyped, HistoryTyped, WaitsWithRoom,
                      WorkHasRun, taskVars
  <2>3. WaitsMerged' /\ UNCHANGED <<file, told, entered, withdrawn>>
    BY <1>2, <2>1 DEF SoftInv, WaitsMerged, Me, taskVars
  <2> QED BY <1>1, <1>2, <2>2, <2>3, SameFile DEF CInv
<1>7. CASE Command
  <2>1. CASE \E t \in Tasks : Prompt(t) \/ Use(t)
    BY <1>1, <1>2, <2>1, PromptTypes, UseTypes, QuietSoft, TouchesSoft DEF CInv
  <2>2. CASE Amend \/ Promote \/ Resolve \/ (Ready /\ Interrupt("interrupt") /\ UNCHANGED faults)
    BY <1>1, <1>2, <2>2, AsksTypes, QuietSoft DEF CInv
  <2>3. CASE SoftLine \/ StaleLine
    BY <1>1, <1>2, <1>3, <1>4, <1>5, <2>3, SoftLineTypes, SoftLineSoft DEF CInv
  <2>4. CASE \E s \in Sessions : NewSession(s)
    BY <1>1, <1>2, <2>4, NewSessionTypes, FreshSoft DEF CInv
  <2>5. CASE (\E s \in Sessions : ResumeSession(s)) \/ Model
    BY <1>1, <1>2, <2>5, LinesTypes, QuietSoft DEF CInv
  <2>6. CASE Leave
    BY <1>1, <1>2, <1>3, <1>4, <2>6, LeaveTypes, LeaveSoft DEF CInv
  <2>7. CASE Handoff \/ \E adapter \in Adapters : SwitchAdapter(adapter)
    BY <1>1, <1>2, <2>7, HandoffTypes, SwitchTypes, TouchesSoft DEF CInv
  <2>8. CASE \E next \in {"in_progress", "over"} : Review(next)
    BY <1>1, <1>2, <2>8, ReviewTypes, QuietSoft DEF CInv
  <2> QED BY <1>7, <2>1, <2>2, <2>3, <2>4, <2>5, <2>6, <2>7, <2>8 DEF Command
<1>8. CASE Return
  <2>1. TInv'
    BY <1>2, <1>8, DelegateReturnsTypes, AmendReturnsTypes, HandoffReturnsTypes, AnswersTypes DEF Return
  <2>2. SoftInv'
    BY <1>2, <1>8, PromotedSoft, TouchesSoft, QuietSoft DEF Return
  <2> QED BY <1>1, <2>1, <2>2 DEF CInv
<1>9. CASE Fail \/ CtrlC
  BY <1>1, <1>2, <1>9, CutTypes, QuietSoft DEF CInv
<1>10. CASE \E s \in Sessions, adapter \in Adapters : Start(s, adapter)
  BY <1>1, <1>2, <1>10, RestartTypes, FreshSoft DEF CInv
<1> QED BY <1>6, <1>7, <1>8, <1>9, <1>10 DEF Next

LEMMA CInvHolds == Spec => []CInv
<1>1. Init => CInv
  BY IInvInit, TInvInit, SoftInit DEF CInv
<1> QED BY <1>1, CInvStep, PTL DEF Spec

\* Every variable of the console keeps its type: above all, an adapter that is
\* handed a task knows the run it is handed, and its counter stays in its bounds.
THEOREM ConsoleTypes == Spec => []TypeOK
<1>1. CInv => TypeOK
  BY DEF CInv, TInv, FileTyped, CallTyped, TasksTyped, HistoryTyped, TypeOK
<1> QED BY <1>1, CInvHolds, PTL

\* What the user entered with confidence and did not take back waits in the
\* buffer of its session or is in an amendment that was recorded, through failed
\* calls, Ctrl+C, switches, forks and restarts.
THEOREM SoftControlsAreKept == Spec => []SoftKeptUntilTold
<1>1. ASSUME CInv PROVE SoftKeptUntilTold
  <2> SUFFICES ASSUME NEW e \in entered \ withdrawn, e.confident
               PROVE  \/ \E s \in Sessions : file[s] # Absent /\ e \in Range(file[s].soft)
                      \/ \E merged \in Amendments : e \in merged /\ e.text \in Lines(merged)
    BY DEF SoftKeptUntilTold
  <2>1. CASE \E s \in Sessions : e \in Buffer(s)
    BY <2>1, SessionIsThere DEF Buffer
  <2>2. CASE \E t \in Tasks : \E i : Carries(e, t, i)
    BY <2>2 DEF Carries, Amendments, Range, Lines
  <2> QED BY <1>1, <2>1, <2>2 DEF CInv, SoftInv, Kept
<1> QED BY <1>1, CInvHolds, PTL

\* A set whose elements are all the same has at most one.
LEMMA AtMostOne ==
  ASSUME NEW S, \A x, y \in S : x = y
  PROVE  Cardinality(S) \in {0, 1} /\ (S = {} <=> Cardinality(S) = 0)
<1>1. CASE S = {}
  BY <1>1, FS_EmptySet
<1>2. CASE \E x : S = {x}
  BY <1>2, FS_Singleton
<1> QED BY <1>1, <1>2

\* A soft control steers once: no two amendments carry it, and none carries it
\* while it still waits in a buffer, however often /promote was cut or repeated.
THEOREM SoftControlsSteerOnce == Spec => []PromotedOnce
<1>1. ASSUME CInv PROVE PromotedOnce
  <2> SUFFICES ASSUME NEW e \in entered
               PROVE  LET carries(t, i) == i <= Len(told[t]) /\ e \in told[t][i]
                          carriers == {c \in Tasks \X (1 .. MaxAmends) : carries(c[1], c[2])}
                          buffers == {s \in Sessions : file[s] # Absent /\ e \in Range(file[s].soft)}
                      IN Cardinality(carriers) + Cardinality(buffers) <= 1
    BY DEF PromotedOnce
  <2> DEFINE carriers == {c \in Tasks \X (1 .. MaxAmends) : c[2] <= Len(told[c[1]]) /\ e \in told[c[1]][c[2]]}
             buffers == {s \in Sessions : file[s] # Absent /\ e \in Range(file[s].soft)}
  <2>1. \A s \in buffers : s \in Sessions /\ e \in Buffer(s)
    BY <1>1 DEF CInv, IInv, Shape, Buffer
  <2>2. \A c \in carriers : /\ c \in Tasks \X (1 .. MaxAmends)
                            /\ Carries(e, c[1], c[2])
    <3> SUFFICES ASSUME NEW c \in carriers
                 PROVE  Carries(e, c[1], c[2])
      OBVIOUS
    <3>1. c[1] \in Tasks /\ c[2] \in 1 .. MaxAmends /\ c[2] <= Len(told[c[1]]) /\ e \in told[c[1]][c[2]]
      OBVIOUS
    <3>2. told[c[1]] \in Seq(SUBSET Soft)
      BY <1>1, <3>1 DEF CInv, TInv, TasksTyped
    <3>3. DOMAIN told[c[1]] = 1 .. Len(told[c[1]]) /\ Len(told[c[1]]) \in Nat
      BY <3>2, LenProperties
    <3> QED BY <3>1, <3>3, ConsoleBounds DEF Carries
  <2>3. OnePlace
    BY <1>1 DEF CInv, SoftInv
  <2>4. \A s, q \in buffers : s = q
    BY <2>1, <2>3 DEF OnePlace
  <2>5. \A c, d \in carriers : c = d
    <3> SUFFICES ASSUME NEW c \in carriers, NEW d \in carriers
                 PROVE  c = d
      OBVIOUS
    <3>1. c[1] = d[1] /\ c[2] = d[2]
      BY <2>2, <2>3 DEF OnePlace
    <3> QED BY <2>2, <3>1
  <2>6. carriers = {} \/ buffers = {}
    BY <2>1, <2>2, <2>3 DEF OnePlace
  <2> HIDE DEF carriers, buffers
  <2>7. /\ Cardinality(carriers) \in {0, 1} /\ (carriers = {} <=> Cardinality(carriers) = 0)
        /\ Cardinality(buffers) \in {0, 1} /\ (buffers = {} <=> Cardinality(buffers) = 0)
    BY <2>4, <2>5, AtMostOne
  <2>8. Cardinality(carriers) + Cardinality(buffers) <= 1
    BY <2>6, <2>7
  <2> QED BY <2>8 DEF carriers, buffers
<1> QED BY <1>1, CInvHolds, PTL
=============================================================================
