----------------------------- MODULE MCAgentRuns -----------------------------
(* Small instances of AgentRuns for TLC: two tasks, every kind of adapter. *)
EXTENDS AgentRuns, TLC

CONSTANTS t1, t2, c1, c2, a1, a2, q1, g1

\* The lines agents print here.
Hello(names) == [session |-> TRUE, names |-> names, about |-> "nobody", content |-> Nothing]
Says(about, content) == [session |-> FALSE, names |-> FALSE, about |-> about, content |-> content]
Question(about) == Says(about, [asks |-> q1])
Todo(items) == Says("nobody", [todo |-> items])
SubAgent(done) == Says("nobody", [agent |-> g1, done |-> done])

\* Outputs that ask: nothing, the same twice, for the task it is told and for another.
Asking(names) ==
  {<<Hello(names)>>,
   <<Hello(names), Question("nobody"), Question("nobody")>>,
   <<Question("own"), Hello(names)>>,
   <<Question("other"), Hello(names)>>}

\* Outputs that tell how far the run is.
Telling ==
  {<<Hello(FALSE), Todo(<<"done", "pending", "pending">>), SubAgent(FALSE)>>,
   <<SubAgent(TRUE)>>,
   <<Todo(<<"in_progress", "pending">>), Todo(<<"blocked", "pending">>)>>,
   << >>}

Plain(names) == {<<Hello(names)>>} \cup IF names THEN {} ELSE {<< >>}

\* Every adapter without a restart, and those whose agents name every run
\* with one.
SafeSetups ==
  [adapter : {"harness", "forking"}, prints : {Asking(FALSE), Telling}, restarts : {0}]
  \cup [adapter : {"process", "framework"}, prints : {Plain(TRUE) \cup Plain(FALSE)}, restarts : {0}]
  \cup [adapter : {"callable"}, prints : {Plain(FALSE)}, restarts : {0}]
  \cup [adapter : {"harness", "forking"}, prints : {Asking(TRUE)}, restarts : {1}]
  \cup [adapter : {"process"}, prints : {Plain(TRUE)}, restarts : {1}]

\* A harness whose agents leave the naming of runs to the adapter.
CountingSetups == [adapter : {"harness"}, prints : {Plain(FALSE)}, restarts : {1}]

\* Sound: the properties of these runs are invariants and one action property,
\* and no definition tells two of these values apart.
Symmetric == Permutations({t1, t2}) \cup Permutations({c1, c2}) \cup Permutations({a1, a2})
=============================================================================
