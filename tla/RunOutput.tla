------------------------------ MODULE RunOutput ------------------------------
(***************************************************************************)
(* What an adapter reads in the lines an agent CLI printed in one call     *)
(* (loops/hlp/adapters/_parsing.py): the name of its run, its native       *)
(* session, whose task the lines are about, the human-loop events, and the *)
(* progress of the run.  All operators are functions of the output; the    *)
(* state they feed is in AgentRuns.                                        *)
(***************************************************************************)
EXTENDS Integers, Sequences, FiniteSets, SequencesExt

CONSTANTS
  Signatures,    \* contents of the human-loop events that agents print
  SubAgents      \* ids of sub-agents

ItemState == {"pending", "in_progress", "done", "blocked", "skipped"}

\* What a line may say besides: nothing, a question or an artifact for the
\* human, the whole of a todo list, or that a sub-agent started or is done.
Nothing == [says |-> "nothing"]
Content == {Nothing} \cup [asks : Signatures] \cup [todo : Seq(ItemState)]
           \cup [agent : SubAgents, done : BOOLEAN]

\* session: the line names the native session; names: it names the run;
\* about: the task its correlation id names, if it has one.
Line == [session : BOOLEAN, names : BOOLEAN, about : {"nobody", "own", "other"}, content : Content]

Asks(line) == "asks" \in DOMAIN line.content
IsTodo(line) == "todo" \in DOMAIN line.content
IsSubAgent(line) == "agent" \in DOMAIN line.content
-----------------------------------------------------------------------------
\* session_id_from_events and codex_run_id_from_events: a line anywhere will do.
TellsSession(output) == \E i \in DOMAIN output : output[i].session
NamesRun(output) == \E i \in DOMAIN output : output[i].names

\* parse_process_stdout: the last line that names a run is the result, and
\* the last line of all if none does.
Result(output) ==
  LET naming == SelectSeq(output, LAMBDA line : line.names)
  IN IF naming = << >> THEN Last(output) ELSE Last(naming)

\* validate_correlation: a JSON command and an SDK answer for their task.
ResultCorrelates(output) == output # << >> => Result(output).about # "other"

\* Faulty, used by no action: of a harness too only the result is looked at.
EventsCorrelate_ResultOnly(output) == ResultCorrelates(output)

\* validate_codex_event_correlations: no line of a harness is about another task.
EventsCorrelate(output) == \A i \in DOMAIN output : output[i].about # "other"

\* Faulty, used by no action: repeated events are queued again.
HumanLoopLines_Repeated(output) == SelectSeq(output, Asks)

\* _queue_harness_events: the lines that project, those that repeat one of
\* the same output dropped.
HumanLoopLines(output) ==
  LET places == {i \in DOMAIN output :
                   Asks(output[i]) /\ \A j \in 1 .. i - 1 : output[j].content # output[i].content}
      nth(n) == CHOOSE i \in places : Cardinality({j \in places : j <= i}) = n
  IN [n \in 1 .. Cardinality(places) |-> output[nth(n)]]
-----------------------------------------------------------------------------
NoProgress == [items |-> << >>, agents |-> {}]
SubAgentStatus == [id : SubAgents, labelled : BOOLEAN, done : BOOLEAN]
\* The order in which sub-agents are listed is left out.
Snapshot == [items : Seq(ItemState), agents : SUBSET SubAgentStatus]

\* The first pending entry is shown as the one in progress when no other is.
Promoted(items) ==
  LET pending == {i \in DOMAIN items : items[i] = "pending"} IN
  IF "in_progress" \in Range(items) \/ pending = {} THEN items
  ELSE [items EXCEPT ![Min(pending)] = "in_progress"]

\* A sub-agent keeps the label it started with: a line that it is done has none.
WithSubAgent(agents, content) ==
  LET known == {a \in agents : a.id = content.agent} IN
  (agents \ known) \cup
    {[id |-> content.agent,
      labelled |-> ~content.done \/ \E a \in known : a.labelled,
      done |-> content.done]}

\* progress_from_events: whether there is anything about progress in the output.
TellsProgress(output) == \E i \in DOMAIN output : IsTodo(output[i]) \/ IsSubAgent(output[i])

\* A todo list replaces the one before, a sub-agent is updated.
WithLine(snapshot, line) ==
  IF IsTodo(line) THEN [snapshot EXCEPT !.items = Promoted(line.content.todo)]
  ELSE IF IsSubAgent(line)
  THEN [snapshot EXCEPT !.agents = WithSubAgent(snapshot.agents, line.content)]
  ELSE snapshot

\* The snapshot after each line of the output.
ProgressAfter(prior, output) ==
  LET after[n \in 0 .. Len(output)] ==
        IF n = 0 THEN prior ELSE WithLine(after[n - 1], output[n])
  IN after

\* Faulty, used by no action: an output with a todo list makes a new snapshot.
MergeProgress_StartsOver(prior, output) ==
  LET from == IF \E i \in DOMAIN output : IsTodo(output[i]) THEN NoProgress ELSE prior
  IN ProgressAfter(from, output)[Len(output)]

\* _merge_progress: the snapshot of the run's earlier answers, updated by this one.
MergeProgress(prior, output) == ProgressAfter(prior, output)[Len(output)]

\* The progress that lines report, said without merging: the last list with
\* its first open entry promoted; of the sub-agents that are mentioned, which
\* are done by the last word on them and which were ever seen to start.
Reports(snapshot, lines) ==
  LET lists == {i \in DOMAIN lines : IsTodo(lines[i])}
      on(g) == {i \in DOMAIN lines : IsSubAgent(lines[i]) /\ lines[i].content.agent = g}
      last(i, places) == i \in places /\ \A j \in places : j <= i
      shown == snapshot.agents
  IN
  /\ IF lists = {} THEN snapshot.items = << >>
     ELSE \E i \in lists : last(i, lists) /\ snapshot.items = Promoted(lines[i].content.todo)
  /\ \A a, b \in shown : a.id = b.id => a = b
  /\ {a.id : a \in shown} = {g \in SubAgents : on(g) # {}}
  /\ \A a \in shown :
       /\ \E i \in on(a.id) : last(i, on(a.id)) /\ a.done = lines[i].content.done
       /\ a.labelled = \E i \in on(a.id) : ~lines[i].content.done
=============================================================================
