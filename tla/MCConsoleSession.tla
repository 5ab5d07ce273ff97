---------------------------- MODULE MCConsoleSession ----------------------------
(* Small instances of ConsoleSession for TLC. *)
EXTENDS ConsoleSession, TLC

CONSTANTS s1, s2, t1, t2, x, y

\* The properties of these runs are invariants.
SessionsAndTasks == Permutations({s1, s2}) \cup Permutations({t1, t2})

\* The adapter of the client, the sessions it knows, informed and switched are
\* read to set informed and switched only, and these, save for their type, by
\* SwitchInforms alone: the run of the other properties may take states that
\* differ in nothing else for one.
WithoutSwitches ==
  <<fileVars, at, call, client.counted, client.runs, taskVars, entered, withdrawn, chosen, faults>>
=============================================================================
