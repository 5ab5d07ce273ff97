-------------------------- MODULE TaskStateMachine --------------------------
(***************************************************************************)
(* The task lifecycle of the Human Loop Protocol: the states of a task,    *)
(* the table of legal moves and the check every handler makes before it    *)
(* assigns a new state (loops/hlp/state_machine.py).                       *)
(***************************************************************************)

\* loops/hlp/types.py, TaskState
TaskState == {"created", "assigned", "in_progress", "blocked", "review_ready",
              "under_review", "accepted", "rejected", "completed"}

\* The moves the protocol names, state by state.
LEGAL_TRANSITIONS ==
  [created      |-> {"assigned", "completed"},
   assigned     |-> {"in_progress", "completed"},
   in_progress  |-> {"blocked", "review_ready", "completed"},
   blocked      |-> {"in_progress", "completed"},
   review_ready |-> {"under_review"},
   under_review |-> {"in_progress", "accepted", "rejected"},
   accepted     |-> {"completed"},
   rejected     |-> {},
   completed    |-> {}]

TERMINAL_STATES == {"completed", "rejected"}

\* check_transition raises unless this holds.  A task that is already in the
\* target state passes: the handler goes on as if it had moved.
LegalTransition_Unchecked(current, target) == target \in TaskState
LegalTransition(current, target) ==
  \/ current = target
  \/ target \in LEGAL_TRANSITIONS[current]

\* The moves one handler call may make.  Every handler makes at most one move
\* of the table, except review.submit, which enters under_review and may leave
\* it again, and which passes through accepted on its way to completed.
HandlerMove(current, target) ==
  \/ LegalTransition(current, target)
  \/ /\ current \in {"review_ready", "under_review"}
     /\ target \in {"in_progress", "rejected", "completed"}
=============================================================================
