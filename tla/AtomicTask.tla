----------------------------- MODULE AtomicTask -----------------------------
(***************************************************************************)
(* What the operations on a task promise a client that awaits each call    *)
(* before the next one (docs/specs/HLP.md 4): although the handlers stop   *)
(* and wait for the agent, an operation takes effect all at once and in    *)
(* full, on a task that still allows it, and advances the revision by one; *)
(* or the agent refuses and nothing has happened.  The one exception is    *)
(* RefuseCancel.  HLPOperations is shown to implement this.                *)
(***************************************************************************)
EXTENDS Naturals

CONSTANTS
  Principal,   \* the human who owns the task
  Actors       \* who may hold it

VARIABLES
  status,    \* where the task is in its lifecycle
  holder,    \* who holds it
  asked,     \* whether a checkpoint waits for a human's answer
  agent,     \* what the agent at work was told last; "none" before there is one
  revision   \* how many operations have taken effect

Reviewed == {"review_ready", "under_review"}
Over == {"completed", "rejected"}

Init ==
  /\ status = "created"
  /\ holder = Principal
  /\ asked = FALSE
  /\ agent = "none"
  /\ revision = 0

\* Somebody gets the task and an agent starts.
Assign ==
  /\ status = "created" /\ status' = "assigned"
  /\ holder' \in Actors
  /\ agent' = "running"
  /\ UNCHANGED asked

Start ==
  /\ status = "assigned" /\ status' = "in_progress"
  /\ UNCHANGED <<holder, asked, agent>>

\* The agent gets new instructions.
Amend ==
  /\ status \in {"in_progress", "blocked"}
  /\ UNCHANGED <<status, holder, asked, agent>>

\* The agent stops, and the principal has the task and a question to answer.
Block ==
  /\ status = "in_progress" /\ status' = "blocked"
  /\ holder' = Principal
  /\ ~asked /\ asked'
  /\ agent' = "blocked"

\* The question is answered and the agent goes on, or the task is over.
Answer ==
  /\ status = "blocked"
  /\ asked /\ ~asked'
  /\ agent' = "running"
  /\ \/ status' = "in_progress" /\ holder' \in Actors
     \/ status' = "completed" /\ UNCHANGED holder

\* Nobody answered in time.
Expire ==
  /\ asked /\ ~asked'
  /\ UNCHANGED <<status, holder, agent>>

\* Somebody else gets the task; the agent stays or another one starts.
Transfer ==
  /\ status \notin Over
  /\ holder' \in Actors
  /\ agent' \in {agent, "running"}
  /\ UNCHANGED <<status, asked>>

\* The work is handed in to the principal.
Commit ==
  /\ status = "in_progress" /\ status' = "review_ready"
  /\ holder' = Principal
  /\ UNCHANGED <<asked, agent>>

\* A verdict sends the task back to work, ends it or leaves it under review.
Review ==
  /\ status \in Reviewed
  /\ \/ status' = "in_progress" /\ holder' \in Actors
     \/ status' \in Over \cup {"under_review"} /\ UNCHANGED holder
  /\ UNCHANGED <<asked, agent>>

\* The principal takes the task back and the agent, if there is one, stops.
TakeBack ==
  /\ holder' = Principal
  /\ agent' = IF agent = "none" THEN "none" ELSE "cancelled"
  /\ UNCHANGED asked

Cancel ==
  /\ status \notin Reviewed \cup Over /\ status' = "completed"
  /\ TakeBack

\* Under review a task cannot be cancelled; the refusal comes too late.
RefuseCancel ==
  /\ status \in Reviewed /\ UNCHANGED status
  /\ TakeBack

Operation ==
  \/ Assign \/ Start \/ Amend \/ Block \/ Answer \/ Expire
  \/ Transfer \/ Commit \/ Review \/ Cancel

Next ==
  \/ Operation /\ revision' = revision + 1
  \/ RefuseCancel /\ UNCHANGED revision

Spec == Init /\ [][Next]_<<status, holder, asked, agent, revision>>
=============================================================================
