------------------------- MODULE MCIdempotentOutbox -------------------------
(***************************************************************************)
(* Small instances of IdempotentOutbox for TLC: three or four clients, who *)
(* they are and what they ask for.                                         *)
(***************************************************************************)
EXTENDS IdempotentOutbox, TLC

CONSTANTS c1, c2, c3, c4, k1, k2, NoKeyValue

Start == [op |-> "task.start", arg |-> ""]
Amend == [op |-> "task.amend", arg |-> "x"]
Interrupt == [op |-> "task.interrupt", arg |-> "x"]
Deliver == [op |-> "artifact.commit", arg |-> "x"]
AllRequests == {Start, Amend, Interrupt, Deliver}

\* c1 starts the task and c4 interrupts it, both without a key; c2 amends it
\* and c3 delivers its artifact, both under the same key.
RunRequests == c1 :> Start @@ c2 :> Amend @@ c3 :> Deliver @@ c4 :> Interrupt
RunKeys == c1 :> NoKeyValue @@ c2 :> k1 @@ c3 :> k1 @@ c4 :> NoKeyValue

\* c1 and c2 deliver one amendment under one key, c3 delivers the artifact.
DuplicateRequests == c1 :> Amend @@ c2 :> Amend @@ c3 :> Deliver
DuplicateKeys == c1 :> k1 @@ c2 :> k1 @@ c3 :> k2
=============================================================================
