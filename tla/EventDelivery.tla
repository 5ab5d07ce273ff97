---------------------------- MODULE EventDelivery ----------------------------
(***************************************************************************)
(* What reliable delivery of harness events promises (docs/specs/HLP.md    *)
(* 5.2.1): the events of a run take effect in the order they were queued,  *)
(* none is passed over, and only events that took effect are confirmed.    *)
(* An event may take effect again before it is confirmed.                  *)
(* HarnessProjection is shown to implement this.                           *)
(***************************************************************************)
EXTENDS Naturals

VARIABLES
  delivered,   \* events 1..delivered have taken effect
  confirmed    \* events 1..confirmed have left the queue

Init == delivered = 0 /\ confirmed = 0

\* The next event takes effect.
Deliver == delivered' = delivered + 1

\* Events that have taken effect are confirmed.
Confirm == confirmed' \in confirmed + 1 .. delivered

\* The confirmation of one event may go with the delivery of the next.
Next ==
  \/ Deliver /\ (Confirm \/ UNCHANGED confirmed)
  \/ Confirm /\ UNCHANGED delivered

Spec == Init /\ [][Next]_<<delivered, confirmed>>
=============================================================================
