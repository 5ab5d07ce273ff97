--------------------------- MODULE MCHLPOperations ---------------------------
(***************************************************************************)
(* Small instances of HLPOperations for TLC.  The principal is alice in    *)
(* every instance.                                                         *)
(***************************************************************************)
EXTENDS HLPOperations, TLC

CONSTANTS alice, bob, carol, devin, codex

\* The callers of an instance use one of these vocabularies.
AllOps == OpNames
ReviewOps == {"assign", "start", "commit", "review", "comment"}
LateCancelOps == {"assign", "start", "commit", "cancel", "review"}
SteeringOps == {"assign", "start", "amend", "cancel"}

\* Review policies.
NoPolicy == << >>
Panel == <<alice, bob, carol>>
=============================================================================
