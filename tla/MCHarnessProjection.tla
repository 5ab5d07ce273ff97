------------------------- MODULE MCHarnessProjection -------------------------
(* Small instances of HarnessProjection for TLC. *)
EXTENDS HarnessProjection, TLC

CONSTANTS p1, p2
=============================================================================
