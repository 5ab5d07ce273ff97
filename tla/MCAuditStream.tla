----------------------------- MODULE MCAuditStream -----------------------------
(* Small instances of AuditStream for TLC. *)
EXTENDS AuditStream, TLC

CONSTANTS t1, t2, s1, r1, r2
=============================================================================
