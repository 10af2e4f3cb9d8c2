-------------------------- MODULE MCAuditRevisions --------------------------
(* Small instances of AuditRevisions for TLC. *)
EXTENDS AuditRevisions

CONSTANTS e1, e2

\* The second artifact is observed after the first as-of time.
Observed == [e \in Evidence |-> IF e = e1 THEN 1 ELSE 2]
=============================================================================
