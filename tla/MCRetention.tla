---------------------------- MODULE MCRetention ----------------------------
(* Small instances of Retention for TLC. *)
EXTENDS Retention, TLC

CONSTANTS e2, e3, c1, c2, s1, s2, t1, t2, w1

\* Two records of one session, the second under another policy, with another task
\* and outside of any turn, and a third record of another session that names the
\* task of the first.
OnePolicy  == [e \in Evidence |-> c1]
TwoPolicies == [e \in Evidence |-> IF e = e2 THEN c2 ELSE c1]
TwoSessions == [e \in Evidence |-> IF e = e3 THEN s2 ELSE s1]
TwoTasks    == [e \in Evidence |-> IF e = e2 THEN t2 ELSE t1]
InTurns     == Evidence \ {e2}
OneWindow  == [r \in Revisions |-> w1]

Symmetry == Permutations(Admins)
=============================================================================
