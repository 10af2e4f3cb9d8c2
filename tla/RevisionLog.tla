----------------------------- MODULE RevisionLog -----------------------------
(***************************************************************************)
(* What docs/database.md promises of audit revisions: per window they form *)
(* one numbered chain to which writers append one at a time, each revision *)
(* naming the one before it.  A stored revision is immutable; retention    *)
(* may take it away, and then nothing names it any more.                   *)
(***************************************************************************)
EXTENDS Naturals

CONSTANTS
  Ids,       \* identities of revisions
  Window,    \* identity -> window
  NoId       \* the prior of a first revision

VARIABLE revs   \* identity -> number and prior

InWindow(w) == {i \in DOMAIN revs : Window[i] = w}

\* The newest revision of a window comes first in its order of numbers.
Latest(w, i) == i \in InWindow(w) /\ \A j \in InWindow(w) : revs[j].number <= revs[i].number

LogInit == DOMAIN revs = {}

Add(i) ==
  /\ i \notin DOMAIN revs
  /\ DOMAIN revs' = DOMAIN revs \cup {i}
  /\ \A j \in DOMAIN revs : revs'[j] = revs[j]
  /\ \/ /\ InWindow(Window[i]) = {}
        /\ revs'[i] = [number |-> 1, prior |-> NoId]
     \/ \E j \in DOMAIN revs :
          /\ Latest(Window[i], j)
          /\ revs'[i] = [number |-> revs[j].number + 1, prior |-> j]

Remove ==
  /\ DOMAIN revs' \subseteq DOMAIN revs
  /\ \A j \in DOMAIN revs' :
       revs'[j] = [revs[j] EXCEPT !.prior = IF @ \in DOMAIN revs' THEN @ ELSE NoId]

LogNext == Remove \/ \E i \in Ids : Add(i)

LogSpec == LogInit /\ [][LogNext]_revs
=============================================================================
