----------------------------- MODULE MCCollector -----------------------------
(* Small instances of Collector for TLC. *)
EXTENDS Collector, TLC

\* Processes and fences are interchangeable; used with invariants and action
\* properties only.
Symmetry == Permutations(Procs) \cup Permutations(Fences)
=============================================================================
