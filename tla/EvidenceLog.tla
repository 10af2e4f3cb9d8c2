---------------------------- MODULE EvidenceLog ----------------------------
(***************************************************************************)
(* What collection promises to the readers of the evidence of one source:  *)
(* one append-only log of records per generation of the source, and a head *)
(* that points at the last collected record of the current generation.     *)
(***************************************************************************)
EXTENDS Naturals, Sequences, SequencesExt

CONSTANTS Limit, NoGeneration

VARIABLES
  logs,  \* generation -> contents of its records, in order and without gaps
  head   \* [gen, seq]

LogInit ==
  /\ DOMAIN logs = {}
  /\ head = [gen |-> NoGeneration, seq |-> 0]

\* Records of one generation are appended; every other log is left alone, and
\* no record is changed or withdrawn.
Extend(g) ==
  /\ DOMAIN logs' = DOMAIN logs \cup {g}
  /\ \A h \in DOMAIN logs \ {g} : logs'[h] = logs[h]
  /\ g \in DOMAIN logs => IsPrefix(logs[g], logs'[g])

\* One batch: at most Limit records, the head moves forward in its generation
\* or to the first batch of another one, and never beyond the records present.
CommitBatch(g) ==
  /\ Extend(g)
  /\ head'.gen = g
  /\ LET from == IF head.gen = g THEN head.seq ELSE 0
     IN  head'.seq \in (from + 1) .. (from + Limit)
  /\ head'.seq <= Len(logs'[g])
  /\ Len(logs'[g]) <= IF g \in DOMAIN logs /\ Len(logs[g]) > head'.seq
                      THEN Len(logs[g]) ELSE head'.seq

LogNext == \E g \in DOMAIN logs' : CommitBatch(g)

LogSpec == LogInit /\ [][LogNext]_<<logs, head>>
=============================================================================
