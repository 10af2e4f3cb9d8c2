---------------------------- MODULE JsonlAdapter ----------------------------
(***************************************************************************)
(* The bounded, read-only source adapter (internal/adapters): a pure       *)
(* function from the file contents held by the adapter and the stored      *)
(* cursor to the next batch of records.                                    *)
(*                                                                         *)
(* A line is a model value, a file a sequence of lines.  The keyed digests *)
(* are modelled collision-free: a digest is the sequence it was taken of,  *)
(* and a revision generation is the contents it was derived from.          *)
(***************************************************************************)
EXTENDS Naturals, Sequences, FiniteSets

CONSTANTS
  Lines,       \* lines a source file may hold
  BadLines,    \* lines that do not parse, are oversized or are sensitive
  DriftLines,  \* lines that parse but lack every field the source kind requires
  Limit        \* records per batch (Options.BatchLimit)

ASSUME AdapterAssumption ==
  /\ BadLines \subseteq Lines
  /\ DriftLines \subseteq Lines
  /\ Limit \in Nat \ {0}

Files == Seq(Lines)

\* Stored digests and generations: the empty string is a value of its own kind.
Digests     == [known : BOOLEAN, of : Files]
NoDigest    == [known |-> FALSE, of |-> <<>>]
DigestOf(s) == [known |-> TRUE, of |-> s]

Generations    == [kind : {"none", "base", "revision"}, of : Files]
NoGeneration   == [kind |-> "none", of |-> <<>>]
BaseGeneration == [kind |-> "base", of |-> <<>>]
Revision(s)    == [kind |-> "revision", of |-> s]

Requests == [seq : Nat, gen : Generations, digest : Digests]
EmptyRequest == [seq |-> 0, gen |-> NoGeneration, digest |-> NoDigest]

\* One evidence record: its alias is derived from generation and sequence.
Records == [gen : Generations, seq : Nat, content : Lines]

MinOf(m, n) == IF m <= n THEN m ELSE n

digestPrefix(data, cursor) == DigestOf(SubSeq(data, 1, MinOf(cursor, Len(data))))

-----------------------------------------------------------------------------

PrefixMatches(data, req) ==
  ~req.digest.known \/ req.digest = digestPrefix(data, req.seq)

\* The file no longer extends what was committed.
Rotated(data, req) == ~PrefixMatches(data, req) \/ req.seq > Len(data)

ResultGeneration(data, req) ==
  IF Rotated(data, req) THEN Revision(data)
  ELSE IF req.gen # NoGeneration THEN req.gen ELSE BaseGeneration

\* Mutant: the cursor is not reset.
StartCursor_NotReset(data, req) == req.seq

\* A rotated source is read again from its first line.
StartCursor(data, req) == IF Rotated(data, req) THEN 0 ELSE req.seq

\* Mutant: the batch limit is ignored.
NextCursor_NoLimit(data, req) == Len(data)

NextCursor(data, req) == MinOf(StartCursor(data, req) + Limit, Len(data))

ResultRecords(data, req) ==
  { [gen |-> ResultGeneration(data, req), seq |-> i, content |-> data[i]] :
      i \in (StartCursor(data, req) + 1) .. NextCursor(data, req) }

ResultDigest(data, req) == digestPrefix(data, NextCursor(data, req))

\* Mutant: lines up to the cursor asked for are not looked at again.
BaseStatus_PastCursor(source, data, req) ==
  IF source # "ready" THEN source
  ELSE IF \E i \in (req.seq + 1) .. Len(data) : data[i] \in BadLines THEN "permanent"
  ELSE IF ResultRecords(data, req) = {} THEN "empty"
  ELSE "records"

\* How the JSONL adapter ends.  A bad line anywhere fails the whole file.
BaseStatus(source, data, req) ==
  IF source # "ready" THEN source
  ELSE IF \E i \in DOMAIN data : data[i] \in BadLines THEN "permanent"
  ELSE IF ResultRecords(data, req) = {} THEN "empty"
  ELSE "records"

\* Mutant: only the first record of the batch is held to the contract.
CollectStatus_FirstRecord(source, data, req) ==
  IF /\ BaseStatus(source, data, req) = "records"
     /\ data[StartCursor(data, req) + 1] \in DriftLines
  THEN "permanent" ELSE BaseStatus(source, data, req)

\* How Collect of the source kind ends: a record that violates the contract of
\* its kind fails the batch that contains it.
CollectStatus(source, data, req) ==
  IF /\ BaseStatus(source, data, req) = "records"
     /\ \E r \in ResultRecords(data, req) : r.content \in DriftLines
  THEN "permanent" ELSE BaseStatus(source, data, req)
=============================================================================
