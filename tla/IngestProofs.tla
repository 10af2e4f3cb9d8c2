---------------------------- MODULE IngestProofs ----------------------------
(***************************************************************************)
(* Proofs about Ingest for any clients, batches, lines and versions: what  *)
(* writers of evidence do to the source dimension is what Dimensions       *)
(* allows, the batch committed last is recognised when it comes again, and *)
(* what the statements of a batch, executed in order, leave in the tables  *)
(* of the lineage.                                                         *)
(***************************************************************************)
EXTENDS Ingest, DimensionsProofs, FiniteSetTheorems, SequenceTheorems

\* Collection changes versions by PutSource alone.
LEMMA IngestStepPuts == [Next]_vars => [DimensionsNext]_versions
<1> SUFFICES ASSUME Next, versions' # versions
             PROVE  DimensionsNext
  BY DEF vars
<1>1. CASE PutSource
  BY <1>1 DEF PutSource, DimensionsNext
<1>2. CASE Build
  BY <1>2 DEF Build
<1>3. ASSUME NEW f \in Fences, Acquire(f) \/ Release(f)
      PROVE  FALSE
  BY <1>3 DEF Acquire, Release
<1>4. ASSUME NEW f \in Fences, NEW b \in built, Submit(b, f)
      PROVE  FALSE
  BY <1>4 DEF Submit, vars
<1>5. CASE Expire
  BY <1>5 DEF Expire
<1> QED
  BY <1>1, <1>2, <1>3, <1>4, <1>5 DEF Next

\* The composed system implements the dimension alone.
THEOREM IngestImplementsDimensions == Spec => DimensionsSpec
<1>1. Init => DimensionsInit
  BY DEF Init
<1> QED
  BY <1>1, IngestStepPuts, PTL DEF Spec, DimensionsSpec

\* While batches are committed, delayed and repeated, a read of the source's version by
\* time has one answer, and has one for every time since the first version.
THEOREM IngestAsOfDetermined == Spec => []AsOfDetermined
  BY IngestImplementsDimensions, DimensionsAsOfDetermined, PTL

\* While batches are committed, delayed and repeated, no version that was found for a
\* time is rewritten.
THEOREM IngestHistoryKept == Spec => HistoryKept
  BY IngestImplementsDimensions, DimensionsHistoryKept

-----------------------------------------------------------------------------
(* The last batch *)

\* Batches name a generation and end at a number.
WellFormed(b) == b.id.gen # NoGeneration /\ b.id.next \in Nat

\* The cursor row is the one the last batch left, and what the batch brought is there;
\* the batch passed the checks that come before the transaction.
LastStored ==
  /\ cursor.seq \in Nat
  /\ \A b \in built \cup last : WellFormed(b)
  /\ \A b \in last : /\ b \in batches /\ b.records \subseteq evidence /\ Accepted(b)
                     /\ cursor = encodeCollectionCursor(b.id)

\* Collector.Run never makes a batch without generation.
LEMMA BuiltWellFormed ==
  ASSUME cursor.seq \in Nat, NEW data \in Contents
  PROVE  WellFormed(BatchOf(data, cursor))
<1>1. ResultGeneration(data, cursor) # NoGeneration
  BY DEF ResultGeneration, NoGeneration, BaseGeneration, Revision
<1>2. NextCursor(data, cursor) \in Nat
  <2>1. data \in Seq(Lines) /\ Len(data) \in Nat
    BY DEF Contents
  <2>2. StartCursor(data, cursor) \in Nat /\ Limit \in Nat
    BY AdapterAssumption DEF StartCursor
  <2> QED
    BY <2>1, <2>2 DEF NextCursor, MinOf
<1> QED
  BY <1>1, <1>2 DEF WellFormed, BatchOf

\* A step of Submit commits the batch, or changes nothing.
LEMMA SubmitCases ==
  ASSUME NEW b, NEW f, Submit(b, f)
  PROVE  \/ /\ evidence' = evidence \cup b.records
            /\ batches' = batches \cup {b}
            /\ cursor' = encodeCollectionCursor(b.id)
            /\ last' = {b} /\ built' = built /\ Accepted(b)
         \/ UNCHANGED vars
<1>1. CASE Outcome(b, f) = "committed"
  <2>1. CommitResult(b, f) = "committed" /\ Accepted(b)
    BY <1>1 DEF Outcome
  <2> QED
    BY <1>1, <2>1 DEF Submit, CommitCollection
<1>2. CASE Outcome(b, f) # "committed"
  BY <1>2 DEF Submit
<1> QED
  BY <1>1, <1>2

\* Every step keeps the cursor row the one that the last batch left.
LEMMA LastStoredStep == LastStored /\ [Next]_vars => LastStored'
<1> SUFFICES ASSUME LastStored, [Next]_vars
             PROVE  LastStored'
  OBVIOUS
<1>1. CASE UNCHANGED <<cursor, evidence, batches, built, last>>
  BY <1>1 DEF LastStored, WellFormed
<1>2. CASE PutSource
  BY <1>1, <1>2 DEF PutSource, storeVars, clients
<1>3. CASE Build
  <2>1. PICK data \in Contents :
          /\ built' = built \cup {BatchOf(data, cursor)}
          /\ UNCHANGED <<cursor, evidence, batches, last>>
    BY <1>3 DEF Build, storeVars
  <2>2. WellFormed(BatchOf(data, cursor))
    BY BuiltWellFormed DEF LastStored
  <2> QED
    BY <2>1, <2>2 DEF LastStored, WellFormed
<1>4. ASSUME NEW f \in Fences, Acquire(f) \/ Release(f)
      PROVE  LastStored'
  BY <1>1, <1>4 DEF Acquire, Release, AcquireCollectionLease, ReleaseCollectionLease, clients
<1>5. ASSUME NEW f \in Fences, NEW b \in built, Submit(b, f)
      PROVE  LastStored'
  <2>1. CASE UNCHANGED vars
    BY <1>1, <2>1 DEF vars
  <2>2. CASE /\ evidence' = evidence \cup b.records
             /\ batches' = batches \cup {b}
             /\ cursor' = encodeCollectionCursor(b.id)
             /\ last' = {b} /\ built' = built /\ Accepted(b)
    <3>1. WellFormed(b)
      BY DEF LastStored
    <3>2. cursor'.seq \in Nat
      BY <2>2, <3>1 DEF WellFormed, encodeCollectionCursor
    <3> QED
      BY <2>2, <3>1, <3>2 DEF LastStored, WellFormed, encodeCollectionCursor
  <2> QED
    BY <1>5, <2>1, <2>2, SubmitCases
<1>6. CASE Expire
  BY <1>1, <1>6 DEF Expire, LeaseExpires, clients
<1>7. CASE UNCHANGED vars
  BY <1>1, <1>7 DEF vars
<1> QED
  BY <1>2, <1>3, <1>4, <1>5, <1>6, <1>7 DEF Next

\* CommitCollection: under every later lease, however many clients have come and gone,
\* the batch committed last is answered as a replay, or refused for the budget.
THEOREM IngestLastBatchReplays == Spec => []LastBatchReplays
<1>1. Init => LastStored
  BY DEF Init, StoreInit, EmptyRequest, LastStored
<1>2. LastStored => LastBatchReplays
  <2> SUFFICES ASSUME LastStored, NEW b \in last, NEW f \in Fences, LeaseCurrent(f)
               PROVE  Outcome(b, f) = IF storageBudgetAvailable(b) THEN "replayed" ELSE "budget"
    BY DEF LastBatchReplays
  <2>1. /\ Accepted(b) /\ b.id.gen # NoGeneration /\ b.id.next \in Nat
        /\ b \in batches /\ b.records \subseteq evidence /\ cursor = encodeCollectionCursor(b.id)
    BY DEF LastStored, WellFormed
  <2>2. cursor.seq = b.id.next /\ cursor.gen = b.id.gen /\ cursor.digest = b.id.digest
    BY <2>1 DEF encodeCollectionCursor
  <2>3. SameGeneration(b) /\ IsReplay(b)
    BY <2>1, <2>2 DEF SameGeneration, IsReplay
  <2>4. ~(b.id.next < cursor.seq)
    BY <2>1, <2>2
  <2>5. CommitResult(b, f) = "replayed"
    BY <2>2, <2>3, <2>4 DEF CommitResult
  <2> QED
    BY <2>1, <2>5 DEF Outcome
<1> QED
  BY <1>1, <1>2, LastStoredStep, PTL DEF Spec
-----------------------------------------------------------------------------
(* Statements in order *)

\* The last of the first m statements.
LEMMA LastOf ==
  ASSUME NEW m \in Nat \ {0}, NEW x \in SUBSET (1 .. m), m \in x
  PROVE  Max(x) = m
<1>1. \A y \in x : m >= y
  OBVIOUS
<1>2. \A z \in x : (\A y \in x : z >= y) => z = m
  OBVIOUS
<1> QED
  BY <1>1, <1>2 DEF Max

\* it runs the statements s, starting from base.
Runs(it, s, m, base) ==
  it = [x \in SUBSET (1 .. m) |-> IF x = {} THEN base ELSE Exec(it[x \ {Max(x)}], s[Max(x)])]

\* Executing the first N statements one after the other from a base is a function.
LEMMA RunsExist ==
  ASSUME NEW s, NEW base, NEW N \in Nat
  PROVE  \E it : Runs(it, s, N, base)
<1> DEFINE T == {m \in Nat : ~ \E it : Runs(it, s, m, base)}
<1> SUFFICES ASSUME T # {} PROVE FALSE
  OBVIOUS
<1>1. PICK m \in T : \A k \in T : m <= k
  BY Least
<1>2. CASE m = 0
  <2> DEFINE it == [x \in SUBSET (1 .. 0) |-> base]
  <2>1. \A x \in SUBSET (1 .. 0) : x = {}
    OBVIOUS
  <2>2. it = [x \in SUBSET (1 .. 0) |-> IF x = {} THEN base ELSE Exec(it[x \ {Max(x)}], s[Max(x)])]
    BY <2>1
  <2> QED
    BY <1>2, <2>2 DEF Runs
<1>3. CASE m # 0
  <2>1. m - 1 \in Nat /\ m - 1 \notin T
    BY <1>1, <1>3
  <2>2. PICK g : Runs(g, s, m - 1, base)
    BY <2>1
  <2> DEFINE it == [x \in SUBSET (1 .. m) |-> IF m \in x THEN Exec(g[x \ {m}], s[m]) ELSE g[x]]
  <2>3. ASSUME NEW x \in SUBSET (1 .. m)
        PROVE  it[x] = IF x = {} THEN base ELSE Exec(it[x \ {Max(x)}], s[Max(x)])
    <3>1. CASE m \in x
      <4>1. x # {} /\ Max(x) = m
        BY <1>3, <3>1, LastOf
      <4>2. x \ {m} \in SUBSET (1 .. m) /\ m \notin x \ {m}
        OBVIOUS
      <4>3. it[x \ {m}] = g[x \ {m}]
        BY <4>2
      <4>4. it[x] = Exec(g[x \ {m}], s[m])
        BY <3>1
      <4> QED
        BY <4>1, <4>3, <4>4
    <3>2. CASE m \notin x
      <4>1. x \in SUBSET (1 .. m - 1) /\ it[x] = g[x]
        BY <1>3, <3>2
      <4>2. g[x] = IF x = {} THEN base ELSE Exec(g[x \ {Max(x)}], s[Max(x)])
        BY <2>2, <4>1 DEF Runs
      <4>3. it[x \ {Max(x)}] = g[x \ {Max(x)}]
        BY <3>2
      <4> QED
        BY <4>1, <4>2, <4>3
    <3> QED
      BY <3>1, <3>2
  <2>4. it = [x \in SUBSET (1 .. m) |-> it[x]]
    OBVIOUS
  <2> HIDE DEF it
  <2>5. Runs(it, s, m, base)
    BY <2>3, <2>4 DEF Runs
  <2> QED
    BY <2>5
<1> QED
  BY <1>2, <1>3

Executed(base, s) == FoldLeft(Exec, base, s)

\* The states of the transaction: before the first statement, and after each.
LEMMA StatementByStatement ==
  ASSUME NEW s, NEW base, NEW N \in Nat, DOMAIN s = 1 .. N
  PROVE  \E f : /\ f[0] = base
                /\ \A n \in 1 .. N : f[n] = Exec(f[n - 1], s[n])
                /\ Executed(base, s) = f[N]
<1> DEFINE it == CHOOSE g : g = [x \in SUBSET DOMAIN s |-> IF x = {} THEN base ELSE Exec(g[x \ {Max(x)}], s[Max(x)])]
<1>1. Executed(base, s) = it[DOMAIN s]
  BY DEF Executed, FoldLeft, MapThenFoldSet
<1>2. Runs(it, s, N, base)
  <2>1. PICK g : Runs(g, s, N, base)
    BY RunsExist
  <2>2. g = [x \in SUBSET DOMAIN s |-> IF x = {} THEN base ELSE Exec(g[x \ {Max(x)}], s[Max(x)])]
    BY <2>1 DEF Runs
  <2>3. it = [x \in SUBSET DOMAIN s |-> IF x = {} THEN base ELSE Exec(it[x \ {Max(x)}], s[Max(x)])]
    BY <2>2
  <2> HIDE DEF it
  <2> QED
    BY <2>3 DEF Runs
<1> HIDE DEF it
<1> DEFINE f == [n \in 0 .. N |-> it[1 .. n]]
<1>3. f[0] = base
  <2>1. {} \in SUBSET (1 .. N) /\ 1 .. 0 = {}
    OBVIOUS
  <2> QED
    BY <1>2, <2>1 DEF Runs
<1>4. ASSUME NEW n \in 1 .. N PROVE f[n] = Exec(f[n - 1], s[n])
  <2> DEFINE first == 1 .. n
  <2>0. first \subseteq 1 .. N /\ n \in first
    OBVIOUS
  <2>1. first \in SUBSET (1 .. N) /\ first # {} /\ n \in 1 .. n
    BY <2>0
  <2>2. Max(1 .. n) = n
    BY <2>1, LastOf
  <2>3. (1 .. n) \ {n} = 1 .. n - 1
    OBVIOUS
  <2>4. it[first] = Exec(it[(1 .. n) \ {n}], s[n])
    BY <1>2, <2>1, <2>2 DEF Runs
  <2>5. f[n] = it[first] /\ f[n - 1] = it[1 .. n - 1]
    OBVIOUS
  <2> QED
    BY <2>3, <2>4, <2>5
<1>5. Executed(base, s) = f[N]
  BY <1>1
<1> HIDE DEF f
<1> QED
  BY <1>3, <1>4, <1>5
IsSeq(s) == s \in Seq(Range(s))

\* The length, domain and elements of a sequence.
LEMMA SeqFacts ==
  ASSUME NEW s, IsSeq(s)
  PROVE  Len(s) \in Nat /\ DOMAIN s = 1 .. Len(s) /\ \A x \in Range(s) : \E n \in 1 .. Len(s) : x = s[n]
BY LenProperties DEF IsSeq, Range

\* The elements and positions of two sequences, one after the other.
LEMMA Concatenated ==
  ASSUME NEW a, NEW b, IsSeq(a), IsSeq(b)
  PROVE  /\ IsSeq(a \o b) /\ Range(a \o b) = Range(a) \cup Range(b)
         /\ Len(a \o b) = Len(a) + Len(b)
         /\ \A n \in 1 .. Len(a) + Len(b) : (a \o b)[n] = IF n <= Len(a) THEN a[n] ELSE b[n - Len(a)]
<1> DEFINE S == Range(a) \cup Range(b)
<1>1. a \in Seq(S)
  BY SeqMonotonic DEF IsSeq
<1>2. b \in Seq(S)
  BY SeqMonotonic DEF IsSeq
<1> HIDE DEF S
<1>3. /\ a \o b \in Seq(S) /\ Len(a \o b) = Len(a) + Len(b)
      /\ \A n \in 1 .. Len(a) + Len(b) : (a \o b)[n] = IF n <= Len(a) THEN a[n] ELSE b[n - Len(a)]
  BY <1>1, <1>2, ConcatProperties
<1>4. Range(a \o b) = Range(a) \cup Range(b)
  BY <1>1, <1>2, RangeConcatenation
<1>5. a \o b \in Seq(Range(a \o b))
  BY <1>3, SeqOfRange
<1> QED
  BY <1>3, <1>4, <1>5 DEF IsSeq

\* Flattening keeps every element and its order; here only the elements matter.
Flattens(g, seqs, m) == g = [i \in 1 .. m |-> IF i = 1 THEN seqs[i] ELSE g[i - 1] \o seqs[i]]

\* Joining the first N sequences is a function.
LEMMA FlattensExist ==
  ASSUME NEW seqs, NEW N \in Nat
  PROVE  \E g : Flattens(g, seqs, N)
<1> DEFINE T == {m \in Nat : ~ \E g : Flattens(g, seqs, m)}
<1> SUFFICES ASSUME T # {} PROVE FALSE
  OBVIOUS
<1>1. PICK m \in T : \A k \in T : m <= k
  BY Least
<1>2. CASE m = 0
  <2> DEFINE g == [i \in 1 .. 0 |-> seqs]
  <2>0. 1 .. 0 = {}
    OBVIOUS
  <2>1. g = [i \in 1 .. 0 |-> IF i = 1 THEN seqs[i] ELSE g[i - 1] \o seqs[i]]
    BY <2>0, Zenon
  <2> QED
    BY <1>2, <2>1 DEF Flattens
<1>3. CASE m # 0
  <2>1. m - 1 \in Nat /\ m - 1 \notin T
    BY <1>1, <1>3
  <2>2. PICK h : Flattens(h, seqs, m - 1)
    BY <2>1
  <2> DEFINE g == [i \in 1 .. m |-> IF i < m THEN h[i] ELSE IF i = 1 THEN seqs[i] ELSE h[i - 1] \o seqs[i]]
  <2>3. ASSUME NEW i \in 1 .. m PROVE g[i] = IF i = 1 THEN seqs[i] ELSE g[i - 1] \o seqs[i]
    <3>1. CASE i < m
      <4>1. i \in 1 .. m - 1 /\ g[i] = h[i]
        BY <1>3, <3>1
      <4>2. h[i] = IF i = 1 THEN seqs[i] ELSE h[i - 1] \o seqs[i]
        BY <2>2, <4>1 DEF Flattens
      <4>3. i # 1 => g[i - 1] = h[i - 1]
        BY <3>1
      <4> QED
        BY <4>1, <4>2, <4>3
    <3>2. CASE i = m
      <4>1. g[i] = IF i = 1 THEN seqs[i] ELSE h[i - 1] \o seqs[i]
        BY <3>2
      <4>2. i # 1 => g[i - 1] = h[i - 1]
        BY <3>2
      <4> QED
        BY <4>1, <4>2
    <3> QED
      BY <3>1, <3>2
  <2>4. g = [i \in 1 .. m |-> g[i]]
    OBVIOUS
  <2> HIDE DEF g
  <2>5. Flattens(g, seqs, m)
    BY <2>3, <2>4 DEF Flattens
  <2> QED
    BY <2>5
<1> QED
  BY <1>2, <1>3

\* FlattenSeq joins sequences to one that has the elements of all.
LEMMA Flattened ==
  ASSUME NEW seqs, IsSeq(seqs), \A n \in 1 .. Len(seqs) : IsSeq(seqs[n])
  PROVE  /\ IsSeq(FlattenSeq(seqs))
         /\ Range(FlattenSeq(seqs)) = UNION {Range(seqs[n]) : n \in 1 .. Len(seqs)}
<1> DEFINE N == Len(seqs)
<1>0. N \in Nat /\ DOMAIN seqs = 1 .. N
  BY SeqFacts
<1>1. CASE N = 0
  <2>1. FlattenSeq(seqs) = seqs
    BY <1>1 DEF FlattenSeq
  <2>2. Range(seqs) = {} /\ UNION {Range(seqs[n]) : n \in 1 .. N} = {}
    BY <1>0, <1>1 DEF Range
  <2> QED
    BY <2>1, <2>2
<1>2. CASE N # 0
  <2> DEFINE g == CHOOSE h : h = [i \in 1 .. Len(seqs) |-> IF i = 1 THEN seqs[i] ELSE h[i - 1] \o seqs[i]]
  <2>1. FlattenSeq(seqs) = g[N]
    BY <1>2 DEF FlattenSeq
  <2>2. Flattens(g, seqs, N)
    BY <1>0, FlattensExist DEF Flattens
  <2> HIDE DEF g
  <2> DEFINE T == { m \in Nat : /\ m \in 1 .. N
                                /\ ~ ( /\ IsSeq(g[m])
                                       /\ Range(g[m]) = UNION {Range(seqs[n]) : n \in 1 .. m} ) }
  <2>3. T = {}
    <3> SUFFICES ASSUME T # {} PROVE FALSE
      OBVIOUS
    <3>1. PICK m \in T : \A k \in T : m <= k
      BY Least
    <3>2. CASE m = 1
      <4>1. g[1] = seqs[1] /\ IsSeq(seqs[1])
        BY <1>0, <2>2, <3>1, <3>2 DEF Flattens
      <4>2. UNION {Range(seqs[n]) : n \in 1 .. 1} = Range(seqs[1])
        OBVIOUS
      <4> QED
        BY <3>1, <3>2, <4>1, <4>2
    <3>3. CASE m # 1
      <4>1. m - 1 \in 1 .. N /\ m - 1 \notin T /\ m \in 1 .. N
        BY <1>0, <3>1, <3>3
      <4>2. IsSeq(g[m - 1]) /\ Range(g[m - 1]) = UNION {Range(seqs[n]) : n \in 1 .. m - 1}
        BY <4>1
      <4>3. g[m] = g[m - 1] \o seqs[m] /\ IsSeq(seqs[m])
        BY <1>0, <2>2, <3>3, <4>1 DEF Flattens
      <4>4. IsSeq(g[m]) /\ Range(g[m]) = Range(g[m - 1]) \cup Range(seqs[m])
        BY <4>2, <4>3, Concatenated
      <4>5. 1 .. m = (1 .. m - 1) \cup {m}
        BY <1>0, <4>1
      <4>6. UNION {Range(seqs[n]) : n \in 1 .. m} = (UNION {Range(seqs[n]) : n \in 1 .. m - 1}) \cup Range(seqs[m])
        BY <4>5
      <4> QED
        BY <3>1, <4>2, <4>4, <4>6
    <3> QED
      BY <3>2, <3>3
  <2>4. N \in 1 .. N /\ N \in Nat
    BY <1>0, <1>2
  <2> QED
    BY <2>1, <2>3, <2>4
<1> QED
  BY <1>1, <1>2
-----------------------------------------------------------------------------
(* One statement *)

Linked == {"trajectories", "responses"}

\* The columns that the properties are about exist, and no such row has the key NULL.
RowOK(t, row) ==
  /\ t = "sessions" => DOMAIN row = {"coverage"}
  /\ t \in Linked => "parent" \in DOMAIN row
  /\ t = "responses" => "completed" \in DOMAIN row

KeyOK(t, k) == t \in Linked \cup {"sessions"} => k # None

StatementOK(s) == s.t \in Tables /\ RowOK(s.t, s.row) /\ KeyOK(s.t, s.k)

DbOK(d) ==
  /\ DOMAIN d = Tables
  /\ \A t \in Tables : \A k \in DOMAIN d[t] : RowOK(t, d[t][k]) /\ KeyOK(t, k)

TxOK(tx) == DOMAIN tx = {"ok", "db"} /\ tx.ok \in BOOLEAN /\ DbOK(tx.db)

\* What LineageKept asks of two states of the tables.
Grows(d, e) ==
  /\ \A t \in Tables : DOMAIN d[t] \subseteq DOMAIN e[t]
  /\ \A t \in Linked : \A k \in DOMAIN d[t] : d[t][k].parent # None => e[t][k].parent = d[t][k].parent
  /\ \A k \in DOMAIN d.responses : d.responses[k].completed # None => e.responses[k].completed # None
  /\ \A k \in DOMAIN d.sessions : d.sessions[k].coverage # "complete" => e.sessions[k].coverage # "complete"

\* The linked tables are tables, and sessions is not one of them.
LEMMA TableNames == Linked \subseteq Tables /\ "sessions" \in Tables /\ "responses" \in Tables /\ "sessions" \notin Linked
BY DEF Linked, Tables

\* A database that keeps its rows step by step keeps them in all.
LEMMA GrowsFurther ==
  ASSUME NEW c, NEW d, NEW e, Grows(c, d), Grows(d, e)
  PROVE  Grows(c, e)
<1>1. \A t \in Tables : DOMAIN c[t] \subseteq DOMAIN e[t]
  BY DEF Grows
<1>2. \A t \in Linked : \A k \in DOMAIN c[t] : c[t][k].parent # None => e[t][k].parent = c[t][k].parent
  BY TableNames DEF Grows
<1>3. \A k \in DOMAIN c.responses : c.responses[k].completed # None => e.responses[k].completed # None
  <2>1. DOMAIN c["responses"] \subseteq DOMAIN d["responses"]
    BY TableNames DEF Grows
  <2> QED
    BY <2>1 DEF Grows
<1>4. \A k \in DOMAIN c.sessions : c.sessions[k].coverage # "complete" => e.sessions[k].coverage # "complete"
  <2>1. DOMAIN c["sessions"] \subseteq DOMAIN d["sessions"]
    BY TableNames DEF Grows
  <2> QED
    BY <2>1 DEF Grows
<1> QED
  BY <1>1, <1>2, <1>3, <1>4 DEF Grows

\* A row that replaces one with the same key.
LEMMA MergeFacts ==
  ASSUME NEW t, NEW old, NEW new, RowOK(t, old), RowOK(t, new)
  PROVE  LET row == Merge(t, old, new)
         IN  /\ RowOK(t, row)
             /\ t \in Linked => row.parent = Coalesce(old.parent, new.parent)
             /\ t = "responses" => row.completed = Coalesce(new.completed, old.completed)
             /\ t = "sessions" => row.coverage = sessionCoverage(old.coverage, new.coverage)
<1> DEFINE row == Merge(t, old, new)
<1>1. DOMAIN row = DOMAIN old
  BY DEF Merge
<1>2. RowOK(t, row)
  BY <1>1 DEF RowOK
<1>3. ASSUME t \in Linked PROVE row.parent = Coalesce(old.parent, new.parent)
  <2>1. <<t, "parent">> \in FirstKnown /\ t # "sessions" /\ "parent" \in DOMAIN old
    BY <1>3 DEF Linked, FirstKnown, RowOK
  <2> QED
    BY <2>1 DEF Merge
<1>4. ASSUME t = "responses" PROVE row.completed = Coalesce(new.completed, old.completed)
  <2>1. <<t, "completed">> \in LastKnown /\ t # "sessions" /\ "completed" \in DOMAIN old
    BY <1>4 DEF LastKnown, RowOK
  <2>2. <<t, "completed">> \notin FirstKnown
    BY DEF FirstKnown
  <2> QED
    BY <2>1, <2>2 DEF Merge
<1>5. ASSUME t = "sessions" PROVE row.coverage = sessionCoverage(old.coverage, new.coverage)
  BY <1>5 DEF RowOK, Merge
<1> HIDE DEF row
<1> QED
  BY <1>2, <1>3, <1>4, <1>5 DEF row

\* What a statement does to the transaction so far.
LEMMA ExecFacts ==
  ASSUME NEW tx, NEW s, TxOK(tx), StatementOK(s)
  PROVE  LET e == Exec(tx, s)
         IN  /\ TxOK(e) /\ Grows(tx.db, e.db) /\ (e.ok => tx.ok)
             /\ e.ok => s.k \in DOMAIN e.db[s.t]
             /\ \A t \in Tables : DOMAIN e.db[t] \subseteq DOMAIN tx.db[t] \cup {k \in {s.k} : t = s.t}
             /\ e.ok /\ s.t = "sessions" /\ s.row.coverage # "complete" => e.db.sessions[s.k].coverage # "complete"
             /\ e.ok /\ s.t \in Linked /\ s.row.parent \in DOMAIN tx.db[s.t] => e.db[s.t][s.k].parent # None
<1> DEFINE d   == tx.db
           new == existingLineageID(d, s.t, s.row)
           row == IF s.k \in DOMAIN d[s.t] THEN Merge(s.t, d[s.t][s.k], new) ELSE new
           passes == tx.ok /\ Refers(d, s.t, row) /\ (s.t = "turns" => OrdinalFree(d, s.k, row))
           e == Exec(tx, s)
<1>0. DOMAIN tx = {"ok", "db"} /\ tx.ok \in BOOLEAN /\ DbOK(d) /\ s.t \in Tables /\ DOMAIN d = Tables
  BY DEF TxOK, StatementOK, DbOK
<1>1. /\ RowOK(s.t, new)
      /\ s.t \in Linked => new.parent = IF s.row.parent \in DOMAIN d[s.t] THEN s.row.parent ELSE None
      /\ s.t \notin Linked => new = s.row
  <2>1. RowOK(s.t, s.row)
    BY DEF StatementOK
  <2>2. CASE s.t \in Linked /\ s.row.parent \notin DOMAIN d[s.t]
    <3>1. new = [s.row EXCEPT !.parent = None]
      BY <2>2 DEF existingLineageID, Linked
    <3>2. "parent" \in DOMAIN s.row
      BY <2>1, <2>2 DEF RowOK
    <3>3. DOMAIN new = DOMAIN s.row /\ new.parent = None
      BY <3>1, <3>2
    <3> QED
      BY <2>1, <2>2, <3>3 DEF RowOK
  <2>3. CASE ~(s.t \in Linked /\ s.row.parent \notin DOMAIN d[s.t])
    <3>1. new = s.row
      BY <2>3 DEF existingLineageID, Linked
    <3> QED
      BY <2>1, <2>3, <3>1
  <2> QED
    BY <2>2, <2>3
<1>2. e = IF passes
          THEN [tx EXCEPT !.db[s.t] = [k \in DOMAIN @ \cup {s.k} |-> IF k = s.k THEN row ELSE @[k]]]
          ELSE [tx EXCEPT !.ok = FALSE]
  BY DEF Exec
<1> HIDE DEF d, new, e
<1>3. ASSUME s.k \in DOMAIN d[s.t]
      PROVE  RowOK(s.t, d[s.t][s.k])
  BY <1>0, <1>3 DEF DbOK
<1>4. /\ RowOK(s.t, row)
      /\ s.t \in Linked => row.parent = IF s.k \in DOMAIN d[s.t] THEN Coalesce(d[s.t][s.k].parent, new.parent) ELSE new.parent
      /\ s.t = "responses" /\ s.k \in DOMAIN d[s.t] => row.completed = Coalesce(new.completed, d[s.t][s.k].completed)
      /\ s.t = "sessions" => row.coverage = IF s.k \in DOMAIN d[s.t] THEN sessionCoverage(d[s.t][s.k].coverage, new.coverage)
                                             ELSE new.coverage
  <2>1. CASE s.k \in DOMAIN d[s.t]
    BY <1>1, <1>3, <2>1, MergeFacts
  <2>2. CASE s.k \notin DOMAIN d[s.t]
    BY <1>1, <2>2
  <2> QED
    BY <2>1, <2>2
<1> HIDE DEF row, passes
<1>5. CASE ~passes
  <2>1. e.db = d /\ e.ok = FALSE /\ DOMAIN e = {"ok", "db"}
    BY <1>0, <1>2, <1>5 DEF d
  <2>2. Grows(d, d)
    BY DEF Grows
  <2> QED
    BY <1>0, <2>1, <2>2 DEF TxOK, e, d
<1>6. CASE passes
  <2> DEFINE table == [k \in DOMAIN d[s.t] \cup {s.k} |-> IF k = s.k THEN row ELSE d[s.t][k]]
  <2>1. e.ok = tx.ok /\ DOMAIN e = {"ok", "db"} /\ e.db = [d EXCEPT ![s.t] = table]
    BY <1>0, <1>2, <1>6 DEF d
  <2>2. DOMAIN e.db = Tables /\ e.db[s.t] = table /\ \A t \in Tables \ {s.t} : e.db[t] = d[t]
    BY <1>0, <2>1
  <2>3. /\ DOMAIN table = DOMAIN d[s.t] \cup {s.k} /\ table[s.k] = row
        /\ \A k \in DOMAIN d[s.t] \ {s.k} : table[k] = d[s.t][k]
    OBVIOUS
  <2> HIDE DEF table
  <2>4. DbOK(e.db)
    <3> SUFFICES ASSUME NEW t \in Tables, NEW k \in DOMAIN e.db[t]
                 PROVE  RowOK(t, e.db[t][k]) /\ KeyOK(t, k)
      BY <2>2 DEF DbOK
    <3>1. CASE t # s.t
      BY <1>0, <2>2, <3>1 DEF DbOK
    <3>2. CASE t = s.t /\ k = s.k
      BY <1>4, <2>2, <2>3, <3>2 DEF StatementOK
    <3>3. CASE t = s.t /\ k # s.k
      BY <1>0, <2>2, <2>3, <3>3 DEF DbOK
    <3> QED
      BY <3>1, <3>2, <3>3
  <2>5. Grows(d, e.db)
    <3>1. \A t \in Tables : DOMAIN d[t] \subseteq DOMAIN e.db[t]
      BY <2>2, <2>3
    <3>2. ASSUME NEW t \in Linked, NEW k \in DOMAIN d[t], d[t][k].parent # None
          PROVE  e.db[t][k].parent = d[t][k].parent
      BY <1>4, <2>2, <2>3, <3>2, TableNames DEF Coalesce
    <3>3. ASSUME NEW k \in DOMAIN d["responses"], d["responses"][k].completed # None
          PROVE  e.db["responses"][k].completed # None
      BY <1>4, <2>2, <2>3, <3>3, TableNames DEF Coalesce
    <3>4. ASSUME NEW k \in DOMAIN d["sessions"], d["sessions"][k].coverage # "complete"
          PROVE  e.db["sessions"][k].coverage # "complete"
      BY <1>4, <2>2, <2>3, <3>4, TableNames DEF sessionCoverage
    <3> QED
      BY <3>1, <3>2, <3>3, <3>4 DEF Grows
  <2>6. s.k \in DOMAIN e.db[s.t]
    BY <2>2, <2>3
  <2>7. \A t \in Tables : DOMAIN e.db[t] \subseteq DOMAIN d[t] \cup {k \in {s.k} : t = s.t}
    BY <2>2, <2>3
  <2>8. ASSUME s.t = "sessions", s.row.coverage # "complete" PROVE e.db["sessions"][s.k].coverage # "complete"
    BY <1>1, <1>4, <2>2, <2>3, <2>8, TableNames DEF sessionCoverage
  <2>9. ASSUME s.t \in Linked, s.row.parent \in DOMAIN d[s.t] PROVE e.db[s.t][s.k].parent # None
    <3>1. s.row.parent # None
      BY <1>0, <2>9 DEF DbOK, KeyOK
    <3> QED
      BY <1>1, <1>4, <2>2, <2>3, <2>9, <3>1 DEF Coalesce
  <2> QED
    BY <1>0, <2>1, <2>4, <2>5, <2>6, <2>7, <2>8, <2>9 DEF TxOK, e, d
<1> QED
  BY <1>5, <1>6
-----------------------------------------------------------------------------
(* The statements of an item *)

Good(A) == IsSeq(A) /\ \A s \in Range(A) : StatementOK(s)

\* Statements whose rows are well-formed, after others, are.
LEMMA GoodConcat ==
  ASSUME NEW a, NEW b, Good(a), Good(b)
  PROVE  Good(a \o b) /\ Range(a \o b) = Range(a) \cup Range(b)
BY Concatenated DEF Good

\* One well-formed row.
LEMMA GoodRow ==
  ASSUME NEW t \in Tables, NEW k, NEW row, RowOK(t, row), KeyOK(t, k)
  PROVE  LET x == [t |-> t, k |-> k, row |-> row] IN Good(<<x>>) /\ Range(<<x>>) = {x}
<1> DEFINE x == [t |-> t, k |-> k, row |-> row]
<1>1. StatementOK(x)
  BY DEF StatementOK
<1> HIDE DEF x
<1>2. <<x>> \in Seq({x}) /\ DOMAIN <<x>> = {1} /\ <<x>>[1] = x
  OBVIOUS
<1>3. Range(<<x>>) = {x}
  BY <1>2 DEF Range
<1>4. Good(<<x>>) /\ Range(<<x>>) = {x}
  BY <1>1, <1>2, <1>3 DEF Good, IsSeq
<1> QED
  BY <1>4 DEF x

\* No statement at all.
LEMMA GoodNone == Good(<< >>) /\ Range(<< >>) = {}
<1>1. Range(<< >>) = {} /\ << >> \in Seq({})
  BY DEF Range
<1> QED
  BY <1>1 DEF Good, IsSeq

\* A conditional row of a table that no parent is looked up in.
LEMMA GoodElsewhere ==
  ASSUME NEW c, NEW t \in Tables, t \notin Linked, t # "sessions", NEW k, NEW row
  PROVE  Good(When(c, t, k, row)) /\ \A s \in Range(When(c, t, k, row)) : s.t = t
<1> DEFINE x == [t |-> t, k |-> k, row |-> row]
<1>1. RowOK(t, row) /\ KeyOK(t, k)
  BY DEF RowOK, KeyOK, Linked
<1>2. Good(<<x>>) /\ Range(<<x>>) = {x} /\ x.t = t
  BY <1>1, GoodRow
<1>3. When(c, t, k, row) = IF c THEN <<x>> ELSE << >>
  BY DEF When
<1> HIDE DEF x
<1> QED
  BY <1>2, <1>3, GoodNone

\* The rows of an event.
LEMMA GoodEvent ==
  ASSUME NEW id, NEW kind, NEW c, NEW columns
  PROVE  Good(Event(id, kind, c, columns))
<1>1. "execution_events" \in Tables /\ "execution_events" \notin Linked
  BY DEF Tables, Linked
<1> QED
  BY <1>1, GoodElsewhere DEF Event

SessionRow(i, l) == [t |-> "sessions", k |-> l.session, row |-> [coverage |-> i.coverage]]
TrajectoryRow(l) == [t |-> "trajectories", k |-> l.trajectory, row |-> [session |-> l.session, parent |-> l.parent]]
ResponseRow(i, l) ==
  [ t |-> "responses", k |-> l.response,
    row |-> [ turn |-> l.turn, parent |-> l.parentResponse, model |-> Get(i.a, "model_variant"),
              completed |-> IF Get(i.a, "response_event") = "completed" THEN i.id ELSE None ] ]

\* persistEvidenceLineage writes the session, trajectory and response a record names.
LEMMA SpineFacts ==
  ASSUME NEW i, NEW l, l.session # None
  PROVE  LET A == persistSpine(i, l)
         IN  /\ Good(A) /\ SessionRow(i, l) \in Range(A)
             /\ l.trajectory # None => TrajectoryRow(l) \in Range(A)
             /\ l.response # None /\ l.turn # None => ResponseRow(i, l) \in Range(A)
<1> DEFINE a1 == When(TRUE, "sessions", l.session, [coverage |-> i.coverage])
           a2 == When(l.trajectory # None, "trajectories", l.trajectory, [session |-> l.session, parent |-> l.parent])
           a3 == When(l.task # None, "tasks", l.task, [attribution |-> normalizedAttributionState(i.a)])
           a4 == When(l.turn # None /\ l.trajectory # None /\ l.ordinal # None, "turns", l.turn,
                      [trajectory |-> l.trajectory, ordinal |-> l.ordinal, task |-> l.task])
           row == [ turn |-> l.turn, parent |-> l.parentResponse, model |-> Get(i.a, "model_variant"),
                    completed |-> IF Get(i.a, "response_event") = "completed" THEN i.id ELSE None ]
           a5 == When(l.response # None /\ l.turn # None, "responses", l.response, row)
<1>1. Good(a1) /\ SessionRow(i, l) \in Range(a1)
  <2>1. RowOK("sessions", [coverage |-> i.coverage]) /\ KeyOK("sessions", l.session)
    BY DEF RowOK, KeyOK, Linked
  <2> QED
    BY <2>1, TableNames, GoodRow DEF SessionRow, When
<1>2. Good(a2) /\ (l.trajectory # None => TrajectoryRow(l) \in Range(a2))
  <2>1. "trajectories" \in Tables /\ RowOK("trajectories", [session |-> l.session, parent |-> l.parent])
    BY DEF RowOK, Tables
  <2>2. l.trajectory # None => KeyOK("trajectories", l.trajectory)
    BY DEF KeyOK
  <2>3. CASE l.trajectory # None
    <3>1. a2 = <<TrajectoryRow(l)>>
      BY <2>3 DEF When, TrajectoryRow
    <3> QED
      BY <2>1, <2>2, <2>3, <3>1, GoodRow DEF TrajectoryRow
  <2>4. CASE l.trajectory = None
    BY <2>4, GoodNone DEF When
  <2> QED
    BY <2>3, <2>4
<1>3. Good(a3)
  <2>1. "tasks" \in Tables /\ "tasks" \notin Linked
    BY DEF Tables, Linked
  <2> QED
    BY <2>1, GoodElsewhere
<1>4. Good(a4)
  <2>1. "turns" \in Tables /\ "turns" \notin Linked
    BY DEF Tables, Linked
  <2> QED
    BY <2>1, GoodElsewhere
<1>5. Good(a5) /\ (l.response # None /\ l.turn # None => ResponseRow(i, l) \in Range(a5))
  <2>1. RowOK("responses", row)
    BY DEF RowOK
  <2>2. ResponseRow(i, l) = [t |-> "responses", k |-> l.response, row |-> row]
    BY DEF ResponseRow
  <2>3. l.response # None => KeyOK("responses", l.response)
    BY DEF KeyOK
  <2> HIDE DEF row
  <2>4. CASE l.response # None /\ l.turn # None
    <3>1. a5 = <<[t |-> "responses", k |-> l.response, row |-> row]>>
      BY <2>4 DEF When
    <3> QED
      BY <2>1, <2>2, <2>3, <2>4, <3>1, TableNames, GoodRow
  <2>5. CASE ~(l.response # None /\ l.turn # None)
    BY <2>5, GoodNone DEF When
  <2> QED
    BY <2>4, <2>5
<1>6. persistSpine(i, l) = (((a1 \o a2) \o a3) \o a4) \o a5
  BY DEF persistSpine
<1> HIDE DEF a1, a2, a3, a4, a5
<1>7. Good(a1 \o a2) /\ Range(a1 \o a2) = Range(a1) \cup Range(a2)
  BY <1>1, <1>2, GoodConcat
<1>8. Good((a1 \o a2) \o a3) /\ Range((a1 \o a2) \o a3) = Range(a1 \o a2) \cup Range(a3)
  BY <1>3, <1>7, GoodConcat
<1>9. /\ Good(((a1 \o a2) \o a3) \o a4)
      /\ Range(((a1 \o a2) \o a3) \o a4) = Range((a1 \o a2) \o a3) \cup Range(a4)
  BY <1>4, <1>8, GoodConcat
<1>10. /\ Good((((a1 \o a2) \o a3) \o a4) \o a5)
       /\ Range((((a1 \o a2) \o a3) \o a4) \o a5) = Range(((a1 \o a2) \o a3) \o a4) \cup Range(a5)
  BY <1>5, <1>9, GoodConcat
<1> QED
  BY <1>1, <1>2, <1>5, <1>6, <1>7, <1>8, <1>9, <1>10

\* The tool calls of a record.
LEMMA GoodCalls ==
  ASSUME NEW i, NEW l
  PROVE  Good(persistCalls(i, l))
<1>1. /\ {"phases", "items", "state_epochs", "tool_calls"} \subseteq Tables
      /\ "phases" \notin Linked /\ "items" \notin Linked /\ "state_epochs" \notin Linked /\ "tool_calls" \notin Linked
  BY DEF Tables, Linked
<1>2. \A c, k, row : /\ Good(When(c, "phases", k, row)) /\ Good(When(c, "items", k, row))
                     /\ Good(When(c, "state_epochs", k, row)) /\ Good(When(c, "tool_calls", k, row))
  BY <1>1, GoodElsewhere
<1> DEFINE a1 == When(RuntimePhase(i, l), "phases", RuntimePhaseID(i), [trajectory |-> l.trajectory, response |-> l.response])
           a2 == When(ToolPhase(l), "phases", ToolPhaseID(l), [trajectory |-> l.trajectory, response |-> l.response])
           a3 == When(l.response # None /\ Get(i.a, "output_modality") # None, "items", i.id, [response |-> l.response])
           a4 == When(Get(i.a, "state_epoch") # None /\ l.trajectory # None, "state_epochs", Get(i.a, "state_epoch"),
                      [trajectory |-> l.trajectory, mutation |-> Coalesce(Get(i.a, "mutation_state"), "unknown")])
           a5 == When(l.tool # None /\ l.response # None, "tool_calls", l.tool,
                      [ response |-> l.response, phase |-> IF ToolPhase(l) THEN ToolPhaseID(l) ELSE None,
                        epoch |-> Get(i.a, "state_epoch"), outcome |-> Get(i.a, "tool_outcome") ])
<1>3. persistCalls(i, l) = (((a1 \o a2) \o a3) \o a4) \o a5
  BY DEF persistCalls
<1>4. Good(a1) /\ Good(a2) /\ Good(a3) /\ Good(a4) /\ Good(a5)
  BY <1>2
<1> HIDE DEF a1, a2, a3, a4, a5
<1>5. Good((a1 \o a2) \o a3)
  BY <1>4, GoodConcat
<1> QED
  BY <1>3, <1>4, <1>5, GoodConcat

\* The events of a record.
LEMMA GoodEvents ==
  ASSUME NEW i, NEW l
  PROVE  Good(persistEvents(i, l))
<1> DEFINE phase == IF ToolPhase(l) THEN ToolPhaseID(l) ELSE IF RuntimePhase(i, l) THEN RuntimePhaseID(i) ELSE None
           a1 == Event(i.id, "delegation", Get(i.a, "delegation_event") # None /\ l.trajectory # None,
                       [trajectory |-> l.trajectory, parent |-> l.parent])
           a2 == Event(i.id, "compaction", Get(i.a, "compaction_event") # None /\ l.trajectory # None,
                       [trajectory |-> l.trajectory, response |-> l.response])
           a3 == Event(i.id, "stop", Get(i.a, "stop_event") # None /\ l.trajectory # None,
                       [trajectory |-> l.trajectory, phase |-> phase])
           a4 == Event(i.id, "checkpoint", Get(i.a, "checkpoint_event") # None, [session |-> l.session])
           a5 == Event(i.id, "boundary", Get(i.a, "boundary_event") # None, [session |-> l.session])
<1>1. persistEvents(i, l) = (((a1 \o a2) \o a3) \o a4) \o a5
  BY DEF persistEvents
<1>2. Good(a1) /\ Good(a2) /\ Good(a3) /\ Good(a4) /\ Good(a5)
  BY GoodEvent
<1> HIDE DEF a1, a2, a3, a4, a5
<1>3. Good((a1 \o a2) \o a3)
  BY <1>2, GoodConcat
<1> QED
  BY <1>1, <1>2, <1>3, GoodConcat

\* The replay snapshots of a record.
LEMMA GoodSnapshots ==
  ASSUME NEW i, NEW l
  PROVE  Good(persistReplaySnapshots(i, l))
<1> DEFINE a1 == Event(i.id, "plan", anyAttribute(i.a, PlanFields), [session |-> l.session])
           a2 == Event(i.id, "budget", anyAttribute(i.a, BudgetFields),
                       [session |-> l.session, related |-> <<i.id, "plan">>])
           a3 == Event(i.id, "policy", anyAttribute(i.a, PolicyFields), [session |-> l.session])
           a4 == Event(i.id, "host", anyAttribute(i.a, HostFields), [session |-> l.session])
<1>1. persistReplaySnapshots(i, l) = ((a1 \o a2) \o a3) \o a4
  BY DEF persistReplaySnapshots
<1>2. Good(a1) /\ Good(a2) /\ Good(a3) /\ Good(a4)
  BY GoodEvent
<1> HIDE DEF a1, a2, a3, a4
<1>3. Good((a1 \o a2) \o a3)
  BY <1>2, GoodConcat
<1> QED
  BY <1>1, <1>2, <1>3, GoodConcat

\* The rows persistEvidenceLineage writes for an item.
LEMMA LineageStatements ==
  ASSUME NEW i
  PROVE  LET A == persistEvidenceLineage(i)
             l == ParseLineage(i.a)
         IN  /\ Good(A)
             /\ l.session # None =>
                  /\ SessionRow(i, l) \in Range(A)
                  /\ l.trajectory # None => TrajectoryRow(l) \in Range(A)
                  /\ l.response # None /\ l.turn # None => ResponseRow(i, l) \in Range(A)
<1> DEFINE l == ParseLineage(i.a)
           A == persistEvidenceLineage(i)
<1>1. CASE l.session = None
  <2>1. A = << >>
    BY <1>1 DEF persistEvidenceLineage
  <2> QED
    BY <1>1, <2>1, GoodNone
<1>2. CASE l.session # None
  <2> DEFINE a == persistSpine(i, l)
             b == persistCalls(i, l)
             c == persistEvents(i, l)
             d == persistReplaySnapshots(i, l)
  <2>1. A = ((a \o b) \o c) \o d
    BY <1>2 DEF persistEvidenceLineage
  <2>2. /\ Good(a) /\ SessionRow(i, l) \in Range(a)
        /\ l.trajectory # None => TrajectoryRow(l) \in Range(a)
        /\ l.response # None /\ l.turn # None => ResponseRow(i, l) \in Range(a)
    BY <1>2, SpineFacts
  <2>3. Good(b) /\ Good(c) /\ Good(d)
    BY GoodCalls, GoodEvents, GoodSnapshots
  <2> HIDE DEF a, b, c, d
  <2>4. Good((a \o b) \o c) /\ Range(a) \subseteq Range((a \o b) \o c)
    BY <2>2, <2>3, GoodConcat
  <2>5. Good(((a \o b) \o c) \o d) /\ Range(a) \subseteq Range(((a \o b) \o c) \o d)
    BY <2>3, <2>4, GoodConcat
  <2> QED
    BY <2>1, <2>2, <2>5
<1> QED
  BY <1>1, <1>2

\* persistRuntimeObservations writes to no table of the lineage.
LEMMA ObservationStatements ==
  ASSUME NEW i
  PROVE  LET C == persistRuntimeObservations(i)
         IN  Good(C) /\ \A s \in Range(C) : s.t \notin Linked
<1>1. /\ "evidence_links" \in Tables /\ "evidence_links" \notin Linked
      /\ "observations" \in Tables /\ "observations" \notin Linked
  BY DEF Tables, Linked
<1> DEFINE OK(A) == Good(A) /\ \A s \in Range(A) : s.t \notin Linked
<1>2. \A c, k, row : OK(When(c, "evidence_links", k, row)) /\ OK(When(c, "observations", k, row))
  BY <1>1, GoodElsewhere
<1>3. \A A, B : OK(A) /\ OK(B) => OK(A \o B)
  BY GoodConcat
<1> HIDE DEF OK
<1> DEFINE l == ParseLineage(i.a)
           observed == [trajectory |-> l.trajectory, response |-> l.response]
           neither  == [trajectory |-> None, response |-> None]
           a1 == When(l.trajectory # None, "evidence_links", i.id, [target |-> l.trajectory])
           a2 == When(TRUE, "observations", <<i.id, "assertion">>, neither)
           a3 == When(Project # None /\ Get(i.a, "task_attribution_state") # None, "observations",
                      <<i.id, "attribution">>, neither)
           a4 == When(Get(i.a, "usage_kind") # None /\ Get(i.a, "usage_value") # None, "observations",
                      <<i.id, "usage">>, observed)
           a5 == When(Get(i.a, "cache_kind") # None /\ Get(i.a, "cache_value") # None, "observations",
                      <<i.id, "cache">>, observed)
<1>4. persistRuntimeObservations(i) = (((a1 \o a2) \o a3) \o a4) \o a5
  BY DEF persistRuntimeObservations
<1>5. OK(a1) /\ OK(a2) /\ OK(a3) /\ OK(a4) /\ OK(a5)
  BY <1>2
<1> HIDE DEF a1, a2, a3, a4, a5
<1>6. OK((a1 \o a2) \o a3)
  BY <1>3, <1>5
<1>7. OK((((a1 \o a2) \o a3) \o a4) \o a5)
  BY <1>3, <1>5, <1>6
<1> QED
  BY <1>4, <1>7 DEF OK
-----------------------------------------------------------------------------
(* The statements of a batch *)

\* f holds the states of a transaction that runs the statements s.
Transaction(f, s, N) ==
  /\ TxOK(f[0])
  /\ \A n \in 1 .. N : f[n] = Exec(f[n - 1], s[n]) /\ StatementOK(s[n])

\* A transaction keeps the database well-formed after each of its statements.
LEMMA TransactionOK ==
  ASSUME NEW f, NEW s, NEW N \in Nat, Transaction(f, s, N)
  PROVE  \A n \in 0 .. N : TxOK(f[n])
<1> DEFINE T == {n \in Nat : n \in 0 .. N /\ ~TxOK(f[n])}
<1> SUFFICES ASSUME T # {} PROVE FALSE
  OBVIOUS
<1>1. PICK m \in T : \A k \in T : m <= k
  BY Least
<1>2. m # 0
  BY <1>1 DEF Transaction
<1>3. m - 1 \in 0 .. N /\ m - 1 \notin T /\ m \in 1 .. N
  BY <1>1, <1>2
<1>4. TxOK(f[m - 1]) /\ f[m] = Exec(f[m - 1], s[m]) /\ StatementOK(s[m])
  BY <1>3 DEF Transaction
<1>5. TxOK(f[m])
  BY <1>4, ExecFacts
<1> QED
  BY <1>1, <1>5

\* A transaction removes no row and, once it failed, has failed.
LEMMA TransactionGrows ==
  ASSUME NEW f, NEW s, NEW N \in Nat, Transaction(f, s, N), NEW m \in 0 .. N
  PROVE  \A n \in m .. N : Grows(f[m].db, f[n].db) /\ (f[n].ok => f[m].ok)
<1> DEFINE OK(n) == Grows(f[m].db, f[n].db) /\ (f[n].ok => f[m].ok)
           T == {n \in Nat : n \in m .. N /\ ~OK(n)}
<1> SUFFICES ASSUME T # {} PROVE FALSE
  OBVIOUS
<1>1. PICK n \in T : \A k \in T : n <= k
  BY Least
<1>2. n # m
  <2>1. OK(m)
    BY DEF Grows
  <2> QED
    BY <1>1, <2>1
<1>3. n - 1 \in m .. N /\ n - 1 \notin T /\ n \in 1 .. N /\ n - 1 \in 0 .. N
  BY <1>1, <1>2
<1>4. OK(n - 1)
  BY <1>3
<1>5. TxOK(f[n - 1]) /\ f[n] = Exec(f[n - 1], s[n]) /\ StatementOK(s[n])
  BY <1>3, TransactionOK DEF Transaction
<1>6. Grows(f[n - 1].db, f[n].db) /\ (f[n].ok => f[n - 1].ok)
  BY <1>5, ExecFacts
<1>7. OK(n)
  BY <1>4, <1>6, GrowsFurther
<1> QED
  BY <1>1, <1>7

\* The statements of a batch are those of its items.
LEMMA ItemStatements ==
  ASSUME NEW items, NEW N \in Nat, items = [n \in 1 .. N |-> items[n]]
  PROVE  /\ Good(Statements(items, persistEvidenceLineage))
         /\ \A n \in 1 .. N :
              Range(persistEvidenceLineage(items[n])) \subseteq Range(Statements(items, persistEvidenceLineage))
         /\ Good(Statements(items, persistRuntimeObservations))
         /\ \A s \in Range(Statements(items, persistRuntimeObservations)) : s.t \notin Linked
<1> DEFINE a == [n \in DOMAIN items |-> persistEvidenceLineage(items[n])]
           c == [n \in DOMAIN items |-> persistRuntimeObservations(items[n])]
           A == Statements(items, persistEvidenceLineage)
           C == Statements(items, persistRuntimeObservations)
<1>1. A = FlattenSeq(a) /\ C = FlattenSeq(c)
  BY DEF Statements
<1>2. DOMAIN items = 1 .. N
  OBVIOUS
<1>3. /\ a \in [1 .. N -> Range(a)] /\ DOMAIN a = 1 .. N
      /\ c \in [1 .. N -> Range(c)] /\ DOMAIN c = 1 .. N
  BY <1>2 DEF Range
<1>4. \A n \in 1 .. N : a[n] = persistEvidenceLineage(items[n]) /\ c[n] = persistRuntimeObservations(items[n])
  BY <1>2
<1> HIDE DEF a, c, A, C
<1>5. IsSeq(a) /\ Len(a) = N /\ IsSeq(c) /\ Len(c) = N
  BY <1>3 DEF IsSeq
<1>6. \A n \in 1 .. N : /\ Good(a[n]) /\ Good(c[n]) /\ \A s \in Range(c[n]) : s.t \notin Linked
  BY <1>4, LineageStatements, ObservationStatements
<1>7. IsSeq(A) /\ Range(A) = UNION {Range(a[n]) : n \in 1 .. N}
  BY <1>1, <1>5, <1>6, Flattened DEF Good
<1>8. IsSeq(C) /\ Range(C) = UNION {Range(c[n]) : n \in 1 .. N}
  BY <1>1, <1>5, <1>6, Flattened DEF Good
<1>9. Good(A) /\ Good(C) /\ \A s \in Range(C) : s.t \notin Linked
  BY <1>6, <1>7, <1>8 DEF Good
<1>10. \A n \in 1 .. N : Range(persistEvidenceLineage(items[n])) \subseteq Range(A)
  BY <1>4, <1>7
<1> QED
  BY <1>9, <1>10 DEF A, C

\* What a parent or a coverage statement leaves behind, in every later state.
LEMMA AfterStatement ==
  ASSUME NEW f, NEW s, NEW N \in Nat, Transaction(f, s, N), NEW n \in 1 .. N, f[N].ok
  PROVE  /\ s[n].k \in DOMAIN f[N].db[s[n].t] /\ s[n].k \in DOMAIN f[n].db[s[n].t]
         /\ s[n].t = "sessions" /\ s[n].row.coverage # "complete" =>
              f[N].db["sessions"][s[n].k].coverage # "complete"
         /\ s[n].t \in Linked /\ s[n].row.parent \in DOMAIN f[n - 1].db[s[n].t] =>
              f[N].db[s[n].t][s[n].k].parent # None
<1>1. TxOK(f[n - 1]) /\ f[n] = Exec(f[n - 1], s[n]) /\ StatementOK(s[n])
  BY TransactionOK DEF Transaction
<1>2. Grows(f[n].db, f[N].db) /\ f[n].ok
  <2>1. n \in 0 .. N /\ N \in n .. N
    OBVIOUS
  <2> QED
    BY <2>1, TransactionGrows
<1>3. /\ s[n].k \in DOMAIN f[n].db[s[n].t]
      /\ s[n].t = "sessions" /\ s[n].row.coverage # "complete" => f[n].db["sessions"][s[n].k].coverage # "complete"
      /\ s[n].t \in Linked /\ s[n].row.parent \in DOMAIN f[n - 1].db[s[n].t] => f[n].db[s[n].t][s[n].k].parent # None
  BY <1>1, <1>2, ExecFacts
<1>4. s[n].t \in Tables
  BY <1>1 DEF StatementOK
<1> QED
  BY <1>2, <1>3, <1>4, TableNames DEF Grows
\* The statements of CommitCollection: the lineage A twice, then the observations C.
TwoPasses(f, A, C) ==
  /\ Good(A) /\ Good(C) /\ \A s \in Range(C) : s.t \notin Linked
  /\ Transaction(f, (A \o A) \o C, Len(A) + Len(A) + Len(C))

\* The lineage is written twice, then the observations.
LEMMA PassesInOrder ==
  ASSUME NEW A, NEW C, Good(A), Good(C)
  PROVE  LET todo == (A \o A) \o C
             P == Len(A)
             N == P + P + Len(C)
         IN  /\ P \in Nat /\ Len(C) \in Nat /\ N \in Nat /\ DOMAIN todo = 1 .. N
             /\ \A n \in 1 .. P : todo[n] = A[n] /\ todo[P + n] = A[n]
             /\ \A n \in P + P + 1 .. N : todo[n] \in Range(C)
             /\ \A n \in 1 .. N : StatementOK(todo[n])
<1> DEFINE AA == A \o A
           todo == AA \o C
           P == Len(A)
           N == P + P + Len(C)
<1>1. IsSeq(A) /\ IsSeq(C) /\ P \in Nat /\ Len(C) \in Nat
  BY SeqFacts DEF Good
<1>2. /\ IsSeq(AA) /\ Len(AA) = P + P
      /\ \A n \in 1 .. P + P : AA[n] = IF n <= P THEN A[n] ELSE A[n - P]
  BY <1>1, Concatenated
<1>3. Good(AA)
  BY GoodConcat
<1> HIDE DEF AA
<1>4. /\ IsSeq(todo) /\ Len(todo) = N
      /\ \A n \in 1 .. N : todo[n] = IF n <= P + P THEN AA[n] ELSE C[n - (P + P)]
  BY <1>1, <1>2, Concatenated
<1>5. Good(todo)
  BY <1>3, GoodConcat
<1>6. DOMAIN todo = 1 .. N
  BY <1>4, SeqFacts
<1> HIDE DEF todo
<1>7. \A n \in 1 .. P : todo[n] = A[n] /\ todo[P + n] = A[n]
  BY <1>1, <1>2, <1>4
<1>8. ASSUME NEW n \in P + P + 1 .. N PROVE todo[n] \in Range(C)
  <2>1. n - (P + P) \in 1 .. Len(C) /\ todo[n] = C[n - (P + P)]
    BY <1>1, <1>4
  <2> QED
    BY <1>1, <2>1, SeqFacts DEF Range
<1>9. \A n \in 1 .. N : StatementOK(todo[n])
  BY <1>5, <1>6 DEF Good, Range
<1> QED
  BY <1>1, <1>6, <1>7, <1>8, <1>9 DEF todo, AA

\* After the first pass no trajectory and no response is new.
LEMMA NoNewKeys ==
  ASSUME NEW f, NEW A, NEW C, TwoPasses(f, A, C), f[Len(A) + Len(A) + Len(C)].ok, NEW t \in Linked
  PROVE  \A n \in Len(A) .. Len(A) + Len(A) + Len(C) : DOMAIN f[n].db[t] \subseteq DOMAIN f[Len(A)].db[t]
<1> DEFINE todo == (A \o A) \o C
           P == Len(A)
           N == P + P + Len(C)
           T == {n \in Nat : n \in P .. N /\ ~(DOMAIN f[n].db[t] \subseteq DOMAIN f[P].db[t])}
<1>0. /\ P \in Nat /\ Len(C) \in Nat /\ N \in Nat
      /\ \A n \in 1 .. P : todo[n] = A[n] /\ todo[P + n] = A[n]
      /\ \A n \in P + P + 1 .. N : todo[n] \in Range(C)
  BY PassesInOrder DEF TwoPasses
<1>1. Transaction(f, todo, N) /\ f[N].ok /\ \A s \in Range(C) : s.t \notin Linked
  BY DEF TwoPasses
<1> HIDE DEF todo
<1> SUFFICES ASSUME T # {} PROVE FALSE
  BY <1>0
<1>2. PICK n \in T : \A k \in T : n <= k
  BY Least
<1>3. n # P
  BY <1>2
<1>4. n \in 1 .. N /\ n - 1 \in P .. N /\ n - 1 \notin T /\ n > P /\ n - 1 \in 0 .. N
  BY <1>0, <1>2, <1>3
<1>5. DOMAIN f[n - 1].db[t] \subseteq DOMAIN f[P].db[t]
  BY <1>0, <1>4
<1>6. TxOK(f[n - 1]) /\ f[n] = Exec(f[n - 1], todo[n]) /\ StatementOK(todo[n])
  BY <1>0, <1>1, <1>4, TransactionOK DEF Transaction
<1>7. DOMAIN f[n].db[t] \subseteq DOMAIN f[n - 1].db[t] \cup {k \in {todo[n].k} : t = todo[n].t}
  BY <1>6, ExecFacts, TableNames
<1>8. ASSUME todo[n].t = t PROVE todo[n].k \in DOMAIN f[P].db[t]
  <2>1. n <= P + P
    BY <1>0, <1>1, <1>4, <1>8
  <2>2. n - P \in 1 .. P /\ n - P \in 1 .. N /\ n - P \in 0 .. N /\ P \in n - P .. N /\ n = P + (n - P)
    BY <1>0, <1>4, <2>1
  <2>3. todo[n] = todo[n - P]
    BY <1>0, <2>2
  <2>4. todo[n - P].k \in DOMAIN f[n - P].db[todo[n - P].t]
    BY <1>0, <1>1, <2>2, AfterStatement
  <2>5. Grows(f[n - P].db, f[P].db)
    BY <1>0, <1>1, <2>2, TransactionGrows
  <2> QED
    BY <1>8, <2>3, <2>4, <2>5, TableNames DEF Grows
<1>9. DOMAIN f[n].db[t] \subseteq DOMAIN f[P].db[t]
  BY <1>5, <1>7, <1>8
<1> QED
  BY <1>2, <1>9

\* "A second bounded pass resolves explicit parents that appeared later".
LEMMA ParentsResolved ==
  ASSUME NEW f, NEW A, NEW C, TwoPasses(f, A, C), NEW s \in Range(A), s.t \in Linked,
         f[Len(A) + Len(A) + Len(C)].ok,
         s.row.parent \in DOMAIN f[Len(A) + Len(A) + Len(C)].db[s.t]
  PROVE  f[Len(A) + Len(A) + Len(C)].db[s.t][s.k].parent # None
<1> DEFINE todo == (A \o A) \o C
           P == Len(A)
           N == P + P + Len(C)
<1>0. /\ P \in Nat /\ Len(C) \in Nat /\ N \in Nat
      /\ \A n \in 1 .. P : todo[n] = A[n] /\ todo[P + n] = A[n]
  BY PassesInOrder DEF TwoPasses
<1>1. Transaction(f, todo, N) /\ f[N].ok
  BY DEF TwoPasses
<1> HIDE DEF todo
<1>2. PICK n \in 1 .. P : s = A[n]
  BY SeqFacts DEF TwoPasses, Good
<1>3. P + n \in 1 .. N /\ P + n - 1 \in 0 .. N /\ P \in 0 .. N /\ P + n - 1 \in P .. N /\ N \in P .. N
  BY <1>0
<1>4. todo[P + n] = s
  BY <1>0, <1>2
<1>5. s.row.parent \in DOMAIN f[P].db[s.t]
  BY <1>1, <1>3, NoNewKeys
<1>6. Grows(f[P].db, f[P + n - 1].db)
  BY <1>0, <1>1, <1>3, TransactionGrows
<1>7. s.row.parent \in DOMAIN f[P + n - 1].db[s.t]
  BY <1>5, <1>6, TableNames DEF Grows
<1> QED
  BY <1>0, <1>1, <1>3, <1>4, <1>7, AfterStatement

\* CommitCollection's lineage, as a whole.
LEMMA PersistFacts ==
  ASSUME DbOK(db), NEW items, NEW M \in Nat, items = [n \in 1 .. M |-> items[n]]
  PROVE  LET tx == PersistBatch(items)
         IN  /\ TxOK(tx) /\ Grows(db, tx.db)
             /\ tx.ok =>
                  \A n \in 1 .. M :
                    LET i == items[n]
                        l == ParseLineage(i.a)
                    IN  l.session # None =>
                          /\ l.session \in DOMAIN tx.db.sessions
                          /\ i.coverage # "complete" => tx.db.sessions[l.session].coverage # "complete"
                          /\ l.trajectory # None /\ l.parent \in DOMAIN tx.db.trajectories =>
                               tx.db.trajectories[l.trajectory].parent # None
                          /\ l.response # None /\ l.turn # None /\ l.parentResponse \in DOMAIN tx.db.responses =>
                               tx.db.responses[l.response].parent # None
<1> DEFINE A == Statements(items, persistEvidenceLineage)
           C == Statements(items, persistRuntimeObservations)
           todo == (A \o A) \o C
           P == Len(A)
           N == P + P + Len(C)
           base == [ok |-> TRUE, db |-> db]
           tx == PersistBatch(items)
<1>1. tx = Executed(base, todo)
  BY DEF PersistBatch, Executed
<1>2. /\ Good(A) /\ Good(C) /\ \A s \in Range(C) : s.t \notin Linked
      /\ \A n \in 1 .. M : Range(persistEvidenceLineage(items[n])) \subseteq Range(A)
  BY ItemStatements
<1> HIDE DEF A, C
<1>3. /\ P \in Nat /\ Len(C) \in Nat /\ N \in Nat /\ DOMAIN todo = 1 .. N
      /\ \A n \in 1 .. P : todo[n] = A[n]
      /\ \A n \in 1 .. N : StatementOK(todo[n])
  BY <1>2, PassesInOrder
<1> HIDE DEF todo
<1>5. TxOK(base) /\ base.db = db
  BY DEF TxOK
<1> HIDE DEF base
<1>a. ASSUME NEW m \in Nat, DOMAIN todo = 1 .. m
      PROVE  \E f : /\ f[0] = base /\ \A n \in 1 .. m : f[n] = Exec(f[n - 1], todo[n])
                    /\ Executed(base, todo) = f[m]
  BY <1>a, StatementByStatement
<1>4. PICK f : /\ f[0] = base /\ \A n \in 1 .. N : f[n] = Exec(f[n - 1], todo[n])
               /\ Executed(base, todo) = f[N]
  BY <1>3, <1>a
<1>6. Transaction(f, todo, N) /\ TwoPasses(f, A, C)
  BY <1>2, <1>3, <1>4, <1>5 DEF Transaction, TwoPasses, todo
<1>7. f[N] = tx /\ f[0].db = db
  BY <1>1, <1>4, <1>5
<1> HIDE DEF tx
<1>8. TxOK(tx) /\ Grows(db, tx.db)
  <2>1. N \in 0 .. N /\ 0 \in 0 .. N
    BY <1>3
  <2> QED
    BY <1>3, <1>6, <1>7, <2>1, TransactionOK, TransactionGrows
<1>9. ASSUME tx.ok, NEW n \in 1 .. M, ParseLineage(items[n].a).session # None
      PROVE  LET i == items[n]
                 l == ParseLineage(i.a)
             IN  /\ l.session \in DOMAIN tx.db.sessions
                 /\ i.coverage # "complete" => tx.db.sessions[l.session].coverage # "complete"
                 /\ l.trajectory # None /\ l.parent \in DOMAIN tx.db.trajectories =>
                      tx.db.trajectories[l.trajectory].parent # None
                 /\ l.response # None /\ l.turn # None /\ l.parentResponse \in DOMAIN tx.db.responses =>
                      tx.db.responses[l.response].parent # None
  <2> DEFINE i == items[n]
             l == ParseLineage(i.a)
  <2>1. /\ SessionRow(i, l) \in Range(A)
        /\ l.trajectory # None => TrajectoryRow(l) \in Range(A)
        /\ l.response # None /\ l.turn # None => ResponseRow(i, l) \in Range(A)
    BY <1>2, <1>9, LineageStatements
  <2> HIDE DEF l, i
  <2>2. PICK k \in 1 .. P : SessionRow(i, l) = A[k]
    BY <1>2, <2>1, SeqFacts DEF Good
  <2>3. k \in 1 .. N /\ todo[k] = SessionRow(i, l)
    BY <1>3, <2>2
  <2>4. /\ SessionRow(i, l).t = "sessions" /\ SessionRow(i, l).k = l.session
        /\ SessionRow(i, l).row.coverage = i.coverage
    BY DEF SessionRow
  <2>5. /\ l.session \in DOMAIN tx.db["sessions"]
        /\ i.coverage # "complete" => tx.db["sessions"][l.session].coverage # "complete"
    BY <1>3, <1>6, <1>7, <1>9, <2>3, <2>4, AfterStatement
  <2>6. ASSUME NEW s \in Range(A), s.t \in Linked, s.row.parent \in DOMAIN tx.db[s.t]
        PROVE  tx.db[s.t][s.k].parent # None
    BY <1>6, <1>7, <1>9, <2>6, ParentsResolved
  <2>7. ASSUME l.trajectory # None, l.parent \in DOMAIN tx.db["trajectories"]
        PROVE  tx.db["trajectories"][l.trajectory].parent # None
    <3>1. /\ TrajectoryRow(l).t = "trajectories" /\ TrajectoryRow(l).k = l.trajectory
          /\ TrajectoryRow(l).row.parent = l.parent /\ "trajectories" \in Linked
      BY DEF TrajectoryRow, Linked
    <3> QED
      BY <2>1, <2>6, <2>7, <3>1
  <2>8. ASSUME l.response # None, l.turn # None, l.parentResponse \in DOMAIN tx.db["responses"]
        PROVE  tx.db["responses"][l.response].parent # None
    <3>1. /\ ResponseRow(i, l).t = "responses" /\ ResponseRow(i, l).k = l.response
          /\ ResponseRow(i, l).row.parent = l.parentResponse /\ "responses" \in Linked
      BY DEF ResponseRow, Linked
    <3> QED
      BY <2>1, <2>6, <2>8, <3>1
  <2> QED
    BY <2>5, <2>7, <2>8 DEF l, i
<1> QED
  BY <1>8, <1>9 DEF tx
-----------------------------------------------------------------------------
(* Lineage in every state *)

\* Records of a batch have numbers of their own.
BatchOK(b) ==
  /\ IsFiniteSet(b.records)
  /\ \A r \in b.records : r.seq \in Nat
  /\ \A r, s \in b.records : r.seq = s.seq => r = s

BatchesOK == cursor.seq \in Nat /\ \A b \in built : BatchOK(b)

\* A stored record without complete lineage shows in the row of its session.
CoverageRecorded ==
  \A r \in evidence :
    LineageOf(r.content).session # None /\ CoverageOf(r.content) # "complete" =>
      /\ LineageOf(r.content).session \in DOMAIN db.sessions
      /\ db.sessions[LineageOf(r.content).session].coverage # "complete"

LineageInv == BatchesOK /\ DbOK(db) /\ CoverageRecorded

\* A batch read from the cursor numbers its records in source order.
LEMMA BuiltOK ==
  ASSUME cursor.seq \in Nat, NEW data \in Contents
  PROVE  BatchOK(BatchOf(data, cursor))
<1> DEFINE lo == StartCursor(data, cursor) + 1
           hi == NextCursor(data, cursor)
           f  == [i \in lo .. hi |-> [gen |-> ResultGeneration(data, cursor), seq |-> i, content |-> data[i]]]
           R  == BatchOf(data, cursor).records
<1>1. lo \in Nat /\ hi \in Nat
  <2>1. data \in Seq(Lines) /\ Len(data) \in Nat
    BY DEF Contents
  <2>2. StartCursor(data, cursor) \in Nat /\ Limit \in Nat
    BY AdapterAssumption DEF StartCursor
  <2> QED
    BY <2>1, <2>2 DEF NextCursor, MinOf
<1>2. R = {f[i] : i \in lo .. hi}
  BY DEF BatchOf, ResultRecords
<1>3. \A i \in lo .. hi : f[i].seq = i /\ i \in Nat
  BY <1>1
<1>4. IsFiniteSet(lo .. hi)
  BY <1>1, FS_Interval
<1>a. DOMAIN f = lo .. hi /\ f = [i \in lo .. hi |-> f[i]]
  OBVIOUS
<1> HIDE DEF lo, hi, f, R
<1>5. IsFiniteSet(R)
  <2>1. f \in Surjection(lo .. hi, R)
    BY <1>2, <1>a DEF Surjection
  <2> QED
    BY <1>4, <2>1, FS_Surjection
<1>6. (\A r \in R : r.seq \in Nat) /\ (\A r, s \in R : r.seq = s.seq => r = s)
  BY <1>2, <1>3
<1> QED
  BY <1>5, <1>6 DEF BatchOK, R

\* Every record of a batch is an item.
LEMMA RecordIsItem ==
  ASSUME NEW b, BatchOK(b), NEW r \in b.records
  PROVE  /\ Cardinality(b.records) \in Nat
         /\ \E n \in 1 .. Cardinality(b.records) : Items(b)[n] = ItemOf(<<r.gen, r.seq>>, r.content)
<1> DEFINE M == Cardinality(b.records)
           upTo(q) == {s \in b.records : s.seq <= q.seq}
<1>1. M \in Nat
  BY FS_CardinalityType DEF BatchOK
<1>2. \A q \in b.records : IsFiniteSet(upTo(q)) /\ Cardinality(upTo(q)) \in Nat /\ Cardinality(upTo(q)) <= M
  BY FS_Subset, FS_CardinalityType DEF BatchOK
<1>3. \A q \in b.records : q \in upTo(q)
  BY DEF BatchOK
<1>4. ASSUME NEW q \in b.records, NEW s \in b.records, q.seq < s.seq
      PROVE  Cardinality(upTo(q)) < Cardinality(upTo(s))
  <2>1. upTo(q) \subseteq upTo(s) /\ s \in upTo(s) /\ s \notin upTo(q)
    BY <1>4 DEF BatchOK
  <2>2. Cardinality(upTo(q)) <= Cardinality(upTo(s)) /\ (Cardinality(upTo(q)) = Cardinality(upTo(s)) => upTo(q) = upTo(s))
    BY <1>2, <2>1, FS_Subset
  <2>3. Cardinality(upTo(q)) # Cardinality(upTo(s))
    BY <2>1, <2>2
  <2> QED
    BY <1>2, <2>2, <2>3
<1>5. Cardinality(upTo(r)) \in 1 .. M
  <2>1. Cardinality(upTo(r)) # 0
    BY <1>2, <1>3, FS_EmptySet
  <2> QED
    BY <1>1, <1>2, <2>1
<1>6. \A q \in b.records : Place(b, q) = Cardinality(upTo(q))
  BY DEF Place
<1> HIDE DEF upTo
<1>7. \A q \in b.records : Place(b, q) = Place(b, r) => q = r
  <2> SUFFICES ASSUME NEW q \in b.records, Place(b, q) = Place(b, r), q # r PROVE FALSE
    OBVIOUS
  <2>1. q.seq \in Nat /\ r.seq \in Nat /\ q.seq # r.seq
    BY DEF BatchOK
  <2>2. q.seq < r.seq \/ r.seq < q.seq
    BY <2>1
  <2> QED
    BY <1>2, <1>4, <1>6, <2>2
<1>8. (CHOOSE q \in b.records : Place(b, q) = Place(b, r)) = r
  BY <1>7
<1>9. Place(b, r) \in 1 .. M
  BY <1>5, <1>6
<1>10. Items(b)[Place(b, r)] = ItemOf(<<r.gen, r.seq>>, r.content)
  <2> DEFINE n == Place(b, r)
  <2>1. Items(b)[n] = LET x == CHOOSE q \in b.records : Place(b, q) = n IN ItemOf(<<x.gen, x.seq>>, x.content)
    BY <1>9 DEF Items
  <2> QED
    BY <1>8, <2>1
<1> QED
  BY <1>1, <1>9, <1>10

\* What a commit leaves in the tables.
LEMMA CommitFacts ==
  ASSUME LineageInv, NEW b \in built, NEW f, Submit(b, f), ~UNCHANGED vars
  PROVE  /\ evidence' = evidence \cup b.records /\ last' = {b} /\ built' = built
         /\ cursor' = encodeCollectionCursor(b.id)
         /\ DbOK(db') /\ Grows(db, db')
         /\ \A r \in b.records :
              LET l == LineageOf(r.content)
              IN  l.session # None =>
                    /\ l.session \in DOMAIN db'.sessions
                    /\ CoverageOf(r.content) # "complete" => db'.sessions[l.session].coverage # "complete"
                    /\ l.trajectory # None /\ l.parent \in DOMAIN db'.trajectories =>
                         db'.trajectories[l.trajectory].parent # None
                    /\ l.response # None /\ l.turn # None /\ l.parentResponse \in DOMAIN db'.responses =>
                         db'.responses[l.response].parent # None
<1>1. Outcome(b, f) = "committed"
  BY DEF Submit
<1> DEFINE tx == PersistBatch(Items(b))
           M == Cardinality(b.records)
<1>2. tx.ok /\ db' = tx.db
  BY <1>1 DEF Submit, Outcome
<1>3. BatchOK(b) /\ DbOK(db)
  BY DEF LineageInv, BatchesOK
<1>4. M \in Nat
  BY <1>3, FS_CardinalityType DEF BatchOK
<1>5. Items(b) = [n \in 1 .. M |-> Items(b)[n]]
  BY DEF Items
<1>6. /\ TxOK(tx) /\ Grows(db, tx.db)
      /\ \A n \in 1 .. M :
           LET i == Items(b)[n]
               l == ParseLineage(i.a)
           IN  l.session # None =>
                 /\ l.session \in DOMAIN tx.db.sessions
                 /\ i.coverage # "complete" => tx.db.sessions[l.session].coverage # "complete"
                 /\ l.trajectory # None /\ l.parent \in DOMAIN tx.db.trajectories =>
                      tx.db.trajectories[l.trajectory].parent # None
                 /\ l.response # None /\ l.turn # None /\ l.parentResponse \in DOMAIN tx.db.responses =>
                      tx.db.responses[l.response].parent # None
  BY <1>2, <1>3, <1>4, <1>5, PersistFacts
<1> HIDE DEF tx
<1>7. /\ evidence' = evidence \cup b.records /\ last' = {b} /\ built' = built
      /\ cursor' = encodeCollectionCursor(b.id)
  BY SubmitCases
<1>8. ASSUME NEW r \in b.records
      PROVE  LET l == LineageOf(r.content)
              IN  l.session # None =>
                    /\ l.session \in DOMAIN db'.sessions
                    /\ CoverageOf(r.content) # "complete" => db'.sessions[l.session].coverage # "complete"
                    /\ l.trajectory # None /\ l.parent \in DOMAIN db'.trajectories =>
                         db'.trajectories[l.trajectory].parent # None
                    /\ l.response # None /\ l.turn # None /\ l.parentResponse \in DOMAIN db'.responses =>
                         db'.responses[l.response].parent # None
  <2>1. PICK n \in 1 .. M : Items(b)[n] = ItemOf(<<r.gen, r.seq>>, r.content)
    BY <1>3, RecordIsItem
  <2>2. Items(b)[n].coverage = CoverageOf(r.content) /\ ParseLineage(Items(b)[n].a) = LineageOf(r.content)
    BY <2>1 DEF ItemOf, LineageOf
  <2> QED
    BY <1>2, <1>6, <2>2
<1> QED
  BY <1>2, <1>6, <1>7, <1>8 DEF TxOK
\* The empty database keeps the invariant.
LEMMA InitLineageInv == Init => LineageInv
<1> SUFFICES ASSUME Init PROVE LineageInv
  OBVIOUS
<1>1. BatchesOK
  BY DEF Init, StoreInit, EmptyRequest, BatchesOK
<1>2. DbOK(db)
  BY DEF Init, LineageInit, DbOK
<1>3. CoverageRecorded
  BY DEF Init, StoreInit, CoverageRecorded
<1> QED
  BY <1>1, <1>2, <1>3 DEF LineageInv

\* The tables and the evidence change by commits alone.
LEMMA LineageSteps ==
  ASSUME LastStored, LineageInv, [Next]_vars
  PROVE  \/ /\ UNCHANGED <<cursor, evidence, db, last>>
            /\ \/ built' = built
               \/ \E data \in Contents : built' = built \cup {BatchOf(data, cursor)}
         \/ \E b \in built, f \in Fences : Submit(b, f) /\ ~UNCHANGED vars
<1>1. CASE PutSource
  BY <1>1 DEF PutSource, storeVars, clients
<1>2. CASE Build
  BY <1>2 DEF Build, storeVars
<1>3. ASSUME NEW f \in Fences, Acquire(f) \/ Release(f)
      PROVE  UNCHANGED <<cursor, evidence, db, last>> /\ built' = built
  BY <1>3 DEF Acquire, Release, AcquireCollectionLease, ReleaseCollectionLease, clients
<1>4. CASE Expire
  BY <1>4 DEF Expire, LeaseExpires, clients
<1>5. CASE UNCHANGED vars
  BY <1>5 DEF vars
<1> QED
  BY <1>1, <1>2, <1>3, <1>4, <1>5 DEF Next

\* A step keeps the invariant: only a commit writes rows, in whole transactions.
LEMMA NextLineageInv == LastStored /\ LineageInv /\ [Next]_vars => LineageInv'
<1> SUFFICES ASSUME LastStored, LineageInv, [Next]_vars
             PROVE  LineageInv'
  OBVIOUS
<1>1. CASE /\ UNCHANGED <<cursor, evidence, db, last>>
           /\ \/ built' = built
              \/ \E data \in Contents : built' = built \cup {BatchOf(data, cursor)}
  <2>1. \A b \in built' : BatchOK(b)
    BY <1>1, BuiltOK DEF LineageInv, BatchesOK
  <2> QED
    BY <1>1, <2>1 DEF LineageInv, BatchesOK, CoverageRecorded
<1>2. ASSUME NEW b \in built, NEW f \in Fences, Submit(b, f), ~UNCHANGED vars
      PROVE  LineageInv'
  <2>1. /\ evidence' = evidence \cup b.records /\ built' = built
        /\ cursor' = encodeCollectionCursor(b.id)
        /\ DbOK(db') /\ Grows(db, db')
        /\ \A r \in b.records :
             LET l == LineageOf(r.content)
             IN  l.session # None =>
                   /\ l.session \in DOMAIN db'.sessions
                   /\ CoverageOf(r.content) # "complete" => db'.sessions[l.session].coverage # "complete"
    BY <1>2, CommitFacts
  <2>2. BatchesOK'
    <3>1. cursor'.seq \in Nat
      BY <2>1 DEF LastStored, WellFormed, encodeCollectionCursor
    <3> QED
      BY <2>1, <3>1 DEF LineageInv, BatchesOK
  <2>3. DOMAIN db["sessions"] \subseteq DOMAIN db'["sessions"]
    BY <2>1, TableNames DEF Grows
  <2>4. ASSUME NEW r \in evidence', LineageOf(r.content).session # None, CoverageOf(r.content) # "complete"
        PROVE  /\ LineageOf(r.content).session \in DOMAIN db'.sessions
               /\ db'.sessions[LineageOf(r.content).session].coverage # "complete"
    <3>1. CASE r \in evidence
      BY <2>1, <2>3, <2>4, <3>1 DEF LineageInv, CoverageRecorded, Grows
    <3>2. CASE r \in b.records
      BY <2>1, <2>4, <3>2
    <3> QED
      BY <2>1, <3>1, <3>2
  <2> QED
    BY <2>1, <2>2, <2>4 DEF LineageInv, CoverageRecorded
<1> QED
  BY <1>1, <1>2, LineageSteps

\* What is stored of a batch's lineage keeps the shape of its tables, and a session shows
\* every record that came without complete lineage.
THEOREM IngestInvariant == Spec => [](LastStored /\ LineageInv)
<1>1. Init => LastStored
  BY DEF Init, StoreInit, EmptyRequest, LastStored
<1> QED
  BY <1>1, InitLineageInv, NextLineageInv, LastStoredStep, PTL DEF Spec

\* session_audit.go and the coverage CommitCollection keeps in a session: an answer
\* "complete" is true of every record of the session, although no more than the first
\* RefLimit are read, and whatever was committed, repeated or revised before.
THEOREM IngestSessionAuditHonest == Spec => []SessionAuditHonest
<1>1. LineageInv => SessionAuditHonest
  <2> SUFFICES ASSUME LineageInv, NEW s \in DOMAIN db.sessions, NEW t \in Times, NEW refs \in FirstRefs(s),
                      AuditSession(s, refs, t) = "complete"
               PROVE  /\ \A r \in SessionEvidence(s) : CoverageOf(r.content) = "complete"
                      /\ \E i \in Identities : AsOf(i, t) # {}
    BY DEF SessionAuditHonest
  <2>1. db.sessions[s].coverage = "complete" /\ \E i \in Identities : AsOf(i, t) # {}
    BY DEF AuditSession
  <2>2. s # None
    BY TableNames DEF LineageInv, DbOK, KeyOK
  <2>3. \A r \in SessionEvidence(s) : CoverageOf(r.content) = "complete"
    BY <2>1, <2>2 DEF LineageInv, CoverageRecorded, SessionEvidence
  <2> QED
    BY <2>1, <2>3
<1> QED
  BY <1>1, IngestInvariant, PTL

\* CommitCollection's ON CONFLICT clauses: no row of lineage is lost, a parent once known
\* stays, a completed response stays completed and an incomplete session incomplete.
THEOREM IngestLineageKept == Spec => LineageKept
<1> DEFINE A == /\ \A t \in Tables : DOMAIN db[t] \subseteq DOMAIN db'[t]
                /\ \A t \in {"trajectories", "responses"} : \A k \in DOMAIN db[t] :
                     db[t][k].parent # None => db'[t][k].parent = db[t][k].parent
                /\ \A k \in DOMAIN db.responses :
                     db.responses[k].completed # None => db'.responses[k].completed # None
                /\ \A k \in DOMAIN db.sessions :
                     db.sessions[k].coverage # "complete" => db'.sessions[k].coverage # "complete"
<1>1. LastStored /\ LineageInv /\ [Next]_vars => [A]_db
  <2> SUFFICES ASSUME LastStored, LineageInv, [Next]_vars, db' # db
               PROVE  A
    OBVIOUS
  <2>1. PICK b \in built, f \in Fences : Submit(b, f) /\ ~UNCHANGED vars
    BY LineageSteps
  <2>2. Grows(db, db')
    BY <2>1, CommitFacts
  <2> QED
    BY <2>2 DEF Grows, Linked
<1> QED
  BY <1>1, IngestInvariant, PTL DEF Spec, LineageKept

\* CommitCollection's second pass: after a commit no record of the batch is left without a
\* parent that is stored, in whatever order parent and child came.
THEOREM IngestParentsLinked == Spec => ParentsLinked
<1> DEFINE A == \A b \in last' \ last : \A r \in b.records :
        LET l == LineageOf(r.content)
        IN  l.session # None =>
              /\ l.trajectory # None /\ l.parent \in DOMAIN db'.trajectories =>
                   db'.trajectories[l.trajectory].parent # None
              /\ l.response # None /\ l.turn # None /\ l.parentResponse \in DOMAIN db'.responses =>
                   db'.responses[l.response].parent # None
<1>1. LastStored /\ LineageInv /\ [Next]_vars => [A]_last
  <2> SUFFICES ASSUME LastStored, LineageInv, [Next]_vars, last' # last
               PROVE  A
    OBVIOUS
  <2>1. PICK b \in built, f \in Fences : Submit(b, f) /\ ~UNCHANGED vars
    BY LineageSteps
  <2>2. /\ last' = {b}
        /\ \A r \in b.records :
              LET l == LineageOf(r.content)
              IN  l.session # None =>
                    /\ l.trajectory # None /\ l.parent \in DOMAIN db'.trajectories =>
                         db'.trajectories[l.trajectory].parent # None
                    /\ l.response # None /\ l.turn # None /\ l.parentResponse \in DOMAIN db'.responses =>
                         db'.responses[l.response].parent # None
    BY <2>1, CommitFacts
  <2> QED
    BY <2>2
<1> QED
  BY <1>1, IngestInvariant, PTL DEF Spec, ParentsLinked
=============================================================================
