-------------------------- MODULE CollectorProofs --------------------------
(***************************************************************************)
(* Theorems about Collector, for every number of processes, every set of   *)
(* lines and fences and every bound.                                       *)
(***************************************************************************)
EXTENDS Collector, FiniteSetTheorems, TLAPS

-----------------------------------------------------------------------------
(* The adapter *)

\* The digest of a prefix holds min(c, Len(data)) lines, line by line those of
\* the file (digestPrefix in internal/adapters/adapter.go).
LEMMA PrefixDigest ==
  ASSUME NEW data \in Files, NEW c \in Nat
  PROVE  /\ digestPrefix(data, c) \in Digests
         /\ digestPrefix(data, c).known
         /\ Len(digestPrefix(data, c).of) = MinOf(c, Len(data))
         /\ \A i \in 1 .. MinOf(c, Len(data)) : digestPrefix(data, c).of[i] = data[i]
<1>1. MinOf(c, Len(data)) \in 0 .. Len(data)
  BY DEF MinOf, Files
<1>2. /\ SubSeq(data, 1, MinOf(c, Len(data))) \in Files
      /\ Len(SubSeq(data, 1, MinOf(c, Len(data)))) = MinOf(c, Len(data))
      /\ \A i \in 1 .. MinOf(c, Len(data)) : SubSeq(data, 1, MinOf(c, Len(data)))[i] = data[i]
  BY <1>1 DEF Files
<1>3. QED
  BY <1>2 DEF digestPrefix, DigestOf, Digests

\* A result is well formed: cursors are ordered and within the file.
LEMMA ResultTypes ==
  ASSUME NEW data \in Files, NEW req \in Requests
  PROVE  /\ ResultGeneration(data, req) \in Generations
         /\ ResultGeneration(data, req) # NoGeneration
         /\ StartCursor(data, req) \in Nat
         /\ StartCursor(data, req) <= Len(data)
         /\ NextCursor(data, req) \in Nat
         /\ NextCursor(data, req) <= Len(data)
         /\ StartCursor(data, req) <= NextCursor(data, req)
         /\ ResultDigest(data, req) \in Digests
         /\ ResultDigest(data, req).known
         /\ Len(ResultDigest(data, req).of) = NextCursor(data, req)
         /\ \A i \in 1 .. NextCursor(data, req) : ResultDigest(data, req).of[i] = data[i]
         /\ ResultRecords(data, req) \subseteq Records
<1>1. /\ ResultGeneration(data, req) \in Generations
      /\ ResultGeneration(data, req) # NoGeneration
  <2>1. /\ Revision(data) \in Generations /\ Revision(data) # NoGeneration
        /\ BaseGeneration \in Generations /\ BaseGeneration # NoGeneration
    BY DEF Revision, Generations, NoGeneration, BaseGeneration, Files
  <2>2. req.gen \in Generations
    BY DEF Requests
  <2>3. QED
    BY <2>1, <2>2 DEF ResultGeneration
<1>2. StartCursor(data, req) \in Nat /\ StartCursor(data, req) <= Len(data)
  BY DEF StartCursor, Rotated, Requests, Files
<1>3. /\ NextCursor(data, req) \in Nat
      /\ NextCursor(data, req) <= Len(data)
      /\ StartCursor(data, req) <= NextCursor(data, req)
  BY <1>2, AdapterAssumption DEF NextCursor, MinOf, Files
<1>4. MinOf(NextCursor(data, req), Len(data)) = NextCursor(data, req)
  BY <1>3 DEF MinOf, Files
<1>5. /\ ResultDigest(data, req) \in Digests
      /\ ResultDigest(data, req).known
      /\ Len(ResultDigest(data, req).of) = NextCursor(data, req)
      /\ \A i \in 1 .. NextCursor(data, req) : ResultDigest(data, req).of[i] = data[i]
  BY <1>3, <1>4, PrefixDigest DEF ResultDigest
<1>6. ResultRecords(data, req) \subseteq Records
  <2>1. \A i \in (StartCursor(data, req) + 1) .. NextCursor(data, req) :
          i \in Nat /\ i \in 1 .. Len(data)
    BY <1>2, <1>3 DEF Files
  <2>2. \A i \in (StartCursor(data, req) + 1) .. NextCursor(data, req) : data[i] \in Lines
    BY <2>1 DEF Files
  <2>3. QED
    BY <1>1, <2>1, <2>2 DEF ResultRecords, Records
<1>7. QED
  BY <1>1, <1>2, <1>3, <1>5, <1>6

\* A batch is well typed, and encoding its cursor keeps generation and digest.
LEMMA BatchTypes ==
  ASSUME NEW data \in Files, NEW req \in Requests
  PROVE  /\ BatchOf(data, req) \in Batches
         /\ encodeCollectionCursor(BatchOf(data, req).id) =
              [ seq |-> NextCursor(data, req), gen |-> ResultGeneration(data, req),
                digest |-> ResultDigest(data, req) ]
         /\ encodeCollectionCursor(BatchOf(data, req).id) \in Requests
<1>1. req.seq \in Nat
  BY DEF Requests
<1>2. BatchOf(data, req).id \in BatchIDs
  BY <1>1, ResultTypes DEF BatchOf, BatchIDs
<1>3. BatchOf(data, req) \in Batches
  BY <1>2, ResultTypes DEF BatchOf, Batches
<1>4. encodeCollectionCursor(BatchOf(data, req).id) =
        [ seq |-> NextCursor(data, req), gen |-> ResultGeneration(data, req),
          digest |-> ResultDigest(data, req) ]
  BY ResultTypes DEF BatchOf, encodeCollectionCursor
<1>5. QED
  BY <1>3, <1>4, ResultTypes DEF Requests

-----------------------------------------------------------------------------
(* The store *)

\* A commit whose request is the stored cursor extends the covered prefix, or
\* starts a generation from its first record.
LEMMA CommitCoversCursor ==
  ASSUME NEW data \in Files, cursor \in Requests,
         CursorWellFormed, EvidenceCoversCursor,
         evidence' = evidence \cup ResultRecords(data, cursor),
         cursor' = [ seq |-> NextCursor(data, cursor), gen |-> ResultGeneration(data, cursor),
                     digest |-> ResultDigest(data, cursor) ]
  PROVE  CursorWellFormed' /\ EvidenceCoversCursor'
<1> DEFINE next  == NextCursor(data, cursor)
           start == StartCursor(data, cursor)
           gen   == ResultGeneration(data, cursor)
           dig   == ResultDigest(data, cursor)
<1>1. /\ gen # NoGeneration /\ dig.known /\ Len(dig.of) = next
      /\ next \in Nat /\ next <= Len(data) /\ start \in Nat /\ start <= next
      /\ \A i \in 1 .. next : dig.of[i] = data[i]
  BY ResultTypes
<1>2. cursor'.seq = next /\ cursor'.gen = gen /\ cursor'.digest = dig
  OBVIOUS
<1>3. CursorWellFormed'
  BY <1>1, <1>2 DEF CursorWellFormed
<1>4. ASSUME NEW i \in 1 .. next
      PROVE  [gen |-> gen, seq |-> i, content |-> data[i]] \in evidence'
  <2>1. CASE i > start
    <3>1. i \in (start + 1) .. next
      BY <1>1, <2>1
    <3>2. [gen |-> gen, seq |-> i, content |-> data[i]] \in ResultRecords(data, cursor)
      BY <3>1 DEF ResultRecords
    <3>3. QED
      BY <3>2
  <2>2. CASE i <= start
    <3>1. ~Rotated(data, cursor) /\ start = cursor.seq
      BY <2>2 DEF StartCursor
    <3>2. cursor.seq # 0 /\ cursor.seq \in Nat /\ i \in 1 .. cursor.seq
      BY <1>1, <2>2, <3>1
    <3>3. cursor.gen # NoGeneration /\ cursor.digest.known
      BY <3>2 DEF CursorWellFormed
    <3>4. gen = cursor.gen
      BY <3>1, <3>3 DEF ResultGeneration
    <3>5. cursor.digest = digestPrefix(data, cursor.seq) /\ cursor.seq <= Len(data)
      BY <3>1, <3>2, <3>3 DEF Rotated, PrefixMatches, Files
    <3>6. i \in 1 .. MinOf(cursor.seq, Len(data))
      BY <3>2, <3>5 DEF MinOf
    <3>7. cursor.digest.of[i] = data[i]
      BY <3>2, <3>5, <3>6, PrefixDigest
    <3>8. QED
      BY <3>2, <3>4, <3>7 DEF EvidenceCoversCursor
  <2>3. QED
    BY <1>1, <2>1, <2>2
<1>5. EvidenceCoversCursor'
  BY <1>1, <1>2, <1>4 DEF EvidenceCoversCursor
<1>6. QED
  BY <1>3, <1>5

\* The conflict check keeps one content per alias, whatever the batch.
LEMMA CommitKeepsAliases ==
  ASSUME NEW data \in Files, NEW req \in Requests, UniqueAliases,
         evidence \subseteq Records,
         ~Conflicts(BatchOf(data, req)),
         evidence' = evidence \cup ResultRecords(data, req)
  PROVE  UniqueAliases'
<1> SUFFICES ASSUME NEW r \in evidence', NEW s \in evidence', SameAlias(r, s)
             PROVE  r = s
  BY DEF UniqueAliases, SameAlias
<1>1. ASSUME NEW x \in ResultRecords(data, req), NEW y \in evidence, SameAlias(x, y)
      PROVE  x = y
  <2>1. x.content = y.content
    BY <1>1 DEF Conflicts, BatchOf
  <2>2. x \in Records /\ y \in Records
    BY ResultTypes
  <2>3. QED
    BY <1>1, <2>1, <2>2 DEF SameAlias, Records
<1>2. ASSUME NEW x \in ResultRecords(data, req), NEW y \in ResultRecords(data, req),
             SameAlias(x, y)
      PROVE  x = y
  BY <1>2 DEF ResultRecords, SameAlias
<1>3. SameAlias(s, r)
  BY DEF SameAlias
<1>4. QED
  BY <1>1, <1>2, <1>3 DEF UniqueAliases

-----------------------------------------------------------------------------
(* Type correctness *)

\* Initially every variable has its type.
LEMMA InitTypeOK == Init => TypeOK
<1>1. EmptyRequest \in Requests /\ <<>> \in Files
  BY DEF EmptyRequest, Requests, NoGeneration, Generations, NoDigest, Digests, Files
<1>2. IdleRun \in Runs
  BY <1>1, CollectorAssumption DEF IdleRun, Runs, Labels, Outcomes
<1>3. QED
  BY <1>1, <1>2, CollectorAssumption DEF Init, StoreInit, FreeLease, TypeOK

\* A store operation of the collector keeps the types of the store.
LEMMA CommitTypes ==
  ASSUME TypeOK, NEW data \in Files, NEW req \in Requests, NEW f \in Fences \cup {NoFence},
         CommitCollection(BatchOf(data, req), f)
  PROVE  /\ cursor' \in Requests
         /\ lease' = lease
         /\ evidence' \subseteq Records
         /\ batches' \subseteq Batches
         /\ CommitResult(BatchOf(data, req), f) \in Outcomes
<1>1. CommitResult(BatchOf(data, req), f) \in Outcomes
  BY DEF CommitResult, Outcomes
<1>2. BatchOf(data, req).records \subseteq Records
  BY ResultTypes DEF BatchOf
<1>3. QED
  BY <1>1, <1>2, BatchTypes DEF CommitCollection, TypeOK, storeVars

\* Every step keeps every variable in its type.
LEMMA NextTypeOK == TypeOK /\ [Next]_vars => TypeOK'
<1> SUFFICES ASSUME TypeOK, [Next]_vars PROVE TypeOK'
  OBVIOUS
<1> USE CollectorAssumption
<1>0. IdleRun \in Runs /\ <<>> \in Files
  BY DEF IdleRun, Runs, Labels, Outcomes, EmptyRequest, Requests, NoGeneration,
         Generations, NoDigest, Digests, Files
<1>1. CASE AppendLine \/ Truncate \/ ReplaceFile
  <2>1. \A l \in Lines : Append(file, l) \in Files
    BY DEF TypeOK, Files
  <2>2. \A n \in 0 .. (Len(file) - 1) : SubSeq(file, 1, n) \in Files
    BY DEF TypeOK, Files
  <2>3. \A n \in 1 .. MaxLen : \A t \in [1 .. n -> Lines] : t \in Files
    BY DEF Files
  <2>4. PICK kind \in {"append", "truncate", "replace"}, contents \in Files : Edit(kind, contents)
    BY <1>1, <2>1, <2>2, <2>3 DEF AppendLine, Truncate, ReplaceFile
  <2>5. QED
    BY <2>4 DEF Edit, TypeOK, storeVars
<1>2. ASSUME NEW p \in Procs, Start(p) PROVE TypeOK'
  <2>1. PICK c \in SourceConfigs :
          run' = [run EXCEPT ![p] =
                    [IdleRun EXCEPT !.pc = "acquire", !.source = c, !.attempt = 1,
                                    !.snap = IF c = "disabled" THEN <<>> ELSE file]]
    BY <1>2 DEF Start
  <2> DEFINE s == IF c = "disabled" THEN <<>> ELSE file
  <2>a. s \in Files /\ 1 \in 0 .. MaxAttempts /\ c \in {"ready", "disabled", "unsupported"}
    BY <1>0 DEF TypeOK
  <2> HIDE DEF s
  <2>2. [IdleRun EXCEPT !.pc = "acquire", !.source = c, !.attempt = 1, !.snap = s] \in Runs
    BY <1>0, <2>a DEF Runs, Labels
  <2>3. QED
    BY <1>2, <2>1, <2>2 DEF Start, TypeOK, storeVars, s
<1>3. ASSUME NEW p \in Procs, Acquire(p) PROVE TypeOK'
  <2>1. PICK f \in Fences \ FencesInUse :
          /\ AcquireCollectionLease(f)
          /\ run' = [run EXCEPT ![p].pc = "cursor", ![p].fence = f]
    BY <1>3 DEF Acquire
  <2>2. run' \in [Procs -> Runs]
    <3>1. run[p] \in Runs /\ f \in Fences
      BY DEF TypeOK
    <3>2. [run[p] EXCEPT !.pc = "cursor", !.fence = f] \in Runs
      BY <3>1 DEF Runs, Labels
    <3>3. QED
      BY <2>1, <3>2 DEF TypeOK
  <2>3. QED
    BY <1>3, <2>1, <2>2 DEF Acquire, AcquireCollectionLease, TypeOK
<1>4. ASSUME NEW p \in Procs, AcquireHeld(p) PROVE TypeOK'
  BY <1>0, <1>4 DEF AcquireHeld, Exit, TypeOK, storeVars
<1>5. ASSUME NEW p \in Procs, ReadCursor(p) \/ ReadGeneration(p) \/ ReadDigest(p) PROVE TypeOK'
  <2>1. run' \in [Procs -> Runs]
    <3>1. run[p] \in Runs /\ run[p].req \in Requests /\ cursor \in Requests
      BY DEF TypeOK, Runs
    <3>2. /\ [run[p].req EXCEPT !.seq = cursor.seq] \in Requests
          /\ [run[p].req EXCEPT !.gen = cursor.gen] \in Requests
          /\ [run[p].req EXCEPT !.digest = cursor.digest] \in Requests
      BY <3>1 DEF Requests
    <3>3. \A l \in Labels, r \in Requests : [run[p] EXCEPT !.pc = l, !.req = r] \in Runs
      BY <3>1 DEF Runs
    <3>4. {"generation", "digest", "collect"} \subseteq Labels
      BY DEF Labels
    <3>5. ASSUME NEW l \in Labels, NEW r \in Requests,
                 run' = [run EXCEPT ![p] = [run[p] EXCEPT !.pc = l, !.req = r]]
          PROVE  run' \in [Procs -> Runs]
      <4>1. [run[p] EXCEPT !.pc = l, !.req = r] \in Runs
        BY <3>3
      <4>2. QED
        BY <3>5, <4>1 DEF TypeOK
    <3>6. CASE ReadCursor(p)
      <4>1. run' = [run EXCEPT ![p] = [run[p] EXCEPT !.pc = "generation",
                                         !.req = [run[p].req EXCEPT !.seq = cursor.seq]]]
        BY <3>1, <3>6 DEF ReadCursor, TypeOK, Runs
      <4>2. QED
        BY <3>2, <3>4, <3>5, <4>1
    <3>7. CASE ReadGeneration(p)
      <4>1. run' = [run EXCEPT ![p] = [run[p] EXCEPT !.pc = "digest",
                                         !.req = [run[p].req EXCEPT !.gen = cursor.gen]]]
        BY <3>1, <3>7 DEF ReadGeneration, TypeOK, Runs
      <4>2. QED
        BY <3>2, <3>4, <3>5, <4>1
    <3>8. CASE ReadDigest(p)
      <4>1. run' = [run EXCEPT ![p] = [run[p] EXCEPT !.pc = "collect",
                                         !.req = [run[p].req EXCEPT !.digest = cursor.digest]]]
        BY <3>1, <3>8 DEF ReadDigest, TypeOK, Runs
      <4>2. QED
        BY <3>2, <3>4, <3>5, <4>1
    <3>9. QED
      BY <1>5, <3>6, <3>7, <3>8
  <2>2. QED
    BY <1>5, <2>1 DEF ReadCursor, ReadGeneration, ReadDigest, TypeOK, storeVars
<1>6. ASSUME NEW p \in Procs, Collect(p) PROVE TypeOK'
  <2>0. run[p] \in Runs /\ run[p].source \in {"ready", "disabled", "unsupported"}
    BY DEF TypeOK, Runs
  <2>1. run[p] \in Runs /\ Status(p) \in {"disabled", "unsupported", "permanent", "empty", "records"}
    <3>1. BaseStatus(run[p].source, run[p].snap, run[p].req)
            \in {"disabled", "unsupported", "permanent", "empty", "records"}
      BY <2>0 DEF BaseStatus
    <3>2. QED
      BY <2>0, <3>1 DEF Status, CollectStatus
  <2>2. [code |-> "permanent", attempt |-> run[p].attempt] \in QuarantineEntries
    BY <2>1 DEF QuarantineEntries, Runs
  <2>3. run' \in [Procs -> Runs]
    BY <1>6, <2>1, <2>2 DEF Collect, Goto, Return, TypeOK, Runs, Labels, Outcomes
  <2>4. QED
    BY <1>6, <2>3 DEF Collect, TypeOK, storeVars
<1>7. ASSUME NEW p \in Procs, Renew(p) PROVE TypeOK'
  <2>1. run' \in [Procs -> Runs]
    BY <1>7 DEF Renew, Goto, Return, TypeOK, Runs, Labels, Outcomes
  <2>2. QED
    BY <1>7, <2>1 DEF Renew, RenewCollectionLease, TypeOK, storeVars
<1>8. ASSUME NEW p \in Procs, CommitCollection(Batch(p), run[p].fence),
             NEW o \in Outcomes, Return(p, o), UNCHANGED <<file, edits>>,
             faults' \in 0 .. MaxFaults
      PROVE  TypeOK'
  <2>1. /\ run[p].snap \in Files /\ run[p].req \in Requests
        /\ run[p].fence \in Fences \cup {NoFence}
    BY DEF TypeOK, Runs
  <2>2. run' \in [Procs -> Runs]
    <3>1. run[p] \in Runs
      BY DEF TypeOK
    <3>2. [run[p] EXCEPT !.pc = "release", !.outcome = o] \in Runs
      BY <3>1 DEF Runs, Labels
    <3>3. QED
      BY <1>8, <3>2 DEF Return, TypeOK
  <2>3. QED
    BY <1>8, <2>1, <2>2, CommitTypes DEF Batch, TypeOK
<1>9. ASSUME NEW p \in Procs, Commit(p) PROVE TypeOK'
  <2>1. CommitResult(Batch(p), run[p].fence) \in Outcomes
    BY DEF CommitResult, Outcomes
  <2>2. QED
    BY <1>8, <1>9, <2>1 DEF Commit, TypeOK
<1>10. ASSUME NEW p \in Procs, Release(p) PROVE TypeOK'
  BY <1>0, <1>10 DEF Release, ReleaseCollectionLease, FreeLease, Exit, TypeOK
<1>11. ASSUME Fault PROVE faults' \in 0 .. MaxFaults
  BY <1>11 DEF Fault, TypeOK
<1>12. ASSUME NEW p \in Procs, CollectFails(p) PROVE TypeOK'
  <2>1. [code |-> "adapter_failure", attempt |-> run[p].attempt] \in QuarantineEntries
    BY DEF QuarantineEntries, TypeOK, Runs
  <2>2. run' \in [Procs -> Runs]
    BY <1>12, <2>1 DEF CollectFails, TypeOK, Runs, Labels, Outcomes
  <2>3. QED
    BY <1>11, <1>12, <2>2 DEF CollectFails, TypeOK, storeVars
<1>13. ASSUME NEW p \in Procs, StatementFails(p) PROVE TypeOK'
  <2>1. run' \in [Procs -> Runs]
    <3>1. run \in [Procs -> Runs] /\ run[p] \in Runs
      BY DEF TypeOK
    <3>2. [run[p] EXCEPT !.pc = "release", !.outcome = "failed"] \in Runs
      BY <3>1 DEF Runs, Labels, Outcomes
    <3>3. CASE Return(p, "failed")
      BY <3>1, <3>2, <3>3 DEF Return
    <3>4. CASE Exit(p)
      BY <1>0, <3>1, <3>4 DEF Exit
    <3>5. QED
      BY <1>13, <3>3, <3>4 DEF StatementFails
  <2>2. QED
    BY <1>11, <1>13, <2>1 DEF StatementFails, TypeOK, storeVars
<1>14. ASSUME NEW p \in Procs, CommitAnswerLost(p) PROVE TypeOK'
  <2>1. "failed" \in Outcomes
    BY DEF Outcomes
  <2>2. QED
    BY <1>8, <1>11, <1>14, <2>1 DEF CommitAnswerLost
<1>15. ASSUME NEW p \in Procs, Crash(p) PROVE TypeOK'
  BY <1>0, <1>11, <1>15 DEF Crash, Exit, TypeOK, storeVars
<1>16. CASE LeaseExpiresEarly
  BY <1>11, <1>16 DEF LeaseExpiresEarly, LeaseExpires, TypeOK
<1>17. CASE LeaseExpiresOrphaned
  BY <1>17 DEF LeaseExpiresOrphaned, LeaseExpires, TypeOK
<1>18. CASE UNCHANGED vars
  BY <1>18 DEF vars, TypeOK
<1>19. QED
  BY <1>1, <1>2, <1>3, <1>4, <1>5, <1>6, <1>7, <1>9, <1>10, <1>12, <1>13, <1>14, <1>15,
     <1>16, <1>17, <1>18 DEF Next, Step, Faulty

\* Every reachable state of the collector and its store is well typed: cursor
\* row, evidence, batches and the local state of every process.
THEOREM CollectorTypeOK == Spec => []TypeOK
BY InitTypeOK, NextTypeOK, PTL DEF Spec

-----------------------------------------------------------------------------
(* The inductive invariant.  ReadsNotTorn needs that fences tell processes  *)
(* apart; EvidenceCoversCursor needs ReadsNotTorn.                          *)

StoreInv == CursorWellFormed /\ EvidenceCoversCursor /\ UniqueAliases

\* A step that leaves the store's contents alone keeps what is said of them.
LEMMA StoreInvUnchanged ==
  ASSUME StoreInv, UNCHANGED <<cursor, evidence>>
  PROVE  StoreInv'
BY DEF StoreInv, CursorWellFormed, EvidenceCoversCursor, UniqueAliases, SameAlias

\* A process that ends its run, and a lease that is kept or freed.
LEMMA ExitKeepsReads ==
  ASSUME TypeOK, FenceHeld, FencesDistinct, ReadsNotTorn, NEW p \in Procs,
         Exit(p), cursor' = cursor, lease' = lease \/ lease' = FreeLease
  PROVE  FenceHeld' /\ FencesDistinct' /\ ReadsNotTorn'
<1>1. /\ \A q \in Procs : q # p => run'[q] = run[q]
      /\ run'[p].pc = "idle" /\ run'[p].fence = NoFence
  BY DEF Exit, TypeOK, IdleRun
<1>2. FenceHeld' /\ FencesDistinct'
  BY <1>1 DEF FenceHeld, FencesDistinct, HoldsLease
<1>3. ASSUME NEW q \in Procs PROVE ReadsOf(q)'
  <2>1. CASE q = p
    BY <1>1, <2>1 DEF ReadsOf
  <2>2. CASE q # p /\ lease' = lease
    BY <1>1, <2>2 DEF ReadsOf, ReadsNotTorn
  <2>3. CASE q # p /\ lease' = FreeLease
    BY <1>1, <2>3 DEF ReadsOf, FenceHeld, FreeLease, HoldsLease
  <2>4. QED
    BY <2>1, <2>2, <2>3
<1>4. QED
  BY <1>2, <1>3 DEF ReadsNotTorn

\* A step of p inside its run that neither changes the row nor p's fence, and
\* whose reads so far are those of the row if the row carries p's fence.
LEMMA LocalKeepsReads ==
  ASSUME FenceHeld, FencesDistinct, ReadsNotTorn, NEW p \in Procs,
         \A q \in Procs : q # p => run'[q] = run[q],
         run[p].pc \in HoldsLease, run'[p].pc \in HoldsLease,
         run'[p].fence = run[p].fence, ReadsOf(p)',
         cursor' = cursor, lease'.fence = lease.fence
  PROVE  FenceHeld' /\ FencesDistinct' /\ ReadsNotTorn'
<1>1. FenceHeld' /\ FencesDistinct'
  BY DEF FenceHeld, FencesDistinct
<1>2. ASSUME NEW q \in Procs PROVE ReadsOf(q)'
  BY DEF ReadsOf, ReadsNotTorn
<1>3. QED
  BY <1>1, <1>2 DEF ReadsNotTorn

\* The commit of p, acknowledged or not.
LEMMA CommitKeepsIInv ==
  ASSUME IInv, NEW p \in Procs, run[p].pc = "commit",
         CommitCollection(Batch(p), run[p].fence), NEW o, Return(p, o)
  PROVE  FenceHeld' /\ FencesDistinct' /\ ReadsNotTorn' /\ StoreInv'
<1> USE DEF IInv
<1>1. /\ \A q \in Procs : q # p => run'[q] = run[q]
      /\ run'[p].pc = "release" /\ run'[p].fence = run[p].fence
  BY DEF Return, TypeOK, Runs
<1>2. run[p].snap \in Files /\ run[p].req \in Requests /\ run[p].fence # NoFence
  BY DEF TypeOK, Runs, FenceHeld, HoldsLease
<1>3. FenceHeld' /\ FencesDistinct'
  BY <1>1 DEF FenceHeld, FencesDistinct, HoldsLease
<1>4. lease' = lease
  BY DEF CommitCollection, storeVars
<1>5. CASE CommitResult(Batch(p), run[p].fence) # "committed"
  <2>1. cursor' = cursor /\ evidence' = evidence
    BY <1>5 DEF CommitCollection, storeVars
  <2>2. ASSUME NEW q \in Procs PROVE ReadsOf(q)'
    BY <1>1, <1>4, <2>1 DEF ReadsOf, ReadsNotTorn
  <2>3. QED
    BY <1>3, <2>1, <2>2, StoreInvUnchanged DEF ReadsNotTorn, StoreInv
<1>6. CASE CommitResult(Batch(p), run[p].fence) = "committed"
  <2>1. LeaseCurrent(run[p].fence) /\ ~Conflicts(Batch(p))
    BY <1>6 DEF CommitResult
  <2>2. run[p].req = cursor
    <3>1. /\ run[p].req.seq = cursor.seq /\ run[p].req.gen = cursor.gen
          /\ run[p].req.digest = cursor.digest
      BY <2>1 DEF LeaseCurrent, ReadsNotTorn, ReadsOf
    <3>2. QED
      BY <1>2, <3>1 DEF TypeOK, Requests
  <2>3. Batch(p) = BatchOf(run[p].snap, cursor)
    BY <2>2 DEF Batch
  <2>4. /\ evidence' = evidence \cup ResultRecords(run[p].snap, cursor)
        /\ cursor' = encodeCollectionCursor(BatchOf(run[p].snap, cursor).id)
    BY <1>6, <2>3 DEF CommitCollection, BatchOf
  <2>5. cursor \in Requests /\ evidence \subseteq Records
    BY DEF TypeOK
  <2>6. CursorWellFormed' /\ EvidenceCoversCursor'
    BY <1>2, <2>4, <2>5, BatchTypes, CommitCoversCursor
  <2>7. UniqueAliases'
    BY <1>2, <2>1, <2>3, <2>4, <2>5, CommitKeepsAliases
  <2>8. ASSUME NEW q \in Procs PROVE ReadsOf(q)'
    <3>1. CASE q = p
      BY <1>1, <3>1 DEF ReadsOf
    <3>2. CASE q # p
      <4>1. lease.fence # run[q].fence
        BY <1>2, <2>1, <3>2 DEF LeaseCurrent, FencesDistinct
      <4>2. QED
        BY <1>1, <1>4, <3>2, <4>1 DEF ReadsOf
    <3>3. QED
      BY <3>1, <3>2
  <2>9. QED
    BY <1>3, <2>6, <2>7, <2>8 DEF ReadsNotTorn, StoreInv
<1>7. QED
  BY <1>5, <1>6

\* The initial states satisfy the invariant.
LEMMA InitIInv == Init => IInv
<1> SUFFICES ASSUME Init PROVE IInv
  OBVIOUS
<1>1. \A p \in Procs : run[p].pc = "idle" /\ run[p].fence = NoFence
  BY DEF Init, IdleRun
<1>2. FenceHeld /\ FencesDistinct /\ ReadsNotTorn
  BY <1>1 DEF FenceHeld, FencesDistinct, ReadsNotTorn, ReadsOf, HoldsLease
<1>3. CursorWellFormed /\ EvidenceCoversCursor /\ UniqueAliases
  BY DEF Init, StoreInit, CursorWellFormed, EvidenceCoversCursor, UniqueAliases,
         EmptyRequest, NoDigest
<1>4. QED
  BY <1>2, <1>3, InitTypeOK DEF IInv

\* Every step keeps the invariant.
LEMMA NextIInv == IInv /\ [Next]_vars => IInv'
<1> SUFFICES ASSUME IInv, [Next]_vars PROVE IInv'
  OBVIOUS
<1>a. /\ TypeOK /\ FenceHeld /\ FencesDistinct /\ ReadsNotTorn
      /\ CursorWellFormed /\ EvidenceCoversCursor /\ UniqueAliases /\ StoreInv
  BY DEF IInv, StoreInv
<1>b. TypeOK'
  BY <1>a, NextTypeOK
<1>c. SUFFICES FenceHeld' /\ FencesDistinct' /\ ReadsNotTorn' /\ StoreInv'
  BY <1>b DEF IInv, StoreInv
<1>d. \A p \in Procs : run[p] \in Runs
  BY <1>a DEF TypeOK
<1> DEFINE Goal == FenceHeld' /\ FencesDistinct' /\ ReadsNotTorn' /\ StoreInv'
<1>1. ASSUME UNCHANGED <<cursor, evidence, run>>, lease'.fence = lease.fence PROVE Goal
  <2>1. StoreInv'
    BY <1>1, <1>a, StoreInvUnchanged
  <2>2. FenceHeld' /\ FencesDistinct' /\ ReadsNotTorn'
    BY <1>1, <1>a DEF FenceHeld, FencesDistinct, ReadsNotTorn, ReadsOf
  <2>3. QED
    BY <2>1, <2>2
<1>2. CASE AppendLine \/ Truncate \/ ReplaceFile
  <2>1. UNCHANGED <<cursor, evidence, run>> /\ lease' = lease
    BY <1>2 DEF AppendLine, Truncate, ReplaceFile, Edit, storeVars
  <2>2. QED
    BY <1>1, <2>1
<1>3. ASSUME NEW p \in Procs, Start(p) PROVE Goal
  <2>1. /\ \A q \in Procs : q # p => run'[q] = run[q]
        /\ run'[p].pc = "acquire" /\ run'[p].fence = NoFence
        /\ cursor' = cursor /\ evidence' = evidence /\ lease' = lease
    BY <1>3, <1>a DEF Start, TypeOK, IdleRun, storeVars
  <2>2. FenceHeld' /\ FencesDistinct'
    BY <1>a, <2>1 DEF FenceHeld, FencesDistinct, HoldsLease
  <2>3. ASSUME NEW q \in Procs PROVE ReadsOf(q)'
    BY <1>a, <2>1 DEF ReadsOf, ReadsNotTorn
  <2>4. QED
    BY <1>a, <2>1, <2>2, <2>3, StoreInvUnchanged DEF ReadsNotTorn
<1>4. ASSUME NEW p \in Procs, Acquire(p) PROVE Goal
  <2>1. PICK f \in Fences \ FencesInUse :
          /\ AcquireCollectionLease(f)
          /\ run' = [run EXCEPT ![p].pc = "cursor", ![p].fence = f]
    BY <1>4 DEF Acquire
  <2>2. /\ \A q \in Procs : q # p => run'[q] = run[q]
        /\ run'[p].pc = "cursor" /\ run'[p].fence = f
        /\ cursor' = cursor /\ evidence' = evidence /\ lease'.fence = f
    BY <1>a, <1>d, <2>1 DEF AcquireCollectionLease, TypeOK, Runs
  <2>3. f # NoFence /\ \A q \in Procs : run[q].fence # f
    BY FenceAssumption DEF FencesInUse
  <2>4. FenceHeld' /\ FencesDistinct'
    BY <1>a, <2>2, <2>3 DEF FenceHeld, FencesDistinct, HoldsLease
  <2>5. ASSUME NEW q \in Procs PROVE ReadsOf(q)'
    BY <2>2, <2>3 DEF ReadsOf
  <2>6. QED
    BY <1>a, <2>2, <2>4, <2>5, StoreInvUnchanged DEF ReadsNotTorn
<1>5. ASSUME NEW p \in Procs, Exit(p), UNCHANGED <<cursor, evidence>>,
             lease' = lease \/ lease' = FreeLease
      PROVE  Goal
  BY <1>5, <1>a, ExitKeepsReads, StoreInvUnchanged
<1>6. ASSUME NEW p \in Procs, NEW l \in HoldsLease,
             run[p].pc \in HoldsLease, UNCHANGED <<cursor, evidence, lease>>,
             \A q \in Procs : q # p => run'[q] = run[q],
             run'[p].pc = l, run'[p].fence = run[p].fence, ReadsOf(p)'
      PROVE  Goal
  BY <1>6, <1>a, LocalKeepsReads, StoreInvUnchanged
<1>7. ASSUME NEW p \in Procs, ReadCursor(p) PROVE Goal
  <2>1. /\ \A q \in Procs : q # p => run'[q] = run[q]
        /\ run'[p].pc = "generation" /\ run'[p].fence = run[p].fence
        /\ run'[p].req.seq = cursor.seq /\ UNCHANGED <<cursor, evidence, lease>>
    BY <1>7, <1>a, <1>d DEF ReadCursor, TypeOK, Runs, Requests, storeVars
  <2>2. ReadsOf(p)'
    BY <2>1 DEF ReadsOf
  <2>3. QED
    BY <1>6, <1>7, <2>1, <2>2 DEF ReadCursor, HoldsLease
<1>8. ASSUME NEW p \in Procs, ReadGeneration(p) PROVE Goal
  <2>1. /\ \A q \in Procs : q # p => run'[q] = run[q]
        /\ run[p].pc = "generation"
        /\ run'[p].pc = "digest" /\ run'[p].fence = run[p].fence
        /\ run'[p].req.seq = run[p].req.seq
        /\ run'[p].req.gen = cursor.gen /\ UNCHANGED <<cursor, evidence, lease>>
    BY <1>8, <1>a, <1>d DEF ReadGeneration, TypeOK, Runs, Requests, storeVars
  <2>2. ReadsOf(p)'
    BY <1>a, <2>1 DEF ReadsOf, ReadsNotTorn
  <2>3. QED
    BY <1>6, <2>1, <2>2 DEF HoldsLease
<1>9. ASSUME NEW p \in Procs, ReadDigest(p) PROVE Goal
  <2>1. /\ \A q \in Procs : q # p => run'[q] = run[q]
        /\ run[p].pc = "digest"
        /\ run'[p].pc = "collect" /\ run'[p].fence = run[p].fence
        /\ run'[p].req.seq = run[p].req.seq /\ run'[p].req.gen = run[p].req.gen
        /\ run'[p].req.digest = cursor.digest /\ UNCHANGED <<cursor, evidence, lease>>
    BY <1>9, <1>a, <1>d DEF ReadDigest, TypeOK, Runs, Requests, storeVars
  <2>2. ReadsOf(p)'
    BY <1>a, <2>1 DEF ReadsOf, ReadsNotTorn
  <2>3. QED
    BY <1>6, <2>1, <2>2 DEF HoldsLease
\* The remaining steps inside a run keep p's reads and move it to a later label.
<1>10. ASSUME NEW p \in Procs, NEW l \in {"collect", "renew", "commit", "release"},
              UNCHANGED <<cursor, evidence, lease>>,
              \A q \in Procs : q # p => run'[q] = run[q],
              run[p].pc \in HoldsLease,
              l # "release" => run[p].pc \in {"collect", "renew", "commit"},
              run'[p].pc = l, run'[p].fence = run[p].fence, run'[p].req = run[p].req
       PROVE  Goal
  <2>1. ReadsOf(p)'
    BY <1>10, <1>a DEF ReadsOf, ReadsNotTorn
  <2>2. l \in HoldsLease
    BY DEF HoldsLease
  <2>3. QED
    BY <1>6, <1>10, <2>1, <2>2
<1>11. ASSUME NEW p \in Procs, Collect(p) PROVE Goal
  <2>1. /\ \A q \in Procs : q # p => run'[q] = run[q]
        /\ run[p].pc = "collect" /\ run'[p].pc \in {"renew", "release"}
        /\ run'[p].fence = run[p].fence /\ run'[p].req = run[p].req
        /\ UNCHANGED <<cursor, evidence, lease>>
    BY <1>11, <1>a, <1>d DEF Collect, Goto, Return, TypeOK, Runs, storeVars
  <2>2. QED
    BY <1>10, <2>1 DEF HoldsLease
<1>12. ASSUME NEW p \in Procs, Renew(p) PROVE Goal
  <2>1. /\ \A q \in Procs : q # p => run'[q] = run[q]
        /\ run[p].pc = "renew" /\ run'[p].pc \in {"commit", "release"}
        /\ run'[p].fence = run[p].fence /\ run'[p].req = run[p].req
        /\ UNCHANGED <<cursor, evidence, lease>>
    BY <1>12, <1>a, <1>d DEF Renew, RenewCollectionLease, Goto, Return, TypeOK, Runs, storeVars
  <2>2. QED
    BY <1>10, <2>1 DEF HoldsLease
<1>13. ASSUME NEW p \in Procs, Commit(p) \/ CommitAnswerLost(p) PROVE Goal
  BY <1>13, CommitKeepsIInv DEF Commit, CommitAnswerLost
<1>14. ASSUME NEW p \in Procs, AcquireHeld(p) \/ Release(p) \/ Crash(p) PROVE Goal
  BY <1>5, <1>14 DEF AcquireHeld, Release, ReleaseCollectionLease, Crash, storeVars
<1>15. ASSUME NEW p \in Procs, CollectFails(p) PROVE Goal
  <2>1. /\ \A q \in Procs : q # p => run'[q] = run[q]
        /\ run[p].pc = "collect" /\ run'[p].pc \in {"collect", "release"}
        /\ run'[p].fence = run[p].fence /\ run'[p].req = run[p].req
        /\ UNCHANGED <<cursor, evidence, lease>>
    BY <1>15, <1>a, <1>d DEF CollectFails, TypeOK, Runs, storeVars
  <2>2. QED
    BY <1>10, <2>1 DEF HoldsLease
<1>16. ASSUME NEW p \in Procs, StatementFails(p) PROVE Goal
  <2>1. CASE Exit(p)
    BY <1>5, <1>16, <2>1 DEF StatementFails, storeVars
  <2>2. CASE /\ run[p].pc \in {"cursor", "generation", "digest", "collect", "renew", "commit"}
             /\ Return(p, "failed")
    <3>1. /\ \A q \in Procs : q # p => run'[q] = run[q]
          /\ run'[p].pc = "release"
          /\ run'[p].fence = run[p].fence /\ run'[p].req = run[p].req
          /\ UNCHANGED <<cursor, evidence, lease>>
      BY <1>16, <2>2, <1>a, <1>d DEF StatementFails, Return, TypeOK, Runs, storeVars
    <3>2. QED
      BY <1>10, <2>2, <3>1 DEF HoldsLease
  <2>3. QED
    BY <1>16, <2>1, <2>2 DEF StatementFails
<1>17. CASE LeaseExpiresEarly \/ LeaseExpiresOrphaned
  <2>1. UNCHANGED <<cursor, evidence, run>> /\ lease'.fence = lease.fence
    BY <1>17, <1>a DEF LeaseExpiresEarly, LeaseExpiresOrphaned, LeaseExpires, TypeOK
  <2>2. QED
    BY <1>1, <2>1
<1>18. CASE UNCHANGED vars
  BY <1>1, <1>18 DEF vars
<1>19. QED
  BY <1>2, <1>3, <1>4, <1>7, <1>8, <1>9, <1>11, <1>12, <1>13, <1>14, <1>15, <1>16, <1>17,
     <1>18 DEF Next, Step, Faulty

\* The inductive invariant holds in every reachable state.
THEOREM CollectorInvariant == Spec => []IInv
BY InitIInv, NextIInv, PTL DEF Spec

\* The three reads of the cursor row that a commit acts on were taken of one
\* state of the row: the fence in cursor_state makes torn reads harmless.
THEOREM CollectorReadsNotTorn == Spec => []ReadsNotTorn
<1>1. IInv => ReadsNotTorn
  BY DEF IInv
<1>2. QED
  BY <1>1, CollectorInvariant, PTL

\* The committed cursor never runs ahead of the stored evidence, for any number
\* of overlapping, crashing and expiring collectors and any edits of the file.
THEOREM CollectorEvidenceCoversCursor == Spec => []EvidenceCoversCursor
<1>1. IInv => EvidenceCoversCursor
  BY DEF IInv
<1>2. QED
  BY <1>1, CollectorInvariant, PTL

\* No alias of the source ever carries two contents.
THEOREM CollectorUniqueAliases == Spec => []UniqueAliases
<1>1. IInv => UniqueAliases
  BY DEF IInv
<1>2. QED
  BY <1>1, CollectorInvariant, PTL

\* The cursor moves only under a current lease, and forward within a generation.
THEOREM CollectorCursorMovesForward == Spec => CursorMovesForward
<1> DEFINE Moves == /\ lease.fence # NoFence /\ ~lease.expired
                    /\ cursor'.gen = cursor.gen => cursor'.seq > cursor.seq
<1>1. IInv /\ [Next]_vars => [Moves]_cursor
  <2> SUFFICES ASSUME IInv, [Next]_vars, cursor' # cursor PROVE Moves
    OBVIOUS
  <2>1. PICK p \in Procs : /\ run[p].pc = "commit"
                           /\ CommitCollection(Batch(p), run[p].fence)
    BY DEF Next, vars, storeVars, AppendLine, Truncate, ReplaceFile, Edit, Start, Step, Faulty,
           Acquire, AcquireCollectionLease, AcquireHeld, ReadCursor, ReadGeneration, ReadDigest,
           Collect, Renew, RenewCollectionLease, Commit, Release, ReleaseCollectionLease,
           CollectFails, StatementFails, CommitAnswerLost, Crash, LeaseExpiresEarly,
           LeaseExpiresOrphaned, LeaseExpires
  <2>2. CommitResult(Batch(p), run[p].fence) = "committed"
    BY <2>1 DEF CommitCollection, storeVars
  <2>3. /\ run[p].snap \in Files /\ run[p].req \in Requests /\ cursor.seq \in Nat
        /\ run[p].fence # NoFence
    BY <2>1 DEF IInv, TypeOK, Runs, Requests, FenceHeld, HoldsLease
  <2>4. lease.fence # NoFence /\ ~lease.expired
    BY <2>2, <2>3 DEF CommitResult, LeaseCurrent
  <2>5. /\ cursor'.seq = Batch(p).id.next /\ cursor'.gen = Batch(p).id.gen
        /\ Batch(p).id.next \in Nat
    <3>1. cursor' = encodeCollectionCursor(Batch(p).id)
      BY <2>1, <2>2 DEF CommitCollection
    <3>2. Batch(p).id.next \in Nat
      BY <2>3, ResultTypes DEF Batch, BatchOf
    <3>3. QED
      BY <3>1, <3>2 DEF encodeCollectionCursor
  <2>6. ASSUME cursor'.gen = cursor.gen PROVE cursor'.seq > cursor.seq
    <3>1. SameGeneration(Batch(p))
      BY <2>5, <2>6 DEF SameGeneration
    <3>2. ~(Batch(p).id.next < cursor.seq) /\ Batch(p).id.next # cursor.seq
      BY <2>2, <3>1 DEF CommitResult
    <3>3. QED
      BY <2>3, <2>5, <3>2
  <2>7. QED
    BY <2>4, <2>6
<1>2. QED
  BY <1>1, CollectorInvariant, PTL DEF Spec, CursorMovesForward
-----------------------------------------------------------------------------
(* What one run carries to its commit or to its end *)

\* A batch worth committing: it has records, and not one that the adapter rejects.
Accepted(data, req) ==
  /\ ResultRecords(data, req) # {}
  /\ \A r \in ResultRecords(data, req) : r.content \notin BadLines \cup DriftLines

\* A run past Collect holds accepted lines only; its quarantine is written by the
\* step that ends the collection, once, and names an attempt that was made.
RunSound(p) ==
  /\ run[p].pc \in {"renew", "commit"} => Accepted(run[p].snap, run[p].req)
  /\ run[p].pc # "idle" => run[p].attempt \in 1 .. MaxAttempts
  /\ run[p].pc # "release" => run[p].quarantine = {}
  /\ run[p].pc = "release" =>
       IF run[p].outcome = "quarantined"
       THEN \E e \in run[p].quarantine :
              run[p].quarantine = {e} /\ e.attempt \in 1 .. MaxAttempts
       ELSE run[p].quarantine = {}

RunsSound == \A p \in Procs : RunSound(p)

\* A collection that ends with records has rejected nothing it would store: no
\* line of the file is bad, and no record of the batch is off contract.
LEMMA AcceptedRecords ==
  ASSUME NEW data \in Files, NEW req \in Requests, NEW source,
         source \in {"ready", "disabled", "unsupported"},
         CollectStatus(source, data, req) = "records"
  PROVE  Accepted(data, req)
<1>1. /\ BaseStatus(source, data, req) = "records"
      /\ \A r \in ResultRecords(data, req) : r.content \notin DriftLines
  BY DEF CollectStatus
<1>2. ResultRecords(data, req) # {} /\ \A i \in DOMAIN data : data[i] \notin BadLines
  BY <1>1 DEF BaseStatus
<1>3. \A i \in (StartCursor(data, req) + 1) .. NextCursor(data, req) : i \in DOMAIN data
  BY ResultTypes DEF Files
<1>4. \A r \in ResultRecords(data, req) : r.content \notin BadLines
  BY <1>2, <1>3 DEF ResultRecords
<1>5. QED
  BY <1>1, <1>2, <1>4 DEF Accepted

\* The step of one process: every other run is left alone, and its own stays sound.
LEMMA StepRunsSound ==
  ASSUME RunsSound, NEW p \in Procs, \A q \in Procs : q # p => run'[q] = run[q], RunSound(p)'
  PROVE  RunsSound'
<1> SUFFICES ASSUME NEW q \in Procs PROVE RunSound(q)'
  BY DEF RunsSound
<1>1. CASE q = p
  BY <1>1
<1>2. CASE q # p
  <2>1. RunSound(q) /\ run'[q] = run[q]
    BY <1>2 DEF RunsSound
  <2>2. QED
    BY <2>1 DEF RunSound
<1>3. QED
  BY <1>1, <1>2

\* Every step keeps every run sound.
LEMMA NextRunsSound == TypeOK /\ RunsSound /\ [Next]_vars => RunsSound'
<1> SUFFICES ASSUME TypeOK, RunsSound, [Next]_vars PROVE RunsSound'
  OBVIOUS
<1> USE CollectorAssumption
<1>d. \A p \in Procs : run[p] \in Runs /\ RunSound(p)
  BY DEF TypeOK, RunsSound
<1>1. ASSUME run' = run PROVE RunsSound'
  BY <1>1 DEF RunsSound, RunSound
<1>2. ASSUME NEW p \in Procs, Exit(p) PROVE RunsSound'
  <2>1. /\ \A q \in Procs : q # p => run'[q] = run[q]
        /\ run'[p] = IdleRun
    BY <1>2 DEF Exit, TypeOK
  <2>2. RunSound(p)'
    BY <2>1 DEF RunSound, IdleRun
  <2>3. QED
    BY <2>1, <2>2, StepRunsSound
<1>3. ASSUME NEW p \in Procs, Start(p) PROVE RunsSound'
  <2>1. /\ \A q \in Procs : q # p => run'[q] = run[q]
        /\ run'[p].pc = "acquire" /\ run'[p].attempt = 1 /\ run'[p].quarantine = {}
    BY <1>3 DEF Start, TypeOK, IdleRun
  <2>2. RunSound(p)'
    BY <2>1 DEF RunSound
  <2>3. QED
    BY <2>1, <2>2, StepRunsSound
\* A step that moves p and changes nothing else of what RunSound speaks of.
<1>4. ASSUME NEW p \in Procs, \A q \in Procs : q # p => run'[q] = run[q],
             run[p].pc \notin {"idle", "release"},
             run'[p].pc \notin {"renew", "commit", "release"},
             run'[p].attempt \in 1 .. MaxAttempts, run'[p].quarantine = run[p].quarantine
      PROVE  RunsSound'
  <2>1. RunSound(p)'
    BY <1>4, <1>d DEF RunSound
  <2>2. QED
    BY <1>4, <2>1, StepRunsSound
<1>5. ASSUME NEW p \in Procs, Acquire(p) PROVE RunsSound'
  <2>1. /\ \A q \in Procs : q # p => run'[q] = run[q]
        /\ run[p].pc = "acquire" /\ run'[p].pc = "cursor"
        /\ run'[p].attempt = run[p].attempt /\ run'[p].quarantine = run[p].quarantine
    BY <1>5, <1>d DEF Acquire, TypeOK, Runs
  <2>2. QED
    BY <1>4, <2>1, <1>d DEF RunSound
<1>6. ASSUME NEW p \in Procs, ReadCursor(p) \/ ReadGeneration(p) \/ ReadDigest(p) PROVE RunsSound'
  <2>1. /\ \A q \in Procs : q # p => run'[q] = run[q]
        /\ run[p].pc \in {"cursor", "generation", "digest"}
        /\ run'[p].pc \in {"generation", "digest", "collect"}
        /\ run'[p].attempt = run[p].attempt /\ run'[p].quarantine = run[p].quarantine
    BY <1>6, <1>d DEF ReadCursor, ReadGeneration, ReadDigest, TypeOK, Runs
  <2>2. QED
    BY <1>4, <2>1, <1>d DEF RunSound
\* A return without quarantine.
<1>7. ASSUME NEW p \in Procs, NEW o, o # "quarantined", Return(p, o),
             run[p].pc \notin {"idle", "release"}
      PROVE  RunsSound'
  <2>1. /\ \A q \in Procs : q # p => run'[q] = run[q]
        /\ run'[p].pc = "release" /\ run'[p].outcome = o
        /\ run'[p].attempt = run[p].attempt /\ run'[p].quarantine = run[p].quarantine
    BY <1>7, <1>d DEF Return, TypeOK, Runs
  <2>2. RunSound(p)'
    BY <1>7, <2>1, <1>d DEF RunSound
  <2>3. QED
    BY <2>1, <2>2, StepRunsSound
\* A return with one quarantine entry.
<1>8. ASSUME NEW p \in Procs, NEW e, e.attempt = run[p].attempt, run[p].pc = "collect",
             run' = [run EXCEPT ![p].pc = "release", ![p].outcome = "quarantined",
                                ![p].quarantine = @ \cup {e}]
      PROVE  RunsSound'
  <2>1. /\ \A q \in Procs : q # p => run'[q] = run[q]
        /\ run'[p].pc = "release" /\ run'[p].outcome = "quarantined"
        /\ run'[p].attempt = run[p].attempt /\ run'[p].quarantine = run[p].quarantine \cup {e}
    BY <1>8, <1>d DEF TypeOK, Runs
  <2>2. run'[p].quarantine = {e} /\ e.attempt \in 1 .. MaxAttempts
    BY <1>8, <2>1, <1>d DEF RunSound
  <2>3. RunSound(p)'
    BY <2>1, <2>2, <1>8 DEF RunSound
  <2>4. QED
    BY <2>1, <2>3, StepRunsSound
\* A move of p to Renew or Commit with the reads and the file that were accepted.
<1>9. ASSUME NEW p \in Procs, run[p].pc \in {"collect", "renew"}, NEW l \in {"renew", "commit"},
             run' = [run EXCEPT ![p].pc = l], Accepted(run[p].snap, run[p].req)
      PROVE  RunsSound'
  <2>1. /\ \A q \in Procs : q # p => run'[q] = run[q]
        /\ run'[p].pc = l /\ run'[p].snap = run[p].snap /\ run'[p].req = run[p].req
        /\ run'[p].attempt = run[p].attempt /\ run'[p].quarantine = run[p].quarantine
    BY <1>9, <1>d DEF TypeOK, Runs
  <2>2. RunSound(p)'
    BY <1>9, <2>1, <1>d DEF RunSound
  <2>3. QED
    BY <2>1, <2>2, StepRunsSound
<1>10. ASSUME NEW p \in Procs, Collect(p) PROVE RunsSound'
  <2>1. CASE Status(p) = "records" /\ Goto(p, "collect", "renew")
    <3>1. /\ run[p].snap \in Files /\ run[p].req \in Requests
          /\ run[p].source \in {"ready", "disabled", "unsupported"}
      BY <1>d DEF Runs
    <3>2. Accepted(run[p].snap, run[p].req)
      BY <2>1, <3>1, AcceptedRecords DEF Status
    <3>3. QED
      BY <1>9, <2>1, <3>2 DEF Goto
  <2>2. CASE Status(p) \in {"empty", "disabled", "unsupported"} /\ Return(p, Status(p))
    BY <1>7, <1>10, <2>2 DEF Collect
  <2>3. CASE run' = [run EXCEPT ![p].pc = "release", ![p].outcome = "quarantined",
                                ![p].quarantine =
                                  @ \cup {[code |-> "permanent", attempt |-> run[p].attempt]}]
    <3> DEFINE e == [code |-> "permanent", attempt |-> run[p].attempt]
    <3>1. e.attempt = run[p].attempt
      OBVIOUS
    <3>2. /\ run[p].pc = "collect"
          /\ run' = [run EXCEPT ![p].pc = "release", ![p].outcome = "quarantined",
                                ![p].quarantine = @ \cup {e}]
      BY <1>10, <2>3 DEF Collect
    <3> HIDE DEF e
    <3>3. QED
      BY <1>8, <3>1, <3>2
  <2>4. QED
    BY <1>10, <2>1, <2>2, <2>3 DEF Collect
<1>11. ASSUME NEW p \in Procs, Renew(p) PROVE RunsSound'
  <2>1. CASE Goto(p, "renew", "commit")
    BY <1>9, <2>1, <1>d DEF Goto, RunSound
  <2>2. CASE Return(p, "held")
    BY <1>7, <1>11, <2>2 DEF Renew
  <2>3. QED
    BY <1>11, <2>1, <2>2 DEF Renew
<1>12. ASSUME NEW p \in Procs, Commit(p) \/ CommitAnswerLost(p) PROVE RunsSound'
  <2>1. CommitResult(Batch(p), run[p].fence) # "quarantined"
    BY DEF CommitResult
  <2>2. QED
    BY <1>7, <1>12, <2>1 DEF Commit, CommitAnswerLost
<1>13. ASSUME NEW p \in Procs, CollectFails(p) PROVE RunsSound'
  <2>1. CASE run[p].attempt < MaxAttempts
    <3>1. /\ \A q \in Procs : q # p => run'[q] = run[q]
          /\ run[p].pc = "collect" /\ run'[p].pc = "collect"
          /\ run'[p].attempt = run[p].attempt + 1 /\ run'[p].quarantine = run[p].quarantine
      BY <1>13, <2>1, <1>d DEF CollectFails, TypeOK, Runs
    <3>2. run'[p].attempt \in 1 .. MaxAttempts
      BY <2>1, <3>1, <1>d DEF RunSound, Runs
    <3>3. QED
      BY <1>4, <3>1, <3>2
  <2>2. CASE ~(run[p].attempt < MaxAttempts)
    <3> DEFINE e == [code |-> "adapter_failure", attempt |-> run[p].attempt]
    <3>1. e.attempt = run[p].attempt
      OBVIOUS
    <3>2. /\ run[p].pc = "collect"
          /\ run' = [run EXCEPT ![p].pc = "release", ![p].outcome = "quarantined",
                                ![p].quarantine = @ \cup {e}]
      BY <1>13, <2>2 DEF CollectFails
    <3> HIDE DEF e
    <3>3. QED
      BY <1>8, <3>1, <3>2
  <2>3. QED
    BY <2>1, <2>2
<1>14. ASSUME NEW p \in Procs, StatementFails(p) PROVE RunsSound'
  <2>1. CASE Exit(p)
    BY <1>2, <2>1
  <2>2. CASE /\ run[p].pc \in {"cursor", "generation", "digest", "collect", "renew", "commit"}
             /\ Return(p, "failed")
    BY <1>7, <2>2
  <2>3. QED
    BY <1>14, <2>1, <2>2 DEF StatementFails
<1>15. ASSUME NEW p \in Procs, AcquireHeld(p) \/ Release(p) \/ Crash(p) PROVE RunsSound'
  BY <1>2, <1>15 DEF AcquireHeld, Release, Crash
<1>16. CASE AppendLine \/ Truncate \/ ReplaceFile \/ LeaseExpiresEarly \/ LeaseExpiresOrphaned
  BY <1>1, <1>16 DEF AppendLine, Truncate, ReplaceFile, Edit, LeaseExpiresEarly,
                     LeaseExpiresOrphaned
<1>17. CASE UNCHANGED vars
  BY <1>1, <1>17 DEF vars
<1>18. QED
  BY <1>3, <1>5, <1>6, <1>10, <1>11, <1>12, <1>13, <1>14, <1>15, <1>16, <1>17
     DEF Next, Step, Faulty

\* Evidence grows by the records of a batch at Commit and in no other step.
LEMMA EvidenceGrowth ==
  ASSUME [Next]_vars
  PROVE  \/ evidence' = evidence
         \/ \E p \in Procs : /\ run[p].pc = "commit"
                             /\ evidence' = evidence \cup ResultRecords(run[p].snap, run[p].req)
<1>1. \/ evidence' = evidence
      \/ \E p \in Procs : run[p].pc = "commit" /\ CommitCollection(Batch(p), run[p].fence)
  BY DEF Next, vars, storeVars, AppendLine, Truncate, ReplaceFile, Edit, Start, Step, Faulty,
         Acquire, AcquireCollectionLease, AcquireHeld, ReadCursor, ReadGeneration, ReadDigest,
         Collect, Renew, RenewCollectionLease, Commit, Release, ReleaseCollectionLease,
         CollectFails, StatementFails, CommitAnswerLost, Crash, LeaseExpiresEarly,
         LeaseExpiresOrphaned, LeaseExpires
<1>2. QED
  BY <1>1 DEF CommitCollection, Batch, BatchOf, storeVars

\* A run that is over has quarantined exactly what it failed on, for any number
\* of attempts (Run and quarantine in internal/collector).
THEOREM CollectorQuarantineMatchesOutcome == Spec => []QuarantineMatchesOutcome
<1>1. Init => RunsSound
  BY DEF Init, RunsSound, RunSound, IdleRun
<1>2. RunsSound => QuarantineMatchesOutcome
  BY DEF RunsSound, RunSound, QuarantineMatchesOutcome
<1>3. QED
  BY <1>1, <1>2, NextRunsSound, CollectorTypeOK, PTL DEF Spec

\* No bad or off-contract line is ever stored, whatever the files, the batch
\* limit and the edits between the read and the commit.
THEOREM CollectorNoRejectedLineStored == Spec => []NoRejectedLineStored
<1>1. Init => RunsSound /\ NoRejectedLineStored
  BY DEF Init, StoreInit, RunsSound, RunSound, IdleRun, NoRejectedLineStored
<1>2. ASSUME RunsSound, NoRejectedLineStored, [Next]_vars PROVE NoRejectedLineStored'
  BY <1>2, EvidenceGrowth DEF NoRejectedLineStored, RunsSound, RunSound, Accepted
<1>3. QED
  BY <1>1, <1>2, NextRunsSound, CollectorTypeOK, PTL DEF Spec
-----------------------------------------------------------------------------
(* Refinement of EvidenceLog.  Beyond IInv it needs that the records of a   *)
(* generation have no gap, so that their number is the length of its log.   *)

Filled(E, g, n) ==
  /\ \A r \in E : r.gen = g => r.seq \in 1 .. n
  /\ \A i \in 1 .. n : \E r \in E : r.gen = g /\ r.seq = i

NoGaps == \A g \in Generations : \E n \in Nat : Filled(evidence, g, n)

UniqueIn(E) == \A r, s \in E : SameAlias(r, s) => r = s

LogIn(E, g) ==
  [ i \in 1 .. Cardinality({r \in E : r.gen = g}) |->
      (CHOOSE r \in E : r.gen = g /\ r.seq = i).content ]

\* The log of a generation without gaps: as long as it has records, and each at
\* the place of its sequence number.
LEMMA LogOfFilled ==
  ASSUME NEW E, E \subseteq Records, UniqueIn(E), NEW g, NEW n \in Nat, Filled(E, g, n)
  PROVE  /\ LogIn(E, g) \in Seq(Lines)
         /\ Len(LogIn(E, g)) = n
         /\ \A r \in E : r.gen = g => LogIn(E, g)[r.seq] = r.content
<1> DEFINE S == {r \in E : r.gen = g}
           at(i) == CHOOSE r \in E : r.gen = g /\ r.seq = i
           f == [i \in 1 .. n |-> at(i)]
<1>1. ASSUME NEW i \in 1 .. n PROVE at(i) \in S /\ at(i).seq = i
  BY DEF Filled
<1>2. ASSUME NEW r \in S PROVE r.seq \in 1 .. n /\ at(r.seq) = r
  <2>1. r.seq \in 1 .. n
    BY DEF Filled
  <2>2. at(r.seq) \in S /\ at(r.seq).seq = r.seq
    BY <1>1, <2>1
  <2>3. QED
    BY <2>1, <2>2 DEF UniqueIn, SameAlias
<1> HIDE DEF at
<1>3. f \in Bijection(1 .. n, S)
  <2>1. f \in [1 .. n -> S]
    BY <1>1
  <2>2. IsInjective(f)
    BY <1>1 DEF IsInjective
  <2>3. \A r \in S : \E i \in 1 .. n : f[i] = r
    BY <1>2
  <2>4. QED
    BY <2>1, <2>2, <2>3 DEF Bijection, Injection, Surjection
<1>4. Cardinality(S) = n
  <2>1. ExistsBijection(1 .. n, S)
    BY <1>3 DEF ExistsBijection
  <2> HIDE DEF S
  <2>2. QED
    BY <2>1, FS_CountingElements
<1>5. LogIn(E, g) = [i \in 1 .. n |-> at(i).content]
  BY <1>4 DEF LogIn, at
<1>6. \A i \in 1 .. n : at(i).content \in Lines
  BY <1>1 DEF Records
<1>7. LogIn(E, g) \in Seq(Lines) /\ Len(LogIn(E, g)) = n
  BY <1>5, <1>6
<1>8. \A r \in E : r.gen = g => LogIn(E, g)[r.seq] = r.content
  BY <1>2, <1>5
<1>9. QED
  BY <1>7, <1>8

\* Records start + 1 to next of one generation leave no gap where at least start
\* records were, and leave every other generation alone.
LEMMA AppendFills ==
  ASSUME NEW E, NEW R, NEW g, NEW n \in Nat, Filled(E, g, n),
         NEW start \in Nat, NEW next \in Nat, start <= n, start <= next,
         \A r \in R : r.gen = g /\ r.seq \in (start + 1) .. next,
         \A i \in (start + 1) .. next : \E r \in R : r.seq = i
  PROVE  /\ Filled(E \cup R, g, IF next <= n THEN n ELSE next)
         /\ \A h, m : h # g /\ Filled(E, h, m) => Filled(E \cup R, h, m)
<1>1. ASSUME NEW r \in E \cup R, r.gen = g PROVE r.seq \in 1 .. (IF next <= n THEN n ELSE next)
  <2>1. r.seq \in 1 .. n \/ r.seq \in (start + 1) .. next
    BY <1>1 DEF Filled
  <2>2. QED
    BY <2>1
<1>2. ASSUME NEW i \in 1 .. (IF next <= n THEN n ELSE next)
      PROVE  \E r \in E \cup R : r.gen = g /\ r.seq = i
  <2>1. i \in 1 .. n \/ i \in (start + 1) .. next
    OBVIOUS
  <2>2. QED
    BY <2>1 DEF Filled
<1>3. ASSUME NEW h, NEW m, h # g, Filled(E, h, m) PROVE Filled(E \cup R, h, m)
  BY <1>3 DEF Filled
<1>4. QED
  BY <1>1, <1>2, <1>3 DEF Filled

\* A log that grows record by record keeps its prefix.
LEMMA LogPrefix ==
  ASSUME NEW E, NEW F, E \subseteq F, F \subseteq Records, UniqueIn(F),
         NEW g, NEW m \in Nat, NEW n \in Nat, Filled(E, g, m), Filled(F, g, n)
  PROVE  Log!IsPrefix(LogIn(E, g), LogIn(F, g))
<1>1. UniqueIn(E) /\ E \subseteq Records
  BY DEF UniqueIn
<1>2. /\ LogIn(E, g) \in Seq(Lines) /\ Len(LogIn(E, g)) = m
      /\ \A r \in E : r.gen = g => LogIn(E, g)[r.seq] = r.content
  BY <1>1, LogOfFilled
<1>3. /\ LogIn(F, g) \in Seq(Lines) /\ Len(LogIn(F, g)) = n
      /\ \A r \in F : r.gen = g => LogIn(F, g)[r.seq] = r.content
  BY LogOfFilled
<1>4. ASSUME NEW i \in 1 .. m PROVE i \in 1 .. n /\ LogIn(E, g)[i] = LogIn(F, g)[i]
  <2>1. PICK r \in E : r.gen = g /\ r.seq = i
    BY DEF Filled
  <2>2. QED
    BY <1>2, <1>3, <2>1 DEF Filled
<1>5. m <= n
  BY <1>4
<1> DEFINE s == LogIn(E, g)
           t == LogIn(F, g)
<1> HIDE DEF s, t
<1>6. /\ s \in Seq(Lines) /\ Len(s) = m /\ t \in Seq(Lines) /\ Len(t) = n
      /\ \A i \in 1 .. m : s[i] = t[i]
  BY <1>2, <1>3, <1>4 DEF s, t
<1>7. SubSeq(s, 1, m) = SubSeq(t, 1, m)
  BY <1>5, <1>6
<1>8. QED
  BY <1>5, <1>6, <1>7 DEF Log!IsPrefix, s, t
\* A commit that is accepted appends one batch to the log of its generation.
LEMMA CommitAppends ==
  ASSUME IInv, IInv', NoGaps, RunsSound, NEW p \in Procs, run[p].pc = "commit",
         CommitCollection(Batch(p), run[p].fence),
         CommitResult(Batch(p), run[p].fence) = "committed"
  PROVE  NoGaps' /\ Log!LogNext
<1> DEFINE data  == run[p].snap
           g     == ResultGeneration(data, cursor)
           start == StartCursor(data, cursor)
           next  == NextCursor(data, cursor)
           R     == ResultRecords(data, cursor)
<1>1. /\ data \in Files /\ run[p].req \in Requests /\ cursor \in Requests
      /\ evidence \subseteq Records /\ evidence' \subseteq Records
      /\ UniqueIn(evidence) /\ UniqueIn(evidence')
  BY DEF IInv, TypeOK, Runs, UniqueAliases, UniqueIn
<1>2. LeaseCurrent(run[p].fence)
  BY DEF CommitResult
<1>3. run[p].req = cursor
  <2>1. /\ run[p].req.seq = cursor.seq /\ run[p].req.gen = cursor.gen
        /\ run[p].req.digest = cursor.digest
    BY <1>2 DEF LeaseCurrent, IInv, ReadsNotTorn, ReadsOf
  <2>2. QED
    BY <1>1, <2>1 DEF Requests
<1>4. /\ evidence' = evidence \cup R
      /\ cursor' = encodeCollectionCursor(BatchOf(data, cursor).id)
  BY <1>3 DEF CommitCollection, Batch, BatchOf
<1>5. /\ g \in Generations /\ start \in Nat /\ next \in Nat /\ start <= next
      /\ cursor.seq \in Nat
  BY <1>1, ResultTypes DEF Requests
<1>6. cursor'.gen = g /\ cursor'.seq = next
  <2>1. cursor' = [seq |-> next, gen |-> g, digest |-> ResultDigest(data, cursor)]
    BY <1>1, <1>4, BatchTypes
  <2>2. QED
    BY <2>1
<1>7. R # {}
  BY <1>3 DEF RunsSound, RunSound, Accepted
<1>8. start < next /\ next <= start + Limit
  BY <1>1, <1>5, <1>7, AdapterAssumption DEF ResultRecords, NextCursor, MinOf, Files
<1>9. /\ \A r \in R : r.gen = g /\ r.seq \in (start + 1) .. next
      /\ \A i \in (start + 1) .. next : \E r \in R : r.seq = i
  <2>1. R = {[gen |-> g, seq |-> i, content |-> data[i]] : i \in (start + 1) .. next}
    BY DEF ResultRecords
  <2> HIDE DEF R, g, start, next, data
  <2>2. \A r \in R : r.gen = g /\ r.seq \in (start + 1) .. next
    BY <2>1
  <2>3. ASSUME NEW i \in (start + 1) .. next PROVE \E r \in R : r.seq = i
    <3>1. [gen |-> g, seq |-> i, content |-> data[i]] \in R
      BY <2>1
    <3>2. QED
      BY <3>1
  <2>4. QED
    BY <2>2, <2>3
<1>10. PICK n \in Nat : Filled(evidence, g, n)
  BY <1>5 DEF NoGaps
\* What the batch builds on is in the log.
<1>11. start <= n
  <2>1. CASE start = 0
    BY <2>1
  <2>2. CASE start # 0
    <3>1. start = cursor.seq /\ ~Rotated(data, cursor)
      BY <2>2 DEF StartCursor
    <3>2. g = cursor.gen
      BY <2>2, <3>1 DEF ResultGeneration, IInv, CursorWellFormed
    <3>3. [gen |-> cursor.gen, seq |-> start, content |-> cursor.digest.of[start]] \in evidence
      BY <1>5, <2>2, <3>1 DEF IInv, EvidenceCoversCursor
    <3>4. start \in 1 .. n
      BY <1>10, <3>2, <3>3 DEF Filled
    <3>5. QED
      BY <3>4
  <2>3. QED
    BY <2>1, <2>2
<1> DEFINE top == IF next <= n THEN n ELSE next
<1>12. /\ Filled(evidence', g, top)
       /\ \A h, m : h # g /\ Filled(evidence, h, m) => Filled(evidence', h, m)
  <2> HIDE DEF g, start, next, R
  <2>1. QED
    BY <1>4, <1>5, <1>9, <1>10, <1>11, AppendFills
<1>13. top \in Nat
  BY <1>5
<1> HIDE DEF g, start, next, R, top
<1>14. NoGaps'
  <2> SUFFICES ASSUME NEW h \in Generations PROVE \E m \in Nat : Filled(evidence', h, m)
    BY DEF NoGaps
  <2>1. CASE h = g
    BY <1>12, <1>13, <2>1
  <2>2. CASE h # g
    BY <1>12, <2>2 DEF NoGaps
  <2>3. QED
    BY <2>1, <2>2
<1> DEFINE Gens(E) == {r.gen : r \in E}
           logs    == [h \in Gens(evidence) |-> LogIn(evidence, h)]
           logsN   == [h \in Gens(evidence') |-> LogIn(evidence', h)]
<1>15. Gens(evidence') = Gens(evidence) \cup {g} /\ Gens(evidence) \subseteq Generations
  <2>1. \A r \in R : r.gen = g
    BY <1>9
  <2>2. QED
    BY <1>1, <1>4, <1>7, <2>1 DEF Records
<1>16. ASSUME NEW h \in Gens(evidence), h # g PROVE logsN[h] = logs[h]
  <2>1. {r \in evidence' : r.gen = h} = {r \in evidence : r.gen = h}
    BY <1>4, <1>9, <1>16
  <2> DEFINE at(E, i) == CHOOSE r \in E : r.gen = h /\ r.seq = i
  <2>2. \A i : at(evidence', i) = at(evidence, i)
    <3> TAKE i
    <3>1. \A r : (r \in evidence' /\ r.gen = h /\ r.seq = i)
               <=> (r \in evidence /\ r.gen = h /\ r.seq = i)
      BY <2>1
    <3>2. QED
      BY <3>1
  <2>3. LogIn(evidence', h) = LogIn(evidence, h)
    <3>1. \A E : LogIn(E, h) =
                   [i \in 1 .. Cardinality({r \in E : r.gen = h}) |-> at(E, i).content]
      BY DEF LogIn
    <3> HIDE DEF at
    <3>2. QED
      BY <2>1, <2>2, <3>1
  <2>4. QED
    BY <1>15, <2>3
<1>17. ASSUME g \in Gens(evidence) PROVE Log!IsPrefix(logs[g], logsN[g])
  <2>1. Log!IsPrefix(LogIn(evidence, g), LogIn(evidence', g))
    BY <1>1, <1>4, <1>10, <1>12, <1>13, LogPrefix
  <2>2. QED
    BY <1>15, <1>17, <2>1
<1>18. Len(logsN[g]) = top /\ (g \in Gens(evidence) => Len(logs[g]) = n)
  <2>1. Len(LogIn(evidence', g)) = top /\ Len(LogIn(evidence, g)) = n
    BY <1>1, <1>10, <1>12, <1>13, LogOfFilled
  <2>2. QED
    BY <1>15, <2>1
<1>19. g \notin Gens(evidence) => n = 0
  <2>1. ASSUME n # 0 PROVE g \in Gens(evidence)
    <3>1. 1 \in 1 .. n
      BY <2>1
    <3>2. QED
      BY <1>10, <3>1 DEF Filled
  <2>2. QED
    BY <2>1
<1>20. next \in ((IF cursor.gen = g THEN cursor.seq ELSE 0) + 1)
                .. ((IF cursor.gen = g THEN cursor.seq ELSE 0) + Limit)
  <2>1. start = 0 \/ (start = cursor.seq /\ (cursor.seq # 0 => g = cursor.gen))
    BY DEF start, g, StartCursor, ResultGeneration, IInv, CursorWellFormed
  <2>2. ASSUME cursor.gen = g PROVE next > cursor.seq
    <3>1. Batch(p).id.gen = g /\ Batch(p).id.next = next
      BY <1>3 DEF Batch, BatchOf, g, next
    <3>2. ~(next < cursor.seq) /\ next # cursor.seq
      BY <2>2, <3>1 DEF CommitResult, SameGeneration
    <3>3. QED
      BY <1>5, <3>2
  <2>3. QED
    BY <1>5, <1>8, <2>1, <2>2, AdapterAssumption
<1> HIDE DEF Gens
<1>21. /\ DOMAIN logs = Gens(evidence) /\ DOMAIN logsN = Gens(evidence')
  OBVIOUS
<1> HIDE DEF logs, logsN
<1> DEFINE LogsAre == /\ logs = [h \in {r.gen : r \in evidence} |-> LogOf(h)]
                      /\ logsN = [h \in {r.gen : r \in evidence} |-> LogOf(h)]'
<1>22. LogsAre
  BY DEF logs, logsN, Gens, LogOf, LogIn
<1> HIDE DEF LogsAre
<1>a. PICK h : h = g
  OBVIOUS
<1>23. Log!Extend(h)
  BY <1>15, <1>16, <1>17, <1>21, <1>22, <1>a DEF Log!Extend, LogsAre
<1>24. Log!CommitBatch(h)
  <2>1. next <= Len(logsN[g])
    BY <1>5, <1>13, <1>18 DEF top
  <2>2. Len(logsN[g]) <= IF g \in DOMAIN logs /\ Len(logs[g]) > next THEN Len(logs[g]) ELSE next
    BY <1>5, <1>18, <1>19, <1>21 DEF top
  <2>3. QED
    BY <1>6, <1>20, <1>22, <1>23, <1>a, <2>1, <2>2 DEF Log!CommitBatch, LogsAre
<1>25. Log!LogNext
  <2>1. h \in DOMAIN logsN
    BY <1>15, <1>21, <1>a
  <2>2. QED
    BY <1>22, <1>24, <2>1 DEF Log!LogNext, LogsAre
<1>26. QED
  BY <1>14, <1>25

\* The store behind any number of overlapping, crashing and restarting collectors
\* is an append-only log per generation with a head that only moves forward:
\* Collector implements EvidenceLog.
THEOREM CollectorImplementsEvidenceLog == Spec => ImplementsEvidenceLog
<1> DEFINE Mapped == <<[g \in {r.gen : r \in evidence} |-> LogOf(g)],
                       [gen |-> cursor.gen, seq |-> cursor.seq]>>
<1>1. Init => RunsSound /\ NoGaps /\ Log!LogInit
  <2> SUFFICES ASSUME Init PROVE RunsSound /\ NoGaps /\ Log!LogInit
    OBVIOUS
  <2>1. RunsSound
    BY DEF Init, RunsSound, RunSound, IdleRun
  <2>2. NoGaps
    <3>1. evidence = {} /\ 0 \in Nat
      BY DEF Init, StoreInit
    <3>2. \A g : Filled(evidence, g, 0)
      BY <3>1 DEF Filled
    <3>3. QED
      BY <3>1, <3>2 DEF NoGaps
  <2>3. Log!LogInit
    BY DEF Init, StoreInit, EmptyRequest, Log!LogInit
  <2>4. QED
    BY <2>1, <2>2, <2>3
<1>2. ASSUME IInv, IInv', RunsSound, NoGaps, [Next]_vars
      PROVE  NoGaps' /\ (Log!LogNext \/ UNCHANGED Mapped)
  <2>1. CASE evidence' = evidence /\ cursor' = cursor
    BY <1>2, <2>1 DEF NoGaps, Filled, LogOf
  <2>2. ASSUME NEW p \in Procs, run[p].pc = "commit",
               CommitCollection(Batch(p), run[p].fence)
        PROVE  NoGaps' /\ (Log!LogNext \/ UNCHANGED Mapped)
    <3>1. CASE CommitResult(Batch(p), run[p].fence) = "committed"
      BY <1>2, <2>2, <3>1, CommitAppends
    <3>2. CASE CommitResult(Batch(p), run[p].fence) # "committed"
      BY <2>1, <2>2, <3>2 DEF CommitCollection, storeVars
    <3>3. QED
      BY <3>1, <3>2
  <2>3. QED
    BY <1>2, <2>1, <2>2
       DEF Next, vars, storeVars, AppendLine, Truncate, ReplaceFile, Edit, Start, Step, Faulty,
           Acquire, AcquireCollectionLease, AcquireHeld, ReadCursor, ReadGeneration, ReadDigest,
           Collect, Renew, RenewCollectionLease, Commit, Release, ReleaseCollectionLease,
           CollectFails, StatementFails, CommitAnswerLost, Crash, LeaseExpiresEarly,
           LeaseExpiresOrphaned, LeaseExpires
<1>3. IInv /\ IInv' /\ RunsSound /\ NoGaps /\ [Next]_vars => NoGaps' /\ [Log!LogNext]_Mapped
  BY <1>2
<1>4. IInv => TypeOK
  BY DEF IInv
<1>5. Spec => [](RunsSound /\ NoGaps)
  BY <1>1, <1>3, <1>4, NextRunsSound, CollectorInvariant, PTL DEF Spec
<1>6. Spec => Log!LogInit
  BY <1>1, PTL DEF Spec
<1>7. Spec => [][Log!LogNext]_Mapped
  BY <1>3, <1>5, CollectorInvariant, PTL DEF Spec
<1>8. QED
  BY <1>6, <1>7, PTL DEF ImplementsEvidenceLog, Log!LogSpec
=============================================================================
