------------------------------ MODULE Collector ------------------------------
(***************************************************************************)
(* Collector processes over one source: cmd/prompt-better-collector opens  *)
(* and reads the file, then internal/collector runs the leased collection  *)
(* against the repository.  Processes are scheduled again and again, may   *)
(* overlap, crash, lose their lease or an answer, while the program that   *)
(* owns the source file appends to it, truncates or replaces it.           *)
(***************************************************************************)
EXTENDS CollectionStore

CONSTANTS
  Procs,          \* collector processes
  MaxAttempts,    \* Options.MaxAttempts
  SourceConfigs,  \* source configurations a process may be started with
  Edits,          \* what the file's owner does to it
  MaxLen,         \* bound: lines in the file
  MaxEdits,       \* bound: edits of the file
  MaxFaults       \* bound: crashes, failed statements, early lease expiries

ASSUME CollectorAssumption ==
  /\ MaxAttempts \in Nat \ {0}
  /\ SourceConfigs \subseteq {"ready", "disabled", "unsupported"}
  /\ Edits \subseteq {"append", "truncate", "replace"}
  /\ MaxLen \in Nat /\ MaxEdits \in Nat /\ MaxFaults \in Nat

VARIABLES
  file,    \* contents of the source file
  edits,   \* edits so far
  run,     \* local state of each process
  faults   \* faults so far

vars == <<cursor, lease, evidence, batches, file, edits, run, faults>>

Labels == {"idle", "acquire", "cursor", "generation", "digest", "collect",
           "renew", "commit", "release"}

Outcomes == {"none", "committed", "replayed", "empty", "disabled", "unsupported",
             "failed", "quarantined", "held", "fenced", "stale", "conflict",
             "duplicate"}

QuarantineEntries == [code : {"permanent", "adapter_failure"}, attempt : Nat]

\* A process between two runs keeps nothing.
IdleRun ==
  [ pc |-> "idle", source |-> "ready", snap |-> <<>>, fence |-> NoFence,
    req |-> EmptyRequest, attempt |-> 0, outcome |-> "none", quarantine |-> {} ]

Runs ==
  [ pc : Labels, source : {"ready", "disabled", "unsupported"}, snap : Files,
    fence : Fences \cup {NoFence}, req : Requests, attempt : 0 .. MaxAttempts,
    outcome : Outcomes, quarantine : SUBSET QuarantineEntries ]

TypeOK ==
  /\ cursor \in Requests
  /\ lease \in [fence : Fences \cup {NoFence}, expired : BOOLEAN]
  /\ evidence \subseteq Records
  /\ batches \subseteq Batches
  /\ file \in Files
  /\ edits \in 0 .. MaxEdits
  /\ run \in [Procs -> Runs]
  /\ faults \in 0 .. MaxFaults

Init ==
  /\ StoreInit
  /\ file = <<>> /\ edits = 0
  /\ run = [p \in Procs |-> IdleRun]
  /\ faults = 0

Goto(p, from, to) ==
  /\ run[p].pc = from
  /\ run' = [run EXCEPT ![p].pc = to]

\* Run returns through its deferred Release.
Return(p, outcome) ==
  run' = [run EXCEPT ![p].pc = "release", ![p].outcome = outcome]

Exit(p) == run' = [run EXCEPT ![p] = IdleRun]

-----------------------------------------------------------------------------
(* The owner of the file *)

Edit(kind, contents) ==
  /\ kind \in Edits /\ edits < MaxEdits /\ Len(contents) <= MaxLen
  /\ file' = contents
  /\ edits' = edits + 1
  /\ UNCHANGED <<storeVars, run, faults>>

AppendLine  == \E l \in Lines : Edit("append", Append(file, l))
Truncate    == \E n \in 0 .. (Len(file) - 1) : Edit("truncate", SubSeq(file, 1, n))
ReplaceFile == \E n \in 1 .. MaxLen : \E s \in [1 .. n -> Lines] : Edit("replace", s)

-----------------------------------------------------------------------------
(* One run of a process *)

\* The adapter is built, and the file read to its end, before the lease is
\* requested.  A disabled source is never opened.
Start(p) ==
  /\ run[p].pc = "idle"
  /\ \E s \in SourceConfigs :
       run' = [run EXCEPT ![p] =
                 [IdleRun EXCEPT !.pc = "acquire", !.source = s, !.attempt = 1,
                                 !.snap = IF s = "disabled" THEN <<>> ELSE file]]
  /\ UNCHANGED <<storeVars, file, edits, faults>>

FencesInUse == {lease.fence} \cup {run[q].fence : q \in Procs}

Acquire(p) ==
  /\ run[p].pc = "acquire"
  /\ \E f \in Fences \ FencesInUse :
       /\ AcquireCollectionLease(f)
       /\ run' = [run EXCEPT ![p].pc = "cursor", ![p].fence = f]
  /\ UNCHANGED <<file, edits, faults>>

\* The row is leased to someone: ErrLeaseHeld.
AcquireHeld(p) ==
  /\ run[p].pc = "acquire" /\ LeaseHeld
  /\ Exit(p)
  /\ UNCHANGED <<storeVars, file, edits, faults>>

\* Cursor, generation and digest are three reads of the row, not one.
ReadCursor(p) ==
  /\ run[p].pc = "cursor"
  /\ run' = [run EXCEPT ![p].pc = "generation", ![p].req.seq = cursor.seq]
  /\ UNCHANGED <<storeVars, file, edits, faults>>

ReadGeneration(p) ==
  /\ run[p].pc = "generation"
  /\ run' = [run EXCEPT ![p].pc = "digest", ![p].req.gen = cursor.gen]
  /\ UNCHANGED <<storeVars, file, edits, faults>>

ReadDigest(p) ==
  /\ run[p].pc = "digest"
  /\ run' = [run EXCEPT ![p].pc = "collect", ![p].req.digest = cursor.digest]
  /\ UNCHANGED <<storeVars, file, edits, faults>>

Status(p) == CollectStatus(run[p].source, run[p].snap, run[p].req)

Collect(p) ==
  /\ run[p].pc = "collect"
  /\ \/ /\ Status(p) = "records"
        /\ Goto(p, "collect", "renew")
     \/ /\ Status(p) \in {"empty", "disabled", "unsupported"}
        /\ Return(p, Status(p))
     \/ /\ Status(p) = "permanent"
        /\ run' = [run EXCEPT ![p].pc = "release", ![p].outcome = "quarantined",
                              ![p].quarantine =
                                @ \cup {[code |-> "permanent", attempt |-> run[p].attempt]}]
  /\ UNCHANGED <<storeVars, file, edits, faults>>

Renew(p) ==
  /\ run[p].pc = "renew"
  /\ \/ /\ RenewCollectionLease(run[p].fence)
        /\ Goto(p, "renew", "commit")
     \/ /\ ~LeaseCurrent(run[p].fence)
        /\ Return(p, "held")
        /\ UNCHANGED storeVars
  /\ UNCHANGED <<file, edits, faults>>

Batch(p) == BatchOf(run[p].snap, run[p].req)

Commit(p) ==
  /\ run[p].pc = "commit"
  /\ CommitCollection(Batch(p), run[p].fence)
  /\ Return(p, CommitResult(Batch(p), run[p].fence))
  /\ UNCHANGED <<file, edits, faults>>

Release(p) ==
  /\ run[p].pc = "release"
  /\ ReleaseCollectionLease(run[p].fence)
  /\ Exit(p)
  /\ UNCHANGED <<file, edits, faults>>

-----------------------------------------------------------------------------
(* Faults *)

Fault == faults < MaxFaults /\ faults' = faults + 1

\* Mutant: every failed attempt is quarantined.
CollectFails_EveryAttempt(p) ==
  /\ Fault
  /\ run[p].pc = "collect"
  /\ run' = [run EXCEPT ![p].attempt = IF @ < MaxAttempts THEN @ + 1 ELSE @,
                        ![p].pc = IF run[p].attempt < MaxAttempts THEN @ ELSE "release",
                        ![p].outcome = IF run[p].attempt < MaxAttempts THEN @ ELSE "quarantined",
                        ![p].quarantine =
                          @ \cup {[code |-> "adapter_failure", attempt |-> run[p].attempt]}]
  /\ UNCHANGED <<storeVars, file, edits>>

\* An error that is not permanent is retried, up to MaxAttempts.
CollectFails(p) ==
  /\ Fault
  /\ run[p].pc = "collect"
  /\ IF run[p].attempt < MaxAttempts
     THEN run' = [run EXCEPT ![p].attempt = @ + 1]
     ELSE run' = [run EXCEPT ![p].pc = "release", ![p].outcome = "quarantined",
                             ![p].quarantine =
                               @ \cup {[code |-> "adapter_failure", attempt |-> run[p].attempt]}]
  /\ UNCHANGED <<storeVars, file, edits>>

\* A statement fails before it has an effect, or the retry wait is cancelled.
StatementFails(p) ==
  /\ Fault
  /\ \/ /\ run[p].pc \in {"cursor", "generation", "digest", "collect", "renew", "commit"}
        /\ Return(p, "failed")
     \/ /\ run[p].pc \in {"acquire", "release"}
        /\ Exit(p)
  /\ UNCHANGED <<storeVars, file, edits>>

\* The transaction commits and its answer is lost.
CommitAnswerLost(p) ==
  /\ Fault
  /\ run[p].pc = "commit"
  /\ CommitCollection(Batch(p), run[p].fence)
  /\ Return(p, "failed")
  /\ UNCHANGED <<file, edits>>

Crash(p) ==
  /\ Fault
  /\ run[p].pc # "idle"
  /\ Exit(p)
  /\ UNCHANGED <<storeVars, file, edits>>

\* The run outlives the lease of five minutes.
LeaseExpiresEarly ==
  /\ Fault
  /\ \E p \in Procs : run[p].fence = lease.fence
  /\ LeaseExpires
  /\ UNCHANGED <<file, edits, run>>

\* A lease nobody will release any more runs out.
LeaseExpiresOrphaned ==
  /\ \A p \in Procs : run[p].fence # lease.fence
  /\ LeaseExpires
  /\ UNCHANGED <<file, edits, run, faults>>

-----------------------------------------------------------------------------

Step(p) ==
  \/ Acquire(p) \/ AcquireHeld(p)
  \/ ReadCursor(p) \/ ReadGeneration(p) \/ ReadDigest(p)
  \/ Collect(p) \/ Renew(p) \/ Commit(p) \/ Release(p)

Faulty(p) == CollectFails(p) \/ StatementFails(p) \/ CommitAnswerLost(p) \/ Crash(p)

Next ==
  \/ AppendLine \/ Truncate \/ ReplaceFile
  \/ \E p \in Procs : Start(p) \/ Step(p) \/ Faulty(p)
  \/ LeaseExpiresEarly \/ LeaseExpiresOrphaned

Spec == Init /\ [][Next]_vars

\* Processes are started with a source that is enabled again and again, and run
\* to their end; time passes.
Fairness ==
  /\ \A p \in Procs : /\ SF_vars(Start(p) /\ run'[p].source = "ready")
                       /\ WF_vars(Step(p))
  /\ WF_vars(LeaseExpiresOrphaned)

FairSpec == Spec /\ Fairness

-----------------------------------------------------------------------------
(* Properties *)

\* What p has read so far is what the row holds, if the row carries p's fence.
ReadsOf(p) ==
  lease.fence = run[p].fence =>
    /\ run[p].pc \in {"generation", "digest", "collect", "renew", "commit"}
         => run[p].req.seq = cursor.seq
    /\ run[p].pc \in {"digest", "collect", "renew", "commit"}
         => run[p].req.gen = cursor.gen
    /\ run[p].pc \in {"collect", "renew", "commit"}
         => run[p].req.digest = cursor.digest

\* Cursor, generation and digest are read one by one and used much later.  While
\* the row still carries p's fence the reads of p are those of one state of the
\* row, so a commit that passes the fence check never acts on a torn checkpoint.
ReadsNotTorn == \A p \in Procs : ReadsOf(p)

\* A process has a fence exactly between Acquire and the end of its run.
HoldsLease == {"cursor", "generation", "digest", "collect", "renew", "commit", "release"}

FenceHeld ==
  \A p \in Procs : run[p].fence # NoFence <=> run[p].pc \in HoldsLease

\* Two processes never hold the same fence.
FencesDistinct ==
  \A p, q \in Procs : run[p].fence = run[q].fence /\ run[p].fence # NoFence => p = q

\* A cursor value without generation or digest is the cursor of a new source.
CursorWellFormed ==
  (cursor.gen = NoGeneration \/ ~cursor.digest.known) => cursor.seq = 0

\* The inductive invariant: fences tell processes apart, so nobody but the holder
\* of the row's fence moves the cursor, so reads are not torn, so every commit
\* extends a prefix that is covered.
IInv ==
  /\ TypeOK
  /\ FenceHeld
  /\ FencesDistinct
  /\ ReadsNotTorn
  /\ CursorWellFormed
  /\ EvidenceCoversCursor
  /\ UniqueAliases

\* Refinement: the records of a generation, read as a log.
LogOf(g) ==
  [ i \in 1 .. Cardinality({r \in evidence : r.gen = g}) |->
      (CHOOSE r \in evidence : r.gen = g /\ r.seq = i).content ]

Log == INSTANCE EvidenceLog WITH
  logs <- [g \in {r.gen : r \in evidence} |-> LogOf(g)],
  head <- [gen |-> cursor.gen, seq |-> cursor.seq]

\* Processes that overlap, crash and restart implement one append-only log per
\* generation: no gap, no rewritten record, no batch applied twice.
ImplementsEvidenceLog == Log!LogSpec

\* A file whose contents no longer change, and that the adapter accepts, ends up
\* collected to its last line, whatever failed on the way; unless it came back to
\* contents it was replaced by before, so that the generation it is collected under
\* already has evidence past the line where collection would go on.
Collectable(s) == s # <<>> /\ \A i \in DOMAIN s : s[i] \notin BadLines \cup DriftLines
CaughtUp == cursor.digest = DigestOf(file) /\ cursor.seq = Len(file)
Revisited == \E r \in evidence : /\ r.gen = ResultGeneration(file, cursor)
                                 /\ r.seq > StartCursor(file, cursor)
EventuallyCaughtUp == <>[](Collectable(file) => CaughtUp \/ Revisited)

\* A failed collection leaves exactly one quarantine entry, no later than the last
\* attempt; a run that ends any other way leaves none.
QuarantineMatchesOutcome ==
  \A p \in Procs : run[p].pc = "release" =>
    IF run[p].outcome = "quarantined"
    THEN \E e \in run[p].quarantine :
           run[p].quarantine = {e} /\ e.attempt \in 1 .. MaxAttempts
    ELSE run[p].quarantine = {}

\* Not one line that is sensitive, malformed or off contract reaches the store,
\* wherever it stands in the file and whichever batch it would belong to.
NoRejectedLineStored == \A r \in evidence : r.content \notin BadLines \cup DriftLines

=============================================================================
