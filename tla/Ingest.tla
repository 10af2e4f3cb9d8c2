------------------------------- MODULE Ingest -------------------------------
(***************************************************************************)
(* The write side of the database as collectors use it: a process puts the *)
(* version of its source, and commits batches of records to the collection *)
(* store together with the lineage rows they carry, within the storage     *)
(* budget.  Clients keep every batch they ever built and submit any of     *)
(* them, in any order and any number of times, under any fence they hold:  *)
(* calls that are repeated, delayed or overtaken by others.                *)
(***************************************************************************)
EXTENDS CollectionStore, Lineage, Dimensions

CONSTANTS
  MaxLen,      \* bound: lines in a file
  MaxBuilt,    \* bound: batches built
  MaxBytes,    \* maxDatabaseBytes, in units
  Reserve,     \* collectionBudgetReserve; an item is estimated at one unit
  MaxGrowth,   \* bound: what a commit adds until it is measured, which may exceed its estimate
  MaxTail,     \* bound: what it adds after that
  RefLimit     \* records a session audit reads

\* OpenLocalRepository refuses a budget below one byte.
ASSUME BudgetAssumption == MaxBytes \in Nat \ {0}

VARIABLES
  bytes,   \* pg_database_size
  built,   \* batches built so far
  last     \* the last batch committed, as a set of at most one

vars == <<cursor, lease, evidence, batches, db, versions, bytes, built, last>>
clients == <<built, last>>

Contents == UNION {[1 .. n -> Lines] : n \in 1 .. MaxLen}

Init ==
  /\ StoreInit /\ LineageInit /\ DimensionsInit
  /\ bytes = 0 /\ built = {} /\ last = {}

-----------------------------------------------------------------------------

\* collect of prompt-better-collector: the version of the source it is configured
\* for, before anything else it does with the repository.
PutSource ==
  /\ \E i \in Identities, id \in VersionIDs, s \in States, t \in Times : PutVersion(i, id, s, t)
  /\ UNCHANGED <<storeVars, db, bytes, clients>>

\* sources row of the source, which cursors and evidence refer to.
SourceKnown == \E v \in versions : TRUE

\* A client reads the cursor row and collects from some contents of the file.
Build ==
  \E data \in Contents :
    /\ ResultRecords(data, cursor) # {}
    /\ Cardinality(built) < MaxBuilt
    /\ built' = built \cup {BatchOf(data, cursor)}
    /\ UNCHANGED <<storeVars, db, versions, bytes, last>>

Acquire(f) ==
  /\ f # lease.fence /\ SourceKnown
  /\ AcquireCollectionLease(f)
  /\ UNCHANGED <<db, versions, bytes, clients>>

Release(f) == ReleaseCollectionLease(f) /\ UNCHANGED <<db, versions, bytes, clients>>

Expire == LeaseExpires /\ UNCHANGED <<db, versions, bytes, clients>>

-----------------------------------------------------------------------------
(* CommitCollection *)

\* The records of a batch in the order of the source.
Place(b, r) == Cardinality({s \in b.records : s.seq <= r.seq})

Items(b) ==
  LET item(r) == ItemOf(<<r.gen, r.seq>>, r.content)
  IN  [n \in 1 .. Cardinality(b.records) |-> item(CHOOSE r \in b.records : Place(b, r) = n)]

estimatedCollectionBytes(b) == Reserve + Cardinality(b.records)

storageBudgetAvailable(b) == bytes < MaxBytes /\ estimatedCollectionBytes(b) < MaxBytes - bytes

Accepted(b) ==
  \A r \in b.records : LET a == Sanitize(r.content) IN parseReplaySnapshots(a) /\ validateCollectionEvidence(a)

\* What the client is answered: the checks before the transaction, the budget, the
\* store's own checks, and the statements of the lineage.
Outcome(b, f) ==
  IF ~Accepted(b) THEN "invalid"
  ELSE IF ~storageBudgetAvailable(b) THEN "budget"
  ELSE IF CommitResult(b, f) # "committed" THEN CommitResult(b, f)
  ELSE IF ~PersistBatch(Items(b)).ok THEN "failed"
  ELSE "committed"

verifyCommittedStorageBudget(size) == size < MaxBytes

\* The database is measured before the cursor is written, which may still grow it.
Submit(b, f) ==
  IF Outcome(b, f) = "committed"
  THEN \E growth \in 0 .. MaxGrowth, tail \in 0 .. MaxTail :
         /\ verifyCommittedStorageBudget(bytes + growth)
         /\ CommitCollection(b, f)
         /\ db' = PersistBatch(Items(b)).db
         /\ bytes' = bytes + growth + tail
         /\ last' = {b}
         /\ UNCHANGED <<versions, built>>
  ELSE UNCHANGED vars

-----------------------------------------------------------------------------
(* AuditSession: a read *)

SessionEvidence(s) == {r \in evidence : LineageOf(r.content).session = s}

\* LIMIT: any of the records, as the order of their times is the source's business.
FirstRefs(s) ==
  LET all == SessionEvidence(s)
  IN  {refs \in SUBSET all : Cardinality(refs) = Min({RefLimit, Cardinality(all)})}

\* It also asks for the version of the project of every record, and answers "partial"
\* where there is none; that is left out, and makes fewer answers "complete".
AuditSession(s, refs, t) ==
  IF refs = {} THEN "missing"
  ELSE IF \/ \A i \in Identities : AsOf(i, t) = {}
          \/ \E r \in refs : CoverageOf(r.content) # "complete"
  THEN "partial"
  ELSE db.sessions[s].coverage

-----------------------------------------------------------------------------

Next ==
  \/ PutSource
  \/ Build
  \/ \E f \in Fences : Acquire(f) \/ Release(f) \/ \E b \in built : Submit(b, f)
  \/ Expire

Spec == Init /\ [][Next]_vars

-----------------------------------------------------------------------------
(* Properties *)

\* The batch that was committed last is recognised under every later lease: it is
\* neither a conflict nor a second commit.  It may be refused for the budget all the
\* same, which is checked before the batch is looked up.
LastBatchReplays ==
  \A b \in last, f \in Fences :
    LeaseCurrent(f) =>
      Outcome(b, f) = IF storageBudgetAvailable(b) THEN "replayed" ELSE "budget"

\* A session audit answers "complete" only while every record stored of the session
\* had complete lineage and the source has a version for the time asked about,
\* although the audit reads no more than the first RefLimit records.
SessionAuditHonest ==
  \A s \in DOMAIN db.sessions, t \in Times : \A refs \in FirstRefs(s) :
    AuditSession(s, refs, t) = "complete" =>
      /\ \A r \in SessionEvidence(s) : CoverageOf(r.content) = "complete"
      /\ \E i \in Identities : AsOf(i, t) # {}

\* "A second bounded pass resolves explicit parents that appeared later in the same
\* batch": after a commit, no record of the batch is left without a parent that is
\* stored, whichever of the two came first.
ParentsLinked ==
  [][ \A b \in last' \ last : \A r \in b.records :
        LET l == LineageOf(r.content)
        IN  l.session # None =>
              /\ l.trajectory # None /\ l.parent \in DOMAIN db'.trajectories =>
                   db'.trajectories[l.trajectory].parent # None
              /\ l.response # None /\ l.turn # None /\ l.parentResponse \in DOMAIN db'.responses =>
                   db'.responses[l.response].parent # None ]_last

\* Records that come again, late or under a revision never take lineage back: no row
\* is lost, a parent once known stays, a completed response stays completed, and a
\* session that is not complete does not become so.
LineageKept ==
  [][ /\ \A t \in Tables : DOMAIN db[t] \subseteq DOMAIN db'[t]
      /\ \A t \in {"trajectories", "responses"} : \A k \in DOMAIN db[t] :
           db[t][k].parent # None => db'[t][k].parent = db[t][k].parent
      /\ \A k \in DOMAIN db.responses :
           db.responses[k].completed # None => db'.responses[k].completed # None
      /\ \A k \in DOMAIN db.sessions :
           db.sessions[k].coverage # "complete" => db'.sessions[k].coverage # "complete" ]_db

\* docs/collector.md:21-22: "Missing parent lineage remains unlinked with partial
\* coverage instead of being guessed."  The statements of the lineage of records the
\* adapter accepted do not fail for what is missing.
IncompleteLineageCommits ==
  \A b \in built, f \in Fences : Outcome(b, f) # "failed"
=============================================================================
