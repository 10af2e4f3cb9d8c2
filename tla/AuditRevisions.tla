--------------------------- MODULE AuditRevisions ---------------------------
(***************************************************************************)
(* AuditProject of governance.go: an audit takes a connection of the pool, *)
(* the session lock of its window, and in a serializable transaction on    *)
(* that connection reads the evidence and stores a revision.  Evidence     *)
(* arrives late and retention takes it away meanwhile; statements fail,    *)
(* contexts end and the process crashes.                                   *)
(*                                                                         *)
(* The hash of a revision covers window, as-of time and the evidence read: *)
(* snapshots that name at most the hundred references audit.go keeps, and  *)
(* that are not suppressed for privacy.                                    *)
(***************************************************************************)
EXTENDS Naturals, FiniteSets, Functions

CONSTANTS
  Audits,       \* AuditProject calls of one process
  Conns,        \* connections; a pool is configured for some of them
  Windows,      \* keys of auditWindowKey
  Times,        \* as-of times
  Evidence,     \* evidence artifacts of the windows
  ObservedAt,   \* evidence -> when it was observed
  None,
  MaxAttempts,  \* maxTransactionAttempts
  MaxWrites,    \* bound: collections and purges
  MaxFaults     \* bound: failures

ASSUME AuditRevisionsAssumption ==
  /\ Times \subseteq Nat
  /\ ObservedAt \in [Evidence -> Nat]
  /\ None \notin Conns \cup Windows
  /\ MaxAttempts \in Nat \ {0} /\ MaxWrites \in Nat /\ MaxFaults \in Nat

Requests == [window : Windows, asOf : Times]

\* The revision hash, and the id derived from it.
RevisionIds == [window : Windows, asOf : Times, content : SUBSET Evidence]
NoRevision  == [window |-> None]

VARIABLES
  evidence,  \* evidence artifacts stored
  revs,      \* audit_revisions: id -> number and prior
  links,     \* evidence_links of revisions: <<id, evidence>>
  pool,      \* its connections: each "closed", "idle" or "used"
  lock,      \* window -> the connection with its lock and how often it took it
  audit,     \* the calls
  writes, faults

vars == <<evidence, revs, links, pool, lock, audit, writes, faults>>
db   == <<evidence, revs, links, writes>>

Db == [evidence |-> evidence, revs |-> revs]

Empty == [evidence |-> {}, revs |-> [i \in {} |-> NoRevision]]
Unlocked == [conn |-> None, depth |-> 0]
NoAudit == [pc |-> "idle", req |-> None, conn |-> None, attempt |-> 0, snap |-> Empty]

Init ==
  /\ evidence = {} /\ revs = Empty.revs /\ links = {}
  /\ \E size \in SUBSET Conns \ {{}} : pool = [c \in size |-> "closed"]
  /\ lock = [w \in Windows |-> Unlocked]
  /\ audit = [a \in Audits |-> NoAudit]
  /\ writes = 0 /\ faults = 0

Fault == faults < MaxFaults /\ faults' = faults + 1
NoFault == UNCHANGED faults

Goto(a, pc) == audit' = [audit EXCEPT ![a].pc = pc]
Ends(a) == audit' = [audit EXCEPT ![a] = NoAudit]

-----------------------------------------------------------------------------
(* Other writers of the store *)

Write == writes < MaxWrites /\ writes' = writes + 1

Collect(e) ==
  /\ Write /\ e \notin evidence
  /\ evidence' = evidence \cup {e}
  /\ UNCHANGED <<revs, links, pool, lock, audit, faults>>

\* Retention deletes evidence, the links to it and the revisions that have none left.
Purge(e) ==
  LET gone == {l \in links : l[2] = e}
      left == {i \in DOMAIN revs : \/ \E l \in links \ gone : l[1] = i
                                   \/ \A l \in links : l[1] # i}
  IN  /\ Write /\ e \in evidence
      /\ evidence' = evidence \ {e}
      /\ links' = links \ gone
      /\ revs' = [i \in left |->
                    [revs[i] EXCEPT !.prior = IF @ \in left THEN @ ELSE NoRevision]]
      /\ UNCHANGED <<pool, lock, audit, faults>>

-----------------------------------------------------------------------------
(* The pool and the session lock *)

\* A connection that ends takes its session locks with it.
Discard(c) ==
  /\ pool' = [pool EXCEPT ![c] = "closed"]
  /\ lock' = [w \in Windows |-> IF lock[w].conn = c THEN Unlocked ELSE lock[w]]

Return(c) == pool' = [pool EXCEPT ![c] = "idle"]

Start(a, req) ==
  /\ audit[a].pc = "idle"
  /\ audit' = [audit EXCEPT ![a] = [NoAudit EXCEPT !.pc = "acquire", !.req = req, !.attempt = 1]]
  /\ UNCHANGED <<db, pool, lock, faults>>

\* pool.Acquire: a free connection, or a new one while there is room.
Acquire(a) ==
  /\ audit[a].pc = "acquire"
  /\ \E c \in DOMAIN pool :
       /\ pool[c] # "used"
       /\ pool' = [pool EXCEPT ![c] = "used"]
       /\ audit' = [audit EXCEPT ![a].pc = "lock", ![a].conn = c]
  /\ UNCHANGED <<db, lock, faults>>

AcquireFails(a) ==
  /\ audit[a].pc = "acquire" /\ Fault
  /\ Ends(a)
  /\ UNCHANGED <<db, pool, lock>>

\* PostgreSQL grants a session lock again to the session that has it.
LockFree(w, c) == lock[w].conn \in {None, c}

\* Mutant: a transaction lock, gone with the statement that takes it.
Lock_Transaction(a) ==
  /\ audit[a].pc = "lock"
  /\ LockFree(audit[a].req.window, audit[a].conn)
  /\ Goto(a, "begin")
  /\ UNCHANGED <<db, pool, lock, faults>>

Lock(a) ==
  LET w == audit[a].req.window
      c == audit[a].conn
  IN  /\ audit[a].pc = "lock"
      /\ LockFree(w, c)
      /\ lock' = [lock EXCEPT ![w] = [conn |-> c, depth |-> @.depth + 1]]
      /\ Goto(a, "begin")
      /\ UNCHANGED <<db, pool, faults>>

\* A context that ends breaks the connection, which the pool then closes; after an
\* error of the server it is returned, without the lock.
LockFails(a) ==
  /\ audit[a].pc = "lock" /\ Fault
  /\ \/ Discard(audit[a].conn)
     \/ Return(audit[a].conn) /\ UNCHANGED lock
  /\ Ends(a)
  /\ UNCHANGED db

-----------------------------------------------------------------------------
(* The transaction *)

Begin(a) ==
  /\ audit[a].pc = "begin"
  /\ audit' = [audit EXCEPT ![a].pc = "persist", ![a].snap = Db]
  /\ UNCHANGED <<db, pool, lock, faults>>

Snap(a) == audit[a].snap

InWindow(rs, w) == {i \in DOMAIN rs : i.window = w}

\* What the engine reads of the evidence, as of the request's time.
Visible(a) == {e \in Snap(a).evidence : ObservedAt[e] <= audit[a].req.asOf}

RevisionId(a) ==
  [window |-> audit[a].req.window, asOf |-> audit[a].req.asOf, content |-> Visible(a)]

Latest(rs, w) ==
  CHOOSE i \in InWindow(rs, w) : \A j \in InWindow(rs, w) : rs[j].number <= rs[i].number

\* Mutant: revisions are counted.
NextRevision_Counted(rs, w) ==
  [number |-> Cardinality(InWindow(rs, w)) + 1,
   prior  |-> IF InWindow(rs, w) = {} THEN NoRevision ELSE Latest(rs, w)]

\* The number after the greatest one, and the revision that has it.
NextRevision(rs, w) ==
  IF InWindow(rs, w) = {} THEN [number |-> 1, prior |-> NoRevision]
  ELSE [number |-> rs[Latest(rs, w)].number + 1, prior |-> Latest(rs, w)]

\* A row stored under the same id stays as it is.
Row(a) ==
  IF RevisionId(a) \in DOMAIN Snap(a).revs THEN Snap(a).revs[RevisionId(a)]
  ELSE NextRevision(Snap(a).revs, audit[a].req.window)

\* Mutant: evidence of the window at any time is linked.
persistRevisionEvidence_AnyTime(a) == {<<RevisionId(a), e>> : e \in Snap(a).evidence}

persistRevisionEvidence(a) == {<<RevisionId(a), e>> : e \in Visible(a)}

\* What the serializable transaction cannot overlook: a revision added to the window,
\* and a row it refers to that is gone, be it the revision itself, whose evidence was
\* purged and has come back since.
MustConflict(a) ==
  \/ ~(InWindow(revs, audit[a].req.window) \subseteq DOMAIN Snap(a).revs)
  \/ RevisionId(a) \in DOMAIN Snap(a).revs \ DOMAIN revs
  \/ Row(a).prior # NoRevision /\ Row(a).prior \notin DOMAIN revs
  \/ ~(Visible(a) \subseteq evidence)

persistAuditProject(a) ==
  /\ revs' = [i \in DOMAIN revs \cup {RevisionId(a)} |->
                IF i \in DOMAIN revs THEN revs[i] ELSE Row(a)]
  /\ links' = links \cup persistRevisionEvidence(a)
  /\ UNCHANGED <<evidence, writes>>

Commit(a) ==
  /\ audit[a].pc = "persist"
  /\ ~MustConflict(a)
  /\ persistAuditProject(a)
  /\ audit' = [audit EXCEPT ![a].pc = "release", ![a].snap = Empty]
  /\ UNCHANGED <<pool, lock, faults>>

\* Mutant: the statements are retried in the failed transaction, without a limit.
Conflict_SameSnapshot(a) ==
  /\ audit[a].pc = "persist"
  /\ Db # Snap(a)
  /\ UNCHANGED vars

\* A serialization failure: whatever changed since the snapshot may cause one.
Conflict(a) ==
  /\ audit[a].pc = "persist"
  /\ Db # Snap(a)
  /\ audit' = [audit EXCEPT ![a].snap = Empty,
                            ![a].pc = IF audit[a].attempt < MaxAttempts
                                      THEN "begin" ELSE "release",
                            ![a].attempt = IF @ < MaxAttempts THEN @ + 1 ELSE @]
  /\ UNCHANGED <<db, pool, lock, faults>>

\* Any other failure ends the transaction.
Fails(a) ==
  /\ audit[a].pc \in {"begin", "persist"} /\ Fault
  /\ audit' = [audit EXCEPT ![a].pc = "release", ![a].snap = Empty]
  /\ UNCHANGED <<db, pool, lock>>

-----------------------------------------------------------------------------
(* releaseAuditConnection *)

Unlock(w) ==
  lock' = [lock EXCEPT ![w] = IF @.depth = 1 THEN Unlocked ELSE [@ EXCEPT !.depth = @ - 1]]

Locked(a) == lock[audit[a].req.window].conn = audit[a].conn

Release(a) ==
  /\ audit[a].pc = "release" /\ Locked(a)
  /\ Unlock(audit[a].req.window)
  /\ Return(audit[a].conn)
  /\ Ends(a)
  /\ UNCHANGED <<db, faults>>

\* Mutant: the connection goes back to the pool.
Hijack_Return(c) == Return(c) /\ UNCHANGED lock

\* An unlock that fails or finds no lock: the connection leaves the pool and is closed.
Hijack(c) == Discard(c)

UnlockFails(a) ==
  /\ audit[a].pc = "release"
  /\ IF Locked(a) THEN Fault ELSE NoFault
  /\ Hijack(audit[a].conn)
  /\ Ends(a)
  /\ UNCHANGED db

Crash ==
  /\ Fault
  /\ \E a \in Audits : audit[a].pc # "idle"
  /\ audit' = [a \in Audits |-> NoAudit]
  /\ pool' = [c \in DOMAIN pool |-> "closed"]
  /\ lock' = [w \in Windows |-> Unlocked]
  /\ UNCHANGED db

-----------------------------------------------------------------------------

Step(a) == Acquire(a) \/ Lock(a) \/ Begin(a) \/ Commit(a) \/ Conflict(a) \/ Release(a)
Faulty(a) == AcquireFails(a) \/ LockFails(a) \/ Fails(a) \/ UnlockFails(a)

Next ==
  \/ \E e \in Evidence : Collect(e) \/ Purge(e)
  \/ \E a \in Audits : \/ \E req \in Requests : Start(a, req)
                       \/ Step(a) \/ Faulty(a)
  \/ Crash

Spec == Init /\ [][Next]_vars

\* The pool and the lock serve those who wait in turn.
Fairness == \A a \in Audits : WF_vars(Step(a)) /\ SF_vars(Acquire(a)) /\ SF_vars(Lock(a))

FairSpec == Spec /\ Fairness

-----------------------------------------------------------------------------
(* Properties *)

Rows == [number : Nat \ {0}, prior : RevisionIds \cup {NoRevision}]

TypeOK ==
  /\ evidence \subseteq Evidence
  /\ DOMAIN revs \subseteq RevisionIds /\ \A i \in DOMAIN revs : revs[i] \in Rows
  /\ links \subseteq (DOMAIN revs) \X evidence
  /\ DOMAIN pool \subseteq Conns /\ \A c \in DOMAIN pool : pool[c] \in {"closed", "idle", "used"}
  /\ lock \in [Windows -> [conn : Conns \cup {None}, depth : Nat]]
  /\ \A a \in Audits :
       /\ audit[a].pc \in {"idle", "acquire", "lock", "begin", "persist", "release"}
       /\ audit[a].attempt \in 0 .. MaxAttempts

InTransaction == {"begin", "persist", "release"}

\* docs/database.md: "a session lock is never returned to the pool".  A lock belongs
\* to a connection that a running audit of its window uses, whichever way earlier
\* audits on that connection ended.
LockNotPooled ==
  \A w \in Windows : lock[w].conn # None =>
    \E a \in Audits : /\ audit[a].pc \in InTransaction
                      /\ audit[a].conn = lock[w].conn /\ audit[a].req.window = w

\* docs/database.md: "waiting writers acquire their snapshot after the prior writer
\* commits".  So an audit never loses an attempt to another audit of its window.
SnapshotsCurrent ==
  \A a \in Audits : audit[a].pc = "persist" =>
    InWindow(revs, audit[a].req.window) \subseteq DOMAIN Snap(a).revs

\* "Evidence links reference retained evidence artifacts only", and only such as the
\* revision's hash covers: storing the same revision again adds nothing else.
LinksMatchContent == \A l \in links : l[2] \in l[1].content \cap evidence

Log == INSTANCE RevisionLog WITH
  Ids <- RevisionIds, NoId <- NoRevision, Window <- [i \in RevisionIds |-> i.window]

\* Audits that overlap, are retried and read old snapshots still append to one
\* numbered chain per window, as if each were alone.
ImplementsRevisionLog == Log!LogSpec

\* Every audit ends, also when the pool has a single connection: audits wait for the
\* connection and for the lock, never for each other.
EveryAuditEnds == \A a \in Audits : audit[a].pc # "idle" ~> audit[a].pc = "idle"
=============================================================================
