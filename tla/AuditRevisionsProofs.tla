------------------------ MODULE AuditRevisionsProofs ------------------------
(***************************************************************************)
(* Proofs about AuditRevisions for any number of audits, connections,      *)
(* windows and failures.  LockNotPooled is not inductive: that a lock ends *)
(* with its audit rests on connections being used by one audit each and on *)
(* locks being taken once.  SnapshotsCurrent then follows from the mutual  *)
(* exclusion of the audits of a window.                                    *)
(***************************************************************************)
EXTENDS AuditRevisions, WellFoundedInduction, TLAPS

\* Audits that use a connection.
Holding == {"lock"} \cup InTransaction

RevTables == UNION {[D -> Rows] : D \in SUBSET RevisionIds}

Calls ==
  [ pc : {"idle", "acquire", "lock", "begin", "persist", "release"}, req : Requests \cup {None},
    conn : Conns \cup {None}, attempt : 0 .. MaxAttempts, snap : [evidence : SUBSET Evidence, revs : RevTables] ]

Pools == UNION {[D -> {"closed", "idle", "used"}] : D \in SUBSET Conns}

CallsTyped ==
  /\ audit \in [Audits -> Calls]
  /\ pool \in Pools
  /\ lock \in [Windows -> [conn : Conns \cup {None}, depth : Nat]]
  /\ \A a \in Audits : audit[a].pc # "idle" => audit[a].req \in Requests

\* A connection in use is used by one audit.
ConnsHeld ==
  \A a \in Audits : audit[a].pc \in Holding =>
    /\ audit[a].conn \in DOMAIN pool /\ pool[audit[a].conn] = "used"
    /\ \A b \in Audits : audit[b].pc \in Holding /\ audit[b].conn = audit[a].conn => b = a

\* An audit in its transaction has the lock of its window; locks are taken once.
LocksHeld ==
  /\ \A a \in Audits : audit[a].pc \in InTransaction => lock[audit[a].req.window].conn = audit[a].conn
  /\ \A w \in Windows : lock[w].depth = (IF lock[w].conn = None THEN 0 ELSE 1)

LockInv == CallsTyped /\ ConnsHeld /\ LocksHeld /\ LockNotPooled

\* A connection that is not held by an audit in its transaction has no lock.
LEMMA NoLockWithoutAudit ==
  ASSUME LockInv, NEW a \in Audits, audit[a].pc = "lock",
         NEW w \in Windows
  PROVE  lock[w].conn # audit[a].conn
<1> SUFFICES ASSUME lock[w].conn = audit[a].conn
             PROVE  FALSE
  OBVIOUS
<1>1. audit[a].conn # None
  BY AuditRevisionsAssumption DEF LockInv, ConnsHeld, CallsTyped, Calls, Pools, Holding
<1>2. PICK b \in Audits : audit[b].pc \in InTransaction /\ audit[b].conn = lock[w].conn
  BY <1>1 DEF LockInv, LockNotPooled
<1>3. b = a
  BY <1>2 DEF LockInv, ConnsHeld, Holding
<1> QED
  BY <1>2, <1>3 DEF InTransaction

\* Retries and failures of the transaction leave the audit its connection and its lock.
LEMMA TransactionSteps ==
  ASSUME CallsTyped, NEW a \in Audits, Begin(a) \/ Commit(a) \/ Conflict(a) \/ Fails(a)
  PROVE  /\ audit[a].pc \in InTransaction /\ audit'[a].pc \in InTransaction
         /\ audit'[a].req = audit[a].req /\ audit'[a].conn = audit[a].conn
         /\ \A b \in Audits \ {a} : audit'[b] = audit[b]
         /\ UNCHANGED <<pool, lock>>
<1>1. CASE Begin(a)
  BY <1>1 DEF Begin, CallsTyped, Calls, InTransaction
<1>2. CASE Commit(a)
  BY <1>2 DEF Commit, CallsTyped, Calls, InTransaction
<1>3. CASE Conflict(a)
  BY <1>3 DEF Conflict, CallsTyped, Calls, InTransaction
<1>4. CASE Fails(a)
  BY <1>4 DEF Fails, CallsTyped, Calls, InTransaction
<1> QED
  BY <1>1, <1>2, <1>3, <1>4

-----------------------------------------------------------------------------
(* The pool and the lock *)

\* Steps of the transaction change nothing of connections and locks.
LEMMA TransactionLocks ==
  ASSUME LockInv, NEW a \in Audits, Begin(a) \/ Commit(a) \/ Conflict(a) \/ Fails(a)
  PROVE  ConnsHeld' /\ LocksHeld' /\ LockNotPooled'
<1>1. /\ audit[a].pc \in InTransaction /\ audit'[a].pc \in InTransaction
      /\ audit'[a].req = audit[a].req /\ audit'[a].conn = audit[a].conn
      /\ \A b \in Audits \ {a} : audit'[b] = audit[b]
      /\ pool' = pool /\ lock' = lock
  BY TransactionSteps DEF LockInv
<1>2. \A b \in Audits : /\ audit'[b].pc \in InTransaction <=> audit[b].pc \in InTransaction
                        /\ audit'[b].pc \in Holding <=> audit[b].pc \in Holding
                        /\ audit'[b].req = audit[b].req /\ audit'[b].conn = audit[b].conn
  BY <1>1 DEF Holding
<1>3. ConnsHeld'
  BY <1>1, <1>2 DEF LockInv, ConnsHeld
<1>4. LocksHeld'
  BY <1>1, <1>2 DEF LockInv, LocksHeld
<1>5. LockNotPooled'
  BY <1>1, <1>2 DEF LockInv, LockNotPooled
<1> QED
  BY <1>3, <1>4, <1>5

\* An audit that starts, or gives up before it has a connection.
LEMMA IdleLocks ==
  ASSUME LockInv, NEW a \in Audits,
         audit[a].pc \notin Holding, audit'[a].pc \notin Holding,
         \A b \in Audits \ {a} : audit'[b] = audit[b],
         pool' = pool, lock' = lock
  PROVE  ConnsHeld' /\ LocksHeld' /\ LockNotPooled'
<1>1. ConnsHeld'
  BY DEF LockInv, ConnsHeld
<1>2. LocksHeld'
  BY DEF LockInv, LocksHeld, Holding
<1>3. LockNotPooled'
  BY DEF LockInv, LockNotPooled, Holding
<1> QED
  BY <1>1, <1>2, <1>3

\* pool.Acquire takes a connection that nobody uses.
LEMMA AcquireLocks ==
  ASSUME LockInv, NEW a \in Audits, Acquire(a)
  PROVE  ConnsHeld' /\ LocksHeld' /\ LockNotPooled'
<1>1. PICK c \in DOMAIN pool :
        /\ pool[c] # "used" /\ pool' = [pool EXCEPT ![c] = "used"]
        /\ audit' = [audit EXCEPT ![a].pc = "lock", ![a].conn = c]
        /\ audit[a].pc = "acquire" /\ lock' = lock
  BY DEF Acquire
<1>2. /\ audit'[a].pc = "lock" /\ audit'[a].conn = c
      /\ \A b \in Audits \ {a} : audit'[b] = audit[b]
  BY <1>1 DEF LockInv, CallsTyped, Calls
<1>3. \A b \in Audits : audit[b].pc \in Holding => audit[b].conn # c
  BY <1>1 DEF LockInv, ConnsHeld
<1>4. DOMAIN pool' = DOMAIN pool /\ pool'[c] = "used" /\ \A d \in DOMAIN pool \ {c} : pool'[d] = pool[d]
  BY <1>1 DEF LockInv, CallsTyped, Pools
<1>5. ConnsHeld'
  BY <1>2, <1>3, <1>4 DEF LockInv, ConnsHeld
<1>6. LocksHeld'
  BY <1>1, <1>2 DEF LockInv, LocksHeld, InTransaction
<1>7. LockNotPooled'
  <2>1. \A b \in Audits : audit[b].pc \in InTransaction => audit'[b] = audit[b]
    BY <1>1, <1>2 DEF InTransaction
  <2>2. lock' = lock /\ LockNotPooled
    BY <1>1 DEF LockInv
  <2> QED
    BY <2>1, <2>2 DEF LockNotPooled
<1> QED
  BY <1>5, <1>6, <1>7

\* pg_advisory_lock: the connection has no lock yet, so the one it takes is new.
LEMMA LockLocks ==
  ASSUME LockInv, NEW a \in Audits, Lock(a)
  PROVE  ConnsHeld' /\ LocksHeld' /\ LockNotPooled'
<1> DEFINE w == audit[a].req.window
           c == audit[a].conn
<1>1. /\ audit[a].pc = "lock" /\ pool' = pool
      /\ lock[w].conn \in {None, c}
      /\ lock' = [lock EXCEPT ![w] = [conn |-> c, depth |-> @.depth + 1]]
      /\ audit' = [audit EXCEPT ![a].pc = "begin"]
  BY DEF Lock, LockFree, Goto
<1>2. /\ audit'[a].pc = "begin" /\ audit'[a].conn = c /\ audit'[a].req = audit[a].req
      /\ \A b \in Audits \ {a} : audit'[b] = audit[b]
  BY <1>1 DEF LockInv, CallsTyped, Calls
<1>3. w \in Windows
  BY <1>1 DEF LockInv, CallsTyped, Requests
<1>4. lock[w].conn = None /\ c # None
  <2>1. lock[w].conn # c
    BY <1>1, <1>3, NoLockWithoutAudit
  <2>2. c \in Conns
    BY <1>1 DEF LockInv, ConnsHeld, CallsTyped, Pools, Holding
  <2> QED
    BY <1>1, <2>1, <2>2, AuditRevisionsAssumption
<1>5. /\ lock'[w] = [conn |-> c, depth |-> 1]
      /\ \A v \in Windows \ {w} : lock'[v] = lock[v]
  BY <1>1, <1>3, <1>4 DEF LockInv, CallsTyped, LocksHeld
<1>6. ConnsHeld'
  BY <1>1, <1>2 DEF LockInv, ConnsHeld, Holding, InTransaction
<1>7. LocksHeld'
  <2>1. \A b \in Audits \ {a} : audit[b].pc \in InTransaction => audit[b].req.window # w
    <3> SUFFICES ASSUME NEW b \in Audits \ {a}, audit[b].pc \in InTransaction, audit[b].req.window = w
                 PROVE  FALSE
      OBVIOUS
    <3>1. audit[b].conn = None
      BY <1>4 DEF LockInv, LocksHeld
    <3>2. audit[b].conn \in Conns
      BY DEF LockInv, ConnsHeld, CallsTyped, Pools, Holding
    <3> QED
      BY <3>1, <3>2, AuditRevisionsAssumption
  <2>2. \A b \in Audits : audit[b].pc \in InTransaction => audit[b].req.window \in Windows
    BY DEF LockInv, CallsTyped, Requests, InTransaction
  <2>3. \A b \in Audits : audit'[b].pc \in InTransaction => lock'[audit'[b].req.window].conn = audit'[b].conn
    BY <1>2, <1>5, <2>1, <2>2 DEF LockInv, LocksHeld
  <2>4. \A v \in Windows : lock'[v].depth = (IF lock'[v].conn = None THEN 0 ELSE 1)
    BY <1>4, <1>5 DEF LockInv, LocksHeld
  <2> QED
    BY <2>3, <2>4 DEF LocksHeld
<1>8. LockNotPooled'
  <2> SUFFICES ASSUME NEW v \in Windows, lock'[v].conn # None
               PROVE  \E b \in Audits : /\ audit'[b].pc \in InTransaction
                                        /\ audit'[b].conn = lock'[v].conn /\ audit'[b].req.window = v
    BY DEF LockNotPooled
  <2>1. CASE v = w
    BY <1>2, <1>5, <2>1 DEF InTransaction
  <2>2. CASE v # w
    <3>1. PICK b \in Audits : /\ audit[b].pc \in InTransaction
                              /\ audit[b].conn = lock[v].conn /\ audit[b].req.window = v
      BY <1>5, <2>2 DEF LockInv, LockNotPooled
    <3>2. b # a
      BY <1>1, <3>1 DEF InTransaction
    <3> QED
      BY <1>2, <1>5, <2>2, <3>1, <3>2
  <2> QED
    BY <2>1, <2>2
<1> QED
  BY <1>6, <1>7, <1>8

\* An audit that ends with its connection leaves no lock of that connection behind.
LEMMA EndLocks ==
  ASSUME LockInv, NEW a \in Audits, audit[a].pc \in Holding, audit'[a].pc = "idle",
         \A b \in Audits \ {a} : audit'[b] = audit[b],
         DOMAIN pool' = DOMAIN pool,
         \A d \in DOMAIN pool : d # audit[a].conn => pool'[d] = pool[d],
         \A w \in Windows : lock'[w] = (IF lock[w].conn = audit[a].conn THEN Unlocked ELSE lock[w])
  PROVE  ConnsHeld' /\ LocksHeld' /\ LockNotPooled'
<1>1. \A b \in Audits \ {a} : audit[b].pc \in Holding => audit[b].conn # audit[a].conn
  BY DEF LockInv, ConnsHeld
<1>2. audit'[a].pc \notin Holding
  BY DEF Holding, InTransaction
<1>3. ConnsHeld'
  BY <1>1, <1>2 DEF LockInv, ConnsHeld
<1>4. \A b \in Audits : audit'[b].pc \in InTransaction =>
        b # a /\ audit[b].pc \in InTransaction /\ audit'[b] = audit[b] /\ audit[b].req.window \in Windows
  BY <1>2 DEF LockInv, CallsTyped, Requests, Holding, InTransaction
<1>5. LocksHeld'
  <2>1. ASSUME NEW b \in Audits, audit'[b].pc \in InTransaction
        PROVE  lock'[audit'[b].req.window].conn = audit'[b].conn
    <3>1. lock[audit[b].req.window].conn = audit[b].conn /\ audit[b].conn # audit[a].conn
      BY <1>1, <1>4, <2>1 DEF LockInv, LocksHeld, Holding
    <3> QED
      BY <1>4, <2>1, <3>1
  <2>2. \A w \in Windows : lock'[w].depth = (IF lock'[w].conn = None THEN 0 ELSE 1)
    BY DEF LockInv, LocksHeld, Unlocked
  <2> QED
    BY <2>1, <2>2 DEF LocksHeld
<1>6. LockNotPooled'
  <2> SUFFICES ASSUME NEW w \in Windows, lock'[w].conn # None
               PROVE  \E b \in Audits : /\ audit'[b].pc \in InTransaction
                                        /\ audit'[b].conn = lock'[w].conn /\ audit'[b].req.window = w
    BY DEF LockNotPooled
  <2>1. lock[w].conn # audit[a].conn /\ lock'[w] = lock[w]
    BY DEF Unlocked
  <2>2. PICK b \in Audits : /\ audit[b].pc \in InTransaction
                            /\ audit[b].conn = lock[w].conn /\ audit[b].req.window = w
    BY <2>1 DEF LockInv, LockNotPooled
  <2>3. b # a
    BY <2>1, <2>2
  <2> QED
    BY <2>1, <2>2, <2>3
<1> QED
  BY <1>3, <1>5, <1>6

\* pg_advisory_unlock frees the lock, which was taken once.
LEMMA ReleaseUnlocks ==
  ASSUME LockInv, NEW a \in Audits, Release(a)
  PROVE  /\ lock[audit[a].req.window].conn = audit[a].conn /\ audit[a].conn # None
         /\ audit[a].req.window \in Windows
         /\ lock' = [lock EXCEPT ![audit[a].req.window] = Unlocked]
<1> DEFINE w == audit[a].req.window
<1>1. audit[a].pc = "release" /\ lock[w].conn = audit[a].conn
  BY DEF Release, Locked
<1>2. audit[a].conn \in Conns /\ w \in Windows
  BY <1>1 DEF LockInv, ConnsHeld, CallsTyped, Pools, Requests, Holding, InTransaction
<1>3. audit[a].conn # None /\ lock[w].depth = 1
  BY <1>1, <1>2, AuditRevisionsAssumption DEF LockInv, LocksHeld
<1> QED
  BY <1>1, <1>2, <1>3 DEF Release, Unlock

\* Every way in which AuditProject gives up or gives back its connection.
LEMMA EndingSteps ==
  ASSUME LockInv, NEW a \in Audits, LockFails(a) \/ Release(a) \/ UnlockFails(a)
  PROVE  ConnsHeld' /\ LocksHeld' /\ LockNotPooled'
<1> DEFINE c == audit[a].conn
           w == audit[a].req.window
<1>1. audit[a].pc \in Holding /\ audit' = [audit EXCEPT ![a] = NoAudit]
  BY DEF LockFails, Release, UnlockFails, Ends, Holding, InTransaction
<1>2. audit'[a].pc = "idle" /\ \A b \in Audits \ {a} : audit'[b] = audit[b]
  BY <1>1 DEF LockInv, CallsTyped, NoAudit
<1>3. \/ pool' = [pool EXCEPT ![c] = "closed"]
      \/ pool' = [pool EXCEPT ![c] = "idle"]
  BY DEF LockFails, Release, UnlockFails, Discard, Return, Hijack
<1>4. DOMAIN pool' = DOMAIN pool /\ \A d \in DOMAIN pool : d # c => pool'[d] = pool[d]
  BY <1>3 DEF LockInv, CallsTyped, Pools
<1>5. CASE Discard(c)
  <2>1. \A v \in Windows : lock'[v] = (IF lock[v].conn = c THEN Unlocked ELSE lock[v])
    BY <1>5 DEF Discard
  <2> QED
    BY <1>1, <1>2, <1>4, <2>1, EndLocks
<1>6. CASE audit[a].pc = "lock" /\ lock' = lock
  <2>1. \A v \in Windows : lock[v].conn # c
    BY <1>6, NoLockWithoutAudit
  <2> QED
    BY <1>1, <1>2, <1>4, <1>6, <2>1, EndLocks
<1>7. CASE Release(a)
  <2>1. /\ lock[w].conn = c /\ c # None /\ w \in Windows
        /\ lock' = [lock EXCEPT ![w] = Unlocked]
    BY <1>7, ReleaseUnlocks
  <2>2. \A v \in Windows \ {w} : lock[v].conn # c
    <3> SUFFICES ASSUME NEW v \in Windows \ {w}, lock[v].conn = c
                 PROVE  FALSE
      OBVIOUS
    <3>1. PICK b \in Audits : audit[b].pc \in InTransaction /\ audit[b].conn = c /\ audit[b].req.window = v
      BY <2>1 DEF LockInv, LockNotPooled
    <3>2. b = a
      BY <1>1, <3>1 DEF LockInv, ConnsHeld, Holding
    <3> QED
      BY <3>1, <3>2
  <2>3. \A v \in Windows : lock'[v] = (IF lock[v].conn = c THEN Unlocked ELSE lock[v])
    BY <2>1, <2>2 DEF LockInv, CallsTyped
  <2> QED
    BY <1>1, <1>2, <1>4, <2>3, EndLocks
<1> QED
  BY <1>5, <1>6, <1>7 DEF LockFails, UnlockFails, Hijack

-----------------------------------------------------------------------------
(* Types.  A number is given to a revision from the greatest one, so that it is a *)
(* number at all needs the numbers stored to be bounded.                          *)

Numbered(rs) == \E n \in Nat : \A i \in DOMAIN rs : rs[i].number <= n

StoreTyped ==
  /\ evidence \subseteq Evidence
  /\ revs \in RevTables /\ Numbered(revs)
  /\ links \subseteq (DOMAIN revs) \X evidence
  /\ \A a \in Audits : Numbered(audit[a].snap.revs)

\* A window that has revisions has one with the greatest number.
LEMMA LatestIsGreatest ==
  ASSUME NEW rs \in RevTables, Numbered(rs), NEW w, InWindow(rs, w) # {}
  PROVE  /\ Latest(rs, w) \in InWindow(rs, w)
         /\ \A j \in InWindow(rs, w) : rs[j].number <= rs[Latest(rs, w)].number
<1>1. PICK n \in Nat : \A i \in DOMAIN rs : rs[i].number <= n
  BY DEF Numbered
<1>2. \A i \in InWindow(rs, w) : i \in DOMAIN rs /\ rs[i].number \in Nat /\ rs[i].number <= n
  BY <1>1 DEF InWindow, RevTables, Rows
<1> DEFINE T == {n - rs[i].number : i \in InWindow(rs, w)}
<1>3. T \subseteq Nat /\ T # {}
  BY <1>2
<1>4. PICK x \in T : \A y \in T : ~(<<y, x>> \in OpToRel(<, Nat))
  BY <1>3, WFMin, NatLessThanWellFounded
<1>5. PICK i \in InWindow(rs, w) : x = n - rs[i].number
  BY <1>4
<1>6. ASSUME NEW j \in InWindow(rs, w)
      PROVE  rs[j].number <= rs[i].number
  <2>1. n - rs[j].number \in T
    OBVIOUS
  <2>2. ~(n - rs[j].number < x)
    BY <1>3, <1>4, <2>1 DEF OpToRel
  <2> QED
    BY <1>2, <1>5, <2>2
<1> QED
  BY <1>5, <1>6 DEF Latest

\* persistAuditProject: the revision an audit would store is well formed.
LEMMA RowTyped ==
  ASSUME CallsTyped, StoreTyped, NEW a \in Audits, audit[a].pc = "persist"
  PROVE  Row(a) \in Rows /\ RevisionId(a) \in RevisionIds
<1>1. /\ Snap(a).revs \in RevTables /\ Numbered(Snap(a).revs) /\ Snap(a).evidence \subseteq Evidence
      /\ audit[a].req \in Requests
  BY DEF CallsTyped, Calls, StoreTyped, Snap
<1>2. RevisionId(a) \in RevisionIds
  BY <1>1 DEF RevisionId, RevisionIds, Visible, Requests
<1>3. NextRevision(Snap(a).revs, audit[a].req.window) \in Rows
  <2> DEFINE rs == Snap(a).revs
             w == audit[a].req.window
  <2>1. CASE InWindow(rs, w) = {}
    BY <2>1 DEF NextRevision, Rows
  <2>2. CASE InWindow(rs, w) # {}
    <3>1. Latest(rs, w) \in InWindow(rs, w)
      BY <1>1, <2>2, LatestIsGreatest
    <3>2. Latest(rs, w) \in RevisionIds /\ rs[Latest(rs, w)].number \in Nat
      BY <1>1, <3>1 DEF InWindow, RevTables, Rows
    <3> QED
      BY <2>2, <3>2 DEF NextRevision, Rows
  <2> QED
    BY <2>1, <2>2
<1>4. RevisionId(a) \in DOMAIN Snap(a).revs => Snap(a).revs[RevisionId(a)] \in Rows
  BY <1>1 DEF RevTables
<1> QED
  BY <1>2, <1>3, <1>4 DEF Row

\* What the empty audit and the empty snapshot are.
LEMMA EmptyTyped ==
  /\ NoAudit \in Calls /\ NoAudit.pc = "idle"
  /\ Empty \in [evidence : SUBSET Evidence, revs : RevTables]
  /\ Numbered(Empty.revs)
  /\ Unlocked \in [conn : Conns \cup {None}, depth : Nat]
<1>1. Empty.revs \in [{} -> Rows] /\ DOMAIN Empty.revs = {}
  BY DEF Empty
<1>2. Empty.revs \in RevTables
  BY <1>1 DEF RevTables
<1>3. Empty \in [evidence : SUBSET Evidence, revs : RevTables]
  BY <1>2 DEF Empty
<1>4. NoAudit \in Calls /\ NoAudit.pc = "idle"
  BY <1>3, AuditRevisionsAssumption DEF NoAudit, Calls
<1>5. Numbered(Empty.revs)
  BY <1>1 DEF Numbered
<1> QED
  BY <1>3, <1>4, <1>5 DEF Unlocked

\* The call as it starts.
LEMMA StartTyped ==
  ASSUME NEW req \in Requests
  PROVE  [NoAudit EXCEPT !.pc = "acquire", !.req = req, !.attempt = 1] \in Calls
<1>1. Empty \in [evidence : SUBSET Evidence, revs : RevTables]
  BY EmptyTyped
<1>2. 1 \in 0 .. MaxAttempts
  BY AuditRevisionsAssumption
<1> QED
  BY <1>1, <1>2 DEF NoAudit, Calls

\* Every action leaves calls, pool and locks well typed.
LEMMA CallsTypedStep ==
  ASSUME LockInv, StoreTyped, Next
  PROVE  CallsTyped'
<1> USE EmptyTyped
<1>1. CallsTyped
  BY DEF LockInv
<1>2. ASSUME NEW e \in Evidence, Collect(e) \/ Purge(e)
      PROVE  CallsTyped'
  BY <1>1, <1>2 DEF Collect, Purge, CallsTyped
<1>3. ASSUME NEW a \in Audits, NEW req \in Requests, Start(a, req)
      PROVE  CallsTyped'
  <2>1. [NoAudit EXCEPT !.pc = "acquire", !.req = req, !.attempt = 1] \in Calls
    BY StartTyped
  <2> QED
    BY <1>1, <1>3, <2>1 DEF Start, CallsTyped, NoAudit
<1>4. ASSUME NEW a \in Audits, Acquire(a)
      PROVE  CallsTyped'
  <2>1. PICK c \in DOMAIN pool :
          /\ pool' = [pool EXCEPT ![c] = "used"] /\ lock' = lock
          /\ audit' = [audit EXCEPT ![a].pc = "lock", ![a].conn = c]
          /\ audit[a].pc = "acquire"
    BY <1>4 DEF Acquire
  <2>2. c \in Conns /\ pool' \in Pools
    BY <1>1, <2>1 DEF CallsTyped, Pools
  <2> QED
    BY <1>1, <2>1, <2>2 DEF CallsTyped, Calls
<1>5. ASSUME NEW a \in Audits, AcquireFails(a)
      PROVE  CallsTyped'
  BY <1>1, <1>5 DEF AcquireFails, Ends, CallsTyped
<1>6. ASSUME NEW a \in Audits, Lock(a)
      PROVE  CallsTyped'
  <2> DEFINE w == audit[a].req.window
             new == [conn |-> audit[a].conn, depth |-> lock[w].depth + 1]
  <2>1. audit[a].pc = "lock" /\ audit' = [audit EXCEPT ![a].pc = "begin"] /\ pool' = pool
    BY <1>6 DEF Lock, Goto
  <2>2. w \in Windows
    BY <1>1, <2>1 DEF CallsTyped, Requests
  <2>3. new \in [conn : Conns \cup {None}, depth : Nat]
    BY <1>1, <2>2 DEF CallsTyped, Calls
  <2>4. lock' = [lock EXCEPT ![w] = new]
    BY <1>6 DEF Lock
  <2>5. lock' \in [Windows -> [conn : Conns \cup {None}, depth : Nat]]
    BY <1>1, <2>3, <2>4 DEF CallsTyped
  <2>6. audit' \in [Audits -> Calls] /\ \A b \in Audits : audit'[b].req = audit[b].req /\ (b # a => audit'[b] = audit[b])
    BY <1>1, <2>1 DEF CallsTyped, Calls
  <2> QED
    BY <1>1, <2>1, <2>5, <2>6 DEF CallsTyped
<1>7. ASSUME NEW a \in Audits, LockFails(a) \/ Release(a) \/ UnlockFails(a)
      PROVE  CallsTyped'
  <2>1. audit' \in [Audits -> Calls] /\ \A b \in Audits : audit'[b].pc # "idle" => audit'[b] = audit[b]
    <3>1. audit' = [audit EXCEPT ![a] = NoAudit]
      BY <1>7 DEF LockFails, Release, UnlockFails, Ends
    <3> QED
      BY <1>1, <3>1 DEF CallsTyped
  <2>2. pool' \in Pools
    BY <1>1, <1>7 DEF LockFails, Release, UnlockFails, Discard, Return, Hijack, CallsTyped, Pools
  <2>3. lock' \in [Windows -> [conn : Conns \cup {None}, depth : Nat]]
    <3>1. CASE lock' = lock
      BY <1>1, <3>1 DEF CallsTyped
    <3>2. CASE Discard(audit[a].conn)
      BY <1>1, <3>2 DEF Discard, CallsTyped
    <3>3. CASE Release(a)
      BY <1>1, <3>3, ReleaseUnlocks DEF CallsTyped
    <3> QED
      BY <1>7, <3>1, <3>2, <3>3 DEF LockFails, UnlockFails, Hijack
  <2> QED
    BY <1>1, <2>1, <2>2, <2>3 DEF CallsTyped
<1>8. ASSUME NEW a \in Audits, Begin(a) \/ Commit(a) \/ Conflict(a) \/ Fails(a)
      PROVE  CallsTyped'
  <2>1. audit' \in [Audits -> Calls]
    <3>1. Db \in [evidence : SUBSET Evidence, revs : RevTables]
      BY DEF Db, StoreTyped
    <3> QED
      BY <1>1, <1>8, <3>1 DEF Begin, Commit, Conflict, Fails, CallsTyped, Calls
  <2> QED
    BY <1>1, <1>8, <2>1, TransactionSteps DEF CallsTyped, InTransaction
<1>9. CASE Crash
  <2>1. pool' \in Pools
    BY <1>1, <1>9 DEF Crash, CallsTyped, Pools
  <2>2. audit' \in [Audits -> Calls] /\ lock' \in [Windows -> [conn : Conns \cup {None}, depth : Nat]]
    BY <1>9 DEF Crash
  <2>3. \A a \in Audits : audit'[a].pc = "idle"
    BY <1>9 DEF Crash
  <2> QED
    BY <2>1, <2>2, <2>3 DEF CallsTyped
<1> QED
  BY <1>2, <1>3, <1>4, <1>5, <1>6, <1>7, <1>8, <1>9 DEF Next, Step, Faulty

-----------------------------------------------------------------------------
(* The store *)

\* A revision stored, or stored again, keeps the table well formed.
LEMMA CommitStore ==
  ASSUME CallsTyped, StoreTyped, NEW a \in Audits, Commit(a)
  PROVE  /\ revs' \in RevTables /\ Numbered(revs')
         /\ DOMAIN revs' = DOMAIN revs \cup {RevisionId(a)}
         /\ links' = links \cup {<<RevisionId(a), e>> : e \in Visible(a)} /\ Visible(a) \subseteq evidence
         /\ evidence' = evidence /\ RevisionId(a).content = Visible(a) /\ RevisionId(a).window = audit[a].req.window
<1> DEFINE id == RevisionId(a)
<1>1. /\ audit[a].pc = "persist" /\ Visible(a) \subseteq evidence
      /\ revs' = [i \in DOMAIN revs \cup {id} |-> IF i \in DOMAIN revs THEN revs[i] ELSE Row(a)]
      /\ links' = links \cup {<<id, e>> : e \in Visible(a)} /\ evidence' = evidence
  BY DEF Commit, MustConflict, persistAuditProject, persistRevisionEvidence
<1>2. Row(a) \in Rows /\ id \in RevisionIds
  BY <1>1, RowTyped
<1>3. revs' \in [DOMAIN revs \cup {id} -> Rows] /\ DOMAIN revs \cup {id} \in SUBSET RevisionIds
  BY <1>1, <1>2 DEF StoreTyped, RevTables
<1>4. Numbered(revs')
  <2>1. PICK n \in Nat : \A i \in DOMAIN revs : revs[i].number <= n
    BY DEF StoreTyped, Numbered
  <2> DEFINE m == IF n <= Row(a).number THEN Row(a).number ELSE n
  <2>2. m \in Nat /\ n <= m /\ Row(a).number <= m
    BY <1>2 DEF Rows
  <2>3. \A i \in DOMAIN revs : revs[i].number \in Nat
    BY DEF StoreTyped, RevTables, Rows
  <2>4. \A i \in DOMAIN revs' : revs'[i].number <= m
    BY <1>1, <2>1, <2>2, <2>3
  <2> QED
    BY <2>2, <2>4 DEF Numbered
<1>5. id.content = Visible(a) /\ id.window = audit[a].req.window
  BY DEF RevisionId
<1> QED
  BY <1>1, <1>3, <1>4, <1>5 DEF RevTables

\* ApplyRetention: revisions that stay keep their number, links that stay their revision.
LEMMA PurgeStore ==
  ASSUME StoreTyped, NEW e \in Evidence, Purge(e)
  PROVE  /\ revs' \in RevTables /\ Numbered(revs') /\ DOMAIN revs' \subseteq DOMAIN revs
         /\ evidence' = evidence \ {e} /\ links' = {l \in links : l[2] # e}
         /\ links' \subseteq (DOMAIN revs') \X evidence'
         /\ audit' = audit
<1> DEFINE gone == {l \in links : l[2] = e}
           left == {i \in DOMAIN revs : \/ \E l \in links \ gone : l[1] = i
                                        \/ \A l \in links : l[1] # i}
<1>1. /\ evidence' = evidence \ {e} /\ links' = links \ gone /\ audit' = audit
      /\ revs' = [i \in left |-> [revs[i] EXCEPT !.prior = IF @ \in left THEN @ ELSE NoRevision]]
  BY DEF Purge
<1>2. left \subseteq DOMAIN revs /\ left \subseteq RevisionIds /\ \A i \in left : revs[i] \in Rows
  BY DEF StoreTyped, RevTables
<1>3. \A i \in left : revs'[i] \in Rows /\ revs'[i].number = revs[i].number
  <2> SUFFICES ASSUME NEW i \in left
               PROVE  revs'[i] \in Rows /\ revs'[i].number = revs[i].number
    OBVIOUS
  <2>1. revs'[i] = [revs[i] EXCEPT !.prior = IF @ \in left THEN @ ELSE NoRevision]
    BY <1>1
  <2>2. revs[i] \in Rows
    BY <1>2
  <2> HIDE DEF left
  <2> QED
    BY <1>2, <2>1, <2>2 DEF Rows
<1>4. DOMAIN revs' = left
  BY <1>1
<1>5. revs' \in RevTables
  <2>1. revs' \in [left -> Rows]
    <3> HIDE DEF left
    <3> QED
      BY <1>1, <1>3
  <2> QED
    BY <1>2, <2>1 DEF RevTables
<1>6. Numbered(revs')
  BY <1>2, <1>3, <1>4 DEF StoreTyped, Numbered
<1>7. links' \subseteq left \X evidence'
  BY <1>1 DEF StoreTyped
<1> QED
  BY <1>1, <1>2, <1>4, <1>5, <1>6, <1>7

\* Every action leaves the store well typed.
LEMMA StoreTypedStep ==
  ASSUME LockInv, StoreTyped, Next
  PROVE  StoreTyped'
<1> USE EmptyTyped
<1>1. CallsTyped
  BY DEF LockInv
<1>2. ASSUME NEW e \in Evidence, Collect(e)
      PROVE  StoreTyped'
  BY <1>2 DEF Collect, StoreTyped
<1>3. ASSUME NEW e \in Evidence, Purge(e)
      PROVE  StoreTyped'
  BY <1>3, PurgeStore DEF StoreTyped
<1>4. ASSUME UNCHANGED <<evidence, revs, links>>,
             \A a \in Audits : audit'[a].snap \in {audit[a].snap, Empty, Db}
      PROVE  StoreTyped'
  BY <1>4 DEF StoreTyped, Db
<1>5. ASSUME NEW a \in Audits, Commit(a)
      PROVE  StoreTyped'
  <2>1. \A b \in Audits : audit'[b].snap \in {audit[b].snap, Empty}
    BY <1>1, <1>5 DEF Commit, CallsTyped, Calls
  <2>2. links' \subseteq (DOMAIN revs') \X evidence'
    <3>1. /\ links' = links \cup {<<RevisionId(a), e>> : e \in Visible(a)}
          /\ Visible(a) \subseteq evidence /\ evidence' = evidence
          /\ DOMAIN revs' = DOMAIN revs \cup {RevisionId(a)}
      BY <1>1, <1>5, CommitStore
    <3>2. \A e \in Visible(a) : <<RevisionId(a), e>> \in (DOMAIN revs') \X evidence'
      BY <3>1
    <3> QED
      BY <3>1, <3>2 DEF StoreTyped
  <2> QED
    BY <1>1, <1>5, <2>1, <2>2, CommitStore DEF StoreTyped
<1>6. ASSUME NEW a \in Audits, NEW req \in Requests, Start(a, req)
      PROVE  StoreTyped'
  <2>1. \A b \in Audits : audit'[b].snap \in {audit[b].snap, Empty}
    BY <1>1, <1>6 DEF Start, NoAudit, CallsTyped, Calls
  <2> QED
    BY <1>4, <1>6, <2>1 DEF Start, db
<1>7. ASSUME NEW a \in Audits, Acquire(a) \/ Lock(a) \/ Begin(a) \/ Conflict(a) \/ Fails(a)
      PROVE  StoreTyped'
  <2>1. \A b \in Audits : audit'[b].snap \in {audit[b].snap, Empty, Db}
    <3>1. CASE Acquire(a)
      BY <1>1, <3>1 DEF Acquire, CallsTyped, Calls
    <3>2. CASE Lock(a)
      BY <1>1, <3>2 DEF Lock, Goto, CallsTyped, Calls
    <3>3. CASE Begin(a)
      BY <1>1, <3>3 DEF Begin, CallsTyped, Calls
    <3>4. CASE Conflict(a)
      BY <1>1, <3>4 DEF Conflict, CallsTyped, Calls
    <3>5. CASE Fails(a)
      BY <1>1, <3>5 DEF Fails, CallsTyped, Calls
    <3> QED
      BY <1>7, <3>1, <3>2, <3>3, <3>4, <3>5
  <2>2. UNCHANGED <<evidence, revs, links>>
    BY <1>7 DEF Acquire, Lock, Begin, Conflict, Fails, db
  <2> QED
    BY <1>4, <2>1, <2>2
<1>8. ASSUME NEW a \in Audits, AcquireFails(a) \/ LockFails(a) \/ Release(a) \/ UnlockFails(a)
      PROVE  StoreTyped'
  <2>1. audit' = [audit EXCEPT ![a] = NoAudit] /\ UNCHANGED <<evidence, revs, links>>
    BY <1>8 DEF AcquireFails, LockFails, Release, UnlockFails, Ends, db
  <2>2. \A b \in Audits : audit'[b].snap \in {audit[b].snap, Empty}
    BY <1>1, <2>1 DEF CallsTyped, NoAudit
  <2> QED
    BY <1>4, <2>1, <2>2
<1>9. CASE Crash
  <2>1. \A b \in Audits : audit'[b].snap = Empty
    BY <1>9 DEF Crash, NoAudit
  <2> QED
    BY <1>4, <1>9, <2>1 DEF Crash, db
<1> QED
  BY <1>2, <1>3, <1>5, <1>6, <1>7, <1>8, <1>9 DEF Next, Step, Faulty

-----------------------------------------------------------------------------
(* The theorems *)

\* Connections, locks and types together.
LEMMA LockInvStep ==
  ASSUME LockInv, StoreTyped, Next
  PROVE  LockInv'
<1>1. CallsTyped /\ CallsTyped'
  BY CallsTypedStep DEF LockInv
<1>2. SUFFICES ConnsHeld' /\ LocksHeld' /\ LockNotPooled'
  BY <1>1 DEF LockInv
<1>3. ASSUME NEW e \in Evidence, Collect(e) \/ Purge(e)
      PROVE  ConnsHeld' /\ LocksHeld' /\ LockNotPooled'
  <2>1. UNCHANGED <<pool, lock, audit>>
    BY <1>3 DEF Collect, Purge
  <2> QED
    BY <2>1 DEF LockInv, ConnsHeld, LocksHeld, LockNotPooled
<1>4. ASSUME NEW a \in Audits, NEW req \in Requests, Start(a, req)
      PROVE  ConnsHeld' /\ LocksHeld' /\ LockNotPooled'
  <2>1. /\ audit[a].pc \notin Holding /\ audit'[a].pc \notin Holding
        /\ \A b \in Audits \ {a} : audit'[b] = audit[b]
    BY <1>1, <1>4 DEF Start, NoAudit, CallsTyped, Holding, InTransaction
  <2> QED
    BY <1>4, <2>1, IdleLocks DEF Start
<1>5. ASSUME NEW a \in Audits, AcquireFails(a)
      PROVE  ConnsHeld' /\ LocksHeld' /\ LockNotPooled'
  <2>1. /\ audit[a].pc \notin Holding /\ audit'[a].pc \notin Holding
        /\ \A b \in Audits \ {a} : audit'[b] = audit[b]
    BY <1>1, <1>5 DEF AcquireFails, Ends, NoAudit, CallsTyped, Holding, InTransaction
  <2> QED
    BY <1>5, <2>1, IdleLocks DEF AcquireFails
<1>6. CASE Crash
  <2>1. \A a \in Audits : audit'[a].pc \notin Holding /\ audit'[a].pc \notin InTransaction
    BY <1>6 DEF Crash, NoAudit, Holding, InTransaction
  <2>2. \A w \in Windows : lock'[w].conn = None /\ lock'[w].depth = 0
    BY <1>6 DEF Crash, Unlocked
  <2> QED
    BY <2>1, <2>2 DEF ConnsHeld, LocksHeld, LockNotPooled
<1> QED
  BY <1>3, <1>4, <1>5, <1>6, AcquireLocks, LockLocks, TransactionLocks, EndingSteps DEF Next, Step, Faulty

\* Two audits of one window are never both in their transaction.
LEMMA OneAuditPerWindow ==
  ASSUME LockInv, NEW a \in Audits, NEW b \in Audits,
         audit[a].pc \in InTransaction, audit[b].pc \in InTransaction,
         audit[a].req.window = audit[b].req.window
  PROVE  a = b
  BY DEF LockInv, LocksHeld, ConnsHeld, Holding

\* A snapshot stays current while its audit runs: others of its window wait for the lock.
LEMMA SnapshotsCurrentStep ==
  ASSUME LockInv, StoreTyped, SnapshotsCurrent, Next
  PROVE  SnapshotsCurrent'
<1>1. CallsTyped
  BY DEF LockInv
<1>2. ASSUME DOMAIN revs' \subseteq DOMAIN revs,
             \A a \in Audits : audit'[a].pc = "persist" =>
               \/ audit'[a] = audit[a]
               \/ DOMAIN audit'[a].snap.revs = DOMAIN revs
      PROVE  SnapshotsCurrent'
  <2> SUFFICES ASSUME NEW a \in Audits, audit'[a].pc = "persist",
                      NEW i \in DOMAIN revs', i.window = audit'[a].req.window
               PROVE  i \in DOMAIN audit'[a].snap.revs
    BY DEF SnapshotsCurrent, InWindow, Snap
  <2> QED
    BY <1>2 DEF SnapshotsCurrent, InWindow, Snap
<1>3. ASSUME NEW e \in Evidence, Collect(e)
      PROVE  SnapshotsCurrent'
  BY <1>2, <1>3 DEF Collect
<1>4. ASSUME NEW e \in Evidence, Purge(e)
      PROVE  SnapshotsCurrent'
  BY <1>2, <1>4, PurgeStore
<1>5. ASSUME NEW a \in Audits, Begin(a)
      PROVE  SnapshotsCurrent'
  <2>1. /\ audit'[a].snap.revs = revs /\ revs' = revs
        /\ \A b \in Audits \ {a} : audit'[b] = audit[b]
    BY <1>1, <1>5 DEF Begin, Db, db, CallsTyped, Calls
  <2> QED
    BY <1>2, <2>1
<1>6. ASSUME NEW a \in Audits, Commit(a)
      PROVE  SnapshotsCurrent'
  <2>1. /\ audit[a].pc = "persist" /\ audit'[a].pc = "release"
        /\ \A b \in Audits \ {a} : audit'[b] = audit[b]
    BY <1>1, <1>6 DEF Commit, CallsTyped, Calls
  <2>2. DOMAIN revs' = DOMAIN revs \cup {RevisionId(a)} /\ RevisionId(a).window = audit[a].req.window
    BY <1>1, <1>6, CommitStore
  <2> SUFFICES ASSUME NEW b \in Audits, audit'[b].pc = "persist",
                      NEW i \in DOMAIN revs', i.window = audit'[b].req.window
               PROVE  i \in DOMAIN audit'[b].snap.revs
    BY DEF SnapshotsCurrent, InWindow, Snap
  <2>3. b # a /\ audit'[b] = audit[b]
    BY <2>1
  <2>4. audit[b].req.window # audit[a].req.window
    BY <2>1, <2>3, OneAuditPerWindow DEF InTransaction
  <2>5. i \in DOMAIN revs
    BY <2>2, <2>3, <2>4
  <2> QED
    BY <2>3, <2>5 DEF SnapshotsCurrent, InWindow, Snap
<1>7. ASSUME NEW a \in Audits, revs' = revs, audit'[a].pc # "persist",
             \A b \in Audits \ {a} : audit'[b] = audit[b]
      PROVE  SnapshotsCurrent'
  BY <1>2, <1>7
<1>8. ASSUME NEW a \in Audits, (\E req \in Requests : Start(a, req)) \/ Acquire(a) \/ Lock(a)
      PROVE  SnapshotsCurrent'
  <2>1. audit'[a].pc # "persist" /\ revs' = revs /\ \A b \in Audits \ {a} : audit'[b] = audit[b]
    <3>1. CASE \E req \in Requests : Start(a, req)
      BY <1>1, <3>1 DEF Start, NoAudit, db, CallsTyped
    <3>2. CASE Acquire(a)
      BY <1>1, <3>2 DEF Acquire, db, CallsTyped, Calls
    <3>3. CASE Lock(a)
      BY <1>1, <3>3 DEF Lock, Goto, db, CallsTyped, Calls
    <3> QED
      BY <1>8, <3>1, <3>2, <3>3
  <2> QED
    BY <1>7, <2>1
<1>9. ASSUME NEW a \in Audits, Conflict(a) \/ Fails(a)
      PROVE  SnapshotsCurrent'
  <2>1. audit'[a].pc # "persist" /\ revs' = revs /\ \A b \in Audits \ {a} : audit'[b] = audit[b]
    BY <1>1, <1>9 DEF Conflict, Fails, db, CallsTyped, Calls
  <2> QED
    BY <1>7, <2>1
<1>10. ASSUME NEW a \in Audits, AcquireFails(a) \/ LockFails(a) \/ Release(a) \/ UnlockFails(a)
       PROVE  SnapshotsCurrent'
  <2>1. audit' = [audit EXCEPT ![a] = NoAudit] /\ revs' = revs
    BY <1>10 DEF AcquireFails, LockFails, Release, UnlockFails, Ends, db
  <2>2. audit'[a].pc # "persist" /\ \A b \in Audits \ {a} : audit'[b] = audit[b]
    BY <1>1, <2>1 DEF CallsTyped, NoAudit
  <2> QED
    BY <1>7, <2>1, <2>2
<1>11. CASE Crash
  <2>1. \A a \in Audits : audit'[a].pc = "idle"
    BY <1>11 DEF Crash, NoAudit
  <2> QED
    BY <2>1 DEF SnapshotsCurrent
<1> QED
  BY <1>3, <1>4, <1>5, <1>6, <1>8, <1>9, <1>10, <1>11 DEF Next, Step, Faulty

\* Links are added with what the hash covers and go with their evidence.
LEMMA LinksMatchContentStep ==
  ASSUME LockInv, StoreTyped, LinksMatchContent, Next
  PROVE  LinksMatchContent'
<1>1. CallsTyped
  BY DEF LockInv
<1>2. CASE links' \subseteq links /\ evidence \subseteq evidence'
  BY <1>2 DEF LinksMatchContent
<1>3. ASSUME NEW e \in Evidence, Purge(e)
      PROVE  LinksMatchContent'
  <2>1. evidence' = evidence \ {e} /\ links' = {l \in links : l[2] # e}
    BY <1>3, PurgeStore
  <2> QED
    BY <2>1 DEF LinksMatchContent
<1>4. ASSUME NEW a \in Audits, Commit(a)
      PROVE  LinksMatchContent'
  <2>1. /\ links' = links \cup {<<RevisionId(a), e>> : e \in Visible(a)} /\ Visible(a) \subseteq evidence
        /\ evidence' = evidence /\ RevisionId(a).content = Visible(a)
    BY <1>1, <1>4, CommitStore
  <2> QED
    BY <2>1 DEF LinksMatchContent
<1>5. ASSUME NEW e \in Evidence, Collect(e)
      PROVE  links' \subseteq links /\ evidence \subseteq evidence'
  BY <1>5 DEF Collect
<1>6. ASSUME NEW a \in Audits, (\E req \in Requests : Start(a, req)) \/ Acquire(a) \/ Lock(a) \/ Begin(a)
                               \/ Conflict(a) \/ Release(a) \/ Faulty(a)
      PROVE  UNCHANGED <<links, evidence>>
  BY <1>6 DEF Start, Acquire, Lock, Begin, Conflict, Release, Faulty, AcquireFails, LockFails, Fails, UnlockFails, db
<1>7. Crash => UNCHANGED <<links, evidence>>
  BY DEF Crash, db
<1> QED
  BY <1>2, <1>3, <1>4, <1>5, <1>6, <1>7 DEF Next, Step

\* The inductive invariant.
RevisionsInv == LockInv /\ StoreTyped /\ SnapshotsCurrent /\ LinksMatchContent

\* Pools of every size start with closed connections, nobody holds a lock, nothing is stored.
LEMMA RevisionsInvInit == Init => RevisionsInv
<1> SUFFICES ASSUME Init
             PROVE  RevisionsInv
  OBVIOUS
<1> USE EmptyTyped
<1>1. PICK size \in SUBSET Conns \ {{}} : pool = [c \in size |-> "closed"]
  BY DEF Init
<1>2. pool \in Pools
  <2>1. pool \in [size -> {"closed", "idle", "used"}]
    BY <1>1
  <2> QED
    BY <2>1 DEF Pools
<1>3. \A a \in Audits : audit[a] = NoAudit /\ audit[a].pc = "idle"
  BY DEF Init
<1>4. \A w \in Windows : lock[w].conn = None /\ lock[w].depth = 0
  BY DEF Init, Unlocked
<1>5. CallsTyped
  BY <1>2, <1>3 DEF Init, CallsTyped
<1>6. ConnsHeld /\ LocksHeld /\ LockNotPooled /\ SnapshotsCurrent
  BY <1>3, <1>4 DEF ConnsHeld, LocksHeld, LockNotPooled, SnapshotsCurrent, Holding, InTransaction
<1>7. StoreTyped
  <2>1. revs \in RevTables /\ Numbered(revs) /\ links = {} /\ evidence = {}
    BY DEF Init
  <2>2. \A a \in Audits : audit[a].snap = Empty
    BY <1>3 DEF NoAudit
  <2> QED
    BY <2>1, <2>2 DEF StoreTyped
<1>8. LinksMatchContent
  BY DEF Init, LinksMatchContent
<1> QED
  BY <1>5, <1>6, <1>7, <1>8 DEF RevisionsInv, LockInv

\* A step that changes nothing keeps the invariant.
LEMMA RevisionsInvStutter == RevisionsInv /\ UNCHANGED vars => RevisionsInv'
<1> SUFFICES ASSUME RevisionsInv, UNCHANGED vars
             PROVE  RevisionsInv'
  OBVIOUS
<1>1. LockInv'
  BY DEF RevisionsInv, vars, LockInv, CallsTyped, ConnsHeld, LocksHeld, LockNotPooled
<1>2. StoreTyped'
  BY DEF RevisionsInv, vars, StoreTyped, Numbered
<1>3. SnapshotsCurrent' /\ LinksMatchContent'
  BY DEF RevisionsInv, vars, SnapshotsCurrent, LinksMatchContent, InWindow, Snap
<1> QED
  BY <1>1, <1>2, <1>3 DEF RevisionsInv

\* The invariant holds of AuditProject whatever audits overlap, fail, are retried or die,
\* for any pool and any number of windows.
THEOREM AuditRevisionsInvariant == Spec => []RevisionsInv
<1>1. RevisionsInv /\ [Next]_vars => RevisionsInv'
  BY RevisionsInvStutter, LockInvStep, StoreTypedStep, SnapshotsCurrentStep, LinksMatchContentStep
     DEF RevisionsInv
<1> QED
  BY <1>1, RevisionsInvInit, PTL DEF Spec

\* Types of the store, the pool, the locks and the calls.
THEOREM AuditRevisionsTypeOK == Spec => []TypeOK
<1>1. RevisionsInv => TypeOK
  <2> SUFFICES ASSUME RevisionsInv
               PROVE  TypeOK
    OBVIOUS
  <2>1. CallsTyped /\ StoreTyped
    BY DEF RevisionsInv, LockInv
  <2>2. DOMAIN revs \subseteq RevisionIds /\ \A i \in DOMAIN revs : revs[i] \in Rows
    BY <2>1 DEF StoreTyped, RevTables
  <2>3. DOMAIN pool \subseteq Conns /\ \A c \in DOMAIN pool : pool[c] \in {"closed", "idle", "used"}
    BY <2>1 DEF CallsTyped, Pools
  <2>4. \A a \in Audits :
          /\ audit[a].pc \in {"idle", "acquire", "lock", "begin", "persist", "release"}
          /\ audit[a].attempt \in 0 .. MaxAttempts
    BY <2>1 DEF CallsTyped, Calls
  <2> QED
    BY <2>1, <2>2, <2>3, <2>4 DEF TypeOK, StoreTyped, CallsTyped
<1> QED
  BY <1>1, AuditRevisionsInvariant, PTL

\* No session lock outlives its audit: releaseAuditConnection closes a connection whose
\* lock it could not give back, and every way out of AuditProject passes it.
THEOREM AuditLockNotPooled == Spec => []LockNotPooled
<1>1. RevisionsInv => LockNotPooled
  BY DEF RevisionsInv, LockInv
<1> QED
  BY <1>1, AuditRevisionsInvariant, PTL

\* The snapshot of an audit that holds its lock has every revision of its window.
THEOREM AuditSnapshotsCurrent == Spec => []SnapshotsCurrent
<1>1. RevisionsInv => SnapshotsCurrent
  BY DEF RevisionsInv
<1> QED
  BY <1>1, AuditRevisionsInvariant, PTL

\* Links lead to retained evidence that the revision's hash covers, also after the
\* revision was stored again and retention ran in between.
THEOREM AuditLinksMatchContent == Spec => []LinksMatchContent
<1>1. RevisionsInv => LinksMatchContent
  BY DEF RevisionsInv
<1> QED
  BY <1>1, AuditRevisionsInvariant, PTL

-----------------------------------------------------------------------------
(* The refinement *)

\* The revisions of an audit's window have the numbers they had in its snapshot.
NumbersKept ==
  \A a \in Audits : audit[a].pc = "persist" =>
    \A i \in InWindow(revs, audit[a].req.window) : revs[i].number = Snap(a).revs[i].number

\* Retention leaves numbers alone and clears the priors of what it takes away.
LEMMA PurgeRows ==
  ASSUME StoreTyped, NEW e \in Evidence, Purge(e)
  PROVE  /\ DOMAIN revs' \subseteq DOMAIN revs
         /\ \A i \in DOMAIN revs' :
              revs'[i] = [revs[i] EXCEPT !.prior = IF @ \in DOMAIN revs' THEN @ ELSE NoRevision]
         /\ \A i \in DOMAIN revs' : revs'[i].number = revs[i].number
<1> DEFINE gone == {l \in links : l[2] = e}
           left == {i \in DOMAIN revs : \/ \E l \in links \ gone : l[1] = i
                                        \/ \A l \in links : l[1] # i}
<1>1. revs' = [i \in left |-> [revs[i] EXCEPT !.prior = IF @ \in left THEN @ ELSE NoRevision]]
  BY DEF Purge
<1>2. left \subseteq DOMAIN revs
  OBVIOUS
<1> HIDE DEF left
<1>3. DOMAIN revs' = left
  BY <1>1
<1>4. \A i \in left : revs[i] \in Rows
  BY <1>2 DEF StoreTyped, RevTables
<1>5. \A i \in left : revs'[i] = [revs[i] EXCEPT !.prior = IF @ \in left THEN @ ELSE NoRevision]
  BY <1>1
<1>6. \A i \in left : revs'[i].number = revs[i].number
  BY <1>4, <1>5 DEF Rows
<1> QED
  BY <1>2, <1>3, <1>5, <1>6

\* Rows that are there stay; the new one is the audit's.
LEMMA CommitRows ==
  ASSUME NEW a \in Audits, Commit(a)
  PROVE  /\ DOMAIN revs' = DOMAIN revs \cup {RevisionId(a)}
         /\ \A i \in DOMAIN revs : revs'[i] = revs[i]
         /\ RevisionId(a) \notin DOMAIN revs => revs'[RevisionId(a)] = Row(a)
  BY DEF Commit, persistAuditProject

\* Which steps change the table of revisions, and what else they may do to snapshots.
LEMMA OtherSteps ==
  ASSUME CallsTyped, Next
  PROVE  \/ \E e \in Evidence : Purge(e)
         \/ \E a \in Audits : Commit(a)
         \/ /\ revs' = revs
            /\ \A a \in Audits : audit'[a].pc = "persist" =>
                 audit'[a] = audit[a] \/ audit'[a].snap.revs = revs
<1> DEFINE Kept == /\ revs' = revs
                   /\ \A a \in Audits : audit'[a].pc = "persist" =>
                        audit'[a] = audit[a] \/ audit'[a].snap.revs = revs
<1>1. ASSUME NEW e \in Evidence, Collect(e)
      PROVE  Kept
  BY <1>1 DEF Collect
<1>2. ASSUME NEW a \in Audits, revs' = revs, audit'[a].pc = "persist" => audit'[a].snap.revs = revs,
             \A b \in Audits \ {a} : audit'[b] = audit[b]
      PROVE  Kept
  BY <1>2
<1>3. ASSUME NEW a \in Audits, NEW req \in Requests, Start(a, req)
      PROVE  Kept
  <2>1. audit'[a].pc # "persist" /\ revs' = revs /\ \A b \in Audits \ {a} : audit'[b] = audit[b]
    BY <1>3 DEF Start, NoAudit, db, CallsTyped
  <2> QED
    BY <1>2, <2>1
<1>4. ASSUME NEW a \in Audits, Acquire(a) \/ Lock(a) \/ Conflict(a) \/ Fails(a)
      PROVE  Kept
  <2>1. audit'[a].pc # "persist" /\ revs' = revs /\ \A b \in Audits \ {a} : audit'[b] = audit[b]
    BY <1>4 DEF Acquire, Lock, Goto, Conflict, Fails, db, CallsTyped, Calls
  <2> QED
    BY <1>2, <2>1
<1>5. ASSUME NEW a \in Audits, Begin(a)
      PROVE  Kept
  <2>1. /\ audit'[a].snap.revs = revs /\ revs' = revs
        /\ \A b \in Audits \ {a} : audit'[b] = audit[b]
    BY <1>5 DEF Begin, Db, db, CallsTyped, Calls
  <2> QED
    BY <1>2, <2>1
<1>6. ASSUME NEW a \in Audits, AcquireFails(a) \/ LockFails(a) \/ Release(a) \/ UnlockFails(a)
      PROVE  Kept
  <2>1. audit' = [audit EXCEPT ![a] = NoAudit] /\ revs' = revs
    BY <1>6 DEF AcquireFails, LockFails, Release, UnlockFails, Ends, db
  <2>2. audit'[a].pc # "persist" /\ \A b \in Audits \ {a} : audit'[b] = audit[b]
    BY <2>1 DEF CallsTyped, NoAudit
  <2> QED
    BY <1>2, <2>1, <2>2
<1>7. CASE Crash
  <2>1. revs' = revs /\ \A a \in Audits : audit'[a].pc = "idle"
    BY <1>7 DEF Crash, NoAudit, db
  <2> QED
    BY <2>1
<1> QED
  BY <1>1, <1>3, <1>4, <1>5, <1>6, <1>7 DEF Next, Step, Faulty

\* Only audits of the window number its revisions, and they wait for each other.
LEMMA NumbersKeptStep ==
  ASSUME RevisionsInv, NumbersKept, Next
  PROVE  NumbersKept'
<1>1. LockInv /\ CallsTyped /\ StoreTyped
  BY DEF RevisionsInv, LockInv
<1> SUFFICES ASSUME NEW b \in Audits, audit'[b].pc = "persist",
                    NEW i \in DOMAIN revs', i.window = audit'[b].req.window
             PROVE  revs'[i].number = audit'[b].snap.revs[i].number
  BY DEF NumbersKept, InWindow, Snap
<1>2. ASSUME NEW e \in Evidence, Purge(e)
      PROVE  revs'[i].number = audit'[b].snap.revs[i].number
  <2>1. audit' = audit
    BY <1>1, <1>2, PurgeStore
  <2>2. i \in DOMAIN revs /\ revs'[i].number = revs[i].number
    BY <1>1, <1>2, PurgeRows
  <2> QED
    BY <2>1, <2>2 DEF NumbersKept, InWindow, Snap
<1>3. ASSUME NEW a \in Audits, Commit(a)
      PROVE  revs'[i].number = audit'[b].snap.revs[i].number
  <2>1. /\ audit[a].pc = "persist" /\ audit'[a].pc = "release"
        /\ \A c \in Audits \ {a} : audit'[c] = audit[c]
    BY <1>1, <1>3 DEF Commit, CallsTyped, Calls
  <2>2. b # a /\ audit'[b] = audit[b]
    BY <2>1
  <2>3. audit[b].req.window # audit[a].req.window
    BY <1>1, <2>1, <2>2, OneAuditPerWindow DEF InTransaction
  <2>4. RevisionId(a).window = audit[a].req.window
    BY DEF RevisionId
  <2>5. i \in DOMAIN revs /\ revs'[i] = revs[i]
    BY <1>3, <2>2, <2>3, <2>4, CommitRows
  <2> QED
    BY <2>2, <2>5 DEF NumbersKept, InWindow, Snap
<1>4. CASE /\ revs' = revs
           /\ \A a \in Audits : audit'[a].pc = "persist" =>
                audit'[a] = audit[a] \/ audit'[a].snap.revs = revs
  <2>1. CASE audit'[b] = audit[b]
    BY <1>4, <2>1 DEF NumbersKept, InWindow, Snap
  <2>2. CASE audit'[b].snap.revs = revs
    BY <1>4, <2>2
  <2> QED
    BY <1>4, <2>1, <2>2
<1> QED
  BY <1>1, <1>2, <1>3, <1>4, OtherSteps

\* A committed revision comes after the latest one that is stored, not only after the
\* latest one its audit has seen.
LEMMA CommitAdds ==
  ASSUME RevisionsInv, NumbersKept, NEW a \in Audits, Commit(a), RevisionId(a) \notin DOMAIN revs
  PROVE  Log!Add(RevisionId(a))
<1> DEFINE id == RevisionId(a)
           w == audit[a].req.window
           rs == Snap(a).revs
<1>1. /\ LockInv /\ CallsTyped /\ StoreTyped /\ audit[a].pc = "persist"
      /\ InWindow(revs, w) \subseteq DOMAIN rs /\ id \notin DOMAIN rs
      /\ Row(a).prior # NoRevision => Row(a).prior \in DOMAIN revs
  BY DEF RevisionsInv, LockInv, Commit, MustConflict
<1>2. rs \in RevTables /\ Numbered(rs) /\ revs \in RevTables
  BY <1>1 DEF CallsTyped, Calls, StoreTyped, Snap
<1>3. id \in RevisionIds /\ id.window = w
  BY <1>1, RowTyped DEF RevisionId
<1>4. /\ DOMAIN revs' = DOMAIN revs \cup {id} /\ revs'[id] = NextRevision(rs, w)
      /\ \A i \in DOMAIN revs : revs'[i] = revs[i]
  BY <1>1, CommitRows DEF Row
<1>5. [i \in RevisionIds |-> i.window][id] = w
  BY <1>3
<1>6. Log!InWindow(w) = InWindow(revs, w)
  BY <1>2 DEF Log!InWindow, InWindow, RevTables
<1>7. InWindow(revs, w) \subseteq InWindow(rs, w)
  BY <1>1 DEF InWindow
<1>8. CASE InWindow(rs, w) = {}
  <2>1. Log!InWindow(w) = {} /\ revs'[id] = [number |-> 1, prior |-> NoRevision]
    BY <1>4, <1>6, <1>7, <1>8 DEF NextRevision
  <2> QED
    BY <1>4, <1>5, <2>1 DEF Log!Add
<1>9. CASE InWindow(rs, w) # {}
  <2> DEFINE top == Latest(rs, w)
  <2>1. top \in InWindow(rs, w) /\ \A j \in InWindow(rs, w) : rs[j].number <= rs[top].number
    BY <1>2, <1>9, LatestIsGreatest
  <2>2. revs'[id] = [number |-> rs[top].number + 1, prior |-> top] /\ Row(a).prior = top
    BY <1>1, <1>4, <1>9 DEF NextRevision, Row
  <2>3. top # NoRevision
    <3>1. top.window \in Windows
      BY <1>2, <2>1 DEF InWindow, RevTables, RevisionIds
    <3>2. NoRevision.window = None
      BY DEF NoRevision
    <3> QED
      BY <3>1, <3>2, AuditRevisionsAssumption
  <2> HIDE DEF top
  <2>4. top \in DOMAIN revs /\ top \in InWindow(revs, w)
    BY <1>1, <2>1, <2>2, <2>3 DEF InWindow
  <2>5. \A j \in InWindow(revs, w) : revs[j].number = rs[j].number
    BY <1>1 DEF NumbersKept
  <2>6. Log!Latest(w, top)
    BY <1>6, <1>7, <2>1, <2>4, <2>5 DEF Log!Latest
  <2>7. revs'[id] = [number |-> revs[top].number + 1, prior |-> top]
    BY <2>2, <2>4, <2>5
  <2> QED
    BY <1>4, <1>5, <2>4, <2>6, <2>7 DEF Log!Add
<1> QED
  BY <1>8, <1>9

\* Audits append to one numbered chain per window, and retention removes from it: every
\* step of the calls is a step of RevisionLog or leaves the table of revisions alone.
THEOREM AuditRevisionsImplementsLog == Spec => ImplementsRevisionLog
<1>1. Init => NumbersKept /\ Log!LogInit
  BY DEF Init, NumbersKept, NoAudit, Empty, Log!LogInit
<1>2. RevisionsInv /\ NumbersKept /\ [Next]_vars => NumbersKept'
  <2>1. NumbersKept /\ UNCHANGED vars => NumbersKept'
    BY DEF NumbersKept, vars, InWindow, Snap
  <2> QED
    BY <2>1, NumbersKeptStep
<1>3. RevisionsInv /\ NumbersKept /\ [Next]_vars => [Log!LogNext]_revs
  <2> SUFFICES ASSUME RevisionsInv, NumbersKept, Next
               PROVE  Log!LogNext \/ revs' = revs
    BY DEF vars
  <2>1. CallsTyped /\ StoreTyped
    BY DEF RevisionsInv, LockInv
  <2>2. ASSUME NEW e \in Evidence, Purge(e)
        PROVE  Log!LogNext
    <3>1. Log!Remove
      BY <2>1, <2>2, PurgeRows DEF Log!Remove
    <3> QED
      BY <3>1 DEF Log!LogNext
  <2>3. ASSUME NEW a \in Audits, Commit(a)
        PROVE  Log!LogNext \/ revs' = revs
    <3>1. CASE RevisionId(a) \in DOMAIN revs
      <4>1. revs' = [i \in DOMAIN revs |-> revs[i]]
        BY <2>3, <3>1 DEF Commit, persistAuditProject
      <4> QED
        BY <2>1, <4>1 DEF StoreTyped, RevTables
    <3>2. CASE RevisionId(a) \notin DOMAIN revs
      <4>1. RevisionId(a) \in RevisionIds
        BY <2>1, <2>3, RowTyped DEF Commit
      <4> QED
        BY <2>3, <3>2, <4>1, CommitAdds DEF Log!LogNext
    <3> QED
      BY <3>1, <3>2
  <2> QED
    BY <2>1, <2>2, <2>3, OtherSteps
<1> QED
  BY <1>1, <1>2, <1>3, AuditRevisionsInvariant, PTL DEF Spec, ImplementsRevisionLog, Log!LogSpec
=============================================================================
