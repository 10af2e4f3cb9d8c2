--------------------------- MODULE RetentionProofs ---------------------------
(***************************************************************************)
(* Proofs about Retention for any evidence, policies, sessions, revisions  *)
(* and processes.  One lemma says which rows a step of retention deletes   *)
(* and what it knows of them; everything else rests on it.                 *)
(***************************************************************************)
EXTENDS Retention, FiniteSetTheorems, TLAPS

-----------------------------------------------------------------------------
(* What a step does *)

\* The steps of the other users of the database.
LEMMA OthersFrame ==
  ASSUME Others
  PROVE  /\ run' = run /\ archives' = archives /\ gone' = gone /\ actions' = actions /\ faults' = faults
         /\ DOMAIN rows \subseteq DOMAIN rows' /\ DOMAIN revisions \subseteq DOMAIN revisions'
<1>1. ASSUME NEW e \in Evidence, NEW at \in Times, CollectRecord(e, at)
      PROVE  DOMAIN rows \subseteq DOMAIN rows'
  BY <1>1 DEF CollectRecord, PutRow
<1>2. ASSUME NEW e \in Evidence, NEW at \in Times, NEW until \in Times, PutEvidence(e, at, until)
      PROVE  DOMAIN rows \subseteq DOMAIN rows'
  BY <1>2 DEF PutEvidence, PutRow
<1>3. ASSUME NEW r \in Revisions, NEW end \in 1 .. NoTime, AuditProject(r, end)
      PROVE  DOMAIN revisions \subseteq DOMAIN revisions'
  BY <1>3 DEF AuditProject
<1> QED
  BY <1>1, <1>2, <1>3
     DEF Others, CollectRecord, PutEvidence, PutRetentionPolicy, AuditProject, PutProjectAlias

\* ApplyRetention reaches its statements of deletion.
Applies(p) ==
  /\ run[p].pc = "locked" /\ Recorded(p) = {}
  /\ ~RowConflict(p) /\ validateArchivedPlan(p) /\ ~ReadConflict(p)
  /\ DeleteBatch(Ids(Planned(p)), Snap(p))
  /\ actions' = actions \cup {[key |-> Key(p), count |-> Cardinality(Planned(p))]}
  /\ run' = [run EXCEPT ![p].pc = "done", ![p].count = Cardinality(Planned(p)), ![p].snap = NoSnapshot]
  /\ UNCHANGED <<policy, archives, writes, faults>>

\* Only ApplyRetention of a process deletes, and the other steps of the command leave
\* the database alone.
LEMMA StepCases ==
  ASSUME [Next]_vars
  PROVE  \/ Others
         \/ \E p \in Admins : Applies(p)
         \/ UNCHANGED dbVars
<1>1. ASSUME NEW p \in Admins, Step(p), ~(Applies(p))
      PROVE  UNCHANGED dbVars
  <2>1. CASE ApplyRetention(p)
    BY <1>1, <2>1 DEF ApplyRetention, Applies
  <2> QED
    BY <1>1, <2>1 DEF Step, Archive, BeginApply, LockAction, Report
<1>2. ASSUME NEW p \in Admins, (\E c \in Policies, asOf \in Times : PlanRetention(p, c, asOf)) \/ Crash(p)
      PROVE  UNCHANGED dbVars
  BY <1>2 DEF PlanRetention, Crash
<1>3. CASE UNCHANGED vars
  BY <1>3 DEF vars
<1> QED
  BY <1>1, <1>2, <1>3 DEF Next

\* No session with evidence that stays has expired: the batch is all that is deleted.
LEMMA DeletedRows ==
  ASSUME NEW ids, NEW snap, DeleteBatch(ids, snap)
  PROVE  rows' = [e \in DOMAIN rows \ ids |-> rows[e]] /\ DOMAIN rows' = DOMAIN rows \ ids
<1>1. {e \in DOMAIN rows \ ids : SessionOf[e] \notin ExpiredSessions(ids)} = DOMAIN rows \ ids
  BY DEF ExpiredSessions
<1> QED
  BY <1>1 DEF DeleteBatch, Restrict

\* A row of the batch that is there when it is deleted is the row that was planned, and
\* the snapshot of the transaction says it is eligible.
LEMMA DeletedAsPlanned ==
  ASSUME NEW p, ~RowConflict(p), validateArchivedPlan(p),
         NEW e \in Ids(Planned(p)), e \in DOMAIN rows
  PROVE  /\ [id |-> e, at |-> rows[e].at, until |-> rows[e].until] \in Planned(p)
         /\ Eligible([id |-> e, at |-> rows[e].at, until |-> rows[e].until], Snap(p).policy,
                     Key(p).policy, Key(p).asOf)
<1>1. PICK r \in Planned(p) : r.id = e
  BY DEF Ids
<1>2. r \in RowsOf(Snap(p).rows) /\ Eligible(r, Snap(p).policy, Key(p).policy, Key(p).asOf)
  BY <1>1 DEF validateArchivedPlan, Matches
<1>3. PICK x \in DOMAIN Snap(p).rows : r = [id |-> x, at |-> Snap(p).rows[x].at, until |-> Snap(p).rows[x].until]
  BY <1>2 DEF RowsOf
<1>4. x = e /\ e \in DOMAIN Snap(p).rows
  BY <1>1, <1>3
<1>5. rows[e] = Snap(p).rows[e]
  BY <1>1, <1>4 DEF RowConflict, validateArchivedPlan
<1>6. r = [id |-> e, at |-> rows[e].at, until |-> rows[e].until]
  BY <1>3, <1>4, <1>5
<1> QED
  BY <1>1, <1>2, <1>6

-----------------------------------------------------------------------------
(* Types and archives *)

\* A table has some of the keys, and a function on some of the keys is a table.
LEMMA PartialElim ==
  ASSUME NEW S, NEW T, NEW f \in Partial(S, T)
  PROVE  DOMAIN f \subseteq S /\ f \in [DOMAIN f -> T]
<1>1. PICK D \in SUBSET S : f \in [D -> T]
  BY DEF Partial
<1> QED
  BY <1>1

\* A function on some of the keys is a partial function.
LEMMA PartialIntro ==
  ASSUME NEW S, NEW T, NEW D, D \subseteq S, NEW f \in [D -> T]
  PROVE  f \in Partial(S, T)
<1>1. D \in SUBSET S
  OBVIOUS
<1> QED
  BY <1>1 DEF Partial

\* A table without rows is one.
LEMMA EmptyTable ==
  ASSUME NEW S, NEW T
  PROVE  Empty \in Partial(S, T)
<1>1. Empty \in [{} -> T] /\ {} \subseteq S
  BY DEF Empty
<1> QED
  BY <1>1, PartialIntro

\* A run that has not started is a run.
LEMMA IdleRunType == IdleRun \in Runs /\ IdleRun.pc = "idle"
<1>1. NoSnapshot \in Snapshots
  BY EmptyTable DEF NoSnapshot, Snapshots
<1>2. 0 \in 0 .. MaxAttempts
  BY RetentionAssumption
<1> QED
  BY <1>1, <1>2 DEF IdleRun, Runs, Labels

\* The initial state is well-typed and has no plan.
LEMMA InitTypes == Init => TypeOK /\ PlansArchived
<1> SUFFICES ASSUME Init PROVE TypeOK /\ PlansArchived
  OBVIOUS
<1>1. rows \in Partial(Evidence, Dates) /\ revisions \in Partial(Revisions, SUBSET Evidence)
  BY EmptyTable DEF Init
<1>2. policy \in [Policies -> Terms]
  BY RetentionAssumption DEF Init, Terms
<1>3. run \in [Admins -> Runs] /\ \A p \in Admins : run[p].pc = "idle"
  BY IdleRunType DEF Init
<1> QED
  BY <1>1, <1>2, <1>3 DEF Init, TypeOK, PlansArchived

\* What a transaction reads is a snapshot, and so is having read nothing.
LEMMA SnapshotType ==
  ASSUME TypeOK
  PROVE  Snapshot \in Snapshots /\ NoSnapshot \in Snapshots
<1>1. policy \in Partial(Policies, Terms)
  <2>1. Policies \subseteq Policies /\ policy \in [Policies -> Terms]
    BY DEF TypeOK
  <2> QED
    BY <2>1, PartialIntro
<1>2. NoSnapshot \in Snapshots
  BY EmptyTable DEF NoSnapshot, Snapshots
<1> QED
  BY <1>1, <1>2 DEF Snapshot, Snapshots, TypeOK

\* The rows of a plan are rows of the table, and finitely many.
LEMMA PlanType ==
  ASSUME TypeOK, NEW c \in Policies, NEW asOf \in Times,
         NEW s \in OldestFirst({r \in RowsOf(rows) : Eligible(r, policy, c, asOf)})
  PROVE  [policy |-> c, asOf |-> asOf, records |-> s] \in PlanSet
<1>1. DOMAIN rows \subseteq Evidence /\ rows \in [DOMAIN rows -> Dates]
  BY PartialElim DEF TypeOK
<1>2. RowsOf(rows) \subseteq RowSet
  BY <1>1 DEF RowsOf, RowSet, Dates
<1>3. IsFiniteSet(RowsOf(rows))
  <2>1. IsFiniteSet(DOMAIN rows)
    BY <1>1, FS_Subset, RetentionAssumption
  <2> DEFINE f == [e \in DOMAIN rows |-> [id |-> e, at |-> rows[e].at, until |-> rows[e].until]]
  <2>2. RowsOf(rows) = {f[e] : e \in DOMAIN rows}
    BY DEF RowsOf
  <2>3. f \in Surjection(DOMAIN rows, {f[e] : e \in DOMAIN rows})
    BY DEF Surjection
  <2> QED
    BY <2>1, <2>2, <2>3, FS_Surjection
<1>4. s \subseteq RowsOf(rows)
  BY DEF OldestFirst
<1>5. IsFiniteSet(s)
  BY <1>3, <1>4, FS_Subset
<1> QED
  BY <1>2, <1>4, <1>5 DEF PlanSet

\* A step of the command keeps the type of the local state, and the plan from the
\* archive on.
LEMMA RunStep ==
  ASSUME TypeOK, PlansArchived, [Next]_vars
  PROVE  run' \in [Admins -> Runs] /\ archives' \subseteq PlanSet /\ PlansArchived' /\ archives \subseteq archives'
<1> DEFINE Goal == run' \in [Admins -> Runs] /\ archives' \subseteq PlanSet /\ PlansArchived' /\ archives \subseteq archives'
<1>0. /\ run \in [Admins -> Runs] /\ archives \subseteq PlanSet
      /\ Snapshot \in Snapshots /\ NoSnapshot \in Snapshots /\ IdleRun \in Runs /\ IdleRun.pc = "idle"
  BY SnapshotType, IdleRunType DEF TypeOK
<1>1. ASSUME NEW p \in Admins, NEW r \in Runs, run' = [run EXCEPT ![p] = r], archives' = archives,
             r.pc = "planned" => r.plan \in PlanSet,
             r.pc \in {"archived", "waiting", "locked", "done"} => r.plan \in archives
      PROVE  Goal
  BY <1>0, <1>1 DEF PlansArchived
<1>2. ASSUME UNCHANGED <<run, archives>>
      PROVE  Goal
  BY <1>0, <1>2 DEF PlansArchived
<1>3. ASSUME NEW p \in Admins, run' = [run EXCEPT ![p] = IdleRun], archives' = archives
      PROVE  Goal
  <2> HIDE DEF Goal
  <2> QED
    BY <1>0, <1>1, <1>3
<1>4. ASSUME NEW p \in Admins, NEW c \in Policies, NEW asOf \in Times, PlanRetention(p, c, asOf)
      PROVE  Goal
  <2>1. PICK s \in OldestFirst({r \in RowsOf(rows) : Eligible(r, policy, c, asOf)}) :
          run' = IF s = {} THEN run
                 ELSE [run EXCEPT ![p].pc = "planned",
                                  ![p].plan = [policy |-> c, asOf |-> asOf, records |-> s]]
    BY <1>4 DEF PlanRetention
  <2>2. archives' = archives
    BY <1>4 DEF PlanRetention
  <2> DEFINE plan == [policy |-> c, asOf |-> asOf, records |-> s]
             r == [run[p] EXCEPT !.pc = "planned", !.plan = plan]
  <2>3. plan \in PlanSet
    BY PlanType
  <2>4. CASE s = {}
    BY <1>2, <2>1, <2>2, <2>4
  <2>5. CASE s # {}
    <3>1. run' = [run EXCEPT ![p] = r]
      BY <2>1, <2>5
    <3> HIDE DEF plan
    <3>2. r \in Runs /\ r.pc = "planned" /\ r.plan = plan
      BY <1>0, <2>3 DEF Runs, Labels
    <3> HIDE DEF r, Goal
    <3> QED
      BY <1>1, <2>2, <2>3, <3>1, <3>2
  <2> QED
    BY <2>4, <2>5
<1>5. ASSUME NEW p \in Admins, Archive(p)
      PROVE  Goal
  <2> DEFINE r == [run[p] EXCEPT !.pc = "archived", !.attempt = 1]
  <2>1. run' = [run EXCEPT ![p] = r] /\ archives' = archives \cup {run[p].plan} /\ run[p].plan \in PlanSet
    BY <1>5 DEF Archive, PlansArchived
  <2>2. 1 \in 0 .. MaxAttempts
    BY RetentionAssumption
  <2>3. r \in Runs /\ r.pc = "archived" /\ r.plan = run[p].plan
    BY <1>0, <2>2 DEF Runs, Labels
  <2> HIDE DEF r
  <2> QED
    BY <1>0, <2>1, <2>3 DEF PlansArchived
<1>6. ASSUME NEW p \in Admins, BeginApply(p)
      PROVE  Goal
  <2> DEFINE r == [run[p] EXCEPT !.pc = "waiting", !.snap = Snapshot]
  <2>1. run' = [run EXCEPT ![p] = r] /\ archives' = archives /\ run[p].plan \in archives
    BY <1>6 DEF BeginApply, PlansArchived
  <2>2. r \in Runs /\ r.pc = "waiting" /\ r.plan = run[p].plan
    BY <1>0 DEF Runs, Labels
  <2> HIDE DEF r, Goal
  <2> QED
    BY <1>1, <2>1, <2>2
<1>7. ASSUME NEW p \in Admins, LockAction(p)
      PROVE  Goal
  <2> DEFINE r == [run[p] EXCEPT !.pc = "locked"]
  <2>1. run' = [run EXCEPT ![p] = r] /\ archives' = archives /\ run[p].plan \in archives
    BY <1>7 DEF LockAction, PlansArchived
  <2>2. r \in Runs /\ r.pc = "locked" /\ r.plan = run[p].plan
    BY <1>0 DEF Runs, Labels
  <2> HIDE DEF r, Goal
  <2> QED
    BY <1>1, <2>1, <2>2
<1>8. ASSUME NEW p \in Admins, ApplyRetention(p)
      PROVE  Goal
  <2>1. run[p].pc = "locked" /\ archives' = archives /\ run[p].plan \in archives /\ run[p].plan \in PlanSet
    BY <1>0, <1>8 DEF ApplyRetention, PlansArchived
  <2>2. ASSUME NEW n \in Nat,
               run' = [run EXCEPT ![p].pc = "done", ![p].count = n, ![p].snap = NoSnapshot]
        PROVE  Goal
    <3> DEFINE r == [run[p] EXCEPT !.pc = "done", !.count = n, !.snap = NoSnapshot]
    <3>1. run' = [run EXCEPT ![p] = r]
      BY <2>2
    <3>2. r \in Runs /\ r.pc = "done" /\ r.plan = run[p].plan
      BY <1>0 DEF Runs, Labels
    <3> HIDE DEF r, Goal
    <3> QED
      BY <1>1, <2>1, <3>1, <3>2
  <2>3. CASE AfterConflict(p)
    <3> DEFINE r == [run[p] EXCEPT !.pc = "archived", !.attempt = @ + 1, !.snap = NoSnapshot]
    <3>1. CASE run[p].attempt < MaxAttempts
      <4>1. run' = [run EXCEPT ![p] = r]
        BY <2>3, <3>1 DEF AfterConflict
      <4>2. run[p].attempt + 1 \in 0 .. MaxAttempts
        BY <1>0, <3>1, RetentionAssumption DEF Runs
      <4>3. r \in Runs /\ r.pc = "archived" /\ r.plan = run[p].plan
        BY <1>0, <4>2 DEF Runs, Labels
      <4> HIDE DEF r, Goal
      <4> QED
        BY <1>1, <2>1, <4>1, <4>3
    <3>2. CASE ~(run[p].attempt < MaxAttempts)
      BY <1>3, <2>1, <2>3, <3>2 DEF AfterConflict
    <3> QED
      BY <3>1, <3>2
  <2>4. ASSUME NEW a \in Recorded(p) PROVE a.count \in Nat
    BY <1>0 DEF Recorded, Snap, Runs, Snapshots, ActionSet
  <2>5. Cardinality(Planned(p)) \in Nat
    <3>1. IsFiniteSet(Planned(p))
      BY <2>1 DEF Planned, PlanSet
    <3> QED
      BY <3>1, FS_CardinalityType
  <2> HIDE DEF Goal
  <2> QED
    BY <1>3, <1>8, <2>1, <2>2, <2>3, <2>4, <2>5 DEF ApplyRetention
<1>9. ASSUME NEW p \in Admins, Report(p) \/ Crash(p)
      PROVE  Goal
  BY <1>3, <1>9 DEF Report, Crash
<1>10. ASSUME Others PROVE Goal
  BY <1>2, <1>10, OthersFrame
<1>11. ASSUME UNCHANGED vars PROVE Goal
  BY <1>2, <1>11 DEF vars
<1> HIDE DEF Goal
<1>12. Goal
  BY <1>4, <1>5, <1>6, <1>7, <1>8, <1>9, <1>10, <1>11 DEF Next, Step
<1> QED
  BY <1>12 DEF Goal

\* A row put into the table.
LEMMA PutRowType ==
  ASSUME TypeOK, NEW e \in Evidence, NEW at \in Times, NEW until \in Times \cup {NoTime}, PutRow(e, at, until)
  PROVE  rows' \in Partial(Evidence, Dates) /\ DOMAIN rows' = DOMAIN rows \cup {e}
<1>1. DOMAIN rows \subseteq Evidence /\ rows \in [DOMAIN rows -> Dates]
  BY PartialElim DEF TypeOK
<1>2. [at |-> at, until |-> until] \in Dates
  BY DEF Dates
<1>3. rows' \in [DOMAIN rows \cup {e} -> Dates]
  BY <1>1, <1>2 DEF PutRow
<1>4. DOMAIN rows \cup {e} \subseteq Evidence
  BY <1>1
<1> QED
  BY <1>3, <1>4, PartialIntro

\* Every step keeps the types, and processes work from archived plans.
LEMMA NextTypes == TypeOK /\ PlansArchived /\ [Next]_vars => TypeOK' /\ PlansArchived'
<1> SUFFICES ASSUME TypeOK, PlansArchived, [Next]_vars
             PROVE  TypeOK' /\ PlansArchived'
  OBVIOUS
<1> DEFINE Db == /\ rows' \in Partial(Evidence, Dates)
                 /\ policy' \in [Policies -> Terms]
                 /\ revisions' \in Partial(Revisions, SUBSET Evidence)
                 /\ turns' \subseteq TurnSet /\ aliases' \in BOOLEAN
                 /\ actions' \subseteq ActionSet /\ gone' \subseteq RowSet
<1>a. faults' \in Nat
  <2>1. faults' = faults \/ faults' = faults + 1
    BY OthersFrame DEF Next, PlanRetention, Step, Archive, BeginApply, LockAction, ApplyRetention, Report, Crash, vars
  <2> QED
    BY <2>1 DEF TypeOK
<1>0. /\ DOMAIN rows \subseteq Evidence /\ rows \in [DOMAIN rows -> Dates]
      /\ DOMAIN revisions \subseteq Revisions /\ revisions \in [DOMAIN revisions -> SUBSET Evidence]
  BY PartialElim DEF TypeOK
<1>1. ASSUME UNCHANGED dbVars PROVE Db
  BY <1>1 DEF dbVars, TypeOK
<1>2. ASSUME NEW p \in Admins, Applies(p)
      PROVE  Db
  <2> DEFINE ids == Ids(Planned(p))
  <2>1. rows' \in [DOMAIN rows \ ids -> Dates] /\ DOMAIN rows \ ids \subseteq Evidence
    BY <1>0, <1>2, DeletedRows DEF Applies
  <2>2. rows' \in Partial(Evidence, Dates)
    BY <2>1, PartialIntro
  <2>3. /\ revisions' \in [DOMAIN revisions \ ExpiredRevisions(ids) -> SUBSET Evidence]
        /\ DOMAIN revisions \ ExpiredRevisions(ids) \subseteq Revisions
    BY <1>0, <1>2 DEF Applies, DeleteBatch
  <2>4. revisions' \in Partial(Revisions, SUBSET Evidence)
    BY <2>3, PartialIntro
  <2>5. RowsOf(rows) \subseteq RowSet
    BY <1>0 DEF RowsOf, RowSet, Dates
  <2>6. gone' \subseteq RowSet /\ policy' = policy /\ turns' \subseteq TurnSet /\ aliases' \in BOOLEAN
    BY <1>2, <2>5 DEF Applies, DeleteBatch, TypeOK
  <2>7. actions' \subseteq ActionSet
    <3>1. run[p].plan \in PlanSet
      BY <1>2 DEF Applies, TypeOK, PlansArchived
    <3>2. Cardinality(Planned(p)) \in Nat
      BY <3>1, FS_CardinalityType DEF Planned, PlanSet
    <3> QED
      BY <1>2, <3>1, <3>2 DEF Applies, TypeOK, Key, ActionSet
  <2> QED
    BY <2>2, <2>4, <2>6, <2>7 DEF TypeOK
<1>3. ASSUME NEW e \in Evidence, NEW at \in Times, CollectRecord(e, at)
      PROVE  Db
  <2>1. PutRow(e, at, NoTime) /\ UNCHANGED <<policy, revisions, aliases, actions, gone>>
    BY <1>3 DEF CollectRecord
  <2>2. rows' \in Partial(Evidence, Dates)
    BY <2>1, PutRowType
  <2>3. turns' \subseteq TurnSet
    BY <1>3 DEF CollectRecord, TurnSet, TypeOK
  <2> QED
    BY <2>1, <2>2, <2>3 DEF TypeOK
<1>4. ASSUME NEW e \in Evidence, NEW at \in Times, NEW until \in Times, PutEvidence(e, at, until)
      PROVE  Db
  <2>1. PutRow(e, at, until) /\ UNCHANGED <<policy, revisions, turns, aliases, actions, gone>>
    BY <1>4 DEF PutEvidence
  <2>2. rows' \in Partial(Evidence, Dates)
    BY <2>1, PutRowType
  <2> QED
    BY <2>1, <2>2 DEF TypeOK
<1>5. ASSUME NEW c \in Policies, NEW hold \in BOOLEAN, NEW keep \in Times, PutRetentionPolicy(c, hold, keep)
      PROVE  Db
  <2>1. [hold |-> hold, keep |-> keep] \in Terms
    BY DEF Terms
  <2> QED
    BY <1>5, <2>1 DEF PutRetentionPolicy, TypeOK
<1>6. ASSUME NEW r \in Revisions, NEW end \in 1 .. NoTime, AuditProject(r, end)
      PROVE  Db
  <2>1. revisions' \in [DOMAIN revisions \cup {r} -> SUBSET Evidence] /\ DOMAIN revisions \cup {r} \subseteq Revisions
    BY <1>0, <1>6 DEF AuditProject
  <2>2. revisions' \in Partial(Revisions, SUBSET Evidence)
    BY <2>1, PartialIntro
  <2> QED
    BY <1>6, <2>2 DEF AuditProject, TypeOK
<1>7. ASSUME PutProjectAlias PROVE Db
  BY <1>7 DEF PutProjectAlias, TypeOK
<1>8. Db
  <2> HIDE DEF Db
  <2> QED
    BY <1>1, <1>2, <1>3, <1>4, <1>5, <1>6, <1>7, StepCases DEF Others
<1> QED
  BY <1>8, <1>a, RunStep DEF TypeOK

-----------------------------------------------------------------------------
(* Archives, holds and retries *)

\* The inductive invariant of the archive gate: types, archived plans, and no row gone
\* that an archive does not hold.
ArchiveInv == TypeOK /\ PlansArchived /\ DeletedWasArchived

\* A step keeps it that plans are of archived records and that what is deleted was archived.
LEMMA ArchiveStep == ArchiveInv /\ [Next]_vars => ArchiveInv'
<1> SUFFICES ASSUME ArchiveInv, [Next]_vars
             PROVE  ArchiveInv'
  OBVIOUS
<1>1. TypeOK' /\ PlansArchived' /\ archives \subseteq archives'
  BY NextTypes, RunStep DEF ArchiveInv
<1>2. ASSUME NEW p \in Admins, Applies(p)
      PROVE  \A r \in gone' \ gone : r \in run[p].plan.records
  <2> SUFFICES ASSUME NEW r \in gone' \ gone
               PROVE  r \in Planned(p)
    BY DEF Planned
  <2>1. r \in RowsOf(rows) /\ r.id \in Ids(Planned(p))
    BY <1>2 DEF Applies, DeleteBatch
  <2>2. PICK e \in DOMAIN rows : r = [id |-> e, at |-> rows[e].at, until |-> rows[e].until]
    BY <2>1 DEF RowsOf
  <2>3. e \in Ids(Planned(p))
    BY <2>1, <2>2
  <2> QED
    BY <1>2, <2>2, <2>3, DeletedAsPlanned DEF Applies
<1>3. ASSUME NEW p \in Admins, Applies(p)
      PROVE  run[p].plan \in archives
  BY <1>3 DEF Applies, ArchiveInv, PlansArchived
<1>4. Others => gone' = gone
  BY OthersFrame
<1>5. DeletedWasArchived'
  BY <1>1, <1>2, <1>3, <1>4, StepCases DEF ArchiveInv, DeletedWasArchived, dbVars
<1> QED
  BY <1>1, <1>5 DEF ArchiveInv

\* The inductive invariant of archives and deletions.
LEMMA ArchiveInvariant == Spec => []ArchiveInv
<1>1. Init => ArchiveInv
  BY InitTypes DEF ArchiveInv, DeletedWasArchived, Init
<1> QED
  BY <1>1, ArchiveStep, PTL DEF Spec

\* Tables, plans, snapshots and archives of retention are well formed in every state, and
\* from the archive on a process works from a plan that is in a verified archive.
THEOREM RetentionTypeOK == Spec => [](TypeOK /\ PlansArchived)
<1>1. ArchiveInv => TypeOK /\ PlansArchived
  BY DEF ArchiveInv
<1> QED
  BY <1>1, ArchiveInvariant, PTL

\* ApplyRetention: whatever was collected, re-dated or purged since the plan, by however
\* many processes, every row deleted is in a verified archive in the form it had.
THEOREM RetentionDeletedWasArchived == Spec => []DeletedWasArchived
<1>1. ArchiveInv => DeletedWasArchived
  BY DEF ArchiveInv
<1> QED
  BY <1>1, ArchiveInvariant, PTL

\* validateArchivedPlan: a row goes only by a transaction whose snapshot shows its policy
\* without hold and the row, in the form it has, expired at the date of the plan.
THEOREM RetentionHoldBeforeApplyWins == Spec => HoldBeforeApplyWins
<1> DEFINE A == \A e \in DOMAIN rows \ DOMAIN rows' :
        \E p \in Admins :
          /\ run[p].pc = "locked" /\ run'[p].pc = "done"
          /\ e \in Ids(Planned(p)) /\ ~StartedUnderHold(p)
          /\ Expiry(rows[e], run[p].snap.policy[PolicyOf[e]].keep) <= run[p].plan.asOf
<1>1. ArchiveInv /\ [Next]_vars => [A]_rows
  <2> SUFFICES ASSUME ArchiveInv, [Next]_vars, NEW e \in DOMAIN rows \ DOMAIN rows'
               PROVE  \E p \in Admins :
                        /\ run[p].pc = "locked" /\ run'[p].pc = "done"
                        /\ e \in Ids(Planned(p)) /\ ~StartedUnderHold(p)
                        /\ Expiry(rows[e], run[p].snap.policy[PolicyOf[e]].keep) <= run[p].plan.asOf
    OBVIOUS
  <2>1. PICK p \in Admins : Applies(p)
    <3>1. Others => DOMAIN rows \subseteq DOMAIN rows'
      BY OthersFrame
    <3> QED
      BY <3>1, StepCases DEF dbVars
  <2>2. e \in Ids(Planned(p))
    <3>1. rows' = [x \in DOMAIN rows \ Ids(Planned(p)) |-> rows[x]]
      BY <2>1, DeletedRows DEF Applies
    <3> QED
      BY <3>1
  <2>3. Eligible([id |-> e, at |-> rows[e].at, until |-> rows[e].until], Snap(p).policy,
                 Key(p).policy, Key(p).asOf)
    BY <2>1, <2>2, DeletedAsPlanned DEF Applies
  <2>4. ~StartedUnderHold(p)
    BY <2>3 DEF Eligible, StartedUnderHold, Snap, Key
  <2>5. Expiry(rows[e], run[p].snap.policy[PolicyOf[e]].keep) <= run[p].plan.asOf
    BY <2>3 DEF Eligible, Expiry, Snap, Key
  <2>6. run[p].pc = "locked" /\ run'[p].pc = "done"
    BY <2>1 DEF Applies, ArchiveInv, TypeOK, Runs
  <2> QED
    BY <2>2, <2>4, <2>5, <2>6
<1> QED
  BY <1>1, ArchiveInvariant, PTL DEF Spec, HoldBeforeApplyWins

\* ApplyRetention: an apply that answers for a plan somebody has completed deletes
\* nothing, whether it waited for the lock or came later; only the first one deletes.
THEOREM RetentionAppliedOnce == Spec => AppliedOnce
<1> DEFINE A == \A p \in Admins :
        (\E a \in actions : a.key = Key(p)) /\ run[p].pc = "locked" /\ run'[p].pc = "done"
          => DOMAIN rows \subseteq DOMAIN rows'
<1>1. ArchiveInv /\ [Next]_vars => [A]_<<rows, run>>
  <2> SUFFICES ASSUME ArchiveInv, [Next]_vars, NEW p \in Admins, NEW a \in actions, a.key = Key(p),
                      run[p].pc = "locked", run'[p].pc = "done"
               PROVE  DOMAIN rows \subseteq DOMAIN rows'
    OBVIOUS
  <2>1. CASE Others
    BY <2>1, OthersFrame
  <2>2. ASSUME NEW q \in Admins, Applies(q)
        PROVE  FALSE
    <3>1. q = p
      BY <2>2 DEF Applies, ArchiveInv, TypeOK
    <3>2. {b \in actions : b.key = Key(p)} = {b \in Snap(p).actions : b.key = Key(p)}
      BY <2>2, <3>1 DEF Applies, ReadConflict
    <3>3. a \in Recorded(p)
      BY <3>2 DEF Recorded
    <3> QED
      BY <2>2, <3>1, <3>3 DEF Applies
  <2>3. CASE UNCHANGED dbVars
    BY <2>3 DEF dbVars
  <2> QED
    BY <2>1, <2>2, <2>3, StepCases
<1> QED
  BY <1>1, ArchiveInvariant, PTL DEF Spec, AppliedOnce

-----------------------------------------------------------------------------
(* Units of deletion: revisions and lineage *)

\* DeleteBatch takes evidence from the revisions that keep some, and the revisions that
\* would keep none.
LEMMA RevisionsStep == TypeOK /\ RevisionsHaveEvidence /\ [Next]_vars => RevisionsHaveEvidence'
<1> SUFFICES ASSUME TypeOK, RevisionsHaveEvidence, [Next]_vars
             PROVE  RevisionsHaveEvidence'
  OBVIOUS
<1>1. ASSUME UNCHANGED <<revisions>>, DOMAIN rows \subseteq DOMAIN rows'
      PROVE  RevisionsHaveEvidence'
  BY <1>1 DEF RevisionsHaveEvidence
<1>2. ASSUME NEW p \in Admins, Applies(p)
      PROVE  RevisionsHaveEvidence'
  <2> DEFINE ids == Ids(Planned(p))
  <2>1. DOMAIN rows' = DOMAIN rows \ ids
    BY <1>2, DeletedRows DEF Applies
  <2>2. revisions' = [r \in DOMAIN revisions \ ExpiredRevisions(ids) |-> revisions[r] \ ids]
    BY <1>2 DEF Applies, DeleteBatch
  <2> HIDE DEF ids
  <2> SUFFICES ASSUME NEW r \in DOMAIN revisions'
               PROVE  revisions'[r] # {} /\ revisions'[r] \subseteq DOMAIN rows'
    BY DEF RevisionsHaveEvidence
  <2>3. /\ r \in DOMAIN revisions /\ r \notin ExpiredRevisions(ids) /\ revisions'[r] = revisions[r] \ ids
        /\ revisions[r] # {} /\ revisions[r] \subseteq DOMAIN rows
    BY <2>2 DEF RevisionsHaveEvidence
  <2>4. revisions[r] \cap ids = {} \/ ~(revisions[r] \subseteq ids)
    BY <2>3 DEF ExpiredRevisions
  <2> QED
    BY <2>1, <2>3, <2>4
<1>3. CASE Others
  <2>1. ASSUME NEW r \in Revisions, NEW end \in 1 .. NoTime, AuditProject(r, end)
        PROVE  RevisionsHaveEvidence'
    <3> DEFINE seen == {e \in DOMAIN rows : rows[e].at < end}
    <3>1. /\ revisions' = [x \in DOMAIN revisions \cup {r} |-> IF x = r THEN seen ELSE revisions[x]]
          /\ seen # {} /\ seen \subseteq DOMAIN rows /\ rows' = rows
      BY <2>1 DEF AuditProject
    <3> HIDE DEF seen
    <3> QED
      BY <3>1 DEF RevisionsHaveEvidence
  <2>2. DOMAIN rows \subseteq DOMAIN rows'
    BY <1>3, OthersFrame
  <2> QED
    BY <1>1, <1>3, <2>1, <2>2 DEF Others, CollectRecord, PutEvidence, PutRetentionPolicy, PutProjectAlias
<1>4. CASE UNCHANGED dbVars
  BY <1>1, <1>4 DEF dbVars
<1> QED
  BY <1>2, <1>3, <1>4, StepCases

\* However many batches its evidence is deleted in, a revision that is stored refers to
\* evidence that is stored.
THEOREM RetentionRevisionsHaveEvidence == Spec => []RevisionsHaveEvidence
<1>1. Init => RevisionsHaveEvidence
  BY DEF Init, RevisionsHaveEvidence, Empty
<1>2. ArchiveInv => TypeOK
  BY DEF ArchiveInv
<1> QED
  BY <1>1, <1>2, ArchiveInvariant, RevisionsStep, PTL DEF Spec

\* A revision is deleted only with the last of the evidence it refers to.
THEOREM RetentionRevisionsOutliveEvidence == Spec => RevisionsOutliveEvidence
<1>1. [Next]_vars => [\A r \in DOMAIN revisions \ DOMAIN revisions' : revisions[r] \cap DOMAIN rows' = {}]_revisions
  <2> SUFFICES ASSUME [Next]_vars, NEW r \in DOMAIN revisions \ DOMAIN revisions'
               PROVE  revisions[r] \cap DOMAIN rows' = {}
    OBVIOUS
  <2>1. PICK p \in Admins : Applies(p)
    <3>1. Others => DOMAIN revisions \subseteq DOMAIN revisions'
      BY OthersFrame
    <3> QED
      BY <3>1, StepCases DEF dbVars
  <2>2. DOMAIN rows' = DOMAIN rows \ Ids(Planned(p))
    BY <2>1, DeletedRows DEF Applies
  <2>3. r \in ExpiredRevisions(Ids(Planned(p)))
    BY <2>1 DEF Applies, DeleteBatch
  <2> QED
    BY <2>2, <2>3 DEF ExpiredRevisions
<1> QED
  BY <1>1, PTL DEF Spec, RevisionsOutliveEvidence

\* The deletion of a batch keeps sessions, turns and tasks in step with the evidence.
LEMMA LineageAfterBatch ==
  ASSUME LineageMatchesEvidence, NEW ids, NEW snap, DeleteBatch(ids, snap)
  PROVE  LineageMatchesEvidence'
<1> DEFINE expired == ExpiredSessions(ids)
           left    == {t \in turns : t[1] \notin expired}
           touched == {t[2] : t \in {u \in turns : \E e \in ids : SessionOf[e] = u[1]}}
<1>1. DOMAIN rows' = DOMAIN rows \ ids
  BY DeletedRows
<1>2. sessions' = sessions \ expired /\ turns' = left /\ tasks' = tasks \ {t \in touched : \A u \in left : u[2] # t}
  BY DEF DeleteBatch
<1>3. /\ sessions = {SessionOf[e] : e \in DOMAIN rows}
      /\ \A t \in turns : t[1] \in sessions /\ t[2] \in tasks
      /\ \A k \in tasks : \/ \E t \in turns : t[2] = k
                          \/ \E e \in Evidence \ Turned : TaskOf[e] = k
  BY DEF LineageMatchesEvidence
<1>4. \A s : s \in expired <=> /\ s \in sessions /\ \E e \in ids : SessionOf[e] = s
                               /\ \A e \in DOMAIN rows \ ids : SessionOf[e] # s
  BY DEF ExpiredSessions
<1> HIDE DEF expired
<1>5. sessions' = {SessionOf[e] : e \in DOMAIN rows'}
  <2>1. ASSUME NEW s \in sessions' PROVE s \in {SessionOf[e] : e \in DOMAIN rows'}
    <3>1. PICK e \in DOMAIN rows : s = SessionOf[e]
      BY <1>2, <1>3, <2>1
    <3>2. s \in sessions /\ s \notin expired
      BY <1>2, <2>1
    <3>3. CASE e \in ids
      BY <1>1, <1>4, <3>1, <3>2, <3>3
    <3>4. CASE e \notin ids
      BY <1>1, <3>1, <3>4
    <3> QED
      BY <3>3, <3>4
  <2>2. ASSUME NEW e \in DOMAIN rows' PROVE SessionOf[e] \in sessions'
    BY <1>1, <1>2, <1>3, <1>4, <2>2
  <2> QED
    BY <2>1, <2>2
<1>6. ASSUME NEW t \in turns' PROVE t[1] \in sessions' /\ t[2] \in tasks'
  BY <1>2, <1>3, <1>6
<1>7. ASSUME NEW k \in tasks'
      PROVE  (\E t \in turns' : t[2] = k) \/ (\E e \in Evidence \ Turned : TaskOf[e] = k)
  <2>1. SUFFICES ASSUME NEW t \in turns, t[2] = k PROVE \E u \in turns' : u[2] = k
    BY <1>2, <1>3, <1>7
  <2>2. CASE t[1] \notin expired
    BY <1>2, <2>1, <2>2
  <2>3. CASE t[1] \in expired
    <3>1. k \in touched
      BY <1>4, <2>1, <2>3
    <3>2. PICK u \in left : u[2] = k
      BY <1>2, <1>7, <3>1
    <3> QED
      BY <1>2, <3>2
  <2> QED
    BY <2>2, <2>3
<1> QED
  BY <1>5, <1>6, <1>7 DEF LineageMatchesEvidence

\* A step deletes evidence and its lineage together.
LEMMA LineageStep == TypeOK /\ LineageMatchesEvidence /\ [Next]_vars => LineageMatchesEvidence'
<1> SUFFICES ASSUME TypeOK, LineageMatchesEvidence, [Next]_vars
             PROVE  LineageMatchesEvidence'
  OBVIOUS
<1>1. ASSUME NEW p \in Admins, Applies(p)
      PROVE  LineageMatchesEvidence'
  BY <1>1, LineageAfterBatch DEF Applies
<1>2. ASSUME UNCHANGED <<sessions, turns, tasks>>, DOMAIN rows' = DOMAIN rows
      PROVE  LineageMatchesEvidence'
  BY <1>2 DEF LineageMatchesEvidence
<1>3. ASSUME NEW e \in Evidence, NEW at \in Times, CollectRecord(e, at)
      PROVE  LineageMatchesEvidence'
  <2>1. DOMAIN rows' = DOMAIN rows \cup {e}
    BY <1>3, PutRowType DEF CollectRecord
  <2> DEFINE new == <<SessionOf[e], TaskOf[e]>>
  <2>2. /\ new[1] = SessionOf[e] /\ new[2] = TaskOf[e]
        /\ turns' = IF e \in Turned THEN turns \cup {new} ELSE turns
        /\ sessions' = sessions \cup {SessionOf[e]} /\ tasks' = tasks \cup {TaskOf[e]}
    BY <1>3 DEF CollectRecord
  <2> HIDE DEF new
  <2>3. sessions' = {SessionOf[x] : x \in DOMAIN rows'}
    BY <2>1, <2>2 DEF LineageMatchesEvidence
  <2>4. ASSUME NEW t \in turns' PROVE t[1] \in sessions' /\ t[2] \in tasks'
    BY <2>2, <2>4 DEF LineageMatchesEvidence
  <2>5. ASSUME NEW k \in tasks'
        PROVE  (\E t \in turns' : t[2] = k) \/ (\E x \in Evidence \ Turned : TaskOf[x] = k)
    <3>1. CASE k = TaskOf[e]
      BY <2>2, <3>1
    <3>2. CASE k # TaskOf[e]
      BY <2>2, <2>5, <3>2 DEF LineageMatchesEvidence
    <3> QED
      BY <3>1, <3>2
  <2> QED
    BY <2>3, <2>4, <2>5 DEF LineageMatchesEvidence
<1>4. ASSUME NEW e \in Evidence, NEW at \in Times, NEW until \in Times, PutEvidence(e, at, until)
      PROVE  LineageMatchesEvidence'
  <2>1. DOMAIN rows' = DOMAIN rows \cup {e}
    BY <1>4, PutRowType DEF PutEvidence
  <2> QED
    BY <1>4, <2>1 DEF PutEvidence, LineageMatchesEvidence
<1>5. CASE UNCHANGED dbVars
  BY <1>2, <1>5 DEF dbVars
<1> QED
  BY <1>1, <1>2, <1>3, <1>4, <1>5, StepCases DEF Others, PutRetentionPolicy, AuditProject, PutProjectAlias

\* After any sequence of collections and deletions the sessions are those of the evidence
\* that is stored, turns have their session and task, and a task without any turn is
\* one that some record outside of turns names.
THEOREM RetentionLineageMatchesEvidence == Spec => []LineageMatchesEvidence
<1>1. Init => LineageMatchesEvidence
  BY DEF Init, LineageMatchesEvidence, Empty
<1>2. ArchiveInv => TypeOK
  BY DEF ArchiveInv
<1> QED
  BY <1>1, <1>2, ArchiveInvariant, LineageStep, PTL DEF Spec
=============================================================================
