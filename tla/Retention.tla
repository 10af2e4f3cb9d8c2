----------------------------- MODULE Retention -----------------------------
(***************************************************************************)
(* Archive-gated retention of one project: retention.go of the PostgreSQL  *)
(* repository and the retention-apply command, running beside collection,  *)
(* audits and changes of the retention policies.                           *)
(*                                                                         *)
(* ApplyRetention is a serializable transaction whose snapshot is taken by *)
(* its first statement, the one that waits for the advisory lock.  Other   *)
(* serializable transactions, and writes to the rows it locks, make it     *)
(* fail and start over; a policy written by a single statement does not.   *)
(***************************************************************************)
EXTENDS Naturals, FiniteSets, Functions

CONSTANTS
  Evidence,     \* evidence artifact identities
  Policies,     \* retention policies, one per classification
  PolicyOf,     \* evidence -> policy of its classification
  SessionOf,    \* evidence -> session of its lineage
  TaskOf,       \* evidence -> task its record names
  Turned,       \* evidence whose record has a trajectory and an ordinal
  Revisions,    \* audit revision identities
  WindowOf,     \* revision -> its audit window
  Admins,       \* processes running retention-apply
  Revisited,    \* whether a source may show a record again after its deletion
  DefaultKeep,  \* DefaultRetention
  BatchLimit,   \* records per plan
  MaxAttempts,  \* maxTransactionAttempts
  MaxTime,      \* bound: time stamps
  MaxWrites,    \* bound: writes of policies, evidence and audits
  MaxFaults     \* bound: crashes and failed archives

ASSUME RetentionAssumption ==
  /\ PolicyOf \in [Evidence -> Policies]
  /\ IsFiniteSet(Evidence)
  /\ DefaultKeep \in Nat /\ BatchLimit \in Nat \ {0} /\ MaxAttempts \in Nat \ {0}
  /\ MaxTime \in Nat /\ MaxWrites \in Nat /\ MaxFaults \in Nat

Times  == 0 .. MaxTime
NoTime == MaxTime + 1     \* retained_until IS NULL

VARIABLES
  rows,       \* evidence_artifacts: identity -> [at, until]
  policy,     \* retention_policies: [hold, keep]
  revisions,  \* audit_revisions: identity -> evidence they refer to
  windows,    \* audit_windows
  sessions,   \* sessions
  turns,      \* turns, as pairs of session and task
  tasks,      \* tasks
  aliases,    \* whether the project has keyed aliases
  archives,   \* plans in verified archive files
  actions,    \* completed retention_actions: action key and applied_count
  run,        \* local state of each process
  gone,       \* history: rows deleted by retention
  writes, faults

dbVars == <<rows, policy, revisions, windows, sessions, turns, tasks, aliases, actions, gone>>
vars   == <<dbVars, archives, run, writes, faults>>

Empty == [x \in {} |-> {}]

\* Tables: functions from some of the keys.
Partial(S, T) == UNION {[D -> T] : D \in SUBSET S}
Dates     == [at : Times, until : Times \cup {NoTime}]
Terms     == [hold : BOOLEAN, keep : Times \cup {DefaultKeep}]
TurnSet   == {SessionOf[e] : e \in Evidence} \X {TaskOf[e] : e \in Evidence}
RowSet    == [id : Evidence, at : Times, until : Times \cup {NoTime}]
PlanSet   == [policy : Policies, asOf : Times, records : {s \in SUBSET RowSet : IsFiniteSet(s)}]
ActionSet == [key : PlanSet, count : Nat]

Ids(s)   == {r.id : r \in s}
RowsOf(db) == {[id |-> e, at |-> db[e].at, until |-> db[e].until] : e \in DOMAIN db}

NoPlan == [policy |-> CHOOSE p \in Policies : TRUE, asOf |-> 0, records |-> {}]

\* What the transaction of a process sees.
Snapshot == [rows |-> rows, policy |-> policy, revisions |-> revisions,
             turns |-> turns, aliases |-> aliases, actions |-> actions]

NoSnapshot == [rows |-> Empty, policy |-> Empty, revisions |-> Empty,
               turns |-> {}, aliases |-> FALSE, actions |-> {}]

IdleRun == [pc |-> "idle", plan |-> NoPlan, snap |-> NoSnapshot, attempt |-> 0, count |-> 0]

Labels == {"idle", "planned", "archived", "waiting", "locked", "done"}

Snapshots == [ rows : Partial(Evidence, Dates), policy : Partial(Policies, Terms),
               revisions : Partial(Revisions, SUBSET Evidence), turns : SUBSET TurnSet,
               aliases : BOOLEAN, actions : SUBSET ActionSet ]

Runs == [ pc : Labels, plan : PlanSet \cup {NoPlan}, snap : Snapshots, attempt : 0 .. MaxAttempts,
          count : Nat ]

Init ==
  /\ rows = Empty /\ revisions = Empty /\ windows = {}
  /\ policy = [c \in Policies |-> [hold |-> FALSE, keep |-> DefaultKeep]]
  /\ sessions = {} /\ turns = {} /\ tasks = {} /\ aliases = FALSE
  /\ archives = {} /\ actions = {} /\ gone = {}
  /\ run = [p \in Admins |-> IdleRun]
  /\ writes = 0 /\ faults = 0

-----------------------------------------------------------------------------
(* The other users of the database *)

Write == writes < MaxWrites /\ writes' = writes + 1

Shown(e) == Revisited \/ \A r \in gone : r.id # e

PutRow(e, at, until) ==
  rows' = [x \in DOMAIN rows \cup {e} |->
             IF x = e THEN [at |-> at, until |-> until] ELSE rows[x]]

\* A collected record: its lineage, then the row, or new dates for a known one.
\* The task is written for every record, a turn only for one that places it.
CollectRecord(e, at) ==
  /\ Write /\ Shown(e)
  /\ PutRow(e, at, NoTime)
  /\ sessions' = sessions \cup {SessionOf[e]}
  /\ tasks' = tasks \cup {TaskOf[e]}
  /\ turns' = IF e \in Turned THEN turns \cup {<<SessionOf[e], TaskOf[e]>>} ELSE turns
  /\ UNCHANGED <<policy, revisions, windows, aliases, actions, gone, archives, run, faults>>

\* A single statement; the session it names must exist.
PutEvidence(e, at, until) ==
  /\ Write /\ Shown(e)
  /\ SessionOf[e] \in sessions
  /\ PutRow(e, at, until)
  /\ UNCHANGED <<policy, revisions, windows, sessions, turns, tasks, aliases, actions, gone,
                 archives, run, faults>>

PutRetentionPolicy(c, hold, keep) ==
  /\ Write
  /\ policy' = [policy EXCEPT ![c] = [hold |-> hold, keep |-> keep]]
  /\ UNCHANGED <<rows, revisions, windows, sessions, turns, tasks, aliases, actions, gone,
                 archives, run, faults>>

\* An audit links its revision to the evidence of its window.
AuditProject(r, end) ==
  /\ Write
  /\ r \notin DOMAIN revisions
  /\ LET seen == {e \in DOMAIN rows : rows[e].at < end}
     IN  /\ seen # {}
         /\ revisions' = [x \in DOMAIN revisions \cup {r} |->
                            IF x = r THEN seen ELSE revisions[x]]
  /\ windows' = windows \cup {WindowOf[r]}
  /\ UNCHANGED <<rows, policy, sessions, turns, tasks, aliases, actions, gone,
                 archives, run, faults>>

PutProjectAlias ==
  /\ Write
  /\ aliases' = TRUE
  /\ UNCHANGED <<rows, policy, revisions, windows, sessions, turns, tasks, actions, gone,
                 archives, run, faults>>

-----------------------------------------------------------------------------
(* The retention-apply command *)

Expiry(row, keep) == IF row.until # NoTime THEN row.until ELSE row.at + keep

Eligible(row, policies, c, asOf) ==
  /\ PolicyOf[row.id] = c
  /\ ~policies[c].hold
  /\ Expiry(row, policies[c].keep) <= asOf

\* The oldest eligible rows, no more than the limit.
OldestFirst(found) ==
  { s \in SUBSET found :
      /\ Cardinality(s) = IF Cardinality(found) < BatchLimit
                          THEN Cardinality(found) ELSE BatchLimit
      /\ \A r \in s, q \in found \ s : r.at <= q.at }

\* An empty plan ends the command: no_action.
PlanRetention(p, c, asOf) ==
  /\ run[p].pc = "idle"
  /\ \E s \in OldestFirst({r \in RowsOf(rows) : Eligible(r, policy, c, asOf)}) :
       run' = IF s = {} THEN run
              ELSE [run EXCEPT ![p].pc = "planned",
                               ![p].plan = [policy |-> c, asOf |-> asOf, records |-> s]]
  /\ UNCHANGED <<dbVars, archives, writes, faults>>

\* The archive is written, renamed, read back and compared.
Archive(p) ==
  /\ run[p].pc = "planned"
  /\ archives' = archives \cup {run[p].plan}
  /\ run' = [run EXCEPT ![p].pc = "archived", ![p].attempt = 1]
  /\ UNCHANGED <<dbVars, writes, faults>>

\* The first statement fixes the snapshot, then waits for the lock.
BeginApply(p) ==
  /\ run[p].pc = "archived"
  /\ run' = [run EXCEPT ![p].pc = "waiting", ![p].snap = Snapshot]
  /\ UNCHANGED <<dbVars, archives, writes, faults>>

LockFree(p) ==
  \A q \in Admins : run[q].pc = "locked" => run[q].plan # run[p].plan

LockAction(p) ==
  /\ run[p].pc = "waiting"
  /\ LockFree(p)
  /\ run' = [run EXCEPT ![p].pc = "locked"]
  /\ UNCHANGED <<dbVars, archives, writes, faults>>

Snap(p) == run[p].snap
Planned(p) == run[p].plan.records
Key(p) == run[p].plan

\* Mutant: completed actions are not looked up.
Recorded_Never(p) == {}

\* The completed action of the same key in the transaction's snapshot.
Recorded(p) == {a \in Snap(p).actions : a.key = Key(p)}

\* Mutant: rows are matched by identity only.
Matches_IdOnly(p, r) ==
  /\ r.id \in DOMAIN Snap(p).rows
  /\ Eligible([id |-> r.id, at |-> Snap(p).rows[r.id].at, until |-> Snap(p).rows[r.id].until],
              Snap(p).policy, Key(p).policy, Key(p).asOf)

\* Mutant: only the archived metadata is compared.
Matches_NoPolicy(p, r) == r \in RowsOf(Snap(p).rows)

\* Mutant: plan and recheck disagree on the boundary.
Matches_Before(p, r) ==
  /\ r \in RowsOf(Snap(p).rows)
  /\ Eligible(r, Snap(p).policy, Key(p).policy, Key(p).asOf)
  /\ Expiry(r, Snap(p).policy[Key(p).policy].keep) < Key(p).asOf

\* In the snapshot the planned row is as archived, and still eligible.
Matches(p, r) ==
  /\ r \in RowsOf(Snap(p).rows)
  /\ Eligible(r, Snap(p).policy, Key(p).policy, Key(p).asOf)

\* FOR UPDATE: a row that matches was written or deleted since the snapshot.
RowConflict(p) ==
  \E r \in Planned(p) : Matches(p, r) /\ (r.id \in DOMAIN rows => rows[r.id] # Snap(p).rows[r.id])

validateArchivedPlan(p) == \A r \in Planned(p) : Matches(p, r)

\* Something else the transaction reads was changed by one that committed meanwhile.
ReadConflict(p) ==
  LET ids == Ids(Planned(p))
      about(r) == {<<x, r[x]>> : x \in {y \in DOMAIN r : r[y] \cap ids # {}}}
      mates(db) == {e \in DOMAIN db : \E i \in ids : SessionOf[e] = SessionOf[i]}
      kin(ts) == {t \in ts : \E u \in ts, i \in ids : u[1] = SessionOf[i] /\ u[2] = t[2]}
      same(acts) == {a \in acts : a.key = Key(p)}
  IN  \/ about(revisions) # about(Snap(p).revisions)
      \/ mates(rows) # mates(Snap(p).rows)
      \/ kin(turns) # kin(Snap(p).turns)
      \/ same(actions) # same(Snap(p).actions)

\* Mutant: a revision goes with the first of its evidence.
ExpiredRevisions_Any(ids) == {r \in DOMAIN revisions : revisions[r] \cap ids # {}}

\* Mutant: only a revision that refers to the very batch goes.
ExpiredRevisions_Exact(ids) == {r \in DOMAIN revisions : revisions[r] = ids}

\* Revisions that refer to deleted evidence and to nothing else.
ExpiredRevisions(ids) ==
  {r \in DOMAIN revisions : revisions[r] \cap ids # {} /\ revisions[r] \subseteq ids}

\* Mutant: sessions are looked at before the evidence is deleted.
ExpiredSessions_Before(ids) ==
  {s \in sessions : \A e \in DOMAIN rows : SessionOf[e] # s}

\* Sessions of deleted evidence to which no evidence is left.
ExpiredSessions(ids) ==
  {s \in sessions : /\ \E e \in ids : SessionOf[e] = s
                    /\ \A e \in DOMAIN rows \ ids : SessionOf[e] # s}

\* Everything the transaction deletes.  The aliases it finds are those of its
\* snapshot, and they go when the snapshot has no other evidence.
DeleteBatch(ids, snap) ==
  LET expired == ExpiredSessions(ids)
      left    == {t \in turns : t[1] \notin expired}
      touched == {t[2] : t \in {u \in turns : \E e \in ids : SessionOf[e] = u[1]}}
  IN  /\ rows' = Restrict(rows, {e \in DOMAIN rows \ ids : SessionOf[e] \notin expired})
      /\ gone' = gone \cup {r \in RowsOf(rows) : r.id \in ids}
      /\ revisions' = [r \in DOMAIN revisions \ ExpiredRevisions(ids) |-> revisions[r] \ ids]
      /\ windows' = {WindowOf[r] : r \in DOMAIN revisions'}
      /\ aliases' = (aliases /\ ~(snap.aliases /\ DOMAIN snap.rows \subseteq ids))
      /\ sessions' = sessions \ expired
      /\ turns' = left
      /\ tasks' = tasks \ {t \in touched : \A u \in left : u[2] # t}

\* A serialization failure starts the transaction over, a few times.
AfterConflict(p) ==
  run' = IF run[p].attempt < MaxAttempts
         THEN [run EXCEPT ![p].pc = "archived", ![p].attempt = @ + 1, ![p].snap = NoSnapshot]
         ELSE [run EXCEPT ![p] = IdleRun]

\* How the transaction of ApplyRetention ends.  A plan that no longer matches its
\* snapshot is an error that is not tried again.
ApplyRetention(p) ==
  /\ run[p].pc = "locked"
  /\ \/ \E a \in Recorded(p) :
          /\ run' = [run EXCEPT ![p].pc = "done", ![p].count = a.count, ![p].snap = NoSnapshot]
          /\ UNCHANGED dbVars
     \/ /\ Recorded(p) = {} /\ RowConflict(p)
        /\ AfterConflict(p)
        /\ UNCHANGED dbVars
     \/ /\ Recorded(p) = {} /\ ~RowConflict(p) /\ ~validateArchivedPlan(p)
        /\ run' = [run EXCEPT ![p] = IdleRun]
        /\ UNCHANGED dbVars
     \/ /\ Recorded(p) = {} /\ ~RowConflict(p) /\ validateArchivedPlan(p) /\ ReadConflict(p)
        /\ AfterConflict(p)
        /\ UNCHANGED dbVars
     \/ /\ Recorded(p) = {} /\ ~RowConflict(p) /\ validateArchivedPlan(p) /\ ~ReadConflict(p)
        /\ DeleteBatch(Ids(Planned(p)), Snap(p))
        /\ actions' = actions \cup {[key |-> Key(p), count |-> Cardinality(Planned(p))]}
        /\ run' = [run EXCEPT ![p].pc = "done", ![p].count = Cardinality(Planned(p)),
                              ![p].snap = NoSnapshot]
        /\ UNCHANGED policy
  /\ UNCHANGED <<archives, writes, faults>>

Report(p) ==
  /\ run[p].pc = "done"
  /\ run' = [run EXCEPT ![p] = IdleRun]
  /\ UNCHANGED <<dbVars, archives, writes, faults>>

\* A crash, a failed archive or statement, or an answer that is lost: the
\* transaction and its lock are gone, a finished archive stays.
Crash(p) ==
  /\ faults < MaxFaults /\ faults' = faults + 1
  /\ run[p].pc # "idle"
  /\ run' = [run EXCEPT ![p] = IdleRun]
  /\ UNCHANGED <<dbVars, archives, writes>>

-----------------------------------------------------------------------------

Step(p) ==
  Archive(p) \/ BeginApply(p) \/ LockAction(p) \/ ApplyRetention(p) \/ Report(p)

Others ==
  \/ \E e \in Evidence, at \in Times : CollectRecord(e, at)
  \/ \E e \in Evidence, at \in Times, until \in Times : PutEvidence(e, at, until)
  \/ \E c \in Policies, hold \in BOOLEAN, keep \in Times : PutRetentionPolicy(c, hold, keep)
  \/ \E r \in Revisions, end \in 1 .. NoTime : AuditProject(r, end)
  \/ PutProjectAlias

Next ==
  \/ Others
  \/ \E p \in Admins :
       \/ \E c \in Policies, asOf \in Times : PlanRetention(p, c, asOf)
       \/ Step(p) \/ Crash(p)

Spec == Init /\ [][Next]_vars

\* The command is run again for every policy, with an as-of date that has
\* caught up with the evidence, and its steps end.
Fairness ==
  \A p \in Admins :
    /\ \A c \in Policies : WF_vars(PlanRetention(p, c, MaxTime))
    /\ WF_vars(Step(p))

FairSpec == Spec /\ Fairness

-----------------------------------------------------------------------------
(* Properties *)

TypeOK ==
  /\ rows \in Partial(Evidence, Dates)
  /\ policy \in [Policies -> Terms]
  /\ revisions \in Partial(Revisions, SUBSET Evidence)
  /\ turns \subseteq TurnSet /\ aliases \in BOOLEAN
  /\ archives \subseteq PlanSet /\ actions \subseteq ActionSet
  /\ run \in [Admins -> Runs]
  /\ gone \subseteq RowSet
  /\ faults \in Nat

\* A process that has archived works from a plan that is in a verified archive.
PlansArchived ==
  \A p \in Admins :
    /\ run[p].pc = "planned" => run[p].plan \in PlanSet
    /\ run[p].pc \in {"archived", "waiting", "locked", "done"} => run[p].plan \in archives

\* A row is deleted only in the very form a verified archive holds, whatever was
\* collected, re-dated or purged between the plan and the deletion.
DeletedWasArchived == \A r \in gone : \E a \in archives : r \in a.records

\* docs/database.md: "legal holds always win".  No row of a policy under hold is
\* deleted.
LegalHoldWins ==
  [][ \A e \in DOMAIN rows \ DOMAIN rows' : ~policy[PolicyOf[e]].hold ]_rows

\* A hold, or a longer window, that is in place when the transaction begins is
\* respected, however old the plan is.
StartedUnderHold(p) == run[p].snap.policy[run[p].plan.policy].hold

HoldBeforeApplyWins ==
  [][ \A e \in DOMAIN rows \ DOMAIN rows' :
        \E p \in Admins :
          /\ run[p].pc = "locked" /\ run'[p].pc = "done"
          /\ e \in Ids(Planned(p)) /\ ~StartedUnderHold(p)
          /\ Expiry(rows[e], run[p].snap.policy[PolicyOf[e]].keep) <= run[p].plan.asOf ]_rows

\* A revision is one retention unit: it loses its last evidence and goes in the
\* same transaction, however many batches the evidence is deleted in.
RevisionsHaveEvidence ==
  \A r \in DOMAIN revisions : revisions[r] # {} /\ revisions[r] \subseteq DOMAIN rows

\* A revision is never deleted while any evidence it refers to is retained.
RevisionsOutliveEvidence ==
  [][ \A r \in DOMAIN revisions \ DOMAIN revisions' :
        revisions[r] \cap DOMAIN rows' = {} ]_revisions

\* Sessions and turns end with the last evidence of the session, and a task with
\* its last turn: no session is left without evidence, no turn without its session or
\* its task.  A task that no turn refers to, because the record that named it had no
\* trajectory or ordinal, is never found: those stay.
LineageMatchesEvidence ==
  /\ sessions = {SessionOf[e] : e \in DOMAIN rows}
  /\ \A t \in turns : t[1] \in sessions /\ t[2] \in tasks
  /\ \A k \in tasks : \/ \E t \in turns : t[2] = k
                      \/ \E e \in Evidence \ Turned : TaskOf[e] = k

\* docs/database.md: repeating the same action key returns the original result.  A
\* plan deletes once: neither the apply that waited for the same plan, nor a later
\* one that finds the same records collected again, deletes a row of it a second time.
AppliedOnce ==
  [][ \A p \in Admins :
        (\E a \in actions : a.key = Key(p)) /\ run[p].pc = "locked" /\ run'[p].pc = "done"
          => DOMAIN rows \subseteq DOMAIN rows' ]_<<rows, run>>

\* Expired evidence that nothing holds is eventually purged, batch by batch,
\* although applies collide and give up.
EventuallyPurged ==
  <>[](\A r \in RowsOf(rows) : ~Eligible(r, policy, PolicyOf[r.id], MaxTime))
=============================================================================
