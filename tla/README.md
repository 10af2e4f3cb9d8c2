# Formal models of prompt-better

TLA+ models of the parts of prompt-better in which ordering, failure and
concurrency decide whether the program is right, the TLC configurations that
check them on small instances, and TLAPS proofs for every instance.
`PROJECT.json` lists components, runs, mutants, the map from definitions to
source lines, findings, hazards and theorems.

    cd tla
    tlc -workers 2 -config MCCollector_safety.cfg MCCollector    # one run
    tlapm CollectorProofs.tla                                    # one module's proofs

## 1. Inventory

prompt-better is a set of local commands around one PostgreSQL database and
one MCP server process.

| part | state it keeps | operations | what is hard |
|---|---|---|---|
| source adapters (`internal/adapters`) | none: request + file -> result | `JSONL.Collect`, `contractAdapter.Collect` | rotation, truncation, batch limit, one bad line among good ones |
| collection store (`store/postgres/repository.go`) | `collection_cursors` row (cursor, generation, digest, lease, fence), evidence aliases, batch observations | acquire/renew/release lease, read cursor, `CommitCollection`, `PutEvidence` | stale holders, replayed and reordered batches, all-or-nothing commit |
| collector (`internal/collector`, `cmd/prompt-better-collector`) | one run: fence, what it read, attempt, quarantine | `Run` | overlapping processes, crash with the lease, lost answers, retries |
| retention (`store/postgres/retention.go`, `internal/retention`) | policies, archives, completed actions | plan, archive, apply | old plans, legal holds, colliding applies, units that span batches |
| governance audits (`store/postgres/governance.go`, `internal/audit`) | windows, revisions, evidence links, session locks, pool | `AuditProject` | late evidence, lock and pool under cancellation, numbering |
| MCP server and tools (`internal/mcpserver`, `internal/tools`) | slots, state of each session | eight tools | handlers that outlive their client, bounded caches, lost slots |
| integration setup (`internal/setup`) | config, skill, manifest, registration | init, uninstall, doctor | failure half way, user edits between check and use |
| dimensions, lineage (`store/postgres/repository.go`, `internal/evidence`, `internal/lineage`) | versioned rows; sessions, trajectories, turns, responses, tool calls and what hangs on them | `PutProject`, `PutSource`, reads by time, the rows of a record | versions dated by callers, parents that come later, records that come again |
| metrics (metrics, baseline, diagnosis, recommendation, workload, eval) | none; recommendations are stored and read back | the pure part of an audit | zero baselines, windows that straddle, suppressed scopes, own output read again |
| identity keys, recovery, boundary, policy | key files, static tables | keystore, decisions | key files |
| compiler, lint, reports, CLI | none | text | wording |

Components interact through the database, with three exceptions: the collector
reads a file that another program writes, the MCP server keeps state of its own
between calls, and setup shares files and the codex registration with the user.
Collector, audits and retention meet in the same rows: evidence is written by
the first, linked by the second and deleted by the third, in serializable
transactions that PostgreSQL aborts and `withSerializable` retries three times.

What makes them correct: no evidence is lost, doubled or stored although it was
rejected; a cursor never passes evidence that is not stored; nothing is deleted
that was not archived, that is held or still referred to; what is known of a session is
linked and never taken back, and says what is missing; every time has one version
of each dimension; revisions form one chain, an audit asked again finds its own,
and what it calls improved is better; clients of the MCP server keep their
state and cannot exhaust it; a failed or interrupted setup can be repeated or undone.
Where the code does otherwise, a violation run of section 3 shows it or section 2 says
so under "Known".

## 2. Modules

| module | models |
|---|---|
| `JsonlAdapter` | what a request and a file become: records, generation, next cursor, status |
| `CollectionStore` (extends it) | the cursor row with its lease, aliases, batches, `CommitCollection` |
| `Collector` (extends that) | processes over one source and the owner of the file |
| `EvidenceLog` | abstract: one gapless append-only log per generation; `Collector` implements it |
| `Lineage` | what the attributes of a line become: rows in tables with keys and foreign keys |
| `Dimensions` | `PutProject`, `PutSource` and the reads of a version by time |
| `Ingest` (extends `CollectionStore`, `Lineage`, `Dimensions`) | the write side of the database under clients that submit built batches late, twice and out of order, within the storage budget; `AuditSession` |
| `Metrics` | the pure part of an audit: metrics, statuses, guardrails, detectors, recommendations, decomposition, decision |
| `Governance` (extends `Metrics`, `Dimensions`) | `AuditProject` of projects, the portfolio, tasks and trajectories over rows that arrive, versions that change and feedback |
| `CollectorProofs`, `DimensionsProofs`, `IngestProofs`, `RetentionProofs`, `AuditRevisionsProofs`, `McpServiceProofs`, `SetupProofs`, `GovernanceProofs` | theorems |
| `Retention` | plan, archive and apply of retention beside collection, audits and policy changes |
| `AuditRevisions` | `AuditProject`: pool, session lock, serializable transaction, revisions, links |
| `RevisionLog` | abstract: one numbered chain of revisions per window; `AuditRevisions` implements it |
| `McpService` | slots, sessions, tool calls, checkpoints, audit caches |
| `Setup` | init and uninstall step by step |
| `MC*` | instances for TLC |

### JsonlAdapter, CollectionStore, Collector

A line is a model value; `BadLines` are the ones the adapter rejects as
sensitive or malformed, `DriftLines` the ones whose schema drifted. A digest is
the prefix it covers and a revision the contents it was derived from (no
collisions). A bad line blocks the whole file, a drift line its batch.

The row of `collection_cursors` is `cursor` and `lease`; an absent row is cursor 0
without lease. Time is only whether a lease has expired: `LeaseExpiresEarly`
lets it expire under a live holder (a fault), `LeaseExpiresOrphaned` when the
holder is gone. A fence, a hash of owner and time in the code,
is fresh. A process opens the file
before it takes the lease and reads cursor, generation and digest by three
statements, as the code does; each statement is a step, and so are collect
attempts, renewal, commit and release. `CommitCollection` is one step because
it is one transaction that locks the row. `CommitAnswerLost` is a commit whose
answer does not arrive; `Crash` ends a process anywhere and leaves its lease.
In `Collector`, storage budget, lineage, replay and runtime rows are statements of
the same transaction that may fail (`StatementFails`); `Ingest` has them. The dependence of batch versions
on the ingestion time, and versions of older releases, are left out. The branch
of `CommitCollection` that recognises a replay cannot be reached by the
collector, which derives each batch from the cursor it read; `Ingest` reaches it.

Known, and within what is checked: a process that read a shorter file can commit
after one that read a longer one (the file is opened before the lease is taken,
`cmd/prompt-better-collector/main.go:114`), and the shorter contents look like a
truncation: lines of an append-only file are stored again, under a revision.
`ImplementsEvidenceLog` shows that every generation is one gapless log all the
same.

A generation is named by contents, so that a file that comes back to contents it had
before comes back to a generation that has evidence. One process is enough: a file
truncated back to what its generation was derived from yields the same generation with
a smaller cursor and is refused as stale (`repository.go:716`) until it grows past the
cursor; a file replaced back and forth yields a batch identity that is stored, and
fails on its key (`repository.go:793-802`) for as long as the contents stay. `Revisited`
names these states, and `EventuallyCaughtUp` excepts them and no others: with four edits
the run reaches both kinds, and without the exception TLC finds the file replaced back
and forth. docs/collector.md:15-16 makes no exception ("Rotation or truncation creates a
partial-coverage revision instead of silently reusing a stale cursor").

### Lineage, Dimensions, Ingest

The attributes of a line are a function from field names to values. `Sanitize`
keeps those its source may have, `LineageOf` reads the lineage from them, and
`persistEvidenceLineage` makes the statements of `CommitCollection` in their order. A table
is a function from primary keys to rows; a statement fails when a key it refers
to is missing, and then the transaction does. `PersistBatch` goes through the
records twice, as the code does, so that parents later in the batch are linked.
An alias, a keyed hash in the code, is the pair of its domain and the value.

`Ingest` gives the store to clients that keep every batch they built and submit
any of them under any fence they hold, among source versions that change.
`bytes` is `pg_database_size`: a commit is estimated before, and measured again
(`verifyCommittedStorageBudget`) before the cursor row is written, which may add a
little more (`MaxTail`): the budget itself can be passed by that much. `AuditSession` is a read, so it appears
in a property and not as an action; the records its LIMIT selects are any. Its check
of the project's version is left out: with it the audit says complete less often.

The budget is checked before a replay is recognised, so a replay is refused when the
database is nearly full, although docs/collector.md:13 says "Replaying a committed batch
is a no-op"; `LastBatchReplays` allows that answer beside the replay, and no other.

Known and not claimed otherwise: `PutSource` with a
version id used before fails on its primary key; delegation events are written
without a parent; a record with policy fields fails, because `sensitiveKey` takes
`raw_prompt_retention`, which the adapter expects, for a secret.

### Metrics, Governance

Numbers are exact fractions with an infinity for effects on a baseline of zero;
floating point is left out. The median is stated by rank: the value in place k has
fewer than k lesser ones and k that are no greater, which is what sorting puts there
however ties fall. Sums are folds over functions. A row of `Governance` stands for all the database
holds of one turn, or of one record outside turns; `Work` says what its kind is
like, within the constraints of the schema (`00004_constraints.sql`: usage and lengths
are not negative, phases end after they start). No constraint says the same of a
response: one that ends before it starts is assumed away, and `invalidInput` refuses a
measurement that becomes negative because of it. An audit is one step, because `AuditRevisions` shows what its lock and its
transaction are worth. It reads the rows of its scope known at the as-of time,
suppresses tasks and trajectories of fewer than three turns, computes metrics and
statuses against the window before and the 29 before it, then guardrails,
findings, recommendations and the decision, and stores them as a revision, unless
the same content is already one. Feedback on recommendations is given outside this
program. The newest recommendation on a finding is the one `ORDER BY` puts first,
ties in every date and revision number included: they are broken by the
recommendation's id, for which `RecommendationIDs` gives any distinct numbers. Rows of
`recommendation_events` are left out, because nothing in the repository writes any.
The overhead is an input of its own, complete and without tokens, whose metrics are
reported beside the others and compared with nothing.

Known and not claimed otherwise:

- a turn that straddles the end of a window (a tool phase has ended, its response
  has not) makes active time exceed wall clock, and the engine refuses that window
  and every audit that compares with it until the response completes;
- `invocationCounts` counts calls that started after the as-of time;
- below the cohort floor an audit still shows how many turns, calls and pieces of
  evidence there were (`normalizeSnapshot`, `audit.go:361`, and the sample of each
  metric), which detectors fired, freshness, coverage and versions of its sources, and
  the metrics of the overhead (`governance.go:577`, `audit.go:96`): what
  `SuppressedDisclosesNothing` says is that tokens, times, messages and oversized
  results, now and in earlier windows, make no difference to what is reported;
- `validate_after_mutation` and `restore_redaction` are withheld whenever the
  guardrail they would repair fails;
- the newest recommendation on a finding decides: one proposed by another audit
  hides a dismissal;
- the counts of what was excluded from a narrow scope are those of sibling trajectories
  (`governance.go:678-755`) and part of the revision hash (`audit.go:535`), so that a row
  of a sibling changes the revision of a trajectory; docs/governance-contract.md:58-60
  says siblings contribute no "evidence counts/references, or revision identity".
  `NarrowScopeIsolated` claims the rest;
- rows of governance overhead still enter the workload metrics;
- the hash of a suppressed snapshot (`audit.go:533`) names no single artifact, so
  that other evidence in equal number is linked to the same revision.

### Retention

One project. `PlanRetention` reads, `Archive` writes and verifies the file,
then a serializable transaction: its first statement waits for the advisory
lock and so takes its snapshot before the lock is granted. What follows has the order
of the code: only the rows that match in the snapshot (`Matches`, the policy included)
are locked, and one that changed since is a conflict (`RowConflict`) that is retried; a
plan of which some row does not match is an error that is not; then what was read
without a lock may conflict (`ReadConflict`). So an apply that waited for another of
the same plan is usually retried and finds the action recorded, but fails if its
snapshot has a change of the policy or of dates that the other's had not. Collections
and audits conflict as PostgreSQL detects it; a policy written by `PutRetentionPolicy`
is a single statement outside any such transaction and goes unnoticed. Encryption and the
format of archives are left out. `windows` stands for `audit_windows`. A record that
names a task writes it, and a turn only if it has trajectory and ordinal (`Turned`);
tasks are deleted through turns. An empty plan ends without a transaction.

Known and not claimed otherwise:

- an apply that waited for the same plan, and whose snapshot has a hold, a longer
  window or other dates, fails with "retention plan changed before apply"
  (`retention.go:395-396`), which is not retried, although the plan was completed;
  docs/database.md:133-134 says that "concurrent retries return the first committed
  deletion count". `AppliedOnce` claims only that nothing is deleted a second time;
- a task that no turn refers to is never found (`retention.go:405-408`) and stays when
  all evidence of the project is gone; docs/normalized-evidence-handoff.md:28-29 says
  that unreferenced task identities are removed then. `LineageMatchesEvidence` claims
  that no other task stays;
- the key of a retention action is derived from the plan, so a record that is collected
  again with the same dates after its deletion is planned under the key of the finished
  action, and the apply answers with the earlier count without deleting
  (`retention.go:215`).

### AuditRevisions

The pool is configured for any non-empty set of `Conns`. A session lock is
granted again to the session that has it and ends with the connection. The
transaction has two steps, snapshot and commit; `MustConflict` is what
PostgreSQL cannot overlook (a revision added to the window, a row referred to
that is gone, the revision itself when its evidence was purged and has come back), `Conflict` may happen whenever anything changed. The id of a
revision is window, as-of time and the evidence read: snapshots suppressed for
privacy, or with more than the hundred references kept, hash less than that and
are outside the model. Rows that hang on the revision (metrics, findings,
recommendations, evaluation) are inserted in the same transaction under ids
derived from it and are left out.

### McpService

A call takes a slot, is refused or computes without the lock, then reads or
changes the state of its session in one step under the lock, and is answered.
An ended context changes only the answer, so it is not a step: handlers run on
after their client left. A session is keyed by its address, which is free again once
the client has left and no call of it runs, whatever state is still kept under it: a
later client may have the key of an earlier one (`Connect`). What compiler and audit
compute is success or failure; texts differ only in whether `checkpoint.Render` accepts
them.

Known and not claimed otherwise:

- a client whose session has the address of one that left (`service.go:212-217`) is
  shown what that one saved, as long as no other call has pruned it; docs/mcp.md:36 calls
  the state "isolated by MCP client". The stdio process of this repository serves one
  client in its life; a server that serves several is exposed;
- the compiler tools save an intent of several lines, which `checkpoint.Render` then
  refuses (`service.go:350`): get_checkpoint answers invalid_schema until the next
  checkpoint is saved.

### Setup

Files are absent, the user's, or what init writes for a set of options; the
registration is none, another's, the plugin's (shows through when there is
none) or ours for a set of options. Each file operation and each codex call is
a step. One command runs at a time. Removals that fail leave the same state as
a crash at that step. `doctor` changes nothing and is left out.

The manifest is what an uninstall goes by, and it is written last: without it the
answer is "applied: uninstall_noop" (`ReportNoop`), also when files or the registration
of an init that crashed or failed are there (`setup.go:281-283`; docs/installation.md:130-131
says that it removes the owned files and registration). `OutcomesTrue` covers that answer
as long as the user changed nothing and no command crashed or failed, and the other two
answers always. The rollback of an install takes back files and not the registration:
`FailedInstallUndone` says so.

Known and not claimed otherwise: an uninstall removes the manifest whatever the user
made of it meanwhile (`setup.go:332`), the rollback of an install removes whatever is
at the paths that were missing when it looked (`setup.go:272`), and a restore
renames over a file put where a staged one came from (`setup.go:368`).

## 3. Runs

| run | expects | shows |
|---|---|---|
| `collector_safety` | pass | two processes, all edits of the file, malformed lines, sources of an unsupported kind, one fault: reads are not torn, the cursor only moves forward and only over stored evidence, no malformed line is stored, the processes implement `EvidenceLog` |
| `collector_failures` | pass | one process, four edits, drifted lines, a source that is disabled at times, one fault: rejected lines are not stored, failures are quarantined once, a file the adapter accepts is collected to its end unless it came back to a generation with evidence past where collection would go on |
| `ingest` | pass | old batches submitted again in any order while source versions change: the last batch replays or is refused for the budget, parents in a batch are linked, lineage is never taken back, a session audit is honest about what it did not read, versions answer each time once |
| `ingest_incomplete` | violation | a record that names a response and a turn without ordinal fails its batch for good |
| `retention_race` | pass | two applies, re-dated evidence, holds, one fault: only archived rows are deleted, holds from before the transaction win, a plan deletes once |
| `retention_units` | pass | two policies, three records in batches of two: revisions and lineage go with their last evidence; what has expired is purged |
| `retention_hold` | violation | a hold that commits during the apply transaction does not stop it |
| `audit_revisions` | pass | two audits, pools of one and two connections, late evidence and retention, one fault: one chain of revisions, no session lock in the pool, every audit ends |
| `mcp_service` | pass | three calls over two slots, clients that come, leave and get a key used before: caches bounded and consistent, no slot lost, state kept while there is room |
| `setup` | pass | two option sets, two edits, three faults: uninstall loses nothing of the user's, the files of a failed install are taken back, what a command reports as applied is, init is never refused for good |
| `governance` | pass | five requests over four histories with one late row, one change of a version and feedback: re-audits find their revision, narrow scopes depend on siblings only in their excluded counts and show no usage below the floor, the decomposition is exact, what is called improved is better, recommendations are gated |
| `governance_recovery` | violation | a metric back exactly at its rolling median is called worsened |

The violations are disagreements between the code and what the repository says of it;
`PROJECT.json` quotes the line under "findings".

Bounds. Two processes (admins, audits) are the smallest number that interleaves,
and the properties relate two at a time; one more only stands for itself. Files
of two lines with a batch limit of one or two have a cursor inside, at and past
a batch. Two edits of the file allow a rotation and a second one; `collector_failures`
has four, enough to come back twice. One process needs two fences: its own and the one
left in the row. Two attempts distinguish the first, a repeated and the last.
In `mcp_service` limits of 1 and 2 stand for 8, 8 and the default concurrency:
each is reached and passed. `ingest` has five kinds of line: a response that completes, a child, a late
record of the first that names the child as parent, a turn without ordinal, and
(only in the violation run) a response of such a turn; files of two of them in any
order, and two batches, make every forward, backward and repeated reference.
Versions have two times and two states, the budget is reached by the second commit.
`governance` starts each history where it gets interesting: two windows that lead
to a better one, weekly windows only, two that were worse, a trajectory beside a
busier one, each with what is late,
a sibling, another project or a straddling turn beside it; two revisions are an
audit and one that reads what the first stored. Setup needs one fault to leave a partial state, one
to leave another while it is repaired, and one more for the failed query or
answer in between. Mutants in `PROJECT.json` show for each property that these
bounds are large enough for the error it is about.

Fairness. `Collector`: the scheduler starts a process again and again with an
enabled source (strong, because the source may be disabled in between), a
started process makes its steps, and the lease of a dead one expires
(`statement_timestamp()` passes it). `Retention`: retention-apply is
run again for every policy with a late enough date, and its steps end.
`AuditRevisions`: steps end, and pool and lock serve their queues in order
(strong fairness of `Acquire` and `Lock`); PostgreSQL and pgxpool do.
Everything else is checked without fairness.

## 4. Proofs

All theorems hold for every value of the constants, under the assumptions the
modules name: that bounds and times are natural numbers, that the values for "none"
are not among the others, that there are options to set up with and a storage
budget, that evidence is finite and has a policy, that requests and kinds of work have
their fields and that what they count is not negative, that rows are finitely many, and
that recommendation ids are distinct. TLC evaluates these on every run. Every invariant
below is a conjunction of named parts; where the property of a run is not inductive,
the part that makes it so is named.

**`CollectorProofs`** of `Collector`, for any files, limits and numbers of
processes, edits and faults: `CollectorTypeOK`, `CollectorInvariant` (`IInv`),
`CollectorReadsNotTorn`, `CollectorEvidenceCoversCursor`,
`CollectorUniqueAliases`, `CollectorCursorMovesForward`. Fences tell processes
apart (`FenceHeld`, `FencesDistinct`), so nobody but the holder of the row's fence
moves the cursor, so what a holder has read is what the row holds
(`ReadsNotTorn`), so every commit extends a prefix that is covered
(`EvidenceCoversCursor`), under aliases not used before (`UniqueAliases`).
`EvidenceCoversCursor` alone is not inductive: a commit could start from a
position nobody read. `CollectorQuarantineMatchesOutcome` and
`CollectorNoRejectedLineStored` follow from what one run carries to its commit or to
its end (`RunsSound`): past the collection it holds accepted lines only, and a
quarantine is written by the step that ends it. The refinement
`CollectorImplementsEvidenceLog` takes `NoGaps` as well: the records of a generation
are numbered from one without a gap, so that the log they are read as is the sequence
a commit extends.

**`DimensionsProofs`** of `Dimensions` alone: `DimensionsInvariant`,
`DimensionsAsOfDetermined`, `DimensionsHistoryKept`. That reads by time are
determined needs `RangesOrdered` (a version with a smaller number ends before one
with a greater begins, and is not empty) and `HasCurrent` (there is an open version to close).

**`IngestProofs`**, for any clients, lines, batches and versions:
`IngestImplementsDimensions` shows that every step of `Ingest` is a step of
`Dimensions` or leaves versions alone; `IngestAsOfDetermined` and `IngestHistoryKept`
carry the theorems over. `IngestLastBatchReplays` (a replay, or refused for the budget:
never a conflict or a second commit) rests on `LastStored`: the cursor row
is the one the last batch left, its records are stored, and no client ever builds a
batch without generation. `IngestInvariant` adds `LineageInv`: batches number their
records in source order, rows and keys are well formed (`DbOK`), and a stored record
without complete lineage shows in the row of its session (`CoverageRecorded`), which is
what makes `IngestSessionAuditHonest` true of records the audit does not read.
`IngestLineageKept` and `IngestParentsLinked` are about the statements of one
transaction, a fold over two passes through the batch: that rows are kept, and that the
second pass finds every parent the first has written, holds after every prefix of the
statements, shown by the least number at which it fails (`LeastOf`).

**`RetentionProofs`** of `Retention`, for any evidence, policies and number of
processes: `RetentionTypeOK`, `RetentionDeletedWasArchived`,
`RetentionHoldBeforeApplyWins`, `RetentionAppliedOnce`,
`RetentionRevisionsHaveEvidence`, `RetentionRevisionsOutliveEvidence`,
`RetentionLineageMatchesEvidence`. One lemma, `DeletedAsPlanned`, says that a row
deleted is the row that was planned and is eligible in the snapshot of the transaction:
the rows it locks have not changed, or it would conflict. With `PlansArchived` (from the
archive on, the plan of a process is in a verified archive) follows that what is deleted
was archived; `DeletedWasArchived` alone says nothing of plans still to be applied.

**`AuditRevisionsProofs`** of `AuditRevisions`, for any number of audits,
connections and windows: `AuditRevisionsInvariant` (`RevisionsInv`),
`AuditRevisionsTypeOK`, `AuditLockNotPooled`, `AuditSnapshotsCurrent`,
`AuditLinksMatchContent`, and the refinement `AuditRevisionsImplementsLog`.
`LockNotPooled` is not inductive: a lock ends with its audit only because a
connection is used by one audit (`ConnsHeld`) and a lock is taken once
(`LocksHeld`). From these two follows that audits of a window exclude one another
(`OneAuditPerWindow`), hence that a snapshot keeps all revisions of its window
(`SnapshotsCurrent`) with their numbers (`NumbersKept`), hence that a commit
appends to the chain that is stored and not to the one it has read. That a latest
revision exists is well-founded induction over the numbers.

**`McpServiceProofs`** of `McpService`, for any number of clients, calls, slots and
cache sizes: `McpServiceInvariant` (`ServiceInv`), `McpCachesBounded`,
`McpSlotsMatchCalls`, `McpStateKept`, also when keys are used again. Every state is
within its limits (`StatesOK`). That the slots match the calls takes the finiteness of both
(`CountInv`).

**`SetupProofs`** of `Setup`, for any option sets and numbers of edits and faults:
`SetupTypeOK`, `SetupInvariant` (`Inv`), `SetupNoDeadEnd`, `SetupUserFilesKept`,
`SetupFailedInstallUndone`, `SetupOutcomesTrue`. The invariant says for each label of a
command what is on disk: what an uninstall has staged and where it came from
(`StagedInv`), what an install found and wrote (`InstallInv`) and an uninstall removed
(`UninstallInv`) as long as nobody interferes, which registration it found or may have
made (`RegistrationInv`), that without edits and faults a command starts and ends with
all or nothing installed (`SettledInv`), and that without edits of the user
everything on disk belongs to one set of options (`AcceptInv`), after any number of
crashes. `NoDeadEnd` is its first conjunct and not inductive: a command that has looked
at half of the files must not have accepted them for other options.

**`GovernanceProofs`** of `Governance`, for any history of rows, any requests and any
order of audits, late rows, changes and feedback: `GovernanceInvariant` (`AuditInv`),
`GovernanceSuppressedDisclosesNothing`, `GovernanceRecommendationsGated`,
`GovernanceReauditStable`, `GovernanceNarrowScopeIsolated`. Suppression is shown once
for the snapshot and carried through metrics, detectors, recommendations and decision:
without complete coverage a result has no value and a status that depends on nothing
else (`PartialResult`), and its sample and the detectors count only what is no usage
(`UsageWithheld`). That an audit asked again computes what it computed
(`LastAnswer`) takes that storing it does not change what it reads: the last word on a
finding is afterwards the one it was or the audit's own proposal, and there is one last
word, because ids order recommendations totally (`RecsOK`) and a finite set has a
newest. A narrow scope is isolated because its rows are selected before anything is
computed from them; only the excluded counts look at others (`OwnCounts`).

`GovernanceWorkloadExact` and `GovernanceImprovedIsBetter` are about the numbers an
audit stores. Their invariant is `ContentsInv`: the rows make sense (`RowsTyped`), and
the content of every revision is exact and deserves what it claims; a revision found
again keeps its content, so that it is enough to look at one audit (`ContentGood`).
Everything measured of such rows is a natural number (`MetricsTyped`), every metric
that has a value has a fraction that is not negative (`RatioTyped`), and classes of
workload have turns (`SharesTyped`).

- The decomposition is exact (`DecomposeExact`) for any classes and numbers. Fractions
  are compared by `Equal`, as `Plus` does not reduce them. A fold over a finite set
  exists and its partial sums are those of its subsets (`FoldExists`, `SumFracIs`); that
  sums do not depend on their order (`SumOfRest`), that classes absent from a window add
  nothing (`SumExtended`) and that sums agree where their terms do (`SumsAgree`) is
  shown by the least subset for which it fails (`LeastSet`), in place of the induction
  over finite sets the provers cannot instantiate. For one class, mix and rate effects
  make what its tokens are more than the old ones at the new volume (`ClassEffect`); the
  volume effect is the rest (`VolumeEffect`).
- A status "improved" (`ImprovedFacts`): a value of each rank exists among finitely many
  fractions (`RankExists`), so that the median is a fraction with a denominator
  (`MedianAmount`); the sign of a relative effect is then the order of the two values,
  baselines of zero included (`EffectSign`). The code tests the direction against the
  median only: that the last two steps went the same way follows from the persistence
  count, their practical threshold (`DirectionSign`) and the absence of a sign conflict.

Only model-checked: liveness (`EventuallyCaughtUp`, `EventuallyPurged`,
`EveryAuditEnds`), as the prover has neither fairness nor `ENABLED`. Every invariant and
every action property of a passing run is a theorem.

## 5. Plan

1. Boundary and policy decisions as operators against a reference definition.
2. Keystore and recovery archives as small crash-recovery models.
3. A run of `AuditRevisions` with two windows, once liveness is checked apart.

## 6. Not modelled

Text: compiler, lint, reports, CLI parsing and JSON schemas, whose results are
strings. SQL run once: migrations, roles, maintenance. Attribution, outliers and
confounder strata: no program writes the confounder labels they read, or calls
them in an audit. The boundary engine and policy packs: decision tables without
state, which would be copied rather than checked without a reference that is not
the code itself. Key files and recovery archives: cryptography and file formats,
the order of their writes is planned. The prompt corpus of the evaluation harness,
the installer script and generated or vendored files. `PROJECT.json` gives the
reason for each component.
