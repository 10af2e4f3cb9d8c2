------------------------------- MODULE Lineage -------------------------------
(***************************************************************************)
(* What a collected line becomes in the database: evidence.go keeps the    *)
(* attributes its source may have, collector/postgres.go turns them into   *)
(* lineage and runtime observations, and CommitCollection of repository.go *)
(* writes a row for each into tables that constrain one another.           *)
(*                                                                         *)
(* A table is a function from primary keys to rows; a statement either     *)
(* inserts or merges one row or fails, and a failed statement aborts its   *)
(* transaction.  Aliases are opaque: the keyed hash of a value is the pair *)
(* of its domain and the value.  Rows of governance overhead need an audit *)
(* revision to hang on and are not part of this module.                    *)
(***************************************************************************)
EXTENDS Naturals, Sequences, FiniteSets, SequencesExt

CONSTANTS
  Attributes,  \* line -> its attributes, a function from field names to values
  SourceKind,  \* kind of the source the lines belong to
  Project,     \* project_id of the source's configuration, or None
  None         \* SQL NULL, an absent attribute

VARIABLE db    \* table -> primary key -> row

-----------------------------------------------------------------------------
(* evidence.go *)

\* Fields by source; those of git, github, configuration and process name no lineage.
allowedAttributes ==
  [ codex_jsonl        |-> { "session_alias", "trajectory_alias", "task_alias", "task_attribution_state",
                             "turn_alias", "turn_ordinal", "phase", "response_lineage", "parent_response_alias",
                             "response_event", "tool_call_alias", "tool_outcome", "state_epoch", "mutation_state",
                             "output_modality", "model_variant", "reasoning_effort", "usage_kind", "usage_value",
                             "cache_kind", "cache_value", "checkpoint_event", "boundary_event", "delegation_event",
                             "stop_event", "compaction_event", "plan_hash", "plan_phase_scope",
                             "approval_boundary_class", "budget_enforcement", "budget_delegation_policy",
                             "budget_exhaustion_outcome", "policy_schema_version", "policy_hash",
                             "raw_prompt_retention", "telemetry", "host_capability_name", "host_capability_state",
                             "project_attribution_confidence" },
    codex_state_sqlite |-> { "thread_alias", "trajectory_alias", "model_variant", "reasoning_effort" },
    rollout_summary    |-> { "session_alias", "trajectory_alias", "delegation_parent" } ]

\* Allowed names that contain a fragment of sensitiveKey: never kept.
sensitiveKey == {"raw_prompt_retention", "reasoning_effort"}

keyedAttribute == { "session_alias", "thread_alias", "trajectory_alias", "delegation_parent", "task_alias",
                    "turn_alias", "response_lineage", "parent_response_alias", "tool_call_alias", "state_epoch" }

aliasDomain(f) ==
  CASE f \in {"session_alias", "thread_alias"}            -> "session"
    [] f \in {"trajectory_alias", "delegation_parent"}    -> "trajectory"
    [] f \in {"response_lineage", "parent_response_alias"} -> "response"
    [] OTHER                                              -> f

\* The sanitised attributes of a line the adapter accepts.
Sanitize(line) ==
  LET given == Attributes[line]
  IN  [ f \in (DOMAIN given \cap allowedAttributes[SourceKind]) \ sensitiveKey |->
          IF f \in keyedAttribute THEN <<aliasDomain(f), given[f]>> ELSE given[f] ]

Get(a, f) == IF f \in DOMAIN a THEN a[f] ELSE None
Coalesce(x, y) == IF x # None THEN x ELSE y

ParseLineage(a) ==
  [ session        |-> Coalesce(Get(a, "session_alias"), Get(a, "thread_alias")),
    trajectory     |-> Get(a, "trajectory_alias"),
    parent         |-> Get(a, "delegation_parent"),
    task           |-> Get(a, "task_alias"),
    turn           |-> Get(a, "turn_alias"),
    ordinal        |-> Get(a, "turn_ordinal"),
    response       |-> Get(a, "response_lineage"),
    parentResponse |-> Get(a, "parent_response_alias"),
    tool           |-> Get(a, "tool_call_alias") ]

\* Child lineage that cannot be stored without guessing.
Incomplete(l) ==
  \/ l.trajectory # None /\ l.session = None
  \/ l.turn # None /\ (l.trajectory = None \/ l.ordinal = None)
  \/ l.response # None /\ l.turn = None
  \/ l.tool # None /\ l.response = None

LineageOf(line) == ParseLineage(Sanitize(line))
CoverageOf(line) == IF Incomplete(LineageOf(line)) THEN "partial" ELSE "complete"

-----------------------------------------------------------------------------
(* collector/postgres.go: the snapshots a record carries, whole or not at all *)

PlanFields   == {"plan_hash", "plan_phase_scope", "approval_boundary_class"}
BudgetFields == {"budget_enforcement", "budget_delegation_policy", "budget_exhaustion_outcome"}
PolicyFields == {"policy_schema_version", "policy_hash", "raw_prompt_retention", "telemetry"}
HostFields   == {"host_capability_name", "host_capability_state"}

anyAttribute(a, fields) == DOMAIN a \cap fields # {}
AllOrNone(a, fields) == anyAttribute(a, fields) => fields \subseteq DOMAIN a

parseReplaySnapshots(a) ==
  /\ \A fields \in {PlanFields, BudgetFields, PolicyFields, HostFields} : AllOrNone(a, fields)
  /\ anyAttribute(a, BudgetFields) => anyAttribute(a, PlanFields)
  /\ "project_attribution_confidence" \in DOMAIN a => "task_attribution_state" \in DOMAIN a

validateCollectionEvidence(a) ==
  /\ anyAttribute(a, PlanFields \cup PolicyFields) => Project # None
  /\ anyAttribute(a, HostFields) => ParseLineage(a).session # None

-----------------------------------------------------------------------------
(* Statements *)

Tables == { "sessions", "trajectories", "tasks", "turns", "responses", "phases", "items", "state_epochs",
            "tool_calls", "execution_events", "evidence_links", "observations" }

\* Foreign keys: table, column, table referred to.
ForeignKeys ==
  { <<"trajectories", "session", "sessions">>, <<"trajectories", "parent", "trajectories">>,
    <<"turns", "trajectory", "trajectories">>, <<"turns", "task", "tasks">>,
    <<"responses", "turn", "turns">>, <<"responses", "parent", "responses">>,
    <<"phases", "trajectory", "trajectories">>, <<"phases", "response", "responses">>,
    <<"items", "response", "responses">>, <<"state_epochs", "trajectory", "trajectories">>,
    <<"tool_calls", "response", "responses">>, <<"tool_calls", "phase", "phases">>,
    <<"tool_calls", "epoch", "state_epochs">>,
    <<"execution_events", "session", "sessions">>, <<"execution_events", "trajectory", "trajectories">>,
    <<"execution_events", "parent", "trajectories">>, <<"execution_events", "response", "responses">>,
    <<"execution_events", "phase", "phases">>, <<"execution_events", "related", "execution_events">>,
    <<"observations", "trajectory", "trajectories">>, <<"observations", "response", "responses">> }

\* Columns an ON CONFLICT clause sets: the first value known, the last one known,
\* the new value in any case.  Every other column keeps its first value.
FirstKnown == {<<"trajectories", "parent">>, <<"turns", "task">>, <<"responses", "parent">>}
LastKnown  == { <<"responses", "completed">>, <<"responses", "model">>, <<"tool_calls", "outcome">>,
                <<"tool_calls", "phase">>, <<"tool_calls", "epoch">> }
Replaced   == {<<"tasks", "attribution">>, <<"state_epochs", "mutation">>}

\* Mutant: the latest coverage of a session counts.
sessionCoverage_Latest(old, new) == new

\* A session that was complete is so no longer; one that was not stays as it is.
sessionCoverage(old, new) == IF old = "complete" THEN new ELSE old

\* Mutant: columns that keep what is known take the new value, NULL included.
Merge_Latest(t, old, new) ==
  [ c \in DOMAIN old |->
      IF t = "sessions" THEN sessionCoverage(old[c], new[c])
      ELSE IF <<t, c>> \in FirstKnown THEN Coalesce(old[c], new[c])
      ELSE IF <<t, c>> \in LastKnown \cup Replaced THEN new[c]
      ELSE old[c] ]

Merge(t, old, new) ==
  [ c \in DOMAIN old |->
      IF t = "sessions" THEN sessionCoverage(old[c], new[c])
      ELSE IF <<t, c>> \in FirstKnown THEN Coalesce(old[c], new[c])
      ELSE IF <<t, c>> \in LastKnown THEN Coalesce(new[c], old[c])
      ELSE IF <<t, c>> \in Replaced THEN new[c]
      ELSE old[c] ]

\* existingLineageID: a parent that is not stored yet is left out.
existingLineageID(d, t, row) ==
  IF t \in {"trajectories", "responses"} /\ row.parent \notin DOMAIN d[t]
  THEN [row EXCEPT !.parent = None]
  ELSE row

Refers(d, t, row) ==
  \A fk \in ForeignKeys : fk[1] = t => row[fk[2]] \in {None} \cup DOMAIN d[fk[3]]

\* turns_trajectory_ordinal_uq
OrdinalFree(d, k, row) ==
  \A j \in DOMAIN d.turns \ {k} :
    <<d.turns[j].trajectory, d.turns[j].ordinal>> # <<row.trajectory, row.ordinal>>

\* INSERT ... ON CONFLICT; tx is the transaction so far.
Exec(tx, s) ==
  LET d   == tx.db
      new == existingLineageID(d, s.t, s.row)
      row == IF s.k \in DOMAIN d[s.t] THEN Merge(s.t, d[s.t][s.k], new) ELSE new
  IN  IF tx.ok /\ Refers(d, s.t, row) /\ (s.t = "turns" => OrdinalFree(d, s.k, row))
      THEN [tx EXCEPT !.db[s.t] = [k \in DOMAIN @ \cup {s.k} |-> IF k = s.k THEN row ELSE @[k]]]
      ELSE [tx EXCEPT !.ok = FALSE]

When(c, t, k, row) == IF c THEN <<[t |-> t, k |-> k, row |-> row]>> ELSE <<>>

\* Rows of execution_events have the columns of every kind of event.
Event(id, kind, c, columns) ==
  When(c, "execution_events", <<id, kind>>,
       [x \in {"session", "trajectory", "parent", "response", "phase", "related"} |->
          IF x \in DOMAIN columns THEN columns[x] ELSE None])

\* An item is an evidence identity and the sanitised attributes of its line.
ItemOf(id, line) == [id |-> id, coverage |-> CoverageOf(line), a |-> Sanitize(line)]

normalizedAttributionState(a) == Coalesce(Get(a, "task_attribution_state"), "unknown")

persistSpine(i, l) ==
     When(TRUE, "sessions", l.session, [coverage |-> i.coverage])
  \o When(l.trajectory # None, "trajectories", l.trajectory, [session |-> l.session, parent |-> l.parent])
  \o When(l.task # None, "tasks", l.task, [attribution |-> normalizedAttributionState(i.a)])
  \o When(l.turn # None /\ l.trajectory # None /\ l.ordinal # None, "turns", l.turn,
          [trajectory |-> l.trajectory, ordinal |-> l.ordinal, task |-> l.task])
  \o When(l.response # None /\ l.turn # None, "responses", l.response,
          [ turn |-> l.turn, parent |-> l.parentResponse, model |-> Get(i.a, "model_variant"),
            completed |-> IF Get(i.a, "response_event") = "completed" THEN i.id ELSE None ])

ToolPhase(l) == l.tool # None /\ l.response # None /\ l.trajectory # None
ToolPhaseID(l) == <<"tool", l.response>>
RuntimePhaseID(i) == <<"phase">> \o i.id
RuntimePhase(i, l) == Get(i.a, "phase") # None /\ l.trajectory # None

persistCalls(i, l) ==
     When(RuntimePhase(i, l), "phases", RuntimePhaseID(i), [trajectory |-> l.trajectory, response |-> l.response])
  \o When(ToolPhase(l), "phases", ToolPhaseID(l), [trajectory |-> l.trajectory, response |-> l.response])
  \o When(l.response # None /\ Get(i.a, "output_modality") # None, "items", i.id, [response |-> l.response])
  \o When(Get(i.a, "state_epoch") # None /\ l.trajectory # None, "state_epochs", Get(i.a, "state_epoch"),
          [trajectory |-> l.trajectory, mutation |-> Coalesce(Get(i.a, "mutation_state"), "unknown")])
  \o When(l.tool # None /\ l.response # None, "tool_calls", l.tool,
          [ response |-> l.response, phase |-> IF ToolPhase(l) THEN ToolPhaseID(l) ELSE None,
            epoch |-> Get(i.a, "state_epoch"), outcome |-> Get(i.a, "tool_outcome") ])

persistEvents(i, l) ==
  LET has(f) == Get(i.a, f) # None
      phase  == IF ToolPhase(l) THEN ToolPhaseID(l)
                ELSE IF RuntimePhase(i, l) THEN RuntimePhaseID(i) ELSE None
  IN   Event(i.id, "delegation", has("delegation_event") /\ l.trajectory # None,
             [trajectory |-> l.trajectory, parent |-> l.parent])
    \o Event(i.id, "compaction", has("compaction_event") /\ l.trajectory # None,
             [trajectory |-> l.trajectory, response |-> l.response])
    \o Event(i.id, "stop", has("stop_event") /\ l.trajectory # None,
             [trajectory |-> l.trajectory, phase |-> phase])
    \o Event(i.id, "checkpoint", has("checkpoint_event"), [session |-> l.session])
    \o Event(i.id, "boundary", has("boundary_event"), [session |-> l.session])

persistReplaySnapshots(i, l) ==
     Event(i.id, "plan", anyAttribute(i.a, PlanFields), [session |-> l.session])
  \o Event(i.id, "budget", anyAttribute(i.a, BudgetFields),
           [session |-> l.session, related |-> <<i.id, "plan">>])
  \o Event(i.id, "policy", anyAttribute(i.a, PolicyFields), [session |-> l.session])
  \o Event(i.id, "host", anyAttribute(i.a, HostFields), [session |-> l.session])

persistEvidenceLineage(i) ==
  LET l == ParseLineage(i.a)
  IN  IF l.session = None THEN <<>>
      ELSE persistSpine(i, l) \o persistCalls(i, l) \o persistEvents(i, l) \o persistReplaySnapshots(i, l)

\* The link to the trajectory is not a foreign key.
persistRuntimeObservations(i) ==
  LET l == ParseLineage(i.a)
      observed == [trajectory |-> l.trajectory, response |-> l.response]
      neither  == [trajectory |-> None, response |-> None]
  IN   When(l.trajectory # None, "evidence_links", i.id, [target |-> l.trajectory])
    \o When(TRUE, "observations", <<i.id, "assertion">>, neither)
    \o When(Project # None /\ Get(i.a, "task_attribution_state") # None, "observations",
            <<i.id, "attribution">>, neither)
    \o When(Get(i.a, "usage_kind") # None /\ Get(i.a, "usage_value") # None, "observations",
            <<i.id, "usage">>, observed)
    \o When(Get(i.a, "cache_kind") # None /\ Get(i.a, "cache_value") # None, "observations",
            <<i.id, "cache">>, observed)

-----------------------------------------------------------------------------
(* A batch *)

Statements(items, op(_)) == FlattenSeq([n \in DOMAIN items |-> op(items[n])])

\* Mutant: the lineage of a batch is written once.
PersistBatch_OnePass(items) ==
  FoldLeft(Exec, [ok |-> TRUE, db |-> db],
           Statements(items, persistEvidenceLineage) \o Statements(items, persistRuntimeObservations))

\* The lineage of all records, once more for the parents that came later in the
\* batch, then what hangs on the evidence itself.
PersistBatch(items) ==
  FoldLeft(Exec, [ok |-> TRUE, db |-> db],
           Statements(items, persistEvidenceLineage) \o Statements(items, persistEvidenceLineage)
             \o Statements(items, persistRuntimeObservations))

LineageInit == db = [t \in Tables |-> << >>]
=============================================================================
