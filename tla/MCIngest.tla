------------------------------ MODULE MCIngest ------------------------------
(* Small instances of Ingest for TLC. *)
EXTENDS Ingest

CONSTANTS first, child, late, unturned, orphan

Session == "session_alias" :> "S" @@ "trajectory_alias" :> "T"

\* A response that completes, with usage; a child response that calls a tool and
\* names the first as its parent; a record of the first response again that names
\* the child as parent; a turn without ordinal; a response of such a turn.
LineAttributes ==
     first    :> (Session @@ "turn_alias" :> "U1" @@ "turn_ordinal" :> 0 @@ "response_lineage" :> "R1"
                  @@ "response_event" :> "completed" @@ "usage_kind" :> "total" @@ "usage_value" :> 1
                  @@ "task_alias" :> "K" @@ "task_attribution_state" :> "attributed")
  @@ child    :> (Session @@ "turn_alias" :> "U1" @@ "turn_ordinal" :> 0 @@ "response_lineage" :> "R2"
                  @@ "parent_response_alias" :> "R1" @@ "tool_call_alias" :> "C" @@ "state_epoch" :> "E"
                  @@ "stop_event" :> "done" @@ "output_modality" :> "image")
  @@ late     :> (Session @@ "turn_alias" :> "U1" @@ "turn_ordinal" :> 0 @@ "response_lineage" :> "R1"
                  @@ "parent_response_alias" :> "R2" @@ "plan_hash" :> "h" @@ "plan_phase_scope" :> "p"
                  @@ "approval_boundary_class" :> "b")
  @@ unturned :> (Session @@ "turn_alias" :> "U2" @@ "phase" :> "work" @@ "checkpoint_event" :> "saved")
  @@ orphan   :> (Session @@ "turn_alias" :> "U2" @@ "response_lineage" :> "R3")

Symmetry == Permutations(Fences) \cup Permutations(VersionIDs)

LineAttributesOf == [l \in Lines |-> LineAttributes[l]]
=============================================================================
