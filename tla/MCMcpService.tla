--------------------------- MODULE MCMcpService ---------------------------
(* Small instances of McpService for TLC. *)
EXTENDS McpService, TLC

CONSTANTS r1, r2, h1

\* The projects audited are revisions of one reference, the sessions have another.
OneReference == [h \in Hashes |-> r2]

Compile(tools, texts) == [tool : tools, text : texts, policy : {2}]

\* Requests that save, read and are refused; the last report does not name the audit's
\* reference.
MixedRequests ==
  Compile({"improve_prompt"}, {"line"})
    \cup [tool : {"get_checkpoint"}, latest : {TRUE}]
    \cup [tool : {"audit_session"}, ref : {r1}, consent : {"granted"}, sources : {{"git"}}]
    \cup [tool : {"audit_project"}, ref : {r2}, consent : {"granted"}, sources : {{"git"}}]
    \cup { [tool |-> "render_governance_report", ref |-> r2, hash |-> h1],
           [tool |-> "render_governance_report", ref |-> r2, hash |-> None], Malformed }

Symmetry == Permutations(Calls) \cup Permutations(Sessions)
=============================================================================
