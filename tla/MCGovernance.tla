---------------------------- MODULE MCGovernance ----------------------------
(* Small instances of Governance for TLC. *)
EXTENDS Governance

T(kind, outcome, inEpoch, caller) == [kind |-> kind, outcome |-> outcome, inEpoch |-> inEpoch, caller |-> caller]

Calls ==
  << T("shell", "success", TRUE, None), T("shell", "success", TRUE, 1), T("shell", "success", TRUE, 1),
     T("edit", "success", TRUE, None), T("validation", "success", TRUE, 4) >>

\* A turn of task K on trajectory T of session S with every kind of evidence.
Base ==
  [ session |-> "S", traj |-> "T", task |-> "K", tools |-> Calls, mutates |-> TRUE, boundary |-> "allowed",
    checkpoint |-> "complete", tokens |-> 10, nonCached |-> 4, results |-> 5, oversized |-> 0,
    commentary |-> 1, wall |-> 1, active |-> 1, phased |-> TRUE, coverage |-> "complete", redacted |-> TRUE,
    governance |-> FALSE, lag |-> 0 ]

Kinds ==
  [ base      |-> Base,
    lean      |-> [Base EXCEPT !.nonCached = 3],
    leaner    |-> [Base EXCEPT !.nonCached = 2],
    heavy     |-> [Base EXCEPT !.nonCached = 7],
    heavier   |-> [Base EXCEPT !.nonCached = 10],
    faulty    |-> [Base EXCEPT !.tools[1].outcome = "error"],
    \* polls, and a call it made is made by a call of an earlier turn
    poll      |-> [Base EXCEPT !.tools[1].kind = "passive_wait", !.tools[1].caller = 0, !.tools[4].caller = 0],
    sibling   |-> [Base EXCEPT !.traj = "U", !.task = None, !.tokens = 6, !.checkpoint = "incomplete"],
    other     |-> [Base EXCEPT !.traj = "U", !.task = None, !.wall = 1, !.governance = TRUE],
    partial   |-> [Base EXCEPT !.coverage = "partial", !.wall = None, !.active = 0],
    straddle  |-> [Base EXCEPT !.lag = 1, !.wall = 2],
    governing |-> [Base EXCEPT !.governance = TRUE, !.tools = << >>, !.boundary = None, !.checkpoint = None],
    foreign   |-> [Base EXCEPT !.session = "Z", !.traj = "Y", !.task = None] ]

Rows(kind, ats) == {[kind |-> kind, at |-> t, overhead |-> FALSE] : t \in ats}
Even(a, b) == {t \in a .. b : t % 2 = 0}

\* Two windows that lead to a better one, with a sibling and another project beside
\* them; the weekly windows only, with a gap in which a late turn ends; two that were
\* worse.  The window under audit starts at 60.
Improving == Rows("base", Even(44, 56)) \cup Rows("lean", {58}) \cup Rows("leaner", {60, 61}) \cup Rows("other", {59})
             \cup Rows("foreign", {60})
Weekly    == Rows("base", {4, 18, 32, 46, 58, 60}) \cup Rows("sibling", {61})
Recovered == Rows("base", Even(44, 54)) \cup Rows("heavier", {56}) \cup Rows("heavy", {58}) \cup Rows("base", {60})

\* Enough turns to be shown, with a sibling in the same window.
Crowded   == Rows("base", {58, 60, 61}) \cup Rows("lean", {60}) \cup Rows("sibling", {61})

Usual   == {Improving, Weekly, Recovered, Crowded}
Relapse == {Recovered}

Request(scope, ref, start, asOf) == [scope |-> scope, ref |-> ref, start |-> start, asOf |-> asOf, sources |-> {"A"}]

Asked ==
  { Request("project", "P", 60, 61), Request("project", "P", 60, 62), Request("portfolio", "all", 60, 62),
    Request("task", "K", 60, 62), Request("trajectory", "T", 60, 62) }

Arrival(kind, at) == [kind |-> kind, at |-> at]

Late == { Arrival("poll", 61), Arrival("base", 59), Arrival("sibling", 60), Arrival("partial", 61),
          Arrival("straddle", 51), Arrival("governing", 61) }

Projects == [S |-> "P", Z |-> "Q"]
Sources  == [S |-> "A", Z |-> "A"]
First    == [P |-> "P1", Q |-> "Q1", A |-> "A1"]
Changes  == [P |-> {}, Q |-> {}, A |-> {60}]

\* Any numbers that differ will do.
CodeNumber ==
  [ scope_attribution_gap |-> 4, checkpoint_gap |-> 2, passive_polling |-> 6, repeated_unchanged_call |-> 1,
    missing_validation |-> 3, privacy_redaction_gap |-> 5 ]
IDs == [x \in ProjectRecommendations |-> 100 * x[1][3] - 10 * x[2] + CodeNumber[x[3]]]
=============================================================================
