----------------------------- MODULE Governance -----------------------------
(***************************************************************************)
(* audit_project on PostgreSQL: governance.go reads the rows of a scope    *)
(* and window, compares them with the 29 windows before, and stores what   *)
(* audit.go makes of them as a revision of the window.                     *)
(*                                                                         *)
(* A row stands for everything the database holds of one turn, or of one   *)
(* record outside any turn: what it is like is given by its kind, when it  *)
(* happened by its time.  Collection, also of late rows, changes of        *)
(* dimension versions and feedback on recommendations interleave with      *)
(* audits.  An audit is one step: AuditRevisions shows what its lock and   *)
(* its transaction are worth.  An audit that is refused changes nothing.   *)
(*                                                                         *)
(* Nothing in the repository writes a confounder of a trajectory: the      *)
(* confounder signature is "unknown" everywhere and the strata are empty.  *)
(* The limits of 100 references and 50 kB of result are out of reach here. *)
(***************************************************************************)
EXTENDS Metrics, Dimensions

CONSTANTS
  Work,        \* kind -> what a row of that kind holds, see WorkFields
  ProjectOf,   \* session -> project_id
  SourceOf,    \* session -> source_id
  Histories,   \* sets of rows the database may hold at first
  Arrivals,    \* rows, without their overhead, that may be collected later
  Requests,    \* requests: scope, reference, starts_at, as_of, sources
  Duration,    \* ends_at - starts_at of a request
  FirstIDs,    \* identity -> id of its first version
  FirstState,  \* state of the first version
  ChangeTimes, \* identity -> times at which its version may change
  FeedbackTimes, Cooldown,  \* when users decide, how long a dismissal holds
  RecommendationIDs,  \* <<window, revision number, finding>> -> recommendation_id
  MaxLate,     \* bound: rows collected
  MaxRevisions \* bound: audits stop once so many revisions are stored

VARIABLES
  rows,       \* turns, responses, tool calls, items, epochs, phases, events, usage, evidence
  revisions,  \* audit_windows, audit_revisions and what refers to them
  recs,       \* recommendations
  last        \* the last answer while nothing it depends on has changed, or None

vars == <<rows, versions, revisions, recs, last>>

WorkFields ==
  { "session", "traj", "task", "tools", "mutates", "boundary", "checkpoint", "tokens", "nonCached",
    "results", "oversized", "commentary", "wall", "active", "phased", "coverage", "redacted",
    "governance", "lag" }

Counted == {"tokens", "nonCached", "results", "oversized", "commentary"}

\* What is counted is not negative and a phase ends after it starts, by constraints of the
\* schema; responses that end before they start are left out.
ASSUME WorkAssumption ==
  \A k \in DOMAIN Work :
    /\ DOMAIN Work[k] = WorkFields
    /\ \A f \in Counted : Work[k][f] \in Nat
    /\ Work[k].wall # None => Work[k].wall \in Nat
    /\ Work[k].active \in Nat /\ Work[k].lag \in Int
    /\ IsFiniteSet(DOMAIN Work[k].tools)

ASSUME RowAssumption ==
  /\ \A H \in Histories : IsFiniteSet(H) /\ \A r \in H : r.kind \in DOMAIN Work /\ r.at \in Int
  /\ \A a \in Arrivals : a.kind \in DOMAIN Work /\ a.at \in Int

ASSUME RequestAssumption == \A q \in Requests : DOMAIN q = {"scope", "ref", "start", "asOf", "sources"}

ASSUME TimeAssumption ==
  /\ \A q \in Requests : q.asOf \in Int
  /\ FeedbackTimes \subseteq Int /\ Cooldown \in Int

-----------------------------------------------------------------------------
(* The rows of a request.  R is the set of rows, so that a property can ask *)
(* about fewer of them.                                                    *)

W(r) == Work[r.kind]

\* When the tool calls, items, phases, epochs, usage and evidence of a turn are seen.
Recorded(r) == r.at + W(r).lag

Narrow(q) == q.scope \in {"task", "trajectory"}

InWindow(q, t) == q.start <= t /\ t < q.start + Duration /\ t <= q.asOf

auditFilter(R, q, r) ==
  /\ SourceOf[W(r).session] \in q.sources
  /\ CASE q.scope = "portfolio"  -> TRUE
       [] q.scope = "project"    -> ProjectOf[W(r).session] = q.ref
       [] q.scope = "trajectory" -> W(r).traj = q.ref
       [] q.scope = "task"       -> \E p \in R : W(p).traj # None /\ W(p).traj = W(r).traj /\ W(p).task = q.ref

Scoped(R, q) == {r \in R : auditFilter(R, q, r)}
Sessions(R, q) == {W(r).session : r \in Scoped(R, q)}
Trajectories(R) == {W(r).traj : r \in R} \ {None}

Happened(R, q) == {r \in R : InWindow(q, r.at) /\ W(r).traj # None /\ auditFilter(R, q, r)}
Observed(R, q) == {r \in R : InWindow(q, Recorded(r)) /\ auditFilter(R, q, r)}

Turns(R, q) == {r \in Happened(R, q) : q.scope = "task" => W(r).task = q.ref}

\* Mutant: evidence of the sessions in scope.
evidenceScope_Session(R, q) == {r \in R : W(r).session \in Sessions(R, q) /\ InWindow(q, Recorded(r))}

\* Evidence by session; of a narrow scope, by the link to the trajectory.
evidenceScope(R, q) == Observed(R, q)

CallsOf(turns) == UNION {{[row |-> r, call |-> n] : n \in DOMAIN W(r).tools} : r \in turns}
Tool(c) == W(c.row).tools[c.call]
Known(q, turns) == {r \in turns : Recorded(r) <= q.asOf}

\* Intervals are united, not added.
Interval(from, length) == from .. from + length - 1
Union(intervals) == Cardinality(UNION intervals)

\* SUM of a column.
SumOf(field, S) == SumFunction([r \in S |-> W(r)[field]])

\* turns of the window, the ones of them known by now, their calls, and the rows whose
\* usage, events and evidence count.
Tally(turns, known, calls, usage, events, evidence) ==
  LET epochs == {r \in usage : W(r).mutates}
  IN  [ completedTurns       |-> Cardinality(turns),
        attributedTurns      |-> Cardinality({r \in turns : W(r).task # None}),
        boundaryDecisions    |-> Cardinality({r \in events : W(r).boundary # None}),
        boundaryViolations   |-> Cardinality({r \in events : W(r).boundary = "denied"}),
        checkpoints          |-> Cardinality({r \in events : W(r).checkpoint # None}),
        completeCheckpoints  |-> Cardinality({r \in events : W(r).checkpoint = "complete"}),
        totalTokens          |-> SumOf("tokens", usage),
        nonCachedInputTokens |-> SumOf("nonCached", usage),
        toolCalls            |-> Cardinality(calls),
        passiveWaitCalls     |-> Cardinality({c \in calls : Tool(c).kind = "passive_wait"}),
        repeatedCalls        |-> Cardinality({c \in calls : Tool(c).outcome = "repeated_unchanged"}),
        toolErrors           |-> Cardinality({c \in calls : Tool(c).outcome = "error"}),
        toolResults          |-> SumOf("results", known),
        oversizedResults     |-> SumOf("oversized", known),
        commentaryMessages   |-> SumOf("commentary", known),
        observableMutations  |-> Cardinality(epochs),
        validatedMutations   |->
          Cardinality({r \in epochs : \E c \in calls : /\ c.row = r /\ Tool(c).inEpoch
                                                        /\ Tool(c).kind = "validation" /\ Tool(c).outcome = "success"}),
        wallClockSeconds     |-> Union({Interval(r.at, W(r).wall) : r \in {t \in turns : W(t).wall # None}}),
        activeSeconds        |-> Union({Interval(Recorded(r), W(r).active) : r \in {u \in usage : W(u).phased}}),
        activeRuntimeKnown   |-> \E r \in usage : W(r).phased,
        acceptedEvidence     |-> Cardinality(evidence),
        redactedEvidence     |-> Cardinality({r \in evidence : W(r).redacted}),
        coverage             |-> IF evidence = {} THEN "missing"
                                 ELSE IF \E r \in evidence : W(r).coverage # "complete" THEN "partial"
                                 ELSE "complete",
        refs                 |-> evidence ]

metrics(R, q) ==
  Tally(Turns(R, q), Known(q, Turns(R, q)), CallsOf(Known(q, Turns(R, q))),
        {r \in Observed(R, q) : W(r).traj # None}, IF Narrow(q) THEN {} ELSE Observed(R, q), evidenceScope(R, q))

\* Observations of governance overhead, as the turns of an input of its own that is
\* complete and otherwise empty; they carry no tokens.
overhead(R, q) ==
  [Tally({}, {}, {}, {}, {}, {}) EXCEPT !.completedTurns = Cardinality({r \in Observed(R, q) : r.overhead}),
                                        !.coverage = "complete"]

toolRefs(R, q, field, value) == {c \in CallsOf(Known(q, Turns(R, q))) : Tool(c)[field] = value}

\* Versions of the project and of the source at the time of each turn of the window.
dimensionSignature(R, q) ==
  LET At(i, t) == {v \in versions : v.of = i /\ Covers(v, t) /\ v.from <= q.asOf}
  IN  UNION { { <<p.id, s.id>> : p \in At(ProjectOf[W(r).session], r.at), s \in At(SourceOf[W(r).session], r.at) } :
              r \in Happened(R, q) }

-----------------------------------------------------------------------------
(* Counts and shares *)

\* "a selected call whose parent is outside the scope/window is the host".
Host(c, calls) == Tool(c).caller = None \/ [c EXCEPT !.call = Tool(c).caller] \notin calls

\* As-of plays no part: the calls of the turns selected.
invocationCounts(R, q) ==
  LET Results(S) == Cardinality({c \in S : Tool(c).outcome = "success"})
      Counts(hosts, leaves) ==
        [ hostCalls |-> Cardinality(hosts), leafCalls |-> Cardinality(leaves),
          hostResults |-> Results(hosts), leafResults |-> Results(leaves) ]
      Split(calls) ==
        Counts({c \in calls : Host(c, calls)},
               {c \in calls : \A d \in calls : Tool(d).caller = None \/ [d EXCEPT !.call = Tool(d).caller] # c})
  IN  Split(CallsOf(Turns(R, q)))

ScopeCounts(trajectories, turns, tools, evidence) ==
  [ trajectories |-> trajectories, turns |-> turns, toolCalls |-> tools, evidence |-> evidence ]

\* What is included, and what of the same sessions is not.
reportScopeCounts(R, q) ==
  LET Counts(trajectories, turns, evidence) ==
        ScopeCounts(Cardinality(trajectories), Cardinality(turns), Cardinality(CallsOf(Known(q, turns))),
                    Cardinality(evidence))
      Of(candidates) ==
        Counts(Trajectories(candidates), {r \in candidates : W(r).traj # None /\ InWindow(q, r.at)},
               {r \in candidates : InWindow(q, Recorded(r))})
      Split(all, in) == [included |-> in, excluded |-> [f \in DOMAIN in |-> all[f] - in[f]]]
  IN  Split(Of({r \in R : W(r).session \in Sessions(R, q)}),
            Counts(Trajectories(Scoped(R, q)), Turns(R, q), evidenceScope(R, q)))

WorkloadClass(r) == IF W(r).task = None THEN "unknown" ELSE "codex_task"

\* Turns by class; the tokens of a trajectory are shared out by its turns.
ClassShares(turns, tokens) ==
  LET Of(t, c) == {r \in turns : W(r).traj = t /\ WorkloadClass(r) = c}
      In(t)    == {r \in turns : W(r).traj = t}
  IN  [ c \in {WorkloadClass(r) : r \in turns} |->
          [ count  |-> Frac(Cardinality({r \in turns : WorkloadClass(r) = c}), 1),
            tokens |-> SumFrac([ t \in Trajectories(turns) |->
                                 Frac(tokens[t] * Cardinality(Of(t, c)), Cardinality(In(t))) ]) ] ]

ClassValues(R, q, turns) ==
  ClassShares(turns, [ t \in Trajectories(turns) |->
                         SumOf("tokens", {r \in R : W(r).traj = t /\ InWindow(q, Recorded(r))}) ])

workloadValues(R, q) == ClassValues(R, q, Turns(R, q))

Share(project, class, v, total) ==
  [ project |-> project, class |-> class, numerator |-> v.tokens, denominator |-> v.count.n,
    state |-> IF v.count.n < 3 THEN "privacy_suppressed" ELSE "attributed",
    share |-> IF v.count.n < 3 \/ total.n = 0 THEN None ELSE Over(v.tokens, total) ]

contributions(R, q) ==
  LET Shares(p, values, total) == {Share(p, c, values[c], total) : c \in DOMAIN values}
      Of(turns, total) ==
        UNION { Shares(p, ClassValues(R, q, {r \in turns : ProjectOf[W(r).session] = p}), total) :
                p \in {ProjectOf[W(r).session] : r \in turns} }
  IN  Of(Turns(R, q), Total(workloadValues(R, q)).tokens)

reportSources(R, q) ==
  LET Source(evidence) ==
        [ fresh     |-> evidence # {},
          knowledge |-> IF evidence # {} THEN "observed" ELSE "unknown",
          redaction |-> IF \A r \in evidence : ~W(r).redacted THEN "unknown"
                        ELSE IF \A r \in evidence : W(r).redacted THEN "complete" ELSE "partial" ]
  IN  [ s \in {SourceOf[x] : x \in Sessions(R, q)} |->
          Source({r \in evidenceScope(R, q) : SourceOf[W(r).session] = s}) ]

-----------------------------------------------------------------------------
(* Snapshot *)

Prior(q, n) == [q EXCEPT !.start = q.start - n * Duration, !.asOf = q.start - (n - 1) * Duration]

\* The 29 windows before, nearest first (<< >> \o makes TLC compute them once).
priorWindows(R, q) ==
  LET Measured(input, results, comparable) ==
        [ values     |-> [m \in MetricNames |-> results[m].value],
          coverage   |-> input.coverage,
          comparable |-> comparable,
          guardrailsPass |-> guardrailsPass(results),
          valid      |-> ~invalidInput(input) ]
      Window(input, comparable) == Measured(input, Compute(input), comparable)
      signature == dimensionSignature(R, q)
  IN  << >> \o [ n \in 1 .. 29 |->
        Window(metrics(R, Prior(q, n)), dimensionSignature(R, Prior(q, n)) = signature) ]

\* The windows of a comparison by distance: the previous one, the seven before it and
\* the same day of the four weeks before.
ComparedWindows == 1 .. 8 \cup {14, 21, 28}

confoundersMatched(windows) ==
  windows[1].comparable /\ Cardinality({n \in 2 .. 29 : windows[n].comparable}) >= 3

\* The comparison of metric m in snapshot s.
comparisons(s, m) ==
  LET Window(n) == [ value |-> s.windows[n].values[m], coverage |-> s.windows[n].coverage,
                     comparable |-> s.windows[n].comparable, guardrailsPass |-> s.windows[n].guardrailsPass ]
  IN  [ previous           |-> Window(1),
        rolling            |-> [k \in 1 .. 7 |-> Window(k + 1)],
        seasonal           |-> [k \in 1 .. 4 |-> Window(7 * k)],
        confoundersMatched |-> s.matched,
        persistence        |-> persistenceState(ratio(m, s.input).value, Window(1).value, Window(2).value,
                                                registry[m].practical),
        privacySuppressed  |-> s.suppressed ]

\* Mutant: only tasks are small cohorts.
privacySuppressed_Task(q, input) == q.scope = "task" /\ input.completedTurns < 3

privacySuppressed(q, input) == Narrow(q) /\ input.completedTurns < 3

Suppressed(input) == [input EXCEPT !.refs = {}, !.coverage = "partial"]

NoInvocations == [hostCalls |-> 0, leafCalls |-> 0, hostResults |-> 0, leafResults |-> 0]

SnapshotOf(R, q, windows, found) ==
  LET suppress == privacySuppressed(q, found)
      input    == IF suppress THEN Suppressed(found) ELSE found
      Shown(value, nothing) == IF suppress THEN nothing ELSE value
      Sources(all) == IF suppress THEN [s \in DOMAIN all |-> [all[s] EXCEPT !.redaction = "suppressed", !.knowledge = "unknown"]]
                      ELSE all
  IN  [ reference     |-> <<Shown("plain", "opaque"), q.ref>>,
        scope         |-> q.scope, start |-> q.start, asOf |-> q.asOf,
        suppressed    |-> suppress,
        input         |-> input,
        overhead      |-> overhead(R, q),
        passiveRefs   |-> Shown(toolRefs(R, q, "kind", "passive_wait"), {}),
        repeatedRefs  |-> Shown(toolRefs(R, q, "outcome", "repeated_unchanged"), {}),
        windows       |-> [n \in ComparedWindows |-> windows[n]],
        matched       |-> confoundersMatched(windows),
        versions      |-> dimensionSignature(R, q),
        contributions |-> Shown(contributions(R, q), {}),
        invocations   |-> Shown(invocationCounts(R, q), NoInvocations),
        workload      |-> Shown({Decompose(workloadValues(R, Prior(q, 1)), workloadValues(R, q))}, {}),
        \* normalizeSnapshot puts the included counts of a suppressed scope with turns back.
        counts        |-> Shown(reportScopeCounts(R, q),
                                [ included |-> IF input.completedTurns = 0 THEN ScopeCounts(0, 0, 0, 0)
                                               ELSE ScopeCounts(0, input.completedTurns, input.toolCalls, input.acceptedEvidence),
                                  excluded |-> ScopeCounts(0, 0, 0, 0) ]),
        sources       |-> Sources(reportSources(R, q)) ]

Snapshot(R, q, windows) == SnapshotOf(R, q, windows, metrics(R, q))

projectIDForAudit(R, q) ==
  IF q.scope = "portfolio" THEN {None}
  ELSE IF q.scope = "project" THEN {q.ref}
  ELSE {ProjectOf[s] : s \in Sessions(R, q)}

\* The request is valid, every window of the comparison has consistent numbers, the
\* window has versions, and a narrow scope belongs to one project.
Answerable(R, q, windows) ==
  /\ q.asOf >= q.start
  /\ ~invalidInput(metrics(R, q))
  /\ dimensionSignature(R, q) # {}
  /\ \A n \in 1 .. 29 : windows[n].valid
  /\ Cardinality(projectIDForAudit(R, q)) = 1

-----------------------------------------------------------------------------
(* Recommendations made before *)

auditWindowKey(q) == <<q.scope, q.ref, q.start>>

\* The recommendations of projects there can be, and that they have different ids.
ProjectRecommendations ==
  {auditWindowKey(q) : q \in {q \in Requests : q.scope = "project"}} \X (1 .. MaxRevisions) \X DOMAIN candidate

ASSUME IDAssumption ==
  /\ MaxRevisions \in Nat
  /\ \A x \in ProjectRecommendations : RecommendationIDs[x] \in Int
  /\ \A x, y \in ProjectRecommendations : RecommendationIDs[x] = RecommendationIDs[y] => x = y

\* Revision numbers grow with the first audit of the window.
WindowAsOf(key) == (CHOOSE v \in revisions : v.key = key /\ v.num = 1).content.snapshot.asOf

RecommendationID(r) == RecommendationIDs[<<r.key, r.num, r.finding>>]

\* ORDER BY updated_at, as_of, revision_number, recommendation_id, all DESC.
Newer(r, s) ==
  \/ r.updated > s.updated
  \/ /\ r.updated = s.updated
     /\ \/ WindowAsOf(r.key) > WindowAsOf(s.key)
        \/ /\ WindowAsOf(r.key) = WindowAsOf(s.key)
           /\ \/ r.num > s.num
              \/ r.num = s.num /\ RecommendationID(r) > RecommendationID(s)

\* What is known at as_of of the recommendation for a finding that changed last.  The
\* rows of recommendation_events it looks at first are left out: nothing writes any.
Feedback(q, code) ==
  LET past == { r \in recs : /\ q.scope = "project" /\ r.scope = "project" /\ r.project = q.ref
                             /\ r.finding = code /\ r.created <= q.asOf }
      newest == CHOOSE r \in past : \A s \in past : ~Newer(s, r)
  IN  IF past = {} THEN [state |-> None, cooldown |-> 0, refs |-> {}]
      ELSE IF newest.updated > q.asOf THEN [state |-> "proposed", cooldown |-> 0, refs |-> newest.refs]
      ELSE [state |-> newest.state, cooldown |-> newest.cooldown, refs |-> newest.refs]

recommendationContext(q) == [code \in DOMAIN candidate |-> Feedback(q, code)]

-----------------------------------------------------------------------------
(* Run and persistAuditProject *)

\* applyComparisons: the results of the metrics as they are reported.
Reported(s, results) ==
  [ m \in MetricNames |->
      [ value  |-> results[m].value, sample |-> results[m].sample, refs |-> results[m].refs,
        status |-> Apply(m, results[m], comparisons(s, m)) ] ]

\* What audit.go makes of a snapshot.  The overhead has metrics of its own, which are
\* compared with nothing and are the same whenever the snapshot is.
Engine(q, s, results, findings) ==
      [ snapshot |-> s,
        results  |-> Reported(s, results),
        overhead |-> Compute(s.overhead),
        guardrails |-> [g \in Guardrails |-> guardrailState(g, results[g])],
        findings   |-> findings,
        recommended |-> Generate(findings, recommendationContext(q), q.asOf, guardrailsPass(results)) ]

Run(q, s) == Engine(q, s, Compute(s.input), detect(s))

\* What the revision hash covers.
Content(R, q, windows) == Run(q, Snapshot(R, q, windows))

RevisionsOf(key) == {v \in revisions : v.key = key}

decision(c) ==
  Decision(evaluationOutcome({c.results[m].status.status : m \in MetricNames}),
           qualityGate({c.guardrails[g] : g \in Guardrails}))

\* The revision of this content, or the next one of the window; evidence is linked to
\* either.
Revision(key, project, c, links) ==
  LET same == {v \in RevisionsOf(key) : v.content = c}
  IN  IF same # {} THEN [(CHOOSE v \in same : TRUE) EXCEPT !.links = @ \cup links]
      ELSE [ key |-> key, project |-> project, num |-> Cardinality(RevisionsOf(key)) + 1, content |-> c,
             links |-> links, decision |-> decision(c) ]

\* hasNewRevisionEvidence: the revision before has no link to some evidence of this one.
LateEvidence(v) == \E p \in revisions : p.key = v.key /\ p.num = v.num - 1 /\ ~(v.links \subseteq p.links)

\* Rows of recommendations; one for no_action is never read again and is left out.
Proposed(q, v) ==
  { [ key |-> v.key, num |-> v.num, scope |-> q.scope, project |-> v.project, finding |-> f.code, refs |-> f.refs,
      state |-> "proposed", created |-> q.asOf, updated |-> q.asOf, cooldown |-> 0 ] :
    f \in {f \in v.content.findings : f.code \in v.content.recommended} }

Stored(r) == \E s \in recs : s.key = r.key /\ s.num = r.num /\ s.finding = r.finding

\* The windows and the revision are bound by \E so that TLC computes them once.
AuditProject(q) ==
  /\ Cardinality(revisions) < MaxRevisions
  /\ \E windows \in {priorWindows(rows, q)} :
       /\ Answerable(rows, q, windows)
       /\ \E project \in projectIDForAudit(rows, q) :
          \E c \in {Content(rows, q, windows)} :
          \E v \in {Revision(auditWindowKey(q), project, c, evidenceScope(rows, q))} :
            /\ revisions' = {w \in revisions : <<w.key, w.num>> # <<v.key, v.num>>} \cup {v}
            /\ recs' = recs \cup {r \in Proposed(q, v) : ~Stored(r)}
            /\ last' = [req |-> q, num |-> v.num, late |-> LateEvidence(v)]
  /\ UNCHANGED <<rows, versions>>

-----------------------------------------------------------------------------
(* What else happens *)

\* A batch with a row, possibly late.  A record of governance overhead is observed as
\* such only once the project has a revision to hang it on.
Collect(a) ==
  LET hangs == W(a).governance /\ \E v \in revisions : v.project = ProjectOf[W(a).session]
  IN  /\ \A r \in rows : <<r.kind, r.at>> # <<a.kind, a.at>>
      /\ Cardinality({r \in rows : [kind |-> r.kind, at |-> r.at] \in Arrivals}) < MaxLate
      /\ rows' = rows \cup {[kind |-> a.kind, at |-> a.at, overhead |-> hangs]}
      /\ last' = None
      /\ UNCHANGED <<versions, revisions, recs>>

\* PutProject and PutSource of another state.
ChangeVersion(i, id, at) ==
  /\ \E s \in States : NextVersion(i, id, s, at)
  /\ last' = None
  /\ UNCHANGED <<rows, revisions, recs>>

\* A user takes up or dismisses a recommendation, outside this program.
GiveFeedback(r, state, at, cooldown) ==
  /\ r.state = "proposed" /\ at >= r.updated
  /\ recs' = (recs \ {r}) \cup {[r EXCEPT !.state = state, !.updated = at, !.cooldown = cooldown]}
  /\ last' = None
  /\ UNCHANGED <<rows, versions, revisions>>

Init ==
  /\ rows \in Histories
  /\ versions = {[of |-> i, num |-> 1, id |-> FirstIDs[i], state |-> FirstState, from |-> 0, to |-> Open] : i \in Identities}
  /\ revisions = {} /\ recs = {} /\ last = None

Next ==
  \/ \E q \in Requests : AuditProject(q)
  \/ \E a \in Arrivals : Collect(a)
  \/ \E i \in Identities, id \in VersionIDs : \E at \in ChangeTimes[i] : ChangeVersion(i, id, at)
  \/ \E r \in recs, state \in {"verified", "dismissed"}, at \in FeedbackTimes :
       GiveFeedback(r, state, at, at + Cooldown)

Spec == Init /\ [][Next]_vars

-----------------------------------------------------------------------------
(* Properties *)

Answer == CHOOSE v \in revisions : v.key = auditWindowKey(last.req) /\ v.num = last.num

\* docs/metrics.md: "Identical inputs produce identical hashes."  Asked again while the
\* rows, versions and feedback are the same, an audit finds the revision it stored,
\* although the recommendations it stored are among the feedback it now reads.
AskedAgain(R) == Content(R, last.req, priorWindows(R, last.req))

ReauditStable == last # None => AskedAgain(rows) = Answer.content

WithoutSiblings == {r \in rows : W(r).traj \in Trajectories(Scoped(rows, last.req))}

\* Sibling trajectories of the session contribute nothing to the audit of a task or a
\* trajectory but the counts of what was excluded: without them everything else the
\* revision hash covers is the same, the counts of what is included too.  (The counts of
\* what was excluded are hashed, so that siblings do show in the revision identity, which
\* docs/governance-contract.md:58-60 rules out.)
NarrowScopeIsolated ==
  last # None /\ Narrow(last.req) =>
    \A own \in {AskedAgain(WithoutSiblings)} :
      [own EXCEPT !.snapshot.counts.excluded = Answer.content.snapshot.counts.excluded] = Answer.content

Usage ==
  { "totalTokens", "nonCachedInputTokens", "oversizedResults", "commentaryMessages", "wallClockSeconds",
    "activeSeconds" }

NoWindow ==
  [ values |-> [m \in MetricNames |-> None], coverage |-> "missing", comparable |-> FALSE,
    guardrailsPass |-> FALSE, valid |-> TRUE ]

\* The snapshot as if nothing had been used or taken time, now or in earlier windows.
Withheld(s) ==
  [s EXCEPT !.input   = [f \in DOMAIN s.input |-> IF f \in Usage THEN 0 ELSE s.input[f]],
            !.windows = [n \in DOMAIN s.windows |-> NoWindow]]

\* docs/governance-contract.md:71-72: "privacy-suppressed narrow scopes use an opaque
\* identity and never expose evidence references or inferred source knowledge".  Nor can
\* a reader tell what the turns used: the same metrics and findings are reported whatever
\* tokens, times and messages there were, now and in the windows before, and nothing is
\* recommended or promoted.  Shown all the same are how many turns, calls and pieces of
\* evidence there were, which detectors fired, freshness, coverage and versions of the
\* sources, and the overhead.
SuppressedDisclosesNothing ==
  \A v \in revisions :
    LET c == v.content
        s == c.snapshot
    IN  v.key[1] \in {"task", "trajectory"} /\ s.input.completedTurns < 3 =>
          /\ s.reference[1] = "opaque"
          /\ \A m \in MetricNames : c.results[m].refs = {} /\ c.overhead[m].refs = {}
          /\ \A f \in c.findings : f.refs = {}
          /\ \A x \in DOMAIN s.sources : s.sources[x].knowledge = "unknown"
          /\ \A w \in {Withheld(s)} : c.results = Reported(w, Compute(w.input)) /\ c.findings = detect(w)
          /\ s.contributions = {} /\ s.workload = {} /\ s.invocations = NoInvocations
          /\ c.recommended = {} /\ v.decision = "hold"

\* workload.go: "The identity is exact": volume, mix and within-class effects add up to
\* the change of the tokens that turns account for.
WorkloadExact ==
  \A v \in revisions : \A d \in v.content.snapshot.workload :
    d.status # "insufficient" => Equal(Plus(d.volume, Plus(d.mix, d.within)), d.change)

\* Metrics that are better when lower, by their meaning.
LowerMeansBetter ==
  PerHundred \cup {"boundary_violation_rate", "non_cached_input_per_turn", "tool_error_rate"}

BetterThan(m, a, b) == IF m \in LowerMeansBetter THEN Less(a, b) ELSE Less(b, a)

\* docs/metrics.md: "improved" takes a value better than the median of at least three
\* earlier windows of the same versions and no worse than that of the window before,
\* which passed its guardrails; three windows in a row moved in that direction.
ImprovedIsBetter ==
  \A v \in revisions : \A m \in {n \in MetricNames : v.content.results[n].status.status = "improved"} :
    \A value \in {v.content.results[m].value}, c \in {comparisons(v.content.snapshot, m)} :
      /\ \A rolling \in {RollingOf(c)} : SampleSize(rolling) >= 3 /\ BetterThan(m, value, Median(rolling))
      /\ BetterThan(m, value, c.previous.value) /\ BetterThan(m, c.previous.value, c.rolling[1].value)
      /\ c.previous.comparable /\ c.previous.guardrailsPass
      /\ registry[m].polarity # "contextual"

\* docs/recommendations.md: a recommendation of a project rests on complete evidence and
\* passing guardrails, is not made while the last word on the finding is that its rule is
\* verified, and not during the cooldown of a dismissal unless the evidence is new.
RecommendationsGated ==
  [][ \A r \in recs' \ recs :
        r.state = "proposed" =>
          LET c == (CHOOSE v \in revisions' : v.key = r.key /\ v.num = r.num).content
              earlier == {s \in recs : s.scope = "project" /\ s.project = r.project /\ s.finding = r.finding
                                        /\ s.created <= r.created}
              word == {s \in earlier : \A t \in earlier \ {s} : t.updated < s.updated}
          IN  /\ c.snapshot.input.coverage = "complete" /\ \A g \in Guardrails : c.guardrails[g] = "pass"
              /\ r.scope = "project" =>
                   \A s \in word : s.updated <= r.created =>
                     /\ s.state # "verified"
                     /\ s.state = "dismissed" => s.cooldown <= r.created \/ s.refs # r.refs ]_recs

\* docs/metrics.md:69-72: "Status requires ... practical effect beyond robust noise".  A
\* metric said to be worse is worse than its baseline.
WorsenedIsWorse ==
  \A v \in revisions : \A m \in MetricNames :
    LET r == v.content.results[m]
    IN  r.status.status = "worsened" =>
          BetterThan(m, Median(RollingOf(comparisons(v.content.snapshot, m))), r.value)
=============================================================================
