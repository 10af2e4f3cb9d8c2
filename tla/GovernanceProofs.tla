-------------------------- MODULE GovernanceProofs --------------------------
(***************************************************************************)
(* Theorems about Governance, for every history of rows, every set of      *)
(* requests and every order of audits, late rows, changes and feedback.    *)
(* The second half is about the numbers of Metrics: fractions, their sums  *)
(* in any order, medians, the decomposition of the workload and the status *)
(* of a metric.                                                            *)
(***************************************************************************)
EXTENDS Governance, DimensionsProofs, FiniteSetTheorems, SequenceTheorems

InputFields ==
  { "completedTurns", "attributedTurns", "boundaryDecisions", "boundaryViolations", "checkpoints", "completeCheckpoints", "totalTokens", "nonCachedInputTokens", "toolCalls", "passiveWaitCalls", "repeatedCalls", "toolErrors", "toolResults", "oversizedResults", "commentaryMessages", "observableMutations", "validatedMutations", "wallClockSeconds", "activeSeconds", "activeRuntimeKnown", "acceptedEvidence", "redactedEvidence", "coverage", "refs" }

\* The inputs of a suppressed scope keep their counts and lose their references and
\* their claim to be complete.
LEMMA SuppressedInput ==
  ASSUME NEW R, NEW q
  PROVE  /\ Suppressed(metrics(R, q)).refs = {}
         /\ Suppressed(metrics(R, q)).coverage = "partial"
         /\ Suppressed(metrics(R, q)).completedTurns = metrics(R, q).completedTurns
         /\ DOMAIN Suppressed(metrics(R, q)) = InputFields
<1>1. DOMAIN metrics(R, q) = InputFields
  BY DEF metrics, Tally, InputFields
<1>2. QED
  BY <1>1 DEF Suppressed, InputFields

SnapshotFields ==
  { "reference", "scope", "start", "asOf", "suppressed", "input", "overhead", "passiveRefs", "repeatedRefs",
    "windows", "matched", "versions", "contributions", "invocations", "workload", "counts", "sources" }

\* s is a record with the fields of a snapshot.
IsSnapshot(s) == DOMAIN s = SnapshotFields /\ s = [x \in SnapshotFields |-> s[x]]

\* Whatever its fields hold, a snapshot is a record of them.
LEMMA SnapshotRecord ==
  ASSUME NEW R, NEW q, NEW windows
  PROVE  IsSnapshot(Snapshot(R, q, windows))
<1>1. ASSUME NEW t, t = Snapshot(R, q, windows) PROVE [x \in DOMAIN t |-> t[x]] = t
  BY <1>1 DEF Snapshot, SnapshotOf
<1>2. DOMAIN Snapshot(R, q, windows) = SnapshotFields
  BY DEF Snapshot, SnapshotOf, SnapshotFields
<1>3. QED
  BY <1>1, <1>2 DEF IsSnapshot
-----------------------------------------------------------------------------
(* Suppressed scopes *)

\* The metrics and findings of c are those of the same snapshot with no usage in it.
UsageUnseen(c) ==
  \A w \in {Withheld(c.snapshot)} : c.results = Reported(w, Compute(w.input)) /\ c.findings = detect(w)

\* What SuppressedDisclosesNothing asks of the content of a revision.
Undisclosed(c) ==
  /\ c.snapshot.reference[1] = "opaque"
  /\ \A m \in MetricNames : c.results[m].refs = {} /\ c.overhead[m].refs = {}
  /\ \A f \in c.findings : f.refs = {}
  /\ \A x \in DOMAIN c.snapshot.sources : c.snapshot.sources[x].knowledge = "unknown"
  /\ UsageUnseen(c)
  /\ c.snapshot.contributions = {} /\ c.snapshot.workload = {} /\ c.snapshot.invocations = NoInvocations
  /\ c.recommended = {} /\ decision(c) = "hold"

\* The snapshot of a scope below the floor.
LEMMA SuppressedSnapshot ==
  ASSUME NEW R, NEW q, NEW windows, privacySuppressed(q, metrics(R, q))
  PROVE  LET s == Snapshot(R, q, windows)
         IN  /\ s.reference[1] = "opaque"
             /\ s.input = Suppressed(metrics(R, q))
             /\ s.overhead.refs = {}
             /\ s.passiveRefs = {} /\ s.repeatedRefs = {}
             /\ s.contributions = {} /\ s.workload = {} /\ s.invocations = NoInvocations
             /\ \A x \in DOMAIN s.sources : s.sources[x].knowledge = "unknown"
<1> DEFINE s   == Snapshot(R, q, windows)
           all == reportSources(R, q)
<1>1. /\ s.reference = <<"opaque", q.ref>> /\ s.input = Suppressed(metrics(R, q))
      /\ s.passiveRefs = {} /\ s.repeatedRefs = {} /\ s.contributions = {} /\ s.workload = {}
      /\ s.invocations = NoInvocations
  BY DEF Snapshot, SnapshotOf
<1>2. s.overhead.refs = {}
  <2>1. s.overhead = overhead(R, q)
    BY DEF Snapshot, SnapshotOf
  <2>2. overhead(R, q).refs = {}
    <3>1. ASSUME NEW i, i = Tally({}, {}, {}, {}, {}, {}) PROVE DOMAIN i = InputFields /\ i.refs = {}
      BY <3>1 DEF Tally, InputFields
    <3>2. QED
      BY <3>1 DEF overhead, InputFields
  <2>3. QED
    BY <2>1, <2>2
<1>3. s.sources = [x \in DOMAIN all |-> [all[x] EXCEPT !.redaction = "suppressed", !.knowledge = "unknown"]]
  BY DEF Snapshot, SnapshotOf
<1>4. \A x \in DOMAIN all : DOMAIN all[x] = {"fresh", "knowledge", "redaction"}
  BY DEF reportSources
<1> HIDE DEF s, all
<1>a. ASSUME NEW a, DOMAIN a = {"fresh", "knowledge", "redaction"}
      PROVE  [a EXCEPT !.redaction = "suppressed", !.knowledge = "unknown"].knowledge = "unknown"
  BY <1>a
<1>5. ASSUME NEW x \in DOMAIN s.sources PROVE s.sources[x].knowledge = "unknown"
  <2>1. x \in DOMAIN all /\ s.sources[x] = [all[x] EXCEPT !.redaction = "suppressed", !.knowledge = "unknown"]
    BY <1>3
  <2>2. QED
    BY <1>4, <1>a, <2>1
<1>6. s.reference[1] = "opaque"
  BY <1>1
<1>7. QED
  BY <1>1, <1>2, <1>5, <1>6 DEF s

\* Without complete coverage a result is a sample and no value, and its status says so
\* whatever the comparison is.
LEMMA PartialResult ==
  ASSUME NEW i, NEW s, i.coverage # "complete", NEW m \in MetricNames
  PROVE  Reported(s, Compute(i))[m] =
           [ value  |-> None, sample |-> i[registry[m].denominator], refs |-> i.refs,
             status |-> Status("insufficient", "current_incomplete") ]
<1>1. /\ Compute(i)[m].value = None /\ Compute(i)[m].refs = i.refs
      /\ Compute(i)[m].sample = i[registry[m].denominator]
  BY DEF Compute, ratio
<1>2. Apply(m, Compute(i)[m], comparisons(s, m)) = Status("insufficient", "current_incomplete")
  BY <1>1 DEF Apply
<1>3. Reported(s, Compute(i))[m] =
        [ value  |-> Compute(i)[m].value, sample |-> Compute(i)[m].sample, refs |-> Compute(i)[m].refs,
          status |-> Apply(m, Compute(i)[m], comparisons(s, m)) ]
  BY DEF Reported
<1>4. QED
  BY <1>1, <1>2, <1>3

\* Metrics and detectors divide by counts, and a result that is not complete shows no
\* numerator: usage plays no part.
LEMMA UsageWithheld ==
  ASSUME NEW s, IsSnapshot(s), DOMAIN s.input = InputFields, s.input.coverage # "complete"
  PROVE  LET w == Withheld(s)
         IN  Reported(w, Compute(w.input)) = Reported(s, Compute(s.input)) /\ detect(w) = detect(s)
<1> DEFINE w == Withheld(s)
<1>1. /\ w.input = [f \in InputFields |-> IF f \in Usage THEN 0 ELSE s.input[f]]
      /\ w.passiveRefs = s.passiveRefs /\ w.repeatedRefs = s.repeatedRefs
  BY DEF Withheld, IsSnapshot, SnapshotFields
<1> HIDE DEF w
<1>2. \A f \in InputFields \ Usage : w.input[f] = s.input[f]
  BY <1>1
<1>3. w.input.coverage = s.input.coverage /\ w.input.refs = s.input.refs
  BY <1>2 DEF InputFields, Usage
<1>4. \A m \in MetricNames : registry[m].denominator \in InputFields \ Usage
  BY DEF MetricNames, registry, Define, InputFields, Usage
<1>5. Reported(w, Compute(w.input)) = Reported(s, Compute(s.input))
  <2>1. ASSUME NEW m \in MetricNames
        PROVE  Reported(w, Compute(w.input))[m] = Reported(s, Compute(s.input))[m]
    <3>1. w.input[registry[m].denominator] = s.input[registry[m].denominator]
      BY <1>2, <1>4
    <3>2. Reported(w, Compute(w.input))[m] =
            [ value  |-> None, sample |-> w.input[registry[m].denominator], refs |-> w.input.refs,
              status |-> Status("insufficient", "current_incomplete") ]
      BY <1>3, PartialResult
    <3>3. Reported(s, Compute(s.input))[m] =
            [ value  |-> None, sample |-> s.input[registry[m].denominator], refs |-> s.input.refs,
              status |-> Status("insufficient", "current_incomplete") ]
      BY PartialResult
    <3>4. QED
      BY <1>3, <3>1, <3>2, <3>3
  <2>2. \A x, i : Reported(x, i) = [m \in MetricNames |-> Reported(x, i)[m]]
    BY DEF Reported
  <2>3. QED
    BY <2>1, <2>2
<1>6. detect(w) = detect(s)
  <2>1. detectors(w) = detectors(s)
    BY <1>1, <1>2 DEF detectors, InputFields, Usage
  <2>2. QED
    BY <1>3, <2>1 DEF detect
<1>7. QED
  BY <1>5, <1>6 DEF w

\* A snapshot without references whose coverage is not complete yields no value, no
\* finding to act on and no recommendation.
LEMMA PartialEngine ==
  ASSUME NEW q, NEW s, IsSnapshot(s), DOMAIN s.input = InputFields,
         s.input.coverage # "complete", s.input.refs = {}, s.overhead.refs = {},
         s.passiveRefs = {}, s.repeatedRefs = {}
  PROVE  LET c == Run(q, s)
         IN  /\ c.snapshot = s
             /\ \A m \in MetricNames : c.results[m].refs = {} /\ c.overhead[m].refs = {}
             /\ \A f \in c.findings : f.refs = {}
             /\ UsageUnseen(c)
             /\ c.recommended = {} /\ decision(c) = "hold"
<1> DEFINE c == Run(q, s)
           results == Compute(s.input)
<1>1. /\ c.snapshot = s
      /\ c.findings = detect(s)
      /\ c.recommended = Generate(detect(s), recommendationContext(q), q.asOf, guardrailsPass(results))
      /\ c.results = Reported(s, results)
      /\ c.overhead = Compute(s.overhead)
      /\ c.guardrails = [g \in Guardrails |-> guardrailState(g, results[g])]
  BY DEF Run, Engine
<1>2. \A m \in MetricNames : results[m].value = None
  BY DEF Compute, ratio
<1> HIDE DEF c
<1>3. \A m \in MetricNames : c.results[m].refs = {} /\ c.results[m].status.status = "insufficient"
  <2> SUFFICES ASSUME NEW m \in MetricNames
               PROVE  c.results[m].refs = {} /\ c.results[m].status.status = "insufficient"
    OBVIOUS
  <2> DEFINE shown == [ value  |-> None, sample |-> s.input[registry[m].denominator], refs |-> s.input.refs,
                        status |-> Status("insufficient", "current_incomplete") ]
  <2>1. Reported(s, Compute(s.input))[m] = shown
    BY PartialResult
  <2>2. shown.refs = {} /\ shown.status.status = "insufficient"
    BY DEF Status
  <2>3. c.results[m] = Reported(s, Compute(s.input))[m]
    BY <1>1
  <2> HIDE DEF shown
  <2>4. QED
    BY <2>1, <2>2, <2>3
<1>4. \A m \in MetricNames : c.overhead[m].refs = {}
  BY <1>1 DEF Compute, ratio
<1> HIDE DEF results
<1>5. \A f \in c.findings : f.refs = {} /\ f.class \in {"uncertain", "necessary"}
  <2>1. \A k \in DOMAIN detectors(s) :
          detectors(s)[k].refs = {} /\ Classify(detectors(s)[k], s.input.coverage) \in {"uncertain", "necessary"}
    <3>1. \A k \in DOMAIN detectors(s) : detectors(s)[k].refs = {}
      BY DEF detectors, Detector
    <3>2. \A d : Classify(d, s.input.coverage) \in {"uncertain", "necessary"}
      BY DEF Classify
    <3>3. QED
      BY <3>1, <3>2
  <2>2. QED
    BY <1>1, <2>1 DEF detect
<1>6. c.recommended = {}
  BY <1>1, <1>5 DEF Generate
<1>7. decision(c) = "hold"
  <2> DEFINE statuses == {c.results[m].status.status : m \in MetricNames}
             states   == {c.guardrails[g] : g \in Guardrails}
  <2>1. statuses = {"insufficient"}
    <3>1. "tokens_per_turn" \in MetricNames
      BY DEF MetricNames, registry
    <3>2. QED
      BY <1>3, <3>1
  <2>2. states = {"unknown"}
    <3>1. \A g \in Guardrails : g \in MetricNames
      BY DEF Guardrails, MetricNames, registry
    <3>2. \A g \in Guardrails : c.guardrails[g] = "unknown"
      BY <1>1, <1>2, <3>1 DEF guardrailState
    <3>3. "tool_error_rate" \in Guardrails
      BY DEF Guardrails
    <3>4. QED
      BY <3>2, <3>3
  <2>3. decision(c) = Decision(evaluationOutcome(statuses), qualityGate(states))
    BY DEF decision
  <2> HIDE DEF statuses, states
  <2>4. evaluationOutcome(statuses) = "mixed" /\ qualityGate(states) = "unknown"
    BY <2>1, <2>2 DEF evaluationOutcome, qualityGate
  <2>5. QED
    BY <2>3, <2>4 DEF Decision
<1>8. UsageUnseen(c)
  BY <1>1, UsageWithheld DEF UsageUnseen, results
<1>9. QED
  BY <1>1, <1>3, <1>4, <1>5, <1>6, <1>7, <1>8 DEF c

\* The content of an audit: its time, and nothing disclosed below the floor.
LEMMA ContentOf ==
  ASSUME NEW R, NEW q, NEW windows
  PROVE  LET c == Content(R, q, windows)
         IN  /\ c.snapshot.asOf = q.asOf
             /\ Narrow(q) /\ c.snapshot.input.completedTurns < 3 => Undisclosed(c)
<1> DEFINE s == Snapshot(R, q, windows)
           c == Run(q, s)
           found == metrics(R, q)
<1>1. c.snapshot = s
  BY DEF Run, Engine
<1>2. s.asOf = q.asOf
  BY DEF Snapshot, SnapshotOf
<1>3. s.input = (IF privacySuppressed(q, found) THEN Suppressed(found) ELSE found)
  BY DEF Snapshot, SnapshotOf
<1>4. s.input.completedTurns = found.completedTurns
  BY <1>3, SuppressedInput
<1>5. ASSUME Narrow(q), s.input.completedTurns < 3 PROVE Undisclosed(c)
  <2>1. privacySuppressed(q, found)
    BY <1>4, <1>5 DEF privacySuppressed
  <2>2. /\ s.reference[1] = "opaque" /\ s.input = Suppressed(found)
        /\ s.overhead.refs = {} /\ s.passiveRefs = {} /\ s.repeatedRefs = {}
        /\ s.contributions = {} /\ s.workload = {} /\ s.invocations = NoInvocations
        /\ \A x \in DOMAIN s.sources : s.sources[x].knowledge = "unknown"
    BY <2>1, SuppressedSnapshot
  <2>3. /\ s.input.coverage # "complete" /\ s.input.refs = {}
        /\ DOMAIN s.input = InputFields /\ IsSnapshot(s)
    BY <2>2, SuppressedInput, SnapshotRecord
  <2> HIDE DEF s, found
  <2>4. /\ c.snapshot = s
        /\ \A m \in MetricNames : c.results[m].refs = {} /\ c.overhead[m].refs = {}
        /\ \A f \in c.findings : f.refs = {}
        /\ UsageUnseen(c)
        /\ c.recommended = {} /\ decision(c) = "hold"
    BY <2>2, <2>3, PartialEngine
  <2> HIDE DEF c
  <2>5. QED
    BY <2>2, <2>4 DEF Undisclosed
<1> HIDE DEF s, found
<1>6. c.snapshot.asOf = q.asOf /\ (Narrow(q) /\ c.snapshot.input.completedTurns < 3 => Undisclosed(c))
  BY <1>1, <1>2, <1>5
<1>7. QED
  BY <1>6 DEF Content, s

-----------------------------------------------------------------------------
(* The inductive invariant: stored revisions are numbered apart, each window *)
(* keeps its first one, and a recommendation refers to a window with one.    *)

RevisionOK(v) ==
  /\ DOMAIN v = {"key", "project", "num", "content", "links", "decision"}
  /\ v.num \in 1 .. MaxRevisions
  /\ v.decision = decision(v.content)
  /\ v.content.snapshot.asOf \in Int
  /\ v.key[1] \in {"task", "trajectory"} /\ v.content.snapshot.input.completedTurns < 3
       => Undisclosed(v.content)
  /\ v.key[1] = "project" => v.project = v.key[2]

RecFields == {"key", "num", "scope", "project", "finding", "refs", "state", "created", "updated", "cooldown"}

RecOK(r) ==
  /\ DOMAIN r = RecFields
  /\ r.num \in Nat /\ r.created \in Int /\ r.updated \in Int /\ r.cooldown \in Int
  /\ r.scope = "project" => <<r.key, r.num, r.finding>> \in ProjectRecommendations

RevisionsOK ==
  /\ IsFiniteSet(revisions)
  /\ \A v \in revisions : RevisionOK(v)
  /\ \A v, w \in revisions : v.key = w.key /\ v.num = w.num => v = w
  /\ \A v \in revisions : v.num <= Cardinality(RevisionsOf(v.key))
  /\ \A v \in revisions : \E w \in revisions : w.key = v.key /\ w.num = 1

RecsOK ==
  /\ IsFiniteSet(recs)
  /\ \A r \in recs : RecOK(r)
  /\ \A r, s \in recs : r.key = s.key /\ r.num = s.num /\ r.finding = s.finding => r = s
  /\ \A r \in recs : \E v \in revisions : v.key = r.key

AuditInv == RevisionsOK /\ RecsOK

\* Revision answers with the revision of this content that is stored, or a new one.
LEMMA RevisionFacts ==
  ASSUME RevisionsOK, NEW key, NEW project, NEW c, NEW links
  PROVE  LET v == Revision(key, project, c, links)
         IN  /\ DOMAIN v = {"key", "project", "num", "content", "links", "decision"}
             /\ v.key = key /\ v.content = c /\ v.num \in Nat /\ v.decision = decision(c)
             /\ \/ \E w \in revisions : w.key = key /\ w.num = v.num /\ v.project = w.project /\ w.content = c
                \/ v.num = Cardinality(RevisionsOf(key)) + 1 /\ v.project = project
<1> DEFINE same == {w \in RevisionsOf(key) : w.content = c}
           v == Revision(key, project, c, links)
<1>1. CASE same # {}
  <2> DEFINE w == CHOOSE x \in same : TRUE
  <2>1. w \in same
    BY <1>1
  <2>2. v = [w EXCEPT !.links = @ \cup links]
    BY <1>1 DEF Revision
  <2> HIDE DEF w, v
  <2>3. w \in revisions /\ w.key = key /\ w.content = c
    BY <2>1 DEF RevisionsOf
  <2>4. DOMAIN w = {"key", "project", "num", "content", "links", "decision"}
    BY <2>3 DEF RevisionsOK, RevisionOK
  <2>5. /\ DOMAIN v = {"key", "project", "num", "content", "links", "decision"}
        /\ v.key = w.key /\ v.content = w.content /\ v.num = w.num /\ v.decision = w.decision
        /\ v.project = w.project
    BY <2>2, <2>4
  <2>6. w.num \in Nat /\ w.decision = decision(w.content)
    BY <2>3, IDAssumption DEF RevisionsOK, RevisionOK
  <2>7. QED
    BY <2>3, <2>5, <2>6 DEF v
<1>2. CASE same = {}
  <2>1. v = [ key |-> key, project |-> project, num |-> Cardinality(RevisionsOf(key)) + 1, content |-> c,
              links |-> links, decision |-> decision(c) ]
    BY <1>2 DEF Revision
  <2>2. Cardinality(RevisionsOf(key)) \in Nat
    <3>1. IsFiniteSet(RevisionsOf(key))
      BY FS_Subset DEF RevisionsOf, RevisionsOK
    <3>2. QED
      BY <3>1, FS_CardinalityType
  <2> HIDE DEF v
  <2>3. QED
    BY <2>1, <2>2 DEF v
<1>3. QED
  BY <1>1, <1>2

\* The project of a request for a project is its reference.
LEMMA ProjectScope ==
  ASSUME NEW R, NEW q, q.scope = "project", NEW p \in projectIDForAudit(R, q)
  PROVE  p = q.ref
BY DEF projectIDForAudit

\* An audit, taken apart.
LEMMA AuditFacts ==
  ASSUME RevisionsOK, NEW q \in Requests, AuditProject(q)
  PROVE  \E v, windows :
           /\ RevisionOK(v) /\ v.key = auditWindowKey(q)
           /\ v.content = Content(rows, q, windows)
           /\ v.num = 1 \/ \E w \in revisions : w.key = v.key
           /\ \/ \E w \in revisions : w.key = v.key /\ w.num = v.num /\ w.content = v.content
              \/ v.num = Cardinality(RevisionsOf(v.key)) + 1
           /\ revisions' = {w \in revisions : <<w.key, w.num>> # <<v.key, v.num>>} \cup {v}
           /\ recs' = recs \cup {r \in Proposed(q, v) : ~Stored(r)}
           /\ windows = priorWindows(rows, q) /\ Answerable(rows, q, windows)
           /\ last' = [req |-> q, num |-> v.num, late |-> LateEvidence(v)]
           /\ UNCHANGED <<rows, versions>>
<1>1. PICK windows \in {priorWindows(rows, q)} :
        /\ Answerable(rows, q, windows)
        /\ \E project \in projectIDForAudit(rows, q) :
           \E c \in {Content(rows, q, windows)} :
           \E v \in {Revision(auditWindowKey(q), project, c, evidenceScope(rows, q))} :
             /\ revisions' = {w \in revisions : <<w.key, w.num>> # <<v.key, v.num>>} \cup {v}
             /\ recs' = recs \cup {r \in Proposed(q, v) : ~Stored(r)}
             /\ last' = [req |-> q, num |-> v.num, late |-> LateEvidence(v)]
  BY DEF AuditProject
<1>2. PICK project, c, v :
        /\ project \in projectIDForAudit(rows, q)
        /\ c = Content(rows, q, windows)
        /\ v = Revision(auditWindowKey(q), project, c, evidenceScope(rows, q))
        /\ revisions' = {w \in revisions : <<w.key, w.num>> # <<v.key, v.num>>} \cup {v}
        /\ recs' = recs \cup {r \in Proposed(q, v) : ~Stored(r)}
        /\ last' = [req |-> q, num |-> v.num, late |-> LateEvidence(v)]
  BY <1>1
<1> DEFINE key == auditWindowKey(q)
<1>3. /\ DOMAIN v = {"key", "project", "num", "content", "links", "decision"}
      /\ v.key = key /\ v.content = c /\ v.num \in Nat /\ v.decision = decision(c)
      /\ \/ \E w \in revisions : w.key = key /\ w.num = v.num /\ v.project = w.project /\ w.content = c
         \/ v.num = Cardinality(RevisionsOf(key)) + 1 /\ v.project = project
  BY <1>2, RevisionFacts
<1>4. key[1] = q.scope /\ key[2] = q.ref
  BY DEF auditWindowKey
<1>5. /\ c.snapshot.asOf = q.asOf
      /\ Narrow(q) /\ c.snapshot.input.completedTurns < 3 => Undisclosed(c)
  BY <1>2, ContentOf
<1>6. v.key[1] = "project" => v.project = v.key[2]
  <2>1. CASE \E w \in revisions : w.key = key /\ v.project = w.project
    BY <1>3, <2>1 DEF RevisionsOK, RevisionOK
  <2>2. CASE v.project = project
    BY <1>2, <1>3, <1>4, <2>2, ProjectScope
  <2>3. QED
    BY <1>3, <2>1, <2>2
<1> HIDE DEF key
<1>7. RevisionOK(v)
  <2>1. q.asOf \in Int
    BY TimeAssumption
  <2>2. v.key[1] \in {"task", "trajectory"} => Narrow(q)
    BY <1>3, <1>4 DEF Narrow
  <2>3. v.num \in 1 .. MaxRevisions
    <3>1. /\ IsFiniteSet(revisions) /\ RevisionsOf(key) \subseteq revisions /\ MaxRevisions \in Nat
          /\ Cardinality(revisions) < MaxRevisions
      BY IDAssumption DEF RevisionsOK, RevisionsOf, AuditProject
    <3>2. /\ Cardinality(RevisionsOf(key)) \in Nat /\ Cardinality(revisions) \in Nat
          /\ Cardinality(RevisionsOf(key)) <= Cardinality(revisions)
      BY <3>1, FS_Subset, FS_CardinalityType
    <3>3. CASE \E w \in revisions : w.num = v.num
      BY <3>3 DEF RevisionsOK, RevisionOK
    <3>4. CASE v.num = Cardinality(RevisionsOf(key)) + 1
      BY <3>1, <3>2, <3>4
    <3>5. QED
      BY <1>3, <3>3, <3>4
  <2>4. QED
    BY <1>3, <1>5, <1>6, <2>1, <2>2, <2>3 DEF RevisionOK
<1>8. v.num = 1 \/ \E w \in revisions : w.key = v.key
  <2>1. CASE RevisionsOf(key) = {}
    <3>1. ~ \E w \in revisions : w.key = key
      BY <2>1 DEF RevisionsOf
    <3>2. v.num = Cardinality(RevisionsOf(key)) + 1
      BY <1>3, <3>1
    <3>3. QED
      BY <2>1, <3>2, FS_EmptySet
  <2>2. CASE RevisionsOf(key) # {}
    BY <1>3, <2>2 DEF RevisionsOf
  <2>3. QED
    BY <2>1, <2>2
<1>9. UNCHANGED <<rows, versions>>
  BY DEF AuditProject
<1>10. QED
  BY <1>1, <1>2, <1>3, <1>7, <1>8, <1>9 DEF key

\* The empty database keeps the invariant.
LEMMA InitAuditInv == Init => AuditInv
BY FS_EmptySet DEF Init, AuditInv, RevisionsOK, RecsOK

\* recommendation.go, Generate: what is recommended passed its gates.
LEMMA RecommendedFacts ==
  ASSUME NEW q, NEW s, NEW f \in detect(s), f.code \in Run(q, s).recommended
  PROVE  /\ s.input.coverage = "complete"
         /\ \A g \in Guardrails : Run(q, s).guardrails[g] = "pass"
         /\ Feedback(q, f.code).state # "verified"
         /\ ~suppressed(f, recommendationContext(q), q.asOf)
         /\ f.code \in DOMAIN candidate
<1> DEFINE results == Compute(s.input)
           context == recommendationContext(q)
<1>1. /\ Run(q, s).recommended = Generate(detect(s), context, q.asOf, guardrailsPass(results))
      /\ Run(q, s).guardrails = [g \in Guardrails |-> guardrailState(g, results[g])]
  BY DEF Run, Engine
<1> HIDE DEF results, context
<1>2. PICK g \in detect(s) :
        /\ guardrailsPass(results) /\ g.code = f.code /\ g.code \in DOMAIN candidate
        /\ context[g.code].state # "verified" /\ ~suppressed(g, context, q.asOf)
  BY <1>1 DEF Generate
<1>3. g.refs = detectors(s)[g.code].refs /\ f.refs = detectors(s)[f.code].refs
  BY DEF detect
<1>4. ~suppressed(f, context, q.asOf)
  BY <1>2, <1>3 DEF suppressed
<1>5. context[f.code] = Feedback(q, f.code)
  BY <1>2 DEF context, recommendationContext
<1>6. \A g2 \in Guardrails : guardrailState(g2, results[g2]) = "pass"
  BY <1>2 DEF guardrailsPass
<1>7. s.input.coverage = "complete"
  <2>1. "tool_error_rate" \in Guardrails /\ "tool_error_rate" \in MetricNames
    BY DEF Guardrails, MetricNames, registry
  <2>2. results["tool_error_rate"].coverage = "complete"
    BY <1>6, <2>1 DEF guardrailState
  <2>3. QED
    BY <2>1, <2>2 DEF results, Compute, ratio
<1>8. \A g2 \in Guardrails : Run(q, s).guardrails[g2] = "pass"
  BY <1>1, <1>6
<1>9. QED
  BY <1>2, <1>4, <1>5, <1>7, <1>8 DEF context

\* A revision has its own number or the next one, and the window counts as many.
LEMMA Numbering ==
  ASSUME RevisionsOK, NEW v, v.num \in Nat,
         \/ \E w \in revisions : w.key = v.key /\ w.num = v.num
         \/ v.num = Cardinality(RevisionsOf(v.key)) + 1,
         revisions' = {w \in revisions : <<w.key, w.num>> # <<v.key, v.num>>} \cup {v}
  PROVE  /\ \A x \in RevisionsOf(v.key) : x.num <= Cardinality(RevisionsOf(v.key)) /\ x.num \in Nat
         /\ Cardinality(RevisionsOf(v.key)) \in Nat
         /\ Cardinality(RevisionsOf(v.key)') \in Nat
         /\ \/ /\ Cardinality(RevisionsOf(v.key)') = Cardinality(RevisionsOf(v.key))
               /\ \E x \in RevisionsOf(v.key) : x.num = v.num
            \/ /\ Cardinality(RevisionsOf(v.key)') = Cardinality(RevisionsOf(v.key)) + 1
               /\ v.num = Cardinality(RevisionsOf(v.key)) + 1
<1> DEFINE K == RevisionsOf(v.key)
           L == RevisionsOf(v.key)'
<1>1. IsFiniteSet(K) /\ Cardinality(K) \in Nat
  BY FS_Subset, FS_CardinalityType DEF RevisionsOK, RevisionsOf
<1>2. \A x \in K : x.num <= Cardinality(K) /\ x.num \in Nat
  BY IDAssumption DEF RevisionsOK, RevisionOK, RevisionsOf
<1>3. L = {x \in K : x.num # v.num} \cup {v}
  BY DEF RevisionsOf
<1>4. \A x, y \in K : x.num = y.num => x = y
  BY DEF RevisionsOK, RevisionsOf
<1>5. K = {x \in revisions : x.key = v.key}
  BY DEF RevisionsOf
<1> HIDE DEF K, L
<1>6. CASE \E w \in revisions : w.key = v.key /\ w.num = v.num
  <2>1. PICK w \in K : w.num = v.num
    BY <1>5, <1>6
  <2>2. {x \in K : x.num # v.num} = K \ {w}
    BY <1>4, <2>1
  <2>3. v \notin K \ {w}
    BY <1>4, <2>1
  <2>4. IsFiniteSet(K \ {w}) /\ Cardinality(K \ {w}) = Cardinality(K) - 1
    BY <1>1, <2>1, FS_RemoveElement
  <2>5. Cardinality(L) = Cardinality(K \ {w}) + 1
    BY <1>3, <2>2, <2>3, <2>4, FS_AddElement
  <2>6. Cardinality(L) = Cardinality(K)
    BY <1>1, <2>4, <2>5
  <2>7. QED
    BY <1>1, <1>2, <2>1, <2>6 DEF K, L
<1>7. CASE v.num = Cardinality(K) + 1
  <2>1. {x \in K : x.num # v.num} = K /\ v \notin K
    BY <1>1, <1>2, <1>7
  <2>2. Cardinality(L) = Cardinality(K) + 1
    BY <1>1, <1>3, <2>1, FS_AddElement
  <2>3. QED
    BY <1>1, <1>2, <1>7, <2>2 DEF K, L
<1>8. QED
  BY <1>6, <1>7 DEF K

\* The recommendations of a revision: one for a finding, each with an id of its own.
LEMMA ProposedFacts ==
  ASSUME NEW q \in Requests, NEW windows, NEW v, RevisionOK(v), v.key = auditWindowKey(q),
         v.content = Content(rows, q, windows)
  PROVE  /\ \A r \in Proposed(q, v) : RecOK(r) /\ r.key = v.key
         /\ \A r, t \in Proposed(q, v) : r.finding = t.finding => r = t
         /\ IsFiniteSet(Proposed(q, v))
<1> DEFINE s == Snapshot(rows, q, windows)
           codes == {"scope_attribution_gap", "checkpoint_gap", "passive_polling", "repeated_unchanged_call",
                     "missing_validation", "privacy_redaction_gap"}
           RecOf(code, refs) ==
             [ key |-> v.key, num |-> v.num, scope |-> q.scope, project |-> v.project, finding |-> code,
               refs |-> refs, state |-> "proposed", created |-> q.asOf, updated |-> q.asOf, cooldown |-> 0 ]
           f == [code \in codes |-> RecOf(code, detectors(s)[code].refs)]
<1>1. v.content = Run(q, s) /\ v.content.findings = detect(s)
  BY DEF Content, Run, Engine
<1>2. DOMAIN candidate = codes
  BY DEF candidate
<1>3. \A r \in Proposed(q, v) : r.finding \in codes /\ r = f[r.finding]
  <2> SUFFICES ASSUME NEW r \in Proposed(q, v) PROVE r.finding \in codes /\ r = f[r.finding]
    OBVIOUS
  <2> HIDE DEF s, RecOf
  <2>1. PICK g \in detect(s) : g.code \in Run(q, s).recommended /\ r = RecOf(g.code, g.refs)
    BY <1>1 DEF Proposed, RecOf
  <2>2. g.code \in codes
    BY <1>2, <2>1, RecommendedFacts
  <2>3. g.refs = detectors(s)[g.code].refs
    BY DEF detect
  <2>4. r.finding = g.code
    BY <2>1 DEF RecOf
  <2>5. QED
    BY <2>1, <2>2, <2>3, <2>4
<1>4. \A r, t \in Proposed(q, v) : r.finding = t.finding => r = t
  BY <1>3
<1>5. IsFiniteSet(Proposed(q, v))
  <2> DEFINE named == {f[code] : code \in codes}
  <2>1. IsFiniteSet(codes)
    <3>1. /\ IsFiniteSet({"scope_attribution_gap"} \cup {"checkpoint_gap"} \cup {"passive_polling"}
                            \cup {"repeated_unchanged_call"} \cup {"missing_validation"} \cup {"privacy_redaction_gap"})
      BY FS_Union, FS_Singleton
    <3>2. codes = {"scope_attribution_gap"} \cup {"checkpoint_gap"} \cup {"passive_polling"}
                    \cup {"repeated_unchanged_call"} \cup {"missing_validation"} \cup {"privacy_redaction_gap"}
      OBVIOUS
    <3>3. QED
      BY <3>1, <3>2
  <2>2. DOMAIN f = codes /\ f = [code \in codes |-> f[code]]
    OBVIOUS
  <2> HIDE DEF f, codes
  <2>3. f \in Surjection(codes, named)
    BY <2>2 DEF Surjection
  <2>4. IsFiniteSet(named)
    BY <2>1, <2>3, FS_Surjection
  <2>5. Proposed(q, v) \subseteq named
    BY <1>3
  <2>6. QED
    BY <2>4, <2>5, FS_Subset
<1>6. ASSUME NEW r \in Proposed(q, v) PROVE RecOK(r) /\ r.key = v.key
  <2>1. PICK code, refs : code \in codes /\ r = RecOf(code, refs)
    <3> HIDE DEF RecOf, codes
    <3>1. r.finding \in codes /\ r = RecOf(r.finding, detectors(s)[r.finding].refs)
      BY <1>3
    <3>2. QED
      BY <3>1
  <2>2. q.asOf \in Int /\ v.num \in Nat /\ v.num \in 1 .. MaxRevisions
    BY TimeAssumption, IDAssumption DEF RevisionOK
  <2>3. /\ DOMAIN r = RecFields /\ r.key = v.key /\ r.num = v.num /\ r.created = q.asOf /\ r.updated = q.asOf
        /\ r.cooldown = 0 /\ r.scope = q.scope /\ r.finding = code
    BY <2>1 DEF RecFields
  <2> HIDE DEF codes
  <2>4. r.scope = "project" => <<r.key, r.num, r.finding>> \in ProjectRecommendations
    BY <1>2, <2>1, <2>2, <2>3 DEF ProjectRecommendations
  <2>5. QED
    BY <2>2, <2>3, <2>4 DEF RecOK
<1>7. QED
  BY <1>4, <1>5, <1>6

\* What an audit stores keeps the invariant: the revision it answers with takes the
\* place of the one with its number, and its recommendations refer to its window.
LEMMA AuditKeeps ==
  ASSUME AuditInv, NEW q \in Requests, AuditProject(q)
  PROVE  AuditInv'
<1>1. PICK v, windows :
           /\ RevisionOK(v) /\ v.key = auditWindowKey(q)
           /\ v.content = Content(rows, q, windows)
           /\ v.num = 1 \/ \E w \in revisions : w.key = v.key
           /\ \/ \E w \in revisions : w.key = v.key /\ w.num = v.num /\ w.content = v.content
              \/ v.num = Cardinality(RevisionsOf(v.key)) + 1
           /\ revisions' = {w \in revisions : <<w.key, w.num>> # <<v.key, v.num>>} \cup {v}
           /\ recs' = recs \cup {r \in Proposed(q, v) : ~Stored(r)}
  BY AuditFacts DEF AuditInv
<1>2. /\ revisions' \subseteq revisions \cup {v} /\ v \in revisions'
      /\ \A w \in revisions : w \in revisions' \/ (w.key = v.key /\ w.num = v.num)
      /\ \A w \in revisions' : w = v \/ w.key # v.key \/ w.num # v.num
  BY <1>1
<1>3. RevisionsOK'
  <2>1. IsFiniteSet(revisions')
    <3>1. IsFiniteSet(revisions \cup {v})
      BY FS_AddElement DEF AuditInv, RevisionsOK
    <3>2. QED
      BY <1>2, <3>1, FS_Subset
  <2>2. \A w \in revisions' : RevisionOK(w)
    BY <1>1, <1>2 DEF AuditInv, RevisionsOK
  <2>3. \A w, x \in revisions' : w.key = x.key /\ w.num = x.num => w = x
    BY <1>2 DEF AuditInv, RevisionsOK
  <2>4. ASSUME NEW w \in revisions' PROVE \E x \in revisions' : x.key = w.key /\ x.num = 1
    <3>1. CASE w.key = v.key /\ v.num = 1
      BY <1>2, <3>1
    <3>2. CASE w.key # v.key \/ v.num # 1
      <4>1. PICK y \in revisions : y.key = w.key
        BY <1>1, <1>2, <3>2
      <4>2. PICK x \in revisions : x.key = w.key /\ x.num = 1
        BY <4>1 DEF AuditInv, RevisionsOK
      <4>3. QED
        BY <1>2, <3>2, <4>2
    <3>3. QED
      BY <3>1, <3>2
  <2>5. ASSUME NEW w \in revisions' PROVE w.num <= Cardinality(RevisionsOf(w.key))'
    <3>1. CASE w.key # v.key
      <4>1. w \in revisions /\ RevisionsOf(w.key)' = RevisionsOf(w.key)
        BY <1>2, <3>1 DEF RevisionsOf
      <4>2. QED
        BY <4>1 DEF AuditInv, RevisionsOK
    <3>2. CASE w.key = v.key
      <4>1. /\ \A x \in RevisionsOf(v.key) : x.num <= Cardinality(RevisionsOf(v.key)) /\ x.num \in Nat
            /\ Cardinality(RevisionsOf(v.key)) \in Nat
            /\ Cardinality(RevisionsOf(v.key)') \in Nat
            /\ \/ /\ Cardinality(RevisionsOf(v.key)') = Cardinality(RevisionsOf(v.key))
                  /\ \E x \in RevisionsOf(v.key) : x.num = v.num
               \/ /\ Cardinality(RevisionsOf(v.key)') = Cardinality(RevisionsOf(v.key)) + 1
                  /\ v.num = Cardinality(RevisionsOf(v.key)) + 1
        <5>1. v.num \in Nat /\ RevisionsOK
          BY <1>1, IDAssumption DEF RevisionOK, AuditInv
        <5>2. \/ \E x \in revisions : x.key = v.key /\ x.num = v.num
              \/ v.num = Cardinality(RevisionsOf(v.key)) + 1
          BY <1>1
        <5>3. QED
          BY <1>1, <5>1, <5>2, Numbering
      <4>2. w = v \/ w \in RevisionsOf(v.key)
        BY <1>2, <3>2 DEF RevisionsOf
      <4>3. v.num \in Nat /\ RevisionsOf(w.key)' = RevisionsOf(v.key)'
        BY <1>1, <3>2, IDAssumption DEF RevisionOK, RevisionsOf
      <4>4. QED
        BY <4>1, <4>2, <4>3
    <3>3. QED
      BY <3>1, <3>2
  <2>6. QED
    BY <2>1, <2>2, <2>3, <2>4, <2>5 DEF RevisionsOK
<1>4. ASSUME NEW r \in recs' PROVE RecOK(r) /\ \E x \in revisions' : x.key = r.key
  <2>1. CASE r \in recs
    <3>1. PICK w \in revisions : w.key = r.key
      BY <2>1 DEF AuditInv, RecsOK
    <3>2. w \in revisions' \/ v.key = r.key
      BY <1>2, <3>1
    <3>3. QED
      BY <1>2, <2>1, <3>1, <3>2 DEF AuditInv, RecsOK
  <2>2. CASE r \in Proposed(q, v)
    <3>1. RecOK(r) /\ r.key = v.key
      BY <1>1, <2>2, ProposedFacts
    <3>2. QED
      BY <1>2, <3>1
  <2>3. QED
    BY <1>1, <2>1, <2>2
<1>5. ASSUME NEW r \in recs', NEW t \in recs', r.key = t.key, r.num = t.num, r.finding = t.finding
      PROVE  r = t
  <2>1. \A x \in recs' : x \in recs \/ (x \in Proposed(q, v) /\ ~Stored(x))
    BY <1>1
  <2>2. \A x, y \in Proposed(q, v) : x.finding = y.finding => x = y
    BY <1>1, ProposedFacts
  <2>3. QED
    BY <1>5, <2>1, <2>2 DEF Stored, AuditInv, RecsOK
<1>6. IsFiniteSet(recs')
  <2>1. IsFiniteSet(Proposed(q, v))
    BY <1>1, ProposedFacts
  <2>2. IsFiniteSet({r \in Proposed(q, v) : ~Stored(r)})
    BY <2>1, FS_Subset
  <2>3. QED
    BY <1>1, <2>2, FS_Union DEF AuditInv, RecsOK
<1>7. QED
  BY <1>3, <1>4, <1>5, <1>6 DEF AuditInv, RecsOK

\* A decision of a user changes the state and the times of one recommendation.
LEMMA FeedbackKeeps ==
  ASSUME AuditInv, NEW r \in recs, NEW state, NEW at \in FeedbackTimes,
         GiveFeedback(r, state, at, at + Cooldown)
  PROVE  AuditInv'
<1> DEFINE n == [r EXCEPT !.state = state, !.updated = at, !.cooldown = at + Cooldown]
<1>1. revisions' = revisions /\ recs' = (recs \ {r}) \cup {n}
  BY DEF GiveFeedback
<1>2. /\ DOMAIN r = RecFields /\ r.num \in Nat /\ r.created \in Int
      /\ r.scope = "project" => <<r.key, r.num, r.finding>> \in ProjectRecommendations
  BY DEF AuditInv, RecsOK, RecOK
<1>3. /\ DOMAIN n = RecFields /\ n.num = r.num /\ n.created = r.created /\ n.key = r.key
      /\ n.scope = r.scope /\ n.finding = r.finding
      /\ n.updated = at /\ n.cooldown = at + Cooldown
  BY <1>2 DEF RecFields
<1>4. at \in Int /\ at + Cooldown \in Int
  BY TimeAssumption
<1> HIDE DEF n
<1>5. RecOK(n)
  BY <1>2, <1>3, <1>4 DEF RecOK
<1>6. RevisionsOK'
  BY <1>1 DEF AuditInv, RevisionsOK, RevisionsOf
<1>7. \A x \in recs' : RecOK(x) /\ \E v \in revisions' : v.key = x.key
  BY <1>1, <1>3, <1>5 DEF AuditInv, RecsOK
<1>8. \A x, y \in recs' : x.key = y.key /\ x.num = y.num /\ x.finding = y.finding => x = y
  BY <1>1, <1>3 DEF AuditInv, RecsOK
<1>9. IsFiniteSet(recs')
  BY <1>1, FS_RemoveElement, FS_AddElement DEF AuditInv, RecsOK
<1>10. QED
  BY <1>6, <1>7, <1>8, <1>9 DEF AuditInv, RecsOK

\* A step keeps the invariant.
LEMMA NextAuditInv == AuditInv /\ [Next]_vars => AuditInv'
<1> SUFFICES ASSUME AuditInv, [Next]_vars PROVE AuditInv'
  OBVIOUS
<1>0. ASSUME revisions' = revisions, recs' = recs PROVE AuditInv'
  BY <1>0 DEF AuditInv, RevisionsOK, RevisionsOf, RecsOK
<1>1. ASSUME NEW q \in Requests, AuditProject(q) PROVE AuditInv'
  BY <1>1, AuditKeeps
<1>2. ASSUME NEW a \in Arrivals, Collect(a) PROVE AuditInv'
  BY <1>0, <1>2 DEF Collect
<1>3. ASSUME NEW i, NEW id, NEW at, ChangeVersion(i, id, at) PROVE AuditInv'
  BY <1>0, <1>3 DEF ChangeVersion
<1>4. ASSUME NEW r \in recs, NEW state, NEW at \in FeedbackTimes, GiveFeedback(r, state, at, at + Cooldown)
      PROVE  AuditInv'
  BY <1>4, FeedbackKeeps
<1>5. CASE UNCHANGED vars
  BY <1>0, <1>5 DEF vars
<1>6. QED
  BY <1>1, <1>2, <1>3, <1>4, <1>5 DEF Next

\* governance.go keeps, of every window, numbered revisions beginning with the first, each
\* with the decision on its own content.
THEOREM GovernanceInvariant == Spec => []AuditInv
BY InitAuditInv, NextAuditInv, PTL DEF Spec

\* governance.go's cohort floor: an audit of a task or a trajectory of fewer than three
\* turns stores a revision with no reference to evidence and no knowledge of a source;
\* its metrics, their statuses and its findings are those of the same counts with no
\* token, time or message used, now or earlier, and it holds and recommends nothing,
\* whatever rows it read.
THEOREM GovernanceSuppressedDisclosesNothing == Spec => []SuppressedDisclosesNothing
<1>1. AuditInv => SuppressedDisclosesNothing
  <2> SUFFICES ASSUME AuditInv, NEW v \in revisions,
                      v.key[1] \in {"task", "trajectory"}, v.content.snapshot.input.completedTurns < 3
               PROVE  Undisclosed(v.content) /\ v.decision = "hold"
    BY DEF SuppressedDisclosesNothing, Undisclosed, UsageUnseen
  <2>1. RevisionOK(v)
    BY DEF AuditInv, RevisionsOK
  <2>2. Undisclosed(v.content) /\ v.decision = decision(v.content)
    BY <2>1 DEF RevisionOK
  <2>3. QED
    BY <2>2 DEF Undisclosed
<1>2. QED
  BY <1>1, GovernanceInvariant, PTL
-----------------------------------------------------------------------------
(* The last word on a finding *)

\* Newer compares integers: the times of a recommendation and of the first audit of its
\* window.
LEMMA WindowTimes ==
  ASSUME AuditInv, NEW r \in recs
  PROVE  /\ WindowAsOf(r.key) \in Int /\ r.updated \in Int /\ r.num \in Nat
         /\ r.scope = "project" => RecommendationID(r) \in Int
<1>1. PICK v \in revisions : v.key = r.key /\ v.num = 1
  BY DEF AuditInv, RecsOK, RevisionsOK
<1> DEFINE w == CHOOSE x \in revisions : x.key = r.key /\ x.num = 1
<1>2. w \in revisions
  BY <1>1
<1>3. w.content.snapshot.asOf \in Int
  BY <1>2 DEF AuditInv, RevisionsOK, RevisionOK
<1>4. WindowAsOf(r.key) = w.content.snapshot.asOf
  BY DEF WindowAsOf
<1>5. /\ r.updated \in Int /\ r.num \in Nat
      /\ r.scope = "project" => RecommendationID(r) \in Int
  BY IDAssumption DEF AuditInv, RecsOK, RecOK, RecommendationID
<1>6. QED
  BY <1>3, <1>4, <1>5

\* recommendationContext: if of the recommendations known for a finding of a project one
\* changed after all others, and by as_of, then its state is the feedback.
LEMMA LastWord ==
  ASSUME AuditInv, NEW q, NEW code, NEW past, NEW s \in past,
         q.scope = "project", q.asOf \in Int,
         past = { r \in recs : /\ r.scope = "project" /\ r.project = q.ref
                               /\ r.finding = code /\ r.created <= q.asOf },
         \A t \in past \ {s} : t.updated < s.updated,
         s.updated <= q.asOf
  PROVE  Feedback(q, code) = [state |-> s.state, cooldown |-> s.cooldown, refs |-> s.refs]
<1> DEFINE newest == CHOOSE r \in past : \A t \in past : ~Newer(t, r)
<1>1. \A t \in past : /\ WindowAsOf(t.key) \in Int /\ t.updated \in Int /\ t.num \in Nat
                     /\ RecommendationID(t) \in Int
  BY WindowTimes
<1>2. \A t \in past : ~Newer(t, s)
  BY <1>1 DEF Newer
<1>3. \A t \in past \ {s} : Newer(s, t)
  BY <1>1 DEF Newer
<1>4. newest = s
  BY <1>2, <1>3
<1>5. past = { r \in recs : /\ q.scope = "project" /\ r.scope = "project" /\ r.project = q.ref
                            /\ r.finding = code /\ r.created <= q.asOf }
  OBVIOUS
<1> DEFINE known == { r \in recs : /\ q.scope = "project" /\ r.scope = "project" /\ r.project = q.ref
                                   /\ r.finding = code /\ r.created <= q.asOf }
           first == CHOOSE r \in known : \A t \in known : ~Newer(t, r)
<1>6. known = past
  OBVIOUS
<1>7. first = s
  BY <1>4, <1>6
<1>8. Feedback(q, code) =
        (IF known = {} THEN [state |-> None, cooldown |-> 0, refs |-> {}]
         ELSE IF first.updated > q.asOf THEN [state |-> "proposed", cooldown |-> 0, refs |-> first.refs]
         ELSE [state |-> first.state, cooldown |-> first.cooldown, refs |-> first.refs])
  BY DEF Feedback
<1> HIDE DEF known, first, newest
<1>9. known # {} /\ ~(s.updated > q.asOf)
  BY <1>1, <1>6
<1>10. QED
  BY <1>7, <1>8, <1>9

\* The step RecommendationsGated allows, with its local names as parameters.
GatedBy(r, c, earlier) ==
  /\ c.snapshot.input.coverage = "complete" /\ \A g \in Guardrails : c.guardrails[g] = "pass"
  /\ r.scope = "project" =>
       \A s \in {s \in earlier : \A t \in earlier \ {s} : t.updated < s.updated} : s.updated <= r.created =>
         /\ s.state # "verified"
         /\ s.state = "dismissed" => s.cooldown <= r.created \/ s.refs # r.refs

Earlier(r) ==
  {s \in recs : s.scope = "project" /\ s.project = r.project /\ s.finding = r.finding /\ s.created <= r.created}

\* Every recommendation an audit stores passed the gates.
LEMMA AuditGated ==
  ASSUME AuditInv, NEW q \in Requests, AuditProject(q), NEW r \in recs' \ recs
  PROVE  GatedBy(r, (CHOOSE v \in revisions' : v.key = r.key /\ v.num = r.num).content, Earlier(r))
<1>1. PICK v, windows :
           /\ RevisionOK(v) /\ v.key = auditWindowKey(q)
           /\ v.content = Content(rows, q, windows)
           /\ revisions' = {w \in revisions : <<w.key, w.num>> # <<v.key, v.num>>} \cup {v}
           /\ recs' = recs \cup {x \in Proposed(q, v) : ~Stored(x)}
  BY AuditFacts DEF AuditInv
<1> DEFINE s == Snapshot(rows, q, windows)
           c == Run(q, s)
<1>2. v.content = c /\ c.findings = detect(s) /\ c.snapshot = s
  BY <1>1 DEF Content, Run, Engine
<1> HIDE DEF s, c
<1>3. PICK f \in c.findings :
        /\ f.code \in c.recommended
        /\ r = [ key |-> v.key, num |-> v.num, scope |-> q.scope, project |-> v.project, finding |-> f.code,
                 refs |-> f.refs, state |-> "proposed", created |-> q.asOf, updated |-> q.asOf, cooldown |-> 0 ]
  <2>1. r \in Proposed(q, v)
    BY <1>1
  <2>2. QED
    BY <1>2, <2>1 DEF Proposed
<1>4. /\ r.key = v.key /\ r.num = v.num /\ r.scope = q.scope /\ r.project = v.project
      /\ r.finding = f.code /\ r.refs = f.refs /\ r.created = q.asOf
  BY <1>3
<1>5. (CHOOSE w \in revisions' : w.key = r.key /\ w.num = r.num) = v
  <2>1. v \in revisions' /\ \A w \in revisions' : w.key = v.key /\ w.num = v.num => w = v
    BY <1>1
  <2>2. QED
    BY <1>4, <2>1
<1>6. /\ s.input.coverage = "complete" /\ \A g \in Guardrails : c.guardrails[g] = "pass"
      /\ Feedback(q, f.code).state # "verified"
      /\ ~suppressed(f, recommendationContext(q), q.asOf)
      /\ f.code \in DOMAIN candidate
  BY <1>2, <1>3, RecommendedFacts DEF c
<1>7. recommendationContext(q)[f.code] = Feedback(q, f.code)
  BY <1>6 DEF recommendationContext
<1>8. ASSUME r.scope = "project", NEW w \in Earlier(r),
             \A t \in Earlier(r) \ {w} : t.updated < w.updated, w.updated <= r.created
      PROVE  /\ w.state # "verified"
             /\ w.state = "dismissed" => w.cooldown <= r.created \/ w.refs # r.refs
  <2>1. q.scope = "project" /\ v.project = q.ref
    <3>1. auditWindowKey(q)[1] = q.scope /\ auditWindowKey(q)[2] = q.ref
      BY DEF auditWindowKey
    <3>2. QED
      BY <1>1, <1>4, <1>8, <3>1 DEF RevisionOK
  <2>2. Earlier(r) = { x \in recs : /\ x.scope = "project" /\ x.project = q.ref
                                     /\ x.finding = f.code /\ x.created <= q.asOf }
    BY <1>4, <2>1 DEF Earlier
  <2>3. q.asOf \in Int
    BY TimeAssumption
  <2>4. w.updated <= q.asOf
    BY <1>4, <1>8
  <2>5. Feedback(q, f.code) = [state |-> w.state, cooldown |-> w.cooldown, refs |-> w.refs]
    BY <1>8, <2>1, <2>2, <2>3, <2>4, LastWord
  <2>6. w.state # "verified"
    BY <1>6, <2>5
  <2>7. w.state = "dismissed" => ~(q.asOf < w.cooldown) \/ w.refs # f.refs
    BY <1>6, <1>7, <2>5 DEF suppressed
  <2>8. w.cooldown \in Int
    BY DEF AuditInv, RecsOK, RecOK, Earlier
  <2>9. QED
    BY <1>4, <2>3, <2>6, <2>7, <2>8
<1>9. QED
  BY <1>2, <1>5, <1>6, <1>8 DEF GatedBy

\* recommendation.go and recommendationContext: a recommendation rests on complete
\* evidence and passing guardrails, and is not made against the last word of the user,
\* in whatever order audits, late rows and feedback come.
THEOREM GovernanceRecommendationsGated == Spec => RecommendationsGated
<1>1. ASSUME AuditInv, [Next]_vars, NEW r \in recs' \ recs, r.state = "proposed"
      PROVE  GatedBy(r, (CHOOSE v \in revisions' : v.key = r.key /\ v.num = r.num).content, Earlier(r))
  <2>1. ASSUME NEW x \in recs, NEW state \in {"verified", "dismissed"}, NEW at,
               GiveFeedback(x, state, at, at + Cooldown)
        PROVE  FALSE
    <3> DEFINE n == [x EXCEPT !.state = state, !.updated = at, !.cooldown = at + Cooldown]
    <3>1. r = n
      BY <1>1, <2>1 DEF GiveFeedback
    <3>2. DOMAIN x = RecFields
      BY <1>1 DEF AuditInv, RecsOK, RecOK
    <3>3. n.state = state
      BY <3>2 DEF RecFields
    <3>4. QED
      BY <1>1, <3>1, <3>3
  <2>2. recs' # recs
    BY <1>1
  <2>3. PICK q \in Requests : AuditProject(q)
    <3>1. CASE \E a \in Arrivals : Collect(a)
      BY <2>2, <3>1 DEF Collect
    <3>2. CASE \E i \in Identities, id \in VersionIDs : \E at \in ChangeTimes[i] : ChangeVersion(i, id, at)
      BY <2>2, <3>2 DEF ChangeVersion
    <3>3. ~ UNCHANGED vars
      BY <2>2 DEF vars
    <3>4. QED
      BY <1>1, <2>1, <3>1, <3>2, <3>3 DEF Next
  <2>4. QED
    BY <1>1, <2>3, AuditGated
<1>2. AuditInv /\ [Next]_vars =>
      [ \A r \in recs' \ recs :
        r.state = "proposed" =>
          LET c == (CHOOSE v \in revisions' : v.key = r.key /\ v.num = r.num).content
              earlier == {s \in recs : s.scope = "project" /\ s.project = r.project /\ s.finding = r.finding
                                        /\ s.created <= r.created}
              word == {s \in earlier : \A t \in earlier \ {s} : t.updated < s.updated}
          IN  /\ c.snapshot.input.coverage = "complete" /\ \A g \in Guardrails : c.guardrails[g] = "pass"
              /\ r.scope = "project" =>
                   \A s \in word : s.updated <= r.created =>
                     /\ s.state # "verified"
                     /\ s.state = "dismissed" => s.cooldown <= r.created \/ s.refs # r.refs ]_recs
  BY <1>1 DEF GatedBy, Earlier
<1>3. QED
  BY <1>2, GovernanceInvariant, PTL DEF Spec, RecommendationsGated
-----------------------------------------------------------------------------
(* Narrow scopes *)

\* The rows of the trajectories of a scope.
Own(R, q) == {r \in R : W(r).traj \in Trajectories(Scoped(R, q))}

\* p asks for the scope of q, perhaps at another time.
SameScope(p, q) == p.scope = q.scope /\ p.ref = q.ref /\ p.sources = q.sources

\* The earlier windows of a request are of its scope.
LEMMA PriorScope ==
  ASSUME NEW q \in Requests, NEW n
  PROVE  SameScope(Prior(q, n), q)
BY RequestAssumption DEF Prior, SameScope

\* auditFilter: which rows a narrow scope takes does not depend on rows of other
\* trajectories, in this window and in the ones before.
LEMMA OwnFilter ==
  ASSUME NEW R, NEW q, NEW p, Narrow(q), SameScope(p, q), Happened(R, q) # {}, NEW r
  PROVE  r \in Own(R, q) /\ auditFilter(Own(R, q), p, r) <=> r \in R /\ auditFilter(R, p, r)
<1>1. PICK h \in R : W(h).traj # None /\ auditFilter(R, q, h)
  BY DEF Happened
<1>2. CASE q.scope = "trajectory"
  <2>1. \A S, x : /\ auditFilter(S, p, x) <=> SourceOf[W(x).session] \in q.sources /\ W(x).traj = q.ref
                  /\ auditFilter(S, q, x) <=> SourceOf[W(x).session] \in q.sources /\ W(x).traj = q.ref
    BY <1>2 DEF auditFilter, SameScope
  <2>2. q.ref # None
    BY <1>1, <2>1
  <2>3. r \in R /\ auditFilter(R, p, r) => r \in Own(R, q)
    BY <2>1, <2>2 DEF Own, Trajectories, Scoped
  <2>4. r \in Own(R, q) => r \in R
    BY DEF Own
  <2>5. QED
    BY <2>1, <2>3, <2>4
<1>3. CASE q.scope = "task"
  <2>1. \A S, x : /\ auditFilter(S, p, x) <=> auditFilter(S, q, x)
                  /\ auditFilter(S, q, x) <=>
                       /\ SourceOf[W(x).session] \in q.sources
                       /\ \E y \in S : W(y).traj # None /\ W(y).traj = W(x).traj /\ W(y).task = q.ref
    BY <1>3 DEF auditFilter, SameScope
  <2>2. ASSUME r \in R, auditFilter(R, q, r) PROVE r \in Own(R, q) /\ auditFilter(Own(R, q), q, r)
    <3>1. PICK y \in R : W(y).traj # None /\ W(y).traj = W(r).traj /\ W(y).task = q.ref
      BY <2>1, <2>2
    <3>2. W(r).traj \in Trajectories(Scoped(R, q))
      BY <2>2, <3>1 DEF Trajectories, Scoped
    <3>3. y \in Own(R, q) /\ r \in Own(R, q)
      BY <2>2, <3>1, <3>2 DEF Own
    <3>4. QED
      BY <2>1, <2>2, <3>1, <3>3
  <2>3. ASSUME r \in Own(R, q), auditFilter(Own(R, q), q, r) PROVE r \in R /\ auditFilter(R, q, r)
    <3>1. Own(R, q) \subseteq R
      BY DEF Own
    <3>2. QED
      BY <2>1, <2>3, <3>1
  <2>4. QED
    BY <2>1, <2>2, <2>3
<1>4. QED
  BY <1>2, <1>3 DEF Narrow

\* Every set of rows an audit of a narrow scope reads is the same without the rows of
\* other trajectories.
LEMMA OwnRows ==
  ASSUME NEW R, NEW q, NEW p, Narrow(q), SameScope(p, q), Happened(R, q) # {}
  PROVE  LET O == Own(R, q)
         IN  /\ Scoped(O, p) = Scoped(R, p)
             /\ Sessions(O, p) = Sessions(R, p)
             /\ Happened(O, p) = Happened(R, p)
             /\ Observed(O, p) = Observed(R, p)
             /\ Turns(O, p) = Turns(R, p)
             /\ evidenceScope(O, p) = evidenceScope(R, p)
<1> DEFINE O == Own(R, q)
<1>1. \A r : r \in O /\ auditFilter(O, p, r) <=> r \in R /\ auditFilter(R, p, r)
  BY OwnFilter
<1> HIDE DEF O
<1>2. Scoped(O, p) = Scoped(R, p)
  BY <1>1 DEF Scoped
<1>3. Sessions(O, p) = Sessions(R, p)
  BY <1>2 DEF Sessions
<1>4. Happened(O, p) = Happened(R, p)
  BY <1>1 DEF Happened
<1>5. Observed(O, p) = Observed(R, p)
  BY <1>1 DEF Observed
<1>6. Turns(O, p) = Turns(R, p)
  BY <1>4 DEF Turns
<1>7. QED
  BY <1>2, <1>3, <1>4, <1>5, <1>6 DEF evidenceScope, O

\* The measures of a window, and the versions it ran under.
LEMMA OwnMeasures ==
  ASSUME NEW R, NEW q, NEW p, Narrow(q), SameScope(p, q), Happened(R, q) # {}
  PROVE  /\ metrics(Own(R, q), p) = metrics(R, p)
         /\ dimensionSignature(Own(R, q), p) = dimensionSignature(R, p)
         /\ overhead(Own(R, q), p) = overhead(R, p)
         /\ \A field, value : toolRefs(Own(R, q), p, field, value) = toolRefs(R, p, field, value)
         /\ invocationCounts(Own(R, q), p) = invocationCounts(R, p)
         /\ reportSources(Own(R, q), p) = reportSources(R, p)
<1> DEFINE O == Own(R, q)
<1>1. /\ Sessions(O, p) = Sessions(R, p) /\ Happened(O, p) = Happened(R, p) /\ Observed(O, p) = Observed(R, p)
      /\ Turns(O, p) = Turns(R, p) /\ evidenceScope(O, p) = evidenceScope(R, p)
  BY OwnRows
<1> HIDE DEF O
<1>2. metrics(O, p) = metrics(R, p)
  BY <1>1 DEF metrics
<1>3. dimensionSignature(O, p) = dimensionSignature(R, p)
  BY <1>1 DEF dimensionSignature
<1>4. overhead(O, p) = overhead(R, p)
  BY <1>1 DEF overhead
<1>5. \A field, value : toolRefs(O, p, field, value) = toolRefs(R, p, field, value)
  BY <1>1 DEF toolRefs
<1>6. invocationCounts(O, p) = invocationCounts(R, p)
  BY <1>1 DEF invocationCounts
<1>7. reportSources(O, p) = reportSources(R, p)
  BY <1>1 DEF reportSources
<1>8. QED
  BY <1>2, <1>3, <1>4, <1>5, <1>6, <1>7 DEF O

\* The shares of one project of the turns of a scope.
ProjectShares(S, p, x, total) ==
  {Share(x, c, ClassValues(S, p, {r \in Turns(S, p) : ProjectOf[W(r).session] = x})[c], total) :
     c \in DOMAIN ClassValues(S, p, {r \in Turns(S, p) : ProjectOf[W(r).session] = x})}

\* Tokens are shared out over the turns of the scope, by the usage of their own
\* trajectories.
LEMMA OwnWorkload ==
  ASSUME NEW R, NEW q, NEW p, Narrow(q), SameScope(p, q), Happened(R, q) # {}
  PROVE  /\ workloadValues(Own(R, q), p) = workloadValues(R, p)
         /\ contributions(Own(R, q), p) = contributions(R, p)
<1> DEFINE O == Own(R, q)
<1>1. Turns(O, p) = Turns(R, p)
  BY OwnRows
<1>2. Trajectories(Turns(R, p)) \subseteq Trajectories(Scoped(R, q))
  <2>1. \A r : auditFilter(R, p, r) <=> auditFilter(R, q, r)
    BY DEF auditFilter, SameScope, Narrow
  <2>2. QED
    BY <2>1 DEF Turns, Happened, Scoped, Trajectories
<1>3. ASSUME NEW turns, turns \subseteq Turns(R, p)
      PROVE  ClassValues(O, p, turns) = ClassValues(R, p, turns)
  <2>1. Trajectories(turns) \subseteq Trajectories(Scoped(R, q))
    BY <1>2, <1>3 DEF Trajectories
  <2>2. ASSUME NEW t \in Trajectories(turns)
        PROVE  {r \in O : W(r).traj = t /\ InWindow(p, Recorded(r))} = {r \in R : W(r).traj = t /\ InWindow(p, Recorded(r))}
    BY <2>1 DEF Own
  <2> HIDE DEF O
  <2>3. [ t \in Trajectories(turns) |-> SumOf("tokens", {r \in O : W(r).traj = t /\ InWindow(p, Recorded(r))}) ]
        = [ t \in Trajectories(turns) |-> SumOf("tokens", {r \in R : W(r).traj = t /\ InWindow(p, Recorded(r))}) ]
    BY <2>2
  <2>4. QED
    BY <2>3 DEF ClassValues
<1> HIDE DEF O
<1>4. workloadValues(O, p) = workloadValues(R, p)
  BY <1>1, <1>3 DEF workloadValues
<1>5. contributions(O, p) = contributions(R, p)
  <2> DEFINE total == Total(workloadValues(R, p)).tokens
  <2>1. \A S : /\ Turns(S, p) = Turns(R, p) /\ workloadValues(S, p) = workloadValues(R, p)
             => contributions(S, p) =
                  UNION {ProjectShares(S, p, x, total) : x \in {ProjectOf[W(r).session] : r \in Turns(R, p)}}
    BY DEF contributions, ProjectShares
  <2>2. \A x : ProjectShares(O, p, x, total) = ProjectShares(R, p, x, total)
    BY <1>1, <1>3 DEF ProjectShares
  <2> HIDE DEF total
  <2>3. QED
    BY <1>1, <1>4, <2>1, <2>2
<1>6. QED
  BY <1>4, <1>5 DEF O

\* What is kept of an earlier window.
WindowOf(input, comparable) ==
  [ values |-> [m \in MetricNames |-> Compute(input)[m].value], coverage |-> input.coverage,
    comparable |-> comparable, guardrailsPass |-> guardrailsPass(Compute(input)), valid |-> ~invalidInput(input) ]

\* The windows before a narrow scope are the same without the rows of other trajectories.
LEMMA OwnWindows ==
  ASSUME NEW R, NEW q \in Requests, Narrow(q), Happened(R, q) # {}
  PROVE  priorWindows(Own(R, q), q) = priorWindows(R, q)
<1> DEFINE O == Own(R, q)
<1>1. SameScope(q, q)
  BY DEF SameScope
<1>2. dimensionSignature(O, q) = dimensionSignature(R, q)
  BY <1>1, OwnMeasures
<1>3. \A n : /\ metrics(O, Prior(q, n)) = metrics(R, Prior(q, n))
             /\ dimensionSignature(O, Prior(q, n)) = dimensionSignature(R, Prior(q, n))
  BY OwnMeasures, PriorScope
<1> HIDE DEF O
<1>4. \A S : priorWindows(S, q) =
        << >> \o [n \in 1 .. 29 |-> WindowOf(metrics(S, Prior(q, n)),
                                            dimensionSignature(S, Prior(q, n)) = dimensionSignature(S, q))]
  BY DEF priorWindows, WindowOf
<1>5. [n \in 1 .. 29 |-> WindowOf(metrics(O, Prior(q, n)), dimensionSignature(O, Prior(q, n)) = dimensionSignature(O, q))]
      = [n \in 1 .. 29 |-> WindowOf(metrics(R, Prior(q, n)), dimensionSignature(R, Prior(q, n)) = dimensionSignature(R, q))]
  BY <1>2, <1>3
<1>6. QED
  BY <1>4, <1>5 DEF O
\* What audit.go makes of two snapshots that differ only in the counts of what was
\* excluded differs only in these.
LEMMA CountsOnly ==
  ASSUME NEW q, NEW s, NEW t,
         s.input = t.input, s.overhead = t.overhead,
         s.passiveRefs = t.passiveRefs, s.repeatedRefs = t.repeatedRefs,
         s.windows = t.windows, s.matched = t.matched, s.suppressed = t.suppressed,
         "counts" \in DOMAIN s, [s EXCEPT !.counts.excluded = t.counts.excluded] = t
  PROVE  [Run(q, s) EXCEPT !.snapshot.counts.excluded = t.counts.excluded] = Run(q, t)
<1>1. detect(s) = detect(t)
  <2>1. detectors(s) = detectors(t)
    BY DEF detectors
  <2>2. QED
    BY <2>1 DEF detect
<1>2. \A m : comparisons(s, m) = comparisons(t, m)
  BY DEF comparisons
<1> DEFINE results == Compute(t.input)
           marks   == Reported(t, results)
           extra   == Compute(t.overhead)
           rails   == [g \in Guardrails |-> guardrailState(g, results[g])]
           advice  == Generate(detect(t), recommendationContext(q), q.asOf, guardrailsPass(results))
           Rest(x) == [ snapshot |-> x, results |-> marks, overhead |-> extra, guardrails |-> rails,
                        findings |-> detect(t), recommended |-> advice ]
<1>3. Run(q, s) = Rest(s)
  <2>1. Compute(s.input) = results /\ Compute(s.overhead) = extra
    OBVIOUS
  <2>2. Reported(s, results) = marks
    BY <1>2 DEF Reported
  <2> HIDE DEF results, marks, extra
  <2>3. QED
    BY <1>1, <2>1, <2>2 DEF Run, Engine
<1>4. Run(q, t) = Rest(t)
  BY DEF Run, Engine
<1> HIDE DEF marks, extra, rails, advice
<1>5. [Rest(s) EXCEPT !.snapshot.counts.excluded = t.counts.excluded]
      = Rest([s EXCEPT !.counts.excluded = t.counts.excluded])
  OBVIOUS
<1> HIDE DEF Rest
<1>6. QED
  BY <1>3, <1>4, <1>5

\* Counts are a record of two, and what is included is counted by the scope alone.
LEMMA OwnCounts ==
  ASSUME NEW R, NEW q, Narrow(q), Happened(R, q) # {}, NEW windows
  PROVE  LET a == Snapshot(Own(R, q), q, windows).counts
             b == Snapshot(R, q, windows).counts
         IN  /\ DOMAIN a = {"included", "excluded"} /\ DOMAIN b = {"included", "excluded"}
             /\ [a EXCEPT !.excluded = b.excluded] = b
<1> DEFINE O == Own(R, q)
<1>1. /\ Scoped(O, q) = Scoped(R, q) /\ Turns(O, q) = Turns(R, q)
      /\ evidenceScope(O, q) = evidenceScope(R, q)
  BY OwnRows DEF SameScope
<1>2. metrics(O, q) = metrics(R, q)
  BY OwnMeasures DEF SameScope
<1> HIDE DEF O
<1>3. \A S : \E x : reportScopeCounts(S, q) =
        [ included |-> ScopeCounts(Cardinality(Trajectories(Scoped(S, q))), Cardinality(Turns(S, q)),
                                   Cardinality(CallsOf(Known(q, Turns(S, q)))), Cardinality(evidenceScope(S, q))),
          excluded |-> x ]
  BY DEF reportScopeCounts
<1>4. \E in, x, y : /\ reportScopeCounts(O, q) = [included |-> in, excluded |-> x]
                    /\ reportScopeCounts(R, q) = [included |-> in, excluded |-> y]
  BY <1>1, <1>3
<1>5. \E in, x, y : /\ Snapshot(O, q, windows).counts = [included |-> in, excluded |-> x]
                    /\ Snapshot(R, q, windows).counts = [included |-> in, excluded |-> y]
  <2>1. CASE privacySuppressed(q, metrics(R, q))
    <3> DEFINE input == Suppressed(metrics(R, q))
               none  == ScopeCounts(0, 0, 0, 0)
               in    == IF input.completedTurns = 0 THEN none
                        ELSE ScopeCounts(0, input.completedTurns, input.toolCalls, input.acceptedEvidence)
    <3>1. \A S : metrics(S, q) = metrics(R, q) => Snapshot(S, q, windows).counts = [included |-> in, excluded |-> none]
      BY <2>1 DEF Snapshot, SnapshotOf
    <3> HIDE DEF in, none
    <3>2. /\ Snapshot(O, q, windows).counts = [included |-> in, excluded |-> none]
          /\ Snapshot(R, q, windows).counts = [included |-> in, excluded |-> none]
      BY <1>2, <3>1
    <3> WITNESS in, none, none
    <3>3. QED
      BY <3>2
  <2>2. CASE ~privacySuppressed(q, metrics(R, q))
    <3>1. \A S : metrics(S, q) = metrics(R, q) => Snapshot(S, q, windows).counts = reportScopeCounts(S, q)
      BY <2>2 DEF Snapshot, SnapshotOf
    <3>2. QED
      BY <1>2, <1>4, <3>1
  <2>3. QED
    BY <2>1, <2>2
<1>6. QED
  BY <1>5 DEF O

\* A snapshot of a narrow scope without the rows of other trajectories.
LEMMA OwnSnapshot ==
  ASSUME NEW R, NEW q \in Requests, Narrow(q), Happened(R, q) # {}, NEW windows
  PROVE  LET s == Snapshot(Own(R, q), q, windows)
             t == Snapshot(R, q, windows)
         IN  /\ s.input = t.input /\ s.overhead = t.overhead
             /\ s.passiveRefs = t.passiveRefs /\ s.repeatedRefs = t.repeatedRefs
             /\ s.windows = t.windows /\ s.matched = t.matched /\ s.suppressed = t.suppressed
             /\ "counts" \in DOMAIN s /\ [s EXCEPT !.counts.excluded = t.counts.excluded] = t
<1> DEFINE O == Own(R, q)
<1>1. SameScope(q, q) /\ SameScope(Prior(q, 1), q)
  BY PriorScope DEF SameScope
<1>2. /\ metrics(O, q) = metrics(R, q)
      /\ dimensionSignature(O, q) = dimensionSignature(R, q)
      /\ overhead(O, q) = overhead(R, q)
      /\ \A field, value : toolRefs(O, q, field, value) = toolRefs(R, q, field, value)
      /\ invocationCounts(O, q) = invocationCounts(R, q)
      /\ reportSources(O, q) = reportSources(R, q)
  BY <1>1, OwnMeasures
<1>3. /\ workloadValues(O, q) = workloadValues(R, q) /\ contributions(O, q) = contributions(R, q)
      /\ workloadValues(O, Prior(q, 1)) = workloadValues(R, Prior(q, 1))
  BY <1>1, OwnWorkload
<1> HIDE DEF O
<1> DEFINE s == Snapshot(O, q, windows)
           t == Snapshot(R, q, windows)
<1>4. s.reference = t.reference /\ s.scope = t.scope /\ s.start = t.start /\ s.asOf = t.asOf
  BY <1>2 DEF Snapshot, SnapshotOf
<1>5. s.suppressed = t.suppressed /\ s.input = t.input /\ s.overhead = t.overhead
  BY <1>2 DEF Snapshot, SnapshotOf
<1>6. s.passiveRefs = t.passiveRefs /\ s.repeatedRefs = t.repeatedRefs
  BY <1>2 DEF Snapshot, SnapshotOf
<1>7. s.windows = t.windows /\ s.matched = t.matched /\ s.versions = t.versions
  BY <1>2 DEF Snapshot, SnapshotOf
<1>8. s.contributions = t.contributions /\ s.invocations = t.invocations
  BY <1>2, <1>3 DEF Snapshot, SnapshotOf
<1>9. s.workload = t.workload
  BY <1>2, <1>3 DEF Snapshot, SnapshotOf
<1>10. s.sources = t.sources
  BY <1>2 DEF Snapshot, SnapshotOf
<1>11. IsSnapshot(s) /\ IsSnapshot(t)
  BY SnapshotRecord
<1>c. [s.counts EXCEPT !.excluded = t.counts.excluded] = t.counts
  BY OwnCounts DEF O
<1> HIDE DEF s, t
<1>12. \A x \in SnapshotFields \ {"counts"} : s[x] = t[x]
  BY <1>4, <1>5, <1>6, <1>7, <1>8, <1>9, <1>10 DEF SnapshotFields
<1>13. "counts" \in DOMAIN s /\ [s EXCEPT !.counts.excluded = t.counts.excluded] = t
  <2>1. "counts" \in DOMAIN s /\ [s EXCEPT !.counts = t.counts] = t
    BY <1>11, <1>12 DEF IsSnapshot, SnapshotFields
  <2>2. ASSUME NEW x PROVE [s EXCEPT !.counts.excluded = x] = [s EXCEPT !.counts = [s.counts EXCEPT !.excluded = x]]
    OBVIOUS
  <2>3. QED
    BY <1>c, <2>1, <2>2
<1>14. QED
  BY <1>5, <1>6, <1>7, <1>13 DEF s, t, O

\* The audit of a narrow scope, with its earlier windows.
LEMMA OwnContent ==
  ASSUME NEW R, NEW q \in Requests, Narrow(q), Happened(R, q) # {}
  PROVE  LET o == Content(Own(R, q), q, priorWindows(Own(R, q), q))
             c == Content(R, q, priorWindows(R, q))
         IN  [o EXCEPT !.snapshot.counts.excluded = c.snapshot.counts.excluded] = c
<1> DEFINE w == priorWindows(R, q)
           s == Snapshot(Own(R, q), q, w)
           t == Snapshot(R, q, w)
<1>1. priorWindows(Own(R, q), q) = w
  BY OwnWindows
<1> HIDE DEF w
<1>2. /\ s.input = t.input /\ s.overhead = t.overhead
      /\ s.passiveRefs = t.passiveRefs /\ s.repeatedRefs = t.repeatedRefs
      /\ s.windows = t.windows /\ s.matched = t.matched /\ s.suppressed = t.suppressed
      /\ "counts" \in DOMAIN s /\ [s EXCEPT !.counts.excluded = t.counts.excluded] = t
  BY OwnSnapshot
<1>3. Content(Own(R, q), q, priorWindows(Own(R, q), q)) = Run(q, s) /\ Content(R, q, w) = Run(q, t)
  BY <1>1 DEF Content
<1> HIDE DEF s, t
<1>4. [Run(q, s) EXCEPT !.snapshot.counts.excluded = t.counts.excluded] = Run(q, t)
  BY <1>2, CountsOnly
<1>5. Run(q, t).snapshot = t
  BY DEF Run, Engine
<1>6. QED
  BY <1>3, <1>4, <1>5 DEF w
-----------------------------------------------------------------------------
(* Audits asked again *)

\* The recommendations known for a finding of a project.
Past(q, code) ==
  { r \in recs : /\ q.scope = "project" /\ r.scope = "project" /\ r.project = q.ref
                 /\ r.finding = code /\ r.created <= q.asOf }

Newest(q, code) == CHOOSE r \in Past(q, code) : \A t \in Past(q, code) : ~Newer(t, r)

\* recommendationContext, by these names.
LEMMA FeedbackIs ==
  ASSUME NEW q, NEW code
  PROVE  Feedback(q, code) =
           (IF Past(q, code) = {} THEN [state |-> None, cooldown |-> 0, refs |-> {}]
            ELSE IF Newest(q, code).updated > q.asOf
            THEN [state |-> "proposed", cooldown |-> 0, refs |-> Newest(q, code).refs]
            ELSE [state |-> Newest(q, code).state, cooldown |-> Newest(q, code).cooldown, refs |-> Newest(q, code).refs])
BY DEF Feedback, Past, Newest

\* ORDER BY ends with the id: of two recommendations for a finding one is newer, and
\* newer is transitive.
LEMMA NewerIsTotal ==
  ASSUME AuditInv, NEW q, NEW code
  PROVE  /\ \A r \in Past(q, code) : ~Newer(r, r)
         /\ \A r, t \in Past(q, code) : r # t => Newer(r, t) \/ Newer(t, r)
         /\ \A r, t, u \in Past(q, code) : Newer(r, t) /\ Newer(t, u) => Newer(r, u)
<1> DEFINE P == Past(q, code)
<1>1. \A r \in P : /\ WindowAsOf(r.key) \in Int /\ r.updated \in Int /\ r.num \in Nat
                   /\ RecommendationID(r) \in Int
  BY WindowTimes DEF Past
<1>2. ASSUME NEW r \in P, NEW t \in P, r # t PROVE RecommendationID(r) # RecommendationID(t)
  <2>1. /\ <<r.key, r.num, r.finding>> \in ProjectRecommendations
        /\ <<t.key, t.num, t.finding>> \in ProjectRecommendations
    BY DEF Past, AuditInv, RecsOK, RecOK
  <2>2. <<r.key, r.num, r.finding>> # <<t.key, t.num, t.finding>>
    BY <1>2 DEF Past, AuditInv, RecsOK
  <2>3. QED
    BY <2>1, <2>2, IDAssumption DEF RecommendationID
<1> HIDE DEF P
<1>3. \A r \in P : ~Newer(r, r)
  BY <1>1 DEF Newer
<1>4. \A r, t \in P : r # t => Newer(r, t) \/ Newer(t, r)
  BY <1>1, <1>2 DEF Newer
<1>5. \A r, t, u \in P : Newer(r, t) /\ Newer(t, u) => Newer(r, u)
  BY <1>1 DEF Newer
<1>6. QED
  BY <1>3, <1>4, <1>5 DEF P

\* So there is a newest one: the one with the fewest newer ones has none.
LEMMA NewestExists ==
  ASSUME AuditInv, NEW q, NEW code, Past(q, code) # {}
  PROVE  /\ Newest(q, code) \in Past(q, code)
         /\ \A t \in Past(q, code) : ~Newer(t, Newest(q, code))
<1> DEFINE P == Past(q, code)
           above(r) == {t \in P : Newer(t, r)}
           T == {Cardinality(above(r)) : r \in P}
<1>1. IsFiniteSet(P)
  BY FS_Subset DEF AuditInv, RecsOK, Past
<1>2. \A r \in P : IsFiniteSet(above(r)) /\ Cardinality(above(r)) \in Nat
  BY <1>1, FS_Subset, FS_CardinalityType
<1>3. T \subseteq Nat /\ T # {}
  BY <1>2
<1>4. PICK m \in T : \A k \in T : m <= k
  BY <1>3, Least
<1>5. PICK r \in P : m = Cardinality(above(r))
  BY <1>4
<1>6. ASSUME NEW t \in P, Newer(t, r) PROVE FALSE
  <2>1. above(t) \subseteq above(r) /\ above(t) # above(r)
    BY <1>5, <1>6, NewerIsTotal
  <2>2. Cardinality(above(t)) < Cardinality(above(r))
    BY <1>2, <1>5, <1>6, <2>1, FS_Subset
  <2>3. Cardinality(above(t)) \in T /\ Cardinality(above(t)) \in Nat /\ Cardinality(above(r)) \in Nat
    BY <1>2, <1>5, <1>6
  <2> HIDE DEF above, T
  <2>4. QED
    BY <1>4, <1>5, <2>2, <2>3
<1>7. QED
  BY <1>5, <1>6 DEF Newest
\* A newest recommendation for every finding with one.
NewestFound ==
  \A q, code : Past(q, code) # {} =>
    Newest(q, code) \in Past(q, code) /\ \A t \in Past(q, code) : ~Newer(t, Newest(q, code))

\* The same in any state.
LEMMA NewestAlways == AuditInv => NewestFound
BY NewestExists DEF NewestFound

\* And after a step.
LEMMA NewestNext == AuditInv' => NewestFound'
BY NewestAlways, PTL

\* The first audit of a window stays the first, so what is newer stays newer.
LEMMA NewerKept ==
  ASSUME AuditInv, AuditInv', NEW q \in Requests, AuditProject(q), NEW r \in recs, NEW t \in recs
  PROVE  Newer(r, t)' <=> Newer(r, t)
<1>1. PICK v :
        /\ \/ \E w \in revisions : w.key = v.key /\ w.num = v.num /\ w.content = v.content
           \/ v.num = Cardinality(RevisionsOf(v.key)) + 1
        /\ revisions' = {w \in revisions : <<w.key, w.num>> # <<v.key, v.num>>} \cup {v}
  BY AuditFacts DEF AuditInv
<1>2. ASSUME NEW x \in recs PROVE WindowAsOf(x.key)' = WindowAsOf(x.key)
  <2>1. PICK w \in revisions : w.key = x.key /\ w.num = 1
    BY DEF AuditInv, RecsOK, RevisionsOK
  <2>2. PICK y \in revisions' : y.key = x.key /\ y.num = 1 /\ y.content = w.content
    <3>1. CASE w.key # v.key \/ w.num # v.num
      BY <1>1, <2>1, <3>1
    <3>2. CASE w.key = v.key /\ w.num = v.num
      <4>1. v.num <= Cardinality(RevisionsOf(v.key)) /\ Cardinality(RevisionsOf(v.key)) \in Nat /\ v.num \in Nat
        <5>1. IsFiniteSet(RevisionsOf(v.key))
          BY FS_Subset DEF AuditInv, RevisionsOK, RevisionsOf
        <5>2. QED
          BY <2>1, <3>2, <5>1, FS_CardinalityType DEF AuditInv, RevisionsOK
      <4>2. PICK z \in revisions : z.key = v.key /\ z.num = v.num /\ z.content = v.content
        BY <1>1, <4>1
      <4>3. z = w
        BY <3>2, <4>2 DEF AuditInv, RevisionsOK
      <4>4. QED
        BY <1>1, <2>1, <3>2, <4>2, <4>3
    <3>3. QED
      BY <3>1, <3>2
  <2>3. \A z \in revisions : z.key = x.key /\ z.num = 1 => z = w
    BY <2>1 DEF AuditInv, RevisionsOK
  <2>4. \A z \in revisions' : z.key = x.key /\ z.num = 1 => z = y
    BY <2>2 DEF AuditInv, RevisionsOK
  <2>5. WindowAsOf(x.key) = w.content.snapshot.asOf
    BY <2>1, <2>3 DEF WindowAsOf
  <2>6. WindowAsOf(x.key)' = y.content.snapshot.asOf
    BY <2>2, <2>4 DEF WindowAsOf
  <2>7. QED
    BY <2>2, <2>5, <2>6
<1>3. QED
  BY <1>2 DEF Newer, RecommendationID

\* A finding may be recommended against this feedback.
Admits(g, f, asOf) ==
  f.state # "verified" /\ ~(f.state = "dismissed" /\ asOf < f.cooldown /\ g.refs = f.refs)

\* The recommendations an audit stores are feedback to the next one, and they do not
\* change what it recommends: it finds the old last word, or its own proposal.
LEMMA FeedbackSettled ==
  ASSUME AuditInv, AuditInv', NEW q \in Requests, AuditProject(q), NEW s,
         s = Snapshot(rows, q, priorWindows(rows, q)),
         NEW g \in detect(s), g.code \in DOMAIN candidate
  PROVE  Admits(g, Feedback(q, g.code), q.asOf) <=> Admits(g, Feedback(q, g.code)', q.asOf)
<1> DEFINE code == g.code
<1>0. q.asOf \in Int
  BY TimeAssumption
<1>1. CASE q.scope # "project"
  <2>1. Past(q, code) = {} /\ Past(q, code)' = {}
    BY <1>1 DEF Past
  <2>2. Feedback(q, code)' = Feedback(q, code)
    BY <1>1 DEF Feedback
  <2>3. QED
    BY <2>2
<1>2. CASE q.scope = "project"
  <2>1. PICK v, windows :
           /\ RevisionOK(v) /\ v.key = auditWindowKey(q)
           /\ v.content = Content(rows, q, windows)
           /\ windows = priorWindows(rows, q)
           /\ recs' = recs \cup {r \in Proposed(q, v) : ~Stored(r)}
    BY AuditFacts DEF AuditInv
  <2>2. v.content = Run(q, s) /\ v.content.findings = detect(s)
    BY <2>1 DEF Content, Run, Engine
  <2>3. ASSUME NEW r \in Proposed(q, v), r.finding = code
        PROVE  /\ r.updated = q.asOf /\ r.state = "proposed"
               /\ Admits(g, Feedback(q, code), q.asOf)
    <3>1. PICK f \in detect(s) :
            /\ f.code \in Run(q, s).recommended
            /\ r = [ key |-> v.key, num |-> v.num, scope |-> q.scope, project |-> v.project, finding |-> f.code,
                     refs |-> f.refs, state |-> "proposed", created |-> q.asOf, updated |-> q.asOf, cooldown |-> 0 ]
      BY <2>2 DEF Proposed
    <3>2. r.updated = q.asOf /\ r.state = "proposed" /\ r.finding = f.code
      BY <3>1
    <3>3. f.code = code /\ f.refs = g.refs
      <4>1. f.refs = detectors(s)[f.code].refs /\ g.refs = detectors(s)[g.code].refs
        BY DEF detect
      <4>2. f.code = code
        BY <2>3, <3>2
      <4>3. QED
        BY <4>1, <4>2
    <3>4. Feedback(q, code).state # "verified" /\ ~suppressed(f, recommendationContext(q), q.asOf)
      BY <3>1, <3>3, RecommendedFacts
    <3>5. recommendationContext(q)[code] = Feedback(q, code)
      BY DEF recommendationContext
    <3>6. QED
      BY <3>2, <3>3, <3>4, <3>5 DEF suppressed, Admits
  <2>4. Past(q, code) \subseteq Past(q, code)' /\ Past(q, code) \subseteq recs
    BY <2>1 DEF Past
  <2>5. \A r \in Past(q, code)' : r \in Past(q, code) \/ (r \in Proposed(q, v) /\ r.finding = code)
    BY <2>1 DEF Past
  <2>6. CASE Past(q, code)' = {}
    <3>1. Past(q, code) = {}
      BY <2>4, <2>6
    <3>2. Feedback(q, code) = [state |-> None, cooldown |-> 0, refs |-> {}]
      BY <3>1, FeedbackIs
    <3>3. Feedback(q, code)' = [state |-> None, cooldown |-> 0, refs |-> {}]
      BY <2>6 DEF Feedback, Past
    <3>4. QED
      BY <3>2, <3>3
  <2>7. CASE Past(q, code)' # {}
    <3>0. PICK n : n = Newest(q, code)'
      OBVIOUS
    <3>1. n \in Past(q, code)' /\ \A t \in Past(q, code)' : ~Newer(t, n)'
      <4>1. NewestFound'
        BY NewestNext
      <4>2. QED
        BY <2>7, <3>0, <4>1 DEF NewestFound
    <3>2. Feedback(q, code)' =
            (IF n.updated > q.asOf THEN [state |-> "proposed", cooldown |-> 0, refs |-> n.refs]
             ELSE [state |-> n.state, cooldown |-> n.cooldown, refs |-> n.refs])
      BY <2>7, <3>0 DEF Feedback, Past, Newest
    <3>3. CASE n \in Past(q, code)
      <4>1. \A t \in Past(q, code) : ~Newer(t, n)
        BY <2>4, <3>1, <3>3, NewerKept
      <4>2. /\ Newest(q, code) \in Past(q, code)
            /\ \A t \in Past(q, code) : ~Newer(t, Newest(q, code))
        BY <3>3, NewestExists
      <4>3. Newest(q, code) = n
        BY <3>3, <4>1, <4>2, NewerIsTotal
      <4>4. Feedback(q, code) = Feedback(q, code)'
        BY <3>2, <3>3, <4>3, FeedbackIs
      <4>5. QED
        BY <4>4
    <3>4. CASE n \notin Past(q, code)
      <4>1. n.updated = q.asOf /\ n.state = "proposed" /\ Admits(g, Feedback(q, code), q.asOf)
        BY <2>3, <2>5, <3>1, <3>4
      <4>2. Feedback(q, code)'.state = "proposed"
        BY <1>0, <3>2, <4>1
      <4>3. QED
        BY <4>1, <4>2 DEF Admits
    <3>5. QED
      BY <3>3, <3>4
  <2>8. QED
    BY <2>6, <2>7
<1>3. QED
  BY <1>1, <1>2
\* An audit changes nothing it would read again but the feedback, and that is settled.
LEMMA AuditUndisturbed ==
  ASSUME AuditInv, AuditInv', NEW q \in Requests, AuditProject(q), rows' = rows, versions' = versions
  PROVE  Content(rows, q, priorWindows(rows, q))' = Content(rows, q, priorWindows(rows, q))
<1>1. ASSUME NEW R, NEW p PROVE dimensionSignature(R, p)' = dimensionSignature(R, p)
  BY DEF dimensionSignature
<1>2. ASSUME NEW R PROVE priorWindows(R, q)' = priorWindows(R, q)
  BY <1>1 DEF priorWindows
<1>3. ASSUME NEW R, NEW windows PROVE Snapshot(R, q, windows)' = Snapshot(R, q, windows)
  BY <1>1 DEF Snapshot, SnapshotOf
<1>4. PICK s : s = Snapshot(rows, q, priorWindows(rows, q))
  OBVIOUS
<1>5. ASSUME NEW g \in detect(s), g.code \in DOMAIN candidate
      PROVE  Admits(g, Feedback(q, g.code), q.asOf) <=> Admits(g, Feedback(q, g.code)', q.asOf)
  BY <1>4, <1>5, FeedbackSettled
<1>6. ASSUME NEW pass
      PROVE  Generate(detect(s), recommendationContext(q)', q.asOf, pass)
             = Generate(detect(s), recommendationContext(q), q.asOf, pass)
  <2>1. \A c \in DOMAIN candidate : recommendationContext(q)[c] = Feedback(q, c)
    BY DEF recommendationContext
  <2>2. \A c \in DOMAIN candidate : recommendationContext(q)'[c] = Feedback(q, c)'
    BY DEF recommendationContext
  <2>3. ASSUME NEW g \in detect(s), g.code \in DOMAIN candidate
        PROVE  /\ Admits(g, Feedback(q, g.code), q.asOf) <=>
                    /\ recommendationContext(q)[g.code].state # "verified"
                    /\ ~suppressed(g, recommendationContext(q), q.asOf)
               /\ Admits(g, Feedback(q, g.code)', q.asOf) <=>
                    /\ recommendationContext(q)'[g.code].state # "verified"
                    /\ ~suppressed(g, recommendationContext(q)', q.asOf)
    BY <2>1, <2>2, <2>3 DEF Admits, suppressed
  <2>4. QED
    BY <1>5, <2>3 DEF Generate
<1>7. Run(q, s)' = Run(q, s)
  BY <1>6 DEF Run, Engine
<1>8. Content(rows, q, priorWindows(rows, q)) = Run(q, s)
  BY <1>4 DEF Content
<1>9. Content(rows, q, priorWindows(rows, q))' = Run(q, s)'
  BY <1>2, <1>3, <1>4 DEF Content
<1>10. QED
  BY <1>7, <1>8, <1>9

\* While nothing it depends on has changed, the last audit is the one that would be made
\* again.
LastAnswer ==
  last # None =>
    /\ last.req \in Requests /\ Happened(rows, last.req) # {}
    /\ \E v \in revisions : /\ v.key = auditWindowKey(last.req) /\ v.num = last.num
                            /\ v.content = AskedAgain(rows)

\* An audit answers with the content it stored.
LEMMA AuditAnswers ==
  ASSUME AuditInv, AuditInv', NEW q \in Requests, AuditProject(q)
  PROVE  LastAnswer'
<1>1. PICK v, windows :
           /\ v.key = auditWindowKey(q)
           /\ v.content = Content(rows, q, windows)
           /\ revisions' = {w \in revisions : <<w.key, w.num>> # <<v.key, v.num>>} \cup {v}
           /\ windows = priorWindows(rows, q) /\ Answerable(rows, q, windows)
           /\ last' = [req |-> q, num |-> v.num, late |-> LateEvidence(v)]
           /\ UNCHANGED <<rows, versions>>
  BY AuditFacts DEF AuditInv
<1>2. last'.req = q /\ last'.num = v.num /\ rows' = rows /\ versions' = versions /\ v \in revisions'
  BY <1>1
<1>3. Happened(rows, q) # {}
  <2>1. dimensionSignature(rows, q) # {}
    BY <1>1 DEF Answerable
  <2>2. QED
    BY <2>1 DEF dimensionSignature
<1>4. v.content = AskedAgain(rows)'
  <2>1. Content(rows, q, priorWindows(rows, q))' = Content(rows, q, priorWindows(rows, q))
    BY <1>2, AuditUndisturbed
  <2>2. QED
    BY <1>1, <1>2, <2>1 DEF AskedAgain
<1>5. QED
  BY <1>1, <1>2, <1>3, <1>4 DEF LastAnswer

\* Whatever else happens forgets the last answer.
LEMMA NextLastAnswer == AuditInv /\ AuditInv' /\ LastAnswer /\ [Next]_vars => LastAnswer'
<1> SUFFICES ASSUME AuditInv, AuditInv', LastAnswer, [Next]_vars PROVE LastAnswer'
  OBVIOUS
<1>1. ASSUME last' = None PROVE LastAnswer'
  BY <1>1 DEF LastAnswer
<1>2. ASSUME NEW q \in Requests, AuditProject(q) PROVE LastAnswer'
  BY <1>2, AuditAnswers
<1>3. ASSUME NEW a \in Arrivals, Collect(a) PROVE LastAnswer'
  BY <1>1, <1>3 DEF Collect
<1>4. ASSUME NEW i, NEW id, NEW at, ChangeVersion(i, id, at) PROVE LastAnswer'
  BY <1>1, <1>4 DEF ChangeVersion
<1>5. ASSUME NEW r, NEW state, NEW at, NEW cooldown, GiveFeedback(r, state, at, cooldown) PROVE LastAnswer'
  BY <1>1, <1>5 DEF GiveFeedback
<1>6. ASSUME UNCHANGED vars PROVE LastAnswer'
  <2>1. last' = last /\ rows' = rows /\ versions' = versions /\ revisions' = revisions /\ recs' = recs
    BY <1>6 DEF vars
  <2>2. AskedAgain(rows)' = AskedAgain(rows)
    <3>1. ASSUME NEW R, NEW p PROVE dimensionSignature(R, p)' = dimensionSignature(R, p)
      BY <2>1 DEF dimensionSignature
    <3>2. ASSUME NEW R, NEW p PROVE priorWindows(R, p)' = priorWindows(R, p)
      BY <3>1 DEF priorWindows
    <3>3. ASSUME NEW R, NEW p, NEW windows PROVE Snapshot(R, p, windows)' = Snapshot(R, p, windows)
      BY <3>1 DEF Snapshot, SnapshotOf
    <3>4. ASSUME NEW p PROVE recommendationContext(p)' = recommendationContext(p)
      BY <2>1 DEF recommendationContext, Feedback, Newer, WindowAsOf, RecommendationID
    <3>5. ASSUME NEW p, NEW s PROVE Run(p, s)' = Run(p, s)
      BY <3>4 DEF Run, Engine
    <3>6. ASSUME NEW R, NEW p, NEW windows PROVE Content(R, p, windows)' = Content(R, p, windows)
      BY <3>3, <3>5 DEF Content
    <3>7. QED
      BY <2>1, <3>2, <3>6 DEF AskedAgain
  <2>3. QED
    BY <2>1, <2>2 DEF LastAnswer
<1>7. QED
  BY <1>2, <1>3, <1>4, <1>5, <1>6 DEF Next

\* Every reachable state has the last answer in its revisions.
LEMMA LastAnswerHolds == Spec => [](AuditInv /\ LastAnswer)
<1>1. Init => LastAnswer
  BY DEF Init, LastAnswer
<1>2. QED
  BY <1>1, NextLastAnswer, GovernanceInvariant, PTL DEF Spec

\* The answer is the revision with the last answer's number.
LEMMA AnswerIs ==
  ASSUME AuditInv, LastAnswer, last # None
  PROVE  Answer.content = AskedAgain(rows)
<1>1. PICK v \in revisions : /\ v.key = auditWindowKey(last.req) /\ v.num = last.num
                             /\ v.content = AskedAgain(rows)
  BY DEF LastAnswer
<1>2. Answer = v
  BY <1>1 DEF Answer, AuditInv, RevisionsOK
<1>3. QED
  BY <1>1, <1>2

\* recommendationContext reads what persistAuditProject wrote: an audit asked again on the
\* same rows, versions and decisions makes the content it stored, although its own
\* recommendations are by then the last word on their findings.
THEOREM GovernanceReauditStable == Spec => []ReauditStable
<1>1. AuditInv /\ LastAnswer => ReauditStable
  BY AnswerIs DEF ReauditStable
<1>2. QED
  BY <1>1, LastAnswerHolds, PTL

\* evidenceScope, auditFilter and workloadValues: leaving out every row of a sibling
\* trajectory leaves everything the revision hash covers of an audit of a task or a
\* trajectory, its overhead, its comparison with earlier windows, its counts of what is
\* included, findings and recommendations among it, but for the counts of what was
\* excluded, which the hash does cover.
THEOREM GovernanceNarrowScopeIsolated == Spec => []NarrowScopeIsolated
<1>1. AuditInv /\ LastAnswer => NarrowScopeIsolated
  <2> SUFFICES ASSUME AuditInv, LastAnswer, last # None, Narrow(last.req)
               PROVE  [AskedAgain(Own(rows, last.req)) EXCEPT !.snapshot.counts.excluded =
                          Answer.content.snapshot.counts.excluded] = Answer.content
    BY DEF NarrowScopeIsolated, WithoutSiblings, Own
  <2>1. Answer.content = AskedAgain(rows)
    BY AnswerIs
  <2> DEFINE q == last.req
             o == Content(Own(rows, q), q, priorWindows(Own(rows, q), q))
             c == Content(rows, q, priorWindows(rows, q))
  <2>2. [o EXCEPT !.snapshot.counts.excluded = c.snapshot.counts.excluded] = c
    <3>1. q \in Requests /\ Narrow(q) /\ Happened(rows, q) # {}
      BY DEF LastAnswer
    <3> HIDE DEF q
    <3>2. QED
      BY <3>1, OwnContent
  <2>3. AskedAgain(rows) = c /\ AskedAgain(Own(rows, q)) = o
    BY DEF AskedAgain
  <2>4. QED
    BY <2>1, <2>2, <2>3
<1>2. QED
  BY <1>1, LastAnswerHolds, PTL

-----------------------------------------------------------------------------
(* Fractions.  Plus answers in the denominator it meets, so that sums are   *)
(* the same only up to Equal: what follows reasons modulo Equal throughout. *)

\* Fractions, and those that are not negative.
Rationals == [n : Int, d : Nat \ {0}]
Amounts   == [n : Nat, d : Nat \ {0}]

\* Plus without its shortcut for a common denominator.
Sum2(a, b) == Frac(a.n * b.d + b.n * a.d, a.d * b.d)

\* A factor other than zero cancels.
LEMMA Cancel ==
  ASSUME NEW a \in Int, NEW b \in Int, NEW c \in Int, c # 0, a * c = b * c
  PROVE  a = b
OBVIOUS

\* Products of positive integers.
LEMMA Positive ==
  ASSUME NEW a \in Nat \ {0}, NEW b \in Nat \ {0}
  PROVE  a * b \in Nat \ {0}
<1>1. a \in Int /\ b \in Int /\ a > 0 /\ b > 0
  OBVIOUS
<1>2. a * b > 0 /\ a * b \in Int
  BY <1>1
<1> QED
  BY <1>2

\* The fields of fractions.
LEMMA FracFields ==
  /\ \A x, y : Frac(x, y).n = x /\ Frac(x, y).d = y
  /\ \A x \in Int, y \in Nat \ {0} : Frac(x, y) \in Rationals
  /\ \A x \in Nat, y \in Nat \ {0} : Frac(x, y) \in Amounts
  /\ \A a \in Rationals : a.n \in Int /\ a.d \in Nat \ {0} /\ a.d \in Int /\ a.d > 0
  /\ \A a \in Amounts : a \in Rationals /\ a.n \in Nat /\ a.d \in Nat \ {0}
  /\ Zero \in Amounts
BY DEF Frac, Rationals, Amounts, Zero

\* The operations yield fractions.
LEMMA FracTypes ==
  ASSUME NEW a \in Rationals, NEW b \in Rationals
  PROVE  /\ Plus(a, b) \in Rationals /\ Sum2(a, b) \in Rationals
         /\ Minus(a, b) \in Rationals /\ Multiply(a, b) \in Rationals
         /\ Frac(-b.n, b.d) \in Rationals
         /\ b.n > 0 => Over(a, b) \in Rationals
<1>1. a.d * b.d \in Nat \ {0}
  BY FracFields, Positive
<1>2. ASSUME NEW x \in Rationals, NEW y \in Rationals PROVE Plus(x, y) \in Rationals
  <2>1. x.d * y.d \in Nat \ {0} /\ x.n * y.d + y.n * x.d \in Int /\ x.n + y.n \in Int
    BY FracFields, Positive
  <2> QED
    BY <2>1, FracFields DEF Plus
<1>3. Frac(-b.n, b.d) \in Rationals
  BY FracFields
<1>4. a.n * b.d + b.n * a.d \in Int /\ a.n * b.n \in Int /\ a.n * b.d \in Int
  BY FracFields
<1>5. b.n > 0 => a.d * b.n \in Nat \ {0}
  BY FracFields, Positive
<1> QED
  BY <1>1, <1>2, <1>3, <1>4, <1>5, FracFields DEF Minus, Sum2, Multiply, Over

\* Sums, products and quotients of amounts are amounts.
LEMMA AmountTypes ==
  ASSUME NEW a \in Amounts, NEW b \in Amounts
  PROVE  Plus(a, b) \in Amounts /\ Multiply(a, b) \in Amounts /\ (b.n > 0 => Over(a, b) \in Amounts)
<1>1. a.d * b.d \in Nat \ {0}
  BY FracFields, Positive
<1>2. /\ a.n * b.d \in Nat /\ b.n * a.d \in Nat /\ a.n * b.n \in Nat /\ a.n + b.n \in Nat
      /\ a.n * b.d + b.n * a.d \in Nat
  BY FracFields
<1>3. b.n > 0 => a.d * b.n \in Nat \ {0}
  BY FracFields, Positive
<1> QED
  BY <1>1, <1>2, <1>3, FracFields DEF Plus, Multiply, Over

\* Equality of fractions is an equivalence.
LEMMA EqualSym ==
  ASSUME NEW a \in Rationals, NEW b \in Rationals, Equal(a, b)
  PROVE  Equal(b, a)
BY FracFields DEF Equal

\* The middle one has a denominator that is not zero, so it can be left out.
LEMMA EqualTrans ==
  ASSUME NEW a \in Rationals, NEW b \in Rationals, NEW c \in Rationals, Equal(a, b), Equal(b, c)
  PROVE  Equal(a, c)
<1> DEFINE an == a.n  ad == a.d  bn == b.n  bd == b.d  cn == c.n  cd == c.d
<1>1. an \in Int /\ ad \in Int /\ bn \in Int /\ bd \in Int /\ cn \in Int /\ cd \in Int /\ bd # 0
  BY FracFields
<1>2. an * bd = bn * ad /\ bn * cd = cn * bd
  BY DEF Equal
<1> HIDE DEF an, ad, bn, bd, cn, cd
<1>3. (an * bd) * cd = (bn * ad) * cd /\ (bn * cd) * ad = (cn * bd) * ad
  BY <1>2
<1>4. (an * cd) * bd = (cn * ad) * bd
  BY <1>1, <1>3
<1>5. an * cd = cn * ad
  BY <1>1, <1>4, Cancel
<1> QED
  BY <1>5 DEF Equal, an, ad, cn, cd

\* Equal terms have equal sums.
LEMMA SumEqual ==
  ASSUME NEW a \in Rationals, NEW b \in Rationals, NEW x \in Rationals, NEW y \in Rationals,
         Equal(x, a), Equal(y, b)
  PROVE  Equal(Plus(x, y), Sum2(a, b))
<1> DEFINE an == a.n  ad == a.d  bn == b.n  bd == b.d  xn == x.n  xd == x.d  yn == y.n  yd == y.d
<1>1. /\ an \in Int /\ ad \in Int /\ bn \in Int /\ bd \in Int
      /\ xn \in Int /\ xd \in Int /\ yn \in Int /\ yd \in Int /\ xd # 0
  BY FracFields
<1>2. xn * ad = an * xd /\ yn * bd = bn * yd
  BY DEF Equal
<1>3. /\ Sum2(a, b).n = an * bd + bn * ad /\ Sum2(a, b).d = ad * bd
      /\ Plus(x, y).n = IF xd = yd THEN xn + yn ELSE xn * yd + yn * xd
      /\ Plus(x, y).d = IF xd = yd THEN xd ELSE xd * yd
  BY FracFields DEF Sum2, Plus
<1> HIDE DEF an, ad, bn, bd, xn, xd, yn, yd
<1>4. (xn * ad) * (yd * bd) = (an * xd) * (yd * bd) /\ (yn * bd) * (xd * ad) = (bn * yd) * (xd * ad)
  BY <1>2
<1>5. (xn * yd + yn * xd) * (ad * bd) = (an * bd + bn * ad) * (xd * yd)
  BY <1>1, <1>4
<1>6. ASSUME xd = yd PROVE (xn + yn) * (ad * bd) = (an * bd + bn * ad) * xd
  <2>1. ((xn + yn) * (ad * bd)) * xd = ((an * bd + bn * ad) * xd) * xd
    BY <1>1, <1>5, <1>6
  <2>2. (xn + yn) * (ad * bd) \in Int /\ (an * bd + bn * ad) * xd \in Int
    BY <1>1
  <2> QED
    BY <1>1, <2>1, <2>2, Cancel
<1> QED
  BY <1>3, <1>5, <1>6 DEF Equal

\* Every fraction equals itself.
LEMMA EqualRefl ==
  ASSUME NEW a \in Rationals
  PROVE  Equal(a, a)
BY DEF Equal

\* Equal sums for equal terms, the other form.
LEMMA PlusEqual ==
  ASSUME NEW a \in Rationals, NEW b \in Rationals, NEW x \in Rationals, NEW y \in Rationals,
         Equal(x, a), Equal(y, b)
  PROVE  Equal(Plus(x, y), Plus(a, b))
<1>1. Equal(Plus(x, y), Sum2(a, b)) /\ Equal(Plus(a, b), Sum2(a, b))
  BY SumEqual, EqualRefl
<1> QED
  BY <1>1, EqualSym, EqualTrans, FracTypes

\* Equal factors have equal products.
LEMMA ProductEqual ==
  ASSUME NEW a \in Rationals, NEW b \in Rationals, NEW x \in Rationals, NEW y \in Rationals,
         Equal(x, a), Equal(y, b)
  PROVE  Equal(Multiply(x, y), Multiply(a, b))
<1> DEFINE an == a.n  ad == a.d  bn == b.n  bd == b.d  xn == x.n  xd == x.d  yn == y.n  yd == y.d
<1>1. /\ an \in Int /\ ad \in Int /\ bn \in Int /\ bd \in Int
      /\ xn \in Int /\ xd \in Int /\ yn \in Int /\ yd \in Int
  BY FracFields
<1>2. xn * ad = an * xd /\ yn * bd = bn * yd
  BY DEF Equal
<1>3. /\ Multiply(a, b).n = an * bn /\ Multiply(a, b).d = ad * bd
      /\ Multiply(x, y).n = xn * yn /\ Multiply(x, y).d = xd * yd
  BY FracFields DEF Multiply
<1> HIDE DEF an, ad, bn, bd, xn, xd, yn, yd
<1>4. (xn * ad) * (yn * bd) = (an * xd) * (bn * yd)
  BY <1>2
<1>5. (xn * yn) * (ad * bd) = (an * bn) * (xd * yd)
  BY <1>1, <1>4
<1> QED
  BY <1>3, <1>5 DEF Equal

\* A difference is equal when its terms are.
LEMMA MinusEqual ==
  ASSUME NEW a \in Rationals, NEW b \in Rationals, NEW x \in Rationals, NEW y \in Rationals,
         Equal(x, a), Equal(y, b)
  PROVE  Equal(Minus(x, y), Minus(a, b))
<1>1. Frac(-b.n, b.d) \in Rationals /\ Frac(-y.n, y.d) \in Rationals
  BY FracTypes
<1>2. Equal(Frac(-y.n, y.d), Frac(-b.n, b.d))
  <2> DEFINE bn == b.n  bd == b.d  yn == y.n  yd == y.d
  <2>1. bn \in Int /\ bd \in Int /\ yn \in Int /\ yd \in Int /\ yn * bd = bn * yd
    BY FracFields DEF Equal
  <2>2. /\ Frac(-y.n, y.d).n = -yn /\ Frac(-y.n, y.d).d = yd
        /\ Frac(-b.n, b.d).n = -bn /\ Frac(-b.n, b.d).d = bd
    BY FracFields
  <2> HIDE DEF bn, bd, yn, yd
  <2>3. (-yn) * bd = (-bn) * yd
    BY <2>1
  <2> QED
    BY <2>2, <2>3 DEF Equal
<1> QED
  BY <1>1, <1>2, PlusEqual DEF Minus

\* Terms of a sum may be paired otherwise.
LEMMA PlusShuffle ==
  ASSUME NEW a \in Rationals, NEW b \in Rationals, NEW c \in Rationals, NEW d \in Rationals
  PROVE  Equal(Plus(Plus(a, b), Plus(c, d)), Plus(Plus(a, c), Plus(b, d)))
<1>1. /\ Sum2(a, b) \in Rationals /\ Sum2(c, d) \in Rationals /\ Sum2(a, c) \in Rationals /\ Sum2(b, d) \in Rationals
      /\ Plus(a, b) \in Rationals /\ Plus(c, d) \in Rationals /\ Plus(a, c) \in Rationals /\ Plus(b, d) \in Rationals
  BY FracTypes
<1>2. /\ Equal(Plus(a, b), Sum2(a, b)) /\ Equal(Plus(c, d), Sum2(c, d))
      /\ Equal(Plus(a, c), Sum2(a, c)) /\ Equal(Plus(b, d), Sum2(b, d))
  BY SumEqual, EqualRefl
<1>3. /\ Equal(Plus(Plus(a, b), Plus(c, d)), Sum2(Sum2(a, b), Sum2(c, d)))
      /\ Equal(Plus(Plus(a, c), Plus(b, d)), Sum2(Sum2(a, c), Sum2(b, d)))
  BY <1>1, <1>2, SumEqual
<1>4. Equal(Sum2(Sum2(a, b), Sum2(c, d)), Sum2(Sum2(a, c), Sum2(b, d)))
  <2> DEFINE an == a.n  ad == a.d  bn == b.n  bd == b.d  cn == c.n  cd == c.d  dn == d.n  dd == d.d
  <2>1. /\ an \in Int /\ ad \in Int /\ bn \in Int /\ bd \in Int
        /\ cn \in Int /\ cd \in Int /\ dn \in Int /\ dd \in Int
    BY FracFields
  <2>2. /\ Sum2(Sum2(a, b), Sum2(c, d)).n = (an * bd + bn * ad) * (cd * dd) + (cn * dd + dn * cd) * (ad * bd)
        /\ Sum2(Sum2(a, b), Sum2(c, d)).d = (ad * bd) * (cd * dd)
        /\ Sum2(Sum2(a, c), Sum2(b, d)).n = (an * cd + cn * ad) * (bd * dd) + (bn * dd + dn * bd) * (ad * cd)
        /\ Sum2(Sum2(a, c), Sum2(b, d)).d = (ad * cd) * (bd * dd)
    BY FracFields DEF Sum2
  <2> HIDE DEF an, ad, bn, bd, cn, cd, dn, dd
  <2>3. ((an * bd + bn * ad) * (cd * dd) + (cn * dd + dn * cd) * (ad * bd)) * ((ad * cd) * (bd * dd))
        = ((an * cd + cn * ad) * (bd * dd) + (bn * dd + dn * bd) * (ad * cd)) * ((ad * bd) * (cd * dd))
    BY <2>1
  <2> QED
    BY <2>2, <2>3 DEF Equal
<1>5. /\ Plus(Plus(a, b), Plus(c, d)) \in Rationals /\ Plus(Plus(a, c), Plus(b, d)) \in Rationals
      /\ Sum2(Sum2(a, b), Sum2(c, d)) \in Rationals /\ Sum2(Sum2(a, c), Sum2(b, d)) \in Rationals
  BY <1>1, FracTypes
<1>6. Equal(Plus(Plus(a, b), Plus(c, d)), Sum2(Sum2(a, c), Sum2(b, d)))
  BY <1>3, <1>4, <1>5, EqualTrans
<1>7. Equal(Sum2(Sum2(a, c), Sum2(b, d)), Plus(Plus(a, c), Plus(b, d)))
  BY <1>3, <1>5, EqualSym
<1> QED
  BY <1>5, <1>6, <1>7, EqualTrans

\* Minus as one fraction.
Diff2(a, b) == Frac(a.n * b.d - b.n * a.d, a.d * b.d)

\* Minus is the difference, whatever the representation of its terms.
LEMMA DiffEqual ==
  ASSUME NEW a \in Rationals, NEW b \in Rationals, NEW x \in Rationals, NEW y \in Rationals,
         Equal(x, a), Equal(y, b)
  PROVE  Equal(Minus(x, y), Diff2(a, b)) /\ Diff2(a, b) \in Rationals
<1> DEFINE mb == Frac(-b.n, b.d)
<1>1. mb \in Rationals /\ mb.n = -b.n /\ mb.d = b.d
  BY FracTypes, FracFields
<1> HIDE DEF mb
<1>2. Equal(Minus(a, b), Sum2(a, mb))
  BY <1>1, SumEqual, EqualRefl DEF Minus, mb
<1>3. Sum2(a, mb) = Diff2(a, b)
  <2> DEFINE an == a.n  ad == a.d  bn == b.n  bd == b.d
  <2>1. an \in Int /\ ad \in Int /\ bn \in Int /\ bd \in Int
    BY FracFields
  <2>2. Sum2(a, mb) = Frac(an * bd + (-bn) * ad, ad * bd) /\ Diff2(a, b) = Frac(an * bd - bn * ad, ad * bd)
    BY <1>1 DEF Sum2, Diff2
  <2> HIDE DEF an, ad, bn, bd
  <2>3. an * bd + (-bn) * ad = an * bd - bn * ad
    BY <2>1
  <2> QED
    BY <2>2, <2>3
<1>4. Equal(Minus(x, y), Minus(a, b))
  BY MinusEqual
<1>5. Minus(x, y) \in Rationals /\ Minus(a, b) \in Rationals /\ Sum2(a, mb) \in Rationals
  BY <1>1, FracTypes
<1> QED
  BY <1>2, <1>3, <1>4, <1>5, EqualTrans

\* What is taken from one and added to the other of two differences.
LEMMA Telescope ==
  ASSUME NEW a \in Rationals, NEW b \in Rationals, NEW c \in Rationals
  PROVE  Equal(Plus(Minus(a, b), Minus(c, a)), Minus(c, b))
<1>1. /\ Minus(a, b) \in Rationals /\ Minus(c, a) \in Rationals /\ Minus(c, b) \in Rationals
      /\ Plus(Minus(a, b), Minus(c, a)) \in Rationals
  BY FracTypes
<1>2. /\ Equal(Minus(a, b), Diff2(a, b)) /\ Equal(Minus(c, a), Diff2(c, a)) /\ Equal(Minus(c, b), Diff2(c, b))
      /\ Diff2(a, b) \in Rationals /\ Diff2(c, a) \in Rationals /\ Diff2(c, b) \in Rationals
  BY DiffEqual, EqualRefl
<1>3. Equal(Plus(Minus(a, b), Minus(c, a)), Sum2(Diff2(a, b), Diff2(c, a))) /\ Sum2(Diff2(a, b), Diff2(c, a)) \in Rationals
  BY <1>1, <1>2, SumEqual, FracTypes
<1>4. Equal(Sum2(Diff2(a, b), Diff2(c, a)), Diff2(c, b))
  <2> DEFINE an == a.n  ad == a.d  bn == b.n  bd == b.d  cn == c.n  cd == c.d
  <2>1. an \in Int /\ ad \in Int /\ bn \in Int /\ bd \in Int /\ cn \in Int /\ cd \in Int
    BY FracFields
  <2>2. /\ Sum2(Diff2(a, b), Diff2(c, a)).n = (an * bd - bn * ad) * (cd * ad) + (cn * ad - an * cd) * (ad * bd)
        /\ Sum2(Diff2(a, b), Diff2(c, a)).d = (ad * bd) * (cd * ad)
        /\ Diff2(c, b).n = cn * bd - bn * cd /\ Diff2(c, b).d = cd * bd
    BY FracFields DEF Sum2, Diff2
  <2> HIDE DEF an, ad, bn, bd, cn, cd
  <2>3. ((an * bd - bn * ad) * (cd * ad) + (cn * ad - an * cd) * (ad * bd)) * (cd * bd)
        = (cn * bd - bn * cd) * ((ad * bd) * (cd * ad))
    BY <2>1
  <2> QED
    BY <2>2, <2>3 DEF Equal
<1>5. Equal(Plus(Minus(a, b), Minus(c, a)), Diff2(c, b))
  BY <1>1, <1>2, <1>3, <1>4, EqualTrans
<1> QED
  BY <1>1, <1>2, <1>5, EqualTrans, EqualSym

\* The sum of two differences.
LEMMA MinusShuffle ==
  ASSUME NEW a \in Rationals, NEW b \in Rationals, NEW c \in Rationals, NEW d \in Rationals
  PROVE  Equal(Plus(Minus(a, b), Minus(c, d)), Minus(Plus(a, c), Plus(b, d)))
<1>1. /\ Minus(a, b) \in Rationals /\ Minus(c, d) \in Rationals /\ Plus(a, c) \in Rationals /\ Plus(b, d) \in Rationals
      /\ Plus(Minus(a, b), Minus(c, d)) \in Rationals /\ Minus(Plus(a, c), Plus(b, d)) \in Rationals
  BY FracTypes
<1>2. /\ Equal(Minus(a, b), Diff2(a, b)) /\ Equal(Minus(c, d), Diff2(c, d))
      /\ Equal(Plus(a, c), Sum2(a, c)) /\ Equal(Plus(b, d), Sum2(b, d))
      /\ Diff2(a, b) \in Rationals /\ Diff2(c, d) \in Rationals /\ Sum2(a, c) \in Rationals /\ Sum2(b, d) \in Rationals
  BY DiffEqual, SumEqual, EqualRefl, FracTypes
<1>3. /\ Equal(Plus(Minus(a, b), Minus(c, d)), Sum2(Diff2(a, b), Diff2(c, d)))
      /\ Sum2(Diff2(a, b), Diff2(c, d)) \in Rationals
  BY <1>1, <1>2, SumEqual, FracTypes
<1>4. /\ Equal(Minus(Plus(a, c), Plus(b, d)), Diff2(Sum2(a, c), Sum2(b, d)))
      /\ Diff2(Sum2(a, c), Sum2(b, d)) \in Rationals
  BY <1>1, <1>2, DiffEqual
<1>5. Equal(Sum2(Diff2(a, b), Diff2(c, d)), Diff2(Sum2(a, c), Sum2(b, d)))
  <2> DEFINE an == a.n  ad == a.d  bn == b.n  bd == b.d  cn == c.n  cd == c.d  dn == d.n  dd == d.d
  <2>1. /\ an \in Int /\ ad \in Int /\ bn \in Int /\ bd \in Int
        /\ cn \in Int /\ cd \in Int /\ dn \in Int /\ dd \in Int
    BY FracFields
  <2>2. /\ Sum2(Diff2(a, b), Diff2(c, d)).n = (an * bd - bn * ad) * (cd * dd) + (cn * dd - dn * cd) * (ad * bd)
        /\ Sum2(Diff2(a, b), Diff2(c, d)).d = (ad * bd) * (cd * dd)
        /\ Diff2(Sum2(a, c), Sum2(b, d)).n = (an * cd + cn * ad) * (bd * dd) - (bn * dd + dn * bd) * (ad * cd)
        /\ Diff2(Sum2(a, c), Sum2(b, d)).d = (ad * cd) * (bd * dd)
    BY FracFields DEF Sum2, Diff2
  <2> HIDE DEF an, ad, bn, bd, cn, cd, dn, dd
  <2>3. ((an * bd - bn * ad) * (cd * dd) + (cn * dd - dn * cd) * (ad * bd)) * ((ad * cd) * (bd * dd))
        = ((an * cd + cn * ad) * (bd * dd) - (bn * dd + dn * bd) * (ad * cd)) * ((ad * bd) * (cd * dd))
    BY <2>1
  <2> QED
    BY <2>2, <2>3 DEF Equal
<1>6. Equal(Plus(Minus(a, b), Minus(c, d)), Diff2(Sum2(a, c), Sum2(b, d)))
  BY <1>1, <1>3, <1>4, <1>5, EqualTrans
<1> QED
  BY <1>1, <1>4, <1>6, EqualTrans, EqualSym

\* A product distributes over sums and differences.
LEMMA Distributes ==
  ASSUME NEW k \in Rationals, NEW a \in Rationals, NEW b \in Rationals
  PROVE  /\ Equal(Multiply(k, Plus(a, b)), Plus(Multiply(k, a), Multiply(k, b)))
         /\ Equal(Multiply(k, Minus(a, b)), Minus(Multiply(k, a), Multiply(k, b)))
         /\ Equal(Multiply(Minus(a, b), k), Minus(Multiply(a, k), Multiply(b, k)))
<1> DEFINE kn == k.n  kd == k.d  an == a.n  ad == a.d  bn == b.n  bd == b.d
<1>0. kn \in Int /\ kd \in Int /\ an \in Int /\ ad \in Int /\ bn \in Int /\ bd \in Int
  BY FracFields
<1>1. /\ Plus(a, b) \in Rationals /\ Minus(a, b) \in Rationals
      /\ Multiply(k, a) \in Rationals /\ Multiply(k, b) \in Rationals
      /\ Multiply(a, k) \in Rationals /\ Multiply(b, k) \in Rationals
  BY FracTypes
<1>2. /\ Equal(Plus(a, b), Sum2(a, b)) /\ Equal(Minus(a, b), Diff2(a, b))
      /\ Sum2(a, b) \in Rationals /\ Diff2(a, b) \in Rationals
  BY DiffEqual, SumEqual, EqualRefl, FracTypes
<1>3. /\ Equal(Multiply(k, Plus(a, b)), Multiply(k, Sum2(a, b)))
      /\ Equal(Multiply(k, Minus(a, b)), Multiply(k, Diff2(a, b)))
      /\ Equal(Multiply(Minus(a, b), k), Multiply(Diff2(a, b), k))
  BY <1>1, <1>2, ProductEqual, EqualRefl
<1>4. /\ Equal(Plus(Multiply(k, a), Multiply(k, b)), Sum2(Multiply(k, a), Multiply(k, b)))
      /\ Equal(Minus(Multiply(k, a), Multiply(k, b)), Diff2(Multiply(k, a), Multiply(k, b)))
      /\ Equal(Minus(Multiply(a, k), Multiply(b, k)), Diff2(Multiply(a, k), Multiply(b, k)))
  BY <1>1, DiffEqual, SumEqual, EqualRefl
<1>5. /\ Sum2(Multiply(k, a), Multiply(k, b)) \in Rationals /\ Diff2(Multiply(k, a), Multiply(k, b)) \in Rationals
      /\ Diff2(Multiply(a, k), Multiply(b, k)) \in Rationals
      /\ Multiply(k, Sum2(a, b)) \in Rationals /\ Multiply(k, Diff2(a, b)) \in Rationals
      /\ Multiply(Diff2(a, b), k) \in Rationals
      /\ Multiply(k, Plus(a, b)) \in Rationals /\ Multiply(k, Minus(a, b)) \in Rationals
      /\ Multiply(Minus(a, b), k) \in Rationals
      /\ Plus(Multiply(k, a), Multiply(k, b)) \in Rationals /\ Minus(Multiply(k, a), Multiply(k, b)) \in Rationals
      /\ Minus(Multiply(a, k), Multiply(b, k)) \in Rationals
  BY <1>1, <1>2, FracTypes, DiffEqual, EqualRefl
<1>6. /\ Multiply(k, Sum2(a, b)) = Frac(kn * (an * bd + bn * ad), kd * (ad * bd))
      /\ Multiply(k, Diff2(a, b)) = Frac(kn * (an * bd - bn * ad), kd * (ad * bd))
      /\ Multiply(Diff2(a, b), k) = Frac((an * bd - bn * ad) * kn, (ad * bd) * kd)
      /\ Sum2(Multiply(k, a), Multiply(k, b))
           = Frac((kn * an) * (kd * bd) + (kn * bn) * (kd * ad), (kd * ad) * (kd * bd))
      /\ Diff2(Multiply(k, a), Multiply(k, b))
           = Frac((kn * an) * (kd * bd) - (kn * bn) * (kd * ad), (kd * ad) * (kd * bd))
      /\ Diff2(Multiply(a, k), Multiply(b, k))
           = Frac((an * kn) * (bd * kd) - (bn * kn) * (ad * kd), (ad * kd) * (bd * kd))
  BY FracFields DEF Multiply, Sum2, Diff2
<1> HIDE DEF kn, kd, an, ad, bn, bd
<1>7. /\ (kn * (an * bd + bn * ad)) * ((kd * ad) * (kd * bd))
           = ((kn * an) * (kd * bd) + (kn * bn) * (kd * ad)) * (kd * (ad * bd))
      /\ (kn * (an * bd - bn * ad)) * ((kd * ad) * (kd * bd))
           = ((kn * an) * (kd * bd) - (kn * bn) * (kd * ad)) * (kd * (ad * bd))
      /\ ((an * bd - bn * ad) * kn) * ((ad * kd) * (bd * kd))
           = ((an * kn) * (bd * kd) - (bn * kn) * (ad * kd)) * ((ad * bd) * kd)
  BY <1>0
<1>8. /\ Equal(Multiply(k, Sum2(a, b)), Sum2(Multiply(k, a), Multiply(k, b)))
      /\ Equal(Multiply(k, Diff2(a, b)), Diff2(Multiply(k, a), Multiply(k, b)))
      /\ Equal(Multiply(Diff2(a, b), k), Diff2(Multiply(a, k), Multiply(b, k)))
  BY <1>6, <1>7, FracFields DEF Equal
<1>9. \A x, y, z, w \in Rationals : Equal(x, y) /\ Equal(y, z) /\ Equal(w, z) => Equal(x, w)
  BY EqualTrans, EqualSym
<1> QED
  BY <1>3, <1>4, <1>5, <1>8, <1>9

-----------------------------------------------------------------------------
(* Sums over finite sets *)

Pick(s) == CHOOSE x \in s : TRUE

\* A set of subsets of a finite set has a least one: induction over finite sets goes by
\* the least set that fails.
LEMMA LeastSet ==
  ASSUME NEW S, IsFiniteSet(S), NEW B \in SUBSET (SUBSET S), B # {}
  PROVE  \E s \in B : \A t \in SUBSET s : t # s => t \notin B
<1> DEFINE sizes == {Cardinality(s) : s \in B}
<1>1. \A s \in SUBSET S : IsFiniteSet(s) /\ Cardinality(s) \in Nat
  BY FS_Subset, FS_CardinalityType
<1>2. sizes \subseteq Nat /\ sizes # {}
  BY <1>1
<1>3. PICK m \in sizes : \A k \in sizes : m <= k
  <2> HIDE DEF sizes
  <2> QED
    BY <1>2, Least
<1>4. PICK s \in B : Cardinality(s) = m
  BY <1>3
<1>5. ASSUME NEW t \in SUBSET s, t # s, t \in B PROVE FALSE
  <2>1. Cardinality(t) <= Cardinality(s) /\ Cardinality(s) # Cardinality(t)
    BY <1>1, <1>4, <1>5, FS_Subset
  <2>2. Cardinality(s) <= Cardinality(t)
    BY <1>3, <1>4, <1>5
  <2>3. Cardinality(s) \in Nat /\ Cardinality(t) \in Nat
    BY <1>1, <1>5
  <2> QED
    BY <2>1, <2>2, <2>3
<1> QED
  BY <1>5

\* The partial sums: the fold of every subset of S.
Partials(it, op, base, f, D) ==
  it = [s \in D |-> IF s = {} THEN base ELSE op[<<f[Pick(s)], it[s \ {Pick(s)}]>>]]

\* A fold of a finite set exists and has the type of its operator.
LEMMA FoldExists ==
  ASSUME NEW S, IsFiniteSet(S), NEW T, NEW base \in T, NEW op \in [T \X T -> T], NEW f \in [S -> T]
  PROVE  \E it \in [SUBSET S -> T] : Partials(it, op, base, f, SUBSET S)
<1> DEFINE D(n) == {s \in SUBSET S : Cardinality(s) <= n}
           B == {n \in Nat : ~ \E it \in [D(n) -> T] : Partials(it, op, base, f, D(n))}
<1>0. \A s \in SUBSET S : IsFiniteSet(s) /\ Cardinality(s) \in Nat
  BY FS_Subset, FS_CardinalityType
<1>1. \A s \in SUBSET S : s # {} => Pick(s) \in s
  BY DEF Pick
<1>2. B = {}
  <2> SUFFICES ASSUME B # {} PROVE FALSE
    OBVIOUS
  <2>1. PICK n \in B : \A k \in B : n <= k
    BY Least
  <2> DEFINE Extends(h, s) ==
               /\ h[s \ {Pick(s)}] \in T
               /\ h[s \ {Pick(s)}] = IF s \ {Pick(s)} = {} THEN base
                    ELSE op[<<f[Pick(s \ {Pick(s)})], h[(s \ {Pick(s)}) \ {Pick(s \ {Pick(s)})}]>>]
  <2>2. PICK h : \A s \in D(n) \ {{}} : Extends(h, s)
    <3>1. CASE n = 0
      <4>1. D(n) \ {{}} = {}
        BY <1>0, <3>1, FS_EmptySet
      <4>2. \A s \in D(n) \ {{}} : Extends(f, s)
        BY <4>1
      <4> HIDE DEF D, Extends
      <4> QED
        BY <4>2
    <3>2. CASE n # 0
      <4>0. n \in Nat
        OBVIOUS
      <4>1. n - 1 \in Nat /\ n - 1 \notin B
        <5> HIDE DEF B
        <5> QED
          BY <2>1, <3>2, <4>0
      <4>2. PICK h \in [D(n - 1) -> T] : Partials(h, op, base, f, D(n - 1))
        BY <4>1
      <4>3. ASSUME NEW s \in D(n) \ {{}} PROVE s \ {Pick(s)} \in D(n - 1)
        <5>1. IsFiniteSet(s) /\ Pick(s) \in s /\ Cardinality(s) \in Nat /\ Cardinality(s) <= n
          BY <1>0, <1>1
        <5>2. Cardinality(s \ {Pick(s)}) = Cardinality(s) - 1
          BY <5>1, FS_RemoveElement
        <5> QED
          BY <5>1, <5>2
      <4>4. ASSUME NEW t \in D(n - 1)
            PROVE  h[t] = IF t = {} THEN base ELSE op[<<f[Pick(t)], h[t \ {Pick(t)}]>>]
        <5> HIDE DEF D
        <5> QED
          BY <4>2 DEF Partials
      <4> HIDE DEF D
      <4> QED
        BY <4>2, <4>3, <4>4
    <3> QED
      BY <3>1, <3>2
  <2> DEFINE g == [s \in D(n) |-> IF s = {} THEN base ELSE op[<<f[Pick(s)], h[s \ {Pick(s)}]>>]]
  <2>3. \A s \in D(n) : s # {} => s \ {Pick(s)} \in D(n)
    <3> SUFFICES ASSUME NEW s \in D(n), s # {} PROVE s \ {Pick(s)} \in D(n)
      OBVIOUS
    <3>1. IsFiniteSet(s) /\ Cardinality(s \ {Pick(s)}) <= Cardinality(s) /\ s \ {Pick(s)} \in SUBSET S
      BY <1>0, FS_Subset
    <3>2. Cardinality(s) \in Nat /\ Cardinality(s \ {Pick(s)}) \in Nat /\ Cardinality(s) <= n
      BY <1>0, <3>1
    <3> QED
      BY <3>1, <3>2
  <2>4. \A s \in D(n) : s # {} => f[Pick(s)] \in T
    BY <1>1
  <2> HIDE DEF D, B
  <2>5. g \in [D(n) -> T]
    <3>1. ASSUME NEW s \in D(n) PROVE g[s] \in T
      <4>1. CASE s = {}
        BY <4>1
      <4>2. CASE s # {}
        BY <2>2, <2>4, <4>2
      <4> QED
        BY <4>1, <4>2
    <3> QED
      BY <3>1
  <2>6. ASSUME NEW s \in D(n), s # {} PROVE g[s \ {Pick(s)}] = h[s \ {Pick(s)}]
    BY <2>2, <2>3, <2>6
  <2>7. Partials(g, op, base, f, D(n))
    <3>1. \A s \in D(n) : g[s] = IF s = {} THEN base ELSE op[<<f[Pick(s)], g[s \ {Pick(s)}]>>]
      BY <2>6
    <3>2. g = [s \in D(n) |-> g[s]]
      OBVIOUS
    <3> HIDE DEF g
    <3> QED
      BY <3>1, <3>2 DEF Partials
  <2> QED
    BY <2>1, <2>5, <2>7 DEF B
<1>3. Cardinality(S) \in Nat /\ D(Cardinality(S)) = SUBSET S
  BY <1>0, FS_Subset, FS_CardinalityType
<1>4. Cardinality(S) \notin B
  BY <1>2
<1> HIDE DEF D
<1> QED
  BY <1>3, <1>4

\* The partial sums of the values of f.
IsSum(it, f, S) ==
  \A s \in SUBSET S : it[s] = IF s = {} THEN Zero ELSE Plus(f[Pick(s)], it[s \ {Pick(s)}])

\* A set of fractions with their sums.
Closed(T) == Zero \in T /\ \A a, b \in T : Plus(a, b) \in T

\* SumFrac is the last of the partial sums, and they are fractions of the kind of its
\* terms.
LEMMA SumFracIs ==
  ASSUME NEW S, IsFiniteSet(S), NEW T, Closed(T), NEW f \in [S -> T]
  PROVE  /\ \E it \in [SUBSET S -> T] : IsSum(it, f, S) /\ SumFrac(f) = it[S]
         /\ SumFrac(f) \in T
<1> DEFINE op == [p \in T \X T |-> Plus(p[1], p[2])]
           AreSums(it) == it = [s \in SUBSET S |-> IF s = {} THEN Zero ELSE Plus(f[Pick(s)], it[s \ {Pick(s)}])]
           sum == CHOOSE it : AreSums(it)
<1>0. Zero \in T /\ \A a, b \in T : Plus(a, b) \in T
  BY DEF Closed
<1>1. op \in [T \X T -> T] /\ \A a, b \in T : op[<<a, b>>] = Plus(a, b)
  BY <1>0
<1> HIDE DEF op
<1>2. PICK g \in [SUBSET S -> T] : Partials(g, op, Zero, f, SUBSET S)
  BY <1>0, <1>1, FoldExists
<1>3. \A s \in SUBSET S : s # {} => Pick(s) \in s
  BY DEF Pick
<1>4. AreSums(g)
  <2>1. ASSUME NEW s \in SUBSET S
        PROVE  g[s] = IF s = {} THEN Zero ELSE Plus(f[Pick(s)], g[s \ {Pick(s)}])
    <3>1. g[s] = IF s = {} THEN Zero ELSE op[<<f[Pick(s)], g[s \ {Pick(s)}]>>]
      BY <1>2 DEF Partials
    <3>2. CASE s = {}
      BY <3>1, <3>2
    <3>3. CASE s # {}
      <4>1. f[Pick(s)] \in T /\ s \ {Pick(s)} \in SUBSET S
        BY <1>3, <3>3
      <4>2. g[s \ {Pick(s)}] \in T
        BY <4>1
      <4> QED
        BY <1>1, <3>1, <3>3, <4>1, <4>2
    <3> QED
      BY <3>2, <3>3
  <2>2. g = [s \in SUBSET S |-> g[s]]
    OBVIOUS
  <2> QED
    BY <2>1, <2>2
<1>5. AreSums(sum)
  <2> HIDE DEF AreSums
  <2> QED
    BY <1>4
<1>6. SumFrac(f) = sum[S]
  BY DEF SumFrac, FoldFunction, FoldFunctionOnSet, MapThenFoldSet, Pick
<1> HIDE DEF sum
<1>7. IsSum(sum, f, S)
  BY <1>5 DEF IsSum
<1>8. \A s \in SUBSET S : sum[s] \in T
  <2> DEFINE B == {s \in SUBSET S : sum[s] \notin T}
  <2> SUFFICES ASSUME B # {} PROVE FALSE
    OBVIOUS
  <2>0. B \in SUBSET (SUBSET S)
    OBVIOUS
  <2>1. PICK s \in B : \A t \in SUBSET s : t # s => t \notin B
    <3> HIDE DEF B
    <3> QED
      BY <2>0, LeastSet
  <2>2. s # {}
    BY <1>0, <1>7, <2>1 DEF IsSum
  <2>3. Pick(s) \in s /\ s \ {Pick(s)} \in SUBSET s /\ s \ {Pick(s)} # s /\ s \in SUBSET S
    BY <1>3, <2>1, <2>2
  <2>4. sum[s \ {Pick(s)}] \in T
    BY <2>1, <2>3
  <2>5. f[Pick(s)] \in T
    BY <2>3
  <2>6. sum[s] = Plus(f[Pick(s)], sum[s \ {Pick(s)}])
    BY <1>7, <2>2, <2>3 DEF IsSum
  <2> QED
    BY <1>0, <2>1, <2>4, <2>5, <2>6
<1>9. sum \in [SUBSET S -> T] /\ SumFrac(f) \in T
  BY <1>5, <1>6, <1>8
<1> QED
  BY <1>6, <1>7, <1>9

\* The sum of a column of natural numbers is one.
LEMMA NaturalSum ==
  ASSUME NEW S, IsFiniteSet(S), NEW f \in [S -> Nat]
  PROVE  SumFunction(f) \in Nat
<1> DEFINE op == [p \in Nat \X Nat |-> p[1] + p[2]]
           AreSums(it) == it = [s \in SUBSET S |-> IF s = {} THEN 0 ELSE f[Pick(s)] + it[s \ {Pick(s)}]]
           sum == CHOOSE it : AreSums(it)
<1>1. op \in [Nat \X Nat -> Nat] /\ \A a, b \in Nat : op[<<a, b>>] = a + b
  OBVIOUS
<1> HIDE DEF op
<1>2. PICK g \in [SUBSET S -> Nat] : Partials(g, op, 0, f, SUBSET S)
  BY <1>1, FoldExists
<1>3. \A s \in SUBSET S : s # {} => Pick(s) \in s
  BY DEF Pick
<1>4. AreSums(g)
  <2>1. ASSUME NEW s \in SUBSET S
        PROVE  g[s] = IF s = {} THEN 0 ELSE f[Pick(s)] + g[s \ {Pick(s)}]
    <3>1. g[s] = IF s = {} THEN 0 ELSE op[<<f[Pick(s)], g[s \ {Pick(s)}]>>]
      BY <1>2 DEF Partials
    <3>2. CASE s = {}
      BY <3>1, <3>2
    <3>3. CASE s # {}
      <4>1. f[Pick(s)] \in Nat /\ s \ {Pick(s)} \in SUBSET S
        BY <1>3, <3>3
      <4>2. g[s \ {Pick(s)}] \in Nat
        BY <4>1
      <4> QED
        BY <1>1, <3>1, <3>3, <4>1, <4>2
    <3> QED
      BY <3>2, <3>3
  <2>2. g = [s \in SUBSET S |-> g[s]]
    OBVIOUS
  <2> QED
    BY <2>1, <2>2
<1>5. AreSums(sum)
  <2> HIDE DEF AreSums
  <2> QED
    BY <1>4
<1>6. SumFunction(f) = sum[S]
  BY DEF SumFunction, SumFunctionOnSet, FoldFunctionOnSet, MapThenFoldSet, Pick
<1> HIDE DEF sum
<1>7. \A s \in SUBSET S : sum[s] = IF s = {} THEN 0 ELSE f[Pick(s)] + sum[s \ {Pick(s)}]
  BY <1>5
<1>8. \A s \in SUBSET S : sum[s] \in Nat
  <2> DEFINE B == {s \in SUBSET S : sum[s] \notin Nat}
  <2> SUFFICES ASSUME B # {} PROVE FALSE
    OBVIOUS
  <2>0. B \in SUBSET (SUBSET S)
    OBVIOUS
  <2>1. PICK s \in B : \A t \in SUBSET s : t # s => t \notin B
    <3> HIDE DEF B
    <3> QED
      BY <2>0, LeastSet
  <2>2. s # {}
    <3>1. {} \in SUBSET S
      OBVIOUS
    <3>2. sum[{}] = 0
      BY <1>7, <3>1
    <3>3. sum[s] \notin Nat /\ 0 \in Nat
      BY <2>1
    <3> HIDE DEF B
    <3> QED
      BY <3>2, <3>3, Zenon
  <2>3. Pick(s) \in s /\ s \ {Pick(s)} \in SUBSET s /\ s \ {Pick(s)} # s /\ s \in SUBSET S
    BY <1>3, <2>1, <2>2
  <2>4. sum[s \ {Pick(s)}] \in Nat
    BY <2>1, <2>3
  <2>5. f[Pick(s)] \in Nat
    BY <2>3
  <2>6. sum[s] = f[Pick(s)] + sum[s \ {Pick(s)}]
    BY <1>7, <2>2, <2>3
  <2> QED
    BY <2>1, <2>4, <2>5, <2>6
<1> QED
  BY <1>6, <1>8

\* Adding zero changes nothing.
LEMMA PlusZero ==
  ASSUME NEW a \in Rationals
  PROVE  Equal(Plus(Zero, a), a)
<1>1. Zero \in Rationals
  BY FracFields
<1>2. Equal(Plus(Zero, a), Sum2(Zero, a)) /\ Sum2(Zero, a) \in Rationals /\ Plus(Zero, a) \in Rationals
  BY <1>1, SumEqual, EqualRefl, FracTypes
<1>3. Equal(Sum2(Zero, a), a)
  <2> DEFINE an == a.n  ad == a.d
  <2>1. an \in Int /\ ad \in Int
    BY FracFields
  <2>2. Sum2(Zero, a).n = 0 * ad + an * 1 /\ Sum2(Zero, a).d = 1 * ad
    <3>1. Zero.n = 0 /\ Zero.d = 1
      BY FracFields DEF Zero
    <3> QED
      BY <3>1, FracFields DEF Sum2
  <2> HIDE DEF an, ad
  <2>3. (0 * ad + an * 1) * ad = an * (1 * ad)
    BY <2>1
  <2> QED
    BY <2>2, <2>3 DEF Equal, an, ad
<1> QED
  BY <1>2, <1>3, EqualTrans

\* The terms of a sum may change places.
LEMMA PlusSwap ==
  ASSUME NEW a \in Rationals, NEW b \in Rationals, NEW c \in Rationals
  PROVE  Equal(Plus(a, Plus(b, c)), Plus(b, Plus(a, c)))
<1>1. /\ Plus(b, c) \in Rationals /\ Plus(a, c) \in Rationals /\ Sum2(b, c) \in Rationals /\ Sum2(a, c) \in Rationals
      /\ Equal(Plus(b, c), Sum2(b, c)) /\ Equal(Plus(a, c), Sum2(a, c))
  BY FracTypes, SumEqual, EqualRefl
<1>2. /\ Equal(Plus(a, Plus(b, c)), Sum2(a, Sum2(b, c))) /\ Equal(Plus(b, Plus(a, c)), Sum2(b, Sum2(a, c)))
      /\ Sum2(a, Sum2(b, c)) \in Rationals /\ Sum2(b, Sum2(a, c)) \in Rationals
      /\ Plus(a, Plus(b, c)) \in Rationals /\ Plus(b, Plus(a, c)) \in Rationals
  BY <1>1, SumEqual, EqualRefl, FracTypes
<1>3. Equal(Sum2(a, Sum2(b, c)), Sum2(b, Sum2(a, c)))
  <2> DEFINE an == a.n  ad == a.d  bn == b.n  bd == b.d  cn == c.n  cd == c.d
  <2>1. an \in Int /\ ad \in Int /\ bn \in Int /\ bd \in Int /\ cn \in Int /\ cd \in Int
    BY FracFields
  <2>2. /\ Sum2(a, Sum2(b, c)).n = an * (bd * cd) + (bn * cd + cn * bd) * ad
        /\ Sum2(a, Sum2(b, c)).d = ad * (bd * cd)
        /\ Sum2(b, Sum2(a, c)).n = bn * (ad * cd) + (an * cd + cn * ad) * bd
        /\ Sum2(b, Sum2(a, c)).d = bd * (ad * cd)
    BY FracFields DEF Sum2
  <2> HIDE DEF an, ad, bn, bd, cn, cd
  <2>3. (an * (bd * cd) + (bn * cd + cn * bd) * ad) * (bd * (ad * cd))
        = (bn * (ad * cd) + (an * cd + cn * ad) * bd) * (ad * (bd * cd))
    BY <2>1
  <2> QED
    BY <2>2, <2>3 DEF Equal
<1>4. \A x, y, z, w \in Rationals : Equal(x, y) /\ Equal(y, z) /\ Equal(w, z) => Equal(x, w)
  BY EqualTrans, EqualSym
<1> QED
  BY <1>2, <1>3, <1>4

\* Partial sums of fractions.
Sums(it, f, S) == it \in [SUBSET S -> Rationals] /\ f \in [S -> Rationals] /\ IsSum(it, f, S)

\* SumFrac of amounts is an amount.
LEMMA SumOfAmounts ==
  ASSUME NEW S, IsFiniteSet(S), NEW f \in [S -> Amounts]
  PROVE  SumFrac(f) \in Amounts
<1>1. Closed(Amounts)
  BY FracFields, AmountTypes DEF Closed
<1> QED
  BY <1>1, SumFracIs

\* SumFrac of fractions is the last of their partial sums.
LEMMA SumOfFractions ==
  ASSUME NEW S, IsFiniteSet(S), NEW f \in [S -> Rationals]
  PROVE  \E it : Sums(it, f, S) /\ SumFrac(f) = it[S]
<1>1. Closed(Rationals)
  BY FracFields, FracTypes DEF Closed
<1>2. /\ \E it \in [SUBSET S -> Rationals] : IsSum(it, f, S) /\ SumFrac(f) = it[S]
      /\ SumFrac(f) \in Rationals
  BY <1>1, SumFracIs, Zenon
<1> QED
  BY <1>2 DEF Sums

\* Any element of a set may be added last: the order of a sum does not matter.
LEMMA SumOfRest ==
  ASSUME NEW S, IsFiniteSet(S), NEW it, NEW f, Sums(it, f, S), NEW s \in SUBSET S, NEW x \in s
  PROVE  Equal(it[s], Plus(f[x], it[s \ {x}]))
<1> DEFINE Fails(t) == \E y \in t : ~Equal(it[t], Plus(f[y], it[t \ {y}]))
           B == {t \in SUBSET S : Fails(t)}
<1> SUFFICES ASSUME B # {} PROVE FALSE
  OBVIOUS
<1>0. B \in SUBSET (SUBSET S)
  OBVIOUS
<1>1. PICK t \in B : \A u \in SUBSET t : u # t => u \notin B
  <2> HIDE DEF B
  <2> QED
    BY <1>0, LeastSet
<1>2. t \in SUBSET S /\ Fails(t) /\ \A u \in SUBSET t : u # t => ~Fails(u)
  BY <1>1
<1>3. PICK y \in t : ~Equal(it[t], Plus(f[y], it[t \ {y}]))
  BY <1>2
<1> DEFINE p == Pick(t)
           z == it[(t \ {p}) \ {y}]
<1>4. p \in t
  BY <1>3 DEF Pick
<1>5. it[t] = Plus(f[p], it[t \ {p}])
  BY <1>2, <1>3 DEF Sums, IsSum
<1> HIDE DEF p
<1>6. /\ f[p] \in Rationals /\ f[y] \in Rationals /\ it[t \ {p}] \in Rationals /\ it[t \ {y}] \in Rationals
      /\ z \in Rationals /\ it[t] \in Rationals
  <2>1. /\ p \in S /\ y \in S /\ t \ {p} \in SUBSET S /\ t \ {y} \in SUBSET S /\ (t \ {p}) \ {y} \in SUBSET S
    BY <1>2, <1>3, <1>4
  <2> QED
    BY <1>2, <2>1 DEF Sums
<1>7. p # y
  <2> SUFFICES ASSUME p = y PROVE FALSE
    OBVIOUS
  <2>1. Plus(f[p], it[t \ {p}]) \in Rationals
    BY <1>6, FracTypes
  <2> QED
    BY <1>3, <1>5, <2>1, EqualRefl
<1>8. Equal(it[t \ {p}], Plus(f[y], z))
  <2>1. t \ {p} \in SUBSET t /\ t \ {p} # t /\ y \in t \ {p}
    BY <1>3, <1>4, <1>7
  <2> QED
    BY <1>2, <2>1
<1>9. Equal(it[t \ {y}], Plus(f[p], z))
  <2>1. t \ {y} \in SUBSET t /\ t \ {y} # t /\ p \in t \ {y} /\ (t \ {y}) \ {p} = (t \ {p}) \ {y}
    BY <1>3, <1>4, <1>7
  <2> QED
    BY <1>2, <2>1
<1> HIDE DEF z
<1>10. /\ Plus(f[y], z) \in Rationals /\ Plus(f[p], z) \in Rationals
       /\ Plus(f[p], Plus(f[y], z)) \in Rationals /\ Plus(f[y], Plus(f[p], z)) \in Rationals
       /\ Plus(f[y], it[t \ {y}]) \in Rationals
  BY <1>6, FracTypes
<1>11. Equal(it[t], Plus(f[p], Plus(f[y], z)))
  BY <1>5, <1>6, <1>8, <1>10, PlusEqual, EqualRefl
<1>12. Equal(Plus(f[p], Plus(f[y], z)), Plus(f[y], Plus(f[p], z)))
  BY <1>6, PlusSwap
<1>13. Equal(Plus(f[y], it[t \ {y}]), Plus(f[y], Plus(f[p], z)))
  BY <1>6, <1>9, <1>10, PlusEqual, EqualRefl
<1>14. Equal(it[t], Plus(f[y], Plus(f[p], z)))
  BY <1>6, <1>10, <1>11, <1>12, EqualTrans
<1>15. Equal(it[t], Plus(f[y], it[t \ {y}]))
  BY <1>6, <1>10, <1>13, <1>14, EqualTrans, EqualSym
<1> QED
  BY <1>3, <1>15

\* Terms of zero do not count.
LEMMA SumExtended ==
  ASSUME NEW S, IsFiniteSet(S), NEW U \in SUBSET S,
         NEW it, NEW f, Sums(it, f, U), NEW jt, NEW g, Sums(jt, g, S),
         \A x \in S : g[x] = IF x \in U THEN f[x] ELSE Zero
  PROVE  Equal(it[U], jt[S])
<1> DEFINE Fails(t) == ~Equal(it[t \cap U], jt[t])
           B == {t \in SUBSET S : Fails(t)}
<1>1. B = {}
  <2> SUFFICES ASSUME B # {} PROVE FALSE
    OBVIOUS
  <2>0. B \in SUBSET (SUBSET S)
    OBVIOUS
  <2>1. PICK t \in B : \A u \in SUBSET t : u # t => u \notin B
    <3> HIDE DEF B
    <3> QED
      BY <2>0, LeastSet
  <2>2. t \in SUBSET S /\ Fails(t) /\ \A u \in SUBSET t : u # t => ~Fails(u)
    BY <2>1
  <2>3. t # {}
    <3> SUFFICES ASSUME t = {} PROVE FALSE
      OBVIOUS
    <3>1. {} \in SUBSET S /\ {} \in SUBSET U /\ t \cap U = {}
      OBVIOUS
    <3>2. it[{}] = Zero /\ jt[{}] = Zero
      BY <3>1 DEF Sums, IsSum
    <3>3. Equal(Zero, Zero)
      BY FracFields, EqualRefl
    <3> QED
      BY <2>2, <3>1, <3>2, <3>3
  <2> DEFINE p == Pick(t)
  <2>4. p \in t /\ jt[t] = Plus(g[p], jt[t \ {p}])
    BY <2>2, <2>3 DEF Pick, Sums, IsSum
  <2> HIDE DEF p
  <2>5. Equal(it[(t \ {p}) \cap U], jt[t \ {p}])
    <3>1. t \ {p} \in SUBSET t /\ t \ {p} # t
      BY <2>4
    <3> QED
      BY <2>2, <3>1
  <2>6. /\ it[(t \ {p}) \cap U] \in Rationals /\ jt[t \ {p}] \in Rationals /\ it[t \cap U] \in Rationals
        /\ jt[t] \in Rationals /\ g[p] \in Rationals
    <3>1. (t \ {p}) \cap U \in SUBSET U /\ t \cap U \in SUBSET U /\ t \ {p} \in SUBSET S /\ p \in S
      BY <2>2, <2>4
    <3> QED
      BY <2>2, <3>1 DEF Sums
  <2>7. CASE p \in U
    <3>1. f[p] = g[p] /\ (t \cap U) \ {p} = (t \ {p}) \cap U /\ p \in t \cap U /\ t \cap U \in SUBSET U
      BY <2>2, <2>4, <2>7
    <3>2. IsFiniteSet(U)
      BY FS_Subset
    <3>3. Equal(it[t \cap U], Plus(g[p], it[(t \ {p}) \cap U]))
      BY <3>1, <3>2, SumOfRest
    <3>4. /\ Equal(Plus(g[p], it[(t \ {p}) \cap U]), Plus(g[p], jt[t \ {p}]))
          /\ Plus(g[p], it[(t \ {p}) \cap U]) \in Rationals
      <4> DEFINE a == it[(t \ {p}) \cap U]  b == jt[t \ {p}]  c == g[p]
      <4>1. a \in Rationals /\ b \in Rationals /\ c \in Rationals /\ Equal(a, b)
        BY <2>5, <2>6
      <4> HIDE DEF a, b, c
      <4>2. Equal(Plus(c, a), Plus(c, b)) /\ Plus(c, a) \in Rationals
        BY <4>1, PlusEqual, EqualRefl, FracTypes
      <4> QED
        BY <4>2 DEF a, b, c
    <3> QED
      BY <2>2, <2>4, <2>6, <3>3, <3>4, EqualTrans
  <2>8. CASE p \notin U
    <3>1. g[p] = Zero /\ (t \ {p}) \cap U = t \cap U
      BY <2>2, <2>4, <2>8
    <3>2. Equal(jt[t], jt[t \ {p}])
      BY <2>4, <2>6, <3>1, PlusZero
    <3> QED
      BY <2>2, <2>5, <2>6, <3>1, <3>2, EqualTrans, EqualSym
  <2> QED
    BY <2>7, <2>8
<1>2. ~Fails(S)
  BY <1>1
<1>3. S \cap U = U
  OBVIOUS
<1> QED
  BY <1>2, <1>3

-----------------------------------------------------------------------------
(* The decomposition *)

\* Classes have turns, and tokens that are not negative.
ValuesOK(values) ==
  /\ IsFiniteSet(DOMAIN values)
  /\ \A c \in DOMAIN values :
       values[c].count \in Amounts /\ values[c].count.n > 0 /\ values[c].tokens \in Amounts

\* A rate times its count is the tokens.
LEMMA RateTimesCount ==
  ASSUME NEW a \in Rationals, NEW b \in Amounts, b.n > 0
  PROVE  Equal(Multiply(b, Over(a, b)), a) /\ Over(a, b) \in Rationals
<1> DEFINE an == a.n  ad == a.d  bn == b.n  bd == b.d
<1>1. an \in Int /\ ad \in Int /\ bn \in Int /\ bd \in Int
  BY FracFields
<1>2. Multiply(b, Over(a, b)).n = bn * (an * bd) /\ Multiply(b, Over(a, b)).d = bd * (ad * bn)
  BY FracFields DEF Multiply, Over
<1> HIDE DEF an, ad, bn, bd
<1>3. (bn * (an * bd)) * ad = an * (bd * (ad * bn))
  BY <1>1
<1>4. Equal(Multiply(b, Over(a, b)), a)
  BY <1>2, <1>3 DEF Equal, an, ad
<1> QED
  BY <1>4, FracTypes, FracFields

\* A class, present or absent.
LEMMA ClassFacts ==
  ASSUME NEW values, ValuesOK(values), NEW x
  PROVE  LET v == ClassOf(values, x)
         IN  /\ v.count \in Amounts /\ v.tokens \in Amounts /\ safeRate(v) \in Rationals
             /\ Equal(Multiply(v.count, safeRate(v)), v.tokens)
<1> DEFINE v == ClassOf(values, x)
<1>1. CASE x \in DOMAIN values
  <2>1. v = values[x] /\ v.count \in Amounts /\ v.count.n > 0 /\ v.tokens \in Amounts
    BY <1>1 DEF ValuesOK, ClassOf
  <2> HIDE DEF v
  <2>2. v.count.n # 0 /\ v.tokens \in Rationals
    BY <2>1, FracFields
  <2>3. safeRate(v) = Over(v.tokens, v.count)
    BY <2>2 DEF safeRate
  <2>4. Equal(Multiply(v.count, Over(v.tokens, v.count)), v.tokens) /\ Over(v.tokens, v.count) \in Rationals
    BY <2>1, <2>2, RateTimesCount
  <2> QED
    BY <2>1, <2>3, <2>4 DEF v
<1>2. CASE x \notin DOMAIN values
  <2>1. v.count = Zero /\ v.tokens = Zero
    BY <1>2 DEF ClassOf
  <2> HIDE DEF v
  <2>2. Zero \in Amounts /\ Zero \in Rationals /\ Zero.n = 0 /\ Zero.d = 1
    BY FracFields DEF Zero
  <2>3. safeRate(v) = Zero
    BY <2>1, <2>2 DEF safeRate
  <2>4. Multiply(Zero, Zero) = Zero
    BY FracFields DEF Multiply, Zero
  <2>5. Equal(Zero, Zero)
    BY <2>2, EqualRefl
  <2> QED
    BY <2>1, <2>2, <2>3, <2>4, <2>5 DEF v
<1> QED
  BY <1>1, <1>2

\* Totals are amounts.
LEMMA TotalFacts ==
  ASSUME NEW values, ValuesOK(values)
  PROVE  Total(values).count \in Amounts /\ Total(values).tokens \in Amounts
<1> DEFINE counts == [c \in DOMAIN values |-> values[c].count]
           tokens == [c \in DOMAIN values |-> values[c].tokens]
<1>1. counts \in [DOMAIN values -> Amounts] /\ tokens \in [DOMAIN values -> Amounts] /\ IsFiniteSet(DOMAIN values)
  BY DEF ValuesOK
<1>2. Total(values).count = SumFrac(counts) /\ Total(values).tokens = SumFrac(tokens)
  BY DEF Total
<1> HIDE DEF counts, tokens
<1>3. SumFrac(counts) \in Amounts /\ SumFrac(tokens) \in Amounts
  BY <1>1, SumOfAmounts
<1> QED
  BY <1>2, <1>3

\* The terms of a sum over any classes that include those of the values, absent ones zero.
LEMMA TotalExtended ==
  ASSUME NEW values, ValuesOK(values), NEW classes, IsFiniteSet(classes), DOMAIN values \subseteq classes,
         NEW jt, Sums(jt, [x \in classes |-> ClassOf(values, x).tokens], classes)
  PROVE  Equal(Total(values).tokens, jt[classes])
<1> DEFINE tokens == [c \in DOMAIN values |-> values[c].tokens]
           g == [x \in classes |-> ClassOf(values, x).tokens]
<1>1. tokens \in [DOMAIN values -> Rationals] /\ IsFiniteSet(DOMAIN values)
  BY FracFields DEF ValuesOK
<1>2. Total(values).tokens = SumFrac(tokens)
  BY DEF Total
<1>3. \A x \in classes : g[x] = IF x \in DOMAIN values THEN tokens[x] ELSE Zero
  BY DEF ClassOf
<1> HIDE DEF tokens, g
<1>5. PICK it : Sums(it, tokens, DOMAIN values) /\ SumFrac(tokens) = it[DOMAIN values]
  BY <1>1, SumOfFractions
<1>7. Sums(jt, g, classes) /\ DOMAIN values \in SUBSET classes
  BY DEF g
<1>8. Equal(it[DOMAIN values], jt[classes])
  BY <1>3, <1>5, <1>7, SumExtended
<1> QED
  BY <1>2, <1>5, <1>8

\* Chains of equals.
LEMMA EqualChain ==
  ASSUME NEW a \in Rationals, NEW b \in Rationals, NEW c \in Rationals, NEW d \in Rationals,
         Equal(a, b), Equal(b, c), Equal(c, d)
  PROVE  Equal(a, d)
BY EqualTrans

\* If a + b = c - kd and e + f = g - kh then (a + e) + (b + f) = (c + g) - k(d + h).
LEMMA StepAlgebra ==
  ASSUME NEW k \in Rationals, NEW a \in Rationals, NEW b \in Rationals, NEW c \in Rationals, NEW d \in Rationals,
         NEW e \in Rationals, NEW f \in Rationals, NEW g \in Rationals, NEW h \in Rationals,
         Equal(Plus(a, b), Minus(c, Multiply(k, d))), Equal(Plus(e, f), Minus(g, Multiply(k, h)))
  PROVE  Equal(Plus(Plus(a, e), Plus(b, f)), Minus(Plus(c, g), Multiply(k, Plus(d, h))))
<1> DEFINE kd == Multiply(k, d)  kh == Multiply(k, h)  kdh == Multiply(k, Plus(d, h))
<1>1. kd \in Rationals /\ kh \in Rationals /\ Plus(d, h) \in Rationals /\ kdh \in Rationals
  BY FracTypes
<1>2. Equal(Plus(kd, kh), kdh) /\ Plus(kd, kh) \in Rationals
  <2>1. Equal(kdh, Plus(kd, kh)) /\ Plus(kd, kh) \in Rationals
    BY <1>1, Distributes, FracTypes
  <2> QED
    BY <1>1, <2>1, EqualSym
<1>3. Equal(Plus(a, b), Minus(c, kd)) /\ Equal(Plus(e, f), Minus(g, kh))
  OBVIOUS
<1> HIDE DEF kd, kh, kdh
<1>4. /\ Plus(a, b) \in Rationals /\ Plus(e, f) \in Rationals /\ Plus(a, e) \in Rationals /\ Plus(b, f) \in Rationals
      /\ Plus(c, g) \in Rationals /\ Minus(c, kd) \in Rationals /\ Minus(g, kh) \in Rationals
  BY <1>1, FracTypes
<1>5. /\ Plus(Plus(a, e), Plus(b, f)) \in Rationals /\ Plus(Plus(a, b), Plus(e, f)) \in Rationals
      /\ Plus(Minus(c, kd), Minus(g, kh)) \in Rationals /\ Minus(Plus(c, g), Plus(kd, kh)) \in Rationals
      /\ Minus(Plus(c, g), kdh) \in Rationals
  BY <1>1, <1>2, <1>4, FracTypes
<1>6. Equal(Plus(Plus(a, e), Plus(b, f)), Plus(Plus(a, b), Plus(e, f)))
  BY PlusShuffle
<1>7. Equal(Plus(Plus(a, b), Plus(e, f)), Plus(Minus(c, kd), Minus(g, kh)))
  BY <1>3, <1>4, PlusEqual
<1>8. Equal(Plus(Minus(c, kd), Minus(g, kh)), Minus(Plus(c, g), Plus(kd, kh)))
  BY <1>1, MinusShuffle
<1>9. Equal(Minus(Plus(c, g), Plus(kd, kh)), Minus(Plus(c, g), kdh))
  BY <1>1, <1>2, <1>4, MinusEqual, EqualRefl
<1>10. Equal(Plus(Plus(a, e), Plus(b, f)), Minus(Plus(c, g), Plus(kd, kh)))
  BY <1>5, <1>6, <1>7, <1>8, EqualChain
<1>11. Equal(Plus(Plus(a, e), Plus(b, f)), Minus(Plus(c, g), kdh))
  BY <1>5, <1>9, <1>10, EqualTrans
<1> QED
  BY <1>11 DEF kdh

\* The same of nothing.
LEMMA ZeroAlgebra ==
  ASSUME NEW k \in Rationals
  PROVE  Equal(Plus(Zero, Zero), Minus(Zero, Multiply(k, Zero)))
<1> DEFINE z == Multiply(k, Zero)
           m == Frac(-z.n, z.d)
<1>a. Zero.n = 0 /\ Zero.d = 1 /\ Zero \in Rationals /\ k.n \in Int
  BY FracFields DEF Zero
<1>b. z \in Rationals /\ z.n = k.n * 0
  BY <1>a, FracFields, FracTypes DEF Multiply
<1>c. m \in Rationals
  BY <1>a, <1>b, FracTypes
<1>1. Zero.n = 0 /\ Zero.d = 1 /\ z \in Rationals /\ m \in Rationals /\ z.n = 0
  BY <1>a, <1>b, <1>c
<1>2. m.n = 0 /\ m.d = z.d /\ z.d \in Int
  BY <1>1, FracFields
<1>3. Minus(Zero, z) = Plus(Zero, m)
  BY DEF Minus
<1> HIDE DEF z, m
<1>4. Plus(Zero, Zero).n = 0 /\ Plus(Zero, m).n = 0
  BY <1>1, <1>2, FracFields DEF Plus
<1>5. Plus(Zero, m) \in Rationals /\ Plus(Zero, Zero) \in Rationals
  BY <1>1, FracFields, FracTypes
<1>6. Equal(Plus(Zero, Zero), Plus(Zero, m))
  BY <1>4, <1>5, FracFields DEF Equal
<1> QED
  BY <1>3, <1>6 DEF z

\* Sums whose terms agree agree.
LEMMA SumsAgree ==
  ASSUME NEW S, IsFiniteSet(S), NEW k \in Rationals,
         NEW m, NEW fm, Sums(m, fm, S), NEW w, NEW fw, Sums(w, fw, S),
         NEW u, NEW fu, Sums(u, fu, S), NEW v, NEW fv, Sums(v, fv, S),
         \A x \in S : Equal(Plus(fm[x], fw[x]), Minus(fu[x], Multiply(k, fv[x])))
  PROVE  Equal(Plus(m[S], w[S]), Minus(u[S], Multiply(k, v[S])))
<1> DEFINE Agree(t) == Equal(Plus(m[t], w[t]), Minus(u[t], Multiply(k, v[t])))
           B == {t \in SUBSET S : ~Agree(t)}
<1>1. B = {}
  <2> SUFFICES ASSUME B # {} PROVE FALSE
    OBVIOUS
  <2>0. B \in SUBSET (SUBSET S)
    OBVIOUS
  <2>1. PICK t \in B : \A y \in SUBSET t : y # t => y \notin B
    <3> HIDE DEF B
    <3> QED
      BY <2>0, LeastSet
  <2>2. t \in SUBSET S /\ ~Agree(t) /\ \A y \in SUBSET t : y # t => Agree(y)
    BY <2>1
  <2>3. t # {}
    <3> SUFFICES ASSUME t = {} PROVE FALSE
      OBVIOUS
    <3>1. {} \in SUBSET S
      OBVIOUS
    <3>2. m[{}] = Zero /\ w[{}] = Zero /\ u[{}] = Zero /\ v[{}] = Zero
      BY <3>1 DEF Sums, IsSum
    <3> QED
      BY <2>2, <3>2, ZeroAlgebra
  <2> DEFINE p == Pick(t)
             r == t \ {p}
  <2>4. /\ p \in t /\ m[t] = Plus(fm[p], m[r]) /\ w[t] = Plus(fw[p], w[r])
        /\ u[t] = Plus(fu[p], u[r]) /\ v[t] = Plus(fv[p], v[r])
    BY <2>2, <2>3 DEF Pick, Sums, IsSum
  <2> HIDE DEF p
  <2>5. Agree(r)
    <3>1. r \in SUBSET t /\ r # t
      BY <2>4
    <3> QED
      BY <2>2, <3>1
  <2>6. /\ m[r] \in Rationals /\ w[r] \in Rationals /\ u[r] \in Rationals /\ v[r] \in Rationals
        /\ fm[p] \in Rationals /\ fw[p] \in Rationals /\ fu[p] \in Rationals /\ fv[p] \in Rationals
    <3>1. r \in SUBSET S /\ p \in S
      BY <2>2, <2>4
    <3> HIDE DEF r
    <3> QED
      BY <3>1 DEF Sums
  <2>7. Equal(Plus(fm[p], fw[p]), Minus(fu[p], Multiply(k, fv[p])))
    BY <2>2, <2>4
  <2> HIDE DEF r
  <2>8. Equal(Plus(Plus(fm[p], m[r]), Plus(fw[p], w[r])), Minus(Plus(fu[p], u[r]), Multiply(k, Plus(fv[p], v[r]))))
    BY <2>5, <2>6, <2>7, StepAlgebra
  <2> QED
    BY <2>2, <2>4, <2>8
<1> QED
  BY <1>1

\* Regrouping a product of a share of a total.
LEMMA Regroup ==
  ASSUME NEW a \in Rationals, NEW b \in Rationals, NEW c \in Rationals, NEW g \in Amounts, g.n > 0
  PROVE  /\ Equal(Multiply(Multiply(a, Over(b, g)), c), Multiply(Over(a, g), Multiply(b, c)))
         /\ Over(a, g) \in Rationals /\ Over(b, g) \in Rationals
<1> DEFINE an == a.n  ad == a.d  bn == b.n  bd == b.d  cn == c.n  cd == c.d  gn == g.n  gd == g.d
<1>1. /\ an \in Int /\ ad \in Int /\ bn \in Int /\ bd \in Int /\ cn \in Int /\ cd \in Int /\ gn \in Int /\ gd \in Int
  BY FracFields
<1>2. /\ Multiply(Multiply(a, Over(b, g)), c).n = (an * (bn * gd)) * cn
      /\ Multiply(Multiply(a, Over(b, g)), c).d = (ad * (bd * gn)) * cd
      /\ Multiply(Over(a, g), Multiply(b, c)).n = (an * gd) * (bn * cn)
      /\ Multiply(Over(a, g), Multiply(b, c)).d = (ad * gn) * (bd * cd)
  BY FracFields DEF Multiply, Over
<1>3. Over(a, g) \in Rationals /\ Over(b, g) \in Rationals
  BY RateTimesCount
<1> HIDE DEF an, ad, bn, bd, cn, cd, gn, gd
<1>4. ((an * (bn * gd)) * cn) * ((ad * gn) * (bd * cd)) = ((an * gd) * (bn * cn)) * ((ad * (bd * gn)) * cd)
  <2>1. (an * (bn * gd)) * cn = (an * gd) * (bn * cn) /\ (ad * gn) * (bd * cd) = (ad * (bd * gn)) * cd
    BY <1>1
  <2> QED
    BY <2>1
<1> QED
  BY <1>2, <1>3, <1>4 DEF Equal

\* c(s - r) and (c - x)r make cs - xr.
LEMMA EffectAlgebra ==
  ASSUME NEW c \in Rationals, NEW s \in Rationals, NEW r \in Rationals, NEW x \in Rationals
  PROVE  Equal(Plus(Multiply(Minus(c, x), r), Multiply(c, Minus(s, r))), Minus(Multiply(c, s), Multiply(x, r)))
<1> DEFINE cr == Multiply(c, r)  xr == Multiply(x, r)  cs == Multiply(c, s)
           left == Multiply(Minus(c, x), r)  right == Multiply(c, Minus(s, r))
<1>1. cr \in Rationals /\ xr \in Rationals /\ cs \in Rationals /\ Minus(c, x) \in Rationals /\ Minus(s, r) \in Rationals
  BY FracTypes
<1>2. left \in Rationals /\ right \in Rationals
  BY <1>1, FracTypes
<1>3. Equal(left, Minus(cr, xr)) /\ Equal(right, Minus(cs, cr))
  BY Distributes
<1> HIDE DEF cr, xr, cs, left, right
<1>4. Minus(cr, xr) \in Rationals /\ Minus(cs, cr) \in Rationals /\ Minus(cs, xr) \in Rationals
  BY <1>1, FracTypes
<1>5. Equal(Plus(left, right), Plus(Minus(cr, xr), Minus(cs, cr)))
  BY <1>2, <1>3, <1>4, PlusEqual
<1>6. Equal(Plus(Minus(cr, xr), Minus(cs, cr)), Minus(cs, xr))
  BY <1>1, Telescope
<1>7. Plus(left, right) \in Rationals /\ Plus(Minus(cr, xr), Minus(cs, cr)) \in Rationals
  BY <1>2, <1>4, FracTypes
<1>8. Equal(Plus(left, right), Minus(cs, xr))
  BY <1>4, <1>5, <1>6, <1>7, EqualTrans
<1> QED
  BY <1>8 DEF cr, xr, cs, left, right

\* The effects of a class are what its tokens are more than the old ones would be at the
\* new volume.
LEMMA ClassEffect ==
  ASSUME NEW previous, ValuesOK(previous), NEW current, ValuesOK(current), NEW x, Total(previous).count.n > 0
  PROVE  /\ Equal(Plus(MixEffect(previous, current, x), WithinEffect(previous, current, x)),
                  Minus(ClassOf(current, x).tokens,
                        Multiply(Over(Total(current).count, Total(previous).count), ClassOf(previous, x).tokens)))
         /\ MixEffect(previous, current, x) \in Rationals /\ WithinEffect(previous, current, x) \in Rationals
<1> DEFINE np == Total(previous).count  nc == Total(current).count
           c == ClassOf(current, x).count  p == ClassOf(previous, x).count
           s == safeRate(ClassOf(current, x))  r == safeRate(ClassOf(previous, x))
           tc == ClassOf(current, x).tokens  tp == ClassOf(previous, x).tokens
           k == Over(nc, np)  old == Multiply(nc, Over(p, np))
           mix == MixEffect(previous, current, x)  within == WithinEffect(previous, current, x)
<1>1. np \in Amounts /\ np.n > 0 /\ nc \in Amounts
  BY TotalFacts
<1>2. /\ c \in Amounts /\ p \in Amounts /\ s \in Rationals /\ r \in Rationals /\ tc \in Amounts /\ tp \in Amounts
      /\ Equal(Multiply(c, s), tc) /\ Equal(Multiply(p, r), tp)
  BY ClassFacts
<1>3. mix = Multiply(Minus(c, old), r) /\ within = Multiply(c, Minus(s, r))
  BY DEF MixEffect, WithinEffect
<1> HIDE DEF np, nc, c, p, s, r, tc, tp, mix, within
<1>4. nc \in Rationals /\ c \in Rationals /\ p \in Rationals /\ tc \in Rationals /\ tp \in Rationals
  BY <1>1, <1>2, FracFields
<1>5. /\ Equal(Multiply(old, r), Multiply(k, Multiply(p, r))) /\ k \in Rationals /\ Over(p, np) \in Rationals
  BY <1>1, <1>2, <1>4, Regroup
<1>6. old \in Rationals
  BY <1>4, <1>5, FracTypes
<1> HIDE DEF k, old
<1>7. Equal(Plus(mix, within), Minus(Multiply(c, s), Multiply(old, r)))
  BY <1>2, <1>3, <1>4, <1>6, EffectAlgebra
<1>8. /\ Multiply(c, s) \in Rationals /\ Multiply(old, r) \in Rationals /\ Multiply(p, r) \in Rationals
      /\ Multiply(k, tp) \in Rationals /\ Minus(c, old) \in Rationals /\ Minus(s, r) \in Rationals
  BY <1>2, <1>4, <1>5, <1>6, FracTypes
<1>9. Multiply(k, Multiply(p, r)) \in Rationals /\ mix \in Rationals /\ within \in Rationals
  BY <1>2, <1>3, <1>4, <1>5, <1>8, FracTypes
<1>10. Equal(Multiply(k, Multiply(p, r)), Multiply(k, tp))
  BY <1>2, <1>4, <1>5, <1>8, ProductEqual, EqualRefl
<1>11. Equal(Multiply(old, r), Multiply(k, tp))
  BY <1>5, <1>8, <1>9, <1>10, EqualTrans
<1>12. Equal(Minus(Multiply(c, s), Multiply(old, r)), Minus(tc, Multiply(k, tp)))
  BY <1>2, <1>4, <1>8, <1>11, MinusEqual
<1>13. /\ Plus(mix, within) \in Rationals /\ Minus(Multiply(c, s), Multiply(old, r)) \in Rationals
       /\ Minus(tc, Multiply(k, tp)) \in Rationals
  BY <1>4, <1>8, <1>9, FracTypes
<1>14. Equal(Plus(mix, within), Minus(tc, Multiply(k, tp)))
  BY <1>7, <1>12, <1>13, EqualTrans
<1> QED
  BY <1>9, <1>14 DEF mix, within, tc, tp, k, nc, np

\* The volume effect is what the old tokens would be at the new volume less what they are.
LEMMA VolumeEffect ==
  ASSUME NEW nc \in Amounts, NEW np \in Amounts, np.n > 0, NEW tp \in Rationals
  PROVE  /\ Equal(Multiply(Minus(nc, np), Over(tp, np)), Minus(Multiply(Over(nc, np), tp), tp))
         /\ Multiply(Minus(nc, np), Over(tp, np)) \in Rationals /\ Over(nc, np) \in Rationals
<1> DEFINE rate == Over(tp, np)  k == Over(nc, np)
<1>1. nc \in Rationals /\ np \in Rationals
  BY FracFields
<1>2. Equal(Multiply(np, rate), tp) /\ rate \in Rationals /\ k \in Rationals
  BY <1>1, RateTimesCount
<1>3. Equal(Multiply(nc, rate), Multiply(k, tp))
  <2> DEFINE an == nc.n  ad == nc.d  bn == np.n  bd == np.d  cn == tp.n  cd == tp.d
  <2>1. an \in Int /\ ad \in Int /\ bn \in Int /\ bd \in Int /\ cn \in Int /\ cd \in Int
    BY <1>1, FracFields
  <2>2. /\ Multiply(nc, rate).n = an * (cn * bd) /\ Multiply(nc, rate).d = ad * (cd * bn)
        /\ Multiply(k, tp).n = (an * bd) * cn /\ Multiply(k, tp).d = (ad * bn) * cd
    BY FracFields DEF Multiply, Over
  <2> HIDE DEF an, ad, bn, bd, cn, cd
  <2>3. an * (cn * bd) = (an * bd) * cn /\ ad * (cd * bn) = (ad * bn) * cd
    BY <2>1
  <2>4. (an * (cn * bd)) * ((ad * bn) * cd) = ((an * bd) * cn) * (ad * (cd * bn))
    BY <2>3
  <2> QED
    BY <2>2, <2>4 DEF Equal
<1> HIDE DEF rate, k
<1>4. Equal(Multiply(Minus(nc, np), rate), Minus(Multiply(nc, rate), Multiply(np, rate)))
  BY <1>1, <1>2, Distributes
<1>5. /\ Multiply(nc, rate) \in Rationals /\ Multiply(np, rate) \in Rationals /\ Multiply(k, tp) \in Rationals
      /\ Minus(nc, np) \in Rationals
  BY <1>1, <1>2, FracTypes
<1>6. Equal(Minus(Multiply(nc, rate), Multiply(np, rate)), Minus(Multiply(k, tp), tp))
  BY <1>2, <1>3, <1>5, MinusEqual
<1>7. /\ Multiply(Minus(nc, np), rate) \in Rationals /\ Minus(Multiply(nc, rate), Multiply(np, rate)) \in Rationals
      /\ Minus(Multiply(k, tp), tp) \in Rationals
  BY <1>2, <1>5, FracTypes
<1>8. Equal(Multiply(Minus(nc, np), rate), Minus(Multiply(k, tp), tp))
  BY <1>4, <1>6, <1>7, EqualTrans
<1> QED
  BY <1>2, <1>7, <1>8 DEF rate, k

\* workload.go: "The identity is exact", whatever the classes, counts and tokens.
LEMMA DecomposeExact ==
  ASSUME NEW previous, ValuesOK(previous), NEW current, ValuesOK(current),
         Decompose(previous, current).status # "insufficient"
  PROVE  LET d == Decompose(previous, current)
         IN  Equal(Plus(d.volume, Plus(d.mix, d.within)), d.change)
<1> DEFINE d == Decompose(previous, current)
           classes == DOMAIN previous \cup DOMAIN current
           np == Total(previous).count  nc == Total(current).count
           tp == Total(previous).tokens  tc == Total(current).tokens
           k == Over(nc, np)
           fm == [x \in classes |-> MixEffect(previous, current, x)]
           fw == [x \in classes |-> WithinEffect(previous, current, x)]
           fu == [x \in classes |-> ClassOf(current, x).tokens]
           fv == [x \in classes |-> ClassOf(previous, x).tokens]
<1>1. np.n # 0 /\ nc.n # 0
  BY DEF Decompose
<1>2. /\ d.volume = Multiply(Minus(nc, np), safeRate(Total(previous)))
      /\ d.mix = SumFrac(fm) /\ d.within = SumFrac(fw) /\ d.change = Minus(tc, tp)
  BY <1>1 DEF Decompose
<1>3. safeRate(Total(previous)) = Over(tp, np)
  BY <1>1 DEF safeRate
<1>4. np \in Amounts /\ nc \in Amounts /\ tp \in Amounts /\ tc \in Amounts
  BY TotalFacts
<1>5. np.n > 0 /\ tp \in Rationals /\ tc \in Rationals
  BY <1>1, <1>4, FracFields
<1>6. IsFiniteSet(classes)
  BY FS_Union DEF ValuesOK
<1>7. \A x \in classes : /\ fm[x] = MixEffect(previous, current, x) /\ fw[x] = WithinEffect(previous, current, x)
                         /\ fu[x] = ClassOf(current, x).tokens /\ fv[x] = ClassOf(previous, x).tokens
  OBVIOUS
<1>8. \A x : /\ Equal(Plus(MixEffect(previous, current, x), WithinEffect(previous, current, x)),
                      Minus(ClassOf(current, x).tokens, Multiply(k, ClassOf(previous, x).tokens)))
             /\ MixEffect(previous, current, x) \in Rationals /\ WithinEffect(previous, current, x) \in Rationals
  BY <1>5, ClassEffect
<1>9. \A x : ClassOf(current, x).tokens \in Rationals /\ ClassOf(previous, x).tokens \in Rationals
  <2> TAKE x
  <2>1. ClassOf(current, x).tokens \in Amounts /\ ClassOf(previous, x).tokens \in Amounts
    BY ClassFacts
  <2> QED
    BY <2>1, FracFields
<1>10. /\ fm \in [classes -> Rationals] /\ fw \in [classes -> Rationals]
       /\ fu \in [classes -> Rationals] /\ fv \in [classes -> Rationals]
  BY <1>8, <1>9
<1>11. \A x \in classes : Equal(Plus(fm[x], fw[x]), Minus(fu[x], Multiply(k, fv[x])))
  BY <1>7, <1>8
<1>12. DOMAIN previous \subseteq classes /\ DOMAIN current \subseteq classes
  OBVIOUS
<1> HIDE DEF d, np, nc, tp, tc, fm, fw, classes
<1>13. PICK m : Sums(m, fm, classes) /\ SumFrac(fm) = m[classes]
  BY <1>6, <1>10, SumOfFractions
<1>14. PICK w : Sums(w, fw, classes) /\ SumFrac(fw) = w[classes]
  BY <1>6, <1>10, SumOfFractions
<1>15. PICK u : Sums(u, fu, classes)
  <2> HIDE DEF fu
  <2> QED
    BY <1>6, <1>10, SumOfFractions
<1>16. PICK v : Sums(v, fv, classes)
  <2> HIDE DEF fv
  <2> QED
    BY <1>6, <1>10, SumOfFractions
<1>17. Equal(tc, u[classes]) /\ Equal(tp, v[classes])
  BY <1>6, <1>12, <1>15, <1>16, TotalExtended DEF tc, tp
<1> HIDE DEF fu, fv
<1>18. /\ Equal(Multiply(Minus(nc, np), Over(tp, np)), Minus(Multiply(k, tp), tp))
       /\ Multiply(Minus(nc, np), Over(tp, np)) \in Rationals /\ k \in Rationals
  BY <1>4, <1>5, VolumeEffect
<1> DEFINE volume == Multiply(Minus(nc, np), Over(tp, np))
           mix == m[classes]  within == w[classes]  uc == u[classes]  vc == v[classes]
<1>19. Equal(Plus(mix, within), Minus(uc, Multiply(k, vc)))
  <2> HIDE DEF k
  <2> QED
    BY <1>6, <1>11, <1>13, <1>14, <1>15, <1>16, <1>18, SumsAgree
<1>20. mix \in Rationals /\ within \in Rationals /\ uc \in Rationals /\ vc \in Rationals
  <2>1. classes \in SUBSET classes
    OBVIOUS
  <2> QED
    BY <2>1, <1>13, <1>14, <1>15, <1>16 DEF Sums
<1>21. d.volume = volume /\ d.mix = mix /\ d.within = within /\ d.change = Minus(tc, tp)
  BY <1>2, <1>3, <1>13, <1>14
<1>22. /\ volume \in Rationals /\ k \in Rationals /\ Equal(volume, Minus(Multiply(k, tp), tp))
       /\ Equal(tc, uc) /\ Equal(tp, vc)
  BY <1>17, <1>18
<1> HIDE DEF volume, k, mix, within, uc, vc
<1>23. /\ Multiply(k, tp) \in Rationals /\ Multiply(k, vc) \in Rationals /\ Plus(mix, within) \in Rationals
  BY <1>5, <1>20, <1>22, FracTypes
<1>24. /\ Minus(Multiply(k, tp), tp) \in Rationals /\ Minus(uc, Multiply(k, vc)) \in Rationals
       /\ Minus(tc, Multiply(k, tp)) \in Rationals /\ Minus(tc, tp) \in Rationals
  BY <1>5, <1>20, <1>23, FracTypes
<1>25. Equal(Multiply(k, vc), Multiply(k, tp)) /\ Equal(uc, tc)
  BY <1>5, <1>20, <1>22, ProductEqual, EqualRefl, EqualSym
<1>26. Equal(Minus(uc, Multiply(k, vc)), Minus(tc, Multiply(k, tp)))
  BY <1>5, <1>20, <1>23, <1>25, MinusEqual
<1>27. Equal(Plus(mix, within), Minus(tc, Multiply(k, tp)))
  BY <1>19, <1>23, <1>24, <1>26, EqualTrans
<1>28. Equal(Plus(volume, Plus(mix, within)), Plus(Minus(Multiply(k, tp), tp), Minus(tc, Multiply(k, tp))))
  BY <1>22, <1>23, <1>24, <1>27, PlusEqual
<1>29. Equal(Plus(Minus(Multiply(k, tp), tp), Minus(tc, Multiply(k, tp))), Minus(tc, tp))
  BY <1>5, <1>23, Telescope
<1>30. /\ Plus(volume, Plus(mix, within)) \in Rationals
       /\ Plus(Minus(Multiply(k, tp), tp), Minus(tc, Multiply(k, tp))) \in Rationals
  BY <1>22, <1>23, <1>24, FracTypes
<1>31. Equal(Plus(volume, Plus(mix, within)), Minus(tc, tp))
  BY <1>24, <1>28, <1>29, <1>30, EqualTrans
<1> QED
  BY <1>21, <1>31 DEF d

-----------------------------------------------------------------------------
(* The median *)

\* Multiplying by what is positive keeps the order.
LEMMA Scaled ==
  ASSUME NEW a \in Int, NEW b \in Int, NEW c \in Int, c > 0
  PROVE  a <= b <=> a * c <= b * c
<1>1. a <= b => a * c <= b * c
  OBVIOUS
<1>2. a * c <= b * c => a <= b
  OBVIOUS
<1> QED
  BY <1>1, <1>2

\* AtMost orders fractions.
LEMMA AtMostIs ==
  ASSUME NEW a \in Rationals, NEW b \in Rationals
  PROVE  AtMost(a, b) <=> a.n * b.d <= b.n * a.d
BY FracFields DEF AtMost, Less

\* Any two fractions are ordered.
LEMMA AtMostTotal ==
  ASSUME NEW a \in Rationals, NEW b \in Rationals
  PROVE  AtMost(a, a) /\ (AtMost(a, b) \/ AtMost(b, a)) /\ (Less(a, b) <=> ~AtMost(b, a)) /\ (Less(a, b) => AtMost(a, b))
BY FracFields DEF AtMost, Less

\* The order is transitive, as denominators are positive.
LEMMA AtMostTrans ==
  ASSUME NEW a \in Rationals, NEW b \in Rationals, NEW c \in Rationals, AtMost(a, b), AtMost(b, c)
  PROVE  AtMost(a, c)
<1> DEFINE an == a.n  ad == a.d  bn == b.n  bd == b.d  cn == c.n  cd == c.d
<1>1. /\ an \in Int /\ ad \in Int /\ bn \in Int /\ bd \in Int /\ cn \in Int /\ cd \in Int
      /\ ad > 0 /\ bd > 0 /\ cd > 0
  BY FracFields
<1>2. an * bd <= bn * ad /\ bn * cd <= cn * bd
  BY AtMostIs
<1> HIDE DEF an, ad, bn, bd, cn, cd
<1>3. (an * bd) * cd <= (bn * ad) * cd
  <2>1. an * bd \in Int /\ bn * ad \in Int
    BY <1>1
  <2> QED
    BY <1>1, <1>2, <2>1, Scaled
<1>4. (bn * cd) * ad <= (cn * bd) * ad
  <2>1. bn * cd \in Int /\ cn * bd \in Int
    BY <1>1
  <2> QED
    BY <1>1, <1>2, <2>1, Scaled
<1>5. (an * bd) * cd = (an * cd) * bd /\ (bn * ad) * cd = (bn * cd) * ad /\ (cn * bd) * ad = (cn * ad) * bd
  BY <1>1
<1>6. an * cd \in Int /\ cn * ad \in Int /\ (an * cd) * bd \in Int /\ (cn * ad) * bd \in Int /\ (bn * cd) * ad \in Int
  BY <1>1
<1>7. (an * cd) * bd <= (cn * ad) * bd
  BY <1>3, <1>4, <1>5, <1>6
<1>8. an * cd <= cn * ad
  BY <1>1, <1>6, <1>7, Scaled
<1> QED
  BY <1>8, AtMostIs DEF an, ad, cn, cd

\* A value of a finite function is the greatest.
LEMMA GreatestValue ==
  ASSUME NEW S, IsFiniteSet(S), NEW f \in [S -> Rationals], NEW T \in SUBSET S, T # {}
  PROVE  \E i \in T : \A j \in T : AtMost(f[j], f[i])
<1> DEFINE Has(t) == \E i \in t : \A j \in t : AtMost(f[j], f[i])
           B == {t \in SUBSET S : t # {} /\ ~Has(t)}
<1> SUFFICES ASSUME B # {} PROVE FALSE
  OBVIOUS
<1>0. B \in SUBSET (SUBSET S)
  OBVIOUS
<1>1. PICK t \in B : \A y \in SUBSET t : y # t => y \notin B
  <2> HIDE DEF B
  <2> QED
    BY <1>0, LeastSet
<1>2. t \in SUBSET S /\ t # {} /\ ~Has(t) /\ \A y \in SUBSET t : y # t => y = {} \/ Has(y)
  BY <1>1
<1>3. PICK x \in t : TRUE
  BY <1>2
<1> DEFINE r == t \ {x}
<1>4. r \in SUBSET t /\ r # t /\ x \in S
  BY <1>2, <1>3
<1>5. CASE r = {}
  <2>1. t = {x} /\ AtMost(f[x], f[x])
    BY <1>3, <1>4, <1>5, AtMostTotal
  <2> QED
    BY <1>2, <2>1
<1>6. CASE r # {}
  <2>1. Has(r)
    BY <1>2, <1>4, <1>6
  <2>2. PICK y \in r : \A j \in r : AtMost(f[j], f[y])
    BY <2>1
  <2>3. f[x] \in Rationals /\ f[y] \in Rationals /\ y \in t /\ \A j \in t : f[j] \in Rationals /\ (j = x \/ j \in r)
    BY <1>2, <1>4, <2>2
  <2> HIDE DEF r
  <2>4. CASE AtMost(f[x], f[y])
    <3>1. \A j \in t : AtMost(f[j], f[y])
      BY <2>2, <2>3, <2>4
    <3> QED
      BY <1>2, <2>3, <3>1
  <2>5. CASE AtMost(f[y], f[x])
    <3>1. \A j \in t : AtMost(f[j], f[x])
      BY <2>2, <2>3, <2>5, AtMostTrans, AtMostTotal
    <3> QED
      BY <1>2, <1>3, <3>1
  <2> QED
    BY <2>3, <2>4, <2>5, AtMostTotal
<1> QED
  BY <1>5, <1>6

\* There is a k-th smallest.
LEMMA RankExists ==
  ASSUME NEW S, IsFiniteSet(S), NEW f \in [S -> Rationals], NEW k \in 1 .. Cardinality(S)
  PROVE  \E i \in S : HasRank(f, k, i)
<1> DEFINE Below(i) == {j \in S : Less(f[j], f[i])}
           Upto(i)  == {j \in S : AtMost(f[j], f[i])}
           B == {s \in SUBSET S : Cardinality(s) >= k /\ \E i \in S : s = Upto(i)}
<1>0. B \in SUBSET (SUBSET S)
  OBVIOUS
<1>1. \A s \in SUBSET S : IsFiniteSet(s) /\ Cardinality(s) \in Nat
  BY FS_Subset, FS_CardinalityType
<1>2. Cardinality(S) \in Nat /\ k \in Nat /\ k >= 1 /\ k <= Cardinality(S)
  BY FS_CardinalityType
<1>3. S # {}
  BY <1>2, FS_EmptySet
<1>4. B # {}
  <2>1. S \in SUBSET S
    OBVIOUS
  <2>2. PICK i \in S : \A j \in S : AtMost(f[j], f[i])
    BY <1>3, <2>1, GreatestValue
  <2>3. Upto(i) = S
    BY <2>2
  <2> QED
    BY <1>2, <2>1, <2>3
<1>5. PICK s \in B : \A t \in SUBSET s : t # s => t \notin B
  <2> HIDE DEF B
  <2> QED
    BY <1>0, <1>4, LeastSet
<1>6. PICK i \in S : s = Upto(i)
  BY <1>5
<1>7. Cardinality(Upto(i)) >= k
  BY <1>5, <1>6
<1>8. ASSUME ~(Cardinality(Below(i)) < k) PROVE FALSE
  <2>1. Below(i) \in SUBSET S
    OBVIOUS
  <2>2. Cardinality(Below(i)) \in Nat /\ Cardinality(Below(i)) >= k
    BY <1>1, <1>2, <1>8, <2>1
  <2>3. Below(i) # {}
    BY <1>2, <2>2, FS_EmptySet
  <2>4. PICK j \in Below(i) : \A l \in Below(i) : AtMost(f[l], f[j])
    <3> HIDE DEF Below
    <3> QED
      BY <2>1, <2>3, GreatestValue
  <2>5. j \in S /\ Less(f[j], f[i]) /\ Below(i) \subseteq Upto(j)
    BY <2>4
  <2>6. \A l \in S : f[l] \in Rationals
    OBVIOUS
  <2>7. Upto(j) \subseteq Upto(i)
    BY <1>6, <2>5, <2>6, AtMostTrans, AtMostTotal
  <2>8. i \in Upto(i) /\ i \notin Upto(j)
    BY <1>6, <2>5, <2>6, AtMostTotal
  <2>9. Upto(j) \in SUBSET S
    OBVIOUS
  <2>10. Cardinality(Upto(j)) >= k
    <3> HIDE DEF Upto, Below
    <3>1. Cardinality(Below(i)) <= Cardinality(Upto(j)) /\ Cardinality(Upto(j)) \in Nat
      BY <1>1, <2>5, <2>9, FS_Subset
    <3> QED
      BY <1>2, <2>2, <3>1
  <2>11. Upto(j) \in B
    BY <2>5, <2>9, <2>10
  <2> QED
    BY <1>5, <1>6, <2>7, <2>8, <2>11
<1>9. DOMAIN f = S
  OBVIOUS
<1> QED
  BY <1>7, <1>8, <1>9 DEF HasRank

\* The median of amounts is an amount.
LEMMA MedianAmount ==
  ASSUME NEW S, IsFiniteSet(S), S # {}, NEW f \in [S -> Amounts]
  PROVE  Median(f) \in Amounts
<1> DEFINE n == Cardinality(S)
           middle == n \div 2
<1>1. n \in Nat /\ n # 0
  BY FS_CardinalityType, FS_EmptySet
<1>2. DOMAIN f = S /\ SampleSize(f) = n /\ f \in [S -> Rationals]
  BY FracFields DEF SampleSize
<1>3. ASSUME NEW k \in 1 .. n PROVE Ranked(f, k) \in Amounts
  <2>1. \E i \in S : HasRank(f, k, i)
    BY <1>2, <1>3, RankExists
  <2>2. (CHOOSE i \in S : HasRank(f, k, i)) \in S
    BY <2>1
  <2>3. Ranked(f, k) = f[CHOOSE i \in S : HasRank(f, k, i)]
    BY <1>2 DEF Ranked
  <2> QED
    BY <2>2, <2>3
<1>4. middle \in Nat /\ (n % 2 = 0 => middle \in 1 .. n /\ middle + 1 \in 1 .. n) /\ middle + 1 \in 1 .. n
  BY <1>1
<1>5. CASE n % 2 = 0
  <2> DEFINE sum == Plus(Ranked(f, middle), Ranked(f, middle + 1))
  <2>1. Ranked(f, middle) \in Amounts /\ Ranked(f, middle + 1) \in Amounts
    BY <1>3, <1>4, <1>5
  <2>2. sum \in Amounts
    BY <2>1, AmountTypes
  <2>3. Median(f) = Over(sum, Frac(2, 1))
    BY <1>2, <1>5 DEF Median
  <2> HIDE DEF sum
  <2>4. Frac(2, 1) \in Amounts /\ Frac(2, 1).n = 2
    BY FracFields
  <2>5. Over(sum, Frac(2, 1)) \in Amounts
    BY <2>2, <2>4, AmountTypes
  <2> QED
    BY <2>3, <2>5
<1>6. CASE n % 2 # 0
  <2>1. Median(f) = Ranked(f, middle + 1)
    BY <1>2, <1>6 DEF Median
  <2> QED
    BY <1>3, <1>4, <2>1
<1> QED
  BY <1>5, <1>6

-----------------------------------------------------------------------------
(* Effects and directions *)

\* The difference of two amounts has the sign of their order.
LEMMA MinusSign ==
  ASSUME NEW a \in Amounts, NEW b \in Amounts
  PROVE  /\ Minus(a, b) \in Rationals
         /\ Minus(a, b).n > 0 <=> Less(b, a)
         /\ Minus(a, b).n < 0 <=> Less(a, b)
<1>1. a \in Rationals /\ b \in Rationals
  BY FracFields
<1>2. Minus(a, b) \in Rationals
  BY <1>1, FracTypes
<1> DEFINE an == a.n  ad == a.d  bn == b.n  bd == b.d
<1>3. an \in Int /\ ad \in Int /\ bn \in Int /\ bd \in Int /\ ad > 0 /\ bd > 0
  BY <1>1, FracFields
<1>4. /\ Minus(a, b).n = (IF ad = bd THEN an + (-bn) ELSE an * bd + (-bn) * ad)
  BY FracFields DEF Minus, Plus
<1>5. (Less(b, a) <=> bn * ad < an * bd) /\ (Less(a, b) <=> an * bd < bn * ad)
  BY DEF Less
<1> HIDE DEF an, ad, bn, bd
<1>6. CASE ad = bd
  <2>1. (an <= bn <=> an * bd <= bn * bd) /\ (bn <= an <=> bn * bd <= an * bd)
    BY <1>3, Scaled
  <2>2. an * bd \in Int /\ bn * bd \in Int
    BY <1>3
  <2> QED
    BY <1>2, <1>3, <1>4, <1>5, <1>6, <2>1, <2>2
<1>7. CASE ad # bd
  <2>1. (-bn) * ad = -(bn * ad) /\ an * bd \in Int /\ bn * ad \in Int
    BY <1>3
  <2> QED
    BY <1>2, <1>4, <1>5, <1>7, <2>1
<1> QED
  BY <1>6, <1>7

\* The sign of a relative effect is the order of the values, whatever the baseline.
LEMMA EffectSign ==
  ASSUME NEW a \in Amounts, NEW b \in Amounts
  PROVE  LET e == relativeEffect(a, b)
         IN  /\ e.n \in Int /\ e.d \in Int /\ e.d >= 0
             /\ Sign(e) = 1 <=> Less(b, a)
             /\ Sign(e) = -1 <=> Less(a, b)
<1> DEFINE e == relativeEffect(a, b)
<1>1. a.n \in Nat /\ a.d \in Int /\ a.d > 0 /\ b.n \in Nat /\ b.d \in Int /\ b.d > 0
  BY FracFields
<1>2. (Less(b, a) <=> b.n * a.d < a.n * b.d) /\ (Less(a, b) <=> a.n * b.d < b.n * a.d)
  BY DEF Less
<1>3. CASE b.n = 0 /\ a.n = 0
  <2>1. e.n = 0 /\ e.d = 1
    BY <1>3, FracFields DEF relativeEffect, Zero
  <2>2. b.n * a.d = 0 /\ a.n * b.d = 0
    BY <1>1, <1>3
  <2> HIDE DEF e
  <2>3. e.n \in Int /\ e.d \in Int /\ e.d >= 0 /\ Sign(e) = 0
    BY <2>1 DEF Sign
  <2>4. ~Less(a, b) /\ ~Less(b, a)
    BY <1>2, <2>2
  <2> QED
    BY <2>3, <2>4 DEF e
<1>4. CASE b.n = 0 /\ a.n # 0
  <2>1. e.n = 1 /\ e.d = 0
    BY <1>4, FracFields DEF relativeEffect, Infinity
  <2>2. b.n * a.d = 0 /\ a.n * b.d > 0 /\ a.n * b.d \in Int
    <3> DEFINE an == a.n  bd == b.d
    <3>1. an \in Int /\ an > 0 /\ bd \in Int /\ bd > 0
      BY <1>1, <1>4
    <3> HIDE DEF an, bd
    <3>2. an * bd > 0 /\ an * bd \in Int
      BY <3>1
    <3> QED
      BY <1>1, <1>4, <3>2 DEF an, bd
  <2> HIDE DEF e
  <2>3. e.n \in Int /\ e.d \in Int /\ e.d >= 0 /\ Sign(e) = 1
    BY <2>1 DEF Sign
  <2>4. ~Less(a, b) /\ Less(b, a)
    BY <1>2, <2>2
  <2> QED
    BY <2>3, <2>4 DEF e
<1>5. CASE b.n # 0
  <2> DEFINE m == Minus(a, b)
  <2>1. e.n = m.n * b.d /\ e.d = m.d * b.n
    BY <1>5, FracFields DEF relativeEffect, Over
  <2>2. m \in Rationals /\ (m.n > 0 <=> Less(b, a)) /\ (m.n < 0 <=> Less(a, b))
    BY MinusSign
  <2> HIDE DEF m
  <2> DEFINE mn == m.n  md == m.d  bn == b.n  bd == b.d
  <2>3. mn \in Int /\ md \in Int /\ md > 0 /\ bn \in Int /\ bn > 0 /\ bd \in Int /\ bd > 0
    BY <1>1, <1>5, <2>2, FracFields
  <2>4. e.n = mn * bd /\ e.d = md * bn
    BY <2>1
  <2> HIDE DEF mn, md, bn, bd, e
  <2>5. e.n \in Int /\ e.d \in Int /\ e.d >= 0 /\ (e.n > 0 <=> mn > 0) /\ (e.n < 0 <=> mn < 0)
    <3>1. (mn <= 0 <=> mn * bd <= 0 * bd) /\ (0 <= mn <=> 0 * bd <= mn * bd)
      BY <2>3, Scaled
    <3>2. mn * bd \in Int /\ md * bn \in Int /\ md * bn >= 0 /\ 0 * bd = 0
      BY <2>3
    <3> QED
      BY <2>3, <2>4, <3>1, <3>2
  <2>6. (Sign(e) = 1 <=> e.n > 0) /\ (Sign(e) = -1 <=> e.n < 0)
    BY <2>5 DEF Sign
  <2> QED
    BY <2>2, <2>5, <2>6 DEF e, mn
<1> QED
  BY <1>1, <1>3, <1>4, <1>5

\* A direction is the sign of an effect beyond the threshold.
LEMMA DirectionSign ==
  ASSUME NEW a \in Amounts, NEW b \in Amounts, NEW t \in Amounts,
         relativeDirection(a, b, t) # 0
  PROVE  /\ Sign(relativeEffect(a, b)) = relativeDirection(a, b, t)
         /\ relativeDirection(a, b, t) \in {1, -1}
<1> DEFINE e == relativeEffect(a, b)
           x == e.n  y == e.d  n == t.n  d == t.d
<1>1. x \in Int /\ y \in Int /\ y >= 0
  BY EffectSign
<1>2. n \in Int /\ n >= 0 /\ d \in Int /\ d > 0
  BY FracFields
<1>3. relativeDirection(a, b, t) = (IF n * y < x * d THEN 1 ELSE IF x * d < (-n) * y THEN -1 ELSE 0)
  BY FracFields DEF relativeDirection, Less
<1>4. Sign(e) = (IF x > 0 THEN 1 ELSE IF x < 0 THEN -1 ELSE 0)
  BY DEF Sign
<1> HIDE DEF x, y, n, d
<1>5. n * y \in Int /\ n * y >= 0 /\ (-n) * y = -(n * y) /\ x * d \in Int
  BY <1>1, <1>2
<1>6. (x <= 0 <=> x * d <= 0 * d) /\ (0 <= x <=> 0 * d <= x * d) /\ 0 * d = 0
  BY <1>1, <1>2, Scaled
<1>7. CASE n * y < x * d
  <2>1. x > 0
    BY <1>1, <1>5, <1>6, <1>7
  <2> QED
    BY <1>3, <1>4, <1>7, <2>1
<1>8. CASE ~(n * y < x * d) /\ x * d < (-n) * y
  <2>1. x < 0
    BY <1>1, <1>5, <1>6, <1>8
  <2>2. ~(x > 0)
    BY <1>1, <2>1
  <2> QED
    BY <1>3, <1>4, <1>8, <2>1, <2>2
<1> QED
  BY <1>3, <1>7, <1>8

\* An effect that is better means a value that is better, by the meaning of the metric.
LEMMA BetterOrder ==
  ASSUME NEW m, NEW a \in Amounts, NEW b \in Amounts, Better(m, relativeEffect(a, b))
  PROVE  IF lowerIsBetter(m) THEN Less(a, b) ELSE Less(b, a)
BY EffectSign DEF Better

-----------------------------------------------------------------------------
(* Rows *)

\* Finitely many rows, each of a kind there is and at a time.
RowsTyped(R) == IsFiniteSet(R) /\ \A r \in R : r.kind \in DOMAIN Work /\ r.at \in Int

\* What the schema guarantees of a row.
LEMMA RowFacts ==
  ASSUME NEW R, RowsTyped(R), NEW r \in R
  PROVE  /\ \A f \in Counted : W(r)[f] \in Nat
         /\ W(r).wall # None => W(r).wall \in Nat
         /\ W(r).active \in Nat /\ Recorded(r) \in Int /\ r.at \in Int
         /\ IsFiniteSet(DOMAIN W(r).tools)
<1>1. r.kind \in DOMAIN Work /\ r.at \in Int
  BY DEF RowsTyped
<1>2. /\ \A f \in Counted : Work[r.kind][f] \in Nat
      /\ Work[r.kind].wall # None => Work[r.kind].wall \in Nat
      /\ Work[r.kind].active \in Nat /\ Work[r.kind].lag \in Int
      /\ IsFiniteSet(DOMAIN Work[r.kind].tools)
  BY <1>1, WorkAssumption
<1> QED
  BY <1>1, <1>2 DEF W, Recorded

\* A part of the rows makes sense too.
LEMMA PartTyped ==
  ASSUME NEW R, RowsTyped(R), NEW S \in SUBSET R
  PROVE  RowsTyped(S) /\ IsFiniteSet(S) /\ Cardinality(S) \in Nat
BY FS_Subset, FS_CardinalityType DEF RowsTyped

\* SUM of a column that counts is a natural number.
LEMMA SumOfType ==
  ASSUME NEW S, RowsTyped(S), NEW f \in Counted
  PROVE  SumOf(f, S) \in Nat
<1> DEFINE g == [r \in S |-> W(r)[f]]
<1>1. g \in [S -> Nat] /\ IsFiniteSet(S)
  BY RowFacts DEF RowsTyped
<1>2. SumOf(f, S) = SumFunction(g)
  BY DEF SumOf
<1> HIDE DEF g
<1> QED
  BY <1>1, <1>2, NaturalSum

\* A part of a finite set has a number of elements.
LEMMA CardinalityOfPart ==
  ASSUME NEW S, IsFiniteSet(S), NEW T \in SUBSET S
  PROVE  IsFiniteSet(T) /\ Cardinality(T) \in Nat
BY FS_Subset, FS_CardinalityType

\* What a function makes of finitely many things is finite.
LEMMA ImageFinite ==
  ASSUME NEW S, IsFiniteSet(S), NEW f
  PROVE  IsFiniteSet({f[x] : x \in S})
<1> DEFINE T == {f[x] : x \in S}
           g == [x \in S |-> f[x]]
<1>1. g \in Surjection(S, T)
  BY DEF Surjection
<1> HIDE DEF T, g
<1>2. IsFiniteSet(T)
  BY <1>1, FS_Surjection
<1> QED
  BY <1>2 DEF T

\* Finitely many rows make finitely many calls.
LEMMA CallsFinite ==
  ASSUME NEW S, RowsTyped(S)
  PROVE  IsFiniteSet(CallsOf(S))
<1> DEFINE Of(r) == {[row |-> r, call |-> n] : n \in DOMAIN W(r).tools}
           all == {Of(r) : r \in S}
<1>1. \A r \in S : IsFiniteSet(Of(r))
  <2> TAKE r \in S
  <2> DEFINE f == [n \in DOMAIN W(r).tools |-> [row |-> r, call |-> n]]
  <2>1. IsFiniteSet(DOMAIN W(r).tools)
    BY RowFacts
  <2>2. Of(r) = {f[n] : n \in DOMAIN W(r).tools}
    OBVIOUS
  <2> HIDE DEF f, Of
  <2> QED
    BY <2>1, <2>2, ImageFinite
<1>2. IsFiniteSet(all)
  <2> DEFINE f == [r \in S |-> Of(r)]
  <2> HIDE DEF Of
  <2>1. all = {f[r] : r \in S}
    OBVIOUS
  <2> HIDE DEF f, all
  <2> QED
    BY <2>1, ImageFinite DEF RowsTyped
<1>3. \A T \in all : IsFiniteSet(T)
  BY <1>1
<1>4. CallsOf(S) = UNION all
  BY DEF CallsOf
<1> HIDE DEF all
<1> QED
  BY <1>2, <1>3, <1>4, FS_UNION

\* United intervals have a length.
LEMMA UnionType ==
  ASSUME NEW S, IsFiniteSet(S), NEW all, NEW f, all = {f[r] : r \in S},
         \A r \in S : \E x, y \in Int : f[r] = Interval(x, y)
  PROVE  Union(all) \in Nat
<1>1. \A r \in S : IsFiniteSet(f[r])
  <2> TAKE r \in S
  <2>1. PICK x \in Int, y \in Int : f[r] = x .. x + y - 1
    BY DEF Interval
  <2>2. x + y - 1 \in Int
    OBVIOUS
  <2> QED
    BY <2>1, <2>2, FS_Interval
<1>2. IsFiniteSet(all)
  BY ImageFinite
<1>3. \A T \in all : IsFiniteSet(T)
  BY <1>1
<1>4. Cardinality(UNION all) \in Nat
  BY <1>2, <1>3, FS_UNION, FS_CardinalityType
<1> QED
  BY <1>4 DEF Union

-----------------------------------------------------------------------------
(* What is measured *)

\* The numbers metrics are made of.
Measures ==
  { "completedTurns", "attributedTurns", "boundaryDecisions", "boundaryViolations", "checkpoints",
    "completeCheckpoints", "totalTokens", "nonCachedInputTokens", "toolCalls", "passiveWaitCalls", "repeatedCalls",
    "toolErrors", "toolResults", "oversizedResults", "commentaryMessages", "observableMutations",
    "validatedMutations", "wallClockSeconds", "activeSeconds", "acceptedEvidence", "redactedEvidence" }

\* What the registry says of every metric.
LEMMA RegistryFacts ==
  ASSUME NEW m \in MetricNames
  PROVE  /\ registry[m].numerator \in Measures /\ registry[m].denominator \in Measures
         /\ registry[m].minimum \in Nat \ {0} /\ registry[m].practical \in Amounts
         /\ lowerIsBetter(m) <=> m \in LowerMeansBetter
<1> USE DEF MetricNames
<1>1. \A p, n, x, a, b : /\ Define(p, n, x, a, b).polarity = p /\ Define(p, n, x, a, b).minimum = n
                         /\ Define(p, n, x, a, b).practical = Frac(x, 100)
                         /\ Define(p, n, x, a, b).numerator = a /\ Define(p, n, x, a, b).denominator = b
  BY DEF Define
<1>2. \A x \in Nat : Frac(x, 100) \in Amounts
  BY FracFields
<1>3. DOMAIN registry =
        { "scope_attribution_coverage", "boundary_violation_rate", "checkpoint_completeness", "tokens_per_turn",
          "non_cached_input_per_turn", "passive_waits_per_100_tool_calls", "oversized_outputs_per_100_tool_results",
          "repeated_calls_per_100_tool_calls", "commentary_per_turn", "wall_clock_runtime_per_turn",
          "active_runtime_per_turn", "tool_error_rate", "validation_presence", "privacy_redaction_coverage" }
  BY DEF registry
<1>4. registry[m].numerator \in Measures /\ registry[m].denominator \in Measures
  BY <1>1, <1>3 DEF registry, Measures
<1>5. registry[m].minimum \in Nat \ {0} /\ registry[m].practical \in Amounts
  BY <1>1, <1>2, <1>3 DEF registry
<1>6. registry[m].polarity = "lower" \/ m = "tool_error_rate" <=> m \in LowerMeansBetter
  BY <1>1, <1>3 DEF registry, LowerMeansBetter, PerHundred
<1> QED
  BY <1>4, <1>5, <1>6 DEF lowerIsBetter

\* Whatever is measured of finitely many rows is a number.
LEMMA TallyTyped ==
  ASSUME NEW turns, RowsTyped(turns), NEW known, RowsTyped(known), NEW calls, IsFiniteSet(calls),
         NEW usage, RowsTyped(usage), NEW events, RowsTyped(events), NEW evidence, RowsTyped(evidence)
  PROVE  \A f \in Measures : Tally(turns, known, calls, usage, events, evidence)[f] \in Nat
<1> DEFINE i == Tally(turns, known, calls, usage, events, evidence)
           epochs == {r \in usage : W(r).mutates}
           ended  == {t \in turns : W(t).wall # None}
           phases == {u \in usage : W(u).phased}
<1>1. /\ IsFiniteSet(turns) /\ IsFiniteSet(known) /\ IsFiniteSet(usage) /\ IsFiniteSet(events)
      /\ IsFiniteSet(evidence) /\ IsFiniteSet(epochs)
  BY CardinalityOfPart DEF RowsTyped
<1>2. \A S : IsFiniteSet(S) => \A T \in SUBSET S : Cardinality(T) \in Nat
  BY CardinalityOfPart
<1>3. /\ i.completedTurns \in Nat /\ i.attributedTurns \in Nat
  BY <1>1, <1>2 DEF Tally
<1>4. /\ i.boundaryDecisions \in Nat /\ i.boundaryViolations \in Nat /\ i.checkpoints \in Nat /\ i.completeCheckpoints \in Nat
  BY <1>1, <1>2 DEF Tally
<1>5. /\ i.toolCalls \in Nat /\ i.passiveWaitCalls \in Nat /\ i.repeatedCalls \in Nat /\ i.toolErrors \in Nat
  BY <1>1, <1>2 DEF Tally
<1>6. i.observableMutations \in Nat /\ i.validatedMutations \in Nat
  BY <1>1, <1>2 DEF Tally
<1>7. i.acceptedEvidence \in Nat /\ i.redactedEvidence \in Nat
  BY <1>1, <1>2 DEF Tally
<1>8. /\ i.totalTokens \in Nat /\ i.nonCachedInputTokens \in Nat /\ i.toolResults \in Nat
      /\ i.oversizedResults \in Nat /\ i.commentaryMessages \in Nat
  <2>1. /\ SumOf("tokens", usage) \in Nat /\ SumOf("nonCached", usage) \in Nat /\ SumOf("results", known) \in Nat
        /\ SumOf("oversized", known) \in Nat /\ SumOf("commentary", known) \in Nat
    BY SumOfType DEF Counted
  <2> QED
    BY <2>1 DEF Tally
<1>9. i.wallClockSeconds \in Nat
  <2> DEFINE f == [r \in ended |-> Interval(r.at, W(r).wall)]
             all == {Interval(r.at, W(r).wall) : r \in ended}
  <2>1. i.wallClockSeconds = Union(all)
    BY DEF Tally
  <2>2. all = {f[r] : r \in ended}
    OBVIOUS
  <2>3. \A r \in turns : r.at \in Int /\ (W(r).wall # None => W(r).wall \in Nat)
    BY RowFacts
  <2>4. \A r \in ended : r.at \in Int /\ W(r).wall \in Int
    BY <2>3
  <2>5. \A r \in ended : f[r] = Interval(r.at, W(r).wall)
    OBVIOUS
  <2>6. IsFiniteSet(ended)
    BY <1>1, CardinalityOfPart
  <2> HIDE DEF f, all, ended
  <2>7. \A r \in ended : \E x, y \in Int : f[r] = Interval(x, y)
    BY <2>4, <2>5
  <2> QED
    BY <2>1, <2>2, <2>6, <2>7, UnionType
<1>10. i.activeSeconds \in Nat
  <2> DEFINE f == [r \in phases |-> Interval(Recorded(r), W(r).active)]
             all == {Interval(Recorded(r), W(r).active) : r \in phases}
  <2>1. i.activeSeconds = Union(all)
    BY DEF Tally
  <2>2. all = {f[r] : r \in phases}
    OBVIOUS
  <2>3. \A r \in usage : Recorded(r) \in Int /\ W(r).active \in Nat
    BY RowFacts
  <2>4. \A r \in phases : Recorded(r) \in Int /\ W(r).active \in Int
    BY <2>3
  <2>5. \A r \in phases : f[r] = Interval(Recorded(r), W(r).active)
    OBVIOUS
  <2>6. IsFiniteSet(phases)
    BY <1>1, CardinalityOfPart
  <2> HIDE DEF f, all, phases
  <2>7. \A r \in phases : \E x, y \in Int : f[r] = Interval(x, y)
    BY <2>4, <2>5
  <2> QED
    BY <2>1, <2>2, <2>6, <2>7, UnionType
<1> HIDE DEF i
<1>11. \A f \in Measures : i[f] \in Nat
  BY <1>3, <1>4, <1>5, <1>6, <1>7, <1>8, <1>9, <1>10 DEF Measures
<1> QED
  BY <1>11 DEF i

\* The measures of a request, whatever its scope and window.
LEMMA MetricsTyped ==
  ASSUME NEW R, RowsTyped(R), NEW q
  PROVE  \A f \in Measures : metrics(R, q)[f] \in Nat
<1> DEFINE turns == Turns(R, q)
           known == Known(q, turns)
           usage == {r \in Observed(R, q) : W(r).traj # None}
           events == IF Narrow(q) THEN {} ELSE Observed(R, q)
           evidence == evidenceScope(R, q)
<1>1. turns \in SUBSET R
  BY DEF Turns, Happened
<1>2. known \in SUBSET turns
  BY DEF Known
<1>3. usage \in SUBSET R /\ events \in SUBSET R /\ evidence \in SUBSET R
  BY DEF Observed, evidenceScope
<1>4. metrics(R, q) = Tally(turns, known, CallsOf(known), usage, events, evidence)
  BY DEF metrics
<1> HIDE DEF turns, known, usage, events, evidence
<1>5. RowsTyped(turns) /\ RowsTyped(known) /\ RowsTyped(usage) /\ RowsTyped(events) /\ RowsTyped(evidence)
  BY <1>1, <1>2, <1>3, PartTyped
<1>6. IsFiniteSet(CallsOf(known))
  BY <1>5, CallsFinite
<1> QED
  BY <1>4, <1>5, <1>6, TallyTyped

\* A metric that has a value has one that is not negative.
LEMMA RatioTyped ==
  ASSUME NEW m \in MetricNames, NEW i, \A f \in Measures : i[f] \in Nat, ratio(m, i).value # None
  PROVE  ratio(m, i).value \in Amounts
<1> DEFINE sample == i[registry[m].denominator]
           n == i[registry[m].numerator]
           scale == IF m \in PerHundred THEN 100 ELSE 1
<1>1. sample \in Nat /\ n \in Nat /\ scale \in Nat /\ registry[m].minimum \in Nat \ {0}
  BY RegistryFacts
<1>2. sample >= registry[m].minimum /\ ratio(m, i).value = Frac(n * scale, sample)
  BY DEF ratio
<1> HIDE DEF sample, n, scale
<1>3. sample \in Nat \ {0} /\ n * scale \in Nat
  BY <1>1, <1>2
<1> QED
  BY <1>2, <1>3, FracFields

\* The turns and tokens of the classes.
LEMMA SharesTyped ==
  ASSUME NEW turns, RowsTyped(turns), NEW tokens, \A t \in Trajectories(turns) : tokens[t] \in Nat
  PROVE  ValuesOK(ClassShares(turns, tokens))
<1> DEFINE values == ClassShares(turns, tokens)
           classes == {WorkloadClass(r) : r \in turns}
           Of(t, c) == {r \in turns : W(r).traj = t /\ WorkloadClass(r) = c}
           In(t) == {r \in turns : W(r).traj = t}
           All(c) == {r \in turns : WorkloadClass(r) = c}
           parts(c) == [t \in Trajectories(turns) |-> Frac(tokens[t] * Cardinality(Of(t, c)), Cardinality(In(t)))]
<1>0. IsFiniteSet(turns)
  BY DEF RowsTyped
<1>1. DOMAIN values = classes
  BY DEF ClassShares
<1>2. \A c \in classes : values[c].count = Frac(Cardinality(All(c)), 1) /\ values[c].tokens = SumFrac(parts(c))
  BY DEF ClassShares
<1>3. IsFiniteSet(classes)
  <2> DEFINE f == [r \in turns |-> WorkloadClass(r)]
  <2>1. classes = {f[r] : r \in turns}
    OBVIOUS
  <2> HIDE DEF f, classes
  <2> QED
    BY <1>0, <2>1, ImageFinite
<1>4. IsFiniteSet(Trajectories(turns))
  <2> DEFINE f == [r \in turns |-> W(r).traj]
             all == {f[r] : r \in turns}
  <2>1. Trajectories(turns) \in SUBSET all
    BY DEF Trajectories
  <2>2. IsFiniteSet(all)
    <3> HIDE DEF f
    <3> QED
      BY <1>0, ImageFinite
  <2> HIDE DEF all
  <2> QED
    BY <2>1, <2>2, CardinalityOfPart
<1>5. ASSUME NEW S \in SUBSET turns PROVE Cardinality(S) \in Nat /\ (S # {} => Cardinality(S) \in Nat \ {0})
  <2>1. IsFiniteSet(S) /\ Cardinality(S) \in Nat
    BY <1>0, CardinalityOfPart
  <2>2. S # {} => Cardinality(S) # 0
    BY <2>1, FS_EmptySet
  <2> QED
    BY <2>1, <2>2
<1>6. ASSUME NEW c \in classes PROVE values[c].count \in Amounts /\ values[c].count.n > 0
  <2>1. All(c) \in SUBSET turns /\ All(c) # {}
    OBVIOUS
  <2> DEFINE n == Cardinality(All(c))
  <2> HIDE DEF All
  <2>2. n \in Nat \ {0}
    BY <1>5, <2>1
  <2> HIDE DEF n
  <2>3. Frac(n, 1) \in Amounts /\ Frac(n, 1).n = n /\ n > 0
    BY <2>2, FracFields
  <2> QED
    BY <1>2, <2>3 DEF n, All
<1>7. ASSUME NEW c \in classes PROVE values[c].tokens \in Amounts
  <2>1. ASSUME NEW t \in Trajectories(turns) PROVE Frac(tokens[t] * Cardinality(Of(t, c)), Cardinality(In(t))) \in Amounts
    <3>1. Of(t, c) \in SUBSET turns /\ In(t) \in SUBSET turns /\ In(t) # {}
      BY DEF Trajectories
    <3> DEFINE x == tokens[t]  n == Cardinality(Of(t, c))  d == Cardinality(In(t))
    <3> HIDE DEF Of, In
    <3>2. x \in Nat /\ n \in Nat /\ d \in Nat \ {0}
      BY <1>5, <3>1
    <3> HIDE DEF x, n, d
    <3>3. x * n \in Nat
      BY <3>2
    <3>4. Frac(x * n, d) \in Amounts
      BY <3>2, <3>3, FracFields
    <3> QED
      BY <3>4 DEF x, n, d
  <2>2. parts(c) \in [Trajectories(turns) -> Amounts]
    BY <2>1
  <2> DEFINE p == parts(c)
  <2> HIDE DEF parts
  <2>3. p \in [Trajectories(turns) -> Amounts]
    BY <2>2
  <2> HIDE DEF p
  <2>4. SumFrac(p) \in Amounts
    BY <1>4, <2>3, SumOfAmounts
  <2> QED
    BY <1>2, <2>4 DEF p
<1> HIDE DEF values, classes
<1>8. ValuesOK(values)
  BY <1>1, <1>3, <1>6, <1>7 DEF ValuesOK
<1> QED
  BY <1>8 DEF values

\* The workload of a request, whatever its scope and window.
LEMMA WorkloadTyped ==
  ASSUME NEW R, RowsTyped(R), NEW q
  PROVE  ValuesOK(workloadValues(R, q))
<1> DEFINE turns == Turns(R, q)
           Of(t) == {r \in R : W(r).traj = t /\ InWindow(q, Recorded(r))}
           tokens == [t \in Trajectories(turns) |-> SumOf("tokens", Of(t))]
<1>1. turns \in SUBSET R
  BY DEF Turns, Happened
<1>2. RowsTyped(turns)
  BY <1>1, PartTyped
<1>3. \A t : SumOf("tokens", Of(t)) \in Nat
  <2> TAKE t
  <2>1. Of(t) \in SUBSET R
    OBVIOUS
  <2> HIDE DEF Of
  <2>2. RowsTyped(Of(t))
    BY <2>1, PartTyped
  <2> QED
    BY <2>2, SumOfType DEF Counted
<1>4. \A t \in Trajectories(turns) : tokens[t] \in Nat
  BY <1>3
<1>5. workloadValues(R, q) = ClassShares(turns, tokens)
  BY DEF workloadValues, ClassValues
<1> HIDE DEF turns, tokens
<1> QED
  BY <1>2, <1>4, <1>5, SharesTyped

\* The content of an audit decomposes the workload exactly.
LEMMA ContentExact ==
  ASSUME NEW R, RowsTyped(R), NEW q, NEW windows, NEW d \in Content(R, q, windows).snapshot.workload,
         d.status # "insufficient"
  PROVE  Equal(Plus(d.volume, Plus(d.mix, d.within)), d.change)
<1> DEFINE s == Snapshot(R, q, windows)
           previous == workloadValues(R, Prior(q, 1))
           current == workloadValues(R, q)
<1>1. Content(R, q, windows).snapshot = s
  BY DEF Content, Run, Engine
<1>2. s.workload \in {{Decompose(previous, current)}, {}}
  BY DEF Snapshot, SnapshotOf
<1>3. d = Decompose(previous, current)
  BY <1>1, <1>2
<1>4. ValuesOK(previous) /\ ValuesOK(current)
  BY WorkloadTyped
<1> HIDE DEF previous, current
<1> QED
  BY <1>3, <1>4, DecomposeExact

-----------------------------------------------------------------------------
(* What is compared *)

\* What is put after nothing is itself.
LEMMA AfterNothing ==
  ASSUME NEW f, f = [n \in 1 .. 29 |-> f[n]], NEW n \in 1 .. 29
  PROVE  (<< >> \o f)[n] = f[n]
<1> DEFINE S == {f[k] : k \in 1 .. 29}
<1>1. f \in [1 .. 29 -> S]
  OBVIOUS
<1>2. f \in Seq(S)
  BY <1>1
<1>3. << >> \o f = f
  BY <1>2, ConcatEmptySeq
<1> QED
  BY <1>3

\* The values of an earlier window are those of its rows.
LEMMA WindowValues ==
  ASSUME NEW R, RowsTyped(R), NEW q, NEW n \in 1 .. 29, NEW m \in MetricNames
  PROVE  LET v == priorWindows(R, q)[n].values[m] IN v # None => v \in Amounts
<1>1. PICK f : /\ f = [k \in 1 .. 29 |-> f[k]]
               /\ priorWindows(R, q) = << >> \o f
               /\ \A k \in 1 .. 29 : f[k].values = [x \in MetricNames |-> Compute(metrics(R, Prior(q, k)))[x].value]
  <2> DEFINE results(k) == Compute(metrics(R, Prior(q, k)))
             f == [k \in 1 .. 29 |->
                     [ values     |-> [x \in MetricNames |-> results(k)[x].value],
                       coverage   |-> metrics(R, Prior(q, k)).coverage,
                       comparable |-> dimensionSignature(R, Prior(q, k)) = dimensionSignature(R, q),
                       guardrailsPass |-> guardrailsPass(results(k)),
                       valid      |-> ~invalidInput(metrics(R, Prior(q, k))) ]]
  <2>1. priorWindows(R, q) = << >> \o f
    BY DEF priorWindows
  <2>2. \A k \in 1 .. 29 : f[k].values = [x \in MetricNames |-> results(k)[x].value]
    OBVIOUS
  <2>3. f = [k \in 1 .. 29 |-> f[k]]
    OBVIOUS
  <2> HIDE DEF f
  <2> QED
    BY <2>1, <2>2, <2>3
<1>2. priorWindows(R, q)[n] = f[n]
  BY <1>1, AfterNothing
<1>3. priorWindows(R, q)[n].values[m] = ratio(m, metrics(R, Prior(q, n))).value
  BY <1>1, <1>2 DEF Compute
<1>4. \A x \in Measures : metrics(R, Prior(q, n))[x] \in Nat
  BY MetricsTyped
<1> QED
  BY <1>3, <1>4, RatioTyped

\* A comparison of amounts.
ComparesAmounts(s, m) ==
  /\ \A n \in ComparedWindows : s.windows[n].values[m] # None => s.windows[n].values[m] \in Amounts
  /\ ratio(m, s.input).value # None => ratio(m, s.input).value \in Amounts

\* The earlier windows a metric is compared with have amounts, finitely many.
LEMMA RollingTyped ==
  ASSUME NEW s, NEW m, ComparesAmounts(s, m)
  PROVE  LET f == RollingOf(comparisons(s, m))
         IN  IsFiniteSet(DOMAIN f) /\ f \in [DOMAIN f -> Amounts]
<1> DEFINE c == comparisons(s, m)
<1>1. /\ c.rolling = [k \in 1 .. 7 |-> [ value |-> s.windows[k + 1].values[m], coverage |-> s.windows[k + 1].coverage,
                      comparable |-> s.windows[k + 1].comparable, guardrailsPass |-> s.windows[k + 1].guardrailsPass ]]
      /\ c.seasonal = [k \in 1 .. 4 |-> [ value |-> s.windows[7 * k].values[m], coverage |-> s.windows[7 * k].coverage,
                      comparable |-> s.windows[7 * k].comparable, guardrailsPass |-> s.windows[7 * k].guardrailsPass ]]
  BY DEF comparisons
<1>2. /\ DOMAIN c.rolling = 1 .. 7 /\ \A k \in 1 .. 7 : c.rolling[k].value = s.windows[k + 1].values[m]
      /\ DOMAIN c.seasonal = 1 .. 4 /\ \A k \in 1 .. 4 : c.seasonal[k].value = s.windows[7 * k].values[m]
  BY <1>1
<1>3. /\ \A k \in 1 .. 7 : k + 1 \in ComparedWindows
      /\ \A k \in 1 .. 4 : 7 * k \in ComparedWindows
  BY DEF ComparedWindows
<1>4. /\ \A k \in DOMAIN c.rolling : c.rolling[k].value # None => c.rolling[k].value \in Amounts
      /\ \A k \in DOMAIN c.seasonal : c.seasonal[k].value # None => c.seasonal[k].value \in Amounts
  BY <1>2, <1>3 DEF ComparesAmounts
<1> HIDE DEF c
<1>5. IsFiniteSet(DOMAIN c.rolling) /\ IsFiniteSet(DOMAIN c.seasonal)
  <2>1. \A n \in Int : IsFiniteSet(1 .. n)
    BY FS_Interval
  <2>2. 7 \in Int /\ 4 \in Int
    OBVIOUS
  <2> QED
    BY <1>2, <2>1, <2>2, Zenon
<1>6. ASSUME NEW w, IsFiniteSet(DOMAIN w), \A k \in DOMAIN w : w[k].value # None => w[k].value \in Amounts
      PROVE  LET f == compatibleValues(w) IN IsFiniteSet(DOMAIN f) /\ f \in [DOMAIN f -> Amounts]
  <2> DEFINE S == {n \in DOMAIN w : compatible(w[n])}
  <2>1. compatibleValues(w) = [n \in S |-> w[n].value]
    BY DEF compatibleValues
  <2>2. \A n \in S : w[n].value \in Amounts
    BY <1>6 DEF compatible
  <2>3. IsFiniteSet(S)
    BY <1>6, CardinalityOfPart
  <2> HIDE DEF S
  <2> QED
    BY <2>1, <2>2, <2>3
<1>7. RollingOf(c) \in {compatibleValues(c.rolling), compatibleValues(c.seasonal)}
  BY DEF RollingOf
<1>8. LET f == RollingOf(c) IN IsFiniteSet(DOMAIN f) /\ f \in [DOMAIN f -> Amounts]
  BY <1>4, <1>5, <1>6, <1>7
<1> QED
  BY <1>8 DEF c

\* The median of three or more amounts, however they are indexed.
LEMMA MedianOf ==
  ASSUME NEW f, IsFiniteSet(DOMAIN f), f \in [DOMAIN f -> Amounts], SampleSize(f) >= 3
  PROVE  Median(f) \in Amounts
<1>1. DOMAIN f # {}
  BY FS_EmptySet DEF SampleSize
<1> QED
  BY <1>1, MedianAmount

\* What the status "improved" rests on.
LEMMA ImprovedFacts ==
  ASSUME NEW s, NEW m \in MetricNames, ComparesAmounts(s, m),
         Apply(m, ratio(m, s.input), comparisons(s, m)).status = "improved"
  PROVE  LET value == ratio(m, s.input).value
             c == comparisons(s, m)
         IN  /\ SampleSize(RollingOf(c)) >= 3 /\ BetterThan(m, value, Median(RollingOf(c)))
             /\ BetterThan(m, value, c.previous.value) /\ BetterThan(m, c.previous.value, c.rolling[1].value)
             /\ c.previous.comparable /\ c.previous.guardrailsPass
             /\ registry[m].polarity # "contextual"
<1> DEFINE result == ratio(m, s.input)
           value == result.value
           c == comparisons(s, m)
           rolling == RollingOf(c)
           median == Median(rolling)
           before == c.previous.value
           older == c.rolling[1].value
           t == registry[m].practical
           noise == Noise(t, rolling)
           ep == relativeEffect(value, before)
           er == relativeEffect(value, median)
<1>1. /\ value # None /\ compatible(c.previous) /\ ~(SampleSize(rolling) < 3) /\ c.previous.guardrailsPass
      /\ Judge(m, value, c).status = "improved"
  BY DEF Apply, Status
<1>2. Judge(m, value, c) = Weigh(m, ep, er, noise, c)
  BY DEF Judge
<1>3. /\ c.persistence = persistenceState(value, before, older, t)
      /\ before = s.windows[1].values[m] /\ older = s.windows[2].values[m]
  BY DEF comparisons
<1>4. IsFiniteSet(DOMAIN rolling) /\ rolling \in [DOMAIN rolling -> Amounts]
  BY RollingTyped
<1>5. 1 \in ComparedWindows /\ 2 \in ComparedWindows
  BY DEF ComparedWindows
<1>6. value \in Amounts /\ before \in Amounts /\ (older # None => older \in Amounts) /\ t \in Amounts
  BY <1>1, <1>3, <1>5, RegistryFacts DEF ComparesAmounts, compatible
<1>7. SampleSize(rolling) >= 3
  <2>1. SampleSize(rolling) \in Nat
    BY <1>4, FS_CardinalityType DEF SampleSize
  <2> QED
    BY <1>1, <2>1
<1> HIDE DEF rolling
<1>8. median \in Amounts
  BY <1>4, <1>7, MedianOf
<1> HIDE DEF result, value, c, median, before, older, t, noise
<1>9. /\ ~signsConflict(ep, er) /\ registry[m].polarity # "contextual"
      /\ ~(c.persistence.count < 2) /\ Better(m, er)
  BY <1>1, <1>2 DEF Weigh, Status
<1> DEFINE recent == relativeDirection(value, before, t)
           prior == relativeDirection(before, older, t)
<1>10. /\ older # None /\ recent # 0 /\ recent = prior
  BY <1>3, <1>9 DEF persistenceState
<1>11. older \in Amounts
  BY <1>6, <1>10
<1>12. Sign(ep) = recent /\ recent \in {1, -1}
  BY <1>6, <1>10, DirectionSign
<1>13. Sign(relativeEffect(before, older)) = prior
  BY <1>6, <1>10, <1>11, DirectionSign
<1> DEFINE good == IF lowerIsBetter(m) THEN -1 ELSE 1
<1>14. Sign(er) = good /\ good \in {1, -1}
  BY <1>9 DEF Better
<1>15. Sign(ep) = good
  <2> DEFINE x == Sign(ep)  y == Sign(er)
  <2>1. x * y # -1
    BY <1>9 DEF signsConflict
  <2>2. x \in {1, -1} /\ y \in {1, -1} /\ y = good
    BY <1>12, <1>14
  <2> HIDE DEF x, y, good
  <2>3. x = y
    BY <2>1, <2>2
  <2> QED
    BY <2>2, <2>3 DEF x
<1>16. Better(m, er) /\ Better(m, ep) /\ Better(m, relativeEffect(before, older))
  BY <1>9, <1>10, <1>12, <1>13, <1>15 DEF Better
<1>17. \A a, b \in Amounts : Better(m, relativeEffect(a, b)) => BetterThan(m, a, b)
  BY BetterOrder, RegistryFacts DEF BetterThan
<1>18. BetterThan(m, value, median) /\ BetterThan(m, value, before) /\ BetterThan(m, before, older)
  BY <1>6, <1>8, <1>11, <1>16, <1>17
<1>19. c.previous.comparable
  BY <1>1 DEF compatible
<1> QED
  BY <1>1, <1>7, <1>9, <1>18, <1>19 DEF result, value, c, median, before, older, rolling

\* An audit says "improved" only of what is better.
LEMMA ContentImproved ==
  ASSUME NEW R, RowsTyped(R), NEW q, NEW k, k = Content(R, q, priorWindows(R, q)), NEW m \in MetricNames,
         k.results[m].status.status = "improved"
  PROVE  LET value == k.results[m].value
             c == comparisons(k.snapshot, m)
         IN  /\ SampleSize(RollingOf(c)) >= 3 /\ BetterThan(m, value, Median(RollingOf(c)))
             /\ BetterThan(m, value, c.previous.value) /\ BetterThan(m, c.previous.value, c.rolling[1].value)
             /\ c.previous.comparable /\ c.previous.guardrailsPass
             /\ registry[m].polarity # "contextual"
<1> DEFINE windows == priorWindows(R, q)
           s == Snapshot(R, q, windows)
<1>1. /\ k.snapshot = s
      /\ k.results = Reported(s, Compute(s.input))
  BY DEF Content, Run, Engine
<1>2. /\ s.windows = [n \in ComparedWindows |-> windows[n]]
      /\ s.input \in {metrics(R, q), Suppressed(metrics(R, q))}
  BY DEF Snapshot, SnapshotOf
<1>3. \A x : DOMAIN Suppressed(x) = DOMAIN x /\ \A f \in Measures : Suppressed(x)[f] = x[f]
  BY DEF Suppressed, Measures
<1>4. \A f \in Measures : metrics(R, q)[f] \in Nat
  BY MetricsTyped
<1>5. \A f \in Measures : s.input[f] \in Nat
  BY <1>2, <1>3, <1>4
<1>6. \A n \in 1 .. 29 : windows[n].values[m] # None => windows[n].values[m] \in Amounts
  BY WindowValues
<1>7. ComparedWindows \subseteq 1 .. 29
  BY DEF ComparedWindows
<1> HIDE DEF windows
<1>8. \A n \in ComparedWindows : s.windows[n] = windows[n]
  BY <1>2
<1> HIDE DEF s
<1>9. ComparesAmounts(s, m)
  BY <1>5, <1>6, <1>7, <1>8, RatioTyped DEF ComparesAmounts
<1>10. /\ k.results[m].value = ratio(m, s.input).value
       /\ k.results[m].status = Apply(m, ratio(m, s.input), comparisons(s, m))
  BY <1>1 DEF Reported, Compute
<1> QED
  BY <1>1, <1>9, <1>10, ImprovedFacts

-----------------------------------------------------------------------------
(* Stored audits are exact and do not flatter *)

\* What WorkloadExact and ImprovedIsBetter ask of the content of a revision.
Exact(k) ==
  \A d \in k.snapshot.workload : d.status # "insufficient" => Equal(Plus(d.volume, Plus(d.mix, d.within)), d.change)

Deserved(k) ==
  \A m \in {n \in MetricNames : k.results[n].status.status = "improved"} :
    \A value \in {k.results[m].value}, c \in {comparisons(k.snapshot, m)} :
      /\ \A rolling \in {RollingOf(c)} : SampleSize(rolling) >= 3 /\ BetterThan(m, value, Median(rolling))
      /\ BetterThan(m, value, c.previous.value) /\ BetterThan(m, c.previous.value, c.rolling[1].value)
      /\ c.previous.comparable /\ c.previous.guardrailsPass
      /\ registry[m].polarity # "contextual"

ContentsInv == RowsTyped(rows) /\ \A v \in revisions : Exact(v.content) /\ Deserved(v.content)

\* What an audit makes of rows that make sense is exact and deserved.
LEMMA ContentGood ==
  ASSUME NEW R, RowsTyped(R), NEW q, NEW k, k = Content(R, q, priorWindows(R, q))
  PROVE  Exact(k) /\ Deserved(k)
<1>1. Exact(k)
  BY ContentExact DEF Exact
<1>2. ASSUME NEW m \in MetricNames, k.results[m].status.status = "improved",
             NEW value, value = k.results[m].value, NEW c, c = comparisons(k.snapshot, m)
      PROVE  /\ \A rolling \in {RollingOf(c)} : SampleSize(rolling) >= 3 /\ BetterThan(m, value, Median(rolling))
             /\ BetterThan(m, value, c.previous.value) /\ BetterThan(m, c.previous.value, c.rolling[1].value)
             /\ c.previous.comparable /\ c.previous.guardrailsPass
             /\ registry[m].polarity # "contextual"
  <2>1. /\ SampleSize(RollingOf(c)) >= 3 /\ BetterThan(m, value, Median(RollingOf(c)))
        /\ BetterThan(m, value, c.previous.value) /\ BetterThan(m, c.previous.value, c.rolling[1].value)
        /\ c.previous.comparable /\ c.previous.guardrailsPass
        /\ registry[m].polarity # "contextual"
    BY <1>2, ContentImproved
  <2> QED
    BY <2>1
<1>3. Deserved(k)
  BY <1>2 DEF Deserved
<1> QED
  BY <1>1, <1>3

\* At first nothing is stored and the rows are those of a history.
LEMMA InitContents == Init => ContentsInv
BY RowAssumption DEF Init, ContentsInv, RowsTyped

\* A step keeps rows that make sense, and stores no content but that of an audit.
LEMMA NextContents == AuditInv /\ ContentsInv /\ [Next]_vars => ContentsInv'
<1> SUFFICES ASSUME AuditInv, ContentsInv, [Next]_vars PROVE ContentsInv'
  OBVIOUS
<1>0. ASSUME revisions' = revisions, rows' = rows PROVE ContentsInv'
  BY <1>0 DEF ContentsInv
<1>1. ASSUME NEW q \in Requests, AuditProject(q) PROVE ContentsInv'
  <2>1. PICK v, windows :
           /\ v.content = Content(rows, q, windows) /\ windows = priorWindows(rows, q)
           /\ revisions' = {w \in revisions : <<w.key, w.num>> # <<v.key, v.num>>} \cup {v}
           /\ UNCHANGED <<rows, versions>>
    BY <1>1, AuditFacts DEF AuditInv
  <2>2. v.content = Content(rows, q, priorWindows(rows, q)) /\ RowsTyped(rows)
    BY <2>1 DEF ContentsInv
  <2>3. Exact(v.content) /\ Deserved(v.content)
    BY <2>2, ContentGood
  <2>4. \A w \in revisions' : Exact(w.content) /\ Deserved(w.content)
    BY <2>1, <2>3 DEF ContentsInv
  <2> QED
    BY <2>1, <2>2, <2>4 DEF ContentsInv
<1>2. ASSUME NEW a \in Arrivals, Collect(a) PROVE ContentsInv'
  <2> DEFINE r == [kind |-> a.kind, at |-> a.at, overhead |-> W(a).governance /\ \E v \in revisions : v.project = ProjectOf[W(a).session]]
  <2>1. rows' = rows \cup {r} /\ revisions' = revisions
    BY <1>2 DEF Collect
  <2>2. r.kind \in DOMAIN Work /\ r.at \in Int
    BY RowAssumption
  <2> HIDE DEF r
  <2>3. IsFiniteSet(rows \cup {r})
    BY FS_AddElement DEF ContentsInv, RowsTyped
  <2>4. RowsTyped(rows')
    BY <2>1, <2>2, <2>3 DEF ContentsInv, RowsTyped
  <2> QED
    BY <2>1, <2>4 DEF ContentsInv
<1>3. ASSUME NEW i, NEW id, NEW at, ChangeVersion(i, id, at) PROVE ContentsInv'
  BY <1>0, <1>3 DEF ChangeVersion
<1>4. ASSUME NEW r \in recs, NEW state, NEW at \in FeedbackTimes, GiveFeedback(r, state, at, at + Cooldown)
      PROVE  ContentsInv'
  BY <1>0, <1>4 DEF GiveFeedback
<1>5. CASE UNCHANGED vars
  BY <1>0, <1>5 DEF vars
<1> QED
  BY <1>1, <1>2, <1>3, <1>4, <1>5 DEF Next

\* What is stored of every audit is exact and deserved.
LEMMA ContentsHold == Spec => []ContentsInv
<1>1. ContentsInv /\ AuditInv /\ [Next]_vars => ContentsInv'
  BY NextContents
<1> QED
  BY <1>1, InitContents, GovernanceInvariant, PTL DEF Spec

\* workload.go: "The identity is exact": in every revision ever stored the effects of
\* volume, mix and rates add up to the change of the tokens, for any number of classes,
\* turns and tokens.
THEOREM GovernanceWorkloadExact == Spec => []WorkloadExact
<1>1. ContentsInv => WorkloadExact
  BY DEF ContentsInv, Exact, WorkloadExact
<1> QED
  BY <1>1, ContentsHold, PTL

\* docs/metrics.md: no revision calls a metric improved unless it is better than the
\* median of three or more comparable windows and has moved that way twice in a row.
THEOREM GovernanceImprovedIsBetter == Spec => []ImprovedIsBetter
<1>1. ContentsInv => ImprovedIsBetter
  BY DEF ContentsInv, Deserved, ImprovedIsBetter
<1> QED
  BY <1>1, ContentsHold, PTL
=============================================================================
