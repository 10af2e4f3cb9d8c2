------------------------------- MODULE Metrics -------------------------------
(***************************************************************************)
(* The pure part of an audit: the metrics of metrics.go, the comparison    *)
(* with earlier windows of baseline.go, the guardrails, the detectors of   *)
(* diagnosis.go, the recommendations of recommendation.go, the             *)
(* decomposition of workload.go and the decision of eval.go.               *)
(*                                                                         *)
(* Numbers are exact fractions [n, d] with d > 0; [n |-> 1, d |-> 0] is    *)
(* the infinity that a relative effect on a baseline of zero has.  Rounding*)
(* of floating point numbers is left out.  Identities of metrics, findings *)
(* and recommendations are those of the code, their wording is left out.   *)
(***************************************************************************)
EXTENDS Integers, Sequences, FiniteSets, SequencesExt, FiniteSetsExt

CONSTANT None    \* nil

-----------------------------------------------------------------------------
(* Fractions *)

Frac(n, d) == [n |-> n, d |-> d]
Zero == Frac(0, 1)
Infinity == Frac(1, 0)
Less(a, b) == a.n * b.d < b.n * a.d
AtMost(a, b) == ~Less(b, a)
Equal(a, b) == a.n * b.d = b.n * a.d
Plus(a, b) == IF a.d = b.d THEN Frac(a.n + b.n, a.d) ELSE Frac(a.n * b.d + b.n * a.d, a.d * b.d)
Minus(a, b) == Plus(a, Frac(-b.n, b.d))
Multiply(a, b) == Frac(a.n * b.n, a.d * b.d)
Over(a, b) == Frac(a.n * b.d, a.d * b.n)
Magnitude(a) == Frac(IF a.n < 0 THEN -a.n ELSE a.n, a.d)
Sign(a) == IF a.n > 0 THEN 1 ELSE IF a.n < 0 THEN -1 ELSE 0

-----------------------------------------------------------------------------
(* metrics.go *)

Define(polarity, minimum, practical, numerator, denominator) ==
  [ polarity |-> polarity, minimum |-> minimum, practical |-> Frac(practical, 100),
    numerator |-> numerator, denominator |-> denominator ]

registry ==
  [ scope_attribution_coverage |-> Define("higher", 1, 2, "attributedTurns", "completedTurns"),
    boundary_violation_rate    |-> Define("lower", 1, 1, "boundaryViolations", "boundaryDecisions"),
    checkpoint_completeness    |-> Define("higher", 1, 5, "completeCheckpoints", "checkpoints"),
    tokens_per_turn            |-> Define("contextual", 1, 5, "totalTokens", "completedTurns"),
    non_cached_input_per_turn  |-> Define("lower", 1, 5, "nonCachedInputTokens", "completedTurns"),
    passive_waits_per_100_tool_calls       |-> Define("lower", 5, 10, "passiveWaitCalls", "toolCalls"),
    oversized_outputs_per_100_tool_results |-> Define("lower", 5, 10, "oversizedResults", "toolResults"),
    repeated_calls_per_100_tool_calls      |-> Define("lower", 5, 10, "repeatedCalls", "toolCalls"),
    commentary_per_turn         |-> Define("contextual", 1, 10, "commentaryMessages", "completedTurns"),
    wall_clock_runtime_per_turn |-> Define("contextual", 1, 10, "wallClockSeconds", "completedTurns"),
    active_runtime_per_turn     |-> Define("contextual", 1, 10, "activeSeconds", "completedTurns"),
    tool_error_rate             |-> Define("guardrail", 5, 2, "toolErrors", "toolCalls"),
    validation_presence         |-> Define("guardrail", 1, 1, "validatedMutations", "observableMutations"),
    privacy_redaction_coverage  |-> Define("guardrail", 1, 1, "redactedEvidence", "acceptedEvidence") ]

MetricNames == DOMAIN registry
Guardrails == {"tool_error_rate", "validation_presence", "privacy_redaction_coverage"}
PerHundred == { "passive_waits_per_100_tool_calls", "oversized_outputs_per_100_tool_results",
                "repeated_calls_per_100_tool_calls" }

\* Counts that are part of a total; the measures per turn are not.
Parts == { <<registry[m].numerator, registry[m].denominator>> :
             m \in {m \in MetricNames : registry[m].polarity # "contextual"} \ {"non_cached_input_per_turn"} }

invalidInput(i) ==
  \/ \E p \in Parts : i[p[1]] > i[p[2]]
  \/ i.nonCachedInputTokens > i.totalTokens
  \/ i.activeSeconds > i.wallClockSeconds

ratio(m, i) ==
  LET sample == i[registry[m].denominator]
      scale  == IF m \in PerHundred THEN 100 ELSE 1
      known  == /\ i.coverage = "complete"
                /\ m = "active_runtime_per_turn" => i.activeRuntimeKnown
                /\ sample >= registry[m].minimum
  IN  [ value    |-> IF known THEN Frac(i[registry[m].numerator] * scale, sample) ELSE None,
        sample   |-> sample,
        coverage |-> i.coverage,
        refs     |-> i.refs ]

Compute(i) == [m \in MetricNames |-> ratio(m, i)]

guardrailState(m, result) ==
  IF result.value = None \/ result.coverage # "complete" THEN "unknown"
  ELSE IF m = "tool_error_rate"
  THEN IF Less(Frac(5, 100), result.value) THEN "fail" ELSE "pass"
  ELSE IF Less(result.value, Frac(95, 100)) THEN "fail" ELSE "pass"

guardrailsPass(results) == \A m \in Guardrails : guardrailState(m, results[m]) = "pass"

-----------------------------------------------------------------------------
(* baseline.go and the comparison governance.go prepares for it *)

SampleSize(f) == Cardinality(DOMAIN f)

\* Sorted, f[i] may stand in place k: fewer than k values are less, k are no greater.
HasRank(f, k, i) ==
  /\ Cardinality({j \in DOMAIN f : Less(f[j], f[i])}) < k
  /\ Cardinality({j \in DOMAIN f : AtMost(f[j], f[i])}) >= k

\* The k-th smallest of the values of f.
Ranked(f, k) == f[CHOOSE i \in DOMAIN f : HasRank(f, k, i)]

Median(f) ==
  LET middle == SampleSize(f) \div 2
  IN  IF SampleSize(f) % 2 = 0
      THEN Over(Plus(Ranked(f, middle), Ranked(f, middle + 1)), Frac(2, 1))
      ELSE Ranked(f, middle + 1)

relativeEffect(current, base) ==
  IF base.n = 0 THEN (IF current.n = 0 THEN Zero ELSE Infinity)
  ELSE Over(Minus(current, base), base)

relativeDirection(current, prior, threshold) ==
  LET effect == relativeEffect(current, prior)
  IN  IF Less(threshold, effect) THEN 1 ELSE IF Less(effect, Frac(-threshold.n, threshold.d)) THEN -1 ELSE 0

\* PersistenceCount and HysteresisActive.
persistenceState(current, previous, older, threshold) ==
  IF None \in {current, previous, older} THEN [count |-> 0, hysteresis |-> FALSE]
  ELSE LET recent == relativeDirection(current, previous, threshold)
           prior  == relativeDirection(previous, older, threshold)
       IN  IF recent = 0 THEN [count |-> 0, hysteresis |-> prior # 0]
           ELSE IF recent = prior THEN [count |-> 2, hysteresis |-> FALSE]
           ELSE [count |-> 1, hysteresis |-> prior # 0]

\* A window of a comparison: value and coverage of the metric, whether its dimension
\* versions are those of the window under audit.
compatible(w) == w.value # None /\ w.coverage = "complete" /\ w.comparable

\* By their distance; only how many there are and their median matter.
compatibleValues(windows) == [n \in {n \in DOMAIN windows : compatible(windows[n])} |-> windows[n].value]

RollingOf(c) ==
  LET rolling == compatibleValues(c.rolling)
  IN  IF SampleSize(rolling) < 3 THEN compatibleValues(c.seasonal) ELSE rolling

MAD(values) == LET m == Median(values) IN Median([n \in DOMAIN values |-> Magnitude(Minus(values[n], m))])

Noise(practical, values) ==
  LET Relative(m, d) == IF m.n # 0 /\ Less(practical, Over(d, m)) THEN Over(d, m) ELSE practical
  IN  Relative(Median(values), MAD(values))

signsConflict(a, b) == Sign(a) * Sign(b) = -1

lowerIsBetter(m) == registry[m].polarity = "lower" \/ m = "tool_error_rate"

\* Mutant: an effect of zero is good enough.
Better_OrZero(m, effect) == Sign(effect) # (IF lowerIsBetter(m) THEN 1 ELSE -1)

Better(m, effect) == Sign(effect) = (IF lowerIsBetter(m) THEN -1 ELSE 1)

Status(s, reason) == [status |-> s, reason |-> reason]

\* The status of a metric by its effects against the previous window and the others.
Weigh(m, previous, rolling, noise, c) ==
      IF AtMost(Magnitude(previous), noise) /\ AtMost(Magnitude(rolling), noise)
      THEN Status("flat", "within_practical_or_noise_threshold")
      ELSE IF signsConflict(previous, rolling) \/ registry[m].polarity = "contextual"
      THEN Status("mixed", "contextual_or_baselines_conflict")
      ELSE IF c.persistence.hysteresis \/ c.persistence.count < 2
      THEN Status("flat", "hysteresis_or_persistence")
      ELSE IF Better(m, rolling)
      THEN Status("improved", "meaningful_matched_change")
      ELSE Status("worsened", "meaningful_matched_change")

\* The status of a metric whose value and comparison are complete.
Judge(m, value, c) ==
  LET Against(values) == Weigh(m, relativeEffect(value, c.previous.value), relativeEffect(value, Median(values)),
                               Noise(registry[m].practical, values), c)
  IN  Against(RollingOf(c))

Apply(m, result, c) ==
  IF result.value = None \/ result.coverage # "complete" THEN Status("insufficient", "current_incomplete")
  ELSE IF c.privacySuppressed THEN Status("insufficient", "privacy_suppressed")
  ELSE IF ~compatible(c.previous) THEN Status("insufficient", "previous_incompatible")
  ELSE IF SampleSize(RollingOf(c)) < 3 THEN Status("insufficient", "baseline_sample_not_met")
  ELSE IF ~c.previous.guardrailsPass THEN Status("insufficient", "guardrail_regressed_or_unknown")
  ELSE IF ~c.confoundersMatched THEN Status("mixed", "confounder_unmatched")
  ELSE Judge(m, result.value, c)

-----------------------------------------------------------------------------
(* diagnosis.go and the observations audit.go makes for it *)

Detector(class, positive, denominator, minimum, rate, necessary, refs) ==
  [ class |-> class, positive |-> positive, denominator |-> denominator, minimum |-> minimum,
    rate |-> Frac(rate, 100), necessary |-> necessary, refs |-> refs ]

\* The findings of a snapshot s.
detectors(s) ==
  LET i == s.input
  IN  [ scope_attribution_gap   |-> Detector("uncertain", i.completedTurns - i.attributedTurns,
                                             i.completedTurns, 1, 0, FALSE, i.refs),
        boundary_violation      |-> Detector("necessary", i.boundaryViolations, i.boundaryDecisions, 1, 0, TRUE, i.refs),
        checkpoint_gap          |-> Detector("avoidable", i.checkpoints - i.completeCheckpoints,
                                             i.checkpoints, 1, 0, FALSE, i.refs),
        passive_polling         |-> Detector("avoidable", i.passiveWaitCalls, i.toolCalls, 5, 10, FALSE,
                                             s.passiveRefs \cup i.refs),
        repeated_unchanged_call |-> Detector("avoidable", i.repeatedCalls, i.toolCalls, 5, 10, FALSE,
                                             s.repeatedRefs \cup i.refs),
        tool_error_burst        |-> Detector("uncertain", i.toolErrors, i.toolCalls, 5, 5, FALSE, i.refs),
        missing_validation      |-> Detector("avoidable", i.observableMutations - i.validatedMutations,
                                             i.observableMutations, 1, 0, FALSE, i.refs),
        privacy_redaction_gap   |-> Detector("avoidable", i.acceptedEvidence - i.redactedEvidence,
                                             i.acceptedEvidence, 1, 0, FALSE, i.refs) ]

Fires(d) ==
  /\ d.positive > 0
  /\ d.denominator > 0 /\ d.rate.n > 0 => Less(d.rate, Frac(d.positive, d.denominator))

Classify(d, coverage) ==
  IF d.necessary THEN "necessary"
  ELSE IF coverage # "complete" \/ d.denominator < d.minimum THEN "uncertain"
  ELSE d.class

detect(s) ==
  LET all == detectors(s)
  IN  { [code |-> c, class |-> Classify(all[c], s.input.coverage), refs |-> all[c].refs] :
          c \in {c \in DOMAIN all : Fires(all[c])} }

-----------------------------------------------------------------------------
(* recommendation.go *)

candidate ==
  [ scope_attribution_gap |-> "restore_scope_attribution", checkpoint_gap |-> "complete_checkpoint_contract",
    passive_polling |-> "wait_on_state_change", repeated_unchanged_call |-> "reuse_unchanged_evidence",
    missing_validation |-> "validate_after_mutation", privacy_redaction_gap |-> "restore_redaction_coverage" ]

\* feedback: finding code -> the state of the last recommendation made for it.
suppressed(finding, feedback, asOf) ==
  LET f == feedback[finding.code]
  IN  f.state = "dismissed" /\ asOf < f.cooldown /\ finding.refs = f.refs

\* Mutant: guardrails are looked at by the reader of the report.
Generate_Ungated(findings, feedback, asOf, pass) ==
  { f.code : f \in { g \in findings : /\ g.code \in DOMAIN candidate
                                      /\ g.class \notin {"necessary", "uncertain"}
                                      /\ feedback[g.code].state # "verified"
                                      /\ ~suppressed(g, feedback, asOf) } }

\* Mutant: what was recommended before is not recommended again.
Generate_Once(findings, feedback, asOf, pass) ==
  { f.code : f \in { g \in findings : /\ pass
                                      /\ g.code \in DOMAIN candidate
                                      /\ g.class \notin {"necessary", "uncertain"}
                                      /\ feedback[g.code].state = None } }

\* The finding codes a recommendation is made for; {} is no_action.  No more than five
\* of the findings with a candidate can be neither necessary nor uncertain.
Generate(findings, feedback, asOf, pass) ==
  { f.code : f \in { g \in findings : /\ pass
                                      /\ g.code \in DOMAIN candidate
                                      /\ g.class \notin {"necessary", "uncertain"}
                                      /\ feedback[g.code].state # "verified"
                                      /\ ~suppressed(g, feedback, asOf) } }

-----------------------------------------------------------------------------
(* workload.go: values is a function from classes to [count, tokens] *)

\* The sum of the values of a function.
SumFrac(f) == FoldFunction(Plus, Zero, f)

Total(values) ==
  [ count  |-> SumFrac([c \in DOMAIN values |-> values[c].count]),
    tokens |-> SumFrac([c \in DOMAIN values |-> values[c].tokens]) ]

ClassOf(values, c) == IF c \in DOMAIN values THEN values[c] ELSE [count |-> Zero, tokens |-> Zero]
safeRate(v) == IF v.count.n = 0 THEN Zero ELSE Over(v.tokens, v.count)

\* Mutant: the mix is valued at the rates of the new window.
MixEffect_Current(previous, current, c) ==
  Multiply(Minus(ClassOf(current, c).count,
              Multiply(Total(current).count, Over(ClassOf(previous, c).count, Total(previous).count))),
        safeRate(ClassOf(current, c)))

MixEffect(previous, current, c) ==
  Multiply(Minus(ClassOf(current, c).count,
              Multiply(Total(current).count, Over(ClassOf(previous, c).count, Total(previous).count))),
        safeRate(ClassOf(previous, c)))

WithinEffect(previous, current, c) ==
  Multiply(ClassOf(current, c).count, Minus(safeRate(ClassOf(current, c)), safeRate(ClassOf(previous, c))))

Decompose(previous, current) ==
  LET classes == DOMAIN previous \cup DOMAIN current
      p == Total(previous)
      c == Total(current)
      rates == SumFrac([x \in classes |-> Minus(safeRate(ClassOf(current, x)), safeRate(ClassOf(previous, x)))])
  IN  IF p.count.n = 0 \/ c.count.n = 0 THEN [status |-> "insufficient"]
      ELSE [ status |-> IF Sign(Minus(safeRate(c), safeRate(p))) = Sign(rates) THEN "decomposed" ELSE "simpson_mixed",
             volume |-> Multiply(Minus(c.count, p.count), safeRate(p)),
             mix    |-> SumFrac([x \in classes |-> MixEffect(previous, current, x)]),
             within |-> SumFrac([x \in classes |-> WithinEffect(previous, current, x)]),
             change |-> Minus(c.tokens, p.tokens) ]

-----------------------------------------------------------------------------
(* governance.go and eval.go: what the evaluation of an audit decides *)

qualityGate(states) ==
  IF "fail" \in states THEN "fail" ELSE IF states \subseteq {"pass"} THEN "pass" ELSE "unknown"

evaluationOutcome(statuses) ==
  IF "worsened" \in statuses THEN "regressed"
  ELSE IF statuses \cap {"mixed", "insufficient"} # {} THEN "mixed"
  ELSE IF "improved" \in statuses THEN "improved"
  ELSE "unchanged"

Decision(outcome, gate) ==
  IF outcome = "regressed" \/ gate = "fail" THEN "rollback"
  ELSE IF outcome = "improved" /\ gate = "pass" THEN "promote"
  ELSE "hold"
=============================================================================
