----------------------------- MODULE PairEvaluation -----------------------------
(***************************************************************************)
(* The evaluation of the decision layer on labelled pairs                  *)
(* (src/src/evaluation/decision_evaluator.py): every pair is looked up in  *)
(* a store that holds only its cached query, classified, routed, decided   *)
(* by whatever the evaluator was built with, and counted in five confusion *)
(* matrices.  A threshold engine is first calibrated from the pairs of a   *)
(* benchmark and the labels a judge gave to others                         *)
(* (scripts/run_phase4_calibration.py); another script fits one to pairs   *)
(* of question forums, and only reports it                                 *)
(* (scripts/run_phaseA_cqadupstack_calibration.py).  The same pairs may be *)
(* evaluated by the lookup alone, at any threshold (cache_evaluator.py).   *)
(* A pair is what the earlier stages make of it: its similarity, its       *)
(* classification, its domain and whether reuse is safe.                   *)
(***************************************************************************)
EXTENDS TierRouter, ThresholdEngine, FeedbackLabelling, Functions

CONSTANTS Pairs,             \* the labelled pairs a dataset may hold
          Domains,
          Setups,            \* what the evaluator may be built with
          JudgeConfidences,  \* confidences the judge may report, in hundredths
          reference,         \* phase2_reference_threshold
          Benchmark,         \* sequence of pairs whose labels are authored
          CoarseThresholds, FineThresholds, \* what a sweep visits
          HAZARD_RATE_CEILING,              \* in hundredths
          RouterCounts,      \* what the two other tiers count, as a literal (tp 2, fn 50, tn 36)
          PairsPerLabel,     \* n_pos and n_neg: pairs of a subforum
          MaxPairs           \* bound: pairs evaluated

\* __init__: without any decision engine the production judge is used.
SetupRecords == [step : {"none", "weighted", "blended"}, engine : BOOLEAN, judge : BOOLEAN,
                 run_judge : BOOLEAN, bypass_all : BOOLEAN]

\* A pair, with what the classifier and the domain model say of it.
PairRecords == [score : -100..100, effective : {"STABLE", "DYNAMIC"}, confidence : 0..100,
                domain : Domains, safe : BOOLEAN]

ASSUME EvaluationAssumption ==
    /\ Pairs \subseteq PairRecords /\ Pairs # {} /\ IsFiniteSet(Pairs)
    /\ Setups \subseteq SetupRecords
    /\ reference \in 0..100
    /\ JudgeConfidences \subseteq 0..100
    /\ Benchmark \in Seq(Pairs)
    /\ Datasets \subseteq Seq(Pairs)
    /\ RouterCounts \in [{"tp", "fp", "fn", "tn"} -> Nat]
    /\ MaxPairs \in Nat /\ PairsPerLabel \in Nat

VARIABLES setup,     \* the evaluator's construction and arguments
          stage,     \* what the evaluation is doing
          feedback,  \* the labelled feedback the engine is fitted on
          visited,   \* the subforums whose pairs are among it
          engine,    \* its thresholds
          pair,      \* the pair being evaluated
          predicted, \* predicted_hit so far
          approval,  \* history: the judge that was asked for it answered REUSE
          history,   \* reuse-success rate of the weighted step, per domain
          matrix,    \* the confusion matrices
          calls,     \* judge_calls_count
          mismatches,\* auto_reuse_mismatches
          counted,   \* how often each pair has been evaluated so far
          row        \* the latest of detailed_results

countVars == <<history, matrix, calls, mismatches, counted, row>>
evalVars == <<setup, stage, feedback, visited, engine, pair, predicted, approval, countVars>>
evaluationVars == <<evalVars, labelVars, judgeVars>>

HasJudgeStep == setup.judge \/ (setup.step = "none" /\ ~setup.engine)
JudgeEvaluated == HasJudgeStep /\ setup.run_judge /\ ~setup.bypass_all

\* Overall, phase 2, trivial baseline, judge, judge on the ambiguous tier, and
\* one matrix per tier.
Matrices == {"overall", "phase2", "trivial", "judge", "judge_ambiguous"} \cup Tiers
Cells == {"tp", "fp", "fn", "tn"}
Zero == [m \in Matrices |-> [c \in Cells |-> 0]]
Outcome(hit, safe) ==
    IF hit THEN (IF safe THEN "tp" ELSE "fp") ELSE (IF safe THEN "fn" ELSE "tn")

\* CategoryHistory: an exponentially weighted rate (decay 0.90) from a cold
\* start of one half, exact in ten-thousandths for the first three updates.
RateUnit == 10000
UpdateRate(rate, correct) == (9 * rate + (IF correct THEN RateUnit ELSE 0)) \div 10

\* DecisionStep.decide, in 1/4200 of RateUnit: similarity and confidence are
\* normalised to their ambiguous bands (0.42 and 0.10 wide) and weighted
\* 0.5 / 0.3 / 0.2 with the history.
Clamp(x, hi) == IF x < 0 THEN 0 ELSE IF x > hi THEN hi ELSE x
Combined(p) ==
    RateUnit * (50 * Clamp(p.score - 50, 42) + 126 * Clamp(p.confidence - 80, 10))
        + 840 * history[p.domain]
One == 4200 * RateUnit
DecisionResult(p, decision, score, judge_called) ==
    [decision |-> decision, score |-> score, domain |-> p.domain,
     hist_rate |-> history[p.domain], judge_called |-> judge_called]

\* DecisionStep.decide, of the score of a pair.
StepDecision(p, score, judge_called) ==
    DecisionResult(p, IF score >= One THEN "REUSE" ELSE "BYPASS", score, judge_called)

WeightedReuse(p) == StepDecision(p, 2 * Combined(p), FALSE).decision = "REUSE"

\* Mutant: the confidence counts whatever the verdict is.
ScoreUnchecked(confidence) == confidence

\* LLMJudge.__call__: the confidence of the judge if its verdict is safe.
JudgeScore(confidence) == IF JudgeSaysReuse THEN confidence ELSE 0

\* With a judge its score is blended half and half.
BlendedReuse(p, confidence) ==
    LET score == JudgeScore(confidence) * (One \div 100) + Combined(p)
    IN StepDecision(p, score, TRUE).decision = "REUSE"

--------------------------------------------------------------------------------
\* Pairs evaluated so far.
Evaluated == FoldFunction(+, 0, counted)

\* Mutant: phase 2 hits above its reference only.
LookupAbove(p) == [score |-> p.score, store_size |-> 1, hit |-> p.score > reference]

\* The store holds the pair's cached query and nothing else.
LookupOf(p) == [score |-> p.score, store_size |-> 1, hit |-> p.score >= reference]
TierOf(p) == Route(DEFAULT_BOUNDARIES, LookupOf(p), [effective |-> p.effective, confidence |-> p.confidence])

EvaluationInit ==
    /\ setup \in Setups
    /\ stage \in IF setup.engine THEN {"feedback", "subforums"} ELSE {"next"}
    /\ program = IF setup.engine THEN "label" ELSE "retry"
    /\ dataset \in IF stage = "feedback" THEN Datasets ELSE {<< >>}
    /\ LabelInit
    /\ feedback = << >> /\ visited = {} /\ engine = << >>
    /\ pair = CHOOSE p \in Pairs : TRUE
    /\ predicted = FALSE /\ approval = FALSE
    /\ history = [d \in Domains |-> RateUnit \div 2]
    /\ matrix = Zero
    /\ calls = 0 /\ mismatches = 0
    /\ counted = [p \in Pairs |-> 0]
    /\ row = [tier |-> "BYPASS", hit |-> FALSE, judge |-> FALSE, asked |-> FALSE,
              approved |-> FALSE]
    /\ backend \in IF stage = "feedback" THEN {"openrouter", "unavailable"}
                   ELSE IF stage = "subforums" THEN {"unavailable"}
                   ELSE IF HasJudgeStep \/ setup.step = "blended" THEN Backends
                   ELSE {"unavailable"}
    /\ JudgeInit

\* The feedback: labelling sessions, then calibration when there is none and
\* the file can be read.  The script only saves its thresholds; that an engine
\* with them decides pairs is what tests/test_decision_evaluation.py builds.
Labelling == stage = "feedback" /\ LabelNext /\ UNCHANGED evalVars

Calibrate ==
    /\ stage = "feedback" /\ lstate = "idle" /\ saved.readable
    /\ feedback' = Benchmark \o GenuineFeedback
    /\ engine' = FitWithFeedbackSweep(feedback')
    /\ stage' = "next"
    /\ UNCHANGED <<setup, visited, pair, predicted, approval, countVars, labelVars, judgeVars>>

\* The other calibration visits every subforum: up to PairsPerLabel questions
\* with the text they are a duplicate of, then as many with one they are not; a
\* subforum may have none.  Its data may also be out of reach.
BuildLabeledPairs(domain) ==
    LET pairs(safe) == UNION {[1..n -> {p \in Pairs : p.domain = domain /\ p.safe = safe}] : n \in 0..PairsPerLabel}
    IN {both[1] \o both[2] : both \in pairs(TRUE) \X pairs(FALSE)}

ProcessSubforum(domain) ==
    /\ stage = "subforums" /\ domain \notin visited
    /\ \/ /\ \E pairs \in BuildLabeledPairs(domain) : feedback' = feedback \o pairs
          /\ visited' = visited \cup {domain}
          /\ UNCHANGED stage
       \/ stage' = "raised" /\ UNCHANGED <<feedback, visited>>
    /\ UNCHANGED <<setup, engine, pair, predicted, approval, countVars, labelVars, judgeVars>>

\* What is fitted is saved, and nothing is evaluated with it.
FitSubforums ==
    /\ stage = "subforums" /\ visited = Domains
    /\ engine' \in Fits(feedback)
    /\ stage' = "saved"
    /\ UNCHANGED <<setup, feedback, visited, pair, predicted, approval, countVars, labelVars, judgeVars>>

\* run_openrouter_eval.py: without a key the judge is not evaluated at all.
NoApiKey ==
    /\ stage = "next" /\ Evaluated = 0
    /\ HasJudgeStep /\ backend = "unavailable"
    /\ stage' = "raised"
    /\ UNCHANGED <<setup, feedback, visited, engine, pair, predicted, approval, countVars, labelVars, judgeVars>>

\* The dataset is validated before anything is evaluated: one that is missing,
\* not an array, of another length, or has a record that lacks a field, a text
\* or a Boolean label or repeats an identifier raises, and there is no report.
DatasetInvalid ==
    /\ stage = "next" /\ Evaluated = 0
    /\ stage' = "raised"
    /\ UNCHANGED <<setup, feedback, visited, engine, pair, predicted, approval, countVars, labelVars, judgeVars>>

NextPair(p) ==
    /\ stage = "next" /\ Evaluated < MaxPairs
    /\ pair' = p
    /\ approval' = FALSE
    /\ stage' = "deciding"
    /\ UNCHANGED <<setup, feedback, visited, engine, predicted, countVars, labelVars, judgeVars>>

--------------------------------------------------------------------------------
\* The decision of the pair, except where a judge is asked for it: AUTO_REUSE
\* and BYPASS are decided by the router; in the ambiguous tier the forced
\* bypass comes first, then a decision step, then the engine, which is only
\* consulted for the record when the judge is evaluated as well.
StepDecides == setup.step # "none" /\ ~setup.bypass_all
EngineDecided ==
    setup.engine /\ ~JudgeEvaluated /\ EngineDecides(engine, pair.score, pair.domain)

Decide ==
    /\ stage = "deciding"
    /\ ~(TierOf(pair) = "AMBIGUOUS" /\ StepDecides /\ setup.step = "blended")
    /\ predicted' = IF TierOf(pair) = "AUTO_REUSE" THEN TRUE
                    ELSE IF TierOf(pair) = "BYPASS" \/ setup.bypass_all THEN FALSE
                    ELSE IF StepDecides THEN WeightedReuse(pair) ELSE EngineDecided
    /\ stage' = "tracking"
    /\ UNCHANGED <<setup, feedback, visited, engine, pair, approval, countVars, labelVars, judgeVars>>

AskForStep ==
    /\ stage = "deciding"
    /\ TierOf(pair) = "AMBIGUOUS" /\ StepDecides /\ setup.step = "blended"
    /\ JudgeStart
    /\ stage' = "step_asks"
    /\ UNCHANGED <<setup, feedback, visited, engine, pair, predicted, approval, countVars, labelVars>>

\* The verdict is an answer of the model's own, and it is to reuse.
JudgeApproved == verdict.decision = "REUSE" /\ ~verdict.fallback_triggered

StepJudged(confidence) ==
    /\ stage = "step_asks" /\ JudgeReturn
    /\ predicted' = BlendedReuse(pair, confidence)
    /\ approval' = JudgeApproved
    /\ stage' = "tracking"
    /\ UNCHANGED <<setup, feedback, visited, engine, pair, countVars, labelVars>>

--------------------------------------------------------------------------------
\* The pair is counted in every matrix it belongs to.
Count(m, hit) == [m EXCEPT ![Outcome(hit, pair.safe)] = @ + 1]

Tally(hit, judgeHit, asked) ==
    LET tier == TierOf(pair)
    IN /\ matrix' = [matrix EXCEPT
              !.overall = Count(@, hit), ![tier] = Count(@, hit),
              !.phase2 = Count(@, LookupOf(pair).hit),
              !.trivial = Count(@, tier = "AUTO_REUSE"),
              !.judge = IF JudgeEvaluated THEN Count(@, judgeHit) ELSE @,
              !.judge_ambiguous = IF asked THEN Count(@, judgeHit) ELSE @]
       /\ mismatches' = mismatches + (IF tier = "AUTO_REUSE" /\ ~LookupOf(pair).hit THEN 1 ELSE 0)
       /\ calls' = calls + (IF asked THEN 1 ELSE 0)
       /\ history' = IF hit /\ setup.step # "none"
                     THEN [history EXCEPT ![pair.domain] = UpdateRate(@, pair.safe)] ELSE history
       /\ counted' = [counted EXCEPT ![pair] = @ + 1]
       /\ row' = [tier |-> tier, hit |-> hit, judge |-> judgeHit, asked |-> asked,
                  approved |-> approval']
       /\ stage' = "next"
       /\ UNCHANGED <<setup, feedback, visited, engine, pair>>

\* Outside the ambiguous tier the judge's column is the router's.
Track ==
    /\ stage = "tracking"
    /\ ~(TierOf(pair) = "AMBIGUOUS" /\ JudgeEvaluated)
    /\ UNCHANGED <<predicted, approval, labelVars, judgeVars>>
    /\ Tally(predicted, TierOf(pair) = "AUTO_REUSE", FALSE)

AskForTracking ==
    /\ stage = "tracking"
    /\ TierOf(pair) = "AMBIGUOUS" /\ JudgeEvaluated
    /\ JudgeStart
    /\ stage' = "tracking_asks"
    /\ UNCHANGED <<setup, feedback, visited, engine, pair, predicted, approval, countVars, labelVars>>

\* The judge's verdict is the prediction only where nothing else was built in.
JudgeIsProduction == setup.step = "none" /\ ~setup.engine

\* The judge_result of the pair among detailed_results.
Detail ==
    /\ dataset' = Append(dataset, pair)
    /\ records' = Append(records, [safe |-> verdict.is_safe, fallback_triggered |-> verdict.fallback_triggered])
    /\ answered' = IF verdict.fallback_triggered THEN answered
                   ELSE answered \cup {<<Len(dataset'), verdict.is_safe>>}
    /\ UNCHANGED <<program, lstate, position, attempts, saved, last>>

TrackJudged ==
    /\ stage = "tracking_asks" /\ JudgeReturn
    /\ predicted' = IF JudgeIsProduction THEN JudgeSaysReuse ELSE predicted
    /\ approval' = IF JudgeIsProduction THEN JudgeApproved ELSE approval
    /\ Tally(predicted', JudgeSaysReuse, TRUE)
    /\ IF JudgeIsProduction THEN Detail ELSE UNCHANGED labelVars

\* run_gemini_eval.py, whose judge speaks the API that the environment names: an
\* evaluation by the production judge writes its calls.  (run_openrouter_eval.py
\* writes its own in a file that nothing reads again.)
SaveCalls ==
    /\ stage = "next" /\ Evaluated = MaxPairs
    /\ JudgeIsProduction /\ JudgeEvaluated
    /\ stage' = "retry"
    /\ lstate' = "closing"
    /\ UNCHANGED <<setup, feedback, visited, engine, pair, predicted, approval, countVars,
                   program, dataset, records, position, attempts, saved, last, answered, judgeVars>>

\* And retry_fallback_pairs.py may be run on that file, again and again.
Retrying == stage = "retry" /\ LabelNext /\ UNCHANGED evalVars

JudgeAnswering == stage \in {"step_asks", "tracking_asks"} /\ JudgeNext /\ UNCHANGED <<evalVars, labelVars>>

EvaluationNext ==
    \/ DatasetInvalid \/ NoApiKey
    \/ \E p \in Pairs : NextPair(p)
    \/ \E d \in Domains : ProcessSubforum(d)
    \/ Labelling \/ Calibrate \/ FitSubforums \/ Decide \/ AskForStep
    \/ \E c \in JudgeConfidences : StepJudged(c)
    \/ Track \/ AskForTracking \/ TrackJudged \/ JudgeAnswering
    \/ SaveCalls \/ Retrying

EvaluationSpec == EvaluationInit /\ [][EvaluationNext]_evaluationVars

--------------------------------------------------------------------------------
(* The lookup alone: cache_evaluator.py and run_cache_threshold_sweep.py. *)

\* CacheEvaluator.evaluate: the confusion matrix of the pairs at a threshold.
CountOf(c, t) ==
    FoldFunction(+, 0, [p \in {x \in Pairs : Outcome(x.score >= t, x.safe) = c} |-> counted[p]])
Evaluate(t) == [c \in Cells |-> CountOf(c, t)]

\* threshold_sweep: a point per threshold; a point without hits has rate 0.
SweepPoint(t) ==
    LET m == Evaluate(t) hits == m.tp + m.fp
    IN [threshold |-> t, hit_count |-> hits,
        irr_cache |-> IF hits > 0 THEN (100 * m.fp) \div hits ELSE 0]
ThresholdSweep(thresholds) == {SweepPoint(t) : t \in thresholds}

\* A fine sweep is made around the first coarse threshold below the ceiling.
BuildFineThresholds ==
    LET below == {pt \in ThresholdSweep(CoarseThresholds) : pt.irr_cache < HAZARD_RATE_CEILING}
        crossover == IF below = {} THEN 95
                     ELSE (CHOOSE pt \in below : \A o \in below : pt.threshold <= o.threshold).threshold
    IN {t \in FineThresholds : crossover - 5 <= t /\ t <= crossover + 5}

\* select_threshold: the lowest point below the ceiling; << >> for None.
SelectThreshold(points) ==
    LET candidates == {pt \in points : pt.irr_cache < HAZARD_RATE_CEILING}
    IN IF candidates = {} THEN << >>
       ELSE <<CHOOSE pt \in candidates : \A o \in candidates : pt.threshold <= o.threshold>>
AllPoints == ThresholdSweep(CoarseThresholds) \cup ThresholdSweep(BuildFineThresholds)

--------------------------------------------------------------------------------
(* The report: fractions as pairs of a numerator and a denominator.          *)

Total(m) == matrix[m].tp + matrix[m].fp + matrix[m].fn + matrix[m].tn
HitCount(m) == matrix[m].tp + matrix[m].fp
NSafe == matrix["overall"].tp + matrix["overall"].fn

\* A fraction of nothing has a value of its own.
Fraction(k, n, none) == IF n > 0 THEN <<k, n>> ELSE <<none, 1>>

\* The properties of TierMetrics, over the pairs of the tier.
TierRates(t) ==
    [arr |-> Fraction(HitCount(t), Total(t), 0),
     crr |-> Fraction(matrix[t].tp, HitCount(t), 1),
     irr_cache |-> Fraction(matrix[t].fp, HitCount(t), 0)]

\* What evaluate() derives for a decision maker over all pairs.
Rates(m) ==
    [arr |-> Fraction(HitCount(m), Evaluated, 0),
     crr |-> Fraction(matrix[m].tp, HitCount(m), 1),
     irr_cache |-> Fraction(matrix[m].fp, HitCount(m), 0),
     irr_traffic |-> Fraction(matrix[m].fp, Evaluated, 0),
     frr |-> Fraction(matrix[m].fn, NSafe, 0)]

DecisionMetrics ==
    [ambiguous_fraction |-> Fraction(Total("AMBIGUOUS"), Evaluated, 0),
     ambiguous_band_large |-> 2 * Total("AMBIGUOUS") > Evaluated,
     rates |-> [m \in {"overall", "phase2", "trivial", "judge"} |-> Rates(m)],
     tiers |-> [t \in Tiers |-> TierRates(t)],
     judge_available |-> JudgeEvaluated,
     auto_reuse_verbatim_verified |-> mismatches = 0]

\* retry_fallback_pairs.py recomputes the confusion matrix from the calls in its
\* file; what it adds for the two other tiers are literals.
Merged ==
    [c \in Cells |-> RouterCounts[c]
            + Cardinality({p \in DOMAIN saved.labels : Outcome(saved.labels[p].safe, dataset[p].safe) = c})]
MergedCount == Merged.tp + Merged.fp + Merged.fn + Merged.tn

SumOfTiers(c) == matrix["AUTO_REUSE"][c] + matrix["AMBIGUOUS"][c] + matrix["BYPASS"][c]

AtMost(x, y) == x[1] * y[2] <= y[1] * x[2]
SameFraction(x, y) == x[1] * y[2] = y[1] * x[2]
Plus(x, y) == <<x[1] * y[2] + y[1] * x[2], x[2] * y[2]>>
Times(x, y) == <<x[1] * y[1], x[2] * y[2]>>

\* The report reconciles: the tiers add up to the overall matrix, the matrices
\* of the same pairs agree on how many are safe, phase 2 is what the evaluator
\* of the lookup finds at the reference, automatic reuse is all hits and bypass
\* all misses, the decision layer keeps every hit of the trivial
\* baseline, each judged pair is an ambiguous one, and AUTO_REUSE never
\* contradicts phase 2 as long as the reference is not above its floor.  Of
\* the rates that are printed: what the decision layer, or the judge, reuses
\* beyond the trivial baseline is at most the ambiguous fraction, it refuses no
\* more safe reuse than the baseline, and the traffic it answers wrongly is its
\* hit rate times its error rate.  What is written when fallbacks are retried, on
\* the benchmark whose other tiers the literals count, is of the same pairs, and
\* takes back none of the judge's reuses.
ReportReconciles ==
    /\ \A c \in Cells : matrix["overall"][c] = SumOfTiers(c)
    /\ \A m \in {"overall", "phase2", "trivial"} :
          Total(m) = Evaluated /\ matrix[m].tp + matrix[m].fn = matrix["overall"].tp + matrix["overall"].fn
    /\ matrix["phase2"] = Evaluate(reference)
    /\ matrix["AUTO_REUSE"].fn = 0 /\ matrix["AUTO_REUSE"].tn = 0
    /\ matrix["BYPASS"].tp = 0 /\ matrix["BYPASS"].fp = 0
    /\ matrix["trivial"].tp <= matrix["overall"].tp /\ matrix["trivial"].fp <= matrix["overall"].fp
    /\ JudgeEvaluated => /\ Total("judge") = Evaluated
                         /\ Total("judge_ambiguous") = calls
                         /\ calls = Total("AMBIGUOUS")
    /\ reference <= DEFAULT_BOUNDARIES.auto_sim => DecisionMetrics.auto_reuse_verbatim_verified
    /\ LET rate == DecisionMetrics.rates
           deciders == {"overall"} \cup (IF DecisionMetrics.judge_available THEN {"judge"} ELSE {})
       IN \A m \in deciders :
             /\ AtMost(rate[m].arr, Plus(rate["trivial"].arr, DecisionMetrics.ambiguous_fraction))
             /\ AtMost(rate[m].frr, rate["trivial"].frr)
             /\ SameFraction(rate[m].irr_traffic, Times(rate[m].arr, rate[m].irr_cache))
    /\ (stage = "retry" /\ saved.readable /\ saved.labels # NoLabels
        /\ \A c \in Cells : RouterCounts[c] = matrix["AUTO_REUSE"][c] + matrix["BYPASS"][c]) =>
          /\ MergedCount = Evaluated /\ Merged.tp + Merged.fn = NSafe
          /\ Merged.tp >= matrix["judge"].tp /\ Merged.fp >= matrix["judge"].fp

\* "CRITICAL SAFETY INVARIANT - FAIL-CLOSED" (judge_call.py): where only the judge
\* can make a reuse of an ambiguous pair, as the production step or blended into
\* the weighted score, there is none unless the model itself, asked for this very
\* pair, answered REUSE.  A judge that cannot be asked, fails, has no retry left,
\* is blocked, or cannot be understood makes none, whatever similarity, confidence
\* and history say for it, and neither does the answer to another pair.
FailClosed ==
    (row.tier = "AMBIGUOUS" /\ (JudgeIsProduction \/ setup.step = "blended") /\ row.hit)
        => row.approved

\* A threshold that was swept reuses, on the feedback it was chosen from, a set
\* of pairs whose unsafe share is bounded by the ceiling with confidence, and no
\* lower threshold of the sweep would; for it and for a fitted one both sample
\* gates are met; every other domain uses the fallback threshold.
OperatingPointClears ==
    \A d \in DOMAIN engine :
        LET reused == {i \in 1..Len(feedback) :
                          feedback[i].domain = d /\ EngineDecides(engine, feedback[i].score, d)}
            unsafe == {i \in reused : ~feedback[i].safe}
            own == {i \in 1..Len(feedback) : feedback[i].domain = d}
        IN IF engine[d].is_fallback THEN OperatingThreshold(engine, d) = FALLBACK_THRESHOLD
           ELSE /\ Cardinality(own) >= MINIMUM_CATEGORY_N
                /\ \A b \in BOOLEAN :
                      Cardinality({i \in own : feedback[i].safe = b}) >= MINIMUM_MINORITY_CLASS_N
                /\ engine[d].swept =>
                      /\ reused # {}
                      /\ ClopperPearsonUpper(Cardinality(unsafe), Cardinality(reused)) <= SAFETY_CEILING_IRR
                      /\ \A t \in SweepThresholds :
                            t < OperatingThreshold(engine, d) => ~Clears(feedback, d, t)

\* The script that recommends a threshold prints of the case without one that
\* "No threshold satisfies IRR_cache < 10% while producing hits > 0": what it
\* recommends produces hits.
RecommendationProducesHits ==
    (stage = "next" /\ Evaluated > 0) =>
        \A i \in 1..Len(SelectThreshold(AllPoints)) : SelectThreshold(AllPoints)[i].hit_count > 0
================================================================================
