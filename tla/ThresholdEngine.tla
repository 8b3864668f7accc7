---------------------------- MODULE ThresholdEngine ----------------------------
(***************************************************************************)
(* Per-category thresholds calibrated from labelled feedback               *)
(* (src/src/decision/adaptive_threshold_engine.py).  Feedback is a         *)
(* sequence of records with a domain, a similarity in hundredths and       *)
(* whether reuse was safe.  The statistics library is constants: the       *)
(* quantile that ends the exact binomial interval, and the ends of the     *)
(* interval of a logistic fit that the optimizer may find.                 *)
(***************************************************************************)
EXTENDS Integers, Sequences, FiniteSets

CONSTANTS SweepThresholds,           \* the thresholds the sweep visits
          UpperQuantile,             \* beta.ppf(1 - alpha / 2, k + 1, n - k): [k][n], in hundredths
          LogisticEnds,              \* ci_upper of the logistic fits, in hundredths
          SAFETY_CEILING_IRR,
          MINIMUM_CATEGORY_N,
          MINIMUM_MINORITY_CLASS_N,
          FALLBACK_THRESHOLD

ASSUME EngineAssumption ==
    /\ SweepThresholds \subseteq Int /\ IsFiniteSet(SweepThresholds)
    /\ LogisticEnds \subseteq Int
    /\ FALLBACK_THRESHOLD \in Int
    /\ MINIMUM_CATEGORY_N \in Nat /\ MINIMUM_MINORITY_CLASS_N \in Nat

\* The positions of a domain's feedback, and those a threshold would reuse.
Of(feedback, domain) == {i \in 1..Len(feedback) : feedback[i].domain = domain}
Hits(feedback, domain, t) == {i \in Of(feedback, domain) : feedback[i].score >= t}
Unsafe(feedback, S) == {i \in S : ~feedback[i].safe}

SampleSize(feedback, domain) == Cardinality(Of(feedback, domain))

MinorityCount(feedback, domain) ==
    LET unsafe == Cardinality(Unsafe(feedback, Of(feedback, domain)))
        safe == SampleSize(feedback, domain) - unsafe
    IN IF safe < unsafe THEN safe ELSE unsafe

\* Mutant: the size of the sample is the only gate.
PassesSizeGate(feedback, domain) == SampleSize(feedback, domain) >= MINIMUM_CATEGORY_N

PassesGates(feedback, domain) ==
    /\ SampleSize(feedback, domain) >= MINIMUM_CATEGORY_N
    /\ MinorityCount(feedback, domain) >= MINIMUM_MINORITY_CLASS_N

\* clopper_pearson_ci: the upper end; with no trials, or nothing but hazards,
\* there is no quantile.
ClopperPearsonUpper(k, n) ==
    IF n = 0 THEN 0 ELSE IF k = n THEN 100 ELSE UpperQuantile[k][n]

\* One point of sweep_domain_thresholds: the hits of the threshold, the hazards
\* among them, and the upper end of their rate.
DomainSweepPoint(feedback, domain, t) ==
    LET hits == Cardinality(Hits(feedback, domain, t))
        fp == Cardinality(Unsafe(feedback, Hits(feedback, domain, t)))
    IN [threshold |-> t, hits |-> hits, fp |-> fp,
        irr_cache_ci_upper |-> ClopperPearsonUpper(fp, hits)]

\* clears_safety_ceiling.
Clears(feedback, domain, t) ==
    LET pt == DomainSweepPoint(feedback, domain, t)
    IN pt.hits > 0 /\ pt.irr_cache_ci_upper <= SAFETY_CEILING_IRR

Qualifying(feedback, domain) == {t \in SweepThresholds : Clears(feedback, domain, t)}

Lowest(S) == CHOOSE t \in S : \A u \in S : t <= u

\* swept: selection_rule, whether it was a sweep that chose the threshold.
Threshold(feedback, domain, operating, is_fallback, swept) ==
    [operating |-> operating, is_fallback |-> is_fallback, swept |-> swept,
     sample_size |-> SampleSize(feedback, domain),
     minority |-> MinorityCount(feedback, domain)]

\* calibrate_category_with_feedback: both gates, then the lowest threshold
\* that clears the ceiling, then the fallback.
CalibrateCategory(feedback, domain) ==
    IF PassesGates(feedback, domain) /\ Qualifying(feedback, domain) # {}
    THEN Threshold(feedback, domain, Lowest(Qualifying(feedback, domain)), FALSE, TRUE)
    ELSE Threshold(feedback, domain, FALLBACK_THRESHOLD, TRUE, TRUE)

DomainsOf(feedback) == {feedback[i].domain : i \in 1..Len(feedback)}

\* fit_with_feedback_sweep: every domain of the feedback.
FitWithFeedbackSweep(feedback) ==
    [d \in DomainsOf(feedback) |-> CalibrateCategory(feedback, d)]

--------------------------------------------------------------------------------
\* fit_logistic_threshold, as <<ci_upper>>, or << >> where it raises: for less
\* than two points or one class only, and whenever the optimizer does not
\* converge or finds that similarity does not speak for safety.
LogisticFits(feedback, domain) ==
    {<< >>} \cup (IF SampleSize(feedback, domain) < 2 \/ MinorityCount(feedback, domain) = 0
                  THEN {} ELSE {<<end>> : end \in LogisticEnds})

\* One domain of AdaptiveThresholdEngine.fit: both gates, then the upper end of
\* the interval around the fitted threshold, then the fallback.
FitCategory(feedback, domain, found) ==
    IF PassesGates(feedback, domain) /\ found # << >>
    THEN Threshold(feedback, domain, found[1], FALSE, FALSE)
    ELSE Threshold(feedback, domain, FALLBACK_THRESHOLD, TRUE, FALSE)

\* fit, given what the optimizer finds for each domain.
Fit(feedback, found) == [d \in DomainsOf(feedback) |-> FitCategory(feedback, d, found[d])]

Fits(feedback) ==
    LET finds == UNION {LogisticFits(feedback, d) : d \in DomainsOf(feedback)}
    IN {Fit(feedback, found) : found \in
            {f \in [DomainsOf(feedback) -> finds] :
                \A d \in DomainsOf(feedback) : f[d] \in LogisticFits(feedback, d)}}
--------------------------------------------------------------------------------

\* AdaptiveThresholdEngine.get_threshold: an unknown domain, and a fitted one
\* that fails this engine's gates, use the fallback; a stored fallback keeps
\* its own operating threshold.
OperatingThreshold(engine, domain) ==
    IF domain \notin DOMAIN engine THEN FALLBACK_THRESHOLD
    ELSE IF /\ ~engine[domain].is_fallback
            /\ \/ engine[domain].sample_size < MINIMUM_CATEGORY_N
               \/ engine[domain].minority < MINIMUM_MINORITY_CLASS_N
    THEN FALLBACK_THRESHOLD ELSE engine[domain].operating

ThresholdDecisionResult(decision, score, operating, domain) ==
    [decision |-> decision, similarity_score |-> score, operating_threshold |-> operating, domain |-> domain]

\* AdaptiveThresholdEngine.decide.
EngineDecides(engine, score, domain) ==
    LET operating == OperatingThreshold(engine, domain)
        decision == IF score >= operating THEN "REUSE" ELSE "BYPASS"
    IN ThresholdDecisionResult(decision, score, operating, domain).decision = "REUSE"
================================================================================
