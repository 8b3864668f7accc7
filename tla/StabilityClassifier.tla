-------------------------- MODULE StabilityClassifier --------------------------
(***************************************************************************)
(* The stability gate of the research pipeline                             *)
(* (src/src/classifier).  A query is what the regular expressions of the   *)
(* rule engine and the fallback find in it: the text is never looked at    *)
(* again, so two queries with the same cues are classified alike.          *)
(* Probabilities and confidences are in hundredths.                        *)
(***************************************************************************)
EXTENDS Integers, FiniteSets

\* The answer-type patterns: none matches, only such as are excluded by their
\* second pattern, or one that is not.
AnswerTypes == {"none", "excluded", "plain"}

\* The volatility patterns match the whole query, or one clause of several.
Clauses == {"none", "volatile"}

\* What the patterns of rules.py and the model of fallback.py find in a query.
\*   clause    "volatile" if the query has several clauses and a dynamic
\*             pattern matches one of them, else "none"
\*   year      the earliest anchored calendar year: none, past or future
\*   era       "in NNNN", "who was", ... : the second test of a completed anchor
\*   p_dynamic the trained model's P(DYNAMIC)
Cues == [blank : BOOLEAN, clause : Clauses,
         year : {"none", "past", "future"}, live : BOOLEAN, named : BOOLEAN,
         volatile : BOOLEAN, era : BOOLEAN, answer : AnswerTypes,
         invariant : BOOLEAN, p_dynamic : 0..100]

Labels == {"STABLE", "DYNAMIC", "CONDITIONALLY_STABLE", "UNCERTAIN"}
Policies == {"FORWARD_TO_CACHE_CANDIDATE", "CONSERVATIVE_BYPASS"}
STABLE_CONFIDENCE_THRESHOLD == 80

StabilityResult == [label : Labels, effective : {"STABLE", "DYNAMIC"},
                    confidence : 0..100, source : {"RULE", "FALLBACK"}]

--------------------------------------------------------------------------------
\* The rule engine: the first rule that matches decides.
HasCompletedTemporalAnchor(c) == ~c.live /\ (c.year = "past" \/ c.era)

HistoricalGuard(c) == (c.year = "past" \/ c.named) /\ ~c.live

AnswerTypeIsVolatile(c) == c.answer = "plain" /\ ~HasCompletedTemporalAnchor(c)

EvaluateRules(c) ==
    IF c.clause = "volatile" THEN "DYNAMIC"
    ELSE IF HistoricalGuard(c) THEN "STABLE"
    ELSE IF c.volatile \/ AnswerTypeIsVolatile(c) THEN "DYNAMIC"
    ELSE IF c.invariant THEN "STABLE"
    ELSE "UNCERTAIN"

--------------------------------------------------------------------------------
\* The fallback of every program, TrainedLexicalClassifier.predict (the query
\* is never blank here).
TrainedPrediction(c) ==
    IF c.p_dynamic >= 50 THEN [label |-> "DYNAMIC", confidence |-> c.p_dynamic]
    ELSE [label |-> "STABLE", confidence |-> 100 - c.p_dynamic]

--------------------------------------------------------------------------------
\* A conditional label is cacheable or not according to the policy.
Effective(label, policy) ==
    IF label = "CONDITIONALLY_STABLE"
    THEN IF policy = "CONSERVATIVE_BYPASS" THEN "DYNAMIC" ELSE "STABLE"
    ELSE label

\* A rule's verdict stands as it is, with confidence 1.0.
FromRule(label, policy) ==
    [label |-> label, effective |-> Effective(label, policy),
     confidence |-> 100, source |-> "RULE"]

\* A fallback's STABLE below the confidence threshold is overridden to DYNAMIC
\* and keeps its confidence.
FromFallback(p, policy) ==
    [label |-> p.label,
     effective |-> IF /\ Effective(p.label, policy) = "STABLE"
                      /\ p.confidence < STABLE_CONFIDENCE_THRESHOLD
                   THEN "DYNAMIC" ELSE Effective(p.label, policy),
     confidence |-> p.confidence, source |-> "FALLBACK"]

Classify(c, policy) ==
    IF c.blank
    THEN [label |-> "UNCERTAIN", effective |-> "DYNAMIC",
          confidence |-> 100, source |-> "RULE"]
    ELSE IF EvaluateRules(c) # "UNCERTAIN" THEN FromRule(EvaluateRules(c), policy)
    ELSE FromFallback(TrainedPrediction(c), policy)
================================================================================
