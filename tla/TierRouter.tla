------------------------------- MODULE TierRouter -------------------------------
(***************************************************************************)
(* The three-way routing of a lookup and a classification                  *)
(* (src/src/decision/tier_router.py), and the local equivalence step that  *)
(* replaces the remote judge in some pipelines                             *)
(* (src/src/decision/local_equivalence.py).  Scores are in hundredths.     *)
(***************************************************************************)
EXTENDS Integers

Tiers == {"AUTO_REUSE", "AMBIGUOUS", "BYPASS"}

\* TierBoundaries: the similarity and confidence floors of AUTO_REUSE and the
\* ceilings below which a pair is bypassed.
TierBoundaries ==
    {b \in [auto_sim : 0..100, auto_conf : 0..100, bypass_sim : 0..100, bypass_conf : 0..100] :
        b.bypass_sim < b.auto_sim /\ b.bypass_conf < b.auto_conf}

DEFAULT_BOUNDARIES ==
    [auto_sim |-> 92, auto_conf |-> 90, bypass_sim |-> 50, bypass_conf |-> 80]

\* Mutant: the router trusts the similarity, whatever the gate has found.
MustBypassUngated(b, lookup, stability) ==
    lookup.store_size = 0 \/ lookup.score < b.bypass_sim

MustBypass(b, lookup, stability) ==
    \/ stability.effective # "STABLE"
    \/ lookup.store_size = 0
    \/ lookup.score < b.bypass_sim
    \/ stability.confidence < b.bypass_conf

MayAutoReuse(b, lookup, stability) ==
    lookup.score >= b.auto_sim /\ stability.confidence >= b.auto_conf

Route(b, lookup, stability) ==
    IF MustBypass(b, lookup, stability) THEN "BYPASS"
    ELSE IF MayAutoReuse(b, lookup, stability) THEN "AUTO_REUSE" ELSE "AMBIGUOUS"

--------------------------------------------------------------------------------
\* A wording is what the guards extract from a text: is it a creative request,
\* is it longer than the encoder's window, its numbers, whether it has a
\* negation, its proper names; key is its canonical form and text the text.
EvaluateLongPromptGuard(a, b) ==
    (a.long \/ b.long) => (a.text = b.text \/ (a.key # "" /\ a.key = b.key))

EntitiesDisagree(a, b) ==
    a.entities # {} /\ b.entities # {} /\ a.entities # b.entities

EvaluateRuleGuards(a, b) ==
    /\ ~a.generative /\ ~b.generative
    /\ EvaluateLongPromptGuard(a, b)
    /\ a.numbers = b.numbers
    /\ a.negated = b.negated
    /\ ~EntitiesDisagree(a, b)

\* A prediction outside [0, 1] is taken for a logit and squashed; one inside is
\* taken for a probability as it is (hundredths).  In place of the logistic
\* function there is a coarse table of a few values, on both sides of the
\* threshold; no property depends on which.
EquivalenceScore(raw) ==
    IF raw < 0 THEN (IF raw < -200 THEN 10 ELSE 40)
    ELSE IF raw > 100 THEN (IF raw < 140 THEN 75 ELSE IF raw < 250 THEN 85 ELSE 95)
    ELSE raw

\* LocalEquivalenceDecisionStep.decide without the fallback to the judge.
LocalDecision(a, b, raw, threshold) ==
    IF EvaluateRuleGuards(a, b) /\ EquivalenceScore(raw) >= threshold
    THEN "REUSE" ELSE "BYPASS"
================================================================================
