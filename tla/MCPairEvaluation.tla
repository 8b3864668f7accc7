--------------------------- MODULE MCPairEvaluation ---------------------------
(* Pairs on every side of the boundaries, two domains, and one set-up of each *)
(* kind; the exact 95% binomial bounds for up to four hits, rounded up; one   *)
(* authored pair and two to label, which make feedback on either side of the  *)
(* gates and of the ceiling.                                                  *)
EXTENDS PairEvaluation

P(s, e, c, d, safe) == [score |-> s, effective |-> e, confidence |-> c, domain |-> d, safe |-> safe]
MCPairs == {P(92, "STABLE", 90, "cs", TRUE), P(92, "STABLE", 90, "cs", FALSE),
            P(91, "STABLE", 100, "cs", TRUE), P(91, "STABLE", 100, "cs", FALSE),
            P(60, "STABLE", 80, "cs", FALSE), P(95, "DYNAMIC", 100, "cs", TRUE),
            P(85, "STABLE", 89, "math", TRUE)}

S(step, engine_given, judge, run, bypass) ==
    [step |-> step, engine |-> engine_given, judge |-> judge, run_judge |-> run, bypass_all |-> bypass]
MCSetups == {S("none", FALSE, FALSE, TRUE, FALSE), S("weighted", FALSE, FALSE, TRUE, FALSE),
             S("blended", FALSE, TRUE, TRUE, FALSE), S("none", TRUE, FALSE, TRUE, FALSE),
             S("none", TRUE, TRUE, TRUE, FALSE), S("none", FALSE, FALSE, TRUE, TRUE)}

\* One row per number of hits, one column per number of unsafe ones.
UpperEnds == <<<<98, 100>>, <<85, 99, 100>>, <<71, 91, 100, 100>>, <<61, 81, 94, 100, 100>>>>
MCUpperBound == [fp \in 0..4 |-> [hits \in 1..4 |-> IF fp > hits THEN 100 ELSE UpperEnds[hits][fp + 1]]]

Authored == P(92, "STABLE", 90, "cs", TRUE)
High == P(91, "STABLE", 100, "cs", TRUE)
Low == P(60, "STABLE", 80, "cs", FALSE)
Other == P(85, "STABLE", 89, "math", TRUE)
MCRouterCounts == [tp |-> 1, fp |-> 0, fn |-> 0, tn |-> 0]
MCBenchmark == <<Authored>>
MCDatasets == {<<High, Low>>, <<Low, Other>>}
================================================================================
