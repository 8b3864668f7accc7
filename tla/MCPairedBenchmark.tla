--------------------------- MODULE MCPairedBenchmark ---------------------------
(* Two wordings of one question, a third that is close to one of them, the    *)
(* first one asked by another tenant, and a request the policy refuses.       *)
EXTENDS PairedBenchmark, TLC

CONSTANTS ask, reword, near, other, personal

MCRequests == {ask, reword, near, other, personal}
MCScopeOf == [q \in MCRequests |-> IF q = other THEN "tenant-b" ELSE "tenant-a"]
MCCacheable == [q \in MCRequests |-> q # personal]
MCSimilarity ==
    [p \in MCRequests |-> [q \in MCRequests |->
        IF p = q \/ {p, q} = {ask, other} THEN 100
        ELSE IF {p, q} = {ask, reword} THEN 90
        ELSE IF {p, q} = {ask, near} THEN 86
        ELSE IF near \in {p, q} THEN 84 ELSE 10]]

\* It approves, rejects, abstains without a call, raises or breaks its contract,
\* gives an answer that is not a verdict, and approves in spite of an error.
Verdict(calls, used, approved, error) ==
    [calls |-> calls, usage |-> used, approved |-> approved, error |-> error]
MCVerdicts ==
    {Verdict(1, 1, TRUE, FALSE), Verdict(1, 1, FALSE, FALSE), Verdict(0, 0, FALSE, FALSE),
     Verdict(1, 0, FALSE, TRUE), Verdict(1, 1, FALSE, TRUE), Verdict(1, 1, TRUE, TRUE)}
================================================================================
