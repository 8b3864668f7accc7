---------------------------- MODULE MCGuardedCache -----------------------------
(* Two callers; a tenant with two similar queries, and another tenant; room for
   two candidates.                                                            *)
EXTENDS GuardedCache, TLC

CONSTANTS c1, c2, t1, t2, q1, q2, s1, s2, text

MCRequests == {<<t1, q1>>, <<t1, q2>>, <<t2, q1>>}
MCSizeOf == [x \in Texts |-> 2]
MCScore == [q \in Queries |-> [r \in Queries |-> IF q = r THEN 100 ELSE 90]]
MCSymmetry == Permutations(Callers)
================================================================================
