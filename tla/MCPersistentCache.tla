--------------------------- MODULE MCPersistentCache ---------------------------
(* Two processes, one of two threads and one of one; two keys of two tenants. *)
EXTENDS PersistentCache, TLC

CONSTANTS c1, c2, c3, k1, k2, t1, t2, p1, p2

MCProcessOf == [c \in Callers |-> IF c = c3 THEN p2 ELSE p1]
MCTenantOf == [k \in Keys |-> IF k = k2 THEN t2 ELSE t1]
\* The two threads of p1 are alike.
MCSymmetry == Permutations({c1, c2})

MCLockOf == [c \in Callers |-> [k \in Keys |-> MCProcessOf[c]]]
================================================================================
