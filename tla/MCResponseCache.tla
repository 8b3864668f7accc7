---------------------------- MODULE MCResponseCache ----------------------------
(* Two callers, two keys of one tenant that share a stripe, and a third key of *)
(* another tenant with a stripe of its own.                                    *)
EXTENDS ResponseCache

CONSTANTS c1, c2, k1, k2, k3, t1, t2, s1, s2

MCTenantOf == [k \in Keys |-> IF k = k3 THEN t2 ELSE t1]
MCLockOf == [c \in Callers |-> [k \in Keys |-> IF k = k3 THEN s2 ELSE s1]]
================================================================================
