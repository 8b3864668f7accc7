---------------------------------- MODULE Lru ----------------------------------
(***************************************************************************)
(* A bounded least-recently-used map, as the in-memory cache and the       *)
(* SQLite store both keep one: the map itself and the relation `order',    *)
(* where <<j, k>> \in order when j is to be evicted before k.  A payload   *)
(* is the number of its bytes.                                             *)
(***************************************************************************)
EXTENDS Integers, FiniteSets

CONSTANTS MaxEntries, MaxBytes,   \* max_entries, max_bytes
          MaxSize                 \* bound: the largest payload considered

ASSUME BoundsAssumption ==
    /\ MaxEntries \in Nat \ {0}
    /\ MaxBytes \in Nat \ {0}
    /\ MaxSize \in Nat

\* The bytes of the payloads of the entries S of m, counted as pairs.
BytesOf(m, S) ==
    Cardinality({cell \in S \X (1..MaxSize) : cell[2] <= m[cell[1]].payload_bytes})

Keep(m, S) == [k \in S |-> m[k]]
KeepOrder(order, S) == order \cap (S \X S)

\* Mutant: move_to_end(k, last=False).
MoveToFront(order, S, k) ==
    {p \in order : p[1] # k /\ p[2] # k} \cup {<<k, j>> : j \in S \ {k}}

\* k is the most recently used of S.
MoveToEnd(order, S, k) ==
    {p \in order : p[1] # k /\ p[2] # k} \cup {<<j, k>> : j \in S \ {k}}

\* What evicting the oldest entry `while over the bounds' leaves of m: an
\* entry stays once dropping all that is older brings both counts in bounds.
Survivors(m, order, bytes) ==
    {k \in DOMAIN m :
        LET dropped == {j \in DOMAIN m : <<j, k>> \in order} IN
        /\ Cardinality(DOMAIN m \ dropped) <= MaxEntries
        /\ bytes - BytesOf(m, dropped) <= MaxBytes}
================================================================================
