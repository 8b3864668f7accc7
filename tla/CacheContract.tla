----------------------------- MODULE CacheContract -----------------------------
(***************************************************************************)
(* What an exact-response cache promises its callers, whatever it keeps    *)
(* and however it coordinates: a HIT is an answer that is stored for the   *)
(* caller's own key, an answer becomes stored only when nothing has        *)
(* invalidated its tenant since the provider was asked for it, and an      *)
(* invalidation removes every stored answer of the tenants it names.       *)
(* Forgetting (expiry, eviction, a failed store) is always allowed.        *)
(* ResponseCache and PersistentCache implement this module.                *)
(***************************************************************************)
CONSTANTS Callers,   \* the threads that call process()
          Keys,      \* digests of (tenant, request, context)
          Tenants,
          TenantOf,  \* the tenant whose requests have this key
          NoKey      \* what a caller asks for between two requests

VARIABLES stored,    \* the keys whose answer may be served
          stage,     \* what each caller is doing
          asks,      \* the key of each caller's latest request
          fresh,     \* callers whose answer was asked for after the last
                     \* invalidation of their tenant
          reply      \* status of each caller's latest answer

vars == <<stored, stage, asks, fresh, reply>>

Stages == {"idle", "waiting", "generating"}
Replies == {"none", "HIT", "RESOLVED", "MISS", "BYPASS", "ERROR"}

TypeOK ==
    /\ stored \subseteq Keys
    /\ stage \in [Callers -> Stages]
    /\ asks \in [Callers -> Keys \cup {NoKey}]
    /\ fresh \subseteq Callers
    /\ reply \in [Callers -> Replies]

Init ==
    /\ stored = {}
    /\ stage = [c \in Callers |-> "idle"]
    /\ asks = [c \in Callers |-> NoKey]
    /\ fresh = {}
    /\ reply = [c \in Callers |-> "none"]

Ask(c, k) ==
    /\ stage[c] = "idle"
    /\ stage' = [stage EXCEPT ![c] = "waiting"]
    /\ asks' = [asks EXCEPT ![c] = k]
    /\ reply' = [reply EXCEPT ![c] = "none"]
    /\ UNCHANGED <<stored, fresh>>

\* The provider is asked; whatever is stored meanwhile may be dropped.
Generate(c) ==
    /\ stage[c] = "waiting"
    /\ stage' = [stage EXCEPT ![c] = "generating"]
    /\ fresh' = fresh \cup {c}
    /\ UNCHANGED <<stored, asks, reply>>

Answer(c, status) ==
    /\ stage[c] # "idle"
    /\ stage' = [stage EXCEPT ![c] = "idle"]
    /\ reply' = [reply EXCEPT ![c] = status]
    /\ fresh' = fresh \ {c}
    /\ asks' = [asks EXCEPT ![c] = NoKey]

Serve(c) ==
    /\ stage[c] = "waiting"
    /\ asks[c] \in stored
    /\ Answer(c, "HIT")
    /\ UNCHANGED stored

\* A trusted extension of the cache may answer a miss by itself.
Resolve(c) ==
    /\ stage[c] = "waiting"
    /\ Answer(c, "RESOLVED")
    /\ UNCHANGED stored

ReplyAndStore(c) ==
    /\ c \in fresh
    /\ Answer(c, "MISS")
    /\ stored' \in SUBSET (stored \cup {asks[c]})
    /\ asks[c] \in stored'

ReplyOnly(c) ==
    /\ \E status \in {"MISS", "BYPASS", "ERROR"} : Answer(c, status)
    /\ UNCHANGED stored

Invalidate(scope) ==
    /\ stored' = {k \in stored : TenantOf[k] \notin scope}
    /\ fresh' = {c \in fresh : TenantOf[asks[c]] \notin scope}
    /\ UNCHANGED <<stage, asks, reply>>

\* Some callers are lost with their process.
Abandon(lost) ==
    /\ stage' = [c \in Callers |-> IF c \in lost THEN "idle" ELSE stage[c]]
    /\ asks' = [c \in Callers |-> IF c \in lost THEN NoKey ELSE asks[c]]
    /\ reply' = [c \in Callers |-> IF c \in lost THEN "none" ELSE reply[c]]
    /\ fresh' = fresh \ lost
    /\ UNCHANGED stored

Forget ==
    /\ stored' \in SUBSET stored
    /\ UNCHANGED <<stage, asks, fresh, reply>>

Next ==
    \/ \E c \in Callers :
        \/ \E k \in Keys : Ask(c, k)
        \/ Generate(c)
        \/ Serve(c)
        \/ Resolve(c)
        \/ ReplyAndStore(c)
        \/ ReplyOnly(c)
    \/ \E scope \in SUBSET Tenants : Invalidate(scope)
    \/ \E lost \in SUBSET Callers : Abandon(lost)
    \/ Forget

Spec == Init /\ [][Next]_vars
================================================================================
