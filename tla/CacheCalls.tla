------------------------------- MODULE CacheCalls ------------------------------
(***************************************************************************)
(* ScopedResponseCache.process of src/src/policy/response_cache.py, apart  *)
(* from what it does to its storage: the callers (threads), their stripes, *)
(* the eligibility policy and the provider call.  ResponseCache adds the   *)
(* storage in memory, PersistentCache the SQLite store.  A request is its  *)
(* key, the digest of tenant, body and key_context.                        *)
(***************************************************************************)
EXTENDS Lru

CONSTANTS
    Callers, Keys, Tenants,
    TenantOf,             \* the tenant in a key
    Locks, LockOf,        \* the stripe a caller takes for a key
    NoKey, NoCaller,
    Sizes,                \* what serialized answers may weigh
    MaxRequests           \* bound of the requests made

ASSUME CallersAssumption ==
    /\ IsFiniteSet(Keys)
    /\ NoKey \notin Keys
    /\ NoCaller \notin Callers
    /\ TenantOf \in [Keys -> Tenants]
    /\ LockOf \in [Callers -> [Keys -> Locks]]
    /\ MaxRequests \in Nat
    /\ Sizes \subseteq 1..MaxSize

VARIABLES
    holder,          \* which caller holds each stripe
    pc,              \* where each caller is in process()
    key,             \* the key of each caller's request
    seen,            \* the epoch each caller read at its lookup
    answer,          \* bytes of the serialized answer, 0 if there is none
    outcome,         \* how each caller's last request ended
    begun,           \* requests begun so far
    epoch,           \* the invalidation epoch of the storage
    invalidations,   \* history: invalidations of each tenant so far
    born             \* history: that count when a caller's provider call began

callVars == <<holder, pc, key, seen, answer, outcome, begun, born>>

Points == {"idle", "queued", "lookup", "missed", "calling", "admitting", "bypass"}
Outcomes == {"none", "HIT", "RESOLVED", "MISS", "STORED", "BYPASS", "ERROR"}

CallsTypeOK ==
    /\ holder \in [Locks -> Callers \cup {NoCaller}]
    /\ pc \in [Callers -> Points]
    /\ key \in [Callers -> Keys \cup {NoKey}]
    /\ \A c \in Callers : key[c] \in Keys <=> pc[c] # "idle"
    /\ epoch \in Nat
    /\ seen \in [Callers -> Nat]
    /\ answer \in [Callers -> 0..MaxSize]
    /\ outcome \in [Callers -> Outcomes]
    /\ begun \in Nat
    /\ invalidations \in [Tenants -> Nat]
    /\ born \in [Callers -> Nat]

CallsInit ==
    /\ holder = [l \in Locks |-> NoCaller]
    /\ pc = [c \in Callers |-> "idle"]
    /\ key = [c \in Callers |-> NoKey]
    /\ seen = [c \in Callers |-> 0]
    /\ answer = [c \in Callers |-> 0]
    /\ outcome = [c \in Callers |-> "none"]
    /\ begun = 0
    /\ epoch = 0
    /\ invalidations = [t \in Tenants |-> 0]
    /\ born = [c \in Callers |-> 0]

--------------------------------------------------------------------------------
Goto(c, point) == pc' = [pc EXCEPT ![c] = point]

\* Mutant: the stripe is released only at the end of process(), not by the
\* returns and exceptions before it.
FinishKeepingStripe(c, status) ==
    /\ Goto(c, "idle")
    /\ outcome' = [outcome EXCEPT ![c] = status]
    /\ holder' = [l \in Locks |->
            IF holder[l] = c /\ status \in {"STORED", "MISS"} THEN NoCaller ELSE holder[l]]
    /\ key' = [key EXCEPT ![c] = NoKey]
    /\ seen' = [seen EXCEPT ![c] = 0]
    /\ answer' = [answer EXCEPT ![c] = 0]
    /\ born' = [born EXCEPT ![c] = 0]
    /\ UNCHANGED begun

\* The result of process(), or an exception: `with stripe' lets go of it.
Finish(c, status) ==
    /\ Goto(c, "idle")
    /\ outcome' = [outcome EXCEPT ![c] = status]
    /\ holder' = [l \in Locks |-> IF holder[l] = c THEN NoCaller ELSE holder[l]]
    /\ key' = [key EXCEPT ![c] = NoKey]
    /\ seen' = [seen EXCEPT ![c] = 0]
    /\ answer' = [answer EXCEPT ![c] = 0]
    /\ born' = [born EXCEPT ![c] = 0]
    /\ UNCHANGED begun

\* process() is called.  The eligibility policy is the application's: whenever
\* it is asked it may answer either way, or fail, which counts as a refusal.
\* With a bypass or a refusal the request never reaches the cache.
Begin(c, k, cacheable) ==
    /\ pc[c] = "idle"
    /\ begun < MaxRequests
    /\ begun' = begun + 1
    /\ key' = [key EXCEPT ![c] = k]
    /\ outcome' = [outcome EXCEPT ![c] = "none"]
    /\ Goto(c, IF cacheable THEN "queued" ELSE "bypass")
    /\ UNCHANGED <<holder, seen, answer, born>>

\* Mutant: process() without its stripe.
EnterWithoutStripe(c, cacheable) ==
    /\ pc[c] = "queued"
    /\ Goto(c, IF cacheable THEN "lookup" ELSE "bypass")
    /\ UNCHANGED <<holder, key, seen, answer, born, outcome, begun>>

\* `with stripe', then the policy is asked again.
Enter(c, cacheable) ==
    /\ pc[c] = "queued"
    /\ holder[LockOf[c][key[c]]] = NoCaller
    /\ holder' = [holder EXCEPT ![LockOf[c][key[c]]] = c]
    /\ Goto(c, IF cacheable THEN "lookup" ELSE "bypass")
    /\ UNCHANGED <<key, seen, answer, born, outcome, begun>>

\* The lookup found nothing to serve, and read the epoch.
Missed(c) ==
    /\ seen' = [seen EXCEPT ![c] = epoch]
    /\ Goto(c, "missed")
    /\ UNCHANGED <<holder, key, answer, born, outcome, begun>>

\* on_miss gave an answer (RESOLVED), raised, or gave one that is not valid (ERROR).
Resolve(c) ==
    /\ pc[c] = "missed"
    /\ \E status \in {"RESOLVED", "ERROR"} : Finish(c, status)

\* generate(): the provider is called.
Call(c) ==
    /\ pc[c] = "missed"
    /\ Goto(c, "calling")
    /\ born' = [born EXCEPT ![c] = invalidations[TenantOf[key[c]]]]
    /\ UNCHANGED <<holder, key, seen, answer, outcome, begun>>

\* The provider returns and the policy is asked once more; bytes = 0 is an
\* answer without response_json: refused, not admissible, or not serializable.
Return(c, bytes) ==
    /\ pc[c] = "calling"
    /\ answer' = [answer EXCEPT ![c] = bytes]
    /\ Goto(c, "admitting")
    /\ UNCHANGED <<holder, key, seen, born, outcome, begun>>

\* Provider exceptions propagate to the caller.
CallFails(c) ==
    /\ pc[c] \in {"calling", "bypass"}
    /\ Finish(c, "ERROR")

BypassReturns(c) ==
    /\ pc[c] = "bypass"
    /\ Finish(c, "BYPASS")

\* What a caller does between two uses of the storage.
Proceed(c) ==
    \/ \E cacheable \in BOOLEAN : Enter(c, cacheable)
    \/ Resolve(c)
    \/ Call(c)
    \/ \E bytes \in Sizes \cup {0} : Return(c, bytes)
    \/ CallFails(c)
    \/ BypassReturns(c)

\* The storage starts a new epoch (and history counts the tenants in scope).
NextEpoch(scope) ==
    /\ epoch' = epoch + 1
    /\ invalidations' = [t \in Tenants |->
            IF t \in scope THEN invalidations[t] + 1 ELSE invalidations[t]]

Scopes == {{t} : t \in Tenants} \cup {Tenants}

--------------------------------------------------------------------------------
\* How callers look to CacheContract.
Stage(c) ==
    IF pc[c] = "idle" THEN "idle"
    ELSE IF pc[c] \in {"calling", "admitting"} THEN "generating" ELSE "waiting"

Fresh ==
    {c \in Callers : Stage(c) = "generating" /\ born[c] = invalidations[TenantOf[key[c]]]}

Replied(c) == IF outcome[c] = "STORED" THEN "MISS" ELSE outcome[c]
================================================================================
