----------------------------- MODULE ResponseCache -----------------------------
(***************************************************************************)
(* ScopedResponseCache of src/src/policy/response_cache.py with its        *)
(* entries in memory (storage=None).  A step of a caller is what it does   *)
(* between two points where another thread can interfere: a stripe         *)
(* acquired, one critical section of _lock, a provider call begun or       *)
(* ended.  The OrderedDict is the function entries and its order older.    *)
(***************************************************************************)
EXTENDS CacheCalls

CONSTANTS TTL,                  \* ttl_seconds
          MaxClock, MaxEpoch    \* bounds of the model

\* One process: everybody takes the same stripe for a key.
ASSUME ResponseCacheAssumption ==
    /\ TTL \in Nat \ {0}
    /\ {MaxClock, MaxEpoch} \subseteq Nat
    /\ \A c, d \in Callers, k \in Keys : LockOf[c][k] = LockOf[d][k]

VARIABLES
    entries,         \* _entries: key -> [expires_at, payload_bytes, born]
    older,           \* the order of _entries
    payload_bytes,   \* _payload_bytes
    clock            \* _clock()

store == <<entries, older, payload_bytes>>
vars == <<store, epoch, clock, callVars, invalidations>>

Entry == [expires_at : Nat, payload_bytes : 1..MaxSize, born : Nat]

Init ==
    /\ entries = [k \in {} |-> 0]
    /\ older = {}
    /\ payload_bytes = 0
    /\ clock = 0
    /\ CallsInit

--------------------------------------------------------------------------------
Cached == DOMAIN entries
Live(k) == k \in Cached /\ entries[k].expires_at > clock

\* Mutant: the bytes of deleted entries are never given back.
DeleteKeepingBytes(S) ==
    /\ entries' = Keep(entries, Cached \ S)
    /\ older' = KeepOrder(older, Cached \ S)
    /\ UNCHANGED payload_bytes

\* Drop the entries S, giving back the bytes of each.
Delete(S) ==
    /\ entries' = Keep(entries, Cached \ S)
    /\ older' = KeepOrder(older, Cached \ S)
    /\ payload_bytes' = payload_bytes - BytesOf(entries, Cached \cap S)

\* Mutant: a stored answer is served whether or not it has expired.
LookupHitIgnoringExpiry(c) ==
    /\ pc[c] = "lookup"
    /\ key[c] \in Cached
    /\ older' = MoveToEnd(older, Cached, key[c])
    /\ Finish(c, "HIT")
    /\ UNCHANGED <<entries, payload_bytes, epoch, clock, invalidations>>

LookupHit(c) ==
    /\ pc[c] = "lookup"
    /\ Live(key[c])
    /\ older' = MoveToEnd(older, Cached, key[c])
    /\ Finish(c, "HIT")
    /\ UNCHANGED <<entries, payload_bytes, epoch, clock, invalidations>>

LookupMiss(c) ==
    /\ pc[c] = "lookup"
    /\ ~Live(key[c])
    /\ Delete({key[c]})
    /\ Missed(c)
    /\ UNCHANGED <<epoch, clock, invalidations>>

\* The last critical section of process(): insert, then evict down to the bounds.
Insert(c) ==
    /\ LET k     == key[c]
           entry == [expires_at |-> clock + TTL, payload_bytes |-> answer[c],
                     born |-> born[c]]
           more  == [j \in Cached \cup {k} |-> IF j = k THEN entry ELSE entries[j]]
           order == MoveToEnd(older, Cached \cup {k}, k)
           bytes == payload_bytes + answer[c]
           kept  == Survivors(more, order, bytes)
       IN /\ entries' = Keep(more, kept)
          /\ older' = KeepOrder(order, kept)
          /\ payload_bytes' = bytes - BytesOf(more, DOMAIN more \ kept)
    /\ Finish(c, "STORED")
    /\ UNCHANGED <<epoch, clock, invalidations>>

\* Mutant: an invalidation does not stop a generation in flight.
StoreIgnoringEpoch(c) ==
    /\ pc[c] = "admitting"
    /\ answer[c] \in 1..MaxBytes
    /\ Insert(c)

\* Mutant: an answer that could not be serialized is stored all the same.
StoreUnserialized(c) ==
    /\ pc[c] = "admitting"
    /\ answer[c] \in 0..MaxBytes
    /\ seen[c] = epoch
    /\ Insert(c)

Store(c) ==
    /\ pc[c] = "admitting"
    /\ answer[c] \in 1..MaxBytes
    /\ seen[c] = epoch
    /\ Insert(c)

NotAdmitted(c) ==
    /\ pc[c] = "admitting"
    /\ ~(answer[c] \in 1..MaxBytes /\ seen[c] = epoch)
    /\ Finish(c, "MISS")
    /\ UNCHANGED <<store, epoch, clock, invalidations>>

--------------------------------------------------------------------------------
\* invalidate(): one tenant or, with scope = Tenants, all of them.
Invalidate(scope) ==
    /\ epoch < MaxEpoch
    /\ Delete({k \in Cached : TenantOf[k] \in scope})
    /\ NextEpoch(scope)
    /\ UNCHANGED <<callVars, clock>>

\* Reading size drops what has expired.
Size ==
    /\ Delete({k \in Cached : ~Live(k)})
    /\ UNCHANGED <<epoch, clock, callVars, invalidations>>

Tick ==
    /\ clock < MaxClock
    /\ clock' = clock + 1
    /\ UNCHANGED <<store, epoch, callVars, invalidations>>

Step(c) ==
    \/ Proceed(c) /\ UNCHANGED <<store, epoch, clock, invalidations>>
    \/ LookupHit(c)
    \/ LookupMiss(c)
    \/ Store(c)
    \/ NotAdmitted(c)

Ask(c) ==
    /\ \E k \in Keys, cacheable \in BOOLEAN : Begin(c, k, cacheable)
    /\ UNCHANGED <<store, epoch, clock, invalidations>>

Next ==
    \/ \E c \in Callers : Ask(c) \/ Step(c)
    \/ \E scope \in Scopes : Invalidate(scope)
    \/ Size
    \/ Tick

Spec == Init /\ [][Next]_vars

\* A provider call ends (its client has a timeout) and a thread that can run
\* runs.  Requests are finite, so a waiting thread needs no stronger fairness
\* of its stripe's lock.
FairSpec == Spec /\ \A c \in Callers : WF_vars(Step(c))

--------------------------------------------------------------------------------
(* The properties. *)

TypeOK ==
    /\ CallsTypeOK
    /\ entries \in [Cached -> Entry]
    /\ Cached \subseteq Keys
    /\ older \subseteq Cached \X Cached
    /\ payload_bytes \in Int
    /\ clock \in Nat

\* "Invalidation increments an epoch so an in-flight generation cannot
\* repopulate invalidated data": whatever is cached was asked of the provider
\* after the last invalidation of its tenant.
NoStaleEntry == \A k \in Cached : entries[k].born = invalidations[TenantOf[k]]

\* "Storage is bounded": the running count of bytes, kept by additions and
\* subtractions in five places, is what the cached payloads add up to, and
\* neither it nor the number of entries is over its bound.
StorageBounded ==
    /\ payload_bytes = BytesOf(entries, Cached)
    /\ payload_bytes <= MaxBytes
    /\ Cardinality(Cached) <= MaxEntries

\* Identical misses are coalesced: while a caller that missed waits for the
\* provider, no other caller generates an answer for that key, and none is
\* cached behind its back.
MissesCoalesced ==
    \A c \in Callers : pc[c] \in {"missed", "calling", "admitting"} =>
        /\ key[c] \notin Cached
        /\ \A d \in Callers \ {c} :
              key[d] = key[c] => pc[d] \in {"queued", "bypass"}

\* `stored' is told truthfully: an answer reported as stored is in the cache
\* at that moment; the eviction that made room for it did not take it.
StoredIsCached ==
    [][\A c \in Callers : outcome[c] # "STORED" /\ outcome'[c] = "STORED"
            => key[c] \in Cached']_vars

\* No path out of process() keeps a stripe: every request is answered.
RequestsFinish == \A c \in Callers : pc[c] # "idle" ~> pc[c] = "idle"

\* Every behaviour of the cache is one CacheContract allows: hits only from
\* live answers of the own key, admissions only of answers whose generation
\* began after the last invalidation of their tenant, and nothing of an
\* invalidated tenant survives.
Contract == INSTANCE CacheContract WITH
    stored <- {k \in Cached : Live(k)},
    stage  <- [c \in Callers |-> Stage(c)],
    asks   <- key,
    fresh  <- Fresh,
    reply  <- [c \in Callers |-> Replied(c)]

ImplementsContract == Contract!Spec
================================================================================
