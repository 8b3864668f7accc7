---------------------------- MODULE PersistentCache ----------------------------
(***************************************************************************)
(* ScopedResponseCache with a SQLiteResponseStore                          *)
(* (src/src/policy/sqlite_store.py) shared by the processes of one host.   *)
(* Stripes are process-local: callers of different processes may generate  *)
(* for the same key at once.  Every use of the database is one BEGIN       *)
(* IMMEDIATE transaction, which may fail and is then rolled back.  A       *)
(* process may crash; the database, its epoch included, outlives it.       *)
(***************************************************************************)
EXTENDS CacheCalls

CONSTANTS Processes, ProcessOf,  \* the process each caller runs in
          TTL,                   \* ttl_seconds
          MaxClock, MaxEpoch,    \* bounds of the model
          MaxCrashes

ASSUME PersistentCacheAssumption ==
    /\ ProcessOf \in [Callers -> Processes]
    /\ TTL \in Nat \ {0}
    /\ {MaxClock, MaxEpoch, MaxCrashes} \subseteq Nat
    /\ \A c, d \in Callers, k, l \in Keys :
          /\ ProcessOf[c] = ProcessOf[d] => LockOf[c][k] = LockOf[d][k]
          /\ LockOf[c][k] = LockOf[d][l] => ProcessOf[c] = ProcessOf[d]

VARIABLES
    entries,   \* table entries: key -> [expires, payload_bytes, born]
    touched,   \* the order of its column touched
    clock,     \* time.time(), the same for all processes
    crashes    \* crashes so far

table == <<entries, touched>>
vars == <<table, clock, crashes, callVars, epoch, invalidations>>

Entry == [expires : Nat, payload_bytes : 1..MaxSize, born : Nat]

Init ==
    /\ entries = [k \in {} |-> 0]
    /\ touched = {}
    /\ clock = 0
    /\ crashes = 0
    /\ CallsInit

--------------------------------------------------------------------------------
Rows == DOMAIN entries
Live == {k \in Rows : entries[k].expires > clock}

\* The table becomes m, whose rows are in this order.
Write(m, order) == entries' = m /\ touched' = KeepOrder(order, DOMAIN m)

Purged == Keep(entries, Live)

\* SQLiteResponseStore.lookup finds a row: it is touched, and served.
LookupHit(c) ==
    /\ pc[c] = "lookup"
    /\ key[c] \in Live
    /\ Write(Purged, MoveToEnd(touched, Live, key[c]))
    /\ Finish(c, "HIT")
    /\ UNCHANGED <<clock, crashes, epoch, invalidations>>

\* The row that was found does not hold an admissible answer: the request is
\* answered without the cache, and the row stays.
LookupUnusable(c) ==
    /\ pc[c] = "lookup"
    /\ key[c] \in Live
    /\ Write(Purged, MoveToEnd(touched, Live, key[c]))
    /\ Goto(c, "bypass")
    /\ UNCHANGED <<clock, crashes, epoch, invalidations, holder, key, seen,
                   answer, outcome, begun, born>>

LookupMiss(c) ==
    /\ pc[c] = "lookup"
    /\ key[c] \notin Live
    /\ Write(Purged, touched)
    /\ Missed(c)
    /\ UNCHANGED <<clock, crashes, epoch, invalidations>>

\* The transaction fails: locked for longer than the timeout, an I/O error,
\* another deployment's database.
LookupFails(c) ==
    /\ pc[c] = "lookup"
    /\ Goto(c, "bypass")
    /\ UNCHANGED <<table, clock, crashes, epoch, invalidations, holder, key,
                   seen, answer, outcome, begun, born>>

\* Mutant: INSERT OR IGNORE, which keeps the row another process has inserted.
InsertOrIgnore(c) ==
    /\ LET k     == key[c]
           entry == [expires |-> clock + TTL, payload_bytes |-> answer[c],
                     born |-> born[c]]
           more  == [j \in Live \cup {k} |-> IF j \in Live THEN entries[j] ELSE entry]
           order == MoveToEnd(touched, Live \cup {k}, k)
       IN Write(Keep(more, Survivors(more, order, BytesOf(more, DOMAIN more))), order)
    /\ Finish(c, "STORED")
    /\ UNCHANGED <<clock, crashes, epoch, invalidations>>

\* INSERT OR REPLACE, then DELETE the oldest until the sums are in bounds.
Insert(c) ==
    /\ LET k     == key[c]
           entry == [expires |-> clock + TTL, payload_bytes |-> answer[c],
                     born |-> born[c]]
           more  == [j \in Live \cup {k} |-> IF j = k THEN entry ELSE entries[j]]
           order == MoveToEnd(touched, Live \cup {k}, k)
       IN Write(Keep(more, Survivors(more, order, BytesOf(more, DOMAIN more))), order)
    /\ Finish(c, "STORED")
    /\ UNCHANGED <<clock, crashes, epoch, invalidations>>

\* Mutant: the epoch is checked before the transaction, not in it.
AdmitIgnoringEpoch(c) ==
    /\ pc[c] = "admitting"
    /\ answer[c] \in 1..MaxBytes
    /\ Insert(c)

\* Mutant: expired and evictable rows are left for the next lookup.
AdmitWithoutEviction(c) ==
    /\ pc[c] = "admitting"
    /\ answer[c] \in 1..MaxBytes
    /\ seen[c] = epoch
    /\ LET k == key[c]
           entry == [expires |-> clock + TTL, payload_bytes |-> answer[c],
                     born |-> born[c]]
       IN Write([j \in Live \cup {k} |-> IF j = k THEN entry ELSE entries[j]],
                MoveToEnd(touched, Live \cup {k}, k))
    /\ Finish(c, "STORED")
    /\ UNCHANGED <<clock, crashes, epoch, invalidations>>

\* SQLiteResponseStore.admit
Admit(c) ==
    /\ pc[c] = "admitting"
    /\ answer[c] \in 1..MaxBytes
    /\ seen[c] = epoch
    /\ Insert(c)

\* Nothing to store, too big, an epoch that has passed, or a failed transaction.
NotAdmitted(c) ==
    /\ pc[c] = "admitting"
    /\ Finish(c, "MISS")
    /\ UNCHANGED <<table, clock, crashes, epoch, invalidations>>

--------------------------------------------------------------------------------
\* Mutant: the tenant's rows are deleted, but a generation in flight goes on.
InvalidateKeepingEpoch(scope) ==
    /\ epoch < MaxEpoch
    /\ LET left == {k \in Rows : TenantOf[k] \notin scope}
       IN Write(Keep(entries, left), touched)
    /\ invalidations' = [t \in Tenants |->
            IF t \in scope THEN invalidations[t] + 1 ELSE invalidations[t]]
    /\ UNCHANGED <<callVars, clock, crashes, epoch>>

\* SQLiteResponseStore.invalidate, by any process; a failure changes nothing.
Invalidate(scope) ==
    /\ epoch < MaxEpoch
    /\ NextEpoch(scope)
    /\ LET left == {k \in Rows : TenantOf[k] \notin scope}
       IN Write(Keep(entries, left), touched)
    /\ UNCHANGED <<callVars, clock, crashes>>

\* SQLiteResponseStore.size
Size ==
    /\ Write(Purged, touched)
    /\ UNCHANGED <<callVars, clock, crashes, epoch, invalidations>>

\* Time passes; nobody sets the clock back.
Tick ==
    /\ clock < MaxClock
    /\ clock' = clock + 1
    /\ UNCHANGED <<table, crashes, callVars, epoch, invalidations>>

\* A process ends with everything its callers were doing, and starts anew.
Crash(p) ==
    LET lost == {c \in Callers : ProcessOf[c] = p} IN
    /\ crashes < MaxCrashes
    /\ crashes' = crashes + 1
    /\ pc' = [c \in Callers |-> IF c \in lost THEN "idle" ELSE pc[c]]
    /\ key' = [c \in Callers |-> IF c \in lost THEN NoKey ELSE key[c]]
    /\ seen' = [c \in Callers |-> IF c \in lost THEN 0 ELSE seen[c]]
    /\ answer' = [c \in Callers |-> IF c \in lost THEN 0 ELSE answer[c]]
    /\ born' = [c \in Callers |-> IF c \in lost THEN 0 ELSE born[c]]
    /\ outcome' = [c \in Callers |-> IF c \in lost THEN "none" ELSE outcome[c]]
    /\ holder' = [l \in Locks |-> IF holder[l] \in lost THEN NoCaller ELSE holder[l]]
    /\ UNCHANGED <<table, clock, begun, epoch, invalidations>>

Step(c) ==
    \/ Proceed(c) /\ UNCHANGED <<table, clock, crashes, epoch, invalidations>>
    \/ LookupHit(c)
    \/ LookupUnusable(c)
    \/ LookupMiss(c)
    \/ LookupFails(c)
    \/ Admit(c)
    \/ NotAdmitted(c)

Ask(c) ==
    /\ \E k \in Keys, cacheable \in BOOLEAN : Begin(c, k, cacheable)
    /\ UNCHANGED <<table, clock, crashes, epoch, invalidations>>

Next ==
    \/ \E c \in Callers : Ask(c) \/ Step(c)
    \/ \E scope \in Scopes : Invalidate(scope)
    \/ Size
    \/ Tick
    \/ \E p \in Processes : Crash(p)

Spec == Init /\ [][Next]_vars

--------------------------------------------------------------------------------
(* The properties. *)

TypeOK ==
    /\ CallsTypeOK
    /\ entries \in [Rows -> Entry]
    /\ Rows \subseteq Keys
    /\ touched \subseteq Rows \X Rows
    /\ clock \in Nat
    /\ crashes \in Nat

\* "Coordination works across local processes": no row survives, or comes
\* after, an invalidation of its tenant by whatever process, in spite of
\* crashes, failed transactions and generations in other processes.
NoStaleRow == \A k \in Rows : entries[k].born = invalidations[TenantOf[k]]

\* After every transaction of any process the table is within the bounds, and
\* no two rows are equally recent, so that eviction has an order.
TableBounded ==
    /\ Cardinality(Rows) <= MaxEntries
    /\ BytesOf(entries, Rows) <= MaxBytes
    /\ \A j, k \in Rows : j # k => (<<j, k>> \in touched <=> <<k, j>> \notin touched)

\* "Provider single-flight remains process-local": within a process, misses of
\* a key are generated one at a time; this is all a process can promise.
CoalescedInProcess ==
    \A c, d \in Callers :
        /\ c # d
        /\ ProcessOf[c] = ProcessOf[d]
        /\ key[c] = key[d]
        /\ pc[c] \in {"missed", "calling", "admitting"}
        => pc[d] \in {"queued", "bypass"}

\* `stored' is told truthfully although admissions of one key compete, are
\* refused or fail: an answer reported as stored is, when its transaction ends,
\* the one in the table, whatever another process had put there before.
StoredIsCached ==
    [][\A c \in Callers : outcome[c] # "STORED" /\ outcome'[c] = "STORED"
            => /\ key[c] \in Rows'
               /\ entries'[key[c]].payload_bytes = answer[c]
               /\ entries'[key[c]].expires = clock + TTL]_vars

\* The store that persists keeps the promise of CacheContract too: its crashes
\* lose callers, never the freshness of what is served.
Contract == INSTANCE CacheContract WITH
    stored <- Live,
    stage  <- [c \in Callers |-> Stage(c)],
    asks   <- key,
    fresh  <- Fresh,
    reply  <- [c \in Callers |-> Replied(c)]

ImplementsContract == Contract!Spec
================================================================================
