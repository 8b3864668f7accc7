-------------------------- MODULE ResponseCacheProofs --------------------------
(***************************************************************************)
(* Theorems about ResponseCache, for every set of callers, keys, tenants   *)
(* and stripes and every value of the bounds.                              *)
(***************************************************************************)
EXTENDS ResponseCache, CacheCallsProofs

\* Deleting entries keeps the map, its order and the count well typed.
LEMMA DeleteType ==
    ASSUME TypeOK, NEW S, Delete(S)
    PROVE  /\ entries' \in [Cached' -> Entry]
           /\ Cached' = Cached \ S
           /\ Cached' \subseteq Keys
           /\ older' \subseteq Cached' \X Cached'
           /\ payload_bytes' \in Int
           /\ \A k \in Cached' : entries'[k] = entries[k]
<1>1. /\ entries' \in [Cached \ S -> Entry]
      /\ Cached' = Cached \ S
      /\ \A k \in Cached' : entries'[k] = entries[k]
    BY DEF TypeOK, Delete, Keep, Cached
<1>2. older' \subseteq Cached' \X Cached'
    BY <1>1, KeepOrderType DEF Delete
<1>3. IsFiniteSet(Cached \cap S)
    BY CallersAssumption, FS_Subset DEF TypeOK
<1>4. payload_bytes' \in Int
    BY <1>3, BytesOfNat DEF TypeOK, Delete
<1> QED
    BY <1>1, <1>2, <1>4 DEF TypeOK

\* Inserting an answer and evicting down to the bounds.
LEMMA InsertType ==
    ASSUME TypeOK, NEW c \in Callers, pc[c] = "admitting",
           answer[c] \in 1..MaxBytes, Insert(c)
    PROVE  /\ entries' \in [Cached' -> Entry]
           /\ Cached' \subseteq Cached \cup {key[c]}
           /\ Cached' \subseteq Keys
           /\ older' \subseteq Cached' \X Cached'
           /\ payload_bytes' \in Int
           /\ \A k \in Cached' :
                  IF k = key[c]
                  THEN entries'[k].born = born[c] /\ entries'[k].expires_at = clock + TTL
                  ELSE entries'[k] = entries[k]
<1> DEFINE k     == key[c]
           entry == [expires_at |-> clock + TTL, payload_bytes |-> answer[c],
                     born |-> born[c]]
           more  == [j \in Cached \cup {k} |-> IF j = k THEN entry ELSE entries[j]]
           order == MoveToEnd(older, Cached \cup {k}, k)
           bytes == payload_bytes + answer[c]
           kept  == Survivors(more, order, bytes)
<1>1. k \in Keys
    BY DEF TypeOK, CallsTypeOK
<1>2. answer[c] \in 1..MaxSize
    BY DEF TypeOK, CallsTypeOK
<1>3. entry \in Entry
    BY <1>2, ResponseCacheAssumption DEF TypeOK, CallsTypeOK, Entry
<1>4. more \in [DOMAIN more -> Entry] /\ DOMAIN more = Cached \cup {k}
    BY <1>3 DEF TypeOK
<1>5. \A j \in DOMAIN more :
          IF j = k THEN more[j].born = born[c] /\ more[j].expires_at = clock + TTL
                   ELSE more[j] = entries[j]
    BY DEF Cached
<1>6. kept \subseteq DOMAIN more
    BY SurvivorsSubset
<1>7. /\ entries' = Keep(more, kept)
      /\ older' = KeepOrder(order, kept)
      /\ payload_bytes' = bytes - BytesOf(more, DOMAIN more \ kept)
    BY DEF Insert
<1> HIDE DEF kept, order, more
<1>8. /\ entries' \in [kept -> Entry]
      /\ Cached' = kept
      /\ \A j \in kept : entries'[j] = more[j]
    <2>1. /\ Keep(more, kept) \in [kept -> Entry]
          /\ DOMAIN Keep(more, kept) = kept
          /\ \A j \in kept : Keep(more, kept)[j] = more[j]
        BY <1>4, <1>6, KeepType
    <2> QED
        BY <1>7, <2>1 DEF Cached
<1>9. older' \subseteq Cached' \X Cached'
    BY <1>7, <1>8, KeepOrderType
<1>10. payload_bytes' \in Int
    <2>1. IsFiniteSet(DOMAIN more \ kept)
        BY <1>1, <1>4, CallersAssumption, FS_Subset DEF TypeOK
    <2> QED
        BY <1>2, <1>7, <2>1, BytesOfNat DEF TypeOK
<1>11. Cached' \subseteq Cached \cup {k} /\ Cached' \subseteq Keys
    BY <1>1, <1>4, <1>6, <1>8 DEF TypeOK
<1>12. \A j \in Cached' :
           IF j = k THEN entries'[j].born = born[c] /\ entries'[j].expires_at = clock + TTL
                    ELSE entries'[j] = entries[j]
    BY <1>5, <1>6, <1>8
<1> QED
    BY <1>8, <1>9, <1>10, <1>11, <1>12

--------------------------------------------------------------------------------
LEMMA InitType == Init => TypeOK
<1> SUFFICES ASSUME Init PROVE TypeOK
    OBVIOUS
<1>1. Cached = {} /\ entries \in [{} -> Entry]
    BY DEF Init, Cached
<1> QED
    BY <1>1, CallsInitType DEF Init, TypeOK

\* A step that leaves the storage alone.
LEMMA StorageSame ==
    ASSUME TypeOK, CallsTypeOK', UNCHANGED <<store, clock>>
    PROVE  TypeOK'
    BY DEF TypeOK, store, Cached

LEMMA StepType ==
    ASSUME TypeOK, NEW c \in Callers, Step(c)
    PROVE  TypeOK'
<1>0. CallsTypeOK
    BY DEF TypeOK
<1>1. CASE Proceed(c) /\ UNCHANGED <<store, epoch, clock, invalidations>>
    BY <1>0, <1>1, ProceedType, StorageSame
<1>2. CASE LookupHit(c)
    <2>1. CallsTypeOK'
        BY <1>0, <1>2, FinishType DEF LookupHit, Outcomes
    <2>2. key[c] \in Cached /\ Cached' = Cached
        BY <1>2 DEF LookupHit, Live, Cached
    <2>3. older' \subseteq Cached \X Cached
        BY <1>2, <2>2, MoveToEndType DEF LookupHit, TypeOK
    <2> QED
        BY <1>2, <2>1, <2>2, <2>3 DEF LookupHit, TypeOK
<1>3. CASE LookupMiss(c)
    <2>1. CallsTypeOK'
        BY <1>0, <1>3, MissedType DEF LookupMiss
    <2>2. Delete({key[c]}) /\ clock' = clock
        BY <1>3 DEF LookupMiss
    <2> QED
        BY <2>1, <2>2, DeleteType DEF TypeOK
<1>4. CASE Store(c)
    <2>1. /\ pc[c] = "admitting" /\ answer[c] \in 1..MaxBytes
          /\ Insert(c)
          /\ Finish(c, "STORED") /\ UNCHANGED <<epoch, clock, invalidations>>
        BY <1>4 DEF Store, Insert
    <2>2. CallsTypeOK'
        BY <1>0, <2>1, FinishType DEF Outcomes
    <2> QED
        BY <2>1, <2>2, InsertType DEF TypeOK
<1>5. CASE NotAdmitted(c)
    <2>1. CallsTypeOK'
        BY <1>0, <1>5, FinishType DEF NotAdmitted, Outcomes
    <2> QED
        BY <1>5, <2>1, StorageSame DEF NotAdmitted
<1> QED
    BY <1>1, <1>2, <1>3, <1>4, <1>5 DEF Step

LEMMA NextType == TypeOK /\ [Next]_vars => TypeOK'
<1> SUFFICES ASSUME TypeOK, [Next]_vars PROVE TypeOK'
    OBVIOUS
<1>0. CallsTypeOK
    BY DEF TypeOK
<1>1. ASSUME NEW c \in Callers, Ask(c) PROVE TypeOK'
    BY <1>0, <1>1, BeginType, StorageSame DEF Ask
<1>2. ASSUME NEW c \in Callers, Step(c) PROVE TypeOK'
    BY <1>2, StepType
<1>3. ASSUME NEW scope, Invalidate(scope) PROVE TypeOK'
    <2>1. /\ Delete({k \in Cached : TenantOf[k] \in scope})
          /\ NextEpoch(scope) /\ UNCHANGED callVars /\ clock' = clock
        BY <1>3 DEF Invalidate
    <2> QED
        BY <1>0, <2>1, DeleteType, NextEpochType DEF TypeOK
<1>4. ASSUME CallsTypeOK', NEW S, Delete(S), UNCHANGED clock PROVE TypeOK'
    BY <1>4, DeleteType DEF TypeOK
<1>5. ASSUME UNCHANGED <<callVars, epoch, invalidations>> PROVE CallsTypeOK'
    BY <1>0, <1>5 DEF CallsTypeOK, callVars
<1>6. CASE Size
    BY <1>4, <1>5, <1>6 DEF Size
<1>7. CASE Tick
    BY <1>5, <1>7 DEF Tick, TypeOK, store, Cached
<1>8. CASE UNCHANGED vars
    BY <1>5, <1>8, StorageSame DEF vars
<1> QED
    BY <1>1, <1>2, <1>3, <1>6, <1>7, <1>8 DEF Next

\* Every variable of the cache keeps its type, whatever the callers do.
THEOREM TypeCorrect == Spec => []TypeOK
    BY InitType, NextType, PTL DEF Spec

--------------------------------------------------------------------------------
LEMMA LocksStep ==
    ASSUME TypeOK, LocksHeld, [Next]_vars
    PROVE  LocksHeld'
<1>0. CallsTypeOK
    BY DEF TypeOK
<1>1. ASSUME NEW c \in Callers, NEW status, Finish(c, status) PROVE LocksHeld'
    BY <1>0, <1>1, FinishLocks
<1>2. ASSUME NEW c \in Callers, Ask(c) PROVE LocksHeld'
    BY <1>0, <1>2, BeginLocks DEF Ask
<1>3. ASSUME NEW c \in Callers, Step(c) PROVE LocksHeld'
    BY <1>0, <1>1, <1>3, ProceedLocks, MissedLocks DEF Step, LookupHit,
       LookupMiss, Store, Insert, NotAdmitted
<1>4. ASSUME UNCHANGED callVars PROVE LocksHeld'
    BY <1>4 DEF callVars, LocksHeld, InStripe
<1> QED
    BY <1>2, <1>3, <1>4 DEF Next, Invalidate, Size, Tick, vars

LEMMA EpochsStep ==
    ASSUME TypeOK, EpochsSeen, [Next]_vars
    PROVE  EpochsSeen'
<1>0. CallsTypeOK
    BY DEF TypeOK
<1>1. ASSUME NEW c \in Callers, Ask(c) PROVE EpochsSeen'
    BY <1>0, <1>1, BeginEpochs DEF Ask
<1>2. ASSUME NEW c \in Callers, Step(c) PROVE EpochsSeen'
    BY <1>0, <1>2, ProceedEpochs, MissedEpochs, FinishEpochs DEF Step,
       LookupHit, LookupMiss, Store, Insert, NotAdmitted
<1>3. ASSUME NEW scope, Invalidate(scope) PROVE EpochsSeen'
    BY <1>0, <1>3, NextEpochEpochs DEF Invalidate
<1>4. ASSUME UNCHANGED <<callVars, epoch, invalidations>> PROVE EpochsSeen'
    BY <1>4 DEF callVars, EpochsSeen
<1> QED
    BY <1>1, <1>2, <1>3, <1>4 DEF Next, Size, Tick, vars

--------------------------------------------------------------------------------
\* A key that is being generated is not cached: only the holder of its stripe
\* stores it, after its lookup dropped what there was.
MissesAbsent ==
    \A c \in Callers :
        pc[c] \in {"missed", "calling", "admitting"} => key[c] \notin Cached

\* A step that finishes c's request and caches no new key but c's own.
LEMMA FinishAbsent ==
    ASSUME TypeOK, LocksHeld, MissesAbsent, NEW c \in Callers, NEW status,
           Finish(c, status), InStripe(c) \/ Cached' \subseteq Cached,
           Cached' \subseteq Cached \cup {key[c]}
    PROVE  MissesAbsent'
<1> SUFFICES ASSUME NEW d \in Callers, pc'[d] \in {"missed", "calling", "admitting"}
             PROVE  key'[d] \notin Cached'
    BY DEF MissesAbsent
<1>1. /\ d # c
      /\ key'[d] = key[d] /\ key[d] \in Keys
      /\ pc[d] \in {"missed", "calling", "admitting"}
    BY DEF Finish, Goto, TypeOK, CallsTypeOK
<1>2. key[d] \notin Cached
    BY <1>1 DEF MissesAbsent
<1>3. InStripe(c) => key[d] # key[c]
    BY <1>1, ResponseCacheAssumption DEF LocksHeld, InStripe
<1> QED
    BY <1>1, <1>2, <1>3

LEMMA AbsentStep ==
    ASSUME TypeOK, LocksHeld, MissesAbsent, [Next]_vars
    PROVE  MissesAbsent'
<1>1. ASSUME NEW c \in Callers, NEW status, Finish(c, status), UNCHANGED entries
      PROVE  MissesAbsent'
    <2>1. Cached' = Cached
        BY <1>1 DEF Cached
    <2> QED
        BY <1>1, <2>1, FinishAbsent
<1>2. ASSUME NEW c \in Callers, LookupMiss(c) PROVE MissesAbsent'
    <2>1. Cached' = Cached \ {key[c]}
        BY <1>2, DeleteType DEF LookupMiss
    <2> QED
        BY <1>2, <2>1 DEF LookupMiss, Missed, Goto, TypeOK, CallsTypeOK, MissesAbsent
<1>3. ASSUME NEW c \in Callers, Store(c) PROVE MissesAbsent'
    <2>1. Finish(c, "STORED") /\ InStripe(c)
        BY <1>3 DEF Store, Insert, InStripe
    <2>2. Cached' \subseteq Cached \cup {key[c]}
        BY <1>3, InsertType DEF Store
    <2> QED
        BY <2>1, <2>2, FinishAbsent
<1>4. ASSUME NEW c \in Callers, Proceed(c), UNCHANGED entries PROVE MissesAbsent'
    <2>1. ASSUME NEW cacheable \in BOOLEAN, Enter(c, cacheable) PROVE MissesAbsent'
        BY <1>4, <2>1 DEF Enter, Goto, TypeOK, CallsTypeOK, MissesAbsent, Cached
    <2>2. ASSUME Call(c) \/ \E bytes \in Sizes \cup {0} : Return(c, bytes)
          PROVE  MissesAbsent'
        BY <1>4, <2>2 DEF Call, Return, Goto, TypeOK, CallsTypeOK, MissesAbsent, Cached
    <2> QED
        BY <1>1, <1>4, <2>1, <2>2 DEF Proceed, Resolve, CallFails, BypassReturns
<1>5. ASSUME NEW c \in Callers, Ask(c) PROVE MissesAbsent'
    BY <1>5 DEF Ask, Begin, Goto, TypeOK, CallsTypeOK, MissesAbsent, store, Cached
<1>6. ASSUME NEW c \in Callers, Step(c) PROVE MissesAbsent'
    BY <1>1, <1>2, <1>3, <1>4, <1>6 DEF Step, LookupHit, NotAdmitted, store
<1>7. ASSUME NEW S, Delete(S), UNCHANGED callVars PROVE MissesAbsent'
    <2>1. Cached' = Cached \ S
        BY <1>7, DeleteType
    <2> QED
        BY <1>7, <2>1 DEF MissesAbsent, callVars
<1>8. ASSUME UNCHANGED <<callVars, entries>> PROVE MissesAbsent'
    BY <1>8 DEF MissesAbsent, Cached, callVars
<1> QED
    BY <1>5, <1>6, <1>7, <1>8 DEF Next, Invalidate, Size, Tick, vars, store

--------------------------------------------------------------------------------
LEMMA NoStaleStep ==
    ASSUME TypeOK, EpochsSeen, NoStaleEntry, [Next]_vars
    PROVE  NoStaleEntry'
<1>1. ASSUME NEW S, Delete(S), UNCHANGED invalidations PROVE NoStaleEntry'
    <2>1. /\ Cached' = Cached \ S
          /\ \A k \in Cached' : entries'[k] = entries[k]
        BY <1>1, DeleteType
    <2> QED
        BY <1>1, <2>1 DEF NoStaleEntry
<1>2. ASSUME NEW scope, Invalidate(scope) PROVE NoStaleEntry'
    <2> DEFINE S == {k \in Cached : TenantOf[k] \in scope}
    <2>1. Delete(S) /\ NextEpoch(scope)
        BY <1>2 DEF Invalidate
    <2>2. /\ Cached' = Cached \ S
          /\ \A k \in Cached' : entries'[k] = entries[k]
        BY <2>1, DeleteType
    <2>3. \A k \in Cached' : /\ k \in Cached
                             /\ TenantOf[k] \in Tenants
                             /\ TenantOf[k] \notin scope
        BY <2>2, CallersAssumption DEF TypeOK
    <2> QED
        BY <2>1, <2>2, <2>3 DEF NextEpoch, NoStaleEntry
<1>3. ASSUME NEW c \in Callers, Store(c) PROVE NoStaleEntry'
    <2>1. born[c] = invalidations[TenantOf[key[c]]] /\ invalidations' = invalidations
        BY <1>3 DEF Store, Insert, EpochsSeen
    <2>2. /\ Cached' \subseteq Cached \cup {key[c]}
          /\ \A k \in Cached' : IF k = key[c] THEN entries'[k].born = born[c]
                                             ELSE entries'[k] = entries[k]
        BY <1>3, InsertType DEF Store
    <2> QED
        BY <2>1, <2>2 DEF NoStaleEntry
<1>4. ASSUME UNCHANGED <<entries, invalidations>> PROVE NoStaleEntry'
    BY <1>4 DEF NoStaleEntry, Cached
<1>5. ASSUME NEW c \in Callers, Step(c) PROVE NoStaleEntry'
    BY <1>1, <1>3, <1>4, <1>5 DEF Step, LookupHit, LookupMiss, NotAdmitted, store
<1> QED
    BY <1>1, <1>2, <1>4, <1>5 DEF Next, Ask, Size, Tick, vars, store

--------------------------------------------------------------------------------
\* The OrderedDict orders its keys.
OlderOrders == Orders(older, Cached)

LEMMA DeleteBounded ==
    ASSUME TypeOK, OlderOrders, StorageBounded, NEW S, Delete(S)
    PROVE  OlderOrders' /\ StorageBounded'
<1>1. /\ Cached' = Cached \ S
      /\ \A k \in Cached' : entries'[k] = entries[k]
    BY DeleteType
<1>2. IsFiniteSet(Cached) /\ IsFiniteSet(Cached \cap S)
    BY CallersAssumption, FS_Subset DEF TypeOK
<1>3. OlderOrders'
    BY <1>1, KeepOrders DEF Delete, OlderOrders
<1>4. BytesOf(entries', Cached') = BytesOf(entries, Cached) - BytesOf(entries, Cached \cap S)
    <2>1. BytesOf(entries', Cached') = BytesOf(entries, Cached')
        BY <1>1, BytesOfSame
    <2>2. Cached' = Cached \ (Cached \cap S)
        BY <1>1
    <2> QED
        BY <1>2, <2>1, <2>2, BytesOfDifference
<1>5. payload_bytes' = BytesOf(entries', Cached') /\ payload_bytes' <= MaxBytes
    <2>1. BytesOf(entries, Cached \cap S) \in Nat /\ BytesOf(entries, Cached) \in Nat
        BY <1>2, BytesOfNat
    <2>2. payload_bytes' = payload_bytes - BytesOf(entries, Cached \cap S)
        BY DEF Delete
    <2> QED
        BY <1>4, <2>1, <2>2, BoundsAssumption DEF StorageBounded
<1>6. Cardinality(Cached') <= MaxEntries
    <2>1. /\ Cardinality(Cached') <= Cardinality(Cached)
          /\ Cardinality(Cached') \in Nat
          /\ Cardinality(Cached) \in Nat
        BY <1>1, <1>2, FS_Subset, FS_CardinalityType
    <2> QED
        BY <2>1, BoundsAssumption DEF StorageBounded
<1> QED
    BY <1>3, <1>5, <1>6 DEF StorageBounded

\* An answer is added to the count only for a key that is not there, and the
\* entry that was added is the last that eviction would drop.
LEMMA InsertBounded ==
    ASSUME TypeOK, OlderOrders, StorageBounded, NEW c \in Callers,
           pc[c] = "admitting", key[c] \notin Cached,
           answer[c] \in 1..MaxBytes, Insert(c)
    PROVE  OlderOrders' /\ StorageBounded' /\ key[c] \in Cached'
<1> DEFINE k     == key[c]
           entry == [expires_at |-> clock + TTL, payload_bytes |-> answer[c],
                     born |-> born[c]]
           more  == [j \in Cached \cup {k} |-> IF j = k THEN entry ELSE entries[j]]
           order == MoveToEnd(older, Cached \cup {k}, k)
           bytes == payload_bytes + answer[c]
           kept  == Survivors(more, order, bytes)
<1>1. /\ k \in Keys
      /\ answer[c] \in 0..MaxSize
    BY DEF TypeOK, CallsTypeOK
<1>2. DOMAIN more = Cached \cup {k} /\ IsFiniteSet(Cached) /\ IsFiniteSet(DOMAIN more)
    BY <1>1, CallersAssumption, FS_Subset DEF TypeOK
<1>3. more[k].payload_bytes = answer[c] /\ \A j \in Cached : more[j] = entries[j]
    OBVIOUS
<1>4. /\ entries' = Keep(more, kept)
      /\ older' = KeepOrder(order, kept)
      /\ payload_bytes' = bytes - BytesOf(more, DOMAIN more \ kept)
    BY DEF Insert
<1>5. /\ Orders(order, DOMAIN more)
      /\ \A j \in DOMAIN more \ {k} : <<j, k>> \in order
      /\ <<k, k>> \notin order
    <2>1. /\ Orders(order, Cached \cup {k})
          /\ \A j \in (Cached \cup {k}) \ {k} : <<j, k>> \in order
        BY MoveToEndOrders DEF OlderOrders
    <2> QED
        BY <1>2, <2>1 DEF Orders
<1> HIDE DEF more, order
<1>6. bytes = BytesOf(more, DOMAIN more)
    <2>1. BytesOf(more, Cached) = BytesOf(entries, Cached)
        BY <1>3, BytesOfSame
    <2>2. BytesOf(more, {k}) = answer[c]
        BY <1>1, <1>3, BytesOfOne
    <2>3. BytesOf(more, Cached \cup {k}) = BytesOf(more, Cached) + BytesOf(more, {k})
        <3>1. IsFiniteSet({k}) /\ Cached \cap {k} = {}
            BY FS_Singleton
        <3> QED
            BY <1>2, <3>1, BytesOfUnion
    <2> QED
        BY <1>2, <2>1, <2>2, <2>3 DEF StorageBounded
<1> HIDE DEF bytes
<1>7. kept \subseteq DOMAIN more
    BY SurvivorsSubset
<1>8. /\ Cardinality(kept) <= MaxEntries
      /\ BytesOf(more, kept) <= MaxBytes
      /\ BytesOf(more, kept) = bytes - BytesOf(more, DOMAIN more \ kept)
    BY <1>2, <1>5, <1>6, SurvivorsBounded
<1>9. k \in kept
    <2>1. more[k].payload_bytes \in 0..MaxSize /\ more[k].payload_bytes <= MaxBytes
        BY <1>1, <1>3, BoundsAssumption
    <2> QED
        BY <1>2, <1>5, <1>6, <2>1, LatestSurvives
<1> HIDE DEF kept
<1>10. Cached' = kept /\ \A j \in kept : entries'[j] = more[j]
    BY <1>4, <1>7 DEF Keep, Cached
<1>11. OlderOrders'
    BY <1>4, <1>5, <1>7, <1>10, KeepOrders DEF OlderOrders
<1>12. BytesOf(entries', Cached') = BytesOf(more, kept)
    BY <1>10, BytesOfSame
<1> QED
    BY <1>4, <1>8, <1>9, <1>10, <1>11, <1>12 DEF StorageBounded

LEMMA BoundedStep ==
    ASSUME TypeOK, MissesAbsent, OlderOrders, StorageBounded, [Next]_vars
    PROVE  OlderOrders' /\ StorageBounded'
<1>1. ASSUME NEW S, Delete(S) PROVE OlderOrders' /\ StorageBounded'
    BY <1>1, DeleteBounded
<1>2. ASSUME UNCHANGED store PROVE OlderOrders' /\ StorageBounded'
    BY <1>2 DEF store, OlderOrders, StorageBounded, Cached
<1>3. ASSUME NEW c \in Callers, LookupHit(c) PROVE OlderOrders' /\ StorageBounded'
    <2>1. key[c] \in Cached /\ Cached' = Cached
        BY <1>3 DEF LookupHit, Live, Cached
    <2>2. Orders(older', Cached)
        BY <1>3, <2>1, MoveToEndOrders DEF LookupHit, OlderOrders
    <2> QED
        BY <1>3, <2>1, <2>2 DEF LookupHit, OlderOrders, StorageBounded
<1>4. ASSUME NEW c \in Callers, Store(c) PROVE OlderOrders' /\ StorageBounded'
    <2>1. key[c] \notin Cached
        BY <1>4 DEF Store, MissesAbsent
    <2> QED
        BY <1>4, <2>1, InsertBounded DEF Store
<1>5. ASSUME NEW c \in Callers, Step(c) PROVE OlderOrders' /\ StorageBounded'
    BY <1>1, <1>2, <1>3, <1>4, <1>5 DEF Step, LookupMiss, NotAdmitted
<1> QED
    BY <1>1, <1>2, <1>5 DEF Next, Ask, Invalidate, Size, Tick, vars

--------------------------------------------------------------------------------
IInv ==
    /\ TypeOK
    /\ LocksHeld
    /\ EpochsSeen
    /\ MissesAbsent
    /\ NoStaleEntry
    /\ OlderOrders
    /\ StorageBounded

LEMMA InitIInv == Init => IInv
<1> SUFFICES ASSUME Init PROVE IInv
    OBVIOUS
<1>1. Cached = {}
    BY DEF Init, Cached
<1>2. EpochsSeen /\ MissesAbsent /\ NoStaleEntry
    BY <1>1 DEF Init, CallsInit, EpochsSeen, MissesAbsent, NoStaleEntry
<1>3. OlderOrders
    BY <1>1 DEF OlderOrders, Orders
<1>4. StorageBounded
    <2>1. BytesOf(entries, {}) = 0 /\ Cardinality({}) = 0
        BY BytesOfNone, FS_EmptySet
    <2> QED
        BY <1>1, <2>1, BoundsAssumption DEF Init, StorageBounded
<1> QED
    BY <1>2, <1>3, <1>4, InitType, InitLocks DEF IInv, Init

LEMMA NextIInv == IInv /\ [Next]_vars => IInv'
    BY NextType, LocksStep, EpochsStep, AbsentStep, NoStaleStep, BoundedStep DEF IInv

THEOREM Invariant == Spec => []IInv
    BY InitIInv, NextIInv, PTL DEF Spec

\* No answer that was asked of the provider before an invalidation of its
\* tenant is in the cache after it: the epoch check at admission is enough,
\* however callers, invalidations and evictions interleave.
THEOREM NothingStaleIsCached == Spec => []NoStaleEntry
<1>1. IInv => NoStaleEntry
    BY DEF IInv
<1> QED
    BY <1>1, Invariant, PTL

\* At most one caller at a time generates an answer that may be cached for a
\* key, and nothing is cached for the key meanwhile, although a stripe is
\* shared by many keys and a bypass never takes one.
THEOREM IdenticalMissesCoalesce == Spec => []MissesCoalesced
<1>1. ASSUME IInv PROVE MissesCoalesced
    <2> SUFFICES ASSUME NEW c \in Callers,
                        pc[c] \in {"missed", "calling", "admitting"},
                        NEW d \in Callers \ {c}, key[d] = key[c]
                 PROVE  pc[d] \in {"queued", "bypass"}
        BY <1>1 DEF IInv, MissesAbsent, MissesCoalesced
    <2>1. key[c] \in Keys /\ pc[d] # "idle"
        BY <1>1 DEF IInv, TypeOK, CallsTypeOK
    <2>2. ~InStripe(d)
        BY <1>1, <2>1, ResponseCacheAssumption DEF IInv, LocksHeld, InStripe
    <2> QED
        BY <1>1, <2>1, <2>2 DEF IInv, TypeOK, CallsTypeOK, Points, InStripe
<1> QED
    BY <1>1, Invariant, PTL

\* The count of bytes that is kept by additions and subtractions is what the
\* payloads add up to, and the bounds hold whenever no critical section is
\* under way: it takes that a key is absent when its answer is added, which is
\* the stripe's doing, and that the OrderedDict has an oldest entry to evict.
THEOREM StorageStaysBounded == Spec => []StorageBounded
<1>1. IInv => StorageBounded
    BY DEF IInv
<1> QED
    BY <1>1, Invariant, PTL

\* An answer reported as stored has not been evicted by its own insertion.
THEOREM StoredAnswersAreCached == Spec => StoredIsCached
<1>1. ASSUME IInv, [Next]_vars, NEW c \in Callers, outcome[c] # "STORED", outcome'[c] = "STORED"
      PROVE  key[c] \in Cached'
    <2>1. IInv => TypeOK /\ CallsTypeOK
        BY DEF IInv, TypeOK
    <2>2. ASSUME NEW d \in Callers, Store(d) PROVE key[c] \in Cached'
        <3>1. d = c
            BY <1>1, <2>1, <2>2 DEF Store, Insert, Finish, CallsTypeOK
        <3>2. key[c] \notin Cached
            BY <1>1, <2>2, <3>1 DEF IInv, MissesAbsent, Store
        <3> QED
            BY <1>1, <2>2, <3>1, <3>2, InsertBounded DEF IInv, Store
    <2>3. ASSUME NEW d \in Callers, NEW status, status # "STORED", Finish(d, status)
          PROVE  FALSE
        BY <1>1, <2>1, <2>3 DEF Finish, CallsTypeOK
    <2>4. ASSUME NEW d \in Callers, Proceed(d) PROVE FALSE
        BY <1>1, <2>3, <2>4 DEF Proceed, Enter, Resolve, Call, Return, CallFails, BypassReturns
    <2>5. ASSUME NEW d \in Callers, Ask(d) PROVE FALSE
        BY <1>1, <2>1, <2>5 DEF Ask, Begin, CallsTypeOK
    <2>6. ASSUME NEW d \in Callers, Step(d) PROVE key[c] \in Cached'
        BY <1>1, <2>2, <2>3, <2>4, <2>6 DEF Step, LookupHit, LookupMiss, Missed, NotAdmitted
    <2>7. CASE UNCHANGED callVars
        BY <1>1, <2>7 DEF callVars
    <2> QED
        BY <1>1, <2>5, <2>6, <2>7 DEF Next, Invalidate, Size, Tick, vars
<1>2. IInv /\ [Next]_vars => [\A c \in Callers : outcome[c] # "STORED" /\ outcome'[c] = "STORED"
            => key[c] \in Cached']_vars
    BY <1>1
<1> QED
    BY <1>2, Invariant, PTL DEF Spec, StoredIsCached

--------------------------------------------------------------------------------
(* The refinement: what each step does to the keys that may be served. *)

Servable == {k \in Cached : Live(k)}

\* Only entries that cannot be served are dropped by a lookup and by size.
LEMMA DeleteServable ==
    ASSUME TypeOK, NEW S, Delete(S), UNCHANGED clock
    PROVE  Servable' = Servable \ S
<1>1. /\ Cached' = Cached \ S
      /\ \A k \in Cached' : entries'[k] = entries[k]
    BY DeleteType
<1> QED
    BY <1>1 DEF Servable, Live

LEMMA StoreServable ==
    ASSUME TypeOK, MissesAbsent, OlderOrders, StorageBounded, NEW c \in Callers, Store(c)
    PROVE  Servable' \subseteq Servable \cup {key[c]} /\ key[c] \in Servable'
<1>1. /\ pc[c] = "admitting" /\ answer[c] \in 1..MaxBytes
      /\ Insert(c) /\ key[c] \notin Cached /\ clock' = clock
    BY DEF Store, Insert, MissesAbsent
<1>2. /\ Cached' \subseteq Cached \cup {key[c]}
      /\ \A k \in Cached' : IF k = key[c] THEN entries'[k].expires_at = clock + TTL
                                          ELSE entries'[k] = entries[k]
    BY <1>1, InsertType
<1>3. key[c] \in Cached'
    BY <1>1, InsertBounded
<1>4. clock + TTL > clock
    BY ResponseCacheAssumption DEF TypeOK
<1> QED
    BY <1>1, <1>2, <1>3, <1>4 DEF Servable, Live

LEMMA InitContract == Init => Contract!Init
<1> SUFFICES ASSUME Init PROVE Contract!Init
    OBVIOUS
<1>1. Servable = {}
    BY DEF Init, Servable, Cached
<1> QED
    BY <1>1, InitMaps DEF Init, CallsInit, Servable, StageOf, ReplyOf, Contract!Init

\* A step that callers do not see may forget answers.
LEMMA ForgetContract ==
    ASSUME UNCHANGED <<StageOf, ReplyOf, key, Fresh>>, Servable' \subseteq Servable
    PROVE  Contract!Next
    BY DEF Servable, StageOf, ReplyOf, Contract!Next, Contract!Forget

\* A request ends with this status.
LEMMA AnswerContract ==
    ASSUME TypeOK, NEW c \in Callers, NEW status, Finish(c, status), UNCHANGED invalidations,
           pc[c] # "idle"
    PROVE  Contract!Answer(c, IF status = "STORED" THEN "MISS" ELSE status)
<1>1. [d \in Callers |-> Stage(d)][c] # "idle"
    BY DEF Stage
<1> QED
    BY <1>1, FinishMaps DEF TypeOK, StageOf, ReplyOf, Contract!Answer

LEMMA ProceedContract ==
    ASSUME TypeOK, NEW c \in Callers, Proceed(c), UNCHANGED <<store, clock, invalidations>>
    PROVE  Contract!Next
<1>0. CallsTypeOK /\ Servable' = Servable
    BY DEF TypeOK, store, Servable, Cached, Live
<1>1. ASSUME \/ \E cacheable \in BOOLEAN : Enter(c, cacheable)
             \/ \E bytes \in Sizes \cup {0} : Return(c, bytes)
      PROVE  Contract!Next
    BY <1>0, <1>1, InnerMaps, ForgetContract
<1>2. CASE Call(c)
    <2>1. Contract!Generate(c)
        BY <1>0, <1>2, CallMaps DEF Servable, StageOf, ReplyOf, Contract!Generate
    <2> QED
        BY <2>1 DEF Contract!Next
<1>3. CASE Resolve(c)
    <2>1. PICK status \in {"RESOLVED", "ERROR"} : Finish(c, status)
        BY <1>3 DEF Resolve
    <2>2. Contract!Answer(c, status) /\ Stage(c) = "waiting"
        BY <1>3, <2>1, AnswerContract DEF Resolve, Stage
    <2>3. Contract!Resolve(c) \/ Contract!ReplyOnly(c)
        BY <1>0, <2>1, <2>2 DEF Servable, Contract!Resolve, Contract!ReplyOnly
    <2> QED
        BY <2>3 DEF Contract!Next
<1>4. ASSUME NEW status \in {"BYPASS", "ERROR"}, Finish(c, status), pc[c] # "idle"
      PROVE  Contract!Next
    <2>1. Contract!Answer(c, status)
        BY <1>4, AnswerContract
    <2> QED
        BY <1>0, <2>1 DEF Servable, Contract!ReplyOnly, Contract!Next
<1> QED
    BY <1>1, <1>2, <1>3, <1>4 DEF Proceed, CallFails, BypassReturns

LEMMA StepContract ==
    ASSUME IInv, NEW c \in Callers, Step(c)
    PROVE  Contract!Next
<1>0. TypeOK /\ CallsTypeOK
    BY DEF IInv, TypeOK
<1>1. CASE Proceed(c) /\ UNCHANGED <<store, epoch, clock, invalidations>>
    BY <1>0, <1>1, ProceedContract
<1>2. CASE LookupHit(c)
    <2>1. Contract!Answer(c, "HIT")
        BY <1>0, <1>2, AnswerContract DEF LookupHit
    <2>2. key[c] \in Servable /\ Servable' = Servable
        BY <1>2 DEF LookupHit, Servable, Live, Cached
    <2>3. [d \in Callers |-> Stage(d)][c] = "waiting"
        BY <1>2 DEF LookupHit, Stage
    <2>4. Contract!Serve(c)
        BY <2>1, <2>2, <2>3 DEF Servable, Contract!Serve
    <2> QED
        BY <2>4 DEF Contract!Next
<1>3. CASE LookupMiss(c)
    <2>1. Servable' \subseteq Servable
        BY <1>0, <1>3, DeleteServable DEF LookupMiss
    <2>2. UNCHANGED <<StageOf, ReplyOf, key, Fresh>>
        BY <1>0, <1>3, InnerMaps DEF LookupMiss
    <2> QED
        BY <2>1, <2>2, ForgetContract
<1>4. CASE Store(c)
    <2>1. Contract!Answer(c, "MISS")
        BY <1>0, <1>4, AnswerContract DEF Store, Insert
    <2>2. Servable' \subseteq Servable \cup {key[c]} /\ key[c] \in Servable'
        BY <1>0, <1>4, StoreServable DEF IInv
    <2>3. c \in Fresh
        BY <1>4 DEF IInv, EpochsSeen, Store, Fresh, Stage
    <2>4. Contract!ReplyAndStore(c)
        BY <2>1, <2>2, <2>3 DEF Servable, Contract!ReplyAndStore
    <2> QED
        BY <2>4 DEF Contract!Next
<1>5. CASE NotAdmitted(c)
    <2>1. Contract!Answer(c, "MISS")
        BY <1>0, <1>5, AnswerContract DEF NotAdmitted
    <2>2. Servable' = Servable
        BY <1>5 DEF NotAdmitted, store, Servable, Cached, Live
    <2>3. Contract!ReplyOnly(c)
        BY <2>1, <2>2 DEF Servable, Contract!ReplyOnly
    <2> QED
        BY <2>3 DEF Contract!Next
<1> QED
    BY <1>1, <1>2, <1>3, <1>4, <1>5 DEF Step

LEMMA NextContract == IInv /\ [Next]_vars => [Contract!Next]_Contract!vars
<1> SUFFICES ASSUME IInv, [Next]_vars PROVE [Contract!Next]_Contract!vars
    OBVIOUS
<1>0. TypeOK /\ CallsTypeOK /\ EpochsSeen
    BY DEF IInv, TypeOK
<1>1. ASSUME NEW c \in Callers, Ask(c) PROVE Contract!Next
    <2>1. PICK k \in Keys, cacheable \in BOOLEAN : Begin(c, k, cacheable)
        BY <1>1 DEF Ask
    <2>2. Servable' = Servable /\ UNCHANGED invalidations
        BY <1>1 DEF Ask, store, Servable, Cached, Live
    <2>3. /\ Stage(c) = "idle"
          /\ StageOf' = [StageOf EXCEPT ![c] = "waiting"]
          /\ ReplyOf' = [ReplyOf EXCEPT ![c] = "none"]
          /\ key' = [key EXCEPT ![c] = k]
          /\ Fresh' = Fresh
        BY <1>0, <2>1, <2>2, BeginMaps
    <2>4. Contract!Ask(c, k)
        BY <2>2, <2>3 DEF Servable, StageOf, ReplyOf, Contract!Ask
    <2> QED
        BY <2>4 DEF Contract!Next
<1>2. ASSUME NEW c \in Callers, Step(c) PROVE Contract!Next
    BY <1>2, StepContract
<1>3. ASSUME NEW scope \in Scopes, Invalidate(scope) PROVE Contract!Next
    <2> DEFINE dropped == {k \in Cached : TenantOf[k] \in scope}
    <2>1. Delete(dropped) /\ NextEpoch(scope) /\ UNCHANGED callVars /\ UNCHANGED clock
        BY <1>3 DEF Invalidate
    <2>2. Servable' = Servable \ dropped
        BY <1>0, <2>1, DeleteServable
    <2>3. Servable' = {k \in Servable : TenantOf[k] \notin scope}
        BY <2>2 DEF Servable
    <2>4. /\ UNCHANGED <<StageOf, ReplyOf, key>>
          /\ Fresh' = {c \in Fresh : TenantOf[key[c]] \notin scope}
        BY <1>0, <2>1, NextEpochMaps
    <2>5. scope \in SUBSET Tenants
        BY DEF Scopes
    <2>6. Contract!Invalidate(scope)
        BY <2>3, <2>4 DEF Servable, StageOf, ReplyOf, Contract!Invalidate
    <2> QED
        BY <2>5, <2>6 DEF Contract!Next
<1>4. ASSUME NEW S, Delete(S), UNCHANGED <<callVars, invalidations, clock>> PROVE Contract!Next
    BY <1>0, <1>4, DeleteServable, SameMaps, ForgetContract
<1>5. CASE Size
    BY <1>4, <1>5 DEF Size
<1>6. CASE Tick
    <2>1. entries' = entries /\ clock' = clock + 1
        BY <1>6 DEF Tick, store
    <2>2. \A k \in Cached : entries[k].expires_at \in Nat
        BY <1>0 DEF TypeOK, Entry
    <2>3. \A k \in Cached : entries[k].expires_at > clock' => entries[k].expires_at > clock
        BY <1>0, <2>1, <2>2 DEF TypeOK
    <2>4. Servable' \subseteq Servable
        BY <2>1, <2>3 DEF Servable, Live, Cached
    <2> QED
        BY <1>6, <2>4, SameMaps, ForgetContract DEF Tick
<1>7. CASE UNCHANGED vars
    <2>1. Servable' = Servable
        BY <1>7 DEF vars, store, Servable, Cached, Live
    <2>2. UNCHANGED <<StageOf, ReplyOf, key, Fresh>>
        BY <1>7, SameMaps DEF vars
    <2> QED
        BY <2>1, <2>2 DEF Servable, StageOf, ReplyOf, Contract!vars
<1> QED
    BY <1>1, <1>2, <1>3, <1>5, <1>6, <1>7 DEF Next

\* ScopedResponseCache in memory implements CacheContract: every hit is of an
\* answer that is live for the caller's own key, every admission of an answer
\* whose generation began after the last invalidation of its tenant, and what
\* expires, is evicted or is dropped by a lookup is only ever forgotten.
THEOREM Refinement == Spec => ImplementsContract
    BY InitContract, NextContract, Invariant, PTL DEF Spec, ImplementsContract, Contract!Spec
================================================================================
