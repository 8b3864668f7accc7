------------------------- MODULE PersistentCacheProofs -------------------------
(***************************************************************************)
(* Theorems about PersistentCache, for every set of processes, callers,    *)
(* keys, tenants and stripes and every value of the bounds, however often  *)
(* a process crashes.                                                      *)
(***************************************************************************)
EXTENDS PersistentCache, CacheCallsProofs

\* The table, apart from its bounds.
TableOK ==
    /\ entries \in [Rows -> Entry]
    /\ Rows \subseteq Keys
    /\ touched \subseteq Rows \X Rows

\* The bounds hold and `touched' has an order to evict by.
Bounded ==
    /\ Orders(touched, Rows)
    /\ Cardinality(Rows) <= MaxEntries
    /\ BytesOf(entries, Rows) <= MaxBytes

\* A transaction that only deletes rows, or touches one.
LEMMA DeleteEffect ==
    ASSUME TableOK, Bounded, NEW S \in SUBSET Rows, NEW order, Orders(order, S),
           Write(Keep(entries, S), order)
    PROVE  /\ TableOK' /\ Bounded'
           /\ Rows' = S
           /\ \A k \in S : entries'[k] = entries[k]
<1>1. /\ Keep(entries, S) \in [S -> Entry]
      /\ DOMAIN Keep(entries, S) = S
      /\ \A k \in S : Keep(entries, S)[k] = entries[k]
    BY KeepType DEF TableOK, Rows
<1>2. /\ Rows' = S
      /\ entries' \in [S -> Entry]
      /\ \A k \in S : entries'[k] = entries[k]
      /\ touched' = KeepOrder(order, S)
    BY <1>1 DEF Write, Rows
<1>3. TableOK'
    BY <1>2, KeepOrderType DEF TableOK
<1>4. IsFiniteSet(Rows) /\ IsFiniteSet(S) /\ IsFiniteSet(Rows \ S)
    BY CallersAssumption, FS_Subset DEF TableOK
<1>5. Cardinality(Rows') <= MaxEntries
    <2>1. /\ Cardinality(S) <= Cardinality(Rows)
          /\ Cardinality(S) \in Nat
          /\ Cardinality(Rows) \in Nat
        BY <1>4, FS_Subset, FS_CardinalityType
    <2> QED
        BY <1>2, <2>1, BoundsAssumption DEF Bounded
<1>6. BytesOf(entries', Rows') <= MaxBytes
    <2>1. BytesOf(entries', Rows') = BytesOf(entries, S)
        BY <1>2, BytesOfSame
    <2>2. BytesOf(entries, Rows \ S) = BytesOf(entries, Rows) - BytesOf(entries, S)
        BY <1>4, BytesOfDifference
    <2>3. /\ BytesOf(entries, S) \in Nat
          /\ BytesOf(entries, Rows) \in Nat
          /\ BytesOf(entries, Rows \ S) \in Nat
        BY <1>4, BytesOfNat
    <2> QED
        BY <2>1, <2>2, <2>3, BoundsAssumption DEF Bounded
<1>7. Orders(touched', Rows')
    BY <1>2, KeepOrders
<1> QED
    BY <1>2, <1>3, <1>5, <1>6, <1>7 DEF Bounded

\* The transaction of an admission, which evicts down to the bounds.
LEMMA InsertEffect ==
    ASSUME TypeOK, Bounded, NEW c \in Callers, pc[c] = "admitting",
           answer[c] \in 1..MaxBytes, Insert(c)
    PROVE  /\ TableOK' /\ Bounded'
           /\ Rows' \subseteq Live \cup {key[c]}
           /\ key[c] \in Rows'
           /\ \A k \in Rows' :
                  IF k = key[c]
                  THEN /\ entries'[k].born = born[c]
                       /\ entries'[k].expires = clock + TTL
                       /\ entries'[k].payload_bytes = answer[c]
                  ELSE entries'[k] = entries[k]
<1> DEFINE k     == key[c]
           entry == [expires |-> clock + TTL, payload_bytes |-> answer[c],
                     born |-> born[c]]
           more  == [j \in Live \cup {k} |-> IF j = k THEN entry ELSE entries[j]]
           order == MoveToEnd(touched, Live \cup {k}, k)
           kept  == Survivors(more, order, BytesOf(more, DOMAIN more))
<1>1. /\ k \in Keys
      /\ answer[c] \in 1..MaxSize
    BY DEF TypeOK, CallsTypeOK
<1>2. /\ DOMAIN more = Live \cup {k}
      /\ DOMAIN more \subseteq Keys
      /\ Live \subseteq Rows
      /\ IsFiniteSet(DOMAIN more)
    BY <1>1, CallersAssumption, FS_Subset DEF TypeOK, Live
<1>3. entry \in Entry
    BY <1>1, PersistentCacheAssumption DEF TypeOK, CallsTypeOK, Entry
<1>4. more \in [DOMAIN more -> Entry]
    BY <1>2, <1>3 DEF TypeOK
<1>5. /\ more[k].born = born[c]
      /\ more[k].expires = clock + TTL
      /\ more[k].payload_bytes = answer[c]
      /\ \A j \in DOMAIN more : j # k => more[j] = entries[j]
    OBVIOUS
<1>6. Write(Keep(more, kept), order)
    BY DEF Insert
<1>7. /\ Orders(order, DOMAIN more)
      /\ \A j \in DOMAIN more \ {k} : <<j, k>> \in order
      /\ <<k, k>> \notin order
    <2>1. /\ Orders(order, Live \cup {k})
          /\ \A j \in (Live \cup {k}) \ {k} : <<j, k>> \in order
        BY <1>2, MoveToEndOrders DEF Bounded
    <2> QED
        BY <1>2, <2>1 DEF Orders
<1> HIDE DEF more, order
<1>8. kept \subseteq DOMAIN more
    BY SurvivorsSubset
<1>9. Cardinality(kept) <= MaxEntries /\ BytesOf(more, kept) <= MaxBytes
    BY <1>2, <1>7, SurvivorsBounded
<1>10. k \in kept
    <2>1. more[k].payload_bytes \in 0..MaxSize /\ more[k].payload_bytes <= MaxBytes
        BY <1>1, <1>5, BoundsAssumption
    <2> QED
        BY <1>2, <1>7, <2>1, LatestSurvives
<1> HIDE DEF kept
<1>11. /\ Keep(more, kept) \in [kept -> Entry]
       /\ DOMAIN Keep(more, kept) = kept
       /\ \A j \in kept : Keep(more, kept)[j] = more[j]
    BY <1>4, <1>8, KeepType
<1>12. /\ Rows' = kept
       /\ entries' \in [kept -> Entry]
       /\ \A j \in kept : entries'[j] = more[j]
       /\ touched' = KeepOrder(order, kept)
    BY <1>6, <1>11 DEF Write, Rows
<1>13. TableOK'
    BY <1>2, <1>8, <1>12, KeepOrderType DEF TableOK
<1>14. BytesOf(entries', Rows') = BytesOf(more, kept)
    BY <1>12, BytesOfSame
<1>15. Orders(touched', Rows')
    BY <1>7, <1>8, <1>12, KeepOrders
<1>16. Bounded'
    BY <1>9, <1>12, <1>14, <1>15 DEF Bounded
<1> QED
    BY <1>2, <1>5, <1>8, <1>10, <1>12, <1>13, <1>16

\* A lookup that finds a row touches it.
LEMMA TouchEffect ==
    ASSUME TypeOK, Bounded, NEW k \in Live, Write(Purged, MoveToEnd(touched, Live, k))
    PROVE  /\ TableOK' /\ Bounded'
           /\ Rows' = Live
           /\ \A j \in Live : entries'[j] = entries[j]
<1>1. Live \subseteq Rows
    BY DEF Live
<1>2. Orders(MoveToEnd(touched, Live, k), Live)
    BY <1>1, MoveToEndOrders DEF Bounded
<1> QED
    BY <1>1, <1>2, DeleteEffect DEF Purged, TypeOK, TableOK

\* A lookup that finds none, an invalidation and size leave the order alone.
LEMMA DropEffect ==
    ASSUME TypeOK, Bounded, NEW S \in SUBSET Rows, Write(Keep(entries, S), touched)
    PROVE  /\ TableOK' /\ Bounded'
           /\ Rows' = S
           /\ \A j \in S : entries'[j] = entries[j]
<1>1. Orders(touched, S)
    BY DEF Bounded, Orders
<1> QED
    BY <1>1, DeleteEffect DEF TypeOK, TableOK

--------------------------------------------------------------------------------
(* A crash: the callers of a process are as they were in the beginning. *)

LEMMA CrashCalls ==
    ASSUME CallsTypeOK, LocksHeld, EpochsSeen, NEW p, Crash(p)
    PROVE  CallsTypeOK' /\ LocksHeld' /\ EpochsSeen'
<1> DEFINE lost == {c \in Callers : ProcessOf[c] = p}
<1>1. 0 \in 0..MaxSize /\ lost \subseteq Callers
    BY BoundsAssumption
<1>2. /\ pc' = [c \in Callers |-> IF c \in lost THEN "idle" ELSE pc[c]]
      /\ key' = [c \in Callers |-> IF c \in lost THEN NoKey ELSE key[c]]
      /\ seen' = [c \in Callers |-> IF c \in lost THEN 0 ELSE seen[c]]
      /\ answer' = [c \in Callers |-> IF c \in lost THEN 0 ELSE answer[c]]
      /\ born' = [c \in Callers |-> IF c \in lost THEN 0 ELSE born[c]]
      /\ outcome' = [c \in Callers |-> IF c \in lost THEN "none" ELSE outcome[c]]
      /\ holder' = [l \in Locks |-> IF holder[l] \in lost THEN NoCaller ELSE holder[l]]
      /\ UNCHANGED <<begun, epoch, invalidations>>
    BY DEF Crash
<1> HIDE DEF lost
<1>3. CallsTypeOK'
    BY <1>1, <1>2, CallersAssumption DEF CallsTypeOK, Points, Outcomes
<1>4. LocksHeld'
    <2> SUFFICES ASSUME NEW c \in Callers, InStripe(c)'
                 PROVE  holder'[LockOf[c][key'[c]]] = c
        BY DEF LocksHeld
    <2>1. c \notin lost /\ InStripe(c) /\ key'[c] = key[c] /\ key[c] \in Keys
        BY <1>2 DEF InStripe, CallsTypeOK
    <2>2. LockOf[c][key[c]] \in Locks /\ holder[LockOf[c][key[c]]] = c
        BY <2>1, CallersAssumption DEF LocksHeld
    <2> QED
        BY <1>2, <2>1, <2>2
<1>5. EpochsSeen'
    BY <1>2 DEF EpochsSeen, CallsTypeOK
<1> QED
    BY <1>3, <1>4, <1>5

\* The request goes on without the cache.
LEMMA BypassCalls ==
    ASSUME CallsTypeOK, LocksHeld, EpochsSeen, NEW c \in Callers, pc[c] = "lookup",
           Goto(c, "bypass"),
           UNCHANGED <<holder, key, seen, answer, outcome, begun, born, epoch, invalidations>>
    PROVE  /\ CallsTypeOK' /\ LocksHeld' /\ EpochsSeen'
           /\ UNCHANGED <<StageOf, ReplyOf, key, Fresh>>
<1>1. CallsTypeOK'
    BY DEF CallsTypeOK, Goto, Points
<1>2. LocksHeld'
    BY DEF CallsTypeOK, Goto, LocksHeld, InStripe
<1>3. EpochsSeen'
    BY DEF CallsTypeOK, Goto, EpochsSeen
<1>4. \A d \in Callers : Stage(d)' = Stage(d) /\ Replied(d)' = Replied(d)
    BY DEF Goto, CallsTypeOK, Stage, Replied
<1> QED
    BY <1>1, <1>2, <1>3, <1>4 DEF StageOf, ReplyOf, Fresh

--------------------------------------------------------------------------------
CallsInv == CallsTypeOK /\ LocksHeld /\ EpochsSeen

LEMMA FinishCalls ==
    ASSUME CallsInv, NEW c \in Callers, NEW status \in Outcomes, Finish(c, status),
           UNCHANGED <<epoch, invalidations>>
    PROVE  CallsInv'
    BY FinishType, FinishLocks, FinishEpochs DEF CallsInv

LEMMA CallsStep ==
    ASSUME CallsInv, [Next]_vars
    PROVE  CallsInv'
<1>1. ASSUME NEW c \in Callers, Ask(c) PROVE CallsInv'
    BY <1>1, BeginType, BeginLocks, BeginEpochs DEF Ask, CallsInv
<1>2. ASSUME NEW c \in Callers, Step(c) PROVE CallsInv'
    <2>1. CASE Proceed(c) /\ UNCHANGED <<table, clock, crashes, epoch, invalidations>>
        BY <2>1, ProceedType, ProceedLocks, ProceedEpochs DEF CallsInv
    <2>2. CASE LookupHit(c)
        BY <2>2, FinishCalls DEF LookupHit, Outcomes
    <2>3. CASE LookupUnusable(c) \/ LookupFails(c)
        BY <2>3, BypassCalls DEF LookupUnusable, LookupFails, CallsInv
    <2>4. CASE LookupMiss(c)
        BY <2>4, MissedType, MissedLocks, MissedEpochs DEF LookupMiss, CallsInv
    <2>5. CASE Admit(c) \/ NotAdmitted(c)
        BY <2>5, FinishCalls DEF Admit, Insert, NotAdmitted, Outcomes
    <2> QED
        BY <1>2, <2>1, <2>2, <2>3, <2>4, <2>5 DEF Step
<1>3. ASSUME NEW scope, Invalidate(scope) PROVE CallsInv'
    <2>1. NextEpoch(scope) /\ UNCHANGED callVars
        BY <1>3 DEF Invalidate
    <2>2. LocksHeld'
        BY <2>1 DEF CallsInv, LocksHeld, InStripe, callVars
    <2> QED
        BY <2>1, <2>2, NextEpochType, NextEpochEpochs DEF CallsInv
<1>4. ASSUME NEW p, Crash(p) PROVE CallsInv'
    BY <1>4, CrashCalls DEF CallsInv
<1>5. ASSUME UNCHANGED <<callVars, epoch, invalidations>> PROVE CallsInv'
    BY <1>5 DEF callVars, CallsInv, CallsTypeOK, LocksHeld, InStripe, EpochsSeen
<1> QED
    BY <1>1, <1>2, <1>3, <1>4, <1>5 DEF Next, Size, Tick, vars

--------------------------------------------------------------------------------
IInv ==
    /\ TypeOK
    /\ CallsInv
    /\ Bounded
    /\ NoStaleRow

\* The part of the invariant that is about the table.
TableInv == TableOK /\ Bounded /\ NoStaleRow

LEMMA InitIInv == Init => IInv
<1> SUFFICES ASSUME Init PROVE IInv
    OBVIOUS
<1>1. Rows = {} /\ entries \in [{} -> Entry]
    BY DEF Init, Rows
<1>2. TypeOK
    BY <1>1, CallsInitType DEF Init, TypeOK
<1>3. CallsInv
    BY CallsInitType, InitLocks DEF Init, CallsInit, CallsInv, EpochsSeen
<1>4. Bounded
    <2>1. BytesOf(entries, {}) = 0 /\ Cardinality({}) = 0
        BY BytesOfNone, FS_EmptySet
    <2> QED
        BY <1>1, <2>1, BoundsAssumption DEF Bounded, Orders
<1> QED
    BY <1>1, <1>2, <1>3, <1>4 DEF IInv, NoStaleRow

\* Rows that stay, or are touched, are as fresh as they were.
LEMMA KeptFresh ==
    ASSUME NoStaleRow, UNCHANGED invalidations, Rows' \subseteq Rows,
           \A k \in Rows' : entries'[k] = entries[k]
    PROVE  NoStaleRow'
    BY DEF NoStaleRow

LEMMA TableStep ==
    ASSUME IInv, [Next]_vars
    PROVE  TableInv'
<1>0. TypeOK /\ Bounded /\ NoStaleRow /\ TableOK /\ CallsTypeOK /\ Live \subseteq Rows
    BY DEF IInv, TypeOK, TableOK, Live
<1>1. ASSUME UNCHANGED <<table, invalidations>> PROVE TableInv'
    BY <1>0, <1>1 DEF TableInv, table, TableOK, Bounded, NoStaleRow, Rows
<1>2. ASSUME NEW k \in Live, Write(Purged, MoveToEnd(touched, Live, k)), UNCHANGED invalidations
      PROVE  TableInv'
    BY <1>0, <1>2, TouchEffect, KeptFresh DEF TableInv
<1>3. ASSUME Write(Purged, touched), UNCHANGED invalidations PROVE TableInv'
    BY <1>0, <1>3, DropEffect, KeptFresh DEF TableInv, Purged
<1>4. ASSUME NEW c \in Callers, Admit(c) PROVE TableInv'
    <2>1. /\ pc[c] = "admitting" /\ answer[c] \in 1..MaxBytes
          /\ seen[c] = epoch /\ Insert(c) /\ invalidations' = invalidations
        BY <1>4 DEF Admit, Insert
    <2>2. born[c] = invalidations[TenantOf[key[c]]]
        BY <2>1 DEF IInv, CallsInv, EpochsSeen
    <2>3. /\ TableOK' /\ Bounded'
          /\ Rows' \subseteq Rows \cup {key[c]}
          /\ \A k \in Rows' : IF k = key[c] THEN entries'[k].born = born[c]
                                            ELSE entries'[k] = entries[k]
        BY <1>0, <2>1, InsertEffect
    <2>4. NoStaleRow'
        BY <1>0, <2>1, <2>2, <2>3 DEF NoStaleRow
    <2> QED
        BY <2>3, <2>4 DEF TableInv
<1>5. ASSUME NEW c \in Callers, Step(c) PROVE TableInv'
    BY <1>1, <1>2, <1>3, <1>4, <1>5 DEF Step, LookupHit, LookupUnusable, LookupMiss,
       LookupFails, NotAdmitted
<1>6. ASSUME NEW scope, Invalidate(scope) PROVE TableInv'
    <2> DEFINE left == {k \in Rows : TenantOf[k] \notin scope}
    <2>1. Write(Keep(entries, left), touched) /\ NextEpoch(scope)
        BY <1>6 DEF Invalidate
    <2>2. /\ TableOK' /\ Bounded'
          /\ Rows' = left
          /\ \A k \in left : entries'[k] = entries[k]
        BY <1>0, <2>1, DropEffect
    <2>3. \A k \in left : k \in Rows /\ TenantOf[k] \in Tenants /\ TenantOf[k] \notin scope
        BY <1>0, CallersAssumption DEF TableOK
    <2>4. NoStaleRow'
        BY <1>0, <2>1, <2>2, <2>3 DEF NextEpoch, NoStaleRow
    <2> QED
        BY <2>2, <2>4 DEF TableInv
<1> QED
    BY <1>1, <1>3, <1>5, <1>6 DEF Next, Ask, Size, Tick, Crash, vars

LEMMA NextIInv == IInv /\ [Next]_vars => IInv'
<1> SUFFICES ASSUME IInv, [Next]_vars PROVE IInv'
    OBVIOUS
<1>1. CallsInv'
    BY CallsStep DEF IInv
<1>2. clock' \in Nat /\ crashes' \in Nat
    <2>0. clock \in Nat /\ crashes \in Nat
        BY DEF IInv, TypeOK
    <2>1. ASSUME NEW c \in Callers, Step(c) PROVE UNCHANGED <<clock, crashes>>
        BY <2>1 DEF Step, LookupHit, LookupUnusable, LookupMiss, LookupFails, Admit, Insert,
           NotAdmitted
    <2>2. ASSUME NEW c \in Callers, Ask(c) PROVE UNCHANGED <<clock, crashes>>
        BY <2>2 DEF Ask
    <2>3. ASSUME NEW p, Crash(p) PROVE clock' = clock /\ crashes' = crashes + 1
        BY <2>3 DEF Crash
    <2>4. ASSUME NEW scope, Invalidate(scope) PROVE UNCHANGED <<clock, crashes>>
        BY <2>4 DEF Invalidate
    <2>5. CASE Size \/ Tick \/ UNCHANGED vars
        BY <2>0, <2>5 DEF Size, Tick, vars
    <2> QED
        BY <2>0, <2>1, <2>2, <2>3, <2>4, <2>5 DEF Next
<1> QED
    BY <1>1, <1>2, TableStep DEF IInv, TableInv, TableOK, CallsInv, TypeOK

THEOREM Invariant == Spec => []IInv
    BY InitIInv, NextIInv, PTL DEF Spec

\* Every variable keeps its type, across crashes and failed transactions.
THEOREM TypeCorrect == Spec => []TypeOK
<1>1. IInv => TypeOK
    BY DEF IInv
<1> QED
    BY <1>1, Invariant, PTL

\* No process brings back an answer that was asked for before an invalidation
\* by another: the epoch in the database, compared in the transaction that
\* inserts, is enough, though processes share no lock and may crash.
THEOREM NothingStaleIsStored == Spec => []NoStaleRow
<1>1. IInv => NoStaleRow
    BY DEF IInv
<1> QED
    BY <1>1, Invariant, PTL

\* Every transaction leaves the table in bounds, and `touched' with a total
\* order to evict by: the rows that DELETE spares are always few enough.
THEOREM TableStaysBounded == Spec => []TableBounded
<1>1. ASSUME IInv PROVE TableBounded
    <2>1. Bounded
        BY <1>1 DEF IInv
    <2>2. \A j, k \in Rows : j # k => (<<j, k>> \in touched <=> <<k, j>> \notin touched)
        BY <2>1 DEF Bounded, Orders
    <2> QED
        BY <2>1, <2>2 DEF Bounded, TableBounded
<1> QED
    BY <1>1, Invariant, PTL

\* What an admission reports as stored is in the table when its transaction
\* ends: eviction spares the row inserted last.
THEOREM StoredAnswersAreCached == Spec => StoredIsCached
<1> DEFINE Told(c) == /\ key[c] \in Rows'
                      /\ entries'[key[c]].payload_bytes = answer[c]
                      /\ entries'[key[c]].expires = clock + TTL
<1>1. ASSUME IInv, [Next]_vars, NEW c \in Callers, outcome[c] # "STORED", outcome'[c] = "STORED"
      PROVE  Told(c)
    <2>1. TypeOK /\ CallsTypeOK /\ Bounded
        BY <1>1 DEF IInv, TypeOK
    <2>2. ASSUME NEW d \in Callers, Admit(d) PROVE Told(c)
        <3>1. d = c
            BY <1>1, <2>1, <2>2 DEF Admit, Insert, Finish, CallsTypeOK
        <3> QED
            BY <2>1, <2>2, <3>1, InsertEffect DEF Admit
    <2>3. ASSUME NEW d \in Callers, NEW status, status # "STORED", Finish(d, status)
          PROVE  FALSE
        BY <1>1, <2>1, <2>3 DEF Finish, CallsTypeOK
    <2>4. ASSUME NEW d \in Callers, Proceed(d) PROVE FALSE
        BY <1>1, <2>3, <2>4 DEF Proceed, Enter, Resolve, Call, Return, CallFails, BypassReturns
    <2>5. ASSUME NEW d \in Callers, Ask(d) PROVE FALSE
        BY <1>1, <2>1, <2>5 DEF Ask, Begin, CallsTypeOK
    <2>6. ASSUME NEW d \in Callers, Step(d) PROVE Told(c)
        BY <1>1, <2>2, <2>3, <2>4, <2>6 DEF Step, LookupHit, LookupUnusable, LookupMiss,
           LookupFails, Missed, NotAdmitted
    <2>7. ASSUME NEW p, Crash(p) PROVE FALSE
        BY <1>1, <2>1, <2>7 DEF Crash, CallsTypeOK
    <2>8. CASE UNCHANGED callVars
        BY <1>1, <2>8 DEF callVars
    <2> QED
        BY <1>1, <2>5, <2>6, <2>7, <2>8 DEF Next, Invalidate, Size, Tick, vars
<1>2. IInv /\ [Next]_vars => [\A c \in Callers : outcome[c] # "STORED" /\ outcome'[c] = "STORED"
            => /\ key[c] \in Rows'
               /\ entries'[key[c]].payload_bytes = answer[c]
               /\ entries'[key[c]].expires = clock + TTL]_vars
    BY <1>1
<1> QED
    BY <1>2, Invariant, PTL DEF Spec, StoredIsCached

\* Two callers of one process never generate for the same key at once, nor
\* after a crash: what a process forgets includes its stripes.
THEOREM MissesCoalesceInProcess == Spec => []CoalescedInProcess
<1>1. ASSUME IInv PROVE CoalescedInProcess
    <2> SUFFICES ASSUME NEW c \in Callers, NEW d \in Callers, c # d,
                        ProcessOf[c] = ProcessOf[d], key[c] = key[d],
                        pc[c] \in {"missed", "calling", "admitting"}
                 PROVE  pc[d] \in {"queued", "bypass"}
        BY DEF CoalescedInProcess
    <2>1. key[c] \in Keys /\ pc[d] # "idle" /\ pc[d] \in Points
        BY <1>1 DEF IInv, TypeOK, CallsTypeOK
    <2>2. ~InStripe(d)
        BY <1>1, <2>1, PersistentCacheAssumption DEF IInv, CallsInv, LocksHeld, InStripe
    <2> QED
        BY <2>1, <2>2 DEF Points, InStripe
<1> QED
    BY <1>1, Invariant, PTL

--------------------------------------------------------------------------------
(* The refinement. *)

\* A transaction that keeps the rows S as they are and the clock.
LEMMA LiveKept ==
    ASSUME NEW S \in SUBSET Rows, Rows' = S, \A k \in S : entries'[k] = entries[k],
           UNCHANGED clock
    PROVE  Live' = Live \cap S
    BY DEF Live

LEMMA PurgeLive ==
    ASSUME TypeOK, Bounded, Write(Purged, touched), UNCHANGED clock
    PROVE  Live' = Live
<1>1. Live \in SUBSET Rows
    BY DEF Live
<1>2. Rows' = Live /\ \A j \in Live : entries'[j] = entries[j]
    BY <1>1, DropEffect DEF Purged
<1>3. Live' = Live \cap Live
    BY <1>1, <1>2, LiveKept
<1> QED
    BY <1>3

LEMMA InitContract == Init => Contract!Init
<1> SUFFICES ASSUME Init PROVE Contract!Init
    OBVIOUS
<1>1. Live = {}
    BY DEF Init, Live, Rows
<1> QED
    BY <1>1, InitMaps DEF Init, CallsInit, StageOf, ReplyOf, Contract!Init

\* A step that callers do not see may forget answers.
LEMMA ForgetContract ==
    ASSUME UNCHANGED <<StageOf, ReplyOf, key, Fresh>>, Live' \subseteq Live
    PROVE  Contract!Next
    BY DEF StageOf, ReplyOf, Contract!Next, Contract!Forget

\* A request ends with this status.
LEMMA AnswerContract ==
    ASSUME CallsTypeOK, NEW c \in Callers, NEW status, Finish(c, status),
           UNCHANGED invalidations, pc[c] # "idle"
    PROVE  Contract!Answer(c, IF status = "STORED" THEN "MISS" ELSE status)
<1>1. [d \in Callers |-> Stage(d)][c] # "idle"
    BY DEF Stage
<1> QED
    BY <1>1, FinishMaps DEF StageOf, ReplyOf, Contract!Answer

LEMMA ReplyContract ==
    ASSUME CallsTypeOK, NEW c \in Callers, NEW status \in {"MISS", "BYPASS", "ERROR"},
           Finish(c, status), UNCHANGED invalidations, pc[c] # "idle", Live' = Live
    PROVE  Contract!Next
<1>1. Contract!Answer(c, status)
    BY AnswerContract
<1> QED
    BY <1>1 DEF Contract!ReplyOnly, Contract!Next

LEMMA ProceedContract ==
    ASSUME CallsTypeOK, NEW c \in Callers, Proceed(c), UNCHANGED <<table, clock, invalidations>>
    PROVE  Contract!Next
<1>0. Live' = Live
    BY DEF table, Live, Rows
<1>1. ASSUME \/ \E cacheable \in BOOLEAN : Enter(c, cacheable)
             \/ \E bytes \in Sizes \cup {0} : Return(c, bytes)
      PROVE  Contract!Next
    BY <1>0, <1>1, InnerMaps, ForgetContract
<1>2. CASE Call(c)
    <2>1. Contract!Generate(c)
        BY <1>0, <1>2, CallMaps DEF StageOf, ReplyOf, Contract!Generate
    <2> QED
        BY <2>1 DEF Contract!Next
<1>3. CASE Resolve(c)
    <2>1. PICK status \in {"RESOLVED", "ERROR"} : Finish(c, status)
        BY <1>3 DEF Resolve
    <2>2. Contract!Answer(c, status) /\ Stage(c) = "waiting"
        BY <1>3, <2>1, AnswerContract DEF Resolve, Stage
    <2>3. Contract!Resolve(c) \/ Contract!ReplyOnly(c)
        BY <1>0, <2>1, <2>2 DEF Contract!Resolve, Contract!ReplyOnly
    <2> QED
        BY <2>3 DEF Contract!Next
<1> QED
    BY <1>0, <1>1, <1>2, <1>3, ReplyContract DEF Proceed, CallFails, BypassReturns

LEMMA StepContract ==
    ASSUME IInv, NEW c \in Callers, Step(c)
    PROVE  Contract!Next
<1>0. TypeOK /\ CallsTypeOK /\ LocksHeld /\ EpochsSeen /\ Bounded /\ Live \subseteq Rows
    BY DEF IInv, TypeOK, CallsInv, Live
<1>1. CASE Proceed(c) /\ UNCHANGED <<table, clock, crashes, epoch, invalidations>>
    BY <1>0, <1>1, ProceedContract
<1>2. CASE LookupHit(c)
    <2>1. Contract!Answer(c, "HIT")
        BY <1>0, <1>2, AnswerContract DEF LookupHit
    <2>2. key[c] \in Live /\ Live' = Live
        BY <1>0, <1>2, TouchEffect, LiveKept DEF LookupHit
    <2>3. [d \in Callers |-> Stage(d)][c] = "waiting"
        BY <1>2 DEF LookupHit, Stage
    <2>4. Contract!Serve(c)
        BY <2>1, <2>2, <2>3 DEF Contract!Serve
    <2> QED
        BY <2>4 DEF Contract!Next
<1>3. CASE LookupUnusable(c)
    <2>1. Live' = Live
        BY <1>0, <1>3, TouchEffect, LiveKept DEF LookupUnusable
    <2>2. UNCHANGED <<StageOf, ReplyOf, key, Fresh>>
        BY <1>0, <1>3, BypassCalls DEF LookupUnusable
    <2> QED
        BY <2>1, <2>2, ForgetContract
<1>4. CASE LookupMiss(c)
    <2>1. Live' = Live
        BY <1>0, <1>4, PurgeLive DEF LookupMiss
    <2>2. UNCHANGED <<StageOf, ReplyOf, key, Fresh>>
        BY <1>0, <1>4, InnerMaps DEF LookupMiss
    <2> QED
        BY <2>1, <2>2, ForgetContract
<1>5. CASE LookupFails(c)
    <2>1. Live' = Live
        BY <1>5 DEF LookupFails, table, Live, Rows
    <2>2. UNCHANGED <<StageOf, ReplyOf, key, Fresh>>
        BY <1>0, <1>5, BypassCalls DEF LookupFails
    <2> QED
        BY <2>1, <2>2, ForgetContract
<1>6. CASE Admit(c)
    <2>1. /\ pc[c] = "admitting" /\ answer[c] \in 1..MaxBytes
          /\ seen[c] = epoch /\ Insert(c) /\ Finish(c, "STORED")
          /\ UNCHANGED <<clock, invalidations>>
        BY <1>6 DEF Admit, Insert
    <2>2. Contract!Answer(c, "MISS")
        BY <1>0, <2>1, AnswerContract
    <2>3. /\ Rows' \subseteq Live \cup {key[c]}
          /\ key[c] \in Rows'
          /\ \A k \in Rows' : IF k = key[c] THEN entries'[k].expires = clock + TTL
                                            ELSE entries'[k] = entries[k]
        BY <1>0, <2>1, InsertEffect
    <2>4. clock + TTL > clock
        BY <1>0, PersistentCacheAssumption DEF TypeOK
    <2>5. Live' \subseteq Live \cup {key[c]} /\ key[c] \in Live'
        BY <2>1, <2>3, <2>4 DEF Live
    <2>6. c \in Fresh
        BY <1>0, <2>1 DEF EpochsSeen, Fresh, Stage
    <2>7. Contract!ReplyAndStore(c)
        BY <2>2, <2>5, <2>6 DEF Contract!ReplyAndStore
    <2> QED
        BY <2>7 DEF Contract!Next
<1>7. CASE NotAdmitted(c)
    <2>1. Live' = Live
        BY <1>7 DEF NotAdmitted, table, Live, Rows
    <2> QED
        BY <1>0, <1>7, <2>1, ReplyContract DEF NotAdmitted
<1> QED
    BY <1>1, <1>2, <1>3, <1>4, <1>5, <1>6, <1>7 DEF Step

\* To the contract a crash abandons the callers of the process.
LEMMA CrashContract ==
    ASSUME CallsTypeOK, NEW p, Crash(p)
    PROVE  Contract!Next
<1> DEFINE lost == {c \in Callers : ProcessOf[c] = p}
<1>1. /\ pc' = [c \in Callers |-> IF c \in lost THEN "idle" ELSE pc[c]]
      /\ key' = [c \in Callers |-> IF c \in lost THEN NoKey ELSE key[c]]
      /\ born' = [c \in Callers |-> IF c \in lost THEN 0 ELSE born[c]]
      /\ outcome' = [c \in Callers |-> IF c \in lost THEN "none" ELSE outcome[c]]
      /\ UNCHANGED <<table, clock, invalidations>>
    BY DEF Crash
<1>2. lost \in SUBSET Callers
    OBVIOUS
<1> HIDE DEF lost
<1>3. \A c \in Callers : /\ Stage(c)' = IF c \in lost THEN "idle" ELSE Stage(c)
                         /\ Replied(c)' = IF c \in lost THEN "none" ELSE Replied(c)
    BY <1>1 DEF Stage, Replied
<1>4. key' = [c \in Callers |-> IF c \in lost THEN NoKey ELSE key[c]]
    BY <1>1
<1>5. Fresh' = Fresh \ lost
    BY <1>1, <1>3 DEF Fresh
<1>6. Live' = Live
    BY <1>1 DEF table, Live, Rows
<1>7. Contract!Abandon(lost)
    BY <1>3, <1>4, <1>5, <1>6 DEF Contract!Abandon
<1> QED
    BY <1>2, <1>7 DEF Contract!Next

LEMMA NextContract == IInv /\ [Next]_vars => [Contract!Next]_Contract!vars
<1> SUFFICES ASSUME IInv, [Next]_vars PROVE [Contract!Next]_Contract!vars
    OBVIOUS
<1>0. TypeOK /\ CallsTypeOK /\ EpochsSeen /\ Bounded /\ Live \subseteq Rows
    BY DEF IInv, TypeOK, CallsInv, Live
<1>1. ASSUME NEW c \in Callers, Ask(c) PROVE Contract!Next
    <2>1. PICK k \in Keys, cacheable \in BOOLEAN : Begin(c, k, cacheable)
        BY <1>1 DEF Ask
    <2>2. Live' = Live /\ UNCHANGED invalidations
        BY <1>1 DEF Ask, table, Live, Rows
    <2>3. /\ Stage(c) = "idle"
          /\ StageOf' = [StageOf EXCEPT ![c] = "waiting"]
          /\ ReplyOf' = [ReplyOf EXCEPT ![c] = "none"]
          /\ key' = [key EXCEPT ![c] = k]
          /\ Fresh' = Fresh
        BY <1>0, <2>1, <2>2, BeginMaps
    <2>4. Contract!Ask(c, k)
        BY <2>2, <2>3 DEF StageOf, ReplyOf, Contract!Ask
    <2> QED
        BY <2>4 DEF Contract!Next
<1>2. ASSUME NEW c \in Callers, Step(c) PROVE Contract!Next
    BY <1>2, StepContract
<1>3. ASSUME NEW scope \in Scopes, Invalidate(scope) PROVE Contract!Next
    <2> DEFINE left == {k \in Rows : TenantOf[k] \notin scope}
    <2>1. /\ Write(Keep(entries, left), touched)
          /\ NextEpoch(scope) /\ UNCHANGED callVars /\ UNCHANGED clock
        BY <1>3 DEF Invalidate
    <2>2. Rows' = left /\ \A k \in left : entries'[k] = entries[k]
        BY <1>0, <2>1, DropEffect
    <2>3. Live' = Live \cap left
        BY <2>1, <2>2, LiveKept
    <2>4. Live' = {k \in Live : TenantOf[k] \notin scope}
        BY <1>0, <2>3
    <2>5. /\ UNCHANGED <<StageOf, ReplyOf, key>>
          /\ Fresh' = {c \in Fresh : TenantOf[key[c]] \notin scope}
        BY <1>0, <2>1, NextEpochMaps
    <2>6. scope \in SUBSET Tenants
        BY DEF Scopes
    <2>7. Contract!Invalidate(scope)
        BY <2>4, <2>5 DEF StageOf, ReplyOf, Contract!Invalidate
    <2> QED
        BY <2>6, <2>7 DEF Contract!Next
<1>4. CASE Size
    <2>1. Live' = Live
        BY <1>0, <1>4, PurgeLive DEF Size
    <2> QED
        BY <1>4, <2>1, SameMaps, ForgetContract DEF Size
<1>5. CASE Tick
    <2>1. entries' = entries /\ clock' = clock + 1
        BY <1>5 DEF Tick, table
    <2>2. \A k \in Rows : entries[k].expires \in Nat
        BY <1>0 DEF TypeOK, Entry
    <2>3. \A k \in Rows : entries[k].expires > clock' => entries[k].expires > clock
        BY <1>0, <2>1, <2>2 DEF TypeOK
    <2>4. Live' \subseteq Live
        BY <2>1, <2>3 DEF Live, Rows
    <2> QED
        BY <1>5, <2>4, SameMaps, ForgetContract DEF Tick
<1>6. ASSUME NEW p, Crash(p) PROVE Contract!Next
    BY <1>0, <1>6, CrashContract
<1>7. CASE UNCHANGED vars
    <2>1. Live' = Live
        BY <1>7 DEF vars, table, Live, Rows
    <2>2. UNCHANGED <<StageOf, ReplyOf, key, Fresh>>
        BY <1>7, SameMaps DEF vars
    <2> QED
        BY <2>1, <2>2 DEF StageOf, ReplyOf, Contract!vars
<1> QED
    BY <1>1, <1>2, <1>3, <1>4, <1>5, <1>6, <1>7 DEF Next

\* The store that several processes share keeps the same promise as the one in
\* memory: a crash abandons the callers of its process, and what was stored
\* stays as fresh as the contract asks.
THEOREM Refinement == Spec => ImplementsContract
    BY InitContract, NextContract, Invariant, PTL DEF Spec, ImplementsContract, Contract!Spec
================================================================================
