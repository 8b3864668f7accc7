------------------------------- MODULE LruProofs -------------------------------
(***************************************************************************)
(* What the operators of Lru return: that they only choose among entries,  *)
(* that the order of recency stays one, and that evicting brings the       *)
(* entries and their bytes within bounds.                                  *)
(***************************************************************************)
EXTENDS Lru, FiniteSetTheorems, WellFoundedInduction, TLAPS

\* Dropping entries only chooses among them.
LEMMA KeepType ==
    ASSUME NEW m, NEW S, NEW T, S \subseteq DOMAIN m, m \in [DOMAIN m -> T]
    PROVE  /\ Keep(m, S) \in [S -> T]
           /\ DOMAIN Keep(m, S) = S
           /\ \A k \in S : Keep(m, S)[k] = m[k]
    BY DEF Keep

LEMMA KeepOrderType ==
    ASSUME NEW order, NEW S
    PROVE  KeepOrder(order, S) \subseteq S \X S
    BY DEF KeepOrder

LEMMA MoveToEndType ==
    ASSUME NEW S, NEW order \in SUBSET (S \X S), NEW k \in S
    PROVE  MoveToEnd(order, S, k) \subseteq S \X S
    BY DEF MoveToEnd

LEMMA SurvivorsSubset ==
    ASSUME NEW m, NEW order, NEW bytes
    PROVE  Survivors(m, order, bytes) \subseteq DOMAIN m
    BY DEF Survivors

\* Payloads are counted by the cardinality of a finite set.
LEMMA BytesOfNat ==
    ASSUME NEW m, NEW S, IsFiniteSet(S)
    PROVE  BytesOf(m, S) \in Nat
<1> DEFINE cells == S \X (1..MaxSize)
<1>1. IsFiniteSet(1..MaxSize)
    BY BoundsAssumption, FS_Interval
<1>2. IsFiniteSet(cells)
    BY <1>1, FS_Product
<1>3. IsFiniteSet({cell \in cells : cell[2] <= m[cell[1]].payload_bytes})
    BY <1>2, FS_Subset
<1> QED
    BY <1>3, FS_CardinalityType DEF BytesOf

--------------------------------------------------------------------------------
\* The relation orders S: strictly and totally.
Orders(order, S) ==
    /\ \A k \in S : <<k, k>> \notin order
    /\ \A i, j, k \in S : <<i, j>> \in order /\ <<j, k>> \in order => <<i, k>> \in order
    /\ \A j, k \in S : j # k => <<j, k>> \in order \/ <<k, j>> \in order

LEMMA KeepOrders ==
    ASSUME NEW S, NEW T \in SUBSET S, NEW order, Orders(order, S)
    PROVE  Orders(KeepOrder(order, T), T)
    BY DEF Orders, KeepOrder

\* k may be new, or known before; it becomes the latest.
LEMMA MoveToEndOrders ==
    ASSUME NEW S, NEW T, NEW k \in T, T \subseteq S \cup {k}, NEW order, Orders(order, S)
    PROVE  /\ Orders(MoveToEnd(order, T, k), T)
           /\ \A j \in T \ {k} : /\ <<j, k>> \in MoveToEnd(order, T, k)
                                 /\ <<k, j>> \notin MoveToEnd(order, T, k)
<1> DEFINE new == MoveToEnd(order, T, k)
<1>1. \A i, j \in T : i # k /\ j # k => (<<i, j>> \in new <=> <<i, j>> \in order)
    BY DEF MoveToEnd
<1>2. \A j \in T : /\ j # k => <<j, k>> \in new
                   /\ <<k, j>> \notin new
    BY DEF MoveToEnd
<1> HIDE DEF new
<1>3. Orders(new, T)
    BY <1>1, <1>2 DEF Orders
<1> QED
    BY <1>2, <1>3 DEF new

\* Of finitely many entries in order, one is the oldest.
LEMMA OldestExists ==
    ASSUME NEW S, IsFiniteSet(S), S # {}, NEW order, Orders(order, S)
    PROVE  \E k \in S : \A j \in S : <<j, k>> \notin order
<1> DEFINE Before(k) == {j \in S : <<j, k>> \in order}
           sets == {Before(k) : k \in S}
<1>1. sets \subseteq FiniteSubsetsOf(S) /\ sets # {}
    <2>1. \A k \in S : Before(k) \in SUBSET S /\ IsFiniteSet(Before(k))
        BY FS_Subset
    <2> QED
        BY <2>1 DEF FiniteSubsetsOf
<1>2. PICK least \in sets : \A U \in sets : <<U, least>> \notin StrictSubsetOrdering(S)
    BY <1>1, FS_StrictSubsetOrderingWellFounded, WFMin
<1>3. PICK k \in S : least = Before(k)
    BY <1>2
<1>4. ASSUME NEW j \in S, <<j, k>> \in order PROVE FALSE
    <2>1. Before(j) \in sets /\ Before(j) \subseteq S /\ Before(k) \subseteq S
        OBVIOUS
    <2>2. Before(j) \subseteq Before(k) /\ j \in Before(k) /\ j \notin Before(j)
        BY <1>4 DEF Orders
    <2>3. <<Before(j), Before(k)>> \in StrictSubsetOrdering(S)
        BY <2>1, <2>2 DEF StrictSubsetOrdering
    <2> QED
        BY <1>2, <1>3, <2>1, <2>3
<1> QED
    BY <1>4

--------------------------------------------------------------------------------
\* The payloads of disjoint sets of entries add up.
LEMMA BytesOfUnion ==
    ASSUME NEW m, NEW S, NEW T, IsFiniteSet(S), IsFiniteSet(T), S \cap T = {}
    PROVE  BytesOf(m, S \cup T) = BytesOf(m, S) + BytesOf(m, T)
<1> DEFINE cells(U) == {cell \in U \X (1..MaxSize) : cell[2] <= m[cell[1]].payload_bytes}
<1>1. IsFiniteSet(1..MaxSize)
    BY BoundsAssumption, FS_Interval
<1>2. \A U : IsFiniteSet(U) => IsFiniteSet(cells(U))
    BY <1>1, FS_Product, FS_Subset
<1>3. cells(S \cup T) = cells(S) \cup cells(T) /\ cells(S) \cap cells(T) = {}
    OBVIOUS
<1>4. /\ IsFiniteSet(cells(S)) /\ IsFiniteSet(cells(T))
      /\ Cardinality(cells(S)) \in Nat /\ Cardinality(cells(T)) \in Nat
    BY <1>2, FS_CardinalityType
<1> HIDE DEF cells
<1>5. Cardinality(cells(S) \cup cells(T)) =
         Cardinality(cells(S)) + Cardinality(cells(T)) - Cardinality(cells(S) \cap cells(T))
    BY <1>4, FS_Union
<1>6. Cardinality(cells(S) \cap cells(T)) = 0
    <2>1. cells(S) \cap cells(T) = {}
        BY <1>3
    <2> QED
        BY <2>1, FS_EmptySet
<1>7. Cardinality(cells(S \cup T)) = Cardinality(cells(S)) + Cardinality(cells(T))
    <2>1. Cardinality(cells(S \cup T)) = Cardinality(cells(S) \cup cells(T))
        BY <1>3, Zenon
    <2> QED
        BY <1>4, <1>5, <1>6, <2>1
<1> QED
    BY <1>7 DEF BytesOf, cells

LEMMA BytesOfDifference ==
    ASSUME NEW m, NEW S, NEW T, IsFiniteSet(S), T \subseteq S
    PROVE  BytesOf(m, S \ T) = BytesOf(m, S) - BytesOf(m, T)
<1>1. IsFiniteSet(T) /\ IsFiniteSet(S \ T)
    BY FS_Subset
<1>2. BytesOf(m, S) = BytesOf(m, S \ T) + BytesOf(m, T)
    <2>1. (S \ T) \cup T = S /\ (S \ T) \cap T = {}
        OBVIOUS
    <2>2. BytesOf(m, (S \ T) \cup T) = BytesOf(m, S \ T) + BytesOf(m, T)
        BY <1>1, <2>1, BytesOfUnion
    <2> QED
        BY <2>1, <2>2
<1> QED
    BY <1>1, <1>2, BytesOfNat

LEMMA BytesOfNone == ASSUME NEW m PROVE BytesOf(m, {}) = 0
<1>1. {cell \in {} \X (1..MaxSize) : cell[2] <= m[cell[1]].payload_bytes} = {}
    OBVIOUS
<1> QED
    BY <1>1, FS_EmptySet DEF BytesOf

LEMMA BytesOfOne ==
    ASSUME NEW m, NEW k, m[k].payload_bytes \in 0..MaxSize
    PROVE  BytesOf(m, {k}) = m[k].payload_bytes
<1> DEFINE n == m[k].payload_bytes
           cells == {cell \in {k} \X (1..MaxSize) : cell[2] <= m[cell[1]].payload_bytes}
<1>0. n \in Nat /\ n <= MaxSize
    BY BoundsAssumption
<1>1. cells = {k} \X (1..n)
    BY <1>0, BoundsAssumption
<1> HIDE DEF n, cells
<1>2. IsFiniteSet(1..n) /\ Cardinality(1..n) = n
    BY <1>0, FS_Interval
<1>3. IsFiniteSet({k}) /\ Cardinality({k}) = 1
    BY FS_Singleton
<1>4. Cardinality({k} \X (1..n)) = Cardinality({k}) * Cardinality(1..n)
    <2>1. IsFiniteSet({k}) /\ IsFiniteSet(1..n)
        BY <1>2, <1>3
    <2> QED
        BY ONLY <2>1, FS_Product
<1>5. Cardinality(cells) = 1 * n
    BY <1>1, <1>2, <1>3, <1>4
<1>6. Cardinality(cells) = n
    BY <1>0, <1>5
<1> QED
    BY <1>6 DEF BytesOf, n, cells

\* Only the payloads of the entries counted matter.
LEMMA BytesOfSame ==
    ASSUME NEW m, NEW n, NEW S, \A k \in S : m[k] = n[k]
    PROVE  BytesOf(m, S) = BytesOf(n, S)
<1>1. {cell \in S \X (1..MaxSize) : cell[2] <= m[cell[1]].payload_bytes}
    = {cell \in S \X (1..MaxSize) : cell[2] <= n[cell[1]].payload_bytes}
    OBVIOUS
<1> QED
    BY <1>1 DEF BytesOf

\* Evicting brings both counts in bounds: what stays is the oldest entry that
\* may stay and all that is younger.
LEMMA SurvivorsBounded ==
    ASSUME NEW m, IsFiniteSet(DOMAIN m), NEW order, Orders(order, DOMAIN m),
           NEW bytes, bytes = BytesOf(m, DOMAIN m)
    PROVE  LET kept == Survivors(m, order, bytes)
           IN  /\ Cardinality(kept) <= MaxEntries
               /\ BytesOf(m, kept) <= MaxBytes
               /\ BytesOf(m, kept) = bytes - BytesOf(m, DOMAIN m \ kept)
<1> DEFINE kept == Survivors(m, order, bytes)
           Older(k) == {j \in DOMAIN m : <<j, k>> \in order}
<1>1. kept \subseteq DOMAIN m
    BY SurvivorsSubset
<1>2. \A k \in kept : /\ Cardinality(DOMAIN m \ Older(k)) <= MaxEntries
                      /\ bytes - BytesOf(m, Older(k)) <= MaxBytes
    BY DEF Survivors
<1>3. \A j, k \in DOMAIN m : k \in kept /\ <<k, j>> \in order => j \in kept
    <2> SUFFICES ASSUME NEW j \in DOMAIN m, NEW k \in kept, <<k, j>> \in order
                 PROVE  j \in kept
        BY <1>1
    <2>1. Older(k) \subseteq Older(j)
        BY <1>1 DEF Orders
    <2>2. IsFiniteSet(Older(j)) /\ IsFiniteSet(Older(k)) /\ IsFiniteSet(Older(j) \ Older(k))
        BY FS_Subset
    <2>3. Cardinality(DOMAIN m \ Older(j)) <= MaxEntries
        <3>1. DOMAIN m \ Older(j) \subseteq DOMAIN m \ Older(k)
            BY <2>1
        <3>2. /\ IsFiniteSet(DOMAIN m \ Older(k))
              /\ Cardinality(DOMAIN m \ Older(j)) <= Cardinality(DOMAIN m \ Older(k))
              /\ Cardinality(DOMAIN m \ Older(j)) \in Nat
              /\ Cardinality(DOMAIN m \ Older(k)) \in Nat
            BY <3>1, FS_Subset, FS_CardinalityType
        <3> HIDE DEF Older, kept
        <3> QED
            BY <1>2, <3>2, BoundsAssumption
    <2>4. bytes - BytesOf(m, Older(j)) <= MaxBytes
        <3>1. BytesOf(m, Older(j) \ Older(k)) = BytesOf(m, Older(j)) - BytesOf(m, Older(k))
            BY <2>1, <2>2, BytesOfDifference
        <3>2. /\ BytesOf(m, Older(j) \ Older(k)) \in Nat
              /\ BytesOf(m, Older(j)) \in Nat
              /\ BytesOf(m, Older(k)) \in Nat
              /\ bytes \in Nat
            BY <2>2, BytesOfNat
        <3>3. bytes - BytesOf(m, Older(k)) <= MaxBytes
            BY <1>2
        <3> HIDE DEF Older, kept
        <3> QED
            BY <3>1, <3>2, <3>3, BoundsAssumption
    <2> QED
        BY <2>3, <2>4 DEF Survivors
<1> HIDE DEF kept
<1>4. BytesOf(m, kept) = bytes - BytesOf(m, DOMAIN m \ kept)
    <2>1. DOMAIN m \ (DOMAIN m \ kept) = kept
        BY <1>1
    <2>2. BytesOf(m, DOMAIN m \ (DOMAIN m \ kept))
              = BytesOf(m, DOMAIN m) - BytesOf(m, DOMAIN m \ kept)
        BY BytesOfDifference
    <2> QED
        BY <2>1, <2>2
<1>5. CASE kept = {}
    <2>1. Cardinality(kept) = 0 /\ BytesOf(m, kept) = 0
        BY <1>5, FS_EmptySet, BytesOfNone
    <2> QED
        BY <1>4, <2>1, BoundsAssumption DEF kept
<1>6. CASE kept # {}
    <2>1. Orders(order, kept) /\ IsFiniteSet(kept)
        BY <1>1, FS_Subset DEF Orders
    <2>2. PICK k \in kept : \A j \in kept : <<j, k>> \notin order
        BY <1>6, <2>1, OldestExists
    <2>3. Older(k) = DOMAIN m \ kept
        <3>1. Older(k) \subseteq DOMAIN m \ kept
            BY <2>2
        <3>2. ASSUME NEW j \in DOMAIN m \ kept PROVE j \in Older(k)
            BY <1>1, <1>3, <2>2 DEF Orders
        <3> QED
            BY <3>1, <3>2
    <2>4. DOMAIN m \ Older(k) = kept
        BY <1>1, <2>3
    <2>5. Cardinality(kept) <= MaxEntries
        BY <1>2, <2>4
    <2>6. BytesOf(m, kept) <= MaxBytes
        BY <1>2, <1>4, <2>3
    <2> QED
        BY <1>4, <2>5, <2>6 DEF kept
<1> QED
    BY <1>5, <1>6

\* The latest entry stays if its payload alone is within the bounds.
LEMMA LatestSurvives ==
    ASSUME NEW m, IsFiniteSet(DOMAIN m), NEW order, NEW k \in DOMAIN m,
           \A j \in DOMAIN m \ {k} : <<j, k>> \in order, <<k, k>> \notin order,
           m[k].payload_bytes \in 0..MaxSize, m[k].payload_bytes <= MaxBytes
    PROVE  k \in Survivors(m, order, BytesOf(m, DOMAIN m))
<1> DEFINE dropped == {j \in DOMAIN m : <<j, k>> \in order}
<1>1. dropped = DOMAIN m \ {k} /\ DOMAIN m \ dropped = {k}
    OBVIOUS
<1> HIDE DEF dropped
<1>2. Cardinality(DOMAIN m \ dropped) <= MaxEntries
    <2>1. Cardinality({k}) = 1
        BY FS_Singleton
    <2> QED
        BY <1>1, <2>1, BoundsAssumption
<1>3. BytesOf(m, DOMAIN m) - BytesOf(m, dropped) <= MaxBytes
    <2>1. BytesOf(m, DOMAIN m \ dropped) = BytesOf(m, DOMAIN m) - BytesOf(m, dropped)
        BY <1>1, BytesOfDifference
    <2>2. BytesOf(m, DOMAIN m \ dropped) = m[k].payload_bytes
        BY <1>1, BytesOfOne
    <2> QED
        BY <2>1, <2>2
<1> QED
    BY <1>2, <1>3 DEF Survivors, dropped
================================================================================
