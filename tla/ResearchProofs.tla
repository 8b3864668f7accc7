----------------------------- MODULE ResearchProofs -----------------------------
(***************************************************************************)
(* Theorems about the research half of the program and the pilot that      *)
(* measures it: what justifies a reuse in a stream of queries, that labels *)
(* are kept, what calibration and evaluation make of them, and that the    *)
(* pilot's journal keeps its quotas; for every set of texts, cues,         *)
(* similarities and wordings, every stream, dataset and benchmark, every   *)
(* budget, cap and number of retries, processes and runs.                  *)
(***************************************************************************)
EXTENDS QueryStream, PairEvaluation, PilotJournal, FiniteSetTheorems, NaturalsInduction, WellFoundedInduction, TLAPS

--------------------------------------------------------------------------------
(* Query streams.  The invariant keeps what the router has found until the *)
(* judge returns, and ties each entry of the caches to the text it was     *)
(* generated for.                                                          *)

Entries == Nat \X Queries

\* The stores: positions tie a vector to the text and the event it stands for,
\* and a canonical key to a text of that key.
Types ==
    /\ driver \in Drivers
    /\ phase \in {"deciding", "judging"} => event.query \in Queries /\ event.seed \in BOOLEAN
    /\ store.vectors \in Seq(Queries) /\ store.metadata \in Seq(Entries)
    /\ telemetry \in Seq(Records)

Aligned ==
    /\ Len(store.metadata) = Len(store.vectors)
    /\ \A i \in 1..Len(store.vectors) : store.metadata[i][2] = store.vectors[i]

CanonicallyAligned ==
    \A k \in DOMAIN canonical :
        /\ k # NoKey /\ canonical[k] \in Entries
        /\ Canonical[canonical[k][2]] = k

\* While the judge thinks, the query is still one the router sent it.
Awaiting ==
    phase = "judging" =>
        /\ Program.gate = "router" /\ Program.ambiguous = "judge"
        /\ Tier = "AMBIGUOUS"

\* What a failed call leaves is never a permission.
VerdictSound ==
    /\ verdict \in JudgeResult
    /\ verdict.fallback_triggered => ~verdict.is_safe

\* ReuseJustified of one record.
Justified(r) ==
    /\ r.matched # << >>
    /\ r.path \notin {"CANONICAL_EXACT", "COSINE"} =>
          /\ Classify(CuesOf[r.query], "FORWARD_TO_CACHE_CANDIDATE").effective = "STABLE"
          /\ Classify(CuesOf[r.query], "FORWARD_TO_CACHE_CANDIDATE").confidence >= 80
          /\ Similarity[r.matched[2]][r.query] >= 50
    /\ r.path = "AUTO_REUSE" =>
          /\ Similarity[r.matched[2]][r.query] >= 92
          /\ Classify(CuesOf[r.query], "FORWARD_TO_CACHE_CANDIDATE").confidence >= 90
    /\ r.path = "COSINE" => Similarity[r.matched[2]][r.query] >= 85
    /\ r.path = "CANONICAL_EXACT" =>
          Canonical[r.matched[2]] = Canonical[r.query] /\ Canonical[r.query] # NoKey
    /\ ~r.fallback
    /\ (Program.guarded /\ r.path # "CANONICAL_EXACT") =>
          EvaluateRuleGuards(Wording[r.matched[2]], Wording[r.query])

AllJustified ==
    \A i \in 1..Len(telemetry) : telemetry[i].decision = "REUSE" => Justified(telemetry[i])

IInv == Types /\ Aligned /\ CanonicallyAligned /\ Awaiting /\ VerdictSound /\ AllJustified

LEMMA Meaning == AllJustified <=> ReuseJustified
BY DEF AllJustified, Justified, ReuseJustified, Reused, Gate

--------------------------------------------------------------------------------
\* The only program that has guards, or a sealed stream.
LEMMA GuardedPrograms ==
    ASSUME driver \in Drivers, Program.guarded \/ Program.sealed
    PROVE  Program.gate = "router" /\ Program.ambiguous = "local"
<1>1. driver \in {"load_test", "new_dataset", "demo", "arm_b", "arm_c", "arm_d",
                  "normalizer", "normalizer_cosine", "sealed"}
      BY DriversAssumption DEF Programs
<1>2. /\ ArmC.guarded = FALSE /\ ArmC.sealed = FALSE
      /\ ArmD.guarded = FALSE /\ ArmD.sealed = FALSE
      BY DEF ArmC, ArmD
<1>3. \A p \in {LoadTest, NewDatasetLoadTest, Demo, ArmB} : ~p.guarded /\ ~p.sealed
      BY DEF LoadTest, NewDatasetLoadTest, Demo, ArmB, ArmC
<1>4. \A p \in {NormalizerOnly, NormalizerCosine} : ~p.guarded /\ ~p.sealed
      BY DEF NormalizerOnly, NormalizerCosine, ArmD, ArmC
<1>5. SealedEvaluation.gate = "router" /\ SealedEvaluation.ambiguous = "local"
      BY DEF SealedEvaluation, ArmD, ArmC
<1>6. Program \in {LoadTest, NewDatasetLoadTest, Demo, ArmB, ArmC, ArmD, NormalizerOnly,
                   NormalizerCosine, SealedEvaluation}
      BY <1>1 DEF Program, Programs
<1>. QED  BY <1>2, <1>3, <1>4, <1>5, <1>6

\* A confidence is a number of hundredths.
LEMMA ConfidenceType ==
    ASSUME NEW q \in Queries
    PROVE  Classify(CuesOf[q], "FORWARD_TO_CACHE_CANDIDATE").confidence \in 0..100
<1>1. CuesOf[q].p_dynamic \in 0..100
      BY StreamAssumption DEF Cues
<1>. QED  BY <1>1 DEF Classify, FromRule, FromFallback, TrainedPrediction

--------------------------------------------------------------------------------
\* A non-empty set of natural numbers has a least element.
LEMMA LeastNumber ==
    ASSUME NEW S \in SUBSET Nat, S # {}
    PROVE  \E m \in S : \A n \in S : m <= n
<1>1. PICK m \in S : \A n \in S : <<n, m>> \notin OpToRel(<, Nat)
      BY WFMin, NatLessThanWellFounded, Zenon
<1>2. \A n \in S : ~(n < m)
      BY <1>1, Zenon DEF OpToRel
<1>. QED  BY <1>2

\* Similarities as distances.
LEMMA Distances ==
    /\ \A x \in -100..100 : x \in Int /\ 100 - x \in Nat
    /\ \A x, y \in Int : 100 - x <= 100 - y <=> y <= x
    /\ \A x, y \in Int : y <= x => (y < x \/ y = x)
    /\ \A x, y \in Int : x = y => 100 - x = 100 - y
OBVIOUS

\* The first of the closest vectors exists.
LEMMA NearestIsThere ==
    ASSUME store.vectors \in Seq(Queries), store.vectors # << >>, NEW q \in Queries
    PROVE  Nearest(store, q) \in 1..Len(store.vectors)
<1>1. Len(store.vectors) \in Nat /\ 1 \in 1..Len(store.vectors)
      OBVIOUS
<1>2. \A i \in 1..Len(store.vectors) : /\ Similarity[store.vectors[i]][q] \in Int
                                       /\ 100 - Similarity[store.vectors[i]][q] \in Nat
  <2>1. TAKE i \in 1..Len(store.vectors)
  <2>2. store.vectors[i] \in Queries
        OBVIOUS
  <2>3. Similarity[store.vectors[i]][q] \in -100..100
        BY <2>2, SimilarityAssumption
  <2>. QED  BY <2>3, Distances
<1>3. PICK m \in Nat :
          /\ \E i \in 1..Len(store.vectors) : m = 100 - Similarity[store.vectors[i]][q]
          /\ \A i \in 1..Len(store.vectors) : m <= 100 - Similarity[store.vectors[i]][q]
  <2>. DEFINE distances ==
          {n \in Nat : \E i \in 1..Len(store.vectors) : n = 100 - Similarity[store.vectors[i]][q]}
  <2>1. distances \in SUBSET Nat
        OBVIOUS
  <2>2. 100 - Similarity[store.vectors[1]][q] \in distances
        BY <1>1, <1>2
  <2>3. \A i \in 1..Len(store.vectors) : 100 - Similarity[store.vectors[i]][q] \in distances
        BY <1>2
  <2>4. \A n \in distances : n \in Nat /\ \E i \in 1..Len(store.vectors) : n = 100 - Similarity[store.vectors[i]][q]
        OBVIOUS
  <2>. HIDE DEF distances
  <2>5. PICK m \in distances : \A n \in distances : m <= n
        BY <2>1, <2>2, LeastNumber
  <2>. QED  BY <2>3, <2>4, <2>5
<1>4. PICK j \in 1..Len(store.vectors) :
          /\ m = 100 - Similarity[store.vectors[j]][q]
          /\ \A i \in 1..Len(store.vectors) : m = 100 - Similarity[store.vectors[i]][q] => j <= i
  <2>. DEFINE closest ==
          {n \in Nat : n \in 1..Len(store.vectors) /\ m = 100 - Similarity[store.vectors[n]][q]}
  <2>1. closest \in SUBSET Nat
        OBVIOUS
  <2>2. \A i \in 1..Len(store.vectors) : m = 100 - Similarity[store.vectors[i]][q] => i \in closest
        OBVIOUS
  <2>3. \A n \in closest : n \in 1..Len(store.vectors) /\ m = 100 - Similarity[store.vectors[n]][q]
        OBVIOUS
  <2>4. closest # {}
        BY <1>3, <2>2
  <2>. HIDE DEF closest
  <2>5. PICK j \in closest : \A n \in closest : j <= n
        BY <2>1, <2>4, LeastNumber
  <2>. QED  BY <2>2, <2>3, <2>5
<1>5. \A i \in 1..Len(store.vectors) :
          \/ Similarity[store.vectors[i]][q] < Similarity[store.vectors[j]][q]
          \/ /\ Similarity[store.vectors[i]][q] = Similarity[store.vectors[j]][q]
             /\ j <= i
  <2>1. TAKE i \in 1..Len(store.vectors)
  <2>2. 100 - Similarity[store.vectors[j]][q] <= 100 - Similarity[store.vectors[i]][q]
        BY <1>3, <1>4
  <2>3. 100 - Similarity[store.vectors[i]][q] = 100 - Similarity[store.vectors[j]][q] => j <= i
        BY <1>4
  <2>4. Similarity[store.vectors[i]][q] \in Int /\ Similarity[store.vectors[j]][q] \in Int
        BY <1>2
  <2>5. Similarity[store.vectors[i]][q] <= Similarity[store.vectors[j]][q]
        BY <2>2, <2>4, Distances
  <2>6. Similarity[store.vectors[i]][q] = Similarity[store.vectors[j]][q] => j <= i
        BY <2>3
  <2>. QED  BY <2>4, <2>5, <2>6, Distances
<1>. QED  BY <1>5 DEF Nearest

--------------------------------------------------------------------------------
\* An entry is not the empty metadata.
LEMMA EntriesAreThere ==
    ASSUME NEW e \in Entries
    PROVE  e # << >> /\ e[1] \in Nat /\ e[2] \in Queries /\ e \in Metadata
<1>1. PICK n \in Nat, q \in Queries : e = <<n, q>>
      BY DEF Entries
<1>2. Len(e) = 2 /\ Len(<< >>) = 0
      BY <1>1
<1>. QED  BY <1>1, <1>2 DEF Metadata, Entries

\* A lookup in a store that is not empty finds the text of an entry, and the
\* score is that of this text.
LEMMA Found ==
    ASSUME Types, Aligned, Query \in Queries, Lookup.store_size # 0
    PROVE  /\ Lookup.matched \in Entries
           /\ Lookup.score = Similarity[Lookup.matched[2]][Query]
           /\ Lookup.score \in Int
           /\ Lookup.hit => Lookup.score >= 85
<1>1. store.vectors \in Seq(Queries) /\ store.vectors # << >>
      BY DEF Types, Lookup, LookUp, CacheLookupResult
<1>. DEFINE i == Nearest(store, Query)
<1>2. i \in 1..Len(store.vectors)
      BY <1>1, NearestIsThere
<1>. HIDE DEF i
<1>3. i <= Len(store.metadata) /\ i \in 1..Len(store.metadata)
      BY <1>2 DEF Aligned
<1>4. Search(store, Query) = [found |-> TRUE, score |-> Similarity[store.vectors[i]][Query],
                              position |-> i, metadata |-> store.metadata[i]]
      BY <1>1, <1>3 DEF Search, i
<1>5. /\ Lookup.matched = store.metadata[i]
      /\ Lookup.score = Similarity[store.vectors[i]][Query]
      BY <1>4 DEF Lookup, LookUp, CacheLookupResult
<1>9. Lookup.hit => Lookup.score >= CacheThreshold
  <2>1. Lookup = [hit |-> /\ Search(store, Query).found
                         /\ Search(store, Query).score >= CacheThreshold,
                  score |-> Search(store, Query).score,
                  matched |-> Search(store, Query).metadata,
                  store_size |-> Len(store.vectors)]
        BY Zenon DEF Lookup, LookUp, CacheLookupResult
  <2>2. Lookup.hit = /\ Search(store, Query).found
                     /\ Search(store, Query).score >= CacheThreshold
        BY <2>1, Zenon
  <2>3. Lookup.score = Search(store, Query).score
        BY <2>1
  <2>. QED  BY <2>2, <2>3, Zenon
<1>6. store.metadata[i] \in Entries
      BY <1>3 DEF Types
<1>7. store.metadata[i][2] = store.vectors[i] /\ store.vectors[i] \in Queries
      BY <1>1, <1>2 DEF Aligned
<1>8. Similarity[store.vectors[i]][Query] \in -100..100
      BY <1>7, SimilarityAssumption
<1>. QED  BY <1>5, <1>6, <1>7, <1>8, <1>9, Distances DEF CacheThreshold

\* An empty store finds nothing.
LEMMA NotFound ==
    ASSUME store.vectors = << >>
    PROVE  ~Lookup.hit /\ Lookup.matched = << >> /\ Lookup.store_size = 0
BY DEF Lookup, LookUp, CacheLookupResult, Search

\* What is matched is an entry or nothing.
LEMMA Matched ==
    ASSUME Types, Aligned, Query \in Queries
    PROVE  Lookup.matched \in Metadata /\ (Lookup.hit => Lookup.store_size # 0)
<1>1. CASE store.vectors = << >>
      BY <1>1, NotFound DEF Metadata
<1>2. CASE store.vectors # << >>
  <2>1. Lookup.store_size # 0
        BY <1>2 DEF Lookup, LookUp, CacheLookupResult, Types
  <2>2. Lookup.matched \in Entries
        BY <2>1, Found
  <2>. QED  BY <2>1, <2>2 DEF Metadata, Entries
<1>. QED  BY <1>1, <1>2

\* What the router does not bypass was found stable, with confidence, and
\* resembles what it matched.
LEMMA RouterEarns ==
    ASSUME Types, Aligned, Query \in Queries, Tier # "BYPASS"
    PROVE  /\ Lookup.matched \in Entries
           /\ Stability.effective = "STABLE" /\ Stability.confidence >= 80
           /\ Similarity[Lookup.matched[2]][Query] >= 50
           /\ Tier = "AUTO_REUSE" => /\ Stability.confidence >= 90
                                     /\ Similarity[Lookup.matched[2]][Query] >= 92
<1>1. ~MustBypass(DEFAULT_BOUNDARIES, Lookup, Stability)
      BY DEF Tier, Route
<1>2. /\ Stability.effective = "STABLE" /\ Lookup.store_size # 0
      /\ ~(Lookup.score < 50) /\ ~(Stability.confidence < 80)
      BY <1>1 DEF MustBypass, DEFAULT_BOUNDARIES
<1>3. Tier = "AUTO_REUSE" => Lookup.score >= 92 /\ Stability.confidence >= 90
      BY <1>1 DEF Tier, Route, MayAutoReuse, DEFAULT_BOUNDARIES
<1>4. Stability.confidence \in 0..100
      BY ConfidenceType DEF Stability
<1>5. /\ Lookup.matched \in Entries /\ Lookup.score \in Int
      /\ Lookup.score = Similarity[Lookup.matched[2]][Query]
      BY <1>2, Found
<1>6. Lookup.score >= 50 /\ Stability.confidence >= 80
      BY <1>2, <1>4, <1>5
<1>. QED  BY <1>2, <1>3, <1>5, <1>6

--------------------------------------------------------------------------------
Entry == <<Id, Query>>

\* Two appends keep the positions of vectors and metadata together.
LEMMA Indexed ==
    ASSUME Types, Aligned, Query \in Queries, store' \in {store, AddVector(store, Query, Entry)}
    PROVE  /\ store'.vectors \in Seq(Queries) /\ store'.metadata \in Seq(Entries)
           /\ Aligned'
<1>1. Len(telemetry) \in Nat /\ Entry \in Entries /\ Entry[2] = Query
      BY DEF Types, Entry, Entries, Id
<1>2. CASE store' = store
      BY <1>2 DEF Types, Aligned
<1>3. CASE store' = AddVector(store, Query, Entry)
  <2>. DEFINE v == store.vectors
              d == store.metadata
              e == Entry
  <2>1. v \in Seq(Queries) /\ d \in Seq(Entries) /\ Len(d) = Len(v)
        /\ \A i \in 1..Len(v) : d[i][2] = v[i]
        BY DEF Types, Aligned
  <2>2. store'.vectors = Append(v, Query) /\ store'.metadata = Append(d, e)
        BY <1>3 DEF AddVector
  <2>. HIDE DEF v, d, e
  <2>3. e \in Entries /\ e[2] = Query
        BY <1>1 DEF e
  <2>4. /\ Append(v, Query) \in Seq(Queries) /\ Append(d, e) \in Seq(Entries)
        /\ Len(Append(v, Query)) = Len(v) + 1 /\ Len(Append(d, e)) = Len(v) + 1
        BY <2>1, <2>3
  <2>5. \A i \in 1..Len(v) + 1 : Append(d, e)[i][2] = Append(v, Query)[i]
    <3>1. TAKE i \in 1..Len(v) + 1
    <3>2. CASE i = Len(v) + 1
          BY <2>1, <2>3, <3>2
    <3>3. CASE i \in 1..Len(v)
          BY <2>1, <3>3
    <3>. QED  BY <2>1, <3>2, <3>3
  <2>. QED  BY <2>2, <2>4, <2>5 DEF Aligned
<1>. QED  BY <1>2, <1>3

\* The exact cache keeps texts under their own key.
LEMMA Remembered ==
    ASSUME Types, CanonicallyAligned, Query \in Queries,
           canonical' \in {canonical, CanonicalPut(canonical, Query, Entry)}
    PROVE  CanonicallyAligned'
<1>1. Entry \in Entries /\ Entry[2] = Query
      BY DEF Types, Entry, Entries, Id
<1>2. CASE canonical' = canonical
      BY <1>2 DEF CanonicallyAligned
<1>3. CASE canonical' = CanonicalPut(canonical, Query, Entry) /\ Canonical[Query] = NoKey
      BY <1>3 DEF CanonicallyAligned, CanonicalPut
<1>4. CASE canonical' = CanonicalPut(canonical, Query, Entry) /\ Canonical[Query] # NoKey
  <2>1. canonical' = [k \in DOMAIN canonical \cup {Canonical[Query]} |->
                          IF k = Canonical[Query] THEN Entry ELSE canonical[k]]
        BY <1>4 DEF CanonicalPut
  <2>2. \A k \in DOMAIN canonical' :
            \/ k = Canonical[Query] /\ canonical'[k] = Entry
            \/ k \in DOMAIN canonical /\ canonical'[k] = canonical[k]
        BY <2>1
  <2>. QED  BY <1>1, <1>4, <2>2 DEF CanonicallyAligned
<1>. QED  BY <1>2, <1>3, <1>4

\* The record of a query.
Record(path, decision, matched) ==
    [query |-> Query, seed |-> event.seed, path |-> path, decision |-> decision,
     matched |-> matched, fallback |-> path = "JUDGED" /\ verdict.fallback_triggered]

\* What is settled with a justified record keeps the invariant.
LEMMA Settled ==
    ASSUME Types, Aligned, CanonicallyAligned, VerdictSound, AllJustified,
           phase \in {"deciding", "judging"},
           NEW path \in Paths, NEW decision \in {"REUSE", "BYPASS"}, NEW matched \in Metadata,
           Settle(path, decision, matched),
           decision = "REUSE" => Justified(Record(path, decision, matched))
    PROVE  Types' /\ Aligned' /\ CanonicallyAligned' /\ Awaiting' /\ AllJustified'
<1>. DEFINE r == Record(path, decision, matched)
<1>1. Query \in Queries /\ event.seed \in BOOLEAN
      BY DEF Types, Query
<1>2. /\ telemetry' = Append(telemetry, r) /\ phase' = "next"
      /\ driver' = driver /\ event' = event
      /\ store' \in {store, AddVector(store, Query, Entry)}
      /\ canonical' \in {canonical, CanonicalPut(canonical, Query, Entry)}
      BY DEF Settle, Record, Entry
<1>3. r \in Records /\ r.decision = decision
      BY <1>1 DEF Record, Records, VerdictSound, JudgeResult
<1>4. telemetry \in Seq(Records)
      BY DEF Types
<1>. HIDE DEF r
<1>5. Append(telemetry, r) \in Seq(Records)
      BY <1>3, <1>4
<1>6. /\ store'.vectors \in Seq(Queries) /\ store'.metadata \in Seq(Entries)
      /\ Aligned'
      BY <1>1, <1>2, Indexed
<1>7. Types'
      BY <1>2, <1>5, <1>6 DEF Types
<1>8. CanonicallyAligned'
      BY <1>1, <1>2, Remembered
<1>9. Awaiting'
      BY <1>2 DEF Awaiting
<1>10. \A x : Justified(x)' <=> Justified(x)
      BY <1>2 DEF Justified, Program
<1>11. AllJustified'
  <2>1. r.decision = "REUSE" => Justified(r)
        BY <1>3 DEF r
  <2>2. \A i \in 1..Len(telemetry) + 1 :
            Append(telemetry, r)[i].decision = "REUSE" => Justified(Append(telemetry, r)[i])
    <3>1. TAKE i \in 1..Len(telemetry) + 1
    <3>2. CASE i = Len(telemetry) + 1
          BY <1>4, <2>1, <3>2
    <3>3. CASE i \in 1..Len(telemetry)
          BY <1>4, <3>3 DEF AllJustified
    <3>. QED  BY <1>4, <3>2, <3>3
  <2>3. Len(Append(telemetry, r)) = Len(telemetry) + 1
        BY <1>4
  <2>. QED  BY <1>2, <1>10, <2>2, <2>3 DEF AllJustified
<1>. QED  BY <1>6, <1>7, <1>8, <1>9, <1>11

--------------------------------------------------------------------------------
\* A reuse that the exact cache answers is one of the same canonical wording.
LEMMA ExactEarns ==
    ASSUME Types, CanonicallyAligned, Query \in Queries, CanonEntry # << >>
    PROVE  /\ CanonEntry \in Metadata
           /\ Justified(Record("CANONICAL_EXACT", "REUSE", CanonEntry))
<1>1. /\ Canonical[Query] # NoKey /\ Canonical[Query] \in DOMAIN canonical
      /\ CanonEntry = canonical[Canonical[Query]]
      BY DEF CanonEntry, CanonicalGet
<1>2. CanonEntry \in Entries /\ Canonical[CanonEntry[2]] = Canonical[Query]
      BY <1>1 DEF CanonicallyAligned
<1>. QED  BY <1>1, <1>2 DEF Justified, Record, Metadata, Entries

\* A hit of the cosine arm is close enough.
LEMMA CosineEarns ==
    ASSUME Types, Aligned, driver \in Drivers, Query \in Queries,
           Program.gate = "cosine", Lookup.hit
    PROVE  Justified(Record("COSINE", "REUSE", Lookup.matched))
<1>1. Lookup.matched \in Entries /\ Similarity[Lookup.matched[2]][Query] >= 85
      BY Found, Matched
<1>2. Lookup.matched # << >>
      BY <1>1, EntriesAreThere
<1>3. ~Program.guarded
      BY GuardedPrograms
<1>. QED  BY <1>1, <1>2, <1>3 DEF Justified, Record

\* What the router lets through is justified once the guards agree, where the
\* program asks them, and the judge did not fail, where it was the judge.
LEMMA RoutedEarns ==
    ASSUME Types, Aligned, Query \in Queries,
           NEW path \in {"AUTO_REUSE", "LOCAL_EQUIVALENCE", "JUDGED"},
           Tier # "BYPASS", path = "AUTO_REUSE" => Tier = "AUTO_REUSE",
           path = "JUDGED" => ~verdict.fallback_triggered,
           Program.guarded => EvaluateRuleGuards(Wording[MatchedText], Wording[Query])
    PROVE  Justified(Record(path, "REUSE", Lookup.matched))
<1>1. /\ Lookup.matched \in Entries
      /\ Stability.effective = "STABLE" /\ Stability.confidence >= 80
      /\ Similarity[Lookup.matched[2]][Query] >= 50
      /\ Tier = "AUTO_REUSE" => /\ Stability.confidence >= 90
                                /\ Similarity[Lookup.matched[2]][Query] >= 92
      BY RouterEarns
<1>2. Lookup.matched # << >>
      BY <1>1, EntriesAreThere
<1>. DEFINE r == Record(path, "REUSE", Lookup.matched)
<1>3. /\ r.query = Query /\ r.path = path /\ r.matched = Lookup.matched
      /\ ~r.fallback
      BY DEF Record
<1>. HIDE DEF r
<1>4. Stability = Classify(CuesOf[Query], "FORWARD_TO_CACHE_CANDIDATE")
      BY DEF Stability
<1>5. Justified(r)
      BY <1>1, <1>2, <1>3, <1>4 DEF Justified, MatchedText
<1>. QED  BY <1>5 DEF r

--------------------------------------------------------------------------------
\* The judge: whatever happens to a call, a fallback permits nothing.
LEMMA CallsAreSound ==
    ASSUME VerdictSound, JudgeStart \/ JudgeNext \/ JudgeReturn
    PROVE  VerdictSound'
<1>1. BypassFallback \in JudgeResult /\ ~BypassFallback.is_safe
      BY DEF BypassFallback, JudgeResult
<1>2. \A named \in BOOLEAN : /\ [BypassFallback EXCEPT !.names_quota = named] \in JudgeResult
                             /\ ~[BypassFallback EXCEPT !.names_quota = named].is_safe
      BY DEF BypassFallback, JudgeResult
<1>3. \A output \in ModelOutputs : /\ Coerced(output) \in JudgeResult
                                   /\ ~Coerced(output).fallback_triggered
      BY DEF Coerced, JudgeResult, ModelOutputs
<1>4. CASE UNCHANGED verdict
      BY <1>4 DEF VerdictSound
<1>5. CASE verdict' = BypassFallback
      BY <1>1, <1>5 DEF VerdictSound
<1>6. CASE \E named \in BOOLEAN : verdict' = [BypassFallback EXCEPT !.names_quota = named]
      BY <1>2, <1>6 DEF VerdictSound
<1>7. CASE \E output \in ModelOutputs : verdict' = Coerced(output)
      BY <1>3, <1>7 DEF VerdictSound
<1>8. CASE JudgeStart
      BY <1>4, <1>5, <1>8 DEF JudgeStart, Conclude
<1>9. CASE JudgeReturn
      BY <1>5, <1>9 DEF JudgeReturn, JudgeReset
<1>10. CASE JudgeNext
  <2>1. ASSUME NEW failure \in {"rate_limit", "transient", "other"}, JudgeRetry(failure)
        PROVE  UNCHANGED verdict
        BY <2>1 DEF JudgeRetry
  <2>2. ASSUME NEW failure \in {"rate_limit", "transient", "other"}, JudgeFail(failure)
        PROVE  \E named \in BOOLEAN : verdict' = [BypassFallback EXCEPT !.names_quota = named]
        BY <2>2 DEF JudgeFail, Conclude
  <2>3. ASSUME NEW output \in ModelOutputs, JudgeAnswer(output) \/ JudgeReformatted(output)
        PROVE  verdict' = Coerced(output)
        BY <2>3 DEF JudgeAnswer, JudgeReformatted, Conclude
  <2>4. ASSUME JudgeBlocked \/ JudgeUnparseable
        PROVE  verdict' = BypassFallback
        BY <2>4 DEF JudgeBlocked, JudgeUnparseable, Conclude
  <2>5. ASSUME JudgeMalformed
        PROVE  \/ UNCHANGED verdict \/ verdict' = BypassFallback
               \/ \E output \in ModelOutputs : verdict' = Coerced(output)
        BY <2>5 DEF JudgeMalformed, Conclude
  <2>. QED  BY <1>4, <1>5, <1>6, <1>7, <1>10, <2>1, <2>2, <2>3, <2>4, <2>5 DEF JudgeNext
<1>. QED  BY <1>8, <1>9, <1>10

--------------------------------------------------------------------------------
LEMMA InvInit == Init => IInv
<1>. SUFFICES ASSUME Init PROVE IInv
     OBVIOUS
<1>1. driver \in Drivers /\ phase = "next" /\ store = EmptyStore /\ canonical = << >>
      /\ telemetry = << >> /\ verdict = BypassFallback
      BY DEF Init, JudgeInit
<1>2. Types /\ Aligned
      BY <1>1 DEF Types, Aligned, EmptyStore
<1>3. CanonicallyAligned /\ Awaiting /\ AllJustified
      BY <1>1 DEF CanonicallyAligned, Awaiting, AllJustified
<1>4. VerdictSound
      BY <1>1 DEF VerdictSound, BypassFallback, JudgeResult
<1>. QED  BY <1>2, <1>3, <1>4 DEF IInv

\* A step that settles nothing keeps the caches and the records.
LEMMA Idle ==
    ASSUME IInv, UNCHANGED <<driver, store, canonical, telemetry>>,
           phase' \in {"deciding", "judging"} => event'.query \in Queries /\ event'.seed \in BOOLEAN
    PROVE  Types' /\ Aligned' /\ CanonicallyAligned' /\ AllJustified'
<1>1. \A x : Justified(x)' <=> Justified(x)
      BY DEF Justified, Program
<1>. QED  BY <1>1 DEF IInv, Types, Aligned, CanonicallyAligned, AllJustified

LEMMA InvNext == IInv /\ [Next]_vars => IInv'
<1>. SUFFICES ASSUME IInv, [Next]_vars PROVE IInv'
     OBVIOUS
<1>. USE DEF IInv
<1>1. ASSUME phase \in {"deciding", "judging"}
      PROVE  Query \in Queries
      BY <1>1 DEF Types, Query
<1>2. ASSUME phase = "deciding", NEW path \in Paths, NEW decision \in {"REUSE", "BYPASS"},
             NEW matched \in Metadata, Decided(path, decision, matched),
             decision = "REUSE" => Justified(Record(path, decision, matched))
      PROVE  IInv'
  <2>1. Settle(path, decision, matched) /\ UNCHANGED verdict
        BY <1>2 DEF Decided, judgeVars
  <2>2. Types' /\ Aligned' /\ CanonicallyAligned' /\ Awaiting' /\ AllJustified'
        BY <1>2, <2>1, Settled
  <2>3. VerdictSound'
        BY <2>1 DEF VerdictSound
  <2>. QED  BY <2>2, <2>3
<1>3. ASSUME phase = "deciding"
      PROVE  Lookup.matched \in Metadata /\ << >> \in Metadata
      BY <1>1, <1>3, Matched DEF Metadata
<1>4. ASSUME NEW e \in Upcoming, TakeQuery(e)
      PROVE  IInv'
  <2>1. e.query \in Queries /\ e.seed \in BOOLEAN
        BY <1>4 DEF Upcoming
  <2>2. /\ UNCHANGED <<driver, store, canonical, telemetry, verdict>>
        /\ event' = e /\ phase' = "deciding"
        BY <1>4 DEF TakeQuery, judgeVars
  <2>3. Types' /\ Aligned' /\ CanonicallyAligned' /\ AllJustified'
        BY <2>1, <2>2, Idle
  <2>. QED  BY <2>2, <2>3 DEF Awaiting, VerdictSound
<1>5. CASE EndOfStream \/ BudgetHalts \/ StreamRefused \/ DatasetRefused
  <2>1. UNCHANGED <<driver, store, canonical, telemetry, verdict>> /\ phase' = "done"
        BY <1>5 DEF EndOfStream, BudgetHalts, StreamRefused, DatasetRefused, Refused, judgeVars
  <2>2. Types' /\ Aligned' /\ CanonicallyAligned' /\ AllJustified'
        BY <2>1, Idle
  <2>. QED  BY <2>1, <2>2 DEF Awaiting, VerdictSound
<1>6. CASE CanonicalExact
  <2>1. phase = "deciding" /\ CanonEntry # << >>
        /\ Decided("CANONICAL_EXACT", "REUSE", CanonEntry)
        BY <1>6 DEF CanonicalExact
  <2>2. CanonEntry \in Metadata /\ Justified(Record("CANONICAL_EXACT", "REUSE", CanonEntry))
        BY <1>1, <2>1, ExactEarns
  <2>3. "CANONICAL_EXACT" \in Paths /\ "REUSE" \in {"REUSE", "BYPASS"}
        BY DEF Paths
  <2>. QED  BY <1>2, <2>1, <2>2, <2>3
<1>7. CASE CosineOnly
  <2>1. phase = "deciding" /\ Program.gate = "cosine"
        /\ Decided("COSINE", IF Lookup.hit THEN "REUSE" ELSE "BYPASS", Lookup.matched)
        BY <1>7 DEF CosineOnly, Undecided
  <2>2. "COSINE" \in Paths
        BY DEF Paths
  <2>3. CASE Lookup.hit
    <3>1. Decided("COSINE", "REUSE", Lookup.matched)
          BY <2>1, <2>3
    <3>2. Justified(Record("COSINE", "REUSE", Lookup.matched))
          BY <1>1, <2>1, <2>3, CosineEarns DEF Types
    <3>. QED  BY <1>2, <1>3, <2>1, <2>2, <3>1, <3>2
  <2>4. CASE ~Lookup.hit
    <3>1. Decided("COSINE", "BYPASS", Lookup.matched)
          BY <2>1, <2>4
    <3>. QED  BY <1>2, <1>3, <2>1, <2>2, <3>1
  <2>. QED  BY <2>3, <2>4
<1>8. CASE NoOtherCache
  <2>1. phase = "deciding" /\ Decided("BYPASS", "BYPASS", << >>)
        BY <1>8 DEF NoOtherCache, Undecided
  <2>. QED  BY <1>2, <1>3, <2>1 DEF Paths
<1>9. CASE AutoReuse
  <2>1. phase = "deciding" /\ Tier = "AUTO_REUSE"
        BY <1>9 DEF AutoReuse, Routed, Undecided
  <2>2. CASE GuardsRefuse
    <3>1. Decided("BYPASS", "BYPASS", Lookup.matched)
          BY <1>9, <2>2 DEF AutoReuse
    <3>. QED  BY <1>2, <1>3, <2>1, <3>1 DEF Paths
  <2>3. CASE ~GuardsRefuse
    <3>1. Decided("AUTO_REUSE", "REUSE", Lookup.matched)
          BY <1>9, <2>3 DEF AutoReuse
    <3>2. Program.guarded => EvaluateRuleGuards(Wording[MatchedText], Wording[Query])
          BY <2>3 DEF GuardsRefuse
    <3>3. Justified(Record("AUTO_REUSE", "REUSE", Lookup.matched))
          BY <1>1, <2>1, <3>2, RoutedEarns
    <3>. QED  BY <1>2, <1>3, <2>1, <3>1, <3>3 DEF Paths
  <2>. QED  BY <2>2, <2>3
<1>10. CASE Bypass
  <2>1. phase = "deciding" /\ Decided("BYPASS", "BYPASS", Lookup.matched)
        BY <1>10 DEF Bypass, Routed, Undecided
  <2>. QED  BY <1>2, <1>3, <2>1 DEF Paths
<1>11. CASE LocalEquivalence
  <2>1. phase = "deciding" /\ Tier = "AMBIGUOUS"
        BY <1>11 DEF LocalEquivalence, Routed, Undecided
  <2>2. Lookup.matched # << >>
        BY <1>1, <2>1, RouterEarns, EntriesAreThere
  <2>. DEFINE d == LocalDecision(Wording[MatchedText], Wording[Query],
                                 RawPrediction[MatchedText][Query], LocalThreshold)
  <2>3. Decided("LOCAL_EQUIVALENCE", d, Lookup.matched)
        BY <1>11, <2>2 DEF LocalEquivalence
  <2>4. /\ d \in {"REUSE", "BYPASS"}
        /\ d = "REUSE" => EvaluateRuleGuards(Wording[MatchedText], Wording[Query])
        BY DEF LocalDecision
  <2>. HIDE DEF d
  <2>5. d = "REUSE" => Justified(Record("LOCAL_EQUIVALENCE", "REUSE", Lookup.matched))
        BY <1>1, <2>1, <2>4, RoutedEarns
  <2>. QED  BY <1>2, <1>3, <2>1, <2>3, <2>4, <2>5 DEF Paths
<1>12. CASE BudgetBypasses
  <2>1. phase = "deciding" /\ Decided("BUDGET_BYPASS", "BYPASS", Lookup.matched)
        BY <1>12 DEF BudgetBypasses, Routed, Undecided
  <2>. QED  BY <1>2, <1>3, <2>1 DEF Paths
<1>13. CASE AskJudge
  <2>1. /\ phase = "deciding" /\ phase' = "judging"
        /\ Program.gate = "router" /\ Program.ambiguous = "judge" /\ Tier = "AMBIGUOUS"
        /\ UNCHANGED <<driver, event, store, canonical, telemetry>> /\ JudgeStart
        BY <1>13 DEF AskJudge, Routed, Undecided
  <2>2. event'.query \in Queries /\ event'.seed \in BOOLEAN
        BY <2>1 DEF Types
  <2>3. Types' /\ Aligned' /\ CanonicallyAligned' /\ AllJustified'
        BY <2>1, <2>2, Idle
  <2>4. Tier' = Tier /\ Program' = Program
        BY <2>1 DEF Tier, Lookup, Stability, Query, Program
  <2>. QED  BY <2>1, <2>3, <2>4, CallsAreSound DEF Awaiting
<1>14. CASE Judging
  <2>1. /\ phase = "judging" /\ JudgeNext
        /\ UNCHANGED <<phase, driver, event, store, canonical, telemetry>>
        BY <1>14 DEF Judging, streamVars
  <2>2. event'.query \in Queries /\ event'.seed \in BOOLEAN
        BY <2>1 DEF Types
  <2>3. Types' /\ Aligned' /\ CanonicallyAligned' /\ AllJustified'
        BY <2>1, <2>2, Idle
  <2>4. Tier' = Tier /\ Program' = Program
        BY <2>1 DEF Tier, Lookup, Stability, Query, Program
  <2>. QED  BY <2>1, <2>3, <2>4, CallsAreSound DEF Awaiting
<1>15. CASE JudgeDecides
  <2>1. phase = "judging" /\ JudgeReturn
        BY <1>15 DEF JudgeDecides
  <2>2. VerdictSound'
        BY <2>1, CallsAreSound
  <2>3. CASE Program.stops /\ verdict.fallback_triggered
    <3>1. UNCHANGED <<driver, store, canonical, telemetry>> /\ phase' = "done"
          BY <1>15, <2>3 DEF JudgeDecides
    <3>2. Types' /\ Aligned' /\ CanonicallyAligned' /\ AllJustified'
          BY <3>1, Idle
    <3>. QED  BY <2>2, <3>1, <3>2 DEF Awaiting
  <2>4. CASE ~(Program.stops /\ verdict.fallback_triggered)
    <3>. DEFINE d == IF JudgeSaysReuse THEN "REUSE" ELSE "BYPASS"
    <3>1. Settle("JUDGED", d, Lookup.matched)
          BY <1>15, <2>4 DEF JudgeDecides
    <3>2. Program.ambiguous = "judge" /\ Tier = "AMBIGUOUS"
          BY <2>1 DEF Awaiting
    <3>3. ~Program.guarded
          BY <3>2, GuardedPrograms DEF Types
    <3>4. d = "REUSE" => ~verdict.fallback_triggered
          BY DEF VerdictSound, JudgeSaysReuse, JudgeDecisionResult
    <3>5. d \in {"REUSE", "BYPASS"} /\ Lookup.matched \in Metadata /\ "JUDGED" \in Paths
          BY <1>1, <2>1, Matched DEF Paths
    <3>. HIDE DEF d
    <3>6. d = "REUSE" => Justified(Record("JUDGED", "REUSE", Lookup.matched))
          BY <1>1, <2>1, <3>2, <3>3, <3>4, RoutedEarns
    <3>7. Types' /\ Aligned' /\ CanonicallyAligned' /\ Awaiting' /\ AllJustified'
          BY <2>1, <3>1, <3>5, <3>6, Settled
    <3>. QED  BY <2>2, <3>7
  <2>. QED  BY <2>3, <2>4
<1>16. CASE UNCHANGED vars
  <2>1. UNCHANGED <<phase, driver, event, store, canonical, telemetry, verdict>>
        BY <1>16 DEF vars, streamVars, judgeVars
  <2>2. phase' \in {"deciding", "judging"} => event'.query \in Queries /\ event'.seed \in BOOLEAN
        BY <2>1 DEF Types
  <2>3. Types' /\ Aligned' /\ CanonicallyAligned' /\ AllJustified'
        BY <2>1, <2>2, Idle
  <2>4. Tier' = Tier /\ Program' = Program
        BY <2>1 DEF Tier, Lookup, Stability, Query, Program
  <2>. QED  BY <2>1, <2>3, <2>4 DEF Awaiting, VerdictSound
<1>. QED  BY <1>4, <1>5, <1>6, <1>7, <1>8, <1>9, <1>10, <1>11, <1>12, <1>13, <1>14, <1>15,
             <1>16 DEF Next

\* Whatever the texts, the patterns, the vectors, the provider and the budget:
\* what the pipeline answers from a cache was earned on the path that answered
\* it (decide, search and judge of tier_router.py, vector_store.py and
\* judge_call.py, and the loops of the programs).
THEOREM ReusesAreJustified == Spec => []ReuseJustified
<1>1. IInv => ReuseJustified
      BY Meaning DEF IInv
<1>. QED  BY InvInit, InvNext, <1>1, PTL DEF Spec

--------------------------------------------------------------------------------
(* Sealed streams.  Shuffling and lags put the two questions of a pair     *)
(* anywhere, but the seed first.                                           *)

\* Among as many slots as are occupied, and one more, one is free.
LEMMA FirstFreeIsFree ==
    ASSUME NEW occupied \in SUBSET Nat, IsFiniteSet(occupied), NEW start \in Nat
    PROVE  /\ FirstFree(occupied, start) \in Nat
           /\ FirstFree(occupied, start) >= start
           /\ FirstFree(occupied, start) \notin occupied
<1>. DEFINE N == Cardinality(occupied)
            Free == {s \in start..start + N : s \notin occupied}
<1>1. N \in Nat
      BY FS_CardinalityType
<1>2. IsFiniteSet(start..start + N) /\ Cardinality(start..start + N) = N + 1
      BY <1>1, FS_Interval
<1>3. Free # {}
  <2>1. SUFFICES ASSUME start..start + N \in SUBSET occupied PROVE FALSE
        OBVIOUS
  <2>2. Cardinality(start..start + N) <= N
        BY <2>1, FS_Subset
  <2>. QED  BY <1>1, <1>2, <2>2
<1>4. PICK m \in Free : \A n \in Free : m <= n
  <2>1. Free \in SUBSET Nat
        BY <1>1
  <2>. HIDE DEF Free
  <2>. QED  BY <1>3, <2>1, LeastNumber
<1>5. start..m - 1 \subseteq occupied
      BY <1>1, <1>4
<1>6. \E s \in start..start + N : s \notin occupied /\ start..s - 1 \subseteq occupied
      BY <1>4, <1>5
<1>7. FirstFree(occupied, start) \in start..start + N /\ FirstFree(occupied, start) \notin occupied
      BY <1>6 DEF FirstFree
<1>. QED  BY <1>1, <1>7

Slots == {o \in SUBSET Nat : IsFiniteSet(o)}
Placing == [occupied : Slots, length : Nat]

\* A pair takes two free slots, that of the seed before that of the follow-up.
LEMMA PairPlaced ==
    ASSUME NEW placed \in Placing, NEW lag \in Lags
    PROVE  /\ SeedSlot(placed) \in Nat \ placed.occupied
           /\ FollowUpSlot(placed, lag) \in Nat \ placed.occupied
           /\ SeedSlot(placed) < FollowUpSlot(placed, lag)
           /\ PlacePair(placed, lag) \in Placing
           /\ PlacePair(placed, lag).occupied =
                 placed.occupied \cup {SeedSlot(placed), FollowUpSlot(placed, lag)}
<1>. DEFINE o == placed.occupied
            s == SeedSlot(placed)
            start == IF s + lag < placed.length THEN s + lag ELSE s + lag + 1
            f == FollowUpSlot(placed, lag)
<1>1. o \in SUBSET Nat /\ IsFiniteSet(o) /\ placed.length \in Nat
      BY DEF Placing, Slots
<1>2. s \in Nat /\ s \notin o
      BY <1>1, FirstFreeIsFree DEF SeedSlot
<1>3. lag \in 2..10
      BY SealedAssumption
<1>4. start \in Nat /\ start > s
      BY <1>1, <1>2, <1>3
<1>5. o \cup {s} \in SUBSET Nat /\ IsFiniteSet(o \cup {s})
      BY <1>1, <1>2, FS_AddElement
<1>6. f = FirstFree(o \cup {s}, start)
      BY DEF FollowUpSlot
<1>. HIDE DEF s, f, start, o
<1>7. f \in Nat /\ f >= start /\ f \notin o \cup {s}
      BY <1>4, <1>5, <1>6, FirstFreeIsFree
<1>8. o \cup {s, f} \in Slots
  <2>1. IsFiniteSet(o \cup {s} \cup {f}) /\ o \cup {s, f} = o \cup {s} \cup {f}
        BY <1>5, FS_AddElement
  <2>. QED  BY <1>5, <1>7, <2>1 DEF Slots
<1>9. PlacePair(placed, lag) = [occupied |-> o \cup {s, f},
                                length |-> IF f < placed.length THEN placed.length ELSE placed.length + 50]
      BY DEF PlacePair, o, s, f
<1>10. PlacePair(placed, lag) \in Placing
      BY <1>1, <1>8, <1>9 DEF Placing
<1>. QED  BY <1>2, <1>4, <1>7, <1>9, <1>10 DEF s, f, o

LEMMA RoundsType == PairCount \in Nat /\ Len(ChatQueries) \in Nat /\ Rounds \in Nat
<1>1. PairCount \in Nat
      BY SealedAssumption, FS_CardinalityType DEF PairCount
<1>2. Len(ChatQueries) \in Nat
      BY StreamAssumption
<1>. QED  BY <1>1, <1>2 DEF Rounds

\* No round frees a slot.
LEMMA RoundPlaced ==
    ASSUME NEW lags \in [1..PairCount -> Lags], NEW placed \in Placing, NEW n \in 1..Rounds
    PROVE  /\ PlaceNext(lags, placed, n) \in Placing
           /\ placed.occupied \subseteq PlaceNext(lags, placed, n).occupied
<1>1. CASE n <= PairCount
  <2>1. lags[n] \in Lags
        BY <1>1, RoundsType
  <2>. QED  BY <1>1, <2>1, PairPlaced DEF PlaceNext
<1>2. CASE ~(n <= PairCount)
  <2>. DEFINE o == placed.occupied
  <2>1. o \in SUBSET Nat /\ IsFiniteSet(o) /\ placed.length \in Nat
        BY DEF Placing, Slots
  <2>2. FirstFree(o, 0) \in Nat
        BY <2>1, FirstFreeIsFree
  <2>3. o \cup {FirstFree(o, 0)} \in Slots
        BY <2>1, <2>2, FS_AddElement DEF Slots
  <2>4. PlaceNext(lags, placed, n) = [placed EXCEPT !.occupied = o \cup {FirstFree(o, 0)}]
        BY <1>2 DEF PlaceNext, PlaceChat
  <2>. HIDE DEF o
  <2>5. PlaceNext(lags, placed, n) \in Placing
        BY <2>3, <2>4 DEF Placing
  <2>6. PlaceNext(lags, placed, n).occupied = o \cup {FirstFree(o, 0)}
        BY <2>4 DEF Placing
  <2>. QED  BY <2>5, <2>6 DEF o
<1>. QED  BY <1>1, <1>2

NoneIsPlaced == [occupied |-> {}, length |-> 2 * PairCount + Len(ChatQueries)]

\* What the loops leave after the first m rounds.
Went(lags, f, m) ==
    f[0] = NoneIsPlaced /\ \A n \in 1..m : f[n] = PlaceNext(lags, f[n - 1], n)

\* The rounds can be gone through: there is what Placements chooses.
LEMMA RoundsGoOn ==
    ASSUME NEW lags
    PROVE  \E f : f = [n \in 0..Rounds |-> IF n = 0 THEN NoneIsPlaced ELSE PlaceNext(lags, f[n - 1], n)]
<1>. DEFINE Goes(m) == \E f : f = [n \in 0..m |-> f[n]] /\ Went(lags, f, m)
            Stuck == {m \in 0..Rounds : ~Goes(m)}
<1>1. Stuck = {}
  <2>1. SUFFICES ASSUME Stuck # {} PROVE FALSE
        OBVIOUS
  <2>2. PICK m \in Stuck : \A n \in Stuck : m <= n
    <3>1. Stuck \in SUBSET Nat
          BY RoundsType
    <3>. HIDE DEF Stuck
    <3>. QED  BY <2>1, <3>1, LeastNumber
  <2>3. CASE m = 0
    <3>. DEFINE f == [n \in 0..0 |-> NoneIsPlaced]
    <3>1. f = [n \in 0..0 |-> f[n]] /\ f[0] = NoneIsPlaced
          OBVIOUS
    <3>2. Went(lags, f, 0)
          BY <3>1 DEF Went
    <3>. QED  BY <2>2, <2>3, <3>1, <3>2
  <2>4. CASE m # 0
    <3>1. m \in 0..Rounds /\ m \in Nat
          BY <2>2, RoundsType
    <3>2. m - 1 \in 0..Rounds /\ ~(m <= m - 1)
          BY <2>4, <3>1, RoundsType
    <3>3. Goes(m - 1)
      <4>. HIDE DEF Goes
      <4>. QED  BY <2>2, <3>2
    <3>4. PICK f : f = [n \in 0..m - 1 |-> f[n]] /\ Went(lags, f, m - 1)
          BY <3>3
    <3>. DEFINE new == PlaceNext(lags, f[m - 1], m)
                g == [n \in 0..m |-> IF n = m THEN new ELSE f[n]]
    <3>. HIDE DEF new
    <3>5. g = [n \in 0..m |-> g[n]]
          OBVIOUS
    <3>6. g[m] = new /\ \A n \in 0..m - 1 : g[n] = f[n]
          BY <3>1
    <3>. HIDE DEF g
    <3>7. g[0] = NoneIsPlaced
          BY <2>4, <3>1, <3>4, <3>6 DEF Went
    <3>8. ASSUME NEW n \in 1..m PROVE g[n] = PlaceNext(lags, g[n - 1], n)
      <4>1. n - 1 \in 0..m - 1
            BY <3>1
      <4>2. CASE n = m
            BY <3>6, <4>1, <4>2 DEF new
      <4>3. CASE n # m
        <5>1. n \in 1..m - 1 /\ n \in 0..m - 1
              BY <3>1, <4>3
        <5>. QED  BY <3>4, <3>6, <4>1, <5>1 DEF Went
      <4>. QED  BY <4>2, <4>3
    <3>9. Went(lags, g, m)
          BY <3>7, <3>8 DEF Went
    <3>. QED  BY <2>2, <3>5, <3>9
  <2>. QED  BY <2>3, <2>4
<1>2. Rounds \in 0..Rounds
      BY RoundsType
<1>3. Goes(Rounds)
  <2>. HIDE DEF Goes
  <2>. QED  BY <1>1, <1>2
<1>4. PICK f : f = [n \in 0..Rounds |-> f[n]] /\ Went(lags, f, Rounds)
      BY <1>3
<1>5. \A n \in 0..Rounds : f[n] = IF n = 0 THEN NoneIsPlaced ELSE PlaceNext(lags, f[n - 1], n)
  <2>1. TAKE n \in 0..Rounds
  <2>2. n = 0 \/ n \in 1..Rounds
        BY RoundsType
  <2>. QED  BY <1>4, <2>2 DEF Went
<1>. QED  BY <1>4, <1>5

\* Placements is what the loops leave, from round to round.
LEMMA RoundsPlaced ==
    ASSUME NEW lags \in [1..PairCount -> Lags]
    PROVE  /\ \A n \in 0..Rounds : Placements(lags)[n] \in Placing
           /\ Went(lags, Placements(lags), Rounds)
<1>. DEFINE P == Placements(lags)
            Follows(f) == f = [n \in 0..Rounds |-> IF n = 0 THEN NoneIsPlaced
                                                   ELSE PlaceNext(lags, f[n - 1], n)]
<1>1. P = CHOOSE f : Follows(f)
      BY DEF Placements, NoneIsPlaced
<1>2. \E f : Follows(f)
      BY RoundsGoOn
<1>3. Follows(P)
  <2>. HIDE DEF Follows, P
  <2>. QED  BY <1>1, <1>2
<1>. HIDE DEF P
<1>4. P[0] = NoneIsPlaced /\ \A n \in 1..Rounds : P[n] = PlaceNext(lags, P[n - 1], n)
      BY <1>3, RoundsType
<1>5. NoneIsPlaced \in Placing
  <2>1. {} \in Slots
        BY FS_EmptySet DEF Slots
  <2>. QED  BY <2>1, RoundsType DEF Placing, NoneIsPlaced
<1>6. \A n \in 0..Rounds : P[n] \in Placing
  <2>. DEFINE Other == {n \in 0..Rounds : P[n] \notin Placing}
  <2>1. SUFFICES ASSUME Other # {} PROVE FALSE
        OBVIOUS
  <2>2. PICK m \in Other : \A n \in Other : m <= n
    <3>1. Other \in SUBSET Nat
          BY RoundsType
    <3>. HIDE DEF Other
    <3>. QED  BY <2>1, <3>1, LeastNumber
  <2>3. m \in 1..Rounds /\ m - 1 \in 0..Rounds /\ ~(m <= m - 1)
        BY <1>4, <1>5, <2>2, RoundsType
  <2>4. P[m - 1] \in Placing
        BY <2>2, <2>3
  <2>. QED  BY <1>4, <2>2, <2>3, <2>4, RoundPlaced
<1>. QED  BY <1>4, <1>6 DEF P, Went

\* A slot that is occupied after one round stays occupied.
LEMMA SlotsStay ==
    ASSUME NEW lags \in [1..PairCount -> Lags], NEW m \in 0..Rounds, NEW n \in m..Rounds
    PROVE  Placements(lags)[m].occupied \subseteq Placements(lags)[n].occupied
<1>. DEFINE O(k) == Placements(lags)[k].occupied
            Lost == {k \in m..Rounds : ~(O(m) \subseteq O(k))}
<1>1. SUFFICES ASSUME Lost # {} PROVE FALSE
      OBVIOUS
<1>2. PICK k \in Lost : \A l \in Lost : k <= l
  <2>1. Lost \in SUBSET Nat
        BY RoundsType
  <2>. HIDE DEF Lost
  <2>. QED  BY <1>1, <2>1, LeastNumber
<1>3. k \in m..Rounds /\ ~(O(m) \subseteq O(k))
      BY <1>2
<1>4. k # m
      BY <1>3
<1>5. k \in 1..Rounds /\ k - 1 \in m..Rounds /\ k - 1 \in 0..Rounds /\ ~(k <= k - 1)
      BY <1>3, <1>4, RoundsType
<1>6. O(m) \subseteq O(k - 1)
  <2>. HIDE DEF O
  <2>. QED  BY <1>2, <1>5
<1>7. O(k - 1) \subseteq O(k)
      BY <1>5, RoundsPlaced, RoundPlaced DEF Went
<1>. QED  BY <1>3, <1>6, <1>7

SeedOf(lags, n) == SeedSlot(Placements(lags)[n - 1])
FollowUpOf(lags, n) == FollowUpSlot(Placements(lags)[n - 1], lags[n])

\* The slots of a pair are taken in its round.
LEMMA PairSlots ==
    ASSUME NEW lags \in [1..PairCount -> Lags], NEW n \in 1..PairCount
    PROVE  /\ SeedOf(lags, n) \in Nat /\ FollowUpOf(lags, n) \in Nat
           /\ SeedOf(lags, n) < FollowUpOf(lags, n)
           /\ SeedOf(lags, n) \notin Placements(lags)[n - 1].occupied
           /\ FollowUpOf(lags, n) \notin Placements(lags)[n - 1].occupied
           /\ Placements(lags)[n].occupied =
                 Placements(lags)[n - 1].occupied \cup {SeedOf(lags, n), FollowUpOf(lags, n)}
<1>1. n \in 1..Rounds /\ n - 1 \in 0..Rounds /\ n <= PairCount /\ lags[n] \in Lags
      BY RoundsType DEF Rounds
<1>2. Placements(lags)[n] = PlacePair(Placements(lags)[n - 1], lags[n])
      BY <1>1, RoundsPlaced DEF Went, PlaceNext
<1>3. Placements(lags)[n - 1] \in Placing
      BY <1>1, RoundsPlaced
<1>. QED  BY <1>1, <1>2, <1>3, PairPlaced DEF SeedOf, FollowUpOf

\* Each slot that the pairs take is taken by one of them only.
LEMMA PairsApart ==
    ASSUME NEW lags \in [1..PairCount -> Lags], NEW m \in 1..PairCount, NEW n \in 1..PairCount,
           {SeedOf(lags, m), FollowUpOf(lags, m)} \cap {SeedOf(lags, n), FollowUpOf(lags, n)} # {}
    PROVE  m = n
<1>1. ASSUME NEW k \in 1..PairCount, NEW l \in 1..PairCount, k < l
      PROVE  {SeedOf(lags, k), FollowUpOf(lags, k)} \cap {SeedOf(lags, l), FollowUpOf(lags, l)} = {}
  <2>1. k \in 0..Rounds /\ l - 1 \in k..Rounds
        BY <1>1, RoundsType DEF Rounds
  <2>2. Placements(lags)[k].occupied \subseteq Placements(lags)[l - 1].occupied
        BY <2>1, SlotsStay
  <2>. QED  BY <2>2, PairSlots
<1>2. m < n \/ n < m \/ m = n
      BY RoundsType
<1>. QED  BY <1>1, <1>2

LEMMA PairFound ==
    ASSUME NEW lags \in [1..PairCount -> Lags], NEW s \in Placements(lags)[PairCount].occupied
    PROVE  PairAt(lags, s) \in 1..PairCount /\ s \in {SeedOf(lags, PairAt(lags, s)), FollowUpOf(lags, PairAt(lags, s))}
<1>. DEFINE Holding == {k \in 0..PairCount : s \in Placements(lags)[k].occupied}
<1>1. PairCount \in Holding
      BY RoundsType
<1>2. PICK k \in Holding : \A l \in Holding : k <= l
  <2>1. Holding \in SUBSET Nat
        BY RoundsType
  <2>. HIDE DEF Holding
  <2>. QED  BY <1>1, <2>1, LeastNumber
<1>3. k \in 0..PairCount /\ s \in Placements(lags)[k].occupied
      BY <1>2
<1>4. k # 0
  <2>1. 0 \in 0..Rounds
        BY RoundsType
  <2>. QED  BY <1>3, RoundsPlaced DEF Went, NoneIsPlaced
<1>5. k \in 1..PairCount /\ k - 1 \in 0..PairCount /\ ~(k <= k - 1)
      BY <1>3, <1>4, RoundsType
<1>6. s \notin Placements(lags)[k - 1].occupied
      BY <1>2, <1>5
<1>7. s \in {SeedOf(lags, k), FollowUpOf(lags, k)}
      BY <1>3, <1>5, <1>6, PairSlots
<1>8. PairAt(lags, s) = CHOOSE n \in 1..PairCount : s \in {SeedOf(lags, n), FollowUpOf(lags, n)}
      BY DEF PairAt, SeedOf, FollowUpOf
<1>. QED  BY <1>5, <1>7, <1>8

--------------------------------------------------------------------------------
\* The slots close up: positions count the slots in use, in order.
LEMMA Positions ==
    ASSUME NEW used \in Slots
    PROVE  /\ Cardinality(used) \in Nat
           /\ \A s \in used : Position(used, s) \in 1..Cardinality(used)
           /\ \A s, t \in used : s < t => Position(used, s) < Position(used, t)
           /\ \A i \in 1..Cardinality(used) :
                 SlotAt(used, i) \in used /\ Position(used, SlotAt(used, i)) = i
           /\ \A s \in used : SlotAt(used, Position(used, s)) = s
<1>. DEFINE N == Cardinality(used)
            Upto(s) == {t \in used : t <= s}
<1>1. used \in SUBSET Nat /\ IsFiniteSet(used) /\ N \in Nat
      BY FS_CardinalityType DEF Slots
<1>2. \A s \in used : /\ IsFiniteSet(Upto(s)) /\ Cardinality(Upto(s)) \in Nat
                      /\ Cardinality(Upto(s)) <= N /\ Cardinality(Upto(s)) # 0
  <2>1. TAKE s \in used
  <2>2. Upto(s) \in SUBSET used /\ s \in Upto(s)
        BY <1>1
  <2>. HIDE DEF Upto
  <2>. QED  BY <1>1, <2>2, FS_Subset, FS_CardinalityType, FS_EmptySet
<1>3. \A s \in used : Position(used, s) = Cardinality(Upto(s))
      BY DEF Position
<1>4. \A s \in used : Position(used, s) \in 1..N
  <2>. HIDE DEF Upto, N
  <2>. QED  BY <1>1, <1>2, <1>3
<1>5. ASSUME NEW s \in used, NEW t \in used, s < t
      PROVE  Position(used, s) < Position(used, t)
  <2>1. Upto(s) \in SUBSET Upto(t) /\ t \in Upto(t) /\ t \notin Upto(s)
    <3>1. s \in Nat /\ t \in Nat /\ \A u \in used : u \in Nat
          BY <1>1
    <3>2. \A u \in used : u <= s => u <= t
          BY <1>5, <3>1
    <3>3. t <= t /\ ~(t <= s)
          BY <1>5, <3>1
    <3>. QED  BY <3>2, <3>3
  <2>2. IsFiniteSet(Upto(t)) /\ Cardinality(Upto(t)) \in Nat /\ Cardinality(Upto(s)) \in Nat
        BY <1>2
  <2>3. Position(used, s) = Cardinality(Upto(s)) /\ Position(used, t) = Cardinality(Upto(t))
        BY <1>3
  <2>. HIDE DEF Upto
  <2>4. Cardinality(Upto(s)) <= Cardinality(Upto(t)) /\ Cardinality(Upto(s)) # Cardinality(Upto(t))
        BY <2>1, <2>2, FS_Subset
  <2>. QED  BY <2>2, <2>3, <2>4
<1>6. \A s, t \in used : Position(used, s) = Position(used, t) => s = t
  <2>1. TAKE s, t \in used
  <2>2. s < t \/ t < s \/ s = t
        BY <1>1
  <2>3. Position(used, s) \in Nat /\ Position(used, t) \in Nat
        BY <1>1, <1>4
  <2>. QED  BY <1>5, <2>2, <2>3
<1>7. \A i \in 1..N : \E s \in used : Position(used, s) = i
  <2>. DEFINE f == [s \in used |-> Position(used, s)]
  <2>1. f \in Injection(used, 1..N)
        BY <1>4, <1>6 DEF Injection, IsInjective
  <2>2. IsFiniteSet(1..N) /\ Cardinality(1..N) = N
        BY <1>1, FS_Interval
  <2>. HIDE DEF f
  <2>3. f \in Surjection(used, 1..N)
        BY <2>1, <2>2, FS_Injection
  <2>4. \A i \in 1..N : \E s \in used : f[s] = i
        BY <2>3 DEF Surjection
  <2>. QED  BY <2>4 DEF f
<1>. HIDE DEF N
<1>8. \A i \in 1..N : SlotAt(used, i) \in used /\ Position(used, SlotAt(used, i)) = i
  <2>1. TAKE i \in 1..N
  <2>2. \E s \in used : Position(used, s) = i
        BY <1>7
  <2>. QED  BY <2>2 DEF SlotAt
<1>9. \A s \in used : SlotAt(used, Position(used, s)) = s
      BY <1>4, <1>6, <1>8
<1>. QED  BY <1>1, <1>4, <1>5, <1>8, <1>9 DEF N


--------------------------------------------------------------------------------
\* Every follow-up of a stream comes after a seed it makes a pair with.
Linked(events) ==
    \A j \in 1..Len(events) : ~events[j].seed =>
        LET m == events[j].matched_seed_id
        IN /\ m \in 1..j - 1
           /\ events[m].seed
           /\ <<events[m].query, events[j].query>> \in SealedPairs

\* Wherever shuffling and lags put the two.
LEMMA StreamsLinked ==
    ASSUME NEW pairs \in Shuffles, NEW lags \in [1..PairCount -> Lags]
    PROVE  Linked(Assemble(pairs, lags)) /\ Len(Assemble(pairs, lags)) \in Nat
<1>. DEFINE used == Placements(lags)[Rounds].occupied
            placed == Placements(lags)[PairCount].occupied
            N == Cardinality(used)
            events == Assemble(pairs, lags)
<1>1. PairCount \in 0..Rounds /\ Rounds \in PairCount..Rounds /\ Rounds \in 0..Rounds
      BY RoundsType DEF Rounds
<1>2. used \in Slots /\ placed \subseteq used
      BY <1>1, RoundsPlaced, SlotsStay DEF Placing
<1>3. /\ N \in Nat
      /\ \A i \in 1..N : SlotAt(used, i) \in used /\ Position(used, SlotAt(used, i)) = i
      /\ \A s \in used : Position(used, s) \in 1..N /\ SlotAt(used, Position(used, s)) = s
      /\ \A s, t \in used : s < t => Position(used, s) < Position(used, t)
      BY <1>2, Positions
<1>4. events = [i \in 1..N |-> EventAt(pairs, lags, used, SlotAt(used, i))]
      BY DEF Assemble
<1>. HIDE DEF used, placed, N, events
<1>5. Len(events) = N
      BY <1>3, <1>4
<1>6. \A i \in 1..N : events[i] = EventAt(pairs, lags, used, SlotAt(used, i))
      BY <1>4
<1>7. ASSUME NEW s \in used
      PROVE  EventAt(pairs, lags, used, s) =
                IF s \notin placed THEN SeedEvent(ChatQueries[Position(used \ placed, s)])
                ELSE IF s = SeedOf(lags, PairAt(lags, s)) THEN SeedEvent(pairs[PairAt(lags, s)][1])
                ELSE [query |-> pairs[PairAt(lags, s)][2], seed |-> FALSE,
                      matched_seed_id |-> Position(used, SeedOf(lags, PairAt(lags, s)))]
      BY DEF EventAt, placed, SeedOf
<1>8. ASSUME NEW j \in 1..N, ~events[j].seed
      PROVE  LET m == events[j].matched_seed_id
             IN /\ m \in 1..j - 1
                /\ events[m].seed
                /\ <<events[m].query, events[j].query>> \in SealedPairs
  <2>. DEFINE t == SlotAt(used, j)
              n == PairAt(lags, t)
              s == SeedOf(lags, n)
              m == Position(used, s)
  <2>1. t \in used /\ Position(used, t) = j /\ events[j] = EventAt(pairs, lags, used, t)
        BY <1>3, <1>6
  <2>2. t \in placed /\ t # s
        BY <1>7, <1>8, <2>1 DEF SeedEvent
  <2>3. events[j] = [query |-> pairs[n][2], seed |-> FALSE, matched_seed_id |-> m]
        BY <1>7, <2>1, <2>2
  <2>4. n \in 1..PairCount /\ t \in {SeedOf(lags, n), FollowUpOf(lags, n)}
        BY <2>2, PairFound DEF placed
  <2>. HIDE DEF n, t
  <2>5. s \in placed /\ s < t
    <3>1. n \in 0..Rounds /\ PairCount \in n..Rounds
          BY <2>4, RoundsType DEF Rounds
    <3>2. Placements(lags)[n].occupied \subseteq placed
          BY <3>1, SlotsStay DEF placed
    <3>. QED  BY <2>2, <2>4, <3>2, PairSlots
  <2>6. s \in used
        BY <1>2, <2>5
  <2>. HIDE DEF s, m
  <2>7. m \in 1..N /\ SlotAt(used, m) = s /\ m < j
        BY <1>3, <2>1, <2>5, <2>6 DEF m
  <2>8. PairAt(lags, s) = n
    <3>1. /\ PairAt(lags, s) \in 1..PairCount
          /\ s \in {SeedOf(lags, PairAt(lags, s)), FollowUpOf(lags, PairAt(lags, s))}
          BY <2>5, PairFound DEF placed
    <3>2. s \in {SeedOf(lags, n), FollowUpOf(lags, n)}
          BY DEF s
    <3>. QED  BY <2>4, <3>1, <3>2, PairsApart
  <2>9. events[m] = SeedEvent(pairs[n][1])
    <3>1. events[m] = EventAt(pairs, lags, used, s)
          BY <1>6, <2>7
    <3>2. s = SeedOf(lags, PairAt(lags, s))
          BY <2>8 DEF s
    <3>3. EventAt(pairs, lags, used, s) = SeedEvent(pairs[PairAt(lags, s)][1])
          BY <1>7, <2>5, <2>6, <3>2
    <3>. QED  BY <2>8, <3>1, <3>3
  <2>10. pairs[n] \in SealedPairs /\ pairs[n] = <<pairs[n][1], pairs[n][2]>>
    <3>1. pairs[n] \in SealedPairs
          BY <2>4 DEF Shuffles
    <3>2. pairs[n] \in Queries \X Queries
          BY <3>1, StreamAssumption
    <3>. QED  BY <3>1, <3>2
  <2>11. m \in 1..j - 1
        BY <1>3, <2>7
  <2>12. /\ events[j].matched_seed_id = m /\ events[j].query = pairs[n][2]
         /\ events[m].seed /\ events[m].query = pairs[n][1]
        BY <2>3, <2>9 DEF SeedEvent
  <2>. QED  BY <2>10, <2>11, <2>12
<1>9. Linked(events)
      BY <1>5, <1>8 DEF Linked
<1>. QED  BY <1>3, <1>5, <1>9 DEF events

--------------------------------------------------------------------------------
(* Where answers come from.  An entry of a store names the query that was  *)
(* answered afresh, and all of these are in the index.                     *)

Answers == {i \in 1..Len(telemetry) : Generated(i)}

Answered(e) ==
    /\ e[1] \in 1..Len(telemetry) /\ Generated(e[1])
    /\ telemetry[e[1]].query = e[2]

Filed ==
    /\ \A i \in 1..Len(store.metadata) : Answered(store.metadata[i])
    /\ \A i \in 1..Len(store.metadata) : i > 1 => store.metadata[i - 1][1] < store.metadata[i][1]
    /\ \A k \in DOMAIN canonical : Answered(canonical[k])

Complete ==
    Program.gate # "none" =>
        /\ Len(store.metadata) = Cardinality(Answers)
        /\ \A j \in Answers : \E i \in 1..Len(store.metadata) : store.metadata[i][1] = j

Origins ==
    \A i \in 1..Len(telemetry) :
        Reused(i) => telemetry[i].matched[1] \in 1..i - 1 /\ Generated(telemetry[i].matched[1])

\* The program has read its sealed stream as far as it has got.
OnStream ==
    Program.sealed =>
        /\ Linked(stream) /\ Len(stream) \in Nat
        /\ Len(telemetry) <= Len(stream)
        /\ \A i \in 1..Len(telemetry) :
              telemetry[i].query = stream[i].query /\ telemetry[i].seed = stream[i].seed
        /\ phase \in {"deciding", "judging"} => Id <= Len(stream) /\ event = stream[Id]

Sourced == Filed /\ Complete /\ Origins /\ OnStream

--------------------------------------------------------------------------------
\* A follow-up comes when its seed has been answered and indexed.
LEMMA SeedIsIndexed ==
    ASSUME IInv, Sourced, Program.sealed, phase = "deciding", ~event.seed
    PROVE  \E i \in 1..Len(store.vectors) :
              /\ store.metadata[i][1] = event.matched_seed_id
              /\ <<store.vectors[i], Query>> \in SealedPairs
<1>. DEFINE m == event.matched_seed_id
            n == Len(telemetry)
<1>1. n \in Nat /\ Program.gate # "none"
      BY GuardedPrograms DEF IInv, Types
<1>2. Len(stream) \in Nat /\ Id = n + 1 /\ Id \in 1..Len(stream) /\ event = stream[Id]
      BY <1>1 DEF Sourced, OnStream, Id
<1>3. /\ m \in 1..Id - 1 /\ stream[m].seed
      /\ <<stream[m].query, stream[Id].query>> \in SealedPairs
      BY <1>2 DEF Sourced, OnStream, Linked
<1>4. m \in 1..n
      BY <1>1, <1>2, <1>3
<1>. HIDE DEF m, n
<1>5. telemetry[m].query = stream[m].query /\ telemetry[m].seed
      BY <1>3, <1>4 DEF Sourced, OnStream, n
<1>6. m \in Answers
      BY <1>4, <1>5 DEF Answers, Generated, n
<1>7. PICK i \in 1..Len(store.metadata) : store.metadata[i][1] = m
      BY <1>1, <1>6 DEF Sourced, Complete
<1>8. telemetry[m].query = store.metadata[i][2]
      BY <1>7 DEF Sourced, Filed, Answered
<1>9. i \in 1..Len(store.vectors) /\ store.metadata[i][2] = store.vectors[i]
      BY <1>7 DEF IInv, Aligned
<1>10. <<store.vectors[i], Query>> \in SealedPairs
      BY <1>2, <1>3, <1>5, <1>8, <1>9 DEF Query
<1>. QED  BY <1>7, <1>9, <1>10 DEF m

LEMMA SourcedMeans == IInv /\ Sourced => AnswersAligned
<1>. SUFFICES ASSUME IInv, Sourced PROVE AnswersAligned
     OBVIOUS
<1>1. Len(store.vectors) = Len(store.metadata)
      BY DEF IInv, Aligned
<1>2. ASSUME NEW i \in 1..Len(store.vectors)
      PROVE  /\ store.metadata[i][2] = store.vectors[i]
             /\ Generated(store.metadata[i][1])
             /\ telemetry[store.metadata[i][1]].query = store.vectors[i]
             /\ i > 1 => store.metadata[i - 1][1] < store.metadata[i][1]
      BY <1>1 DEF IInv, Aligned, Sourced, Filed, Answered
<1>3. Program.gate # "none" =>
          Len(store.vectors) = Cardinality({i \in 1..Len(telemetry) : Generated(i)})
      BY <1>1 DEF Sourced, Complete, Answers
<1>4. \A i \in 1..Len(telemetry) :
          Reused(i) => telemetry[i].matched[1] < i /\ Generated(telemetry[i].matched[1])
      BY DEF Sourced, Origins
<1>. QED  BY <1>1, <1>2, <1>3, <1>4, SeedIsIndexed DEF AnswersAligned

--------------------------------------------------------------------------------
Settles(path, decision, matched) ==
    /\ phase \in {"deciding", "judging"}
    /\ Settle(path, decision, matched)

\* A step settles the query, with what one of the caches has found, or leaves
\* records and caches alone; only TakeQuery goes on in the stream.
LEMMA StepsSettle ==
    ASSUME Next
    PROVE  \/ \E path \in Paths, decision \in {"REUSE", "BYPASS"},
                 matched \in {<< >>, CanonEntry, Lookup.matched} : Settles(path, decision, matched)
           \/ \E e \in Upcoming : TakeQuery(e)
           \/ /\ UNCHANGED <<driver, stream, store, canonical, telemetry>>
              /\ phase' \in {"deciding", "judging"} =>
                    phase \in {"deciding", "judging"} /\ event' = event
<1>1. ASSUME NEW path \in Paths, NEW decision \in {"REUSE", "BYPASS"},
             NEW matched \in {<< >>, CanonEntry, Lookup.matched},
             phase = "deciding", Decided(path, decision, matched)
      PROVE  Settles(path, decision, matched)
      BY <1>1 DEF Settles, Decided
<1>2. CASE EndOfStream \/ BudgetHalts \/ StreamRefused \/ DatasetRefused
      BY <1>2 DEF EndOfStream, BudgetHalts, StreamRefused, DatasetRefused, Refused
<1>3. CASE CanonicalExact
      BY <1>1, <1>3 DEF CanonicalExact, Paths
<1>4. CASE CosineOnly
      BY <1>1, <1>4 DEF CosineOnly, Undecided, Paths
<1>5. CASE NoOtherCache
      BY <1>1, <1>5 DEF NoOtherCache, Undecided, Paths
<1>6. CASE AutoReuse
      BY <1>1, <1>6 DEF AutoReuse, Routed, Undecided, Paths
<1>7. CASE Bypass
      BY <1>1, <1>7 DEF Bypass, Routed, Undecided, Paths
<1>8. CASE LocalEquivalence
      BY <1>1, <1>8 DEF LocalEquivalence, LocalDecision, Routed, Undecided, Paths
<1>9. CASE BudgetBypasses
      BY <1>1, <1>9 DEF BudgetBypasses, Routed, Undecided, Paths
<1>10. CASE AskJudge
      BY <1>10 DEF AskJudge, Routed, Undecided
<1>11. CASE Judging
      BY <1>11 DEF Judging, streamVars
<1>12. CASE JudgeDecides
  <2>1. CASE Program.stops /\ verdict.fallback_triggered
        BY <1>12, <2>1 DEF JudgeDecides
  <2>2. CASE ~(Program.stops /\ verdict.fallback_triggered)
        BY <1>12, <2>2 DEF JudgeDecides, Settles, Paths
  <2>. QED  BY <2>1, <2>2
<1>. QED  BY <1>2, <1>3, <1>4, <1>5, <1>6, <1>7, <1>8, <1>9, <1>10, <1>11, <1>12 DEF Next

\* What a cache has found is the answer to an earlier query.
LEMMA SourcesAnswered ==
    ASSUME IInv, Filed, Query \in Queries, NEW matched \in {<< >>, CanonEntry, Lookup.matched},
           matched # << >>
    PROVE  Answered(matched)
<1>1. CASE matched = CanonEntry
      BY <1>1 DEF CanonEntry, CanonicalGet, Filed
<1>2. CASE matched = Lookup.matched
  <2>1. store.vectors \in Seq(Queries) /\ store.vectors # << >>
        BY <1>2, NotFound DEF IInv, Types
  <2>. DEFINE i == Nearest(store, Query)
  <2>2. i \in 1..Len(store.vectors)
        BY <2>1, NearestIsThere
  <2>. HIDE DEF i
  <2>3. i \in 1..Len(store.metadata) /\ i <= Len(store.metadata)
        BY <2>2 DEF IInv, Aligned
  <2>4. Search(store, Query) = [found |-> TRUE, score |-> Similarity[store.vectors[i]][Query],
                                position |-> i, metadata |-> store.metadata[i]]
        BY <2>1, <2>3 DEF Search, i
  <2>5. Lookup.matched = store.metadata[i]
        BY <2>4 DEF Lookup, LookUp, CacheLookupResult
  <2>. QED  BY <1>2, <2>3, <2>5 DEF Filed
<1>. QED  BY <1>1, <1>2

--------------------------------------------------------------------------------
\* What was recorded stays; the record of the query comes last.
LEMMA RecordsGrow ==
    ASSUME Types, NEW path, NEW decision, NEW matched, Settle(path, decision, matched),
           NEW n, n = Len(telemetry), NEW r, r = Record(path, decision, matched)
    PROVE  /\ n \in Nat /\ Len(telemetry') = n + 1 /\ Id = n + 1
           /\ \A i \in 1..n : telemetry'[i] = telemetry[i]
           /\ telemetry'[n + 1] = r
           /\ \A i \in 1..n : (Generated(i)' <=> Generated(i)) /\ (Reused(i)' <=> Reused(i))
           /\ Generated(n + 1)' <=> decision = "BYPASS" \/ event.seed
           /\ Reused(n + 1)' <=> decision = "REUSE"
           /\ \A e : Answered(e) => Answered(e)' /\ e[1] < n + 1
<1>1. telemetry \in Seq(Records) /\ n \in Nat
      BY DEF Types
<1>2. telemetry' = Append(telemetry, r)
      BY DEF Settle, Record
<1>3. r.decision = decision /\ r.seed = event.seed
      BY DEF Record
<1>4. /\ Len(telemetry') = n + 1 /\ telemetry'[n + 1] = r
      /\ \A i \in 1..n : telemetry'[i] = telemetry[i]
      BY <1>1, <1>2
<1>5. \A i \in 1..n : (Generated(i)' <=> Generated(i)) /\ (Reused(i)' <=> Reused(i))
      BY <1>4 DEF Generated, Reused
<1>6. (Generated(n + 1)' <=> decision = "BYPASS" \/ event.seed) /\ (Reused(n + 1)' <=> decision = "REUSE")
      BY <1>3, <1>4 DEF Generated, Reused
<1>7. Id = n + 1
      BY DEF Id
<1>8. ASSUME NEW e, Answered(e) PROVE Answered(e)' /\ e[1] < n + 1
  <2>1. e[1] \in 1..n /\ Generated(e[1]) /\ telemetry[e[1]].query = e[2]
        BY <1>8 DEF Answered
  <2>2. e[1] \in 1..n + 1 /\ e[1] < n + 1
        BY <1>1, <2>1
  <2>3. Generated(e[1])' /\ telemetry'[e[1]].query = e[2]
        BY <1>4, <1>5, <2>1
  <2>. QED  BY <1>4, <2>2, <2>3 DEF Answered
<1>. QED  BY <1>1, <1>4, <1>5, <1>6, <1>7, <1>8

\* A query that was answered afresh has an answer.
LEMMA FreshIsAnswered ==
    ASSUME Types, NEW path, NEW decision, NEW matched, Settle(path, decision, matched),
           decision = "BYPASS" \/ event.seed, NEW entry, entry = Entry
    PROVE  Answered(entry)' /\ entry[1] = Id
<1>1. PICK n, r : n = Len(telemetry) /\ r = Record(path, decision, matched)
      OBVIOUS
<1>2. n \in Nat /\ Len(telemetry') = n + 1 /\ Id = n + 1 /\ telemetry'[n + 1] = r /\ Generated(n + 1)'
      BY <1>1, RecordsGrow
<1>3. r.query = Query
      BY <1>1 DEF Record
<1>4. entry[1] = n + 1 /\ entry[2] = Query
      BY <1>2 DEF Entry
<1>. QED  BY <1>2, <1>3, <1>4 DEF Answered

\* What a query that is settled leaves in the caches.
LEMMA FiledStays ==
    ASSUME IInv, Filed, NEW path, NEW decision \in {"REUSE", "BYPASS"}, NEW matched,
           Settle(path, decision, matched)
    PROVE  Filed'
<1>1. PICK n, r, entry : n = Len(telemetry) /\ r = Record(path, decision, matched) /\ entry = Entry
      OBVIOUS
<1>2. n \in Nat /\ Id = n + 1 /\ \A e : Answered(e) => Answered(e)' /\ e[1] < n + 1
      BY <1>1, RecordsGrow DEF IInv
<1>. DEFINE populate == decision = "BYPASS" \/ event.seed
<1>3. populate => Answered(entry)' /\ entry[1] = n + 1
      BY <1>1, <1>2, FreshIsAnswered DEF IInv
<1>4. /\ store' = IF populate /\ Program.gate # "none" THEN AddVector(store, Query, entry) ELSE store
      /\ canonical' = IF populate /\ Program.exact THEN CanonicalPut(canonical, Query, entry) ELSE canonical
      BY <1>1 DEF Settle, Entry
<1>. HIDE DEF populate
<1>9. PICK m, c : m = store'.metadata /\ c = canonical'
      OBVIOUS
<1>. DEFINE d == store.metadata
<1>5. d \in Seq(Entries) /\ \A i \in 1..Len(d) : Answered(d[i])
      BY DEF IInv, Types, Filed
<1>6. \A i \in 1..Len(d) : i > 1 => d[i - 1][1] < d[i][1]
      BY DEF Filed
<1>7. ASSUME NEW k \in DOMAIN c PROVE Answered(c[k])'
  <2>1. CASE canonical' = canonical
        BY <1>2, <1>7, <1>9, <2>1 DEF Filed
  <2>2. CASE populate /\ canonical' = CanonicalPut(canonical, Query, entry) /\ canonical' # canonical
    <3>1. c = [l \in DOMAIN canonical \cup {Canonical[Query]} |->
                           IF l = Canonical[Query] THEN entry ELSE canonical[l]]
          BY <1>9, <2>2 DEF CanonicalPut
    <3>2. CASE k = Canonical[Query]
          BY <1>3, <1>7, <2>2, <3>1, <3>2
    <3>3. CASE k # Canonical[Query]
          BY <1>2, <1>7, <3>1, <3>3 DEF Filed
    <3>. QED  BY <3>2, <3>3
  <2>. QED  BY <1>4, <2>1, <2>2
<1>8. /\ \A i \in 1..Len(m) : Answered(m[i])'
      /\ \A i \in 1..Len(m) : i > 1 => m[i - 1][1] < m[i][1]
  <2>1. CASE store' = store
        BY <1>2, <1>5, <1>6, <1>9, <2>1
  <2>2. CASE populate /\ store' = AddVector(store, Query, entry)
    <3>1. m = Append(d, entry)
          BY <1>9, <2>2 DEF AddVector
    <3>. HIDE DEF d
    <3>2. /\ Len(d) \in Nat /\ Len(Append(d, entry)) = Len(d) + 1
          /\ Append(d, entry)[Len(d) + 1] = entry
          /\ \A i \in 1..Len(d) : Append(d, entry)[i] = d[i]
          BY <1>5
    <3>3. ASSUME NEW i \in 1..Len(d) + 1 PROVE Answered(m[i])'
      <4>1. CASE i = Len(d) + 1
            BY <1>3, <2>2, <3>1, <3>2, <4>1
      <4>2. CASE i \in 1..Len(d)
            BY <1>2, <1>5, <3>1, <3>2, <4>2
      <4>. QED  BY <3>2, <4>1, <4>2
    <3>4. ASSUME NEW i \in 1..Len(d) + 1, i > 1
          PROVE  m[i - 1][1] < m[i][1]
      <4>1. i - 1 \in 1..Len(d)
            BY <3>2, <3>4
      <4>2. CASE i = Len(d) + 1
            BY <1>2, <1>3, <1>5, <2>2, <3>1, <3>2, <4>1, <4>2
      <4>3. CASE i \in 1..Len(d)
            BY <1>6, <3>1, <3>2, <3>4, <4>1, <4>3
      <4>. QED  BY <3>2, <4>2, <4>3
    <3>. QED  BY <3>1, <3>2, <3>3, <3>4
  <2>. QED  BY <1>4, <2>1, <2>2
<1>10. (\A k \in DOMAIN c : Answered(c[k]))' /\ (\A i \in 1..Len(m) : Answered(m[i]))'
      BY <1>7, <1>8
<1>. QED  BY <1>8, <1>9, <1>10 DEF Filed, Answered, Generated

LEMMA CompleteStays ==
    ASSUME IInv, Filed, Complete, NEW path, NEW decision \in {"REUSE", "BYPASS"}, NEW matched,
           Settle(path, decision, matched)
    PROVE  Complete'
<1>1. PICK n, r, entry : n = Len(telemetry) /\ r = Record(path, decision, matched) /\ entry = Entry
      OBVIOUS
<1>. DEFINE populate == decision = "BYPASS" \/ event.seed
<1>2. /\ n \in Nat /\ Len(telemetry') = n + 1
      /\ \A i \in 1..n : Generated(i)' <=> Generated(i)
      /\ Generated(n + 1)' <=> populate
      /\ Id = n + 1
      BY <1>1, RecordsGrow DEF IInv
<1>3. /\ store' = IF populate /\ Program.gate # "none" THEN AddVector(store, Query, entry) ELSE store
      /\ Program' = Program /\ entry[1] = n + 1
      BY <1>1, <1>2 DEF Settle, Entry, Program
<1>. HIDE DEF populate
<1>4. SUFFICES ASSUME Program.gate # "none"
               PROVE  /\ Len(store'.metadata) = Cardinality(Answers')
                      /\ \A j \in Answers' : \E i \in 1..Len(store'.metadata) : store'.metadata[i][1] = j
      BY <1>3 DEF Complete
<1>. DEFINE d == store.metadata
            A == Answers
<1>5. /\ d \in Seq(Entries) /\ Len(d) = Cardinality(A)
      /\ \A j \in A : \E i \in 1..Len(d) : d[i][1] = j
      BY <1>4 DEF IInv, Types, Complete
<1>6. IsFiniteSet(A) /\ n + 1 \notin A
  <2>1. A \in SUBSET (1..n)
        BY <1>1 DEF Answers
  <2>. HIDE DEF A
  <2>2. IsFiniteSet(1..n)
        BY <1>2, FS_Interval
  <2>3. n + 1 \notin 1..n
        BY <1>2
  <2>. QED  BY <2>1, <2>2, <2>3, FS_Subset
<1>7. Answers' = A \cup (IF populate THEN {n + 1} ELSE {})
  <2>1. \A i : i \in 1..n + 1 <=> i \in 1..n \/ i = n + 1
        BY <1>2
  <2>. QED  BY <1>1, <1>2, <2>1 DEF Answers
<1>8. CASE ~populate
      BY <1>3, <1>5, <1>7, <1>8
<1>9. CASE populate
  <2>1. store'.metadata = Append(d, entry)
        BY <1>3, <1>4, <1>9 DEF AddVector
  <2>2. Answers' = A \cup {n + 1}
        BY <1>7, <1>9
  <2>. HIDE DEF d, A
  <2>3. Cardinality(Answers') = Cardinality(A) + 1
        BY <1>6, <2>2, FS_AddElement
  <2>4. /\ Len(d) \in Nat /\ Len(Append(d, entry)) = Len(d) + 1
        /\ Append(d, entry)[Len(d) + 1] = entry
        /\ \A i \in 1..Len(d) : Append(d, entry)[i] = d[i]
        BY <1>5
  <2>5. ASSUME NEW j \in Answers'
        PROVE  \E i \in 1..Len(d) + 1 : Append(d, entry)[i][1] = j
    <3>1. CASE j = n + 1
          BY <1>3, <2>4, <3>1
    <3>2. CASE j \in A
      <4>1. PICK i \in 1..Len(d) : d[i][1] = j
            BY <1>5, <3>2
      <4>. QED  BY <2>4, <4>1
    <3>. QED  BY <2>2, <3>1, <3>2
  <2>. QED  BY <1>5, <2>1, <2>3, <2>4, <2>5
<1>. QED  BY <1>8, <1>9

LEMMA OriginsStay ==
    ASSUME IInv, Filed, Origins, Query \in Queries,
           NEW path, NEW decision \in {"REUSE", "BYPASS"},
           NEW matched \in {<< >>, CanonEntry, Lookup.matched},
           Settle(path, decision, matched), IInv'
    PROVE  Origins'
<1>1. PICK n, r : n = Len(telemetry) /\ r = Record(path, decision, matched)
      OBVIOUS
<1>2. /\ n \in Nat /\ Len(telemetry') = n + 1 /\ telemetry'[n + 1] = r
      /\ \A i \in 1..n : telemetry'[i] = telemetry[i]
      /\ \A i \in 1..n : (Generated(i)' <=> Generated(i)) /\ (Reused(i)' <=> Reused(i))
      /\ Reused(n + 1)' <=> decision = "REUSE"
      BY <1>1, RecordsGrow DEF IInv
<1>3. r.matched = matched /\ r.decision = decision
      BY <1>1 DEF Record
<1>4. PICK t : t = telemetry'
      OBVIOUS
<1>5. ASSUME NEW i \in 1..n, Reused(i)'
      PROVE  t[i].matched[1] \in 1..i - 1 /\ Generated(t[i].matched[1])'
  <2>1. telemetry[i].matched[1] \in 1..i - 1 /\ Generated(telemetry[i].matched[1])
        BY <1>1, <1>2, <1>5 DEF Origins
  <2>2. t[i].matched[1] \in 1..i - 1 /\ Generated(t[i].matched[1])
        BY <1>2, <1>4, <2>1
  <2>3. t[i].matched[1] \in 1..n
        BY <1>2, <2>2
  <2>. QED  BY <1>2, <2>2, <2>3
<1>6. ASSUME Reused(n + 1)'
      PROVE  t[n + 1].matched[1] \in 1..n /\ Generated(t[n + 1].matched[1])'
  <2>1. r.decision = "REUSE" /\ n + 1 \in 1..Len(telemetry')
        BY <1>2, <1>3, <1>6
  <2>2. Justified(r)'
        BY <1>2, <2>1 DEF IInv, AllJustified
  <2>3. matched # << >>
        BY <1>3, <2>2 DEF Justified
  <2>4. Answered(matched)
        BY <2>3, SourcesAnswered
  <2>5. matched[1] \in 1..n /\ Generated(matched[1])
        BY <1>1, <2>4 DEF Answered
  <2>6. Generated(matched[1])' /\ t[n + 1].matched = matched
        BY <1>2, <1>3, <1>4, <2>5
  <2>. QED  BY <2>5, <2>6
<1>7. \A i \in 1..n + 1 : i \in 1..n \/ i = n + 1
      BY <1>2
<1>8. (\A i \in 1..n + 1 : Reused(i) => t[i].matched[1] \in 1..i - 1 /\ Generated(t[i].matched[1]))'
      BY <1>2, <1>5, <1>6, <1>7
<1>. QED  BY <1>2, <1>4, <1>8 DEF Origins, Generated, Reused

LEMMA OnStreamStays ==
    ASSUME IInv, OnStream, NEW path, NEW decision, NEW matched, Settles(path, decision, matched)
    PROVE  OnStream'
<1>1. PICK n, r : n = Len(telemetry) /\ r = Record(path, decision, matched)
      OBVIOUS
<1>2. Settle(path, decision, matched)
      BY DEF Settles
<1>3. /\ n \in Nat /\ Len(telemetry') = n + 1 /\ telemetry'[n + 1] = r /\ Id = n + 1
      /\ \A i \in 1..n : telemetry'[i] = telemetry[i]
      BY <1>1, <1>2, RecordsGrow DEF IInv
<1>4. /\ r.query = event.query /\ r.seed = event.seed
      /\ Program' = Program /\ stream' = stream /\ phase' = "next"
      BY <1>1, <1>2 DEF Record, Settle, Program, Query
<1>5. SUFFICES ASSUME Program.sealed PROVE OnStream'
      BY <1>4 DEF OnStream
<1>6. Id <= Len(stream) /\ event = stream[Id]
      BY <1>5 DEF OnStream, Settles
<1>7. ASSUME NEW i \in 1..n + 1
      PROVE  telemetry'[i].query = stream[i].query /\ telemetry'[i].seed = stream[i].seed
  <2>1. CASE i \in 1..n
        BY <1>1, <1>3, <1>5, <2>1 DEF OnStream
  <2>2. CASE i = n + 1
        BY <1>3, <1>4, <1>6, <2>2
  <2>. QED  BY <1>3, <2>1, <2>2
<1>. QED  BY <1>3, <1>4, <1>5, <1>6, <1>7 DEF OnStream

--------------------------------------------------------------------------------
LEMMA SourcedInit == Init => Sourced
<1>. SUFFICES ASSUME Init PROVE Sourced
     OBVIOUS
<1>1. /\ phase = "next" /\ store = EmptyStore /\ canonical = << >> /\ telemetry = << >>
      /\ stream \in IF Program.sealed THEN SealedStreams ELSE {<< >>}
      BY DEF Init
<1>2. Filed /\ Origins
      BY <1>1 DEF Filed, Origins, EmptyStore
<1>3. Complete
  <2>1. Answers = {} /\ Len(store.metadata) = 0
        BY <1>1 DEF Answers, EmptyStore
  <2>. QED  BY <2>1, FS_EmptySet DEF Complete
<1>4. OnStream
  <2>1. SUFFICES ASSUME Program.sealed PROVE OnStream
        BY DEF OnStream
  <2>2. stream \in SealedStreams
        BY <1>1, <2>1
  <2>3. PICK pairs \in Shuffles, lags \in [1..PairCount -> Lags] : stream = Assemble(pairs, lags)
        BY <2>2 DEF SealedStreams
  <2>4. Linked(stream) /\ Len(stream) \in Nat
        BY <2>3, StreamsLinked
  <2>5. Len(telemetry) = 0
        BY <1>1
  <2>. QED  BY <1>1, <2>4, <2>5 DEF OnStream
<1>. QED  BY <1>2, <1>3, <1>4 DEF Sourced

LEMMA SourcedNext == IInv /\ Sourced /\ [Next]_vars => Sourced'
<1>. SUFFICES ASSUME IInv, Sourced, [Next]_vars PROVE Sourced'
     OBVIOUS
<1>1. IInv'
      BY InvNext
<1>2. ASSUME UNCHANGED <<driver, stream, store, canonical, telemetry>>
      PROVE  Filed' /\ Complete' /\ Origins' /\ Program' = Program /\ Id' = Id
  <2>1. \A i : (Generated(i)' <=> Generated(i)) /\ (Reused(i)' <=> Reused(i))
        BY <1>2 DEF Generated, Reused
  <2>2. \A e : Answered(e)' <=> Answered(e)
        BY <1>2, <2>1 DEF Answered
  <2>3. Answers' = Answers
        BY <1>2, <2>1 DEF Answers
  <2>. QED  BY <1>2, <2>1, <2>2, <2>3 DEF Sourced, Filed, Complete, Origins, Program, Id
<1>3. ASSUME NEW path \in Paths, NEW decision \in {"REUSE", "BYPASS"},
             NEW matched \in {<< >>, CanonEntry, Lookup.matched}, Settles(path, decision, matched)
      PROVE  Sourced'
  <2>1. Settle(path, decision, matched) /\ Query \in Queries
        BY <1>3 DEF Settles, IInv, Types, Query
  <2>. QED  BY <1>1, <1>3, <2>1, FiledStays, CompleteStays, OriginsStay, OnStreamStays DEF Sourced
<1>4. ASSUME NEW e \in Upcoming, TakeQuery(e)
      PROVE  Sourced'
  <2>1. /\ UNCHANGED <<driver, stream, store, canonical, telemetry>>
        /\ Len(telemetry) < Length /\ (Program.sealed => e = stream[Id]) /\ event' = e
        BY <1>4 DEF TakeQuery
  <2>2. Filed' /\ Complete' /\ Origins' /\ Program' = Program /\ Id' = Id
        BY <1>2, <2>1
  <2>3. Program.sealed => Id <= Len(stream)
        BY <2>1 DEF Length, Id, Sourced, OnStream, IInv, Types
  <2>4. OnStream'
        BY <2>1, <2>2, <2>3 DEF Sourced, OnStream
  <2>. QED  BY <2>2, <2>4 DEF Sourced
<1>5. ASSUME UNCHANGED <<driver, stream, store, canonical, telemetry>>,
             phase' \in {"deciding", "judging"} => phase \in {"deciding", "judging"} /\ event' = event
      PROVE  Sourced'
  <2>1. Filed' /\ Complete' /\ Origins' /\ Program' = Program /\ Id' = Id
        BY <1>2, <1>5
  <2>2. OnStream'
        BY <1>5, <2>1 DEF Sourced, OnStream
  <2>. QED  BY <2>1, <2>2 DEF Sourced
<1>6. CASE Next
      BY <1>3, <1>4, <1>5, <1>6, StepsSettle
<1>7. CASE UNCHANGED vars
      BY <1>5, <1>7 DEF vars, streamVars
<1>. QED  BY <1>6, <1>7

\* For every program, stream, table of similarities and canonical wording, and
\* every sealed stream that shuffling and lags may build: the positions of
\* vectors and metadata belong together, the index holds exactly the queries
\* answered afresh, in order, what is reused is one of those, and a follow-up
\* finds its seed there (populate of simulate_phase8.py and
\* run_sealed_evaluation.py, assemble_sealed_stream).
THEOREM AnswersStayAligned == Spec => []AnswersAligned
<1>1. Init => IInv /\ Sourced
      BY InvInit, SourcedInit
<1>2. IInv /\ Sourced /\ [Next]_vars => (IInv /\ Sourced)'
      BY InvNext, SourcedNext
<1>. QED  BY <1>1, <1>2, SourcedMeans, PTL DEF Spec

--------------------------------------------------------------------------------
(* Labelling.  The invariant says what the session in memory owes to the   *)
(* file it has read or written last, and that the pair being asked for is  *)
(* one without a genuine label.                                            *)

Place ==
    /\ lstate \in LabelStates
    /\ position \in Nat \ {0}
    /\ Len(dataset) \in Nat

\* What the session has to keep, and where the labels come from.
Owed ==
    lstate # "idle" =>
        \A p \in Completed(last) : p \in DOMAIN records /\ records[p] = last[p]

Written == saved.readable => saved.labels = last

Genuine(labels) == \A p \in Completed(labels) : <<p, labels[p].safe>> \in answered

\* The pair that is asked for has no genuine label yet.
Wanted == lstate = "asking" => position \notin Completed(records)

LabelsInv == Place /\ Owed /\ Written /\ Genuine(records) /\ Genuine(saved.labels) /\ Genuine(last) /\ Wanted

--------------------------------------------------------------------------------
LEMMA NextPendingIsPending ==
    ASSUME Place, Pending # {}
    PROVE  NextPending \in Pending
<1>1. Pending \in SUBSET Nat
      BY DEF Place, Pending
<1>2. \E m \in Pending : \A n \in Pending : m <= n
      BY <1>1, LeastNumber
<1>. QED  BY <1>2 DEF NextPending

\* No labels are complete labels.
LEMMA NothingIsGenuine == Genuine(NoLabels)
BY DEF Genuine, Completed, NoLabels

LEMMA InitKeeps ==
    Len(dataset) \in Nat /\ (LabelInit \/ EvaluatedInit) => LabelsInv
<1>. SUFFICES ASSUME Len(dataset) \in Nat, LabelInit \/ EvaluatedInit PROVE LabelsInv
     OBVIOUS
<1>1. CASE LabelInit
      BY <1>1, NothingIsGenuine
         DEF LabelInit, LabelsInv, Place, LabelStates, Owed, Written, Wanted, Genuine, NoLabels, Completed
<1>2. CASE EvaluatedInit
  <2>1. Place /\ Owed /\ Written /\ Wanted
        BY <1>2 DEF EvaluatedInit, Place, LabelStates, Owed, Written, Wanted
  <2>2. Genuine(records)
        BY <1>2, NothingIsGenuine DEF EvaluatedInit
  <2>3. Genuine(saved.labels) /\ Genuine(last)
        BY <1>2 DEF EvaluatedInit, Genuine
  <2>. QED  BY <2>1, <2>2, <2>3 DEF LabelsInv
<1>. QED  BY <1>1, <1>2

--------------------------------------------------------------------------------
\* A step that keeps the labels and the file keeps what is owed for them.
LEMMA NothingLabelled ==
    ASSUME LabelsInv, Place', Wanted',
           UNCHANGED <<records, saved, last, answered>>,
           lstate = "idle" => lstate' = "idle"
    PROVE  LabelsInv'
BY DEF LabelsInv, Owed, Written, Genuine, Completed

LEMMA StartKeeps == LabelsInv /\ (SessionStarts \/ RetryStarts) => LabelsInv'
<1>. SUFFICES ASSUME LabelsInv, SessionStarts \/ RetryStarts PROVE LabelsInv'
     OBVIOUS
<1>1. Place' /\ Wanted' /\ Written'
      BY DEF LabelsInv, SessionStarts, RetryStarts, Place, LabelStates, Wanted, Written
<1>2. Genuine(records)' /\ Genuine(saved.labels)' /\ Genuine(last)'
      BY NothingIsGenuine DEF LabelsInv, SessionStarts, RetryStarts, Loaded, Genuine, Completed, NoLabels
<1>3. Owed'
      BY DEF LabelsInv, Written, SessionStarts, RetryStarts, Loaded, Owed, Completed
<1>. QED  BY <1>1, <1>2, <1>3 DEF LabelsInv

LEMMA AskKeeps == LabelsInv /\ (AskLabel \/ AskAgain) => LabelsInv'
<1>. SUFFICES ASSUME LabelsInv, AskLabel \/ AskAgain PROVE LabelsInv'
     OBVIOUS
<1>1. NextPending \in Pending
      BY NextPendingIsPending DEF LabelsInv, AskLabel, AskAgain
<1>2. Place' /\ Wanted'
      BY <1>1 DEF LabelsInv, AskLabel, AskAgain, Pending, Place, LabelStates, Wanted
<1>. QED  BY <1>2, NothingLabelled DEF AskLabel, AskAgain

\* A label that is recorded for the pair asked for disturbs no other.
LEMMA RecordKeeps ==
    ASSUME LabelsInv, RecordLabel, lstate = "asking", Place', Wanted',
           UNCHANGED <<saved, last>>
    PROVE  LabelsInv'
<1>. DEFINE label == [safe |-> verdict.is_safe, fallback_triggered |-> verdict.fallback_triggered]
<1>1. /\ records' = [p \in DOMAIN records \cup {position} |-> IF p = position THEN label ELSE records[p]]
      /\ answered \subseteq answered'
      /\ ~label.fallback_triggered => <<position, label.safe>> \in answered'
      BY DEF RecordLabel
<1>2. Genuine(records)'
  <2>. SUFFICES ASSUME NEW p \in Completed(records)' PROVE <<p, records'[p].safe>> \in answered'
       BY DEF Genuine
  <2>1. CASE p = position
        BY <1>1, <2>1 DEF Completed
  <2>2. CASE p # position
        BY <1>1, <2>2 DEF LabelsInv, Genuine, Completed
  <2>. QED  BY <2>1, <2>2
<1>3. Genuine(saved.labels)' /\ Genuine(last)' /\ Written'
      BY <1>1 DEF LabelsInv, Genuine, Completed, Written
<1>4. Owed'
  <2>. SUFFICES ASSUME NEW p \in Completed(last)
                PROVE  p \in DOMAIN records' /\ records'[p] = last[p]
       BY DEF Owed, Completed
  <2>1. p \in DOMAIN records /\ records[p] = last[p]
        BY DEF LabelsInv, Owed
  <2>2. p # position
        BY <2>1 DEF LabelsInv, Wanted, Completed
  <2>. QED  BY <1>1, <2>1, <2>2
<1>. QED  BY <1>2, <1>3, <1>4 DEF LabelsInv

LEMMA ReturnKeeps == LabelsInv /\ (LabelReturned \/ RetryReturned) => LabelsInv'
<1>. SUFFICES ASSUME LabelsInv, LabelReturned \/ RetryReturned PROVE LabelsInv'
     OBVIOUS
<1>1. Place' /\ Wanted'
      BY DEF LabelsInv, LabelReturned, RetryReturned, Place, LabelStates, Wanted
<1>2. lstate = "asking" /\ UNCHANGED <<saved, last>>
      BY DEF LabelReturned, RetryReturned
<1>3. CASE RecordLabel
      BY <1>1, <1>2, <1>3, RecordKeeps
<1>4. CASE ~RecordLabel
      BY <1>1, <1>2, <1>4, NothingLabelled DEF LabelReturned, RetryReturned
<1>. QED  BY <1>3, <1>4

LEMMA SaveKeeps == LabelsInv /\ (SaveOpens \/ SaveEnds) => LabelsInv'
<1>. SUFFICES ASSUME LabelsInv, SaveOpens \/ SaveEnds PROVE LabelsInv'
     OBVIOUS
<1>1. CASE SaveOpens
      BY <1>1, NothingIsGenuine
         DEF LabelsInv, SaveOpens, Place, LabelStates, Wanted, Written, Owed, Genuine, Completed, NoLabels
<1>2. CASE SaveEnds
  <2>1. Place' /\ Wanted' /\ Written'
        BY <1>2 DEF LabelsInv, SaveEnds, SessionEnds, Place, LabelStates, Wanted, Written
  <2>2. Genuine(last)' /\ Genuine(saved.labels)'
        BY <1>2 DEF LabelsInv, SaveEnds, Genuine, Completed
  <2>3. Genuine(records)'
        BY <1>2, NothingIsGenuine DEF LabelsInv, SaveEnds, SessionEnds, Genuine, Completed, NoLabels
  <2>4. Owed'
        BY <1>2 DEF SaveEnds, SessionEnds, Owed, Completed
  <2>. QED  BY <2>1, <2>2, <2>3, <2>4 DEF LabelsInv
<1>. QED  BY <1>1, <1>2

LEMMA CrashKeeps == LabelsInv /\ SessionCrashes => LabelsInv'
BY NothingIsGenuine
   DEF LabelsInv, SessionCrashes, SessionEnds, Place, LabelStates, Wanted, Written, Owed, Genuine, Completed, NoLabels

LEMMA StutterKeeps ==
    ASSUME LabelsInv, UNCHANGED labelVars
    PROVE  LabelsInv'
<1>1. Place' /\ Wanted'
      BY DEF LabelsInv, labelVars, Place, Wanted, Completed
<1>. QED  BY <1>1, NothingLabelled DEF labelVars

LEMMA NextKeeps == LabelsInv /\ [LabelNext]_<<labelVars, judgeVars>> => LabelsInv'
<1>. SUFFICES ASSUME LabelsInv, [LabelNext]_<<labelVars, judgeVars>> PROVE LabelsInv'
     OBVIOUS
<1>1. CASE SessionCloses \/ RetryCloses
  <2>1. Place' /\ Wanted'
        BY <1>1 DEF LabelsInv, SessionCloses, RetryCloses, Place, LabelStates, Wanted
  <2>. QED  BY <1>1, <2>1, NothingLabelled DEF SessionCloses, RetryCloses
<1>2. CASE UNCHANGED labelVars
      BY <1>2, StutterKeeps
<1>. QED  BY <1>1, <1>2, StartKeeps, AskKeeps, ReturnKeeps, SaveKeeps, CrashKeeps
          DEF LabelNext

\* No session loses a genuine label of the file it has read or written, and no
\* label that is kept is anything but the model's own answer for its pair
\* (main and save_merged_telemetry of label_synthetic_feedback.py,
\* retry_fallback_batch of retry_fallback_pairs.py): LabelsKept, across crashes,
\* for every dataset, cap, number of retries and outcome of an evaluation.
THEOREM LabelsAreKept == LabelSpec => []LabelsKept
<1>1. LabelsInv => LabelsKept
      BY DEF LabelsInv, Owed, Written, Genuine, LabelsKept
<1>2. dataset \in Datasets => Len(dataset) \in Nat
      BY LabelAssumption
<1>. QED  BY <1>1, <1>2, InitKeeps, NextKeeps, PTL DEF LabelSpec

--------------------------------------------------------------------------------
(* The judge: whatever happens to a call, a fallback permits nothing, a    *)
(* verdict that is safe is an answer to reuse, and a judge that is         *)
(* unavailable only ever falls back.                                       *)

JudgeSound ==
    /\ verdict \in JudgeResult
    /\ verdict.fallback_triggered => ~verdict.is_safe
    /\ verdict.is_safe => verdict.decision = "REUSE"
    /\ backend = "unavailable" => jstate \in {"idle", "answered"} /\ ~verdict.is_safe

LEMMA FallbackForbids ==
    /\ BypassFallback \in JudgeResult /\ ~BypassFallback.is_safe
    /\ \A named \in BOOLEAN : /\ [BypassFallback EXCEPT !.names_quota = named] \in JudgeResult
                              /\ ~[BypassFallback EXCEPT !.names_quota = named].is_safe
BY DEF BypassFallback, JudgeResult

LEMMA AnswersAreGenuine ==
    ASSUME NEW output \in ModelOutputs
    PROVE  /\ Coerced(output) \in JudgeResult /\ ~Coerced(output).fallback_triggered
           /\ Coerced(output).is_safe => Coerced(output).decision = "REUSE"
BY DEF Coerced, JudgeResult, ModelOutputs

\* What the callers act on is the model's own answer to reuse.
LEMMA SafeIsApproved ==
    ASSUME JudgeSound, JudgeSaysReuse
    PROVE  JudgeApproved
BY DEF JudgeSound, JudgeSaysReuse, JudgeDecisionResult, JudgeApproved

LEMMA JudgeStartSound ==
    ASSUME JudgeSound, JudgeStart
    PROVE  JudgeSound'
BY FallbackForbids DEF JudgeSound, JudgeStart, Conclude

LEMMA JudgeReturnSound ==
    ASSUME JudgeSound, JudgeReset, UNCHANGED backend
    PROVE  JudgeSound'
BY FallbackForbids DEF JudgeSound, JudgeReset

LEMMA JudgeNextSound ==
    ASSUME JudgeSound, JudgeNext
    PROVE  JudgeSound'
<1>1. ASSUME NEW failure \in {"rate_limit", "transient", "other"}, JudgeRetry(failure)
      PROVE  JudgeSound'
      BY <1>1 DEF JudgeRetry, JudgeSound
<1>2. ASSUME NEW failure \in {"rate_limit", "transient", "other"}, JudgeFail(failure)
      PROVE  JudgeSound'
  <2>1. PICK named \in BOOLEAN : verdict' = [BypassFallback EXCEPT !.names_quota = named]
        BY <1>2 DEF JudgeFail, Conclude
  <2>2. backend # "unavailable" /\ UNCHANGED backend
        BY <1>2 DEF JudgeFail, JudgeSound
  <2>. QED  BY <2>1, <2>2, FallbackForbids DEF JudgeSound
<1>3. ASSUME NEW output \in ModelOutputs, JudgeAnswer(output) \/ JudgeReformatted(output)
      PROVE  JudgeSound'
  <2>1. verdict' = Coerced(output) /\ backend # "unavailable" /\ UNCHANGED backend
        BY <1>3 DEF JudgeAnswer, JudgeReformatted, Conclude, JudgeSound
  <2>. QED  BY <2>1, AnswersAreGenuine DEF JudgeSound
<1>4. ASSUME JudgeBlocked \/ JudgeUnparseable \/ JudgeMalformed
      PROVE  JudgeSound'
  <2>1. /\ UNCHANGED verdict \/ verdict' = BypassFallback
           \/ \E output \in ModelOutputs : verdict' = Coerced(output)
        /\ backend # "unavailable" /\ UNCHANGED backend
        BY <1>4 DEF JudgeBlocked, JudgeUnparseable, JudgeMalformed, Conclude, JudgeSound
  <2>. QED  BY <2>1, FallbackForbids, AnswersAreGenuine DEF JudgeSound
<1>. QED  BY <1>1, <1>2, <1>3, <1>4 DEF JudgeNext

LEMMA LabelNextSound ==
    ASSUME JudgeSound, [LabelNext]_<<labelVars, judgeVars>>
    PROVE  JudgeSound'
<1>1. UNCHANGED judgeVars => JudgeSound'
      BY DEF judgeVars, JudgeSound
<1>2. CASE SessionStarts \/ SessionCloses \/ RetryStarts \/ RetryCloses \/ SaveOpens \/ SaveEnds
      BY <1>1, <1>2 DEF SessionStarts, SessionCloses, RetryStarts, RetryCloses, SaveOpens, SaveEnds
<1>3. CASE AskLabel \/ AskAgain
      BY <1>3, JudgeStartSound DEF AskLabel, AskAgain
<1>4. CASE LabelReturned \/ RetryReturned \/ SessionCrashes
      BY <1>4, JudgeReturnSound DEF LabelReturned, RetryReturned, SessionCrashes, JudgeReturn
<1>. QED  BY <1>1, <1>2, <1>3, <1>4, JudgeNextSound DEF LabelNext

--------------------------------------------------------------------------------
(* What labels are: a Boolean and a mark for pairs of the dataset.         *)

Label == [safe : BOOLEAN, fallback_triggered : BOOLEAN]

LabelsOf(labels) == \A p \in DOMAIN labels : p \in 1..Len(dataset) /\ labels[p] \in Label

LabelsTyped ==
    /\ dataset \in Seq(Pairs)
    /\ LabelsOf(records) /\ LabelsOf(saved.labels)
    /\ lstate = "asking" => position \in 1..Len(dataset)

LEMMA NothingTyped == LabelsOf(NoLabels)
BY DEF LabelsOf, NoLabels

LEMMA RecordTyped ==
    ASSUME LabelsTyped, JudgeSound, RecordLabel, lstate = "asking", UNCHANGED dataset
    PROVE  LabelsOf(records)'
<1>. DEFINE label == [safe |-> verdict.is_safe, fallback_triggered |-> verdict.fallback_triggered]
<1>1. label \in Label
      BY DEF Label, JudgeSound, JudgeResult
<1>2. records' = [p \in DOMAIN records \cup {position} |-> IF p = position THEN label ELSE records[p]]
      BY DEF RecordLabel
<1>3. position \in 1..Len(dataset)
      BY DEF LabelsTyped
<1>. HIDE DEF label
<1>. QED  BY <1>1, <1>2, <1>3 DEF LabelsTyped, LabelsOf

LEMMA LabelNextTyped ==
    ASSUME LabelsInv, LabelsTyped, JudgeSound, [LabelNext]_<<labelVars, judgeVars>>
    PROVE  LabelsTyped'
<1>1. CASE SessionStarts \/ RetryStarts
      BY <1>1, NothingTyped DEF SessionStarts, RetryStarts, Loaded, LabelsTyped, LabelsOf
<1>2. CASE AskLabel \/ AskAgain
  <2>1. NextPending \in Pending
        BY <1>2, NextPendingIsPending DEF LabelsInv, AskLabel, AskAgain
  <2>2. NextPending \in 1..Len(dataset)
        BY <2>1 DEF Pending, LabelsInv, Place
  <2>. QED  BY <1>2, <2>2 DEF AskLabel, AskAgain, LabelsTyped, LabelsOf
<1>3. CASE LabelReturned \/ RetryReturned
  <2>1. lstate = "asking" /\ lstate' # "asking" /\ UNCHANGED <<dataset, saved>>
        BY <1>3 DEF LabelReturned, RetryReturned
  <2>2. RecordLabel \/ UNCHANGED records
        BY <1>3 DEF LabelReturned, RetryReturned
  <2>3. LabelsOf(records)'
        BY <2>1, <2>2, RecordTyped DEF LabelsTyped, LabelsOf
  <2>. QED  BY <2>1, <2>3 DEF LabelsTyped, LabelsOf
<1>4. CASE SessionCloses \/ RetryCloses \/ UNCHANGED labelVars
      BY <1>4 DEF SessionCloses, RetryCloses, labelVars, LabelsTyped, LabelsOf
<1>5. CASE SaveOpens \/ SaveEnds \/ SessionCrashes
      BY <1>5, NothingTyped DEF SaveOpens, SaveEnds, SessionCrashes, SessionEnds, LabelsTyped, LabelsOf
<1>. QED  BY <1>1, <1>2, <1>3, <1>4, <1>5 DEF LabelNext

--------------------------------------------------------------------------------
(* Calibration. *)

\* The number of members of a finite set that are at most p takes each value
\* from 1 to the size of the set.
LEMMA Ranked ==
    ASSUME NEW S \in SUBSET Nat, IsFiniteSet(S), NEW i \in 1..Cardinality(S)
    PROVE  \E p \in S : Cardinality({q \in S : q <= p}) = i
<1>1. S \in Slots
      BY DEF Slots
<1>2. SlotAt(S, i) \in S /\ Position(S, SlotAt(S, i)) = i
      BY <1>1, Positions
<1>. QED  BY <1>2 DEF Position

LEMMA GenuineFeedbackType ==
    ASSUME LabelsTyped
    PROVE  GenuineFeedback \in Seq(PairRecords)
<1>. DEFINE genuine == Completed(saved.labels)
            Rank(p) == Cardinality({q \in genuine : q <= p})
            At(i) == CHOOSE p \in genuine : Rank(p) = i
<1>1. genuine \in SUBSET (1..Len(dataset)) /\ genuine \in SUBSET Nat
      BY DEF Completed, LabelsTyped, LabelsOf
<1>2. IsFiniteSet(genuine) /\ Cardinality(genuine) \in Nat
  <2>1. Len(dataset) \in Int /\ 1 \in Int
        BY DEF LabelsTyped
  <2>2. IsFiniteSet(1..Len(dataset))
        BY <2>1, FS_Interval
  <2>3. IsFiniteSet(genuine)
        BY <1>1, <2>2, FS_Subset
  <2>. QED  BY <2>3, FS_CardinalityType
<1>3. ASSUME NEW i \in 1..Cardinality(genuine)
      PROVE  [dataset[At(i)] EXCEPT !.safe = saved.labels[At(i)].safe] \in PairRecords
  <2>1. \E p \in genuine : Rank(p) = i
        BY <1>1, <1>2, Ranked
  <2>2. At(i) \in genuine
        BY <2>1
  <2>. HIDE DEF At
  <2>3. dataset[At(i)] \in PairRecords
        BY <1>1, <2>2, EvaluationAssumption DEF LabelsTyped
  <2>4. saved.labels[At(i)].safe \in BOOLEAN
        BY <2>2 DEF Completed, LabelsTyped, LabelsOf, Label
  <2>. HIDE DEF genuine
  <2>. QED  BY <2>3, <2>4 DEF PairRecords
<1>4. GenuineFeedback =
          [i \in 1..Cardinality(genuine) |->
              [dataset[At(i)] EXCEPT !.safe = saved.labels[At(i)].safe]]
      BY DEF GenuineFeedback
<1>. HIDE DEF genuine, At
<1>. QED  BY <1>2, <1>3, <1>4

\* A non-empty finite set of thresholds has a lowest one.
LEMMA LowestThere ==
    ASSUME NEW S \in SUBSET SweepThresholds, S # {}
    PROVE  Lowest(S) \in S /\ \A t \in S : Lowest(S) <= t
<1>1. IsFiniteSet(S) /\ S \in SUBSET Int
      BY EngineAssumption, FS_Subset
<1>2. \E t \in S : \A u \in S : t <= u
  <2>. DEFINE below(t) == {u \in S : u < t}
              sizes == {Cardinality(below(t)) : t \in S}
  <2>1. ASSUME NEW t \in S
        PROVE  IsFiniteSet(below(t)) /\ Cardinality(below(t)) \in Nat
        BY <1>1, FS_Subset, FS_CardinalityType
  <2>2. sizes \in SUBSET Nat /\ sizes # {}
        BY <2>1
  <2>3. PICK n \in sizes : \A m \in sizes : n <= m
        BY <2>2, LeastNumber
  <2>4. PICK t \in S : n = Cardinality(below(t))
        OBVIOUS
  <2>5. ASSUME NEW u \in S, u < t PROVE FALSE
    <3>1. below(u) \in SUBSET below(t) /\ u \in below(t) /\ u \notin below(u)
      <4>1. \A x \in S : x \in Int
            BY <1>1
      <4>2. \A x \in S : x < u => x < t
            BY <2>5, <4>1
      <4>3. ~(u < u)
            BY <4>1
      <4>. QED  BY <2>5, <4>2, <4>3
    <3>2. Cardinality(below(u)) <= Cardinality(below(t))
          BY <2>1, <3>1, FS_Subset
    <3>3. Cardinality(below(t)) = Cardinality(below(u)) => below(t) = below(u)
          BY <2>1, <3>1, FS_Subset
    <3>4. Cardinality(below(t)) <= Cardinality(below(u))
          BY <2>3, <2>4
    <3>. QED  BY <2>1, <3>1, <3>2, <3>3, <3>4
  <2>. QED  BY <1>1, <2>5
<1>. QED  BY <1>2 DEF Lowest

LEMMA FeedbackFinite ==
    ASSUME NEW f \in Seq(PairRecords), NEW d, NEW S \in SUBSET Of(f, d)
    PROVE  IsFiniteSet(S) /\ Cardinality(S) \in Nat
<1>1. Len(f) \in Int /\ 1 \in Int
      OBVIOUS
<1>2. IsFiniteSet(1..Len(f))
      BY <1>1, FS_Interval
<1>3. S \in SUBSET (1..Len(f))
      BY DEF Of
<1>4. IsFiniteSet(S)
      BY <1>2, <1>3, FS_Subset
<1>. QED  BY <1>4, FS_CardinalityType

\* Both classes of a domain's feedback are as large as its minority.
LEMMA ClassesAreThere ==
    ASSUME NEW f \in Seq(PairRecords), NEW d, NEW b \in BOOLEAN
    PROVE  Cardinality({i \in Of(f, d) : f[i].safe = b}) >= MinorityCount(f, d)
<1>. DEFINE own == Of(f, d)
            unsafe == Unsafe(f, own)
<1>1. ASSUME NEW i \in own PROVE f[i].safe \in BOOLEAN
  <2>1. f[i] \in PairRecords
        BY DEF Of
  <2>. QED  BY <2>1 DEF PairRecords
<1>2. /\ unsafe \in SUBSET own
      /\ unsafe = {i \in own : f[i].safe = FALSE}
      /\ own \ unsafe = {i \in own : f[i].safe = TRUE}
      BY <1>1 DEF Unsafe
<1>3. IsFiniteSet(own) /\ Cardinality(own) \in Nat /\ Cardinality(unsafe) \in Nat
      BY <1>2, FeedbackFinite
<1>4. Cardinality(own \ unsafe) = Cardinality(own) - Cardinality(unsafe)
  <2>1. Cardinality(own \ unsafe) = Cardinality(own) - Cardinality(own \cap unsafe)
        BY <1>3, FS_Difference
  <2>2. own \cap unsafe = unsafe
        BY <1>2
  <2>. QED  BY <2>1, <2>2
<1>5. MinorityCount(f, d) = LET safe == Cardinality(own) - Cardinality(unsafe)
                            IN  IF safe < Cardinality(unsafe) THEN safe ELSE Cardinality(unsafe)
      BY DEF MinorityCount, SampleSize
<1>. HIDE DEF own, unsafe
<1>6. /\ Cardinality(unsafe) >= MinorityCount(f, d)
      /\ Cardinality(own \ unsafe) >= MinorityCount(f, d)
      BY <1>3, <1>4, <1>5
<1>7. CASE b = TRUE
      BY <1>2, <1>6, <1>7, Zenon DEF own
<1>8. CASE b = FALSE
      BY <1>2, <1>6, <1>8, Zenon DEF own
<1>. QED  BY <1>7, <1>8

\* A domain that passes the gates has as many pairs, and of both classes, as
\* the gates ask for; its counts are numbers.
LEMMA GatesAreMet ==
    ASSUME feedback \in Seq(PairRecords), NEW d, PassesGates(feedback, d)
    PROVE  /\ SampleSize(feedback, d) \in Nat /\ SampleSize(feedback, d) >= MINIMUM_CATEGORY_N
           /\ MinorityCount(feedback, d) \in Int /\ MinorityCount(feedback, d) >= MINIMUM_MINORITY_CLASS_N
           /\ Cardinality(Of(feedback, d)) >= MINIMUM_CATEGORY_N
           /\ \A b \in BOOLEAN :
                 Cardinality({i \in Of(feedback, d) : feedback[i].safe = b}) >= MINIMUM_MINORITY_CLASS_N
<1>1. SampleSize(feedback, d) \in Nat
      BY FeedbackFinite DEF SampleSize
<1>2. Unsafe(feedback, Of(feedback, d)) \in SUBSET Of(feedback, d)
      BY DEF Unsafe
<1>3. Cardinality(Unsafe(feedback, Of(feedback, d))) \in Nat
      BY <1>2, FeedbackFinite
<1>4. MinorityCount(feedback, d) \in Int
      BY <1>1, <1>3 DEF MinorityCount
<1>5. /\ SampleSize(feedback, d) >= MINIMUM_CATEGORY_N
      /\ MinorityCount(feedback, d) >= MINIMUM_MINORITY_CLASS_N
      BY DEF PassesGates
<1>6. Cardinality(Of(feedback, d)) >= MINIMUM_CATEGORY_N
      BY <1>5 DEF SampleSize
<1>7. ASSUME NEW b \in BOOLEAN
      PROVE  Cardinality({i \in Of(feedback, d) : feedback[i].safe = b}) >= MINIMUM_MINORITY_CLASS_N
  <2>1. Cardinality({i \in Of(feedback, d) : feedback[i].safe = b}) >= MinorityCount(feedback, d)
        BY ClassesAreThere
  <2>2. {i \in Of(feedback, d) : feedback[i].safe = b} \in SUBSET Of(feedback, d)
        OBVIOUS
  <2>3. Cardinality({i \in Of(feedback, d) : feedback[i].safe = b}) \in Nat
        BY <2>2, FeedbackFinite
  <2>. QED  BY <1>4, <1>5, <2>1, <2>3, EngineAssumption
<1>. QED  BY <1>1, <1>4, <1>5, <1>6, <1>7

\* What OperatingPointClears says of a domain.
DomainClears(d) ==
    LET reused == {i \in 1..Len(feedback) :
                      feedback[i].domain = d /\ EngineDecides(engine, feedback[i].score, d)}
        unsafe == {i \in reused : ~feedback[i].safe}
        own == {i \in 1..Len(feedback) : feedback[i].domain = d}
    IN IF engine[d].is_fallback THEN OperatingThreshold(engine, d) = FALLBACK_THRESHOLD
       ELSE /\ Cardinality(own) >= MINIMUM_CATEGORY_N
            /\ \A b \in BOOLEAN :
                  Cardinality({i \in own : feedback[i].safe = b}) >= MINIMUM_MINORITY_CLASS_N
            /\ engine[d].swept =>
                  /\ reused # {}
                  /\ ClopperPearsonUpper(Cardinality(unsafe), Cardinality(reused)) <= SAFETY_CEILING_IRR
                  /\ \A t \in SweepThresholds :
                        t < OperatingThreshold(engine, d) => ~Clears(feedback, d, t)

\* A fallback is the fallback threshold, in either calibration.
LEMMA FallbackClears ==
    ASSUME NEW d \in DOMAIN engine, NEW swept \in BOOLEAN,
           engine[d] = Threshold(feedback, d, FALLBACK_THRESHOLD, TRUE, swept)
    PROVE  DomainClears(d)
<1>1. engine[d].is_fallback /\ engine[d].operating = FALLBACK_THRESHOLD
      BY DEF Threshold
<1>. QED  BY <1>1 DEF DomainClears, OperatingThreshold

\* What the sweep fits clears its own ceiling and gates.
LEMMA SweepClears ==
    ASSUME feedback \in Seq(PairRecords), engine = FitWithFeedbackSweep(feedback),
           NEW d \in DOMAIN engine
    PROVE  DomainClears(d)
<1>1. engine[d] = CalibrateCategory(feedback, d)
      BY DEF FitWithFeedbackSweep
<1>2. CASE PassesGates(feedback, d) /\ Qualifying(feedback, d) # {}
  <2>. DEFINE t == Lowest(Qualifying(feedback, d))
              reused == Hits(feedback, d, t)
  <2>1. engine[d] = Threshold(feedback, d, t, FALSE, TRUE)
        BY <1>1, <1>2 DEF CalibrateCategory
  <2>2. /\ ~engine[d].is_fallback /\ engine[d].operating = t
        /\ engine[d].sample_size = SampleSize(feedback, d)
        /\ engine[d].minority = MinorityCount(feedback, d)
        BY <2>1 DEF Threshold
  <2>3. Qualifying(feedback, d) \in SUBSET SweepThresholds
        BY DEF Qualifying
  <2>4. t \in Qualifying(feedback, d) /\ \A u \in Qualifying(feedback, d) : t <= u
        BY <1>2, <2>3, LowestThere
  <2>5. t \in Int /\ Clears(feedback, d, t)
        BY <2>4, EngineAssumption DEF Qualifying
  <2>. HIDE DEF t
  <2>6. /\ SampleSize(feedback, d) \in Nat /\ SampleSize(feedback, d) >= MINIMUM_CATEGORY_N
        /\ MinorityCount(feedback, d) \in Int /\ MinorityCount(feedback, d) >= MINIMUM_MINORITY_CLASS_N
        /\ Cardinality(Of(feedback, d)) >= MINIMUM_CATEGORY_N
        /\ \A b \in BOOLEAN :
              Cardinality({i \in Of(feedback, d) : feedback[i].safe = b}) >= MINIMUM_MINORITY_CLASS_N
        BY <1>2, GatesAreMet
  <2>7. OperatingThreshold(engine, d) = t
        BY <2>2, <2>6, EngineAssumption DEF OperatingThreshold
  <2>8. reused = {i \in 1..Len(feedback) :
                     feedback[i].domain = d /\ EngineDecides(engine, feedback[i].score, d)}
        BY <2>7 DEF EngineDecides, ThresholdDecisionResult, Hits, Of
  <2>9. /\ Cardinality(reused) > 0
        /\ ClopperPearsonUpper(Cardinality(Unsafe(feedback, reused)), Cardinality(reused)) <= SAFETY_CEILING_IRR
        BY <2>5 DEF Clears, DomainSweepPoint
  <2>10. reused # {}
    <3>1. ASSUME reused = {} PROVE FALSE
      <4>1. Cardinality({}) > 0
            BY <2>9, <3>1
      <4>. QED  BY <4>1, FS_EmptySet
    <3>. QED  BY <3>1
  <2>11. Of(feedback, d) = {i \in 1..Len(feedback) : feedback[i].domain = d}
        BY DEF Of
  <2>12. ASSUME NEW u \in SweepThresholds, u < t PROVE ~Clears(feedback, d, u)
        BY <2>4, <2>5, <2>12, EngineAssumption DEF Qualifying
  <2>13. Unsafe(feedback, reused) = {i \in reused : ~feedback[i].safe}
        BY DEF Unsafe
  <2>. HIDE DEF reused
  <2>. QED  BY <2>2, <2>6, <2>7, <2>8, <2>9, <2>10, <2>11, <2>12, <2>13 DEF DomainClears
<1>3. CASE ~(PassesGates(feedback, d) /\ Qualifying(feedback, d) # {})
  <2>1. engine[d] = Threshold(feedback, d, FALLBACK_THRESHOLD, TRUE, TRUE)
        BY <1>1, <1>3 DEF CalibrateCategory
  <2>. QED  BY <2>1, FallbackClears
<1>. QED  BY <1>2, <1>3

\* What a logistic fit accepts has met the gates.
LEMMA LogisticClears ==
    ASSUME feedback \in Seq(PairRecords), engine \in Fits(feedback), NEW d \in DOMAIN engine
    PROVE  DomainClears(d)
<1>1. PICK found : engine = Fit(feedback, found)
      BY DEF Fits
<1>2. engine[d] = FitCategory(feedback, d, found[d])
      BY <1>1 DEF Fit
<1>3. CASE PassesGates(feedback, d) /\ found[d] # << >>
  <2>1. engine[d] = Threshold(feedback, d, found[d][1], FALSE, FALSE)
        BY <1>2, <1>3 DEF FitCategory
  <2>2. ~engine[d].is_fallback /\ ~engine[d].swept
        BY <2>1 DEF Threshold
  <2>3. /\ Cardinality(Of(feedback, d)) >= MINIMUM_CATEGORY_N
        /\ \A b \in BOOLEAN :
              Cardinality({i \in Of(feedback, d) : feedback[i].safe = b}) >= MINIMUM_MINORITY_CLASS_N
        BY <1>3, GatesAreMet
  <2>4. Of(feedback, d) = {i \in 1..Len(feedback) : feedback[i].domain = d}
        BY DEF Of
  <2>. QED  BY <2>2, <2>3, <2>4 DEF DomainClears
<1>4. CASE ~(PassesGates(feedback, d) /\ found[d] # << >>)
  <2>1. engine[d] = Threshold(feedback, d, FALLBACK_THRESHOLD, TRUE, FALSE)
        BY <1>2, <1>4 DEF FitCategory
  <2>. QED  BY <2>1, FallbackClears
<1>. QED  BY <1>3, <1>4

--------------------------------------------------------------------------------
(* The evaluation.  What the reports rest on while pairs are decided: the  *)
(* labels of its own judged pairs are aligned with them, the engine is the *)
(* one fitted on the feedback, and an ambiguous pair that only a judge     *)
(* could have let pass is reused on its own answer for that pair, or not.  *)

EvalTypes ==
    /\ setup \in Setups
    /\ stage \in {"feedback", "next", "deciding", "step_asks", "tracking", "tracking_asks",
                  "retry", "raised", "subforums", "saved"}
    /\ pair \in Pairs
    /\ history \in [Domains -> 0..RateUnit]

Collecting ==
    /\ stage = "feedback" => setup.engine
    /\ stage = "retry" => ~setup.engine
    /\ stage \notin {"feedback", "retry"} => lstate = "idle"
    /\ stage # "retry" /\ ~setup.engine =>
          /\ records \in Seq(Label) /\ Len(records) = Len(dataset)
          /\ saved.labels = NoLabels /\ last = NoLabels

Calibrated ==
    /\ stage = "subforums" => feedback \in Seq(PairRecords) /\ engine = << >>
    /\ \/ engine = << >>
       \/ /\ feedback \in Seq(PairRecords)
          /\ engine = FitWithFeedbackSweep(feedback) \/ engine \in Fits(feedback)

\* Only the judge, or the score a judge has its half of, can make a reuse.
JudgeNeeded == JudgeIsProduction \/ setup.step = "blended"

Closed ==
    (stage \in {"tracking", "tracking_asks"}
     /\ TierOf(pair) = "AMBIGUOUS" /\ JudgeNeeded /\ predicted) => approval

Labelled == LabelsInv /\ LabelsTyped /\ JudgeSound

EInv == Labelled /\ EvalTypes /\ Collecting /\ Calibrated /\ Closed /\ FailClosed

LEMMA BackendStays ==
    /\ JudgeNext => UNCHANGED backend
    /\ LabelNext => UNCHANGED backend
<1>1. JudgeNext => UNCHANGED backend
      BY DEF JudgeNext, JudgeRetry, JudgeFail, JudgeAnswer, JudgeReformatted, JudgeBlocked,
             JudgeMalformed, JudgeUnparseable
<1>. QED  BY <1>1 DEF LabelNext, SessionStarts, AskLabel, LabelReturned, SessionCloses, RetryStarts,
             AskAgain, RetryReturned, RetryCloses, SaveOpens, SaveEnds, SessionCrashes,
             JudgeStart, JudgeReturn, judgeVars

\* The weighted score of an ambiguous pair is short of one: similarity and
\* confidence are not both at the upper ends of their bands.
LEMMA CombinedBelowOne ==
    ASSUME EvalTypes, TierOf(pair) = "AMBIGUOUS"
    PROVE  Combined(pair) \in Int /\ Combined(pair) < One
<1>. DEFINE s == Clamp(pair.score - 50, 42)
            c == Clamp(pair.confidence - 80, 10)
            h == history[pair.domain]
<1>1. /\ pair.score \in -100..100 /\ pair.confidence \in 0..100 /\ pair.domain \in Domains
      BY EvaluationAssumption DEF EvalTypes, PairRecords
<1>2. ~(pair.score >= 92 /\ pair.confidence >= 90)
      BY DEF TierOf, Route, MayAutoReuse, LookupOf, DEFAULT_BOUNDARIES
<1>3. s \in 0..42 /\ c \in 0..10 /\ (s < 42 \/ c < 10)
      BY <1>1, <1>2 DEF Clamp
<1>4. h \in 0..10000
  <2>1. history \in [Domains -> 0..RateUnit]
        BY DEF EvalTypes
  <2>2. h \in 0..RateUnit
        BY <1>1, <2>1
  <2>3. RateUnit = 10000
        BY DEF RateUnit
  <2>. HIDE DEF h
  <2>. QED  BY <2>2, <2>3
<1>5. Combined(pair) = 10000 * (50 * s + 126 * c) + 840 * h
      BY DEF Combined, RateUnit
<1>. HIDE DEF s, c, h
<1>. QED  BY <1>3, <1>4, <1>5 DEF One, RateUnit

LEMMA RateType ==
    ASSUME NEW rate \in 0..RateUnit, NEW correct \in BOOLEAN
    PROVE  UpdateRate(rate, correct) \in 0..RateUnit
<1>1. CASE correct
      BY <1>1 DEF UpdateRate, RateUnit
<1>2. CASE ~correct
      BY <1>2 DEF UpdateRate, RateUnit
<1>. QED  BY <1>1, <1>2

LEMMA TallyTypes ==
    ASSUME EvalTypes, NEW hit, NEW judgeHit, NEW asked,
           Tally(hit, judgeHit, asked)
    PROVE  EvalTypes'
<1>1. stage' = "next" /\ UNCHANGED <<setup, pair>>
      BY DEF Tally
<1>2. pair.domain \in Domains /\ pair.safe \in BOOLEAN
      BY EvaluationAssumption DEF EvalTypes, PairRecords
<1>3. UpdateRate(history[pair.domain], pair.safe) \in 0..RateUnit
      BY <1>2, RateType DEF EvalTypes
<1>4. \/ history' = history
      \/ history' = [history EXCEPT ![pair.domain] = UpdateRate(history[pair.domain], pair.safe)]
      BY DEF Tally
<1>5. history' \in [Domains -> 0..RateUnit]
      BY <1>3, <1>4 DEF EvalTypes
<1>. QED  BY <1>1, <1>5 DEF EvalTypes

LEMMA TypedStays ==
    ASSUME LabelsTyped, UNCHANGED labelVars
    PROVE  LabelsTyped'
BY DEF LabelsTyped, LabelsOf, labelVars

LEMMA LabelledStays ==
    ASSUME Labelled, UNCHANGED <<labelVars, judgeVars>>
    PROVE  Labelled'
BY StutterKeeps, LabelNextTyped, LabelNextSound DEF Labelled

\* A step of the labels or of the judge that leaves the evaluation alone.
LEMMA ElsewhereKeeps ==
    ASSUME EInv, Labelled', UNCHANGED evalVars, UNCHANGED backend,
           stage \in {"feedback", "retry"} \/ UNCHANGED labelVars
    PROVE  EInv'
<1>1. UNCHANGED <<setup, stage, feedback, engine, pair, predicted, approval, history, row>>
      BY DEF evalVars, countVars
<1>2. EvalTypes' /\ Calibrated'
      BY <1>1 DEF EInv, EvalTypes, Calibrated
<1>3. TierOf(pair)' = TierOf(pair)
      BY <1>1 DEF TierOf, LookupOf
<1>4. JudgeNeeded' <=> JudgeNeeded
      BY <1>1 DEF JudgeNeeded, JudgeIsProduction
<1>5. Closed' /\ FailClosed'
      BY <1>1, <1>3, <1>4 DEF EInv, Closed, FailClosed, JudgeNeeded, JudgeIsProduction
<1>6. Collecting'
      BY <1>1 DEF EInv, Collecting, labelVars
<1>. QED  BY <1>2, <1>5, <1>6 DEF EInv

\* A step of the evaluation that counts nothing and leaves the labels alone.
LEMMA DecisionKeeps ==
    ASSUME EInv, Labelled', UNCHANGED labelVars, UNCHANGED <<setup, history, row, backend>>,
           stage \notin {"feedback", "retry"},
           stage' \in {"next", "deciding", "step_asks", "tracking", "tracking_asks", "raised"},
           pair' \in Pairs, UNCHANGED <<feedback, engine>>, Closed'
    PROVE  EInv'
<1>1. EvalTypes' /\ Calibrated' /\ FailClosed'
      BY DEF EInv, EvalTypes, Calibrated, FailClosed, JudgeIsProduction
<1>2. Collecting'
      BY DEF EInv, Collecting, labelVars
<1>. QED  BY <1>1, <1>2 DEF EInv

\* A pair is counted, and what was predicted for it is reported.
LEMMA TallyKeeps ==
    ASSUME EInv, Labelled', NEW hit, NEW judgeHit, NEW asked,
           Tally(hit, judgeHit, asked), UNCHANGED backend,
           stage \notin {"feedback", "retry"}, Collecting',
           TierOf(pair) = "AMBIGUOUS" /\ JudgeNeeded /\ hit => approval'
    PROVE  EInv'
<1>1. /\ UNCHANGED <<setup, feedback, engine, pair>> /\ stage' = "next"
      /\ row'.tier = TierOf(pair) /\ row'.hit = hit /\ row'.approved = approval'
      BY DEF Tally
<1>2. EvalTypes'
      BY TallyTypes DEF EInv
<1>3. Calibrated' /\ Closed'
      BY <1>1 DEF EInv, Calibrated, Closed
<1>4. FailClosed'
      BY <1>1 DEF FailClosed, JudgeNeeded, JudgeIsProduction
<1>. QED  BY <1>2, <1>3, <1>4 DEF EInv

\* What a subforum contributes.
LEMMA LabeledPairsType ==
    ASSUME NEW d, NEW pairs \in BuildLabeledPairs(d)
    PROVE  pairs \in Seq(PairRecords)
<1>. DEFINE Chosen(safe) == {p \in Pairs : p.domain = d /\ p.safe = safe}
            Some(safe) == UNION {[1..n -> Chosen(safe)] : n \in 0..PairsPerLabel}
<1>1. PICK both \in Some(TRUE) \X Some(FALSE) : pairs = both[1] \o both[2]
      BY DEF BuildLabeledPairs
<1>2. ASSUME NEW safe, NEW f \in Some(safe) PROVE f \in Seq(PairRecords)
  <2>1. PICK n \in 0..PairsPerLabel : f \in [1..n -> Chosen(safe)]
        OBVIOUS
  <2>2. n \in Nat /\ Chosen(safe) \in SUBSET PairRecords
        BY EvaluationAssumption
  <2>. HIDE DEF Chosen
  <2>. QED  BY <2>1, <2>2
<1>. HIDE DEF Some
<1>3. both[1] \in Some(TRUE) /\ both[2] \in Some(FALSE)
      OBVIOUS
<1>4. both[1] \in Seq(PairRecords) /\ both[2] \in Seq(PairRecords)
      BY <1>2, <1>3
<1>. QED  BY <1>1, <1>4

LEMMA DetailKeeps ==
    ASSUME EInv, stage = "tracking_asks", JudgeIsProduction, Detail, JudgeReturn
    PROVE  /\ Labelled' /\ lstate' = "idle"
           /\ records' \in Seq(Label) /\ Len(records') = Len(dataset')
           /\ UNCHANGED <<saved, last>>
<1>. DEFINE label == [safe |-> verdict.is_safe, fallback_triggered |-> verdict.fallback_triggered]
            n == Len(dataset)
<1>1. ~setup.engine /\ lstate = "idle" /\ records \in Seq(Label) /\ Len(records) = n
      /\ saved.labels = NoLabels /\ last = NoLabels
      BY DEF JudgeIsProduction, EInv, Collecting
<1>2. label \in Label
      BY DEF EInv, Labelled, JudgeSound, JudgeResult, Label
<1>3. pair \in Pairs /\ dataset \in Seq(Pairs)
      BY DEF EInv, EvalTypes, Labelled, LabelsTyped
<1>4. /\ dataset' = Append(dataset, pair) /\ records' = Append(records, label)
      /\ answered \subseteq answered'
      /\ ~label.fallback_triggered => <<Len(dataset'), label.safe>> \in answered'
      /\ UNCHANGED <<lstate, position, saved, last>>
      BY DEF Detail
<1>. HIDE DEF label
<1>5. /\ dataset' \in Seq(Pairs) /\ Len(dataset') = n + 1 /\ n \in Nat
      /\ records' \in Seq(Label) /\ Len(records') = n + 1
      /\ DOMAIN records' = 1..n+1
      /\ \A p \in 1..n : records'[p] = records[p]
      /\ records'[n + 1] = label
      BY <1>1, <1>2, <1>3, <1>4
<1>6. LabelsTyped'
  <2>1. LabelsOf(records)'
        BY <1>5 DEF LabelsOf
  <2>2. LabelsOf(saved.labels)'
        BY <1>1, <1>4 DEF LabelsOf, NoLabels
  <2>. QED  BY <1>1, <1>4, <1>5, <2>1, <2>2 DEF LabelsTyped
<1>7. Genuine(records)'
  <2>. SUFFICES ASSUME NEW p \in 1..n+1, ~records'[p].fallback_triggered
                PROVE  <<p, records'[p].safe>> \in answered'
       BY <1>5 DEF Genuine, Completed
  <2>1. CASE p = n + 1
        BY <1>4, <1>5, <2>1
  <2>2. CASE p # n + 1
    <3>1. p \in 1..n /\ DOMAIN records = 1..n
          BY <1>1, <1>5, <2>2
    <3>. QED  BY <1>4, <1>5, <3>1 DEF EInv, Labelled, LabelsInv, Genuine, Completed
  <2>. QED  BY <2>1, <2>2
<1>8. Genuine(saved.labels)' /\ Genuine(last)'
      BY <1>1, <1>4 DEF Genuine, Completed, NoLabels
<1>9. Place' /\ Owed' /\ Written' /\ Wanted'
      BY <1>1, <1>4, <1>5 DEF EInv, Labelled, LabelsInv, Place, Owed, Written, Wanted
<1>10. JudgeSound'
      BY JudgeReturnSound DEF EInv, Labelled, JudgeReturn
<1>. QED  BY <1>1, <1>4, <1>5, <1>6, <1>7, <1>8, <1>9, <1>10 DEF Labelled, LabelsInv

--------------------------------------------------------------------------------
LEMMA EInit == EvaluationInit => EInv
<1>. SUFFICES ASSUME EvaluationInit PROVE EInv
     OBVIOUS
<1>1. setup \in Setups /\ setup \in SetupRecords /\ setup.engine \in BOOLEAN
      BY EvaluationAssumption DEF EvaluationInit, SetupRecords
<1>2. dataset \in Seq(Pairs) /\ Len(dataset) \in Nat /\ (~setup.engine => dataset = << >>)
  <2>1. /\ dataset \in (IF stage = "feedback" THEN Datasets ELSE {<< >>})
        /\ ~setup.engine => stage # "feedback"
        BY DEF EvaluationInit
  <2>2. CASE stage = "feedback"
        BY <2>1, <2>2, EvaluationAssumption
  <2>3. CASE stage # "feedback"
    <3>1. dataset = << >>
          BY <2>1, <2>3
    <3>. QED  BY <3>1
  <2>. QED  BY <2>2, <2>3
<1>3. LabelsInv
      BY <1>2, InitKeeps DEF EvaluationInit
<1>4. LabelsTyped
      BY <1>2, NothingTyped DEF EvaluationInit, LabelInit, LabelsTyped
<1>5. JudgeSound
      BY FallbackForbids DEF EvaluationInit, JudgeInit, JudgeSound
<1>6. EvalTypes
  <2>1. RateUnit \div 2 \in 0..RateUnit
        BY DEF RateUnit
  <2>2. pair \in Pairs
        BY EvaluationAssumption DEF EvaluationInit
  <2>. QED  BY <1>1, <2>1, <2>2 DEF EvaluationInit, EvalTypes
<1>7. Collecting
      BY <1>1, <1>2 DEF EvaluationInit, LabelInit, Collecting, NoLabels
<1>8. Calibrated /\ Closed /\ FailClosed
      BY <1>1 DEF EvaluationInit, Calibrated, Closed, FailClosed
<1>. QED  BY <1>3, <1>4, <1>5, <1>6, <1>7, <1>8 DEF EInv, Labelled

LEMMA ENext == EInv /\ [EvaluationNext]_evaluationVars => EInv'
<1>. SUFFICES ASSUME EInv, [EvaluationNext]_evaluationVars PROVE EInv'
     OBVIOUS
<1>0. Labelled /\ setup \in SetupRecords /\ pair \in Pairs
      BY EvaluationAssumption DEF EInv, EvalTypes
<1>1. ASSUME LabelNext, UNCHANGED evalVars, stage \in {"feedback", "retry"}
      PROVE  EInv'
  <2>1. Labelled'
        BY <1>0, <1>1, NextKeeps, LabelNextTyped, LabelNextSound DEF Labelled
  <2>. QED  BY <1>1, <2>1, BackendStays, ElsewhereKeeps
<1>2. CASE Labelling \/ Retrying
      BY <1>1, <1>2 DEF Labelling, Retrying
<1>3. CASE JudgeAnswering
  <2>1. UNCHANGED backend /\ UNCHANGED <<evalVars, labelVars>>
        BY <1>3, BackendStays DEF JudgeAnswering
  <2>2. Labelled'
        BY <1>0, <1>3, <2>1, StutterKeeps, TypedStays, JudgeNextSound DEF JudgeAnswering, Labelled
  <2>. QED  BY <2>1, <2>2, ElsewhereKeeps
<1>4. CASE UNCHANGED evaluationVars
  <2>1. UNCHANGED backend /\ UNCHANGED <<evalVars, labelVars>> /\ UNCHANGED <<labelVars, judgeVars>>
        BY <1>4 DEF evaluationVars, judgeVars
  <2>2. Labelled'
        BY <1>0, <2>1, LabelledStays
  <2>. QED  BY <2>1, <2>2, ElsewhereKeeps
<1>5. CASE Calibrate
  <2>1. /\ stage = "feedback" /\ lstate = "idle" /\ stage' = "next"
        /\ feedback' = Benchmark \o GenuineFeedback
        /\ engine' = FitWithFeedbackSweep(feedback')
        /\ UNCHANGED <<setup, pair, history, row, lstate, backend>>
        /\ UNCHANGED <<labelVars, judgeVars>>
        BY <1>5 DEF Calibrate, countVars, labelVars, judgeVars
  <2>2. Labelled'
        BY <1>0, <2>1, LabelledStays
  <2>3. setup.engine
        BY <2>1 DEF EInv, Collecting
  <2>4. feedback' \in Seq(PairRecords)
    <3>1. Benchmark \in Seq(PairRecords)
          BY EvaluationAssumption
    <3>2. GenuineFeedback \in Seq(PairRecords)
          BY <1>0, GenuineFeedbackType DEF Labelled
    <3>. QED  BY <2>1, <3>1, <3>2
  <2>5. EvalTypes' /\ Closed' /\ FailClosed'
        BY <2>1 DEF EInv, EvalTypes, Closed, FailClosed, JudgeIsProduction
  <2>6. Calibrated' /\ Collecting'
        BY <2>1, <2>3, <2>4 DEF Calibrated, Collecting
  <2>. QED  BY <2>2, <2>5, <2>6 DEF EInv
<1>6. ASSUME NEW p \in Pairs, DatasetInvalid \/ NoApiKey \/ NextPair(p)
      PROVE  EInv'
  <2>1. /\ stage = "next" /\ stage' \in {"raised", "deciding"} /\ pair' \in {pair, p}
        /\ UNCHANGED <<setup, feedback, engine, history, row, backend>>
        /\ UNCHANGED <<labelVars, judgeVars>> /\ UNCHANGED labelVars
        BY <1>6 DEF DatasetInvalid, NoApiKey, NextPair, countVars, judgeVars
  <2>2. Labelled' /\ Closed'
        BY <1>0, <2>1, LabelledStays DEF Closed
  <2>. QED  BY <1>0, <2>1, <2>2, DecisionKeeps
<1>7. CASE Decide
  <2>1. /\ stage = "deciding" /\ stage' = "tracking"
        /\ UNCHANGED <<setup, feedback, engine, history, row, backend, pair>>
        /\ UNCHANGED <<labelVars, judgeVars>> /\ UNCHANGED labelVars
        BY <1>7 DEF Decide, countVars, judgeVars
  <2>2. TierOf(pair)' = TierOf(pair) /\ (JudgeNeeded' <=> JudgeNeeded)
        BY <2>1 DEF TierOf, LookupOf, JudgeNeeded, JudgeIsProduction
  <2>3. TierOf(pair) = "AMBIGUOUS" /\ JudgeNeeded => ~predicted'
        BY <1>0, <1>7 DEF Decide, JudgeNeeded, JudgeIsProduction, StepDecides, EngineDecided, SetupRecords
  <2>4. Labelled' /\ Closed'
        BY <1>0, <2>1, <2>2, <2>3, LabelledStays DEF Closed
  <2>. QED  BY <1>0, <2>1, <2>4, DecisionKeeps
<1>8. CASE AskForStep \/ AskForTracking
  <2>1. /\ stage \in {"deciding", "tracking"}
        /\ stage' = IF stage = "deciding" THEN "step_asks" ELSE "tracking_asks"
        /\ UNCHANGED <<setup, feedback, engine, history, row, backend, pair, predicted, approval>>
        /\ JudgeStart /\ UNCHANGED labelVars
        BY <1>8 DEF AskForStep, AskForTracking, countVars, JudgeStart
  <2>2. TierOf(pair)' = TierOf(pair) /\ (JudgeNeeded' <=> JudgeNeeded)
        BY <2>1 DEF TierOf, LookupOf, JudgeNeeded, JudgeIsProduction
  <2>3. Closed'
        BY <2>1, <2>2 DEF EInv, Closed
  <2>4. Labelled'
        BY <1>0, <2>1, StutterKeeps, TypedStays, JudgeStartSound DEF Labelled
  <2>. QED  BY <1>0, <2>1, <2>3, <2>4, DecisionKeeps
<1>9. ASSUME NEW c \in JudgeConfidences, StepJudged(c)
      PROVE  EInv'
  <2>1. /\ stage = "step_asks" /\ stage' = "tracking" /\ predicted' = BlendedReuse(pair, c)
        /\ approval' = JudgeApproved
        /\ UNCHANGED <<setup, feedback, engine, history, row, backend, pair>>
        /\ JudgeReturn /\ UNCHANGED labelVars
        BY <1>9 DEF StepJudged, countVars, JudgeReturn
  <2>2. TierOf(pair)' = TierOf(pair) /\ (JudgeNeeded' <=> JudgeNeeded)
        BY <2>1 DEF TierOf, LookupOf, JudgeNeeded, JudgeIsProduction
  <2>3. ASSUME ~JudgeSaysReuse, TierOf(pair) = "AMBIGUOUS" PROVE ~predicted'
    <3>1. JudgeScore(c) = 0
          BY <2>3 DEF JudgeScore
    <3>2. Combined(pair) \in Int /\ Combined(pair) < One
          BY <2>3, CombinedBelowOne DEF EInv
    <3>3. One \in Int /\ 0 * (One \div 100) = 0
          BY DEF One, RateUnit
    <3>4. BlendedReuse(pair, c) <=> 0 + Combined(pair) >= One
          BY <3>1, <3>3 DEF BlendedReuse, StepDecision, DecisionResult
    <3>5. ~BlendedReuse(pair, c)
          BY <3>2, <3>3, <3>4
    <3>. QED  BY <2>1, <3>5
  <2>6. JudgeSaysReuse => approval'
        BY <1>0, <2>1, SafeIsApproved DEF Labelled
  <2>4. Closed'
        BY <2>1, <2>2, <2>3, <2>6 DEF Closed
  <2>5. Labelled'
        BY <1>0, <2>1, StutterKeeps, TypedStays, JudgeReturnSound DEF Labelled, JudgeReturn
  <2>. QED  BY <1>0, <2>1, <2>4, <2>5, DecisionKeeps
<1>10. CASE Track
  <2>1. /\ stage = "tracking" /\ UNCHANGED <<labelVars, judgeVars>> /\ UNCHANGED backend
        /\ Tally(predicted, TierOf(pair) = "AUTO_REUSE", FALSE)
        BY <1>10 DEF Track, judgeVars
  <2>2. Labelled'
        BY <1>0, <2>1, LabelledStays
  <2>3. stage' = "next" /\ UNCHANGED setup
        BY <2>1 DEF Tally
  <2>4. Collecting'
        BY <2>1, <2>3 DEF EInv, Collecting, labelVars
  <2>5. TierOf(pair) = "AMBIGUOUS" /\ JudgeNeeded /\ predicted => approval'
        BY <1>10, <2>1 DEF EInv, Closed, Track
  <2>. QED  BY <2>1, <2>2, <2>4, <2>5, TallyKeeps
<1>11. CASE TrackJudged
  <2>1. /\ stage = "tracking_asks" /\ JudgeReturn /\ UNCHANGED backend
        /\ predicted' = IF JudgeIsProduction THEN JudgeSaysReuse ELSE predicted
        /\ approval' = IF JudgeIsProduction THEN JudgeApproved ELSE approval
        /\ Tally(predicted', JudgeSaysReuse, TRUE)
        /\ IF JudgeIsProduction THEN Detail ELSE UNCHANGED labelVars
        BY <1>11 DEF TrackJudged, JudgeReturn
  <2>2. stage' = "next" /\ UNCHANGED setup
        BY <2>1 DEF Tally
  <2>3. TierOf(pair) = "AMBIGUOUS" /\ JudgeNeeded /\ predicted' => approval'
    <3>1. CASE JudgeIsProduction
      <4>1. predicted' = JudgeSaysReuse /\ approval' = JudgeApproved
            BY <2>1, <3>1
      <4>. QED  BY <1>0, <4>1, SafeIsApproved DEF Labelled
    <3>2. CASE ~JudgeIsProduction
      <4>1. predicted' = predicted /\ approval' = approval
            BY <2>1, <3>2
      <4>2. TierOf(pair) = "AMBIGUOUS" /\ JudgeNeeded /\ predicted => approval
            BY <2>1 DEF EInv, Closed
      <4>. QED  BY <4>1, <4>2, Zenon
    <3>. QED  BY <3>1, <3>2
  <2>5. CASE JudgeIsProduction
    <3>1. /\ Labelled' /\ lstate' = "idle" /\ ~setup.engine
          /\ records' \in Seq(Label) /\ Len(records') = Len(dataset')
          /\ UNCHANGED <<saved, last>>
          BY <2>1, <2>5, DetailKeeps DEF JudgeIsProduction
    <3>2. Collecting'
          BY <2>1, <2>2, <3>1 DEF EInv, Collecting
    <3>. QED  BY <2>1, <2>3, <3>1, <3>2, TallyKeeps
  <2>6. CASE ~JudgeIsProduction
    <3>1. UNCHANGED labelVars
          BY <2>1, <2>6
    <3>2. Labelled'
          BY <1>0, <2>1, <3>1, StutterKeeps, TypedStays, JudgeReturnSound DEF Labelled, JudgeReturn
    <3>3. Collecting'
          BY <2>1, <2>2, <3>1 DEF EInv, Collecting, labelVars
    <3>. QED  BY <2>1, <2>3, <3>2, <3>3, TallyKeeps
  <2>. QED  BY <2>5, <2>6
<1>12. CASE SaveCalls
  <2>1. /\ stage = "next" /\ stage' = "retry" /\ lstate' = "closing"
        /\ UNCHANGED <<setup, feedback, engine, history, row, backend, pair, predicted>>
        /\ UNCHANGED <<dataset, records, position, attempts, saved, last, answered>>
        /\ UNCHANGED judgeVars
        BY <1>12 DEF SaveCalls, countVars, judgeVars
  <2>2. ~setup.engine /\ last = NoLabels /\ lstate = "idle"
        BY <1>12, <2>1 DEF SaveCalls, JudgeIsProduction, EInv, Collecting
  <2>3. LabelsInv'
        BY <2>1, <2>2 DEF EInv, Labelled, LabelsInv, Place, LabelStates, Owed, Written, Wanted,
                          Genuine, Completed, NoLabels
  <2>4. LabelsTyped' /\ JudgeSound'
        BY <2>1, <2>2 DEF EInv, Labelled, LabelsTyped, LabelsOf, JudgeSound, judgeVars
  <2>5. EvalTypes' /\ Calibrated' /\ Closed' /\ FailClosed' /\ Collecting'
        BY <2>1, <2>2 DEF EInv, EvalTypes, Calibrated, Closed, FailClosed, Collecting, JudgeIsProduction
  <2>. QED  BY <2>3, <2>4, <2>5 DEF EInv, Labelled
<1>13. CASE (\E d \in Domains : ProcessSubforum(d)) \/ FitSubforums
  <2>1. /\ stage = "subforums" /\ stage' \in {"subforums", "raised", "saved"}
        /\ UNCHANGED <<setup, history, row, backend, pair>>
        /\ UNCHANGED <<labelVars, judgeVars>> /\ UNCHANGED labelVars
        BY <1>13 DEF ProcessSubforum, FitSubforums, countVars, judgeVars
  <2>2. feedback \in Seq(PairRecords) /\ engine = << >>
        BY <2>1 DEF EInv, Calibrated
  <2>3. Calibrated'
    <3>1. CASE UNCHANGED <<feedback, engine>>
          BY <2>2, <3>1 DEF Calibrated
    <3>2. ASSUME NEW d \in Domains, NEW pairs \in BuildLabeledPairs(d),
                 feedback' = feedback \o pairs, UNCHANGED engine
          PROVE  Calibrated'
      <4>1. pairs \in Seq(PairRecords)
            BY LabeledPairsType
      <4>. QED  BY <2>2, <3>2, <4>1 DEF Calibrated
    <3>3. CASE FitSubforums
          BY <2>2, <3>3 DEF FitSubforums, Calibrated
    <3>. QED  BY <1>13, <3>1, <3>2, <3>3 DEF ProcessSubforum
  <2>4. Labelled' /\ Closed'
        BY <1>0, <2>1, LabelledStays DEF Closed
  <2>5. EvalTypes' /\ FailClosed' /\ Collecting'
        BY <2>1 DEF EInv, EvalTypes, FailClosed, Collecting, JudgeIsProduction, labelVars
  <2>. QED  BY <2>3, <2>4, <2>5 DEF EInv
<1>. QED  BY <1>0, <1>2, <1>3, <1>4, <1>5, <1>6, <1>7, <1>8, <1>9, <1>10, <1>11, <1>12, <1>13 DEF EvaluationNext

THEOREM EvaluationInvariant == EvaluationSpec => []EInv
BY EInit, ENext, PTL DEF EvaluationSpec

\* The same of the labels of an evaluation and of the feedback of one.
THEOREM LabelsStayKept == EvaluationSpec => []LabelsKept
<1>1. EInv => LabelsKept
      BY DEF EInv, Labelled, LabelsInv, Owed, Written, Genuine, LabelsKept
<1>. QED  BY <1>1, EvaluationInvariant, PTL

\* An ambiguous pair that only the judge can let pass is reused on the model's own
\* answer for that pair and on nothing else: no judge that is unavailable, fails,
\* is blocked or cannot be understood makes a reuse, whatever similarity,
\* confidence and history say (judge of judge_call.py, JudgeDecisionStep.decide,
\* LLMJudge.__call__ and evaluate of decision_evaluator.py).
THEOREM FailsClosed == EvaluationSpec => []FailClosed
<1>1. EInv => FailClosed
      BY DEF EInv
<1>. QED  BY <1>1, EvaluationInvariant, PTL

\* A threshold that was swept clears the ceiling on its feedback and is the
\* lowest of the sweep that does, it and a fitted one meet both gates, and every
\* other category falls back (fit_with_feedback_sweep, fit, get_threshold).
THEOREM OperatingPointsClear == EvaluationSpec => []OperatingPointClears
<1>1. ASSUME EInv PROVE OperatingPointClears
  <2>1. CASE engine = << >>
        BY <2>1 DEF OperatingPointClears
  <2>2. CASE feedback \in Seq(PairRecords) /\ (engine = FitWithFeedbackSweep(feedback) \/ engine \in Fits(feedback))
    <3>1. \A d \in DOMAIN engine : DomainClears(d)
          BY <2>2, SweepClears, LogisticClears
    <3>. QED  BY <3>1 DEF DomainClears, OperatingPointClears
  <2>. QED  BY <1>1, <2>1, <2>2 DEF EInv, Calibrated
<1>. QED  BY <1>1, EvaluationInvariant, PTL

--------------------------------------------------------------------------------
(* Sums over the pairs.  FoldFunction adds up the values of a function in  *)
(* some order, which depends on its domain only: two functions on the same *)
(* pairs are compared pair by pair.                                        *)

FirstOf(s) == CHOOSE x \in s : TRUE

\* g holds the sums of f over the sets of pairs, by the first pair of each.
Unfolds(g, f) ==
    g = [s \in SUBSET DOMAIN f |-> IF s = {} THEN 0 ELSE f[FirstOf(s)] + g[s \ {FirstOf(s)}]]

Sums(f) == CHOOSE g : Unfolds(g, f)

LEMMA SumUnfolds ==
    ASSUME NEW f
    PROVE  FoldFunction(+, 0, f) = Sums(f)[DOMAIN f]
BY DEF FoldFunction, FoldFunctionOnSet, MapThenFoldSet, FirstOf, Unfolds, Sums

\* Sets of pairs are finite, and one pair is taken off at a time.
LEMMA PairSets ==
    ASSUME NEW s \in SUBSET Pairs
    PROVE  /\ IsFiniteSet(s) /\ Cardinality(s) \in Nat
           /\ s # {} => /\ FirstOf(s) \in s
                        /\ s \ {FirstOf(s)} \in SUBSET Pairs
                        /\ Cardinality(s \ {FirstOf(s)}) = Cardinality(s) - 1
                        /\ Cardinality(s) # 0
<1>1. IsFiniteSet(s) /\ Cardinality(s) \in Nat
      BY EvaluationAssumption, FS_Subset, FS_CardinalityType
<1>2. ASSUME s # {}
      PROVE  FirstOf(s) \in s /\ Cardinality(s \ {FirstOf(s)}) = Cardinality(s) - 1 /\ Cardinality(s) # 0
  <2>1. FirstOf(s) \in s
        BY <1>2 DEF FirstOf
  <2>2. Cardinality(s \ {FirstOf(s)}) = Cardinality(s) - 1
        BY <1>1, <2>1, FS_RemoveElement
  <2>3. Cardinality(s) # 0
        BY <1>1, <1>2, FS_EmptySet
  <2>. QED  BY <2>1, <2>2, <2>3
<1>. QED  BY <1>1, <1>2

LEMMA SmallestSet ==
    ASSUME NEW B \in SUBSET SUBSET Pairs, B # {}
    PROVE  \E s \in B : \A t \in B : Cardinality(s) <= Cardinality(t)
<1>. DEFINE sizes == {Cardinality(s) : s \in B}
<1>1. sizes \in SUBSET Nat /\ sizes # {}
      BY PairSets
<1>. HIDE DEF sizes
<1>2. PICK n \in sizes : \A m \in sizes : n <= m
      BY <1>1, LeastNumber
<1>. QED  BY <1>2 DEF sizes

\* The sums exist: those over sets of up to n pairs, for every n.
LEMMA SumsExist ==
    ASSUME NEW f, DOMAIN f \in SUBSET Pairs
    PROVE  \E g : Unfolds(g, f)
<1>. DEFINE D == DOMAIN f
            Step(g, s) == IF s = {} THEN 0 ELSE f[FirstOf(s)] + g[s \ {FirstOf(s)}]
            UpTo(g, n) == /\ g = [s \in SUBSET D |-> g[s]]
                          /\ \A s \in SUBSET D : Cardinality(s) <= n => g[s] = Step(g, s)
            Stuck == {n \in Nat : ~\E g : UpTo(g, n)}
<1>0. \A s \in SUBSET D : /\ Cardinality(s) \in Nat
                          /\ s # {} => /\ FirstOf(s) \in s /\ s \ {FirstOf(s)} \in SUBSET D
                                       /\ Cardinality(s \ {FirstOf(s)}) = Cardinality(s) - 1
                                       /\ Cardinality(s) # 0
      BY PairSets
<1>. HIDE DEF D
<1>1. ASSUME Stuck # {} PROVE FALSE
  <2>1. PICK n \in Stuck : \A m \in Stuck : n <= m
    <3>1. Stuck \in SUBSET Nat
          OBVIOUS
    <3>. HIDE DEF Stuck
    <3>. QED  BY <1>1, <3>1, LeastNumber
  <2>2. CASE n = 0
    <3>. DEFINE g == [s \in SUBSET D |-> 0]
    <3>1. g = [s \in SUBSET D |-> g[s]]
          OBVIOUS
    <3>2. ASSUME NEW s \in SUBSET D, Cardinality(s) <= 0 PROVE g[s] = Step(g, s)
      <4>1. Cardinality(s) \in Nat /\ (s # {} => Cardinality(s) # 0)
            BY <1>0
      <4>2. s = {}
            BY <3>2, <4>1
      <4>. QED  BY <4>2
    <3>. HIDE DEF g
    <3>3. UpTo(g, 0)
          BY <3>1, <3>2
    <3>. QED  BY <2>1, <2>2, <3>3
  <2>3. CASE n # 0
    <3>1. n - 1 \in Nat /\ ~(n <= n - 1) /\ n - 1 \notin Stuck
      <4>1. n \in Nat
            BY <2>1
      <4>. HIDE DEF Stuck
      <4>. QED  BY <2>1, <2>3, <4>1
    <3>2. PICK g : UpTo(g, n - 1)
          BY <3>1
    <3>. DEFINE h == [s \in SUBSET D |-> IF Cardinality(s) <= n - 1 THEN g[s] ELSE Step(g, s)]
    <3>3. h = [s \in SUBSET D |-> h[s]]
          OBVIOUS
    <3>4. \A s \in SUBSET D : h[s] = IF Cardinality(s) <= n - 1 THEN g[s] ELSE Step(g, s)
          OBVIOUS
    <3>. HIDE DEF h
    <3>5. ASSUME NEW s \in SUBSET D, Cardinality(s) <= n PROVE h[s] = Step(h, s)
      <4>1. CASE s = {}
        <5>1. Cardinality({}) = 0
              BY FS_EmptySet
        <5>. QED  BY <3>1, <3>2, <3>4, <4>1, <5>1
      <4>2. CASE s # {}
        <5>. DEFINE r == s \ {FirstOf(s)}
        <5>1. r \in SUBSET D /\ Cardinality(r) = Cardinality(s) - 1 /\ Cardinality(s) \in Nat
              BY <1>0, <4>2
        <5>. HIDE DEF r
        <5>2. Cardinality(r) <= n - 1
              BY <2>1, <3>5, <5>1
        <5>3. h[r] = g[r]
              BY <3>4, <5>1, <5>2
        <5>4. h[s] = Step(g, s)
              BY <3>2, <3>4
        <5>. QED  BY <4>2, <5>3, <5>4 DEF r
      <4>. QED  BY <4>1, <4>2
    <3>6. UpTo(h, n)
          BY <3>3, <3>5
    <3>. QED  BY <2>1, <3>6
  <2>. QED  BY <2>2, <2>3
<1>2. IsFiniteSet(D) /\ Cardinality(D) \in Nat
      BY PairSets DEF D
<1>3. PICK g : UpTo(g, Cardinality(D))
      BY <1>1, <1>2
<1>4. \A s \in SUBSET D : Cardinality(s) <= Cardinality(D)
      BY <1>2, FS_Subset
<1>5. g = [s \in SUBSET D |-> Step(g, s)]
      BY <1>3, <1>4
<1>. QED  BY <1>5 DEF Unfolds, D

LEMMA SumsAre ==
    ASSUME NEW f, DOMAIN f \in SUBSET Pairs
    PROVE  /\ Sums(f)[{}] = 0
           /\ \A s \in SUBSET DOMAIN f :
                 s # {} => Sums(f)[s] = f[FirstOf(s)] + Sums(f)[s \ {FirstOf(s)}]
<1>1. Unfolds(Sums(f), f)
      BY SumsExist DEF Sums
<1>. DEFINE g == Sums(f)
<1>. HIDE DEF g
<1>2. g = [s \in SUBSET DOMAIN f |-> IF s = {} THEN 0 ELSE f[FirstOf(s)] + g[s \ {FirstOf(s)}]]
      BY <1>1 DEF g, Unfolds
<1>3. {} \in SUBSET DOMAIN f
      OBVIOUS
<1>4. g[{}] = 0
      BY <1>2, <1>3
<1>5. \A s \in SUBSET DOMAIN f : s # {} => g[s] = f[FirstOf(s)] + g[s \ {FirstOf(s)}]
      BY <1>2
<1>. QED  BY <1>4, <1>5 DEF g

\* A sum of numbers is a number, and one of zeros is zero.
LEMMA SumType ==
    ASSUME NEW D \in SUBSET Pairs, NEW f \in [D -> Nat]
    PROVE  /\ \A s \in SUBSET D : Sums(f)[s] \in Nat
           /\ (\A p \in D : f[p] = 0) => \A s \in SUBSET D : Sums(f)[s] = 0
<1>. DEFINE g == Sums(f)
            Good(s) == g[s] \in Nat /\ ((\A p \in D : f[p] = 0) => g[s] = 0)
            Bad == {s \in SUBSET D : ~Good(s)}
<1>1. g[{}] = 0 /\ \A s \in SUBSET D : s # {} => g[s] = f[FirstOf(s)] + g[s \ {FirstOf(s)}]
      BY SumsAre
<1>. HIDE DEF g
<1>2. ASSUME Bad # {} PROVE FALSE
  <2>1. PICK s \in Bad : \A t \in Bad : Cardinality(s) <= Cardinality(t)
    <3>1. Bad \in SUBSET SUBSET Pairs
          OBVIOUS
    <3>. HIDE DEF Bad
    <3>. QED  BY <1>2, <3>1, SmallestSet
  <2>2. s \in SUBSET D /\ s # {}
    <3>1. Good({})
          BY <1>1
    <3>2. s \in SUBSET D /\ ~Good(s)
          BY <2>1
    <3>. HIDE DEF Good
    <3>. QED  BY <3>1, <3>2
  <2>. DEFINE r == s \ {FirstOf(s)}
  <2>3. /\ FirstOf(s) \in D /\ r \in SUBSET D
        /\ Cardinality(r) = Cardinality(s) - 1 /\ Cardinality(s) \in Nat
        BY <2>2, PairSets
  <2>4. g[s] = f[FirstOf(s)] + g[r]
        BY <1>1, <2>2
  <2>. HIDE DEF r
  <2>5. Good(r)
    <3>1. ~(Cardinality(s) <= Cardinality(r))
          BY <2>3
    <3>. HIDE DEF Good
    <3>. QED  BY <2>1, <2>3, <3>1
  <2>6. f[FirstOf(s)] \in Nat
        BY <2>3
  <2>7. Good(s)
        BY <2>3, <2>4, <2>5, <2>6
  <2>. QED  BY <2>1, <2>7
<1>3. \A s \in SUBSET D : Good(s)
  <2>. HIDE DEF Good
  <2>. QED  BY <1>2
<1>. QED  BY <1>3 DEF g

\* One more of one pair is one more in the sum.
LEMMA SumGrows ==
    ASSUME NEW D \in SUBSET Pairs, NEW f \in [D -> Nat], NEW h \in [D -> Nat], NEW p \in D,
           h[p] = f[p] + 1, \A q \in D \ {p} : h[q] = f[q]
    PROVE  \A s \in SUBSET D : Sums(h)[s] = Sums(f)[s] + (IF p \in s THEN 1 ELSE 0)
<1>. DEFINE F == Sums(f)
            H == Sums(h)
            Good(s) == H[s] = F[s] + (IF p \in s THEN 1 ELSE 0)
            Bad == {s \in SUBSET D : ~Good(s)}
<1>1. F[{}] = 0 /\ \A s \in SUBSET D : s # {} => F[s] = f[FirstOf(s)] + F[s \ {FirstOf(s)}]
      BY SumsAre
<1>2. H[{}] = 0 /\ \A s \in SUBSET D : s # {} => H[s] = h[FirstOf(s)] + H[s \ {FirstOf(s)}]
      BY SumsAre
<1>3. \A s \in SUBSET D : F[s] \in Nat /\ H[s] \in Nat
      BY SumType
<1>. HIDE DEF F, H
<1>4. ASSUME Bad # {} PROVE FALSE
  <2>1. PICK s \in Bad : \A t \in Bad : Cardinality(s) <= Cardinality(t)
    <3>1. Bad \in SUBSET SUBSET Pairs
          OBVIOUS
    <3>. HIDE DEF Bad
    <3>. QED  BY <1>4, <3>1, SmallestSet
  <2>2. s \in SUBSET D /\ s # {}
    <3>1. Good({})
          BY <1>1, <1>2
    <3>2. s \in SUBSET D /\ ~Good(s)
          BY <2>1
    <3>. HIDE DEF Good
    <3>. QED  BY <3>1, <3>2
  <2>. DEFINE r == s \ {FirstOf(s)}
              x == FirstOf(s)
  <2>3. /\ x \in D /\ x \in s /\ r \in SUBSET D /\ r = s \ {x}
        /\ Cardinality(r) = Cardinality(s) - 1 /\ Cardinality(s) \in Nat
        BY <2>2, PairSets
  <2>4. F[s] = f[x] + F[r] /\ H[s] = h[x] + H[r]
        BY <1>1, <1>2, <2>2
  <2>. HIDE DEF r, x
  <2>5. Good(r)
    <3>1. ~(Cardinality(s) <= Cardinality(r))
          BY <2>3
    <3>. HIDE DEF Good
    <3>. QED  BY <2>1, <2>3, <3>1
  <2>6. f[x] \in Nat /\ h[x] \in Nat /\ F[r] \in Nat /\ H[r] \in Nat
        BY <1>3, <2>3
  <2>7. CASE x = p
    <3>1. p \in s /\ p \notin r
          BY <2>3, <2>7
    <3>. QED  BY <2>1, <2>4, <2>5, <2>6, <2>7, <3>1
  <2>8. CASE x # p
    <3>1. (p \in s <=> p \in r) /\ h[x] = f[x]
          BY <2>3, <2>8
    <3>. QED  BY <2>1, <2>4, <2>5, <2>6, <3>1
  <2>. QED  BY <2>7, <2>8
<1>5. \A s \in SUBSET D : Good(s)
  <2>. HIDE DEF Good
  <2>. QED  BY <1>4
<1>. QED  BY <1>5 DEF F, H
--------------------------------------------------------------------------------
(* The report.  The matrices are compared cell by cell as the pairs are    *)
(* counted, and the calls of the judge are followed into the file where    *)
(* they are asked again.                                                   *)

CountTypes ==
    /\ matrix \in [Matrices -> [Cells -> Nat]]
    /\ calls \in Nat /\ mismatches \in Nat
    /\ counted \in [Pairs -> Nat]

\* What the router has decided is what is predicted.
RouterObeyed ==
    /\ predicted \in BOOLEAN
    /\ stage = "tracking" => /\ TierOf(pair) = "AUTO_REUSE" => predicted
                             /\ TierOf(pair) = "BYPASS" => ~predicted
    /\ stage \in {"step_asks", "tracking_asks"} => TierOf(pair) = "AMBIGUOUS"
    /\ stage \in {"tracking_asks", "retry"} => JudgeEvaluated
    /\ ~setup.engine => program = "retry"
    /\ stage = "retry" => JudgeIsProduction

SafeIn(m) == matrix[m].tp + matrix[m].fn

TiersAgree ==
    /\ \A c \in Cells : matrix["overall"][c] = SumOfTiers(c)
    /\ matrix["AUTO_REUSE"].fn = 0 /\ matrix["AUTO_REUSE"].tn = 0
    /\ matrix["BYPASS"].tp = 0 /\ matrix["BYPASS"].fp = 0
    /\ matrix["trivial"].tp = matrix["AUTO_REUSE"].tp
    /\ matrix["trivial"].fp = matrix["AUTO_REUSE"].fp

TotalsAgree ==
    /\ \A m \in {"overall", "phase2", "trivial"} : Total(m) = Evaluated /\ SafeIn(m) = NSafe
    /\ \A c \in Cells : matrix["phase2"][c] = CountOf(c, reference)
    /\ reference <= DEFAULT_BOUNDARIES.auto_sim => mismatches = 0

\* The judge agrees with the router outside the ambiguous tier.
JudgeAgrees ==
    JudgeEvaluated =>
        /\ Total("judge") = Evaluated /\ SafeIn("judge") = NSafe
        /\ Total("judge_ambiguous") = calls /\ Total("AMBIGUOUS") = calls
        /\ SafeIn("judge_ambiguous") = SafeIn("AMBIGUOUS")
        /\ matrix["judge"].tp = matrix["AUTO_REUSE"].tp + matrix["judge_ambiguous"].tp
        /\ matrix["judge"].fp = matrix["AUTO_REUSE"].fp + matrix["judge_ambiguous"].fp

\* The calls of the judge, as they are or as they are asked again: one for each
\* ambiguous pair, with all the reuses it was counted with.
OfOutcome(labels, c) == {p \in 1..Len(dataset) : Outcome(labels[p].safe, dataset[p].safe) = c}
CallsOf(labels) ==
    /\ DOMAIN labels = 1..Len(dataset)
    /\ \A p \in 1..Len(dataset) : labels[p].fallback_triggered => ~labels[p].safe
    /\ Cardinality(OfOutcome(labels, "tp")) >= matrix["judge_ambiguous"].tp
    /\ Cardinality(OfOutcome(labels, "fp")) >= matrix["judge_ambiguous"].fp

CallsAreKept ==
    JudgeIsProduction =>
        /\ Len(dataset) = calls
        /\ Cardinality({p \in 1..Len(dataset) : dataset[p].safe}) = SafeIn("judge_ambiguous")
        /\ stage # "retry" \/ lstate # "idle" => CallsOf(records)
        /\ stage = "retry" /\ saved.readable /\ saved.labels # NoLabels => CallsOf(saved.labels)

Reconciled == CountTypes /\ RouterObeyed /\ TiersAgree /\ TotalsAgree /\ JudgeAgrees /\ CallsAreKept

--------------------------------------------------------------------------------
\* What is counted of the pairs, by their outcome at a threshold.
PairsOf(c, t) == {x \in Pairs : Outcome(x.score >= t, x.safe) = c}

LEMMA CountsAre ==
    /\ Evaluated = Sums(counted)[DOMAIN counted]
    /\ \A c \in Cells, t \in Int :
          CountOf(c, t) = Sums([p \in PairsOf(c, t) |-> counted[p]])[PairsOf(c, t)]
<1>1. Evaluated = Sums(counted)[DOMAIN counted]
      BY SumUnfolds DEF Evaluated
<1>2. ASSUME NEW c \in Cells, NEW t \in Int
      PROVE  CountOf(c, t) = Sums([p \in PairsOf(c, t) |-> counted[p]])[PairsOf(c, t)]
  <2>. DEFINE f == [p \in PairsOf(c, t) |-> counted[p]]
  <2>1. CountOf(c, t) = FoldFunction(+, 0, f)
        BY DEF CountOf, PairsOf
  <2>2. DOMAIN f = PairsOf(c, t)
        OBVIOUS
  <2>. HIDE DEF f
  <2>3. FoldFunction(+, 0, f) = Sums(f)[DOMAIN f]
        BY SumUnfolds
  <2>. QED  BY <2>1, <2>2, <2>3 DEF f
<1>. QED  BY <1>1, <1>2

\* The sums of the next state are those of what is counted then.
LEMMA NextEvaluated ==
    ASSUME NEW h, h = counted'
    PROVE  Evaluated' = Sums(h)[DOMAIN h]
BY DEF Evaluated, FoldFunction, FoldFunctionOnSet, MapThenFoldSet, FirstOf, Unfolds, Sums

LEMMA NextCount ==
    ASSUME NEW h, h = counted', NEW c \in Cells
    PROVE  CountOf(c, reference)' =
               Sums([p \in PairsOf(c, reference) |-> h[p]])[PairsOf(c, reference)]
<1>. DEFINE D == PairsOf(c, reference)
            f == [p \in D |-> h[p]]
<1>1. CountOf(c, reference)' = Sums(f)[DOMAIN f]
      BY DEF CountOf, PairsOf, FoldFunction, FoldFunctionOnSet, MapThenFoldSet, FirstOf, Unfolds, Sums
<1>2. DOMAIN f = D
      OBVIOUS
<1>. HIDE DEF D, f
<1>3. CountOf(c, reference)' = Sums(f)[D]
      BY <1>1, <1>2
<1>. QED  BY <1>3 DEF D, f

LEMMA CountsStay ==
    ASSUME UNCHANGED counted
    PROVE  Evaluated' = Evaluated /\ \A c \in Cells : CountOf(c, reference)' = CountOf(c, reference)
<1>. PICK h : h = counted' /\ h = counted
     OBVIOUS
<1>1. reference \in Int
      BY EvaluationAssumption
<1>. QED  BY <1>1, CountsAre, NextEvaluated, NextCount

\* The sums are numbers, and zero before anything is counted.
LEMMA CountedNow ==
    ASSUME CountTypes
    PROVE  /\ Evaluated \in Nat
           /\ \A c \in Cells : CountOf(c, reference) \in Nat
           /\ counted = [p \in Pairs |-> 0] =>
                 Evaluated = 0 /\ \A c \in Cells : CountOf(c, reference) = 0
<1>0. counted \in [Pairs -> Nat] /\ reference \in Int
      BY EvaluationAssumption DEF CountTypes
<1>1. Evaluated \in Nat /\ (counted = [p \in Pairs |-> 0] => Evaluated = 0)
  <2>1. DOMAIN counted = Pairs /\ Pairs \in SUBSET Pairs /\ Pairs \in SUBSET Pairs
        BY <1>0
  <2>2. Sums(counted)[Pairs] \in Nat
        BY <1>0, <2>1, SumType
  <2>3. ASSUME \A p \in Pairs : counted[p] = 0 PROVE Sums(counted)[Pairs] = 0
        BY <1>0, <2>1, <2>3, SumType
  <2>4. counted = [p \in Pairs |-> 0] => \A p \in Pairs : counted[p] = 0
        OBVIOUS
  <2>. QED  BY <2>1, <2>2, <2>3, <2>4, CountsAre
<1>2. ASSUME NEW c \in Cells
      PROVE  /\ CountOf(c, reference) \in Nat
             /\ counted = [p \in Pairs |-> 0] => CountOf(c, reference) = 0
  <2>. DEFINE D == PairsOf(c, reference)
              f == [p \in D |-> counted[p]]
  <2>1. D \in SUBSET Pairs
        BY DEF PairsOf
  <2>2. CountOf(c, reference) = Sums(f)[D]
        BY <1>0, CountsAre
  <2>. HIDE DEF D
  <2>3. f \in [D -> Nat] /\ \A p \in D : f[p] = counted[p]
        BY <1>0, <2>1
  <2>4. counted = [p \in Pairs |-> 0] => \A p \in D : f[p] = 0
        BY <2>1
  <2>. HIDE DEF f
  <2>5. Sums(f)[D] \in Nat
        BY <2>1, <2>3, SumType
  <2>6. ASSUME \A p \in D : f[p] = 0 PROVE Sums(f)[D] = 0
        BY <2>1, <2>3, <2>6, SumType
  <2>. QED  BY <2>2, <2>4, <2>5, <2>6
<1>. QED  BY <1>1, <1>2

\* A pair is counted once in every sum it belongs to.
LEMMA SumsGrow ==
    ASSUME NEW f \in [Pairs -> Nat], NEW h \in [Pairs -> Nat], NEW x \in Pairs,
           h[x] = f[x] + 1, \A q \in Pairs \ {x} : h[q] = f[q],
           NEW D \in SUBSET Pairs
    PROVE  Sums([p \in D |-> h[p]])[D] = Sums([p \in D |-> f[p]])[D] + (IF x \in D THEN 1 ELSE 0)
<1>. DEFINE a == [p \in D |-> f[p]]
            b == [p \in D |-> h[p]]
<1>1. /\ a \in [D -> Nat] /\ b \in [D -> Nat]
      /\ \A p \in D : a[p] = f[p] /\ b[p] = h[p]
      OBVIOUS
<1>. HIDE DEF a, b
<1>2. CASE x \in D
  <2>1. b[x] = a[x] + 1 /\ \A q \in D \ {x} : b[q] = a[q]
        BY <1>1, <1>2
  <2>2. \A s \in SUBSET D : Sums(b)[s] = Sums(a)[s] + (IF x \in s THEN 1 ELSE 0)
        BY <1>1, <1>2, <2>1, SumGrows
  <2>3. D \in SUBSET D
        OBVIOUS
  <2>4. Sums(b)[D] = Sums(a)[D] + 1
        BY <1>2, <2>2, <2>3
  <2>. QED  BY <1>2, <2>4 DEF a, b
<1>3. CASE x \notin D
  <2>1. b = a
        BY <1>1, <1>3
  <2>2. Sums(a)[D] \in Nat
        BY <1>1, SumType
  <2>3. Sums(b)[D] = Sums(a)[D] + 0
        BY <2>1, <2>2
  <2>. QED  BY <1>3, <2>3 DEF a, b
<1>. QED  BY <1>2, <1>3

LEMMA CountsGrow ==
    ASSUME NEW f \in [Pairs -> Nat], NEW h \in [Pairs -> Nat], NEW x \in Pairs,
           f = counted, h = counted', h[x] = f[x] + 1, \A q \in Pairs \ {x} : h[q] = f[q]
    PROVE  /\ Evaluated' = Evaluated + 1
           /\ \A c \in Cells :
                 CountOf(c, reference)' =
                     CountOf(c, reference) + (IF Outcome(x.score >= reference, x.safe) = c THEN 1 ELSE 0)
<1>1. reference \in Int
      BY EvaluationAssumption
<1>2. ASSUME NEW D \in SUBSET Pairs
      PROVE  Sums([p \in D |-> h[p]])[D] = Sums([p \in D |-> f[p]])[D] + (IF x \in D THEN 1 ELSE 0)
      BY SumsGrow
<1>3. Evaluated' = Evaluated + 1
  <2>1. Evaluated = Sums(f)[DOMAIN f]
        BY CountsAre
  <2>2. Evaluated' = Sums(h)[DOMAIN h]
        BY NextEvaluated
  <2>3. f = [p \in Pairs |-> f[p]] /\ h = [p \in Pairs |-> h[p]] /\ DOMAIN f = Pairs /\ DOMAIN h = Pairs
        OBVIOUS
  <2>4. Sums([p \in Pairs |-> h[p]])[Pairs] = Sums([p \in Pairs |-> f[p]])[Pairs] + 1
        BY <1>2
  <2>. QED  BY <2>1, <2>2, <2>3, <2>4
<1>4. ASSUME NEW c \in Cells
      PROVE  CountOf(c, reference)' =
                 CountOf(c, reference) + (IF Outcome(x.score >= reference, x.safe) = c THEN 1 ELSE 0)
  <2>1. CountOf(c, reference) = Sums([p \in PairsOf(c, reference) |-> f[p]])[PairsOf(c, reference)]
        BY <1>1, CountsAre
  <2>2. CountOf(c, reference)' = Sums([p \in PairsOf(c, reference) |-> h[p]])[PairsOf(c, reference)]
        BY NextCount
  <2>3. PairsOf(c, reference) \in SUBSET Pairs
        BY DEF PairsOf
  <2>4. x \in PairsOf(c, reference) <=> Outcome(x.score >= reference, x.safe) = c
        BY DEF PairsOf
  <2>. QED  BY <1>2, <2>1, <2>2, <2>3, <2>4
<1>. QED  BY <1>3, <1>4

LEMMA CountedOnce ==
    ASSUME CountTypes, pair \in Pairs, counted' = [counted EXCEPT ![pair] = @ + 1]
    PROVE  /\ Evaluated' = Evaluated + 1
           /\ \A c \in Cells :
                 CountOf(c, reference)' =
                     CountOf(c, reference) + (IF Outcome(pair.score >= reference, pair.safe) = c THEN 1 ELSE 0)
<1>1. PICK f \in [Pairs -> Nat], h \in [Pairs -> Nat], x \in Pairs :
          /\ f = counted /\ h = counted' /\ x = pair
          /\ h[x] = f[x] + 1 /\ \A q \in Pairs \ {x} : h[q] = f[q]
      BY DEF CountTypes
<1>. QED  BY <1>1, CountsGrow

--------------------------------------------------------------------------------
\* What a pair adds to a cell.
Adds(hit, c) == IF Outcome(hit, pair.safe) = c THEN 1 ELSE 0

LEMMA Tallied ==
    ASSUME CountTypes, pair \in Pairs, NEW hit \in BOOLEAN, NEW judgeHit \in BOOLEAN, NEW asked \in BOOLEAN,
           Tally(hit, judgeHit, asked)
    PROVE  /\ CountTypes'
           /\ TierOf(pair) \in Tiers
           /\ \A c \in Cells :
                 /\ matrix'["overall"][c] = matrix["overall"][c] + Adds(hit, c)
                 /\ \A t \in Tiers : matrix'[t][c] = matrix[t][c] + (IF t = TierOf(pair) THEN Adds(hit, c) ELSE 0)
                 /\ matrix'["phase2"][c] = matrix["phase2"][c] + Adds(pair.score >= reference, c)
                 /\ matrix'["trivial"][c] = matrix["trivial"][c] + Adds(TierOf(pair) = "AUTO_REUSE", c)
                 /\ matrix'["judge"][c] = matrix["judge"][c] + (IF JudgeEvaluated THEN Adds(judgeHit, c) ELSE 0)
                 /\ matrix'["judge_ambiguous"][c] =
                        matrix["judge_ambiguous"][c] + (IF asked THEN Adds(judgeHit, c) ELSE 0)
<1>. DEFINE tier == TierOf(pair)
            phase2 == pair.score >= reference
            auto == tier = "AUTO_REUSE"
            Step(m) == IF m = "overall" \/ m = tier THEN Count(matrix[m], hit)
                       ELSE IF m = "phase2" THEN Count(matrix[m], phase2)
                       ELSE IF m = "trivial" THEN Count(matrix[m], auto)
                       ELSE IF m = "judge" /\ JudgeEvaluated THEN Count(matrix[m], judgeHit)
                       ELSE IF m = "judge_ambiguous" /\ asked THEN Count(matrix[m], judgeHit)
                       ELSE matrix[m]
<1>0. matrix \in [Matrices -> [Cells -> Nat]] /\ pair.safe \in BOOLEAN /\ pair.score \in Int /\ reference \in Int
  <2>1. pair \in PairRecords /\ reference \in 0..100
        BY EvaluationAssumption
  <2>2. pair.safe \in BOOLEAN /\ pair.score \in Int
        BY <2>1 DEF PairRecords
  <2>. QED  BY <2>1, <2>2 DEF CountTypes
<1>1. tier \in Tiers
      BY DEF TierOf, Route, Tiers
<1>2. \A m \in Matrices : matrix'[m] = Step(m)
  <2>1. LookupOf(pair).hit <=> phase2
        BY DEF LookupOf
  <2>. HIDE DEF tier, phase2, auto
  <2>. QED  BY <1>0, <1>1, <2>1 DEF Tally, Matrices, Tiers, tier, auto
<1>3. DOMAIN matrix' = Matrices
      BY <1>0 DEF Tally
<1>4. \A h \in BOOLEAN : Outcome(h, pair.safe) \in Cells
      BY <1>0 DEF Outcome, Cells
<1>5. ASSUME NEW m \in Matrices, NEW h \in BOOLEAN
      PROVE  /\ Count(matrix[m], h) \in [Cells -> Nat]
             /\ \A c \in Cells : Count(matrix[m], h)[c] = matrix[m][c] + Adds(h, c)
      BY <1>0, <1>4 DEF Count, Adds
<1>6. phase2 \in BOOLEAN /\ auto \in BOOLEAN
      OBVIOUS
<1>. HIDE DEF tier, phase2, auto
<1>7. ASSUME NEW m \in Matrices
      PROVE  /\ matrix'[m] \in [Cells -> Nat]
             /\ \A c \in Cells :
                   matrix'[m][c] = matrix[m][c] +
                       (IF m = "overall" \/ m = tier THEN Adds(hit, c)
                        ELSE IF m = "phase2" THEN Adds(phase2, c)
                        ELSE IF m = "trivial" THEN Adds(auto, c)
                        ELSE IF m = "judge" /\ JudgeEvaluated THEN Adds(judgeHit, c)
                        ELSE IF m = "judge_ambiguous" /\ asked THEN Adds(judgeHit, c)
                        ELSE 0)
  <2>1. matrix'[m] = Step(m) /\ matrix[m] \in [Cells -> Nat]
        BY <1>0, <1>2
  <2>2. \A c \in Cells : matrix[m][c] \in Nat /\ matrix[m][c] = matrix[m][c] + 0
        BY <2>1
  <2>3. CASE m = "overall" \/ m = tier
        BY <1>5, <2>1, <2>3
  <2>4. CASE ~(m = "overall" \/ m = tier)
        BY <1>5, <1>6, <2>1, <2>2, <2>4
  <2>. QED  BY <2>3, <2>4
<1>8. CountTypes'
  <2>1. matrix' \in [Matrices -> [Cells -> Nat]]
    <3>1. matrix' = [m \in Matrices |-> matrix'[m]]
          BY <1>0, <1>3 DEF Tally
    <3>. QED  BY <1>7, <3>1
  <2>2. calls' \in Nat /\ mismatches' \in Nat /\ counted' \in [Pairs -> Nat]
        BY DEF CountTypes, Tally
  <2>. QED  BY <2>1, <2>2 DEF CountTypes
<1>9. Matrices = {"overall", "phase2", "trivial", "judge", "judge_ambiguous"} \cup Tiers
      /\ Tiers = {"AUTO_REUSE", "AMBIGUOUS", "BYPASS"}
      BY DEF Matrices, Tiers
<1>10. ASSUME NEW c \in Cells
       PROVE  /\ matrix'["overall"][c] = matrix["overall"][c] + Adds(hit, c)
              /\ matrix'["phase2"][c] = matrix["phase2"][c] + Adds(phase2, c)
              /\ matrix'["trivial"][c] = matrix["trivial"][c] + Adds(auto, c)
              /\ matrix'["judge"][c] = matrix["judge"][c] + (IF JudgeEvaluated THEN Adds(judgeHit, c) ELSE 0)
              /\ matrix'["judge_ambiguous"][c] =
                     matrix["judge_ambiguous"][c] + (IF asked THEN Adds(judgeHit, c) ELSE 0)
       BY <1>1, <1>7, <1>9
<1>11. ASSUME NEW c \in Cells, NEW t \in Tiers
       PROVE  matrix'[t][c] = matrix[t][c] + (IF t = tier THEN Adds(hit, c) ELSE 0)
       BY <1>1, <1>7, <1>9
<1>. QED  BY <1>1, <1>8, <1>10, <1>11 DEF tier, phase2, auto

\* The outcome is one of the four, and one of two for a pair that is safe.
LEMMA AddsOne ==
    ASSUME pair \in Pairs, NEW hit \in BOOLEAN
    PROVE  /\ \A c \in Cells : Adds(hit, c) \in 0..1
           /\ Adds(hit, "tp") = (IF hit /\ pair.safe THEN 1 ELSE 0)
           /\ Adds(hit, "fp") = (IF hit /\ ~pair.safe THEN 1 ELSE 0)
           /\ Adds(hit, "fn") = (IF ~hit /\ pair.safe THEN 1 ELSE 0)
           /\ Adds(hit, "tn") = (IF ~hit /\ ~pair.safe THEN 1 ELSE 0)
<1>1. pair.safe \in BOOLEAN
      BY EvaluationAssumption DEF PairRecords
<1>. QED  BY <1>1 DEF Adds, Outcome

CountsAgree == CountTypes /\ TiersAgree /\ TotalsAgree /\ JudgeAgrees

LEMMA CellsAreCounts ==
    ASSUME CountTypes
    PROVE  \A m \in Matrices, c \in Cells : matrix[m][c] \in Nat
BY DEF CountTypes

LEMMA TallyAgrees ==
    ASSUME CountsAgree, EvalTypes, NEW hit \in BOOLEAN, NEW judgeHit \in BOOLEAN, NEW asked \in BOOLEAN,
           Tally(hit, judgeHit, asked),
           TierOf(pair) = "AUTO_REUSE" => hit /\ judgeHit /\ ~asked,
           TierOf(pair) = "BYPASS" => ~hit /\ ~judgeHit /\ ~asked,
           TierOf(pair) = "AMBIGUOUS" => (asked <=> JudgeEvaluated)
    PROVE  CountsAgree'
<1>. DEFINE tier == TierOf(pair)
            phase2 == pair.score >= reference
            auto == tier = "AUTO_REUSE"
            judging == JudgeEvaluated
<1>0. pair \in Pairs /\ pair \in PairRecords /\ setup \in SetupRecords
      BY EvaluationAssumption DEF EvalTypes
<1>1. /\ CountTypes' /\ tier \in Tiers
      /\ \A c \in Cells :
            /\ matrix'["overall"][c] = matrix["overall"][c] + Adds(hit, c)
            /\ \A t \in Tiers : matrix'[t][c] = matrix[t][c] + (IF t = tier THEN Adds(hit, c) ELSE 0)
            /\ matrix'["phase2"][c] = matrix["phase2"][c] + Adds(phase2, c)
            /\ matrix'["trivial"][c] = matrix["trivial"][c] + Adds(auto, c)
            /\ matrix'["judge"][c] = matrix["judge"][c] + (IF judging THEN Adds(judgeHit, c) ELSE 0)
            /\ matrix'["judge_ambiguous"][c] =
                   matrix["judge_ambiguous"][c] + (IF asked THEN Adds(judgeHit, c) ELSE 0)
      BY <1>0, Tallied DEF CountsAgree
<1>2. /\ Evaluated' = Evaluated + 1
      /\ \A c \in Cells : CountOf(c, reference)' = CountOf(c, reference) + Adds(phase2, c)
      BY <1>0, CountedOnce DEF CountsAgree, Tally, Adds
<1>3. /\ calls' = calls + (IF asked THEN 1 ELSE 0)
      /\ mismatches' = mismatches + (IF auto /\ ~phase2 THEN 1 ELSE 0)
  <2>1. LookupOf(pair).hit <=> phase2
        BY DEF LookupOf
  <2>. HIDE DEF phase2
  <2>. QED  BY <2>1 DEF Tally
<1>4. /\ \A m \in Matrices, c \in Cells : matrix[m][c] \in Nat
      /\ Evaluated \in Nat /\ calls \in Nat /\ mismatches \in Nat
      /\ \A c \in Cells : CountOf(c, reference) \in Nat
      BY CellsAreCounts, CountedNow DEF CountsAgree, CountTypes
<1>5. /\ phase2 \in BOOLEAN /\ auto \in BOOLEAN /\ judging \in BOOLEAN /\ pair.safe \in BOOLEAN
      /\ JudgeEvaluated' <=> judging
      BY <1>0 DEF SetupRecords, PairRecords, JudgeEvaluated, HasJudgeStep, Tally
<1>6. auto => /\ \A c \in Cells : Adds(auto, c) = Adds(hit, c) /\ Adds(judgeHit, c) = Adds(hit, c)
              /\ phase2 \/ reference > DEFAULT_BOUNDARIES.auto_sim
  <2>1. auto => pair.score >= DEFAULT_BOUNDARIES.auto_sim
        BY DEF TierOf, Route, MayAutoReuse, LookupOf
  <2>2. reference \in Int /\ pair.score \in Int /\ DEFAULT_BOUNDARIES.auto_sim \in Int
    <3>1. pair.score \in -100..100 /\ reference \in 0..100
          BY <1>0, EvaluationAssumption DEF PairRecords
    <3>. QED  BY <3>1 DEF DEFAULT_BOUNDARIES
  <2>3. auto => phase2 \/ reference > DEFAULT_BOUNDARIES.auto_sim
        BY <2>1, <2>2
  <2>4. auto => \A c \in Cells : Adds(auto, c) = Adds(hit, c) /\ Adds(judgeHit, c) = Adds(hit, c)
        BY DEF Adds, Outcome
  <2>. QED  BY <2>3, <2>4
<1>7. \A m \in {"AUTO_REUSE", "AMBIGUOUS", "BYPASS", "overall", "phase2", "trivial", "judge", "judge_ambiguous"},
         c \in {"tp", "fp", "fn", "tn"} : matrix[m][c] \in Nat
      BY <1>4 DEF Matrices, Tiers, Cells
<1>. HIDE DEF tier, phase2, auto, judging
<1>8. ASSUME NEW h \in BOOLEAN
      PROVE  /\ \A c \in Cells : Adds(h, c) \in 0..1
             /\ Adds(h, "tp") = (IF h /\ pair.safe THEN 1 ELSE 0)
             /\ Adds(h, "fp") = (IF h /\ ~pair.safe THEN 1 ELSE 0)
             /\ Adds(h, "fn") = (IF ~h /\ pair.safe THEN 1 ELSE 0)
             /\ Adds(h, "tn") = (IF ~h /\ ~pair.safe THEN 1 ELSE 0)
      BY <1>0, AddsOne
<1>9. Cells = {"tp", "fp", "fn", "tn"} /\ Tiers = {"AUTO_REUSE", "AMBIGUOUS", "BYPASS"}
      BY DEF Cells, Tiers
<1>10. TiersAgree'
  <2>1. TiersAgree
        BY DEF CountsAgree
  <2>2. ASSUME NEW c \in Cells
        PROVE  matrix'["overall"][c] = matrix'["AUTO_REUSE"][c] + matrix'["AMBIGUOUS"][c] + matrix'["BYPASS"][c]
    <3>1. matrix["overall"][c] = matrix["AUTO_REUSE"][c] + matrix["AMBIGUOUS"][c] + matrix["BYPASS"][c]
          BY <2>1 DEF TiersAgree, SumOfTiers
    <3>2. Adds(hit, c) \in 0..1
          BY <1>8
    <3>. QED  BY <1>1, <1>7, <1>9, <3>1, <3>2
  <2>3. matrix'["AUTO_REUSE"]["fn"] = 0 /\ matrix'["AUTO_REUSE"]["tn"] = 0
        BY <1>1, <1>7, <1>8, <1>9, <2>1 DEF TiersAgree, tier
  <2>4. matrix'["BYPASS"]["tp"] = 0 /\ matrix'["BYPASS"]["fp"] = 0
        BY <1>1, <1>7, <1>8, <1>9, <2>1 DEF TiersAgree, tier
  <2>5. ASSUME NEW c \in {"tp", "fp"} PROVE matrix'["trivial"][c] = matrix'["AUTO_REUSE"][c]
    <3>1. matrix["trivial"][c] = matrix["AUTO_REUSE"][c]
          BY <2>1 DEF TiersAgree
    <3>2. CASE auto
          BY <1>1, <1>6, <1>7, <1>9, <3>1, <3>2 DEF auto
    <3>3. CASE ~auto
      <4>1. Adds(auto, c) = 0 /\ c \in Cells /\ tier # "AUTO_REUSE"
            BY <1>5, <1>8, <1>9, <3>3 DEF auto
      <4>. QED  BY <1>1, <1>7, <1>9, <3>1, <4>1
    <3>. QED  BY <3>2, <3>3
  <2>. QED  BY <2>2, <2>3, <2>4, <2>5 DEF TiersAgree, SumOfTiers
<1>11. ASSUME NEW m \in {"overall", "phase2", "trivial", "judge", "judge_ambiguous", "AMBIGUOUS"},
              NEW h \in BOOLEAN, \A c \in Cells : matrix'[m][c] = matrix[m][c] + Adds(h, c)
       PROVE  /\ Total(m)' = Total(m) + 1 /\ Total(m) \in Nat
              /\ SafeIn(m)' = SafeIn(m) + (IF pair.safe THEN 1 ELSE 0) /\ SafeIn(m) \in Nat
  <2>1. /\ matrix'[m]["tp"] = matrix[m]["tp"] + (IF h /\ pair.safe THEN 1 ELSE 0)
        /\ matrix'[m]["fp"] = matrix[m]["fp"] + (IF h /\ ~pair.safe THEN 1 ELSE 0)
        /\ matrix'[m]["fn"] = matrix[m]["fn"] + (IF ~h /\ pair.safe THEN 1 ELSE 0)
        /\ matrix'[m]["tn"] = matrix[m]["tn"] + (IF ~h /\ ~pair.safe THEN 1 ELSE 0)
        BY <1>8, <1>9, <1>11
  <2>2. \A c \in {"tp", "fp", "fn", "tn"} : matrix[m][c] \in Nat
        BY <1>7
  <2>. QED  BY <1>5, <2>1, <2>2 DEF Total, SafeIn
<1>12. ASSUME NEW m \in {"overall", "phase2", "trivial"}
       PROVE  \E h \in BOOLEAN : \A c \in Cells : matrix'[m][c] = matrix[m][c] + Adds(h, c)
       BY <1>1, <1>5, <1>12
<1>13. TotalsAgree'
  <2>1. TotalsAgree
        BY DEF CountsAgree
  <2>2. \A m \in {"overall", "phase2", "trivial"} :
           /\ Total(m)' = Total(m) + 1 /\ Total(m) \in Nat
           /\ SafeIn(m)' = SafeIn(m) + (IF pair.safe THEN 1 ELSE 0) /\ SafeIn(m) \in Nat
        BY <1>11, <1>12
  <2>3. NSafe = SafeIn("overall") /\ NSafe' = SafeIn("overall")'
        BY DEF NSafe, SafeIn
  <2>4. \A m \in {"overall", "phase2", "trivial"} : Total(m)' = Evaluated' /\ SafeIn(m)' = NSafe'
        BY <1>2, <2>1, <2>2, <2>3 DEF TotalsAgree
  <2>5. \A c \in Cells : matrix'["phase2"][c] = CountOf(c, reference)'
        BY <1>1, <1>2, <2>1 DEF TotalsAgree
  <2>6. reference <= DEFAULT_BOUNDARIES.auto_sim => mismatches' = 0
    <3>1. reference <= DEFAULT_BOUNDARIES.auto_sim => ~(auto /\ ~phase2)
      <4>1. reference \in Int /\ DEFAULT_BOUNDARIES.auto_sim \in Int
            BY EvaluationAssumption DEF DEFAULT_BOUNDARIES
      <4>. QED  BY <1>6, <4>1
    <3>. QED  BY <1>3, <2>1, <3>1 DEF TotalsAgree
  <2>. QED  BY <2>4, <2>5, <2>6 DEF TotalsAgree
<1>14. JudgeAgrees'
  <2>. SUFFICES ASSUME judging PROVE JudgeAgrees'
       BY <1>5 DEF JudgeAgrees
  <2>0. TotalsAgree /\ (tier = "AMBIGUOUS" <=> asked)
        BY <1>1, <1>9 DEF CountsAgree, tier, judging
  <2>1. /\ Total("judge") = Evaluated /\ SafeIn("judge") = NSafe
        /\ Total("judge_ambiguous") = calls /\ Total("AMBIGUOUS") = calls
        /\ SafeIn("judge_ambiguous") = SafeIn("AMBIGUOUS")
        /\ \A c \in {"tp", "fp"} : matrix["judge"][c] = matrix["AUTO_REUSE"][c] + matrix["judge_ambiguous"][c]
        BY DEF CountsAgree, JudgeAgrees, judging
  <2>2. /\ Total("judge")' = Total("judge") + 1
        /\ SafeIn("judge")' = SafeIn("judge") + (IF pair.safe THEN 1 ELSE 0)
        BY <1>1, <1>11
  <2>3. /\ Total("overall")' = Total("overall") + 1
        /\ SafeIn("overall")' = SafeIn("overall") + (IF pair.safe THEN 1 ELSE 0)
        BY <1>11, <1>12
  <2>4. Total("judge")' = Evaluated' /\ SafeIn("judge")' = NSafe'
    <3>1. NSafe = SafeIn("overall") /\ NSafe' = SafeIn("overall")'
          BY DEF NSafe, SafeIn
    <3>. QED  BY <1>2, <2>1, <2>2, <2>3, <3>1
  <2>5. /\ Total("judge_ambiguous")' = calls' /\ Total("AMBIGUOUS")' = calls'
        /\ SafeIn("judge_ambiguous")' = SafeIn("AMBIGUOUS")'
    <3>1. CASE asked
      <4>1. /\ Total("judge_ambiguous")' = Total("judge_ambiguous") + 1
            /\ SafeIn("judge_ambiguous")' = SafeIn("judge_ambiguous") + (IF pair.safe THEN 1 ELSE 0)
            BY <1>1, <1>11, <3>1
      <4>2. /\ Total("AMBIGUOUS")' = Total("AMBIGUOUS") + 1
            /\ SafeIn("AMBIGUOUS")' = SafeIn("AMBIGUOUS") + (IF pair.safe THEN 1 ELSE 0)
            BY <1>1, <1>9, <1>11, <2>0, <3>1
      <4>. QED  BY <1>3, <2>1, <3>1, <4>1, <4>2
    <3>2. CASE ~asked
      <4>1. \A c \in Cells : /\ matrix'["judge_ambiguous"][c] = matrix["judge_ambiguous"][c]
                              /\ matrix'["AMBIGUOUS"][c] = matrix["AMBIGUOUS"][c]
            BY <1>1, <1>7, <1>9, <2>0, <3>2
      <4>2. calls' = calls
            BY <1>3, <1>4, <3>2
      <4>. QED  BY <1>9, <2>1, <4>1, <4>2 DEF Total, SafeIn
    <3>. QED  BY <3>1, <3>2
  <2>6. ASSUME NEW c \in {"tp", "fp"}
        PROVE  matrix'["judge"][c] = matrix'["AUTO_REUSE"][c] + matrix'["judge_ambiguous"][c]
    <3>1. /\ matrix["judge"][c] = matrix["AUTO_REUSE"][c] + matrix["judge_ambiguous"][c]
          /\ c \in Cells /\ Adds(hit, c) \in 0..1 /\ Adds(judgeHit, c) \in 0..1
          BY <1>8, <1>9, <2>1
    <3>2. /\ matrix'["judge"][c] = matrix["judge"][c] + Adds(judgeHit, c)
          /\ matrix'["AUTO_REUSE"][c] = matrix["AUTO_REUSE"][c] + (IF auto THEN Adds(hit, c) ELSE 0)
          /\ matrix'["judge_ambiguous"][c] = matrix["judge_ambiguous"][c] + (IF asked THEN Adds(judgeHit, c) ELSE 0)
          /\ matrix["judge"][c] \in Nat /\ matrix["AUTO_REUSE"][c] \in Nat /\ matrix["judge_ambiguous"][c] \in Nat
          BY <1>1, <1>7, <1>9, <3>1 DEF auto
    <3>3. CASE auto
      <4>1. ~asked /\ Adds(judgeHit, c) = Adds(hit, c)
            BY <1>6, <3>1, <3>3 DEF auto, tier
      <4>. QED  BY <3>1, <3>2, <3>3, <4>1
    <3>4. CASE asked
      <4>1. ~auto
            BY <2>0, <3>4 DEF auto
      <4>. QED  BY <3>1, <3>2, <3>4, <4>1
    <3>5. CASE ~auto /\ ~asked
      <4>1. ~judgeHit
            BY <1>1, <1>9, <2>0, <3>5 DEF auto, tier
      <4>2. Adds(judgeHit, c) = 0
            BY <1>8, <4>1
      <4>. QED  BY <3>1, <3>2, <3>5, <4>2
    <3>. QED  BY <3>3, <3>4, <3>5
  <2>. QED  BY <2>4, <2>5, <2>6 DEF JudgeAgrees
<1>. QED  BY <1>1, <1>10, <1>13, <1>14 DEF CountsAgree

--------------------------------------------------------------------------------
LEMMA ProgramStays == LabelNext => UNCHANGED <<program, dataset>>
BY DEF LabelNext, SessionStarts, AskLabel, LabelReturned, SessionCloses, RetryStarts,
       AskAgain, RetryReturned, RetryCloses, SaveOpens, SaveEnds, SessionCrashes, labelVars

\* A step that leaves what is predicted for the pair, or has a router's word.
LEMMA ObeyedElsewhere ==
    ASSUME RouterObeyed, UNCHANGED <<setup, program>>, predicted' \in BOOLEAN,
           stage' \in {"tracking", "step_asks", "tracking_asks"} => UNCHANGED pair,
           stage' = "tracking" => /\ TierOf(pair) = "AUTO_REUSE" => predicted'
                                  /\ TierOf(pair) = "BYPASS" => ~predicted',
           stage' \in {"step_asks", "tracking_asks"} => TierOf(pair) = "AMBIGUOUS",
           stage' \in {"tracking_asks", "retry"} => JudgeEvaluated,
           stage' = "retry" => JudgeIsProduction
    PROVE  RouterObeyed'
<1>1. UNCHANGED pair => TierOf(pair)' = TierOf(pair)
      BY DEF TierOf, LookupOf
<1>2. (JudgeEvaluated' <=> JudgeEvaluated) /\ (JudgeIsProduction' <=> JudgeIsProduction)
      BY DEF JudgeEvaluated, HasJudgeStep, JudgeIsProduction
<1>. QED  BY <1>1, <1>2 DEF RouterObeyed

LEMMA ObeyedInit == EvaluationInit => RouterObeyed
BY EvaluationAssumption DEF EvaluationInit, RouterObeyed, SetupRecords

LEMMA ObeyedNext == EInv /\ RouterObeyed /\ [EvaluationNext]_evaluationVars => RouterObeyed'
<1>. SUFFICES ASSUME EInv, RouterObeyed, [EvaluationNext]_evaluationVars PROVE RouterObeyed'
     OBVIOUS
<1>0. predicted \in BOOLEAN /\ setup \in SetupRecords
      BY EvaluationAssumption DEF RouterObeyed, EInv, EvalTypes
<1>1. CASE Labelling \/ Retrying \/ JudgeAnswering \/ UNCHANGED evaluationVars
  <2>1. UNCHANGED <<setup, program, predicted, pair, stage>>
        BY <1>1, ProgramStays DEF Labelling, Retrying, JudgeAnswering, evaluationVars, evalVars, labelVars
  <2>. QED  BY <1>0, <2>1, ObeyedElsewhere DEF RouterObeyed
<1>2. CASE Calibrate \/ (\E d \in Domains : ProcessSubforum(d)) \/ FitSubforums \/ DatasetInvalid \/ NoApiKey
           \/ (\E p \in Pairs : NextPair(p))
  <2>1. UNCHANGED <<setup, program, predicted>> /\ stage' \in {"next", "raised", "saved", "deciding", "subforums"}
        BY <1>2 DEF Calibrate, ProcessSubforum, FitSubforums, DatasetInvalid, NoApiKey, NextPair, labelVars
  <2>. QED  BY <1>0, <2>1, ObeyedElsewhere
<1>3. CASE Decide
  <2>1. predicted' \in BOOLEAN
    <3>1. WeightedReuse(pair) \in BOOLEAN
          BY Zenon DEF WeightedReuse
    <3>2. EngineDecided \in BOOLEAN
          BY DEF EngineDecided
    <3>. QED  BY <1>3, <3>1, <3>2 DEF Decide
  <2>2. /\ TierOf(pair) = "AUTO_REUSE" => predicted'
        /\ TierOf(pair) = "BYPASS" => ~predicted'
        BY <1>3 DEF Decide
  <2>3. UNCHANGED <<setup, program, pair>> /\ stage' = "tracking"
        BY <1>3 DEF Decide, labelVars
  <2>. QED  BY <2>1, <2>2, <2>3, ObeyedElsewhere
<1>4. CASE AskForStep \/ AskForTracking
  <2>1. /\ UNCHANGED <<setup, program, pair, predicted>> /\ TierOf(pair) = "AMBIGUOUS"
        /\ stage' \in {"step_asks", "tracking_asks"} /\ (stage' = "tracking_asks" => JudgeEvaluated)
        BY <1>4 DEF AskForStep, AskForTracking, labelVars
  <2>. QED  BY <1>0, <2>1, ObeyedElsewhere
<1>5. ASSUME NEW c \in JudgeConfidences, StepJudged(c) PROVE RouterObeyed'
  <2>1. /\ UNCHANGED <<setup, program, pair>> /\ stage' = "tracking" /\ TierOf(pair) = "AMBIGUOUS"
        BY <1>5 DEF StepJudged, labelVars, RouterObeyed
  <2>2. predicted' \in BOOLEAN
        BY <1>5, Zenon DEF StepJudged, BlendedReuse
  <2>. QED  BY <2>1, <2>2, ObeyedElsewhere
<1>6. CASE Track
  <2>1. UNCHANGED <<setup, program, predicted>> /\ stage' = "next"
        BY <1>6 DEF Track, Tally, labelVars
  <2>. QED  BY <1>0, <2>1, ObeyedElsewhere
<1>7. CASE TrackJudged
  <2>1. UNCHANGED <<setup, program>> /\ stage' = "next"
        BY <1>7 DEF TrackJudged, Tally, Detail, labelVars
  <2>2. predicted' \in BOOLEAN
    <3>1. JudgeSaysReuse \in BOOLEAN
          BY Zenon DEF JudgeSaysReuse
    <3>. QED  BY <1>0, <1>7, <3>1 DEF TrackJudged
  <2>. QED  BY <2>1, <2>2, ObeyedElsewhere
<1>8. CASE SaveCalls
  <2>1. UNCHANGED <<setup, program, predicted>> /\ stage' = "retry" /\ JudgeIsProduction /\ JudgeEvaluated
        BY <1>8 DEF SaveCalls
  <2>. QED  BY <1>0, <2>1, ObeyedElsewhere
<1>. QED  BY <1>1, <1>2, <1>3, <1>4, <1>5, <1>6, <1>7, <1>8 DEF EvaluationNext

--------------------------------------------------------------------------------
\* Positions of a dataset are counted one by one.
LEMMA OneMore ==
    ASSUME NEW n \in Nat, NEW A \in SUBSET (1..n), NEW B, NEW b \in BOOLEAN,
           B = IF b THEN A \cup {n + 1} ELSE A
    PROVE  Cardinality(A) \in Nat /\ Cardinality(B) = Cardinality(A) + (IF b THEN 1 ELSE 0)
<1>1. IsFiniteSet(A) /\ Cardinality(A) \in Nat
  <2>1. IsFiniteSet(1..n)
        BY FS_Interval
  <2>. QED  BY <2>1, FS_Subset, FS_CardinalityType
<1>2. n + 1 \notin A
      OBVIOUS
<1>3. Cardinality(A \cup {n + 1}) = Cardinality(A) + 1
      BY <1>1, <1>2, FS_AddElement
<1>. QED  BY <1>1, <1>3

LEMMA AtLeastAsMany ==
    ASSUME NEW n \in Nat, NEW A \in SUBSET (1..n), NEW B \in SUBSET (1..n), A \subseteq B
    PROVE  Cardinality(A) \in Nat /\ Cardinality(B) \in Nat /\ Cardinality(A) <= Cardinality(B)
<1>1. IsFiniteSet(1..n)
      BY FS_Interval
<1>2. IsFiniteSet(A) /\ IsFiniteSet(B)
      BY <1>1, FS_Subset
<1>. QED  BY <1>2, FS_Subset, FS_CardinalityType

\* The judge's answer for the pair goes with it into the details.
LEMMA DetailsKept ==
    ASSUME EInv, CountsAgree, CallsAreKept, stage = "tracking_asks", JudgeIsProduction, JudgeEvaluated,
           Detail, Tally(predicted', JudgeSaysReuse, TRUE), predicted' \in BOOLEAN
    PROVE  CallsAreKept'
<1>. DEFINE n == Len(dataset)
            said == verdict.is_safe
            label == [safe |-> said, fallback_triggered |-> verdict.fallback_triggered]
<1>1. /\ dataset \in Seq(Pairs) /\ n \in Nat /\ pair \in Pairs /\ pair \in PairRecords
      /\ records \in Seq(Label) /\ Len(records) = n /\ setup \in SetupRecords
      BY EvaluationAssumption DEF EInv, EvalTypes, Labelled, LabelsTyped, JudgeIsProduction, Collecting
<1>2. said \in BOOLEAN /\ label \in Label /\ (label.fallback_triggered => ~said)
      BY DEF EInv, Labelled, JudgeSound, JudgeResult, Label
<1>3. JudgeSaysReuse <=> said
      BY <1>2 DEF JudgeSaysReuse, JudgeDecisionResult
<1>4. /\ dataset' = Append(dataset, pair) /\ records' = Append(records, label)
      /\ UNCHANGED <<lstate, saved, setup>> /\ stage' = "next" /\ calls' = calls + 1
      BY DEF Detail, Tally
<1>5. /\ Len(dataset') = n + 1 /\ Len(records') = n + 1 /\ DOMAIN records' = 1..n+1
      /\ \A p \in 1..n : dataset'[p] = dataset[p] /\ records'[p] = records[p]
      /\ dataset'[n + 1] = pair /\ records'[n + 1] = label
      BY <1>1, <1>2, <1>4
<1>6. \A c \in Cells : matrix'["judge_ambiguous"][c] = matrix["judge_ambiguous"][c] + Adds(said, c)
  <2>1. JudgeSaysReuse = said
    <3>1. JudgeSaysReuse \in BOOLEAN
          BY Zenon DEF JudgeSaysReuse
    <3>. QED  BY <1>2, <1>3, <3>1
  <2>2. PICK h \in BOOLEAN, j \in BOOLEAN, k \in BOOLEAN : h = predicted' /\ j = said /\ k = TRUE
        BY <1>2
  <2>3. CountTypes /\ pair \in Pairs /\ Tally(h, j, k)
        BY <1>1, <2>1, <2>2 DEF CountsAgree
  <2>4. \A c \in Cells : matrix'["judge_ambiguous"][c] = matrix["judge_ambiguous"][c] + Adds(j, c)
    <3>1. \A c \in Cells : matrix'["judge_ambiguous"][c] =
                              matrix["judge_ambiguous"][c] + (IF k THEN Adds(j, c) ELSE 0)
          BY <2>3, Tallied
    <3>. QED  BY <2>2, <3>1
  <2>. QED  BY <2>2, <2>4
<1>7. CallsOf(records)
      BY DEF CallsAreKept
<1>8. \A c \in {"tp", "fp", "fn", "tn"} : matrix["judge_ambiguous"][c] \in Nat
      BY CellsAreCounts DEF CountsAgree, Matrices, Cells
<1>9. /\ pair.safe \in BOOLEAN
      /\ Adds(said, "tp") = (IF said /\ pair.safe THEN 1 ELSE 0)
      /\ Adds(said, "fp") = (IF said /\ ~pair.safe THEN 1 ELSE 0)
      /\ Adds(said, "fn") = (IF ~said /\ pair.safe THEN 1 ELSE 0)
      BY <1>1, <1>2, AddsOne DEF PairRecords
<1>. HIDE DEF label, said, n
<1>10. n \in Nat /\ n + 1 \in Nat
      BY <1>1 DEF n
<1>11. ASSUME NEW c \in {"tp", "fp"}
       PROVE  Cardinality(OfOutcome(records, c)') >= matrix'["judge_ambiguous"][c]
  <2>. DEFINE A == OfOutcome(records, c)
              B == OfOutcome(records, c)'
              b == Outcome(said, pair.safe) = c
  <2>1. A \in SUBSET (1..n)
        BY DEF OfOutcome, n
  <2>2. B = {p \in 1..n+1 : Outcome(records'[p].safe, dataset'[p].safe) = c}
        BY <1>5 DEF OfOutcome
  <2>3. A = {p \in 1..n : Outcome(records[p].safe, dataset[p].safe) = c}
        BY DEF OfOutcome, n
  <2>4. label.safe = said
        BY DEF label
  <2>5. B = IF b THEN A \cup {n + 1} ELSE A
    <3>1. \A p \in 1..n+1 : p = n + 1 \/ p \in 1..n
          BY <1>10
    <3>2. /\ \A p \in B : p = n + 1 \/ p \in A
          /\ \A p \in A : p \in B
          /\ n + 1 \in B <=> b
          BY <1>5, <1>10, <2>2, <2>3, <2>4, <3>1
    <3>. QED  BY <3>2
  <2>6. Adds(said, c) = (IF b THEN 1 ELSE 0) /\ b \in BOOLEAN
        BY DEF Adds
  <2>7. Cardinality(A) >= matrix["judge_ambiguous"][c]
        BY <1>7 DEF CallsOf
  <2>8. matrix'["judge_ambiguous"][c] = matrix["judge_ambiguous"][c] + Adds(said, c)
        BY <1>6 DEF Cells
  <2>. HIDE DEF A, B, b
  <2>9. Cardinality(A) \in Nat /\ Cardinality(B) = Cardinality(A) + (IF b THEN 1 ELSE 0)
        BY <1>10, <2>1, <2>5, <2>6, OneMore
  <2>. QED  BY <1>8, <2>6, <2>7, <2>8, <2>9 DEF B
<1>12. Cardinality({p \in 1..Len(dataset) : dataset[p].safe})' = SafeIn("judge_ambiguous")'
  <2>. DEFINE A == {p \in 1..n : dataset[p].safe}
              B == {p \in 1..n+1 : dataset'[p].safe}
  <2>1. A \in SUBSET (1..n)
        OBVIOUS
  <2>2. B = IF pair.safe THEN A \cup {n + 1} ELSE A
    <3>1. \A p \in 1..n+1 : p = n + 1 \/ p \in 1..n
          BY <1>10
    <3>2. /\ \A p \in B : p = n + 1 \/ p \in A
          /\ \A p \in A : p \in B
          /\ n + 1 \in B <=> pair.safe
          BY <1>5, <1>10, <3>1 DEF n
    <3>. HIDE DEF A, B
    <3>. QED  BY <3>2
  <2>3. Cardinality(A) = SafeIn("judge_ambiguous")
        BY DEF CallsAreKept, n
  <2>4. SafeIn("judge_ambiguous")' = SafeIn("judge_ambiguous") + (IF pair.safe THEN 1 ELSE 0)
        BY <1>2, <1>6, <1>8, <1>9 DEF SafeIn, Cells
  <2>5. Cardinality({p \in 1..Len(dataset) : dataset[p].safe})' = Cardinality(B)
        BY <1>5
  <2>. HIDE DEF A, B
  <2>6. Cardinality(A) \in Nat /\ Cardinality(B) = Cardinality(A) + (IF pair.safe THEN 1 ELSE 0)
        BY <1>9, <1>10, <2>1, <2>2, OneMore
  <2>. QED  BY <2>3, <2>4, <2>5, <2>6
<1>13. CallsOf(records)'
  <2>1. \A p \in 1..n+1 : records'[p].fallback_triggered => ~records'[p].safe
    <3>1. label.safe = said
          BY DEF label
    <3>2. ASSUME NEW p \in 1..n PROVE records'[p].fallback_triggered => ~records'[p].safe
          BY <1>5, <1>7, <3>2 DEF CallsOf, n
    <3>3. \A p \in 1..n+1 : p = n + 1 \/ p \in 1..n
          BY <1>10
    <3>. QED  BY <1>2, <1>5, <3>1, <3>2, <3>3
  <2>. QED  BY <1>5, <1>11, <2>1 DEF CallsOf
<1>14. Len(dataset') = calls'
      BY <1>4, <1>5 DEF CallsAreKept, n
<1>. QED  BY <1>4, <1>12, <1>13, <1>14 DEF CallsAreKept, JudgeIsProduction

\* An answer takes the place of a fallback, which was no reuse.
LEMMA AnswerKept ==
    ASSUME EInv, CountTypes, CallsOf(records), RecordLabel, lstate = "asking", UNCHANGED <<dataset, matrix>>
    PROVE  CallsOf(records)'
<1>. DEFINE n == Len(dataset)
            said == verdict.is_safe
            label == [safe |-> said, fallback_triggered |-> verdict.fallback_triggered]
<1>1. /\ dataset \in Seq(Pairs) /\ n \in Nat /\ position \in 1..n /\ DOMAIN records = 1..n
      /\ position \notin Completed(records)
      BY DEF EInv, Labelled, LabelsInv, Wanted, LabelsTyped, CallsOf
<1>2. label.safe = said /\ (label.fallback_triggered => ~said)
      BY DEF EInv, Labelled, JudgeSound
<1>3. records' = [p \in 1..n |-> IF p = position THEN label ELSE records[p]]
      BY <1>1 DEF RecordLabel
<1>4. ~records[position].safe
      BY <1>1 DEF Completed, CallsOf
<1>. HIDE DEF label, said
<1>5. ASSUME NEW c \in {"tp", "fp"} PROVE OfOutcome(records, c) \in SUBSET OfOutcome(records, c)'
  <2>1. Outcome(records[position].safe, dataset[position].safe) # c
        BY <1>4 DEF Outcome
  <2>. QED  BY <1>3, <2>1 DEF OfOutcome
<1>6. ASSUME NEW c \in {"tp", "fp"}
      PROVE  Cardinality(OfOutcome(records, c)') >= Cardinality(OfOutcome(records, c))
             /\ Cardinality(OfOutcome(records, c)) \in Nat /\ Cardinality(OfOutcome(records, c)') \in Nat
  <2>1. OfOutcome(records, c) \in SUBSET (1..n) /\ OfOutcome(records, c)' \in SUBSET (1..n)
        BY DEF OfOutcome
  <2>. QED  BY <1>1, <1>5, <2>1, AtLeastAsMany
<1>7. /\ DOMAIN records' = 1..Len(dataset')
      /\ \A p \in 1..n : records'[p].fallback_triggered => ~records'[p].safe
      BY <1>2, <1>3 DEF CallsOf
<1>8. \A c \in {"tp", "fp"} : matrix["judge_ambiguous"][c] \in Nat
      BY CellsAreCounts DEF Matrices, Cells
<1>9. ASSUME NEW c \in {"tp", "fp"} PROVE Cardinality(OfOutcome(records, c)') >= matrix'["judge_ambiguous"][c]
  <2>1. Cardinality(OfOutcome(records, c)) >= matrix["judge_ambiguous"][c]
        BY DEF CallsOf
  <2>. QED  BY <1>6, <1>8, <2>1
<1>. QED  BY <1>7, <1>9 DEF CallsOf

\* What the other script does to the calls in its file.
LEMMA RetryKeepsCalls ==
    ASSUME EInv, CountTypes, CallsAreKept, stage = "retry", program = "retry", LabelNext,
           UNCHANGED <<setup, stage, matrix, calls>>
    PROVE  CallsAreKept'
<1>. SUFFICES ASSUME JudgeIsProduction PROVE CallsAreKept'
     BY DEF CallsAreKept, JudgeIsProduction
<1>0. UNCHANGED dataset
      BY ProgramStays
<1>1. /\ Len(dataset)' = calls'
      /\ Cardinality({p \in 1..Len(dataset) : dataset[p].safe})' = SafeIn("judge_ambiguous")'
      BY <1>0 DEF CallsAreKept, SafeIn
<1>2. /\ lstate # "idle" => CallsOf(records)
      /\ saved.readable /\ saved.labels # NoLabels => CallsOf(saved.labels)
      BY DEF CallsAreKept
<1>3. ASSUME NEW labels, CallsOf(labels) PROVE CallsOf(labels)'
      BY <1>0, <1>3 DEF CallsOf, OfOutcome
<1>4. \/ lstate' = "idle" \/ CallsOf(records)'
  <2>1. CASE RetryStarts
    <3>1. PICK labels : labels = saved.labels
          OBVIOUS
    <3>2. CallsOf(labels)'
          BY <1>2, <1>3, <2>1, <3>1 DEF RetryStarts
    <3>. QED  BY <2>1, <3>1, <3>2 DEF RetryStarts
  <2>2. CASE UNCHANGED records /\ lstate # "idle"
    <3>1. PICK labels : labels = records
          OBVIOUS
    <3>2. CallsOf(labels)'
          BY <1>2, <1>3, <2>2, <3>1
    <3>. QED  BY <2>2, <3>1, <3>2
  <2>3. CASE RetryReturned
        BY <1>0, <1>2, <2>3, AnswerKept DEF RetryReturned
  <2>4. CASE AskAgain \/ RetryCloses \/ SaveOpens \/ (lstate = "asking" /\ JudgeNext /\ UNCHANGED labelVars)
        BY <2>2, <2>4 DEF AskAgain, RetryCloses, SaveOpens, labelVars
  <2>5. CASE SaveEnds \/ SessionCrashes
        BY <2>2, <2>5 DEF SaveEnds, SessionCrashes, SessionEnds
  <2>. QED  BY <2>1, <2>3, <2>4, <2>5 DEF LabelNext, SessionStarts, AskLabel, LabelReturned, SessionCloses
<1>5. saved'.readable /\ saved'.labels # NoLabels => CallsOf(saved.labels)'
  <2>1. CASE UNCHANGED saved
    <3>1. PICK labels : labels = saved.labels
          OBVIOUS
    <3>. QED  BY <1>2, <1>3, <2>1, <3>1
  <2>2. CASE SaveOpens
        BY <2>2 DEF SaveOpens
  <2>3. CASE SaveEnds
    <3>1. PICK labels : labels = records
          OBVIOUS
    <3>2. CallsOf(labels)'
          BY <1>2, <1>3, <2>3, <3>1 DEF SaveEnds
    <3>. QED  BY <2>3, <3>1, <3>2 DEF SaveEnds
  <2>. QED  BY <2>1, <2>2, <2>3 DEF LabelNext, SessionStarts, AskLabel, LabelReturned, SessionCloses, RetryStarts,
             AskAgain, RetryReturned, RetryCloses, SessionCrashes, labelVars
<1>. QED  BY <1>1, <1>4, <1>5 DEF CallsAreKept

\* A step elsewhere.
LEMMA CallsStay ==
    ASSUME CallsAreKept, UNCHANGED <<setup, calls>>,
           \A c \in {"tp", "fp", "fn"} : matrix'["judge_ambiguous"][c] = matrix["judge_ambiguous"][c],
           JudgeIsProduction => UNCHANGED <<dataset, records, saved>>,
           JudgeIsProduction => stage # "retry",
           stage' = "retry" /\ JudgeIsProduction => saved.labels = NoLabels
    PROVE  CallsAreKept'
<1>. SUFFICES ASSUME JudgeIsProduction PROVE CallsAreKept'
     BY DEF CallsAreKept, JudgeIsProduction
<1>1. /\ Len(dataset)' = calls'
      /\ Cardinality({p \in 1..Len(dataset) : dataset[p].safe})' = SafeIn("judge_ambiguous")'
      BY DEF CallsAreKept, SafeIn
<1>2. CallsOf(records)'
      BY DEF CallsAreKept, CallsOf, OfOutcome
<1>. QED  BY <1>1, <1>2 DEF CallsAreKept

--------------------------------------------------------------------------------
LEMMA AgreesStays ==
    ASSUME CountsAgree, UNCHANGED <<setup, matrix, calls, mismatches, counted>>
    PROVE  CountsAgree'
<1>1. CountTypes' /\ TiersAgree'
      BY DEF CountsAgree, CountTypes, TiersAgree, SumOfTiers
<1>2. Evaluated' = Evaluated /\ \A c \in Cells : CountOf(c, reference)' = CountOf(c, reference)
      BY CountsStay
<1>3. NSafe' = NSafe /\ \A m \in Matrices : Total(m)' = Total(m) /\ SafeIn(m)' = SafeIn(m)
      BY DEF NSafe, Total, SafeIn
<1>4. TotalsAgree'
      BY <1>2, <1>3 DEF CountsAgree, TotalsAgree, Total, SafeIn
<1>5. JudgeEvaluated' <=> JudgeEvaluated
      BY DEF JudgeEvaluated, HasJudgeStep
<1>6. JudgeAgrees'
      BY <1>2, <1>3, <1>5 DEF CountsAgree, JudgeAgrees, Total, SafeIn
<1>. QED  BY <1>1, <1>4, <1>6 DEF CountsAgree

LEMMA ReconciledInit == EvaluationInit => Reconciled
<1>. SUFFICES ASSUME EvaluationInit PROVE Reconciled
     OBVIOUS
<1>1. /\ matrix = Zero /\ calls = 0 /\ mismatches = 0 /\ counted = [p \in Pairs |-> 0]
      BY DEF EvaluationInit
<1>2. CountTypes
      BY <1>1 DEF CountTypes, Zero
<1>3. \A m \in Matrices, c \in Cells : matrix[m][c] = 0
      BY <1>1 DEF Zero
<1>4. \A m \in {"AUTO_REUSE", "AMBIGUOUS", "BYPASS", "overall", "phase2", "trivial", "judge", "judge_ambiguous"},
         c \in {"tp", "fp", "fn", "tn"} : matrix[m][c] = 0
      BY <1>3 DEF Matrices, Tiers, Cells
<1>5. TiersAgree
      BY <1>4 DEF TiersAgree, SumOfTiers, Cells
<1>6. Evaluated = 0 /\ \A c \in Cells : CountOf(c, reference) = 0
      BY <1>1, <1>2, CountedNow
<1>7. TotalsAgree /\ JudgeAgrees
      BY <1>1, <1>4, <1>6 DEF TotalsAgree, JudgeAgrees, Total, SafeIn, NSafe, Cells
<1>8. CallsAreKept
  <2>. SUFFICES ASSUME JudgeIsProduction PROVE CallsAreKept
       BY DEF CallsAreKept
  <2>1. dataset = << >> /\ records = << >> /\ stage = "next"
        BY DEF EvaluationInit, LabelInit, JudgeIsProduction, NoLabels
  <2>2. Len(dataset) = 0 /\ 1..Len(dataset) = {}
        BY <2>1
  <2>3. Cardinality({}) = 0
        BY FS_EmptySet
  <2>4. {p \in 1..Len(dataset) : dataset[p].safe} = {} /\ \A c : OfOutcome(records, c) = {}
        BY <2>2 DEF OfOutcome
  <2>5. CallsOf(records)
    <3>1. DOMAIN records = 1..Len(dataset)
          BY <2>1
    <3>2. \A c \in {"tp", "fp"} : Cardinality(OfOutcome(records, c)) = 0
          BY <2>3, <2>4
    <3>. QED  BY <1>4, <2>2, <3>1, <3>2 DEF CallsOf
  <2>. QED  BY <1>1, <1>4, <2>1, <2>2, <2>3, <2>4, <2>5 DEF CallsAreKept, SafeIn
<1>. QED  BY <1>2, <1>5, <1>7, <1>8, ObeyedInit DEF Reconciled

LEMMA ReconciledNext == EInv /\ Reconciled /\ [EvaluationNext]_evaluationVars => Reconciled'
<1>. SUFFICES ASSUME EInv, Reconciled, [EvaluationNext]_evaluationVars PROVE Reconciled'
     OBVIOUS
<1>0. /\ CountsAgree /\ RouterObeyed /\ CallsAreKept /\ CountTypes /\ EvalTypes
      /\ setup \in SetupRecords
      BY EvaluationAssumption DEF Reconciled, CountsAgree, EInv, EvalTypes
<1>1. RouterObeyed'
      BY <1>0, ObeyedNext
<1>2. ASSUME UNCHANGED <<setup, matrix, calls, mismatches, counted>>, CallsAreKept'
      PROVE  Reconciled'
      BY <1>0, <1>1, <1>2, AgreesStays DEF Reconciled, CountsAgree
<1>3. CASE Labelling
  <2>1. UNCHANGED <<setup, matrix, calls, mismatches, counted>> /\ ~JudgeIsProduction
        BY <1>3 DEF Labelling, evalVars, countVars, EInv, Collecting, JudgeIsProduction
  <2>. QED  BY <1>0, <1>2, <2>1 DEF CallsAreKept, JudgeIsProduction
<1>4. CASE Retrying
  <2>1. UNCHANGED <<setup, stage, matrix, calls, mismatches, counted>> /\ stage = "retry" /\ LabelNext
        BY <1>4 DEF Retrying, evalVars, countVars
  <2>2. program = "retry"
        BY <1>0, <2>1 DEF RouterObeyed, JudgeIsProduction
  <2>. QED  BY <1>0, <1>2, <2>1, <2>2, RetryKeepsCalls
<1>5. CASE JudgeAnswering \/ UNCHANGED evaluationVars
  <2>1. UNCHANGED <<setup, matrix, calls, mismatches, counted>> /\ UNCHANGED <<stage, dataset, records, saved, lstate>>
        BY <1>5 DEF JudgeAnswering, evaluationVars, evalVars, countVars, labelVars
  <2>2. CallsAreKept'
        BY <1>0, <2>1 DEF CallsAreKept, CallsOf, OfOutcome, JudgeIsProduction, SafeIn
  <2>. QED  BY <1>2, <2>1, <2>2
<1>6. CASE Calibrate \/ (\E d \in Domains : ProcessSubforum(d)) \/ FitSubforums \/ DatasetInvalid \/ NoApiKey
           \/ (\E p \in Pairs : NextPair(p)) \/ Decide \/ AskForStep \/ AskForTracking
           \/ (\E c \in JudgeConfidences : StepJudged(c))
  <2>1. UNCHANGED <<setup, matrix, calls, mismatches, counted, dataset, records, saved>>
        /\ stage # "retry" /\ stage' # "retry"
        BY <1>6 DEF Calibrate, ProcessSubforum, FitSubforums, DatasetInvalid, NoApiKey, NextPair, Decide,
                    AskForStep, AskForTracking, StepJudged, countVars, labelVars
  <2>2. CallsAreKept'
        BY <1>0, <2>1, CallsStay
  <2>. QED  BY <1>2, <2>1, <2>2
<1>7. CASE SaveCalls
  <2>1. /\ UNCHANGED <<setup, matrix, calls, mismatches, counted, dataset, records, saved>>
        /\ stage = "next" /\ JudgeIsProduction
        BY <1>7 DEF SaveCalls, countVars
  <2>2. saved.labels = NoLabels
        BY <2>1 DEF EInv, Collecting, JudgeIsProduction
  <2>3. CallsAreKept'
        BY <1>0, <2>1, <2>2, CallsStay
  <2>. QED  BY <1>2, <2>1, <2>3
<1>8. CASE Track
  <2>1. /\ stage = "tracking" /\ ~(TierOf(pair) = "AMBIGUOUS" /\ JudgeEvaluated)
        /\ Tally(predicted, TierOf(pair) = "AUTO_REUSE", FALSE) /\ UNCHANGED labelVars
        BY <1>8 DEF Track
  <2>2. PICK h \in BOOLEAN, j \in BOOLEAN, k \in BOOLEAN :
           h = predicted /\ j = (TierOf(pair) = "AUTO_REUSE") /\ k = FALSE
        BY <1>0 DEF RouterObeyed
  <2>3. Tally(h, j, k)
        BY <2>1, <2>2
  <2>4. /\ TierOf(pair) = "AUTO_REUSE" => h /\ j /\ ~k
        /\ TierOf(pair) = "BYPASS" => ~h /\ ~j /\ ~k
        /\ TierOf(pair) = "AMBIGUOUS" => (k <=> JudgeEvaluated)
        BY <1>0, <2>1, <2>2 DEF RouterObeyed
  <2>5. CountsAgree'
        BY <1>0, <2>3, <2>4, TallyAgrees
  <2>6. CallsAreKept'
    <3>1. \A c \in Cells : matrix'["judge_ambiguous"][c] =
                               matrix["judge_ambiguous"][c] + (IF k THEN Adds(j, c) ELSE 0)
          BY <1>0, <2>3, Tallied DEF EvalTypes
    <3>2. \A c \in {"tp", "fp", "fn"} : matrix["judge_ambiguous"][c] \in Nat
          BY <1>0, CellsAreCounts DEF Matrices, Cells
    <3>3. \A c \in {"tp", "fp", "fn"} : matrix'["judge_ambiguous"][c] = matrix["judge_ambiguous"][c]
          BY <2>2, <3>1, <3>2 DEF Cells
    <3>4. calls' = calls + 0 /\ calls \in Nat /\ stage' = "next" /\ UNCHANGED setup
          BY <1>0, <2>1 DEF Tally, CountTypes
    <3>5. UNCHANGED <<setup, calls, dataset, records, saved>>
          BY <2>1, <3>4 DEF labelVars
    <3>. QED  BY <1>0, <2>1, <3>3, <3>4, <3>5, CallsStay
  <2>. QED  BY <1>1, <2>5, <2>6 DEF Reconciled, CountsAgree
<1>9. CASE TrackJudged
  <2>1. /\ stage = "tracking_asks"
        /\ Tally(predicted', JudgeSaysReuse, TRUE)
        /\ JudgeIsProduction => Detail
        BY <1>9 DEF TrackJudged
  <2>2. /\ TierOf(pair) = "AMBIGUOUS" /\ JudgeEvaluated /\ predicted' \in BOOLEAN
        BY <1>0, <1>1, <2>1 DEF RouterObeyed
  <2>3. JudgeSaysReuse \in BOOLEAN
        BY Zenon DEF JudgeSaysReuse
  <2>4. PICK h \in BOOLEAN, j \in BOOLEAN, k \in BOOLEAN : h = predicted' /\ j = JudgeSaysReuse /\ k = TRUE
        BY <2>2, <2>3
  <2>5. Tally(h, j, k)
        BY <2>1, <2>4
  <2>6. /\ TierOf(pair) = "AUTO_REUSE" => h /\ j /\ ~k
        /\ TierOf(pair) = "BYPASS" => ~h /\ ~j /\ ~k
        /\ TierOf(pair) = "AMBIGUOUS" => (k <=> JudgeEvaluated)
        BY <2>2, <2>4
  <2>7. CountsAgree'
        BY <1>0, <2>5, <2>6, TallyAgrees
  <2>8. CallsAreKept'
    <3>1. CASE JudgeIsProduction
          BY <1>0, <2>1, <2>2, <3>1, DetailsKept
    <3>2. CASE ~JudgeIsProduction
      <4>1. UNCHANGED setup
            BY <2>1 DEF Tally
      <4>. QED  BY <3>2, <4>1 DEF CallsAreKept, JudgeIsProduction
    <3>. QED  BY <3>1, <3>2
  <2>. QED  BY <1>1, <2>7, <2>8 DEF Reconciled, CountsAgree
<1>. QED  BY <1>3, <1>4, <1>5, <1>6, <1>7, <1>8, <1>9 DEF EvaluationNext

--------------------------------------------------------------------------------
(* What the report prints.  Fractions are compared by cross-multiplication. *)

LEMMA Cancel ==
    ASSUME NEW a \in Nat, NEW b \in Nat, NEW n \in Nat, a <= b
    PROVE  a * n <= b * n
OBVIOUS

LEMMA SharesAtMost ==
    ASSUME NEW n \in Nat, NEW h \in Nat, NEW t \in Nat, NEW a \in Nat, h <= t + a
    PROVE  AtMost(Fraction(h, n, 0), Plus(Fraction(t, n, 0), Fraction(a, n, 0)))
<1>1. CASE n > 0
  <2>1. h * (n * n) <= (t + a) * (n * n)
    <3>1. n * n \in Nat /\ t + a \in Nat
          OBVIOUS
    <3>. QED  BY <3>1, Cancel
  <2>2. (t + a) * (n * n) = (t * n + a * n) * n
        OBVIOUS
  <2>3. h * (n * n) <= (t * n + a * n) * n
        BY <2>1, <2>2
  <2>. QED  BY <1>1, <2>3 DEF AtMost, Plus, Fraction
<1>2. CASE ~(n > 0)
      BY <1>2 DEF AtMost, Plus, Fraction
<1>. QED  BY <1>1, <1>2

LEMMA RefusalsAtMost ==
    ASSUME NEW n \in Nat, NEW a \in Nat, NEW b \in Nat, a <= b
    PROVE  AtMost(Fraction(a, n, 0), Fraction(b, n, 0))
<1>1. a * n <= b * n
      BY Cancel
<1>. QED  BY <1>1 DEF AtMost, Fraction

LEMMA TrafficIsProduct ==
    ASSUME NEW n \in Nat, NEW h \in Nat, NEW f \in Nat, f <= h, h <= n
    PROVE  SameFraction(Fraction(f, n, 0), Times(Fraction(h, n, 0), Fraction(f, h, 0)))
<1>1. CASE h > 0
  <2>1. n > 0
        BY <1>1
  <2>2. f * (n * h) = (h * f) * n
        OBVIOUS
  <2>. QED  BY <1>1, <2>1, <2>2 DEF SameFraction, Times, Fraction
<1>2. CASE h = 0
  <2>1. f = 0
        BY <1>2
  <2>. QED  BY <1>2, <2>1 DEF SameFraction, Times, Fraction
<1>. QED  BY <1>1, <1>2

\* Four outcomes, and the two of the pairs that are safe.
LEMMA OutcomesPartition ==
    ASSUME dataset \in Seq(Pairs), NEW labels, DOMAIN labels = 1..Len(dataset), LabelsOf(labels)
    PROVE  /\ \A c \in Cells : Cardinality(OfOutcome(labels, c)) \in Nat
           /\ Cardinality(OfOutcome(labels, "tp")) + Cardinality(OfOutcome(labels, "fn")) =
                  Cardinality({p \in 1..Len(dataset) : dataset[p].safe})
           /\ Cardinality(OfOutcome(labels, "tp")) + Cardinality(OfOutcome(labels, "fp"))
                  + Cardinality(OfOutcome(labels, "fn")) + Cardinality(OfOutcome(labels, "tn")) = Len(dataset)
<1>. DEFINE n == Len(dataset)
            With(c) == OfOutcome(labels, c)
            S == {p \in 1..n : dataset[p].safe}
            U == {p \in 1..n : ~dataset[p].safe}
<1>1. n \in Nat /\ IsFiniteSet(1..n) /\ Cardinality(1..n) = n
  <2>1. n \in Nat
        OBVIOUS
  <2>2. \A m \in Nat : IsFiniteSet(1..m) /\ Cardinality(1..m) = m
        BY FS_Interval
  <2>. HIDE DEF n
  <2>. QED  BY <2>1, <2>2
<1>2. \A p \in 1..n : labels[p].safe \in BOOLEAN /\ dataset[p].safe \in BOOLEAN
  <2>1. \A p \in 1..n : dataset[p] \in PairRecords /\ labels[p] \in Label
        BY EvaluationAssumption DEF LabelsOf
  <2>. QED  BY <2>1 DEF PairRecords, Label
<1>3. /\ With("tp") = {p \in 1..n : labels[p].safe /\ dataset[p].safe}
      /\ With("fp") = {p \in 1..n : labels[p].safe /\ ~dataset[p].safe}
      /\ With("fn") = {p \in 1..n : ~labels[p].safe /\ dataset[p].safe}
      /\ With("tn") = {p \in 1..n : ~labels[p].safe /\ ~dataset[p].safe}
      BY <1>2 DEF OfOutcome, Outcome
<1>4. /\ S \cup U = 1..n /\ S \cap U = {}
      /\ With("tp") \cup With("fn") = S /\ With("tp") \cap With("fn") = {}
      /\ With("fp") \cup With("tn") = U /\ With("fp") \cap With("tn") = {}
      BY <1>3
<1>5. /\ S \in SUBSET (1..n) /\ U \in SUBSET (1..n) /\ \A c \in Cells : With(c) \in SUBSET (1..n)
      BY DEF OfOutcome
<1>. HIDE DEF S, U, With
<1>6. ASSUME NEW A \in SUBSET (1..n), NEW B \in SUBSET (1..n), A \cap B = {}
      PROVE  /\ Cardinality(A) \in Nat /\ Cardinality(B) \in Nat
             /\ Cardinality(A \cup B) = Cardinality(A) + Cardinality(B)
  <2>1. IsFiniteSet(A) /\ IsFiniteSet(B)
        BY <1>1, FS_Subset
  <2>2. Cardinality(A) \in Nat /\ Cardinality(B) \in Nat
        BY <2>1, FS_CardinalityType
  <2>3. Cardinality(A \cup B) = Cardinality(A) + Cardinality(B) - Cardinality(A \cap B)
        BY <2>1, FS_Union
  <2>4. Cardinality(A \cap B) = 0
        BY <1>6, FS_EmptySet
  <2>. QED  BY <2>2, <2>3, <2>4
<1>7. {"tp", "fp", "fn", "tn"} = Cells
      BY DEF Cells
<1>8. /\ Cardinality(S) + Cardinality(U) = n
      /\ Cardinality(With("tp")) + Cardinality(With("fn")) = Cardinality(S)
      /\ Cardinality(With("fp")) + Cardinality(With("tn")) = Cardinality(U)
      BY <1>1, <1>4, <1>5, <1>6, <1>7
<1>9. \A c \in Cells : Cardinality(With(c)) \in Nat
      BY <1>1, <1>5, FS_Subset, FS_CardinalityType
<1>10. Cardinality(With("tp")) + Cardinality(With("fp")) + Cardinality(With("fn")) + Cardinality(With("tn")) = n
       BY <1>1, <1>7, <1>8, <1>9
<1>. QED  BY <1>8, <1>9, <1>10 DEF With, S, n

LEMMA ReportFollows == EInv /\ Reconciled => ReportReconciles
<1>. SUFFICES ASSUME EInv, Reconciled PROVE ReportReconciles
     OBVIOUS
<1>1. CountTypes /\ TiersAgree /\ TotalsAgree /\ JudgeAgrees /\ CallsAreKept /\ RouterObeyed
      BY DEF Reconciled
<1>2. \A m \in {"AUTO_REUSE", "AMBIGUOUS", "BYPASS", "overall", "phase2", "trivial", "judge", "judge_ambiguous"},
         c \in {"tp", "fp", "fn", "tn"} : matrix[m][c] \in Nat
      BY <1>1, CellsAreCounts DEF Matrices, Tiers, Cells
<1>3. Evaluated \in Nat /\ NSafe \in Nat /\ NSafe = SafeIn("overall") /\ Total("AMBIGUOUS") \in Nat
      BY <1>1, <1>2, CountedNow DEF NSafe, SafeIn, Total
<1>4. \A c \in {"tp", "fp", "fn", "tn"} :
         matrix["overall"][c] = matrix["AUTO_REUSE"][c] + matrix["AMBIGUOUS"][c] + matrix["BYPASS"][c]
      BY <1>1 DEF TiersAgree, SumOfTiers, Cells
<1>5. matrix["phase2"] = Evaluate(reference)
  <2>1. matrix["phase2"] \in [Cells -> Nat]
        BY <1>1 DEF CountTypes, Matrices
  <2>2. \A c \in Cells : matrix["phase2"][c] = CountOf(c, reference)
        BY <1>1 DEF TotalsAgree
  <2>. QED  BY <2>1, <2>2 DEF Evaluate
<1>6. matrix["trivial"].tp <= matrix["overall"].tp /\ matrix["trivial"].fp <= matrix["overall"].fp
      BY <1>1, <1>2, <1>4 DEF TiersAgree
<1>7. JudgeEvaluated => /\ Total("judge") = Evaluated
                        /\ Total("judge_ambiguous") = calls
                        /\ calls = Total("AMBIGUOUS")
      BY <1>1 DEF JudgeAgrees
<1>8. \A m \in {"overall", "phase2", "trivial"} :
         Total(m) = Evaluated /\ matrix[m].tp + matrix[m].fn = matrix["overall"].tp + matrix["overall"].fn
      BY <1>1 DEF TotalsAgree, SafeIn, NSafe
<1>9. /\ DecisionMetrics.auto_reuse_verbatim_verified <=> mismatches = 0
      /\ DecisionMetrics.judge_available <=> JudgeEvaluated
      /\ DecisionMetrics.ambiguous_fraction = Fraction(Total("AMBIGUOUS"), Evaluated, 0)
      /\ \A m \in {"overall", "phase2", "trivial", "judge"} : DecisionMetrics.rates[m] = Rates(m)
      BY DEF DecisionMetrics
<1>10. ASSUME NEW m \in {"overall", "judge"}, m = "judge" => JudgeEvaluated
       PROVE  /\ AtMost(Rates(m).arr, Plus(Rates("trivial").arr, DecisionMetrics.ambiguous_fraction))
              /\ AtMost(Rates(m).frr, Rates("trivial").frr)
              /\ SameFraction(Rates(m).irr_traffic, Times(Rates(m).arr, Rates(m).irr_cache))
  <2>1. /\ Total(m) = Evaluated /\ SafeIn(m) = NSafe
        /\ Total("trivial") = Evaluated /\ SafeIn("trivial") = NSafe
        BY <1>1, <1>10 DEF TotalsAgree, JudgeAgrees
  <2>2. /\ \A c \in {"tp", "fp", "fn", "tn"} : matrix[m][c] \in Nat /\ matrix["trivial"][c] \in Nat
        /\ HitCount(m) \in Nat /\ HitCount("trivial") \in Nat
        BY <1>2 DEF HitCount
  <2>3. matrix["trivial"].tp <= matrix[m].tp /\ HitCount(m) <= HitCount("trivial") + Total("AMBIGUOUS")
    <3>1. CASE m = "overall"
          BY <1>1, <1>2, <1>4, <3>1 DEF TiersAgree, HitCount, Total
    <3>2. CASE m = "judge"
      <4>1. /\ matrix["judge"].tp = matrix["AUTO_REUSE"].tp + matrix["judge_ambiguous"].tp
            /\ matrix["judge"].fp = matrix["AUTO_REUSE"].fp + matrix["judge_ambiguous"].fp
            /\ Total("judge_ambiguous") = Total("AMBIGUOUS")
            BY <1>1, <1>10, <3>2 DEF JudgeAgrees
      <4>2. HitCount("judge_ambiguous") <= Total("judge_ambiguous") /\ HitCount("judge_ambiguous") \in Nat
            BY <1>2 DEF HitCount, Total
      <4>. QED  BY <1>1, <1>2, <1>3, <3>2, <4>1, <4>2 DEF TiersAgree, HitCount
    <3>. QED  BY <3>1, <3>2
  <2>4. matrix[m].fn <= matrix["trivial"].fn
        BY <2>1, <2>2, <2>3 DEF SafeIn
  <2>5. matrix[m].fp <= HitCount(m) /\ HitCount(m) <= Evaluated
        BY <2>1, <2>2 DEF HitCount, Total
  <2>6. /\ Rates(m).arr = Fraction(HitCount(m), Evaluated, 0)
        /\ Rates("trivial").arr = Fraction(HitCount("trivial"), Evaluated, 0)
        /\ Rates(m).frr = Fraction(matrix[m].fn, NSafe, 0)
        /\ Rates("trivial").frr = Fraction(matrix["trivial"].fn, NSafe, 0)
        /\ Rates(m).irr_traffic = Fraction(matrix[m].fp, Evaluated, 0)
        /\ Rates(m).irr_cache = Fraction(matrix[m].fp, HitCount(m), 0)
        BY DEF Rates
  <2>7. AtMost(Rates(m).arr, Plus(Rates("trivial").arr, DecisionMetrics.ambiguous_fraction))
        BY <1>3, <1>9, <2>2, <2>3, <2>6, SharesAtMost
  <2>8. matrix[m].fn \in Nat /\ matrix["trivial"].fn \in Nat /\ matrix[m].fp \in Nat
        BY <2>2
  <2>9. AtMost(Rates(m).frr, Rates("trivial").frr)
        BY <1>3, <2>4, <2>6, <2>8, RefusalsAtMost
  <2>10. SameFraction(Rates(m).irr_traffic, Times(Rates(m).arr, Rates(m).irr_cache))
         BY <1>3, <2>2, <2>5, <2>6, <2>8, TrafficIsProduct
  <2>. QED  BY <2>7, <2>9, <2>10
<1>11. ASSUME stage = "retry", saved.readable, saved.labels # NoLabels,
              \A c \in Cells : RouterCounts[c] = matrix["AUTO_REUSE"][c] + matrix["BYPASS"][c]
       PROVE  /\ MergedCount = Evaluated /\ Merged.tp + Merged.fn = NSafe
              /\ Merged.tp >= matrix["judge"].tp /\ Merged.fp >= matrix["judge"].fp
  <2>1. PICK labels : labels = saved.labels
        OBVIOUS
  <2>2. JudgeIsProduction /\ JudgeEvaluated
        BY <1>1, <1>11 DEF RouterObeyed
  <2>3. /\ CallsOf(labels) /\ Len(dataset) = calls
        /\ Cardinality({p \in 1..Len(dataset) : dataset[p].safe}) = SafeIn("judge_ambiguous")
        BY <1>1, <1>11, <2>1, <2>2 DEF CallsAreKept
  <2>4. dataset \in Seq(Pairs) /\ LabelsOf(labels) /\ DOMAIN labels = 1..Len(dataset)
        BY <2>1, <2>3 DEF EInv, Labelled, LabelsTyped, CallsOf
  <2>. DEFINE N(c) == Cardinality(OfOutcome(labels, c))
  <2>5. /\ N("tp") \in Nat /\ N("fp") \in Nat /\ N("fn") \in Nat /\ N("tn") \in Nat
        /\ N("tp") + N("fn") = SafeIn("judge_ambiguous")
        /\ N("tp") + N("fp") + N("fn") + N("tn") = calls
        BY <2>3, <2>4, OutcomesPartition DEF Cells
  <2>6. N("tp") >= matrix["judge_ambiguous"].tp /\ N("fp") >= matrix["judge_ambiguous"].fp
        BY <2>3 DEF CallsOf
  <2>7. \A c \in {"tp", "fp", "fn", "tn"} : Merged[c] = matrix["AUTO_REUSE"][c] + matrix["BYPASS"][c] + N(c)
        BY <1>11, <2>1, <2>4 DEF Merged, OfOutcome, Cells
  <2>. HIDE DEF N
  <2>8. /\ matrix["judge"].tp = matrix["AUTO_REUSE"].tp + matrix["judge_ambiguous"].tp
        /\ matrix["judge"].fp = matrix["AUTO_REUSE"].fp + matrix["judge_ambiguous"].fp
        /\ SafeIn("judge_ambiguous") = SafeIn("AMBIGUOUS") /\ calls = Total("AMBIGUOUS")
        BY <1>1, <2>2 DEF JudgeAgrees
  <2>9. Merged.tp >= matrix["judge"].tp /\ Merged.fp >= matrix["judge"].fp
        BY <1>2, <2>5, <2>6, <2>7, <2>8
  <2>10. ASSUME NEW c \in {"tp", "fp", "fn", "tn"}
         PROVE  /\ Merged[c] + matrix["AMBIGUOUS"][c] = matrix["overall"][c] + N(c)
                /\ Merged[c] \in Nat /\ matrix["AMBIGUOUS"][c] \in Nat /\ matrix["overall"][c] \in Nat /\ N(c) \in Nat
         BY <1>2, <1>4, <2>5, <2>7
  <2>11. /\ matrix["AMBIGUOUS"].tp + matrix["AMBIGUOUS"].fn = N("tp") + N("fn")
         /\ matrix["AMBIGUOUS"].tp + matrix["AMBIGUOUS"].fp + matrix["AMBIGUOUS"].fn + matrix["AMBIGUOUS"].tn
                = N("tp") + N("fp") + N("fn") + N("tn")
         BY <2>5, <2>8 DEF SafeIn, Total
  <2>12. /\ matrix["overall"].tp + matrix["overall"].fn = NSafe
         /\ matrix["overall"].tp + matrix["overall"].fp + matrix["overall"].fn + matrix["overall"].tn = Evaluated
         BY <1>1, <1>3 DEF TotalsAgree, SafeIn, Total
  <2>13. \A c \in {"tp", "fp", "fn", "tn"} : \E f \in Nat, a \in Nat, o \in Nat, k \in Nat :
            /\ f = Merged[c] /\ a = matrix["AMBIGUOUS"][c] /\ o = matrix["overall"][c] /\ k = N(c)
            /\ f + a = o + k
    <3>1. TAKE c \in {"tp", "fp", "fn", "tn"}
    <3>2. /\ Merged[c] + matrix["AMBIGUOUS"][c] = matrix["overall"][c] + N(c)
          /\ Merged[c] \in Nat /\ matrix["AMBIGUOUS"][c] \in Nat /\ matrix["overall"][c] \in Nat /\ N(c) \in Nat
          BY <2>10
    <3>. QED  BY <3>2, Zenon
  <2>14. PICK f1 \in Nat, a1 \in Nat, o1 \in Nat, k1 \in Nat :
            /\ f1 = Merged.tp /\ a1 = matrix["AMBIGUOUS"].tp /\ o1 = matrix["overall"].tp /\ k1 = N("tp")
            /\ f1 + a1 = o1 + k1
         BY <2>13
  <2>15. PICK f2 \in Nat, a2 \in Nat, o2 \in Nat, k2 \in Nat :
            /\ f2 = Merged.fn /\ a2 = matrix["AMBIGUOUS"].fn /\ o2 = matrix["overall"].fn /\ k2 = N("fn")
            /\ f2 + a2 = o2 + k2
         BY <2>13
  <2>16. PICK f3 \in Nat, a3 \in Nat, o3 \in Nat, k3 \in Nat :
            /\ f3 = Merged.fp /\ a3 = matrix["AMBIGUOUS"].fp /\ o3 = matrix["overall"].fp /\ k3 = N("fp")
            /\ f3 + a3 = o3 + k3
         BY <2>13
  <2>17. PICK f4 \in Nat, a4 \in Nat, o4 \in Nat, k4 \in Nat :
            /\ f4 = Merged.tn /\ a4 = matrix["AMBIGUOUS"].tn /\ o4 = matrix["overall"].tn /\ k4 = N("tn")
            /\ f4 + a4 = o4 + k4
         BY <2>13
  <2>18. /\ a1 + a2 = k1 + k2 /\ a1 + a3 + a2 + a4 = k1 + k3 + k2 + k4
         /\ o1 + o2 = NSafe /\ o1 + o3 + o2 + o4 = Evaluated
         BY <2>11, <2>12, <2>14, <2>15, <2>16, <2>17
  <2>19. f1 + f2 = NSafe /\ f1 + f3 + f2 + f4 = Evaluated
    <3>1. f1 + a1 = o1 + k1 /\ f2 + a2 = o2 + k2 /\ f3 + a3 = o3 + k3 /\ f4 + a4 = o4 + k4
          BY <2>14, <2>15, <2>16, <2>17
    <3>. QED  BY <2>18, <3>1
  <2>20. Merged.tp + Merged.fn = NSafe /\ MergedCount = Evaluated
         BY <2>14, <2>15, <2>16, <2>17, <2>19 DEF MergedCount
  <2>. QED  BY <2>9, <2>20
<1>12. LET rate == DecisionMetrics.rates
           deciders == {"overall"} \cup (IF DecisionMetrics.judge_available THEN {"judge"} ELSE {})
       IN \A m \in deciders :
             /\ AtMost(rate[m].arr, Plus(rate["trivial"].arr, DecisionMetrics.ambiguous_fraction))
             /\ AtMost(rate[m].frr, rate["trivial"].frr)
             /\ SameFraction(rate[m].irr_traffic, Times(rate[m].arr, rate[m].irr_cache))
       BY <1>9, <1>10
<1>13. reference <= DEFAULT_BOUNDARIES.auto_sim => DecisionMetrics.auto_reuse_verbatim_verified
       BY <1>1, <1>9 DEF TotalsAgree
<1>14. /\ \A c \in Cells : matrix["overall"][c] = SumOfTiers(c)
       /\ matrix["AUTO_REUSE"].fn = 0 /\ matrix["AUTO_REUSE"].tn = 0
       /\ matrix["BYPASS"].tp = 0 /\ matrix["BYPASS"].fp = 0
       BY <1>1 DEF TiersAgree
<1>. QED  BY <1>5, <1>6, <1>7, <1>8, <1>11, <1>12, <1>13, <1>14 DEF ReportReconciles

\* The report reconciles, whatever is evaluated with whatever, and whatever is
\* asked again (DecisionEvaluator.evaluate, retry_fallback_batch): of the counts
\* the matrices share, of the rates that are derived from them, and of what is
\* merged when fallbacks are retried.
THEOREM ReportStaysReconciled == EvaluationSpec => []ReportReconciles
<1>1. EvaluationInit => EInv /\ Reconciled
      BY EInit, ReconciledInit
<1>2. EInv /\ Reconciled /\ [EvaluationNext]_evaluationVars => (EInv /\ Reconciled)'
      BY ENext, ReconciledNext
<1>. QED  BY <1>1, <1>2, ReportFollows, PTL DEF EvaluationSpec

--------------------------------------------------------------------------------
(* The pilot.  A reservation is what counts: its row is written before the *)
(* call is sent, stays for good, and keeps its time.                       *)

Points == {"stopped", "running", "reserving", "reserved", "sent", "blocking"}

\* JournalTypeOK, but for blocked_until.
JournalTypes ==
    /\ clock \in 0..MaxClock
    /\ journal \in [Runs -> [Ordinals -> Row \cup {NoRow}]]
    /\ pc \in [Processes -> Points]
    /\ run \in [Processes -> Runs \cup {NoRun}]
    /\ ordinal \in [Processes -> 0..Calls]
    /\ now \in [Processes -> 0..MaxClock]
    /\ sent \in [Runs -> [Ordinals -> Nat]]

\* A process that runs has a run, and one in a call has its number.
Placed ==
    \A p \in Processes :
        /\ pc[p] # "stopped" => run[p] \in Runs
        /\ pc[p] \in {"reserving", "reserved", "sent", "blocking"} => ordinal[p] \in Ordinals

\* Who has reserved and not yet sent is the only one, and was not preceded.
Reservers == {p \in Processes : pc[p] = "reserved"}

Exclusive ==
    /\ \A p \in Reservers :
          MyRow(p) # NoRow /\ sent[run[p]][ordinal[p]] = 0
    /\ \A p, q \in Reservers : run[p] = run[q] /\ ordinal[p] = ordinal[q] => p = q

JournalInv == JournalTypes /\ Placed /\ Exclusive /\ SentOnce /\ QuotasKept

--------------------------------------------------------------------------------
\* Days do not overlap.
LEMMA Days ==
    ASSUME NEW t \in Nat, NEW n \in Nat, n \in Midnight(t)..(Midnight(t) + DayLength - 1)
    PROVE  Midnight(t) = Midnight(n)
<1>1. DayLength \in Nat /\ DayLength > 0
      BY JournalAssumption
<1>. QED  BY <1>1 DEF Midnight

LEMMA MidnightType ==
    ASSUME NEW t \in Nat
    PROVE  Midnight(t) \in Nat
<1>1. DayLength \in Nat /\ DayLength > 0
      BY JournalAssumption
<1>. QED  BY <1>1 DEF Midnight

\* There are finitely many attempts.
LEMMA Finite ==
    /\ \A r : IsFiniteSet(Reserved(r)) /\ Cardinality(Reserved(r)) \in Nat
    /\ \A T : IsFiniteSet(Attempts(T)) /\ Cardinality(Attempts(T)) \in Nat
<1>1. IsFiniteSet(Ordinals)
      BY JournalAssumption, FS_Interval DEF Ordinals
<1>2. IsFiniteSet(Runs \X Ordinals)
      BY <1>1, JournalAssumption, FS_Product
<1>3. \A r : Reserved(r) \subseteq Ordinals
      BY DEF Reserved
<1>4. \A T : Attempts(T) \subseteq Runs \X Ordinals
      BY DEF Attempts
<1>. QED  BY <1>1, <1>2, <1>3, <1>4, FS_Subset, FS_CardinalityType

--------------------------------------------------------------------------------
\* What reserves nothing leaves the quotas as they are.
Unreserved ==
    \A r \in Runs, o \in Ordinals :
        /\ journal'[r][o] = NoRow <=> journal[r][o] = NoRow
        /\ journal[r][o] # NoRow => journal'[r][o].started = journal[r][o].started

LEMMA QuotasUntouched ==
    ASSUME QuotasKept, Unreserved
    PROVE  QuotasKept'
<1>1. \A r \in Runs : Reserved(r)' = Reserved(r)
      BY DEF Reserved, Unreserved
<1>2. ASSUME NEW T
      PROVE  Attempts(T)' = Attempts(T)
  <2>1. ASSUME NEW r \in Runs, NEW o \in Ordinals
        PROVE  /\ o \in Reserved(r)' <=> o \in Reserved(r)
               /\ o \in Reserved(r) => journal'[r][o].started = journal[r][o].started
        BY DEF Reserved, Unreserved
  <2>. QED  BY <2>1 DEF Attempts
<1>3. \A t \in 0..MaxClock :
          /\ Attempts(Midnight(t)..(Midnight(t) + DayLength - 1))'
                = Attempts(Midnight(t)..(Midnight(t) + DayLength - 1))
          /\ Attempts((t - Minute + 1)..t)' = Attempts((t - Minute + 1)..t)
      BY <1>2
<1>. QED  BY <1>1, <1>3 DEF QuotasKept

\* A reservation that was allowed exceeds no quota: what is after its time is
\* counted with it.
LEMMA QuotasReserved ==
    ASSUME JournalTypes, Placed, QuotasKept, NEW p \in Processes, Reserve(p)
    PROVE  QuotasKept'
<1>1. PICK r \in Runs, o \in Ordinals, n \in 0..MaxClock :
          /\ r = run[p] /\ o = ordinal[p] /\ n = now[p]
          /\ journal[r][o] = NoRow /\ Allowed(r, n)
      BY DEF Reserve, Placed, JournalTypes, MyRow
<1>. DEFINE Day(t) == Midnight(t)..(Midnight(t) + DayLength - 1)
            Min(t) == (t - Minute + 1)..t
<1>2. /\ journal'[r][o] = [started |-> n, state |-> "reserved"]
      /\ \A s \in Runs, m \in Ordinals : s # r \/ m # o => journal'[s][m] = journal[s][m]
      BY <1>1 DEF Reserve, SetRow, JournalTypes
<1>3. journal'[r][o] # NoRow /\ journal'[r][o].started = n
  <2>1. [started |-> n, state |-> "reserved"] \in Row
        BY <1>1 DEF Row
  <2>. QED  BY <1>2, <2>1, RowAssumption
<1>4. Reserved(r)' = Reserved(r) \cup {o} /\ o \notin Reserved(r)
      BY <1>1, <1>2, <1>3 DEF Reserved
<1>5. \A s \in Runs : s # r => Reserved(s)' = Reserved(s)
      BY <1>2 DEF Reserved
<1>6. ASSUME NEW T
      PROVE  /\ n \in T => Attempts(T)' = Attempts(T) \cup {<<r, o>>}
             /\ n \notin T => Attempts(T)' = Attempts(T)
  <2>1. ASSUME NEW s \in Runs, NEW m \in Ordinals, s # r \/ m # o
        PROVE  /\ m \in Reserved(s)' <=> m \in Reserved(s)
               /\ journal'[s][m].started = journal[s][m].started
        BY <1>2, <2>1 DEF Reserved
  <2>2. o \in Reserved(r)' /\ o \notin Reserved(r)
        BY <1>4
  <2>. QED  BY <1>1, <1>3, <2>1, <2>2 DEF Attempts
<1>7. ASSUME NEW s \in Runs
      PROVE  Cardinality(Reserved(s)') <= max_calls
  <2>1. CASE s # r
        BY <1>5, <2>1 DEF QuotasKept
  <2>2. CASE s = r
    <3>1. Cardinality(Reserved(r)) < max_calls /\ max_calls \in Nat
          BY <1>1, JournalAssumption DEF Allowed
    <3>2. Cardinality(Reserved(r) \cup {o}) = Cardinality(Reserved(r)) + 1
          BY <1>4, Finite, FS_AddElement
    <3>3. Cardinality(Reserved(r)) \in Nat
          BY Finite
    <3>4. Reserved(s)' = Reserved(r) \cup {o}
          BY <1>4, <2>2
    <3>. QED  BY <3>1, <3>2, <3>3, <3>4
  <2>. QED  BY <2>1, <2>2
<1>8. ASSUME NEW T, NEW U, NEW limit \in Nat,
             Cardinality(Attempts(T)) <= limit,
             n \in T => (\A x \in 0..MaxClock : x \in T => x \in U),
             n \in T => Cardinality(Attempts(U)) < limit
      PROVE  Cardinality(Attempts(T)') <= limit
  <2>1. CASE n \notin T
        BY <1>6, <1>8, <2>1
  <2>2. CASE n \in T
    <3>1. Attempts(T) \subseteq Attempts(U)
      <4>1. ASSUME NEW s \in Runs, NEW m \in Reserved(s)
            PROVE  journal[s][m].started \in 0..MaxClock
            BY <4>1 DEF Reserved, JournalTypes, Row
      <4>. QED  BY <1>8, <2>2, <4>1 DEF Attempts
    <3>2. Cardinality(Attempts(T)) <= Cardinality(Attempts(U))
          BY <3>1, Finite, FS_Subset
    <3>3. \/ Cardinality(Attempts(T) \cup {<<r, o>>}) = Cardinality(Attempts(T)) + 1
          \/ Cardinality(Attempts(T) \cup {<<r, o>>}) = Cardinality(Attempts(T))
      <4>1. IsFiniteSet(Attempts(T))
            BY Finite
      <4>. QED  BY <4>1, FS_AddElement
    <3>4. /\ Cardinality(Attempts(T)) \in Nat /\ Cardinality(Attempts(U)) \in Nat
          /\ Attempts(T)' = Attempts(T) \cup {<<r, o>>}
          /\ Cardinality(Attempts(U)) < limit
          BY <1>6, <1>8, <2>2, Finite
    <3>5. Cardinality(Attempts(T)) + 1 <= limit
          BY <1>8, <3>2, <3>4
    <3>. QED  BY <1>8, <3>3, <3>4, <3>5
  <2>. QED  BY <2>1, <2>2
<1>9. ASSUME NEW t \in 0..MaxClock
      PROVE  Cardinality(Attempts(Day(t))') <= daily_limit
  <2>1. MaxClock \in Nat /\ daily_limit \in Nat /\ t \in Nat /\ n \in Nat
        BY <1>1, JournalAssumption
  <2>2. Cardinality(Attempts(Day(t))) <= daily_limit
        BY DEF QuotasKept
  <2>3. Cardinality(Attempts(Midnight(n)..MaxClock)) < daily_limit
        BY <1>1 DEF Allowed
  <2>4. ASSUME n \in Day(t), NEW x \in 0..MaxClock, x \in Day(t)
        PROVE  x \in Midnight(n)..MaxClock
    <3>1. Midnight(t) = Midnight(n)
          BY <2>1, <2>4, Days
    <3>. QED  BY <2>1, <2>4, <3>1, MidnightType
  <2>. HIDE DEF Day
  <2>. QED  BY <1>8, <2>1, <2>2, <2>3, <2>4
<1>10. ASSUME NEW t \in 0..MaxClock
       PROVE  Cardinality(Attempts(Min(t))') <= minute_limit
  <2>1. MaxClock \in Nat /\ minute_limit \in Nat /\ t \in Nat /\ n \in Nat /\ Minute \in Nat
        BY <1>1, JournalAssumption
  <2>2. Cardinality(Attempts(Min(t))) <= minute_limit
        BY DEF QuotasKept
  <2>3. Cardinality(Attempts((n - Minute + 1)..MaxClock)) < minute_limit
        BY <1>1 DEF Allowed
  <2>4. ASSUME n \in Min(t), NEW x \in 0..MaxClock, x \in Min(t)
        PROVE  x \in (n - Minute + 1)..MaxClock
        BY <2>1, <2>4
  <2>. HIDE DEF Min
  <2>. QED  BY <1>8, <2>1, <2>2, <2>3, <2>4
<1>. QED  BY <1>7, <1>9, <1>10 DEF QuotasKept

--------------------------------------------------------------------------------
\* A step that reserves and sends nothing keeps what is said of both.
LEMMA Quiet ==
    ASSUME JournalInv, Unreserved, UNCHANGED sent,
           \A p \in Processes :
               pc'[p] = "reserved" => pc[p] = "reserved" /\ run'[p] = run[p] /\ ordinal'[p] = ordinal[p]
    PROVE  Exclusive' /\ SentOnce' /\ QuotasKept'
<1>. USE DEF JournalInv
<1>1. QuotasKept'
      BY QuotasUntouched
<1>2. SentOnce'
      BY DEF SentOnce, Unreserved
<1>3. \A p \in Reservers' : /\ p \in Reservers /\ run'[p] = run[p] /\ ordinal'[p] = ordinal[p]
                            /\ run[p] \in Runs /\ ordinal[p] \in Ordinals
      BY DEF Reservers, Placed
<1>4. Exclusive'
      BY <1>3 DEF Exclusive, MyRow, Unreserved
<1>. QED  BY <1>1, <1>2, <1>4

\* What a process does to itself.
LEMMA StopTypes ==
    ASSUME JournalTypes, Placed, NEW p \in Processes, Stop(p)
    PROVE  /\ pc' \in [Processes -> Points] /\ run' \in [Processes -> Runs \cup {NoRun}]
           /\ ordinal' \in [Processes -> 0..Calls] /\ now' \in [Processes -> 0..MaxClock]
           /\ Placed'
           /\ \A q \in Processes : pc'[q] = "reserved" =>
                  pc[q] = "reserved" /\ run'[q] = run[q] /\ ordinal'[q] = ordinal[q]
<1>1. 0 \in 0..Calls /\ 0 \in 0..MaxClock
      BY JournalAssumption
<1>. QED  BY <1>1 DEF JournalTypes, Placed, Stop, Goto, Points

LEMMA GoOnTypes ==
    ASSUME JournalTypes, Placed, NEW p \in Processes, pc[p] \in {"reserving", "sent"}, GoOn(p)
    PROVE  /\ pc' \in [Processes -> Points] /\ run' \in [Processes -> Runs \cup {NoRun}]
           /\ ordinal' \in [Processes -> 0..Calls] /\ now' \in [Processes -> 0..MaxClock]
           /\ Placed'
           /\ \A q \in Processes : pc'[q] = "reserved" =>
                  pc[q] = "reserved" /\ run'[q] = run[q] /\ ordinal'[q] = ordinal[q]
<1>1. 0 \in 0..MaxClock /\ Calls \in Nat
      BY JournalAssumption
<1>2. ordinal[p] \in Ordinals /\ run[p] \in Runs
      BY DEF Placed
<1>3. ordinal[p] + 1 \in 0..Calls
      BY <1>1, <1>2 DEF Ordinals
<1>. QED  BY <1>1, <1>2, <1>3 DEF JournalTypes, Placed, GoOn, Goto, Points

\* An outcome replaces a reservation: the row stays, with its time.
LEMMA Finished ==
    ASSUME JournalTypes, Placed, NEW p \in Processes,
           NEW state \in {"complete", "truncated", "error", "rate_limited"}, Finish(p, state)
    PROVE  journal' \in [Runs -> [Ordinals -> Row \cup {NoRow}]] /\ Unreserved
<1>1. PICK r \in Runs, o \in Ordinals : /\ r = run[p] /\ o = ordinal[p]
                                        /\ journal[r][o] # NoRow
      BY DEF Finish, Placed, MyRow
<1>2. journal[r][o] \in Row
      BY <1>1 DEF JournalTypes
<1>. DEFINE entry == [journal[r][o] EXCEPT !.state = state]
<1>3. entry \in Row /\ entry.started = journal[r][o].started
      BY <1>2 DEF Row
<1>4. entry # NoRow
      BY <1>3, RowAssumption
<1>5. journal' = [journal EXCEPT ![r][o] = entry]
      BY <1>1 DEF Finish, SetRow, MyRow
<1>. HIDE DEF entry
<1>6. /\ journal' \in [Runs -> [Ordinals -> Row \cup {NoRow}]]
      /\ journal'[r][o] = entry
      /\ \A s \in Runs, m \in Ordinals : s # r \/ m # o => journal'[s][m] = journal[s][m]
      BY <1>3, <1>5 DEF JournalTypes
<1>. QED  BY <1>1, <1>3, <1>4, <1>6 DEF Unreserved

--------------------------------------------------------------------------------
LEMMA JournalInvInit == JournalInit => JournalInv
<1>. SUFFICES ASSUME JournalInit PROVE JournalInv
     OBVIOUS
<1>1. 0 \in 0..MaxClock /\ 0 \in 0..Calls
      BY JournalAssumption
<1>2. JournalTypes
      BY <1>1 DEF JournalInit, JournalTypes, Points
<1>3. Placed /\ Exclusive /\ SentOnce
      BY <1>2 DEF JournalInit, Placed, Exclusive, Reservers, SentOnce
<1>4. \A r \in Runs : Reserved(r) = {}
      BY DEF JournalInit, Reserved
<1>5. \A T : Attempts(T) = {}
      BY <1>4 DEF Attempts
<1>6. QuotasKept
  <2>1. 0 <= max_calls /\ 0 <= daily_limit /\ 0 <= minute_limit
        BY JournalAssumption
  <2>2. \A r \in Runs : Cardinality(Reserved(r)) = 0
        BY <1>4, FS_EmptySet
  <2>3. \A T : Cardinality(Attempts(T)) = 0
        BY <1>5, FS_EmptySet
  <2>. QED  BY <2>1, <2>2, <2>3 DEF QuotasKept
<1>. QED  BY <1>2, <1>3, <1>6 DEF JournalInv

LEMMA JournalInvNext == JournalInv /\ [JournalNext]_journalVars => JournalInv'
<1>. SUFFICES ASSUME JournalInv, [JournalNext]_journalVars PROVE JournalInv'
     OBVIOUS
<1>. USE DEF JournalInv
<1>1. ASSUME UNCHANGED journal
      PROVE  Unreserved /\ (JournalTypes => journal' \in [Runs -> [Ordinals -> Row \cup {NoRow}]])
      BY <1>1 DEF Unreserved, JournalTypes
<1>2. ASSUME NEW p \in Processes, NEW r \in Runs, Start(p, r)
      PROVE  JournalInv'
  <2>1. JournalTypes' /\ Placed'
        BY <1>2 DEF JournalTypes, Placed, Start, Goto, Points
  <2>2. Unreserved /\ UNCHANGED sent
        BY <1>1, <1>2 DEF Start
  <2>3. \A q \in Processes : pc'[q] = "reserved" =>
            pc[q] = "reserved" /\ run'[q] = run[q] /\ ordinal'[q] = ordinal[q]
        BY <1>2 DEF Start, Goto, JournalTypes
  <2>. QED  BY <2>1, <2>2, <2>3, Quiet
<1>3. ASSUME NEW p \in Processes, ReadClock(p)
      PROVE  JournalInv'
  <2>1. JournalTypes' /\ Placed'
        BY <1>3 DEF JournalTypes, Placed, ReadClock, Goto, Points
  <2>2. Unreserved /\ UNCHANGED sent
        BY <1>1, <1>3 DEF ReadClock
  <2>3. \A q \in Processes : pc'[q] = "reserved" =>
            pc[q] = "reserved" /\ run'[q] = run[q] /\ ordinal'[q] = ordinal[q]
        BY <1>3 DEF ReadClock, Goto, JournalTypes
  <2>. QED  BY <2>1, <2>2, <2>3, Quiet
<1>4. ASSUME NEW p \in Processes, Replay(p)
      PROVE  JournalInv'
  <2>1. pc[p] \in {"reserving", "sent"} /\ GoOn(p) /\ UNCHANGED <<clock, journal, sent>>
        BY <1>4 DEF Replay
  <2>2. JournalTypes' /\ Placed'
        BY <2>1, GoOnTypes DEF JournalTypes
  <2>. QED  BY <1>1, <2>1, <2>2, GoOnTypes, Quiet
<1>5. ASSUME NEW p \in Processes, Pause(p) \/ Block(p) \/ Crash(p)
      PROVE  JournalInv'
  <2>1. Stop(p) /\ UNCHANGED <<clock, journal, sent>>
        BY <1>5 DEF Pause, Block, Crash
  <2>2. JournalTypes' /\ Placed'
        BY <2>1, StopTypes DEF JournalTypes
  <2>. QED  BY <1>1, <2>1, <2>2, StopTypes, Quiet
<1>6. ASSUME NEW p \in Processes, NEW state \in {"complete", "truncated"}, Answer(p, state)
      PROVE  JournalInv'
  <2>1. Finish(p, state) /\ pc[p] = "sent" /\ UNCHANGED <<clock, sent>> /\ (GoOn(p) \/ Stop(p))
        BY <1>6 DEF Answer, Finish
  <2>2. journal' \in [Runs -> [Ordinals -> Row \cup {NoRow}]] /\ Unreserved
        BY <2>1, Finished
  <2>3. JournalTypes' /\ Placed'
        BY <2>1, <2>2, GoOnTypes, StopTypes DEF JournalTypes
  <2>. QED  BY <2>1, <2>2, <2>3, GoOnTypes, StopTypes, Quiet
<1>7. ASSUME NEW p \in Processes, NEW state \in {"error", "rate_limited"}, Fail(p, state)
      PROVE  JournalInv'
  <2>1. Finish(p, state) /\ pc[p] = "sent" /\ UNCHANGED <<clock, sent>>
        BY <1>7 DEF Fail, Finish
  <2>2. journal' \in [Runs -> [Ordinals -> Row \cup {NoRow}]] /\ Unreserved
        BY <2>1, Finished
  <2>3. CASE Stop(p)
    <3>1. JournalTypes' /\ Placed'
          BY <2>1, <2>2, <2>3, StopTypes DEF JournalTypes
    <3>. QED  BY <2>1, <2>2, <2>3, <3>1, StopTypes, Quiet
  <2>4. CASE Goto(p, "blocking") /\ UNCHANGED <<run, ordinal, now>>
    <3>1. JournalTypes' /\ Placed'
          BY <2>1, <2>2, <2>4 DEF JournalTypes, Placed, Goto, Points
    <3>2. \A q \in Processes : pc'[q] = "reserved" =>
              pc[q] = "reserved" /\ run'[q] = run[q] /\ ordinal'[q] = ordinal[q]
          BY <2>4 DEF Goto, JournalTypes
    <3>. QED  BY <2>1, <2>2, <3>1, <3>2, Quiet
  <2>. QED  BY <1>7, <2>3, <2>4 DEF Fail
<1>8. ASSUME NEW p \in Processes, Reserve(p)
      PROVE  JournalInv'
  <2>1. PICK r \in Runs, o \in Ordinals, n \in 0..MaxClock :
            r = run[p] /\ o = ordinal[p] /\ n = now[p] /\ journal[r][o] = NoRow
        BY <1>8 DEF Reserve, Placed, JournalTypes, MyRow
  <2>. DEFINE entry == [started |-> n, state |-> "reserved"]
  <2>2. entry \in Row /\ entry # NoRow
        BY RowAssumption DEF Row
  <2>3. /\ journal' = [journal EXCEPT ![r][o] = entry] /\ pc' = [pc EXCEPT ![p] = "reserved"]
        /\ UNCHANGED <<clock, run, ordinal, now, sent>>
        BY <1>8, <2>1 DEF Reserve, SetRow, Goto
  <2>. HIDE DEF entry
  <2>4. /\ journal' \in [Runs -> [Ordinals -> Row \cup {NoRow}]]
        /\ journal'[r][o] = entry
        /\ \A s \in Runs, m \in Ordinals : s # r \/ m # o => journal'[s][m] = journal[s][m]
        BY <2>2, <2>3 DEF JournalTypes
  <2>5. JournalTypes' /\ Placed'
        BY <2>1, <2>3, <2>4 DEF JournalTypes, Placed, Points
  <2>6. sent[r][o] = 0
    <3>1. sent[r][o] \in Nat
          BY DEF JournalTypes
    <3>2. sent[r][o] <= 1 /\ sent[r][o] # 1
          BY <2>1 DEF SentOnce
    <3>. QED  BY <3>1, <3>2
  <2>7. SentOnce'
        BY <2>2, <2>3, <2>4 DEF SentOnce
  <2>8. \A q \in Reservers' : q = p \/ (q \in Reservers /\ (run[q] # r \/ ordinal[q] # o))
        BY <2>1, <2>3 DEF Reservers, Exclusive, MyRow, JournalTypes
  <2>9. \A q \in Reservers : run[q] \in Runs /\ ordinal[q] \in Ordinals
        BY DEF Reservers, Placed
  <2>10. Exclusive'
        BY <2>1, <2>2, <2>3, <2>4, <2>6, <2>8, <2>9 DEF Exclusive, MyRow
  <2>. QED  BY <1>8, <2>5, <2>7, <2>10, QuotasReserved
<1>9. ASSUME NEW p \in Processes, Send(p)
      PROVE  JournalInv'
  <2>1. PICK r \in Runs, o \in Ordinals : /\ r = run[p] /\ o = ordinal[p]
                                          /\ journal[r][o] # NoRow /\ sent[r][o] = 0
        BY <1>9 DEF Send, Placed, Exclusive, Reservers, MyRow
  <2>2. /\ sent' = [sent EXCEPT ![r][o] = @ + 1] /\ pc' = [pc EXCEPT ![p] = "sent"]
        /\ pc[p] = "reserved" /\ UNCHANGED <<clock, journal, run, ordinal, now>>
        BY <1>9, <2>1 DEF Send, Goto
  <2>3. /\ sent' \in [Runs -> [Ordinals -> Nat]] /\ sent'[r][o] = 1
        /\ \A s \in Runs, m \in Ordinals : s # r \/ m # o => sent'[s][m] = sent[s][m]
        BY <2>1, <2>2 DEF JournalTypes
  <2>4. JournalTypes' /\ Placed'
        BY <2>2, <2>3 DEF JournalTypes, Placed, Points
  <2>5. SentOnce'
        BY <2>1, <2>2, <2>3 DEF SentOnce
  <2>6. \A q \in Reservers' : /\ q \in Reservers /\ (run[q] # r \/ ordinal[q] # o)
                              /\ run[q] \in Runs /\ ordinal[q] \in Ordinals
        BY <2>1, <2>2 DEF Reservers, Exclusive, JournalTypes, Placed
  <2>7. Exclusive'
        BY <2>2, <2>3, <2>6 DEF Exclusive, MyRow
  <2>8. QuotasKept'
        BY <1>1, <2>2, QuotasUntouched
  <2>. QED  BY <2>4, <2>5, <2>7, <2>8
<1>10. CASE Tick
  <2>1. clock + 1 \in 0..MaxClock
        BY <1>10, JournalAssumption DEF JournalTypes, Tick
  <2>2. JournalTypes' /\ Placed'
        BY <1>10, <2>1 DEF JournalTypes, Placed, Tick
  <2>3. Unreserved /\ UNCHANGED <<sent, pc, run, ordinal>>
        BY <1>1, <1>10 DEF Tick
  <2>. QED  BY <2>2, <2>3, Quiet
<1>11. CASE UNCHANGED journalVars
  <2>1. JournalTypes' /\ Placed'
        BY <1>11 DEF JournalTypes, Placed, journalVars
  <2>2. Unreserved /\ UNCHANGED <<sent, pc, run, ordinal>>
        BY <1>1, <1>11 DEF journalVars
  <2>. QED  BY <2>1, <2>2, Quiet
<1>. QED  BY <1>2, <1>3, <1>4, <1>5, <1>6, <1>7, <1>8, <1>9, <1>10, <1>11 DEF JournalNext

\* A block ends at a midnight.
Blocked ==
    /\ blocked_until \in 0..(MaxClock + DayLength)
    /\ blocked_until % DayLength = 0

LEMMA NextMidnight ==
    ASSUME NEW t \in 0..MaxClock
    PROVE  /\ Midnight(t) + DayLength \in 0..(MaxClock + DayLength)
           /\ (Midnight(t) + DayLength) % DayLength = 0
<1>1. DayLength \in Nat /\ DayLength > 0 /\ MaxClock \in Nat
      BY JournalAssumption
<1>2. Midnight(t) \in Nat /\ Midnight(t) <= t
      BY <1>1 DEF Midnight
<1>3. Midnight(t) + DayLength = ((t \div DayLength) + 1) * DayLength
      BY <1>1 DEF Midnight
<1>4. \A q \in Nat : (q * DayLength) % DayLength = 0
      BY <1>1
<1>. QED  BY <1>1, <1>2, <1>3, <1>4

LEMMA BlockedInit == JournalInit => Blocked
<1>1. 0 \in 0..(MaxClock + DayLength) /\ 0 % DayLength = 0
      BY JournalAssumption
<1>. QED  BY <1>1 DEF JournalInit, Blocked

LEMMA BlockedNext == JournalInv /\ Blocked /\ [JournalNext]_journalVars => Blocked'
<1>. SUFFICES ASSUME JournalInv, Blocked, [JournalNext]_journalVars PROVE Blocked'
     OBVIOUS
<1>1. CASE UNCHANGED blocked_until
      BY <1>1 DEF Blocked
<1>2. ASSUME NEW p \in Processes, Block(p)
      PROVE  Blocked'
  <2>1. clock \in 0..MaxClock
        BY DEF JournalInv, JournalTypes
  <2>. QED  BY <1>2, <2>1, NextMidnight DEF Block, Blocked
<1>. QED  BY <1>1, <1>2 DEF JournalNext, journalVars, Start, ReadClock, Replay, Pause, Reserve, Send, Answer,
                            Fail, Crash, Tick

LEMMA JournalInvariant == JournalSpec => []JournalInv
BY JournalInvInit, JournalInvNext, PTL DEF JournalSpec

\* Every variable of the journal and its processes has its type.
THEOREM TypesAreKept == JournalSpec => []JournalTypeOK
<1>1. JournalInv /\ Blocked => JournalTypeOK
      BY DEF JournalInv, JournalTypes, Blocked, JournalTypeOK, Points
<1>2. JournalSpec => []Blocked
      BY JournalInvariant, BlockedInit, BlockedNext, PTL DEF JournalSpec
<1>. QED  BY JournalInvariant, <1>1, <1>2, PTL

\* All processes together keep the daily quota, the quota of any minute and the
\* budget of every run, whatever crashes and however long a reservation waits
\* between its clock and its transaction (reserve of free_pilot.py).
THEOREM QuotasAreKept == JournalSpec => []QuotasKept
BY JournalInvariant, PTL DEF JournalInv

\* No call of a run is sent twice, though the run be started again or twice at
\* once, and none is sent that the journal does not have.
THEOREM CallsAreSentOnce == JournalSpec => []SentOnce
BY JournalInvariant, PTL DEF JournalInv
================================================================================
