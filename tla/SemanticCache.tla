----------------------------- MODULE SemanticCache -----------------------------
(***************************************************************************)
(* The semantic cache of the research pipeline (src/src/cache): a flat     *)
(* vector index, the metadata beside it, and the exact cache of canonical  *)
(* wordings.  A vector is the query it encodes; two vectors are as close   *)
(* as Similarity says, in hundredths.  A store is a record of two          *)
(* sequences that only positions connect.                                  *)
(***************************************************************************)
EXTENDS Integers, Sequences

CONSTANTS Queries,     \* texts
          Similarity,  \* cosine of two embeddings, in hundredths
          Canonical,   \* normalize_query: the canonical key of a query
          NoKey        \* the empty key: nothing is left of the query

ASSUME SimilarityAssumption ==
    /\ Similarity \in [Queries -> [Queries -> -100..100]]
    /\ \A q \in Queries : Similarity[q][q] = 100

NegInf == -1000  \* float("-inf"): no candidate

EmptyStore == [vectors |-> << >>, metadata |-> << >>]

\* Mutant: a vector the index has already is not added to it again, its
\* metadata is.
AddVectorOnce(store, q, metadata) ==
    [vectors |-> IF \E i \in 1..Len(store.vectors) : store.vectors[i] = q
                 THEN store.vectors ELSE Append(store.vectors, q),
     metadata |-> Append(store.metadata, metadata)]

\* FlatVectorStore.add: two appends; missing metadata is stored as {}.
AddVector(store, q, metadata) ==
    [vectors |-> Append(store.vectors, q), metadata |-> Append(store.metadata, metadata)]

\* IndexFlatIP.search(k=1): the closest vector, the first of equals.
Nearest(store, q) ==
    LET score(i) == Similarity[store.vectors[i]][q]
    IN CHOOSE i \in 1..Len(store.vectors) :
          \A j \in 1..Len(store.vectors) :
              score(j) < score(i) \/ (score(j) = score(i) /\ i <= j)

\* FlatVectorStore.search: an empty index finds nothing, and a position
\* beyond the metadata has none.
Search(store, q) ==
    IF store.vectors = << >>
    THEN [found |-> FALSE, score |-> NegInf, position |-> 0, metadata |-> << >>]
    ELSE LET i == Nearest(store, q)
         IN [found |-> TRUE, score |-> Similarity[store.vectors[i]][q], position |-> i,
             metadata |-> IF i <= Len(store.metadata) THEN store.metadata[i] ELSE << >>]

CacheLookupResult(hit, found, store_size) ==
    [hit |-> hit, score |-> found.score, matched |-> found.metadata, store_size |-> store_size]

\* SemanticCache.lookup: HIT at the threshold or above; what was found is
\* returned on a MISS too.
LookUp(store, q, threshold) ==
    LET r == Search(store, q)
    IN CacheLookupResult(r.found /\ r.score >= threshold, r, Len(store.vectors))

--------------------------------------------------------------------------------
\* CanonicalCache: entries is a function from canonical keys to metadata.
CanonicalGet(entries, q) ==
    IF Canonical[q] # NoKey /\ Canonical[q] \in DOMAIN entries
    THEN entries[Canonical[q]] ELSE << >>

CanonicalPut(entries, q, metadata) ==
    IF Canonical[q] = NoKey THEN entries
    ELSE [k \in DOMAIN entries \cup {Canonical[q]} |->
              IF k = Canonical[q] THEN metadata ELSE entries[k]]
================================================================================
