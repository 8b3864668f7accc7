----------------------------- MODULE SealedStream -----------------------------
(***************************************************************************)
(* assemble_sealed_stream of scripts/build_phaseA_sealed_stream.py: each   *)
(* pair is a seed and, some slots later, its follow-up; chat queries fill  *)
(* the slots in between.  The order of the pairs and the lags are random.  *)
(***************************************************************************)
EXTENDS Integers, Sequences, FiniteSets

CONSTANTS SealedPairs,  \* pairs of texts <<query_a, query_b>>
          ChatQueries,  \* sequence of texts without a pair
          Lags          \* random.randint(2, 10), or a part of it

ASSUME SealedAssumption ==
    /\ IsFiniteSet(SealedPairs)
    /\ Lags \subseteq 2..10

PairCount == Cardinality(SealedPairs)
Shuffles == {f \in [1..PairCount -> SealedPairs] : \A i, j \in 1..PairCount : f[i] = f[j] => i = j}

\* The first slot from `start' on that is not occupied.
FirstFree(occupied, start) ==
    CHOOSE s \in start..start + Cardinality(occupied) :
        s \notin occupied /\ start..s - 1 \subseteq occupied

--------------------------------------------------------------------------------
(* A pair takes the first free slot for its seed and, a lag later, the     *)
(* next free one for its follow-up.  The loop that looks for it steps over *)
(* a slot behind the end of the list of events, and makes the list longer. *)

SeedSlot(placed) == FirstFree(placed.occupied, 0)

FollowUpSlot(placed, lag) ==
    LET start == SeedSlot(placed) + lag
    IN FirstFree(placed.occupied \cup {SeedSlot(placed)},
                 IF start < placed.length THEN start ELSE start + 1)

PlacePair(placed, lag) ==
    [occupied |-> placed.occupied \cup {SeedSlot(placed), FollowUpSlot(placed, lag)},
     length |-> IF FollowUpSlot(placed, lag) < placed.length
                THEN placed.length ELSE placed.length + 50]

\* The chat queries take the first empty slots, once all pairs are placed.
PlaceChat(placed) ==
    [placed EXCEPT !.occupied = placed.occupied \cup {FirstFree(placed.occupied, 0)}]

Rounds == PairCount + Len(ChatQueries)

PlaceNext(lags, placed, n) ==
    IF n <= PairCount THEN PlacePair(placed, lags[n]) ELSE PlaceChat(placed)

\* What is occupied after each round.
Placements(lags) ==
    LET after[n \in 0..Rounds] ==
            IF n = 0 THEN [occupied |-> {}, length |-> 2 * PairCount + Len(ChatQueries)]
            ELSE PlaceNext(lags, after[n - 1], n)
    IN after

\* The slots close up: the identifier of an event is its position.
Position(used, s) == Cardinality({t \in used : t <= s})
SlotAt(used, i) == CHOOSE s \in used : Position(used, s) = i

\* The pair whose seed or follow-up is at a slot.
PairAt(lags, s) ==
    CHOOSE n \in 1..PairCount :
        s \in {SeedSlot(Placements(lags)[n - 1]), FollowUpSlot(Placements(lags)[n - 1], lags[n])}

SeedEvent(query) == [query |-> query, seed |-> TRUE, matched_seed_id |-> 0]

\* A follow-up is linked to the identifier of its seed.
EventAt(pairs, lags, used, s) ==
    LET placed == Placements(lags)[PairCount].occupied
        n == PairAt(lags, s)
        seed == SeedSlot(Placements(lags)[n - 1])
    IN IF s \notin placed THEN SeedEvent(ChatQueries[Position(used \ placed, s)])
       ELSE IF s = seed THEN SeedEvent(pairs[n][1])
       ELSE [query |-> pairs[n][2], seed |-> FALSE, matched_seed_id |-> Position(used, seed)]

Assemble(pairs, lags) ==
    LET used == Placements(lags)[Rounds].occupied
    IN [i \in 1..Cardinality(used) |-> EventAt(pairs, lags, used, SlotAt(used, i))]

SealedStreams ==
    {Assemble(pairs, lags) : pairs \in Shuffles, lags \in [1..PairCount -> Lags]}
================================================================================
