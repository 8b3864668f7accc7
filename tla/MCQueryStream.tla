----------------------------- MODULE MCQueryStream -----------------------------
(* Five texts: a stable seed, its paraphrase, a trap that differs in a number,*)
(* a borderline question of which no canonical word is left, and a volatile   *)
(* one.  The sealed stream has three pairs, two of the same seed, and a chat  *)
(* query.                                                                     *)
EXTENDS QueryStream, TLC

CONSTANTS stable, paraphrase, trap, border, volatile, nokey

MCQueries == {stable, paraphrase, trap, border, volatile}

Plain == [blank |-> FALSE, clause |-> "none", year |-> "none", live |-> FALSE,
          named |-> FALSE, volatile |-> FALSE, era |-> FALSE, answer |-> "none",
          invariant |-> FALSE, p_dynamic |-> 50]

\* A rule recognizes seed and paraphrase; trap and border are left to the
\* fallback, which is sure enough of both for the cache and of one for reuse.
MCCuesOf ==
    stable :> [Plain EXCEPT !.invariant = TRUE] @@
    paraphrase :> [Plain EXCEPT !.invariant = TRUE] @@
    trap :> [Plain EXCEPT !.p_dynamic = 5] @@
    border :> [Plain EXCEPT !.p_dynamic = 15] @@
    volatile :> [Plain EXCEPT !.clause = "volatile", !.invariant = TRUE]

Pair(a, b, x, y) == {x, y} = {a, b}
MCSimilarity ==
    [x \in MCQueries |-> [y \in MCQueries |->
        IF x = y THEN 100
        ELSE IF Pair(stable, paraphrase, x, y) THEN 97
        ELSE IF Pair(stable, trap, x, y) THEN 92
        ELSE IF Pair(paraphrase, trap, x, y) THEN 91
        ELSE IF Pair(stable, border, x, y) THEN 50
        ELSE IF Pair(paraphrase, border, x, y) THEN 49
        ELSE IF Pair(trap, border, x, y) THEN 93
        ELSE IF Pair(stable, volatile, x, y) THEN 95
        ELSE 70]]

MCCanonical ==
    stable :> "k" @@ paraphrase :> "k" @@ trap :> "t" @@ border :> nokey @@ volatile :> "v"

MCWording ==
    [x \in MCQueries |->
        [text |-> x, key |-> IF x = border THEN "" ELSE MCCanonical[x],
         generative |-> FALSE, long |-> x = border, negated |-> FALSE,
         numbers |-> IF x = trap THEN {2} ELSE {1}, entities |-> {}]]

MCRawPrediction ==
    [x \in MCQueries |-> [y \in MCQueries |-> IF x = y THEN 240 ELSE IF y = volatile THEN -90 ELSE 86]]

MCSealedPairs == {<<stable, paraphrase>>, <<stable, trap>>, <<trap, border>>}
MCChatQueries == <<volatile>>
================================================================================
