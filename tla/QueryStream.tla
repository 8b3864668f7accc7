------------------------------ MODULE QueryStream ------------------------------
(***************************************************************************)
(* The programs that push a stream of queries through the research         *)
(* pipeline: an exact cache of canonical wordings, the stability gate, the *)
(* semantic cache, the tier router, and a judge or the local equivalence   *)
(* step for the ambiguous tier.  Each program is a loop over these stages  *)
(* and differs in those it has and in what it does when the judge cannot   *)
(* be asked: it is the record of its choices, and the actions are shared.  *)
(* One thread processes one query after the other; an answer generated for *)
(* a query is the query's own, so the caches are what matters.             *)
(***************************************************************************)
EXTENDS StabilityClassifier, SemanticCache, TierRouter, JudgeCall, SealedStream

CONSTANTS CuesOf,           \* what the patterns find in each query
          Wording,          \* what the guards extract from each query
          RawPrediction,    \* the cross encoder's output for a pair
          Drivers,          \* the programs to consider
          max_judge_calls,  \* budget of the capped drivers
          StreamLength      \* bound: queries in a stream that is not sealed

ASSUME StreamAssumption ==
    /\ CuesOf \in [Queries -> Cues]
    /\ max_judge_calls \in Nat
    /\ StreamLength \in Nat
    /\ SealedPairs \subseteq Queries \X Queries
    /\ ChatQueries \in Seq(Queries)

VARIABLES driver,
          stream,    \* the sealed stream of the driver that reads one
          phase,     \* "next", "deciding", "judging" or "done"
          event,     \* the query being processed, whether it is a seed, and its seed
          store,     \* the FlatVectorStore
          canonical, \* the CanonicalCache
          telemetry, \* one record per query processed
          judge_calls_made

streamVars == <<driver, stream, phase, event, store, canonical, telemetry, judge_calls_made>>
vars == <<streamVars, judgeVars>>

CacheThreshold == 85     \* SemanticCache(threshold=0.85)
LocalThreshold == 85     \* LocalEquivalenceDecisionStep(threshold=0.85)

--------------------------------------------------------------------------------
(* The programs.                                                            *)
(*   exact      the canonical cache is asked first                          *)
(*   gate       "router" (gate, lookup, router), "cosine" (lookup only)     *)
(*              or "none"                                                   *)
(*   guarded    AUTO_REUSE is held to the rule guards, and what has no      *)
(*              matched text is bypassed                                    *)
(*   ambiguous  who decides the ambiguous tier, "judge" or "local"          *)
(*   budget     a spent budget of judge calls "halts" or "bypasses"         *)
(*   stops      a judge that fails ends the stream                          *)
(*   sealed     the stream is a sealed one, with seeds that are indexed     *)
(*              whatever becomes of them                                    *)

\* Arm (c): gate, lookup, router, judge.
ArmC == [exact |-> FALSE, gate |-> "router", guarded |-> FALSE, ambiguous |-> "judge",
         budget |-> "none", stops |-> FALSE, sealed |-> FALSE]

\* The load tests have a budget of judge calls, the demonstration has none and
\* never invents a judgement.
LoadTest == [ArmC EXCEPT !.budget = "halts"]
NewDatasetLoadTest == [ArmC EXCEPT !.budget = "bypasses"]
Demo == [ArmC EXCEPT !.stops = TRUE]

\* Arm (b): a fixed cosine threshold and nothing else.
ArmB == [ArmC EXCEPT !.gate = "cosine"]

\* Arm (d): the canonical cache first, the local step in place of the judge;
\* the ablations drop its stages one after the other.
ArmD == [ArmC EXCEPT !.exact = TRUE, !.ambiguous = "local"]
NormalizerOnly == [ArmD EXCEPT !.gate = "none"]
NormalizerCosine == [ArmD EXCEPT !.gate = "cosine"]

\* The sealed out-of-sample run.
SealedEvaluation == [ArmD EXCEPT !.guarded = TRUE, !.sealed = TRUE]

Programs == [load_test |-> LoadTest, new_dataset |-> NewDatasetLoadTest, demo |-> Demo,
             arm_b |-> ArmB, arm_c |-> ArmC, arm_d |-> ArmD,
             normalizer |-> NormalizerOnly, normalizer_cosine |-> NormalizerCosine,
             sealed |-> SealedEvaluation]
Program == Programs[driver]

ASSUME DriversAssumption == Drivers \subseteq DOMAIN Programs

--------------------------------------------------------------------------------
Id == Len(telemetry) + 1
Query == event.query
Stability == Classify(CuesOf[Query], "FORWARD_TO_CACHE_CANDIDATE")
Lookup == LookUp(store, Query, CacheThreshold)
Tier == Route(DEFAULT_BOUNDARIES, Lookup, Stability)
Length == IF Program.sealed THEN Len(stream) ELSE StreamLength

\* The entry of the exact cache; << >> if there is none.
CanonEntry == IF Program.exact THEN CanonicalGet(canonical, Query) ELSE << >>

\* The text that was cached for what the lookup matched.
MatchedText == Lookup.matched[2]

Init ==
    /\ driver \in Drivers
    /\ stream \in IF Program.sealed THEN SealedStreams ELSE {<< >>}
    /\ phase = "next"
    /\ event = [query |-> CHOOSE x \in Queries : TRUE, seed |-> FALSE, matched_seed_id |-> 0]
    /\ store = EmptyStore
    /\ canonical = << >>
    /\ telemetry = << >>
    /\ judge_calls_made = 0
    /\ backend \in IF Program.ambiguous = "judge" THEN {"openrouter", "unavailable"} ELSE {"unavailable"}
    /\ JudgeInit

--------------------------------------------------------------------------------
\* The next query of the stream.
TakeQuery(e) ==
    /\ phase = "next" /\ Len(telemetry) < Length
    /\ Program.sealed => e = stream[Id]
    /\ event' = e
    /\ phase' = "deciding"
    /\ UNCHANGED <<driver, stream, store, canonical, telemetry, judge_calls_made, judgeVars>>

\* The load tests raise before their first query: a file that is missing or
\* malformed, or a query that a dataset of the calibration has as well.
Refused ==
    /\ phase = "next" /\ telemetry = << >>
    /\ phase' = "done"
    /\ UNCHANGED <<driver, stream, event, store, canonical, telemetry, judge_calls_made, judgeVars>>

StreamRefused == Program.budget = "halts" /\ Refused
DatasetRefused == Program.budget = "bypasses" /\ Refused

EndOfStream ==
    /\ phase = "next" /\ Len(telemetry) = Length
    /\ phase' = "done"
    /\ UNCHANGED <<driver, stream, event, store, canonical, telemetry, judge_calls_made, judgeVars>>

\* A query is settled: its record is written, and unless it was answered from
\* the cache (a seed in any case) its fresh answer is indexed where the
\* program has an index.
Settle(path, decision, matched) ==
    LET metadata == <<Id, Query>>
        populate == decision = "BYPASS" \/ event.seed
    IN /\ telemetry' = Append(telemetry,
              [query |-> Query, seed |-> event.seed, path |-> path, decision |-> decision,
               matched |-> matched, fallback |-> path = "JUDGED" /\ verdict.fallback_triggered])
       /\ store' = IF populate /\ Program.gate # "none"
                    THEN AddVector(store, Query, metadata) ELSE store
       /\ canonical' = IF populate /\ Program.exact
                        THEN CanonicalPut(canonical, Query, metadata) ELSE canonical
       /\ phase' = "next"
       /\ UNCHANGED <<driver, stream, event>>

Decided(path, decision, matched) ==
    Settle(path, decision, matched) /\ UNCHANGED <<judge_calls_made, judgeVars>>

Undecided == phase = "deciding" /\ CanonEntry = << >>

CanonicalExact ==
    /\ phase = "deciding" /\ CanonEntry # << >>
    /\ Decided("CANONICAL_EXACT", "REUSE", CanonEntry)

\* Without gate and router the similarity decides, or nothing is left to try.
CosineOnly ==
    /\ Undecided /\ Program.gate = "cosine"
    /\ Decided("COSINE", IF Lookup.hit THEN "REUSE" ELSE "BYPASS", Lookup.matched)

NoOtherCache ==
    /\ Undecided /\ Program.gate = "none"
    /\ Decided("BYPASS", "BYPASS", << >>)

Routed(tier) == Undecided /\ Program.gate = "router" /\ Tier = tier

\* The sealed evaluation holds AUTO_REUSE to the rule guards, and bypasses
\* whatever has no matched text.
GuardsRefuse ==
    /\ Program.guarded
    /\ Lookup.matched = << >> \/ ~EvaluateRuleGuards(Wording[MatchedText], Wording[Query])

AutoReuse ==
    /\ Routed("AUTO_REUSE")
    /\ IF GuardsRefuse THEN Decided("BYPASS", "BYPASS", Lookup.matched)
       ELSE Decided("AUTO_REUSE", "REUSE", Lookup.matched)

Bypass == Routed("BYPASS") /\ Decided("BYPASS", "BYPASS", Lookup.matched)

\* Arm (d) compares the query with itself when the match has no text.
LocalEquivalence ==
    /\ Routed("AMBIGUOUS") /\ Program.ambiguous = "local"
    /\ LET candidate == IF Lookup.matched = << >> THEN Query ELSE MatchedText
       IN IF Program.guarded /\ Lookup.matched = << >>
          THEN Decided("BYPASS", "BYPASS", Lookup.matched)
          ELSE Decided("LOCAL_EQUIVALENCE",
                       LocalDecision(Wording[candidate], Wording[Query],
                                     RawPrediction[candidate][Query], LocalThreshold),
                       Lookup.matched)

BudgetExhausted == Program.budget # "none" /\ judge_calls_made >= max_judge_calls

\* The first load test halts: the query is neither answered nor recorded.
BudgetHalts ==
    /\ Routed("AMBIGUOUS") /\ Program.budget = "halts" /\ BudgetExhausted
    /\ phase' = "done"
    /\ UNCHANGED <<driver, stream, event, store, canonical, telemetry, judge_calls_made, judgeVars>>

\* The second one bypasses and goes on.
BudgetBypasses ==
    /\ Routed("AMBIGUOUS") /\ Program.budget = "bypasses" /\ BudgetExhausted
    /\ Decided("BUDGET_BYPASS", "BYPASS", Lookup.matched)

AskJudge ==
    /\ Routed("AMBIGUOUS") /\ Program.ambiguous = "judge" /\ ~BudgetExhausted
    /\ JudgeStart
    /\ phase' = "judging"
    /\ UNCHANGED <<driver, stream, event, store, canonical, telemetry, judge_calls_made>>

Judging == phase = "judging" /\ JudgeNext /\ UNCHANGED streamVars

\* The demonstration stops at a judge that failed; the others take BYPASS.
JudgeDecides ==
    /\ phase = "judging" /\ JudgeReturn
    /\ judge_calls_made' = judge_calls_made + 1
    /\ IF Program.stops /\ verdict.fallback_triggered
       THEN /\ phase' = "done"
            /\ UNCHANGED <<driver, stream, event, store, canonical, telemetry>>
       ELSE Settle("JUDGED", IF JudgeSaysReuse THEN "REUSE" ELSE "BYPASS", Lookup.matched)

\* What may come next: any query, or the next event of the sealed stream.
Upcoming ==
    IF Program.sealed
    THEN [query : Queries, seed : BOOLEAN, matched_seed_id : 0..Len(stream)]
    ELSE [query : Queries, seed : {FALSE}, matched_seed_id : {0}]

Next ==
    \/ \E e \in Upcoming : TakeQuery(e)
    \/ StreamRefused \/ DatasetRefused
    \/ EndOfStream \/ CanonicalExact \/ CosineOnly \/ NoOtherCache \/ AutoReuse \/ Bypass
    \/ LocalEquivalence \/ BudgetHalts \/ BudgetBypasses \/ AskJudge \/ Judging \/ JudgeDecides

Spec == Init /\ [][Next]_vars

\* One thread runs the program, and each request ends by the client's timeout.
FairSpec == Spec /\ WF_vars(Next)

--------------------------------------------------------------------------------
Metadata == {<< >>} \cup (Nat \X Queries)
Paths == {"CANONICAL_EXACT", "COSINE", "AUTO_REUSE", "BYPASS", "LOCAL_EQUIVALENCE",
          "BUDGET_BYPASS", "JUDGED"}
Records == [query : Queries, seed : BOOLEAN, path : Paths, decision : {"REUSE", "BYPASS"},
            matched : Metadata, fallback : BOOLEAN]

\* Every variable of the stream and of the judge has its type.
TypeOK ==
    /\ driver \in Drivers
    /\ phase \in {"next", "deciding", "judging", "done"}
    /\ event \in [query : Queries, seed : BOOLEAN, matched_seed_id : Nat]
    /\ store.vectors \in Seq(Queries) /\ store.metadata \in Seq(Metadata)
    /\ telemetry \in Seq(Records)
    /\ judge_calls_made \in Nat
    /\ JudgeTypeOK

Reused(i) == telemetry[i].decision = "REUSE"
Generated(i) == telemetry[i].decision = "BYPASS" \/ telemetry[i].seed
Gate(i) == Classify(CuesOf[telemetry[i].query], "FORWARD_TO_CACHE_CANDIDATE")

\* An answer that the vector store gave was earned: past the exact cache and
\* the cosine-only arm, no query is answered from the cache unless the gate
\* found it STABLE with enough confidence; an automatic reuse is close to what
\* it reuses, a judged one was approved by an answer of the model (never by a
\* fallback after errors, filters or unparseable answers), and the sealed
\* evaluation reuses nothing across a guard (wrong number, wrong polarity,
\* wrong name) unless the wording is canonically the same.
ReuseJustified ==
    \A i \in 1..Len(telemetry) :
        Reused(i) =>
            LET r == telemetry[i]
                sim == Similarity[r.matched[2]][r.query]
            IN /\ r.matched # << >>
               /\ r.path \notin {"CANONICAL_EXACT", "COSINE"} =>
                     Gate(i).effective = "STABLE" /\ Gate(i).confidence >= 80 /\ sim >= 50
               /\ r.path = "AUTO_REUSE" => sim >= 92 /\ Gate(i).confidence >= 90
               /\ r.path = "COSINE" => sim >= 85
               /\ r.path = "CANONICAL_EXACT" =>
                     Canonical[r.matched[2]] = Canonical[r.query] /\ Canonical[r.query] # NoKey
               /\ ~r.fallback
               /\ (Program.guarded /\ r.path # "CANONICAL_EXACT") =>
                     EvaluateRuleGuards(Wording[r.matched[2]], Wording[r.query])

\* Vectors and metadata are two lists that only positions connect: each
\* metadata is that of its vector, they are the queries that were answered
\* afresh, in order and once each, and what is reused is one of them that came
\* earlier.  In a sealed stream the answer of a follow-up's seed is among them
\* when the follow-up comes, wherever shuffling and lags have put the two.
AnswersAligned ==
    /\ Len(store.vectors) = Len(store.metadata)
    /\ \A i \in 1..Len(store.vectors) :
          /\ store.metadata[i][2] = store.vectors[i]
          /\ Generated(store.metadata[i][1])
          /\ telemetry[store.metadata[i][1]].query = store.vectors[i]
          /\ i > 1 => store.metadata[i - 1][1] < store.metadata[i][1]
    /\ Program.gate # "none" =>
          Len(store.vectors) = Cardinality({i \in 1..Len(telemetry) : Generated(i)})
    /\ \A i \in 1..Len(telemetry) :
          Reused(i) => /\ telemetry[i].matched[1] < i
                       /\ Generated(telemetry[i].matched[1])
    /\ (Program.sealed /\ phase = "deciding" /\ ~event.seed) =>
          \E i \in 1..Len(store.vectors) :
              /\ store.metadata[i][1] = event.matched_seed_id
              /\ <<store.vectors[i], Query>> \in SealedPairs

\* Every stream comes to its end, however often the provider is busy, fails, is
\* blocked or answers what cannot be parsed: the retries of a call are counted
\* and the request to reformat is the last one.
StreamFinishes == <>(phase = "done")
================================================================================
