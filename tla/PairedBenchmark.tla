----------------------------- MODULE PairedBenchmark -----------------------------
(***************************************************************************)
(* The answer benchmark: run_workload of src/src/benchmark/runner.py sends *)
(* every request of a workload through a cache and, in the other arm, to   *)
(* the provider afresh, and writes a trace that report.py validates before *)
(* it reports savings.  The cache is the exact ScopedResponseCache or the  *)
(* ExperimentalSemanticCache of semantic.py.  The run is serial; time      *)
(* passes between and during its calls.  A request stands for its tenant   *)
(* and body, an answer for the event that generated it.                    *)
(***************************************************************************)
EXTENDS Lru, Sequences

CONSTANTS Requests,
          ScopeOf,      \* tenant and everything but the question
          Cacheable,    \* ConservativeRulesPolicy's verdict on each request
          Similarity,   \* of two questions, in hundredths
          Policies,     \* of "exact", "similarity", "verified"
          Verdicts,     \* what the verifier may come to
          Dimensions,   \* lengths of the vectors the encoder may return
          FreshResults, \* what becomes of the fresh arm
          threshold, margin, ttl_seconds,
          Sizes,        \* bytes an answer may have
          StreamLength, MaxClock   \* bounds

\* The verdicts that the contract check lets through: it bounds the calls and
\* the usage, and compares nothing else.  A verifier that raises, or that breaks
\* the contract, leaves the record that was made before it was asked, which is
\* one of them: a call without usage or approval, and an error.
ContractVerdicts ==
    {v \in [calls : 0..1, usage : 0..1, approved : BOOLEAN, error : BOOLEAN] : v.usage <= v.calls}

ASSUME BenchmarkAssumption ==
    /\ Cacheable \in [Requests -> BOOLEAN]
    /\ Similarity \in [Requests -> [Requests -> -100..100]]
    /\ threshold \in -100..100 /\ margin \in 0..200 /\ ttl_seconds \in Nat \ {0}
    /\ Sizes \subseteq 1..MaxSize
    /\ Verdicts \subseteq ContractVerdicts
    /\ Dimensions \subseteq Nat \ {0}

VARIABLES policy,
          entries,      \* of the cache, with `order' and `bytes'
          order, bytes, clock,
          origins,      \* the runner's own: which event stored each request's answer
          stage,        \* "next", "lookup", "generate", "record" or "paused"
          request,      \* the request being served
          outcome,      \* the cache arm so far
          fresh,        \* the fresh arm, << >> until it has run
          events        \* the trace

cacheVars == <<entries, order, bytes>>
benchmarkVars == <<policy, cacheVars, clock, origins, stage, request, outcome, fresh, events>>

NoVerification == << >>
Arm(calls, used, answer) == [calls |-> calls, usage |-> used, answer |-> answer]
FailedArm(used) == Arm(1, used, 0)   \* an arm with an error has no response
NoVector == 0
Undecided == [status |-> "ERROR", candidate |-> 0, verification |-> NoVerification,
              dimension |-> NoVector, stored |-> FALSE, arm |-> FailedArm(0)]

BenchmarkInit ==
    /\ policy \in Policies
    /\ entries = [q \in {} |-> 0] /\ order = {} /\ bytes = 0
    /\ clock = 0
    /\ origins = [q \in {} |-> 0]
    /\ stage = "next"
    /\ request = CHOOSE q \in Requests : TRUE
    /\ outcome = Undecided /\ fresh = << >> /\ events = << >>

Id == Len(events) + 1

Tick ==
    /\ clock < MaxClock /\ stage # "paused"
    /\ clock' = clock + 1
    /\ UNCHANGED <<policy, cacheVars, origins, stage, request, outcome, fresh, events>>

NextRequest(q) ==
    /\ stage = "next" /\ Len(events) < StreamLength
    /\ request' = q
    /\ stage' = "lookup"
    /\ UNCHANGED <<policy, cacheVars, clock, origins, outcome, fresh, events>>

\* The fresh arm, before or after the cache's: the answer is complete, or not
\* (its usage is known all the same), or the provider raises.
FreshArm(result) ==
    /\ stage \in {"lookup", "record"} /\ fresh = << >>
    /\ fresh' = IF result = "complete" THEN Arm(1, 1, Id)
                ELSE FailedArm(IF result = "raises" THEN 0 ELSE 1)
    /\ UNCHANGED <<policy, cacheVars, clock, origins, stage, request, outcome, events>>

\* RunPaused leaves run_workload from wherever a provider or verifier raises
\* it: the cache and the trace are its locals, and gone.
RunPaused ==
    /\ stage \in {"lookup", "generate", "record"}
    /\ stage' = "paused"
    /\ entries' = [q \in {} |-> 0] /\ order' = {} /\ bytes' = 0
    /\ origins' = [q \in {} |-> 0]
    /\ outcome' = Undecided /\ fresh' = << >> /\ events' = << >>
    /\ UNCHANGED <<policy, clock, request>>

--------------------------------------------------------------------------------
\* The lookup drops what has expired: the exact cache the entry it found, the
\* semantic one every entry.
Expired ==
    {q \in DOMAIN entries : entries[q].expires <= clock /\ (policy = "exact" => q = request)}
Kept == DOMAIN entries \ Expired

\* Drop the expired entries and use `hit', if it is one, as the latest.
Purge(hit) ==
    /\ entries' = Keep(entries, Kept)
    /\ bytes' = bytes - BytesOf(entries, Expired)
    /\ order' = IF hit \in Kept THEN MoveToEnd(KeepOrder(order, Kept), Kept, hit)
                ELSE KeepOrder(order, Kept)

Hit(entry, candidate, verification) ==
    /\ outcome' = [outcome EXCEPT !.status = "HIT", !.candidate = candidate,
                       !.verification = verification, !.arm = Arm(0, 0, entry.answer)]
    /\ stage' = "record"

\* dimension: of the request's own vector.
ToProvider(verification, dimension) ==
    /\ outcome' = [outcome EXCEPT !.verification = verification, !.dimension = dimension]
    /\ stage' = "generate"

Looking == stage = "lookup" /\ Cacheable[request]
Unmoved == UNCHANGED <<policy, clock, origins, request, fresh, events>>

Bypass ==
    /\ stage = "lookup" /\ ~Cacheable[request]
    /\ stage' = "generate"
    /\ UNCHANGED <<cacheVars, outcome>> /\ Unmoved

ExactHit ==
    /\ Looking /\ request \in Kept
    /\ Purge(request)
    /\ Hit(entries[request],
           IF policy # "exact" THEN entries[request].event
           ELSE IF request \in DOMAIN origins THEN origins[request] ELSE 0,
           NoVerification)
    /\ Unmoved

ExactMiss ==
    /\ Looking /\ policy = "exact" /\ request \notin Kept
    /\ Purge(request)
    /\ ToProvider(NoVerification, NoVector)
    /\ Unmoved

--------------------------------------------------------------------------------
\* Candidates are the entries of the same scope; the best must reach the
\* threshold and be ahead of the next by the margin.
Candidates == {q \in Kept : ScopeOf[q] = ScopeOf[request]}
Score(q) == Similarity[q][request]
IsBest(q) == q \in Candidates /\ \A p \in Candidates : Score(p) <= Score(q)
Separated(q) == \A p \in Candidates \ {q} : Score(q) - Score(p) >= margin
Acceptable(q) == IsBest(q) /\ Score(q) >= threshold /\ Separated(q)

Semantic == Looking /\ policy # "exact" /\ request \notin Kept

\* The encoder fails: nothing is reused, and nothing will be indexed.
EncoderFails ==
    /\ Semantic /\ Purge(request)
    /\ ToProvider(NoVerification, NoVector)
    /\ Unmoved

\* A vector can only be compared with vectors of its length.
Comparable(d) == \A q \in Candidates : entries[q].dimension = d

\* Nothing is compared then and nothing reused, but the vector is there to be
\* indexed with the answer.
DimensionChanged(d) ==
    /\ Semantic /\ Purge(request)
    /\ ~Comparable(d)
    /\ ToProvider(NoVerification, d)
    /\ Unmoved

NoCandidate(d) ==
    /\ Semantic /\ Purge(request)
    /\ Comparable(d) /\ ~\E q \in Candidates : Acceptable(q)
    /\ ToProvider(NoVerification, d)
    /\ Unmoved

\* The similarity policy asks nobody.
SimilarityHit(q) ==
    /\ Semantic /\ policy = "similarity" /\ Acceptable(q) /\ Comparable(entries[q].dimension)
    /\ Purge(q)
    /\ Hit(entries[q], entries[q].event, NoVerification)
    /\ Unmoved

\* Mutant: an approval counts, with an error or without.
VerifyApproved(q, v) ==
    /\ Semantic /\ policy = "verified" /\ Acceptable(q) /\ Comparable(entries[q].dimension)
    /\ IF v.approved
       THEN Purge(q) /\ Hit(entries[q], entries[q].event, v)
       ELSE Purge(request) /\ ToProvider(v, entries[q].dimension)
    /\ Unmoved

\* The verifier decides; what it came to is recorded whatever it is.
Verify(q, v) ==
    /\ Semantic /\ policy = "verified" /\ Acceptable(q) /\ Comparable(entries[q].dimension)
    /\ IF v.approved /\ ~v.error
       THEN Purge(q) /\ Hit(entries[q], entries[q].event, v)
       ELSE Purge(request) /\ ToProvider(v, entries[q].dimension)
    /\ Unmoved

--------------------------------------------------------------------------------
\* The provider's answer is kept if it is complete, was asked for by a
\* cacheable request, has a vector if one is needed, and fits.
Admit(size) ==
    LET entry == [event |-> Id, answer |-> Id, payload_bytes |-> size,
                  expires |-> clock + ttl_seconds, dimension |-> outcome.dimension]
        more == [q \in DOMAIN entries \cup {request} |-> IF q = request THEN entry ELSE entries[q]]
        later == MoveToEnd(order, DOMAIN more, request)
        left == Survivors(more, later, bytes + size)
    IN /\ entries' = Keep(more, left)
       /\ order' = KeepOrder(later, left)
       /\ bytes' = bytes + size - BytesOf(more, DOMAIN more \ left)
       /\ origins' = [q \in DOMAIN origins \cup {request} |-> IF q = request THEN Id ELSE origins[q]]

Generated(size) ==
    /\ stage = "generate"
    /\ LET stored == /\ Cacheable[request] /\ size <= MaxBytes
                     /\ policy = "exact" \/ outcome.dimension # NoVector
       IN /\ IF stored THEN Admit(size) ELSE UNCHANGED <<cacheVars, origins>>
          /\ outcome' = [outcome EXCEPT !.status = IF Cacheable[request] THEN "MISS" ELSE "BYPASS",
                             !.stored = stored, !.arm = Arm(1, 1, Id)]
    /\ stage' = "record"
    /\ UNCHANGED <<policy, clock, request, fresh, events>>

\* An incomplete answer, or none: the arm has failed, its attempt counts.
NotGenerated(used) ==
    /\ stage = "generate"
    /\ outcome' = [outcome EXCEPT !.arm = FailedArm(used)]
    /\ stage' = "record"
    /\ UNCHANGED cacheVars /\ Unmoved

Record ==
    /\ stage = "record" /\ fresh # << >>
    /\ events' = Append(events,
          [request |-> request, status |-> outcome.status, stored |-> outcome.stored,
           candidate |-> outcome.candidate, verification |-> outcome.verification,
           cache |-> outcome.arm, fresh |-> fresh])
    /\ stage' = "next"
    /\ outcome' = Undecided /\ fresh' = << >>
    /\ UNCHANGED <<policy, cacheVars, clock, origins, request>>

BenchmarkNext ==
    \/ \E q \in Requests : NextRequest(q) \/ SimilarityHit(q) \/ \E v \in Verdicts : Verify(q, v)
    \/ \E result \in FreshResults : FreshArm(result)
    \/ \E d \in Dimensions : NoCandidate(d) \/ DimensionChanged(d)
    \/ Bypass \/ ExactHit \/ ExactMiss \/ EncoderFails
    \/ \E size \in Sizes : Generated(size)
    \/ \E used \in {0, 1} : NotGenerated(used)
    \/ Record \/ RunPaused \/ Tick

BenchmarkSpec == BenchmarkInit /\ [][BenchmarkNext]_benchmarkVars

--------------------------------------------------------------------------------
(* What report.py makes of the trace. *)

\* validate_trace, one event at a time.
ValidArm(arm) == arm.calls >= 0 /\ arm.usage <= arm.calls
ValidVerification(v) ==
    v # NoVerification =>
        /\ v.calls \in 0..1 /\ v.usage <= v.calls
        /\ ~(v.error /\ v.approved)

ValidHit(i) ==
    LET e == events[i]
        source == events[e.candidate]
    IN /\ e.candidate \in 1..i - 1
       /\ source.status = "MISS" /\ source.stored
       /\ ScopeOf[source.request] = ScopeOf[e.request]
       /\ source.request # e.request =>
             /\ policy \in {"similarity", "verified"}
             /\ policy = "verified" =>
                   /\ e.verification # NoVerification
                   /\ e.verification.approved /\ ~e.verification.error
       /\ source.cache.answer = e.cache.answer
       /\ e.cache.calls = 0

ValidService(i) ==
    LET e == events[i]
    IN /\ e.stored => e.status = "MISS"
       /\ ValidArm(e.cache) /\ ValidArm(e.fresh)
       /\ e.fresh.calls = 1
       /\ e.status # "HIT" => e.cache.calls = 1 /\ e.candidate = 0
       /\ e.status = "ERROR" <=> e.cache.answer = 0
       /\ e.status = "HIT" => ValidHit(i)

ValidEvent(i) == ValidService(i) /\ ValidVerification(events[i].verification)

\* summarize and diagnose: the counts of the report.
Events == 1..Len(events)
StatusCount(s) == Cardinality({i \in Events : events[i].status = s})
Attempts(arm) == Cardinality({i \in Events : events[i][arm].calls = 1})
VerifierAttempts ==
    Cardinality({i \in Events : events[i].verification # NoVerification /\ events[i].verification.calls = 1})
AttemptsAvoided == Attempts("fresh") - Attempts("cache") - VerifierAttempts
Eligible == Cardinality({i \in Events : Cacheable[events[i].request]})

\* diagnose: terminal outcomes, those of requests seen before, and admissions.
Repeated == {i \in Events : \E j \in 1..i - 1 : events[j].request = events[i].request}
Diagnosis ==
    [terminal |-> [s \in {"HIT", "MISS", "BYPASS", "ERROR"} |-> StatusCount(s)],
     eligible_requests |-> Eligible,
     stored |-> Cardinality({i \in Events : events[i].stored}),
     prior_same |-> [s \in {"HIT", "MISS", "BYPASS", "ERROR"} |->
                        Cardinality({i \in Repeated : events[i].status = s})],
     provider_work |-> [generation |-> Attempts("cache"), verifier |-> VerifierAttempts,
                        fresh |-> Attempts("fresh"), net_avoided |-> AttemptsAvoided]]

SumOver(counts) == counts.HIT + counts.MISS + counts.BYPASS + counts.ERROR

\* A verdict that approves and names an error: the contract check lets it through,
\* the trace records it, and validate_trace refuses it ("failed verifier cannot
\* approve").  No verifier of the repository gives one.
Contradicts(i) ==
    LET v == events[i].verification
    IN v # NoVerification /\ v.approved /\ v.error

\* Whatever the provider, the encoder and the clock do, and whatever verdicts the
\* contract check lets through, a run that is not paused leaves evidence that its
\* own validator accepts, event by event, but for the verdicts that contradict
\* themselves, which it refuses and which have served no hit.  A hit points at the
\* very event whose answer was served, in scope and affirmed without an error;
\* the savings reported are the hits less the verifier's calls, out of the
\* requests that were eligible.  The diagnosis reconciles with it: every event
\* has one outcome, each hit was once stored, by the exact cache for the very
\* request, and without a verifier it cost no call that was not a generation.
EvidenceHolds ==
    /\ \A i \in Events :
          /\ ValidEvent(i) <=> ~Contradicts(i)
          /\ Contradicts(i) => events[i].status # "HIT"
    /\ AttemptsAvoided = StatusCount("HIT") - VerifierAttempts
    /\ LET d == Diagnosis
       IN /\ SumOver(d.terminal) = Len(events)
          /\ d.terminal.HIT <= d.eligible_requests
          /\ d.terminal.HIT > 0 => d.stored > 0
          /\ d.stored <= d.terminal.MISS
          /\ policy = "exact" => d.prior_same.HIT = d.terminal.HIT
          /\ policy # "verified" => d.provider_work.net_avoided = d.terminal.HIT
    /\ bytes = BytesOf(entries, DOMAIN entries) /\ bytes <= MaxBytes
================================================================================
