# Verification of the adaptive agentic semantic cache

This directory holds TLA+ models of the program in `src/`, the TLC
configurations that check them, and proofs checked by TLAPS. Every definition
that stands for code is tied to its lines in `PROJECT.json` ("map").

Contents: [the system](#1-the-system), [modules and how they correspond to the
code](#2-the-modules), [what is checked](#3-what-tlc-checks),
[fairness](#4-fairness), [what is proved](#5-what-is-proved),
[findings](#6-disagreements-of-code-and-documentation),
[what is left out](#7-what-is-not-modelled), [the plan](#8-plan),
[running it](#9-running-it).

## 1. The system

The repository has two halves that share little code: a serving half (an
OpenAI-compatible gateway with exact and guarded semantic response caches, and
agents that use it), which is concurrent and persistent, and a research half (a
pipeline that classifies a query, looks it up in a vector store and decides
whether an answer may be reused, with benchmarks and evaluators), which is
sequential.

| Component | State it keeps | Operations | Used by |
|---|---|---|---|
| **Scoped response cache** `policy/response_cache.py` | ordered entries with expiry and size, byte count, epoch, lock stripes | `process`, `invalidate`, `size` | gateway service, guarded cache |
| **SQLite response store** `policy/sqlite_store.py` | rows with expiry and recency, epoch; shared by processes | `lookup`, `admit`, `invalidate`, `size` | response cache as its `storage` |
| **Guarded semantic cache** `policy/semantic_runtime.py` | knowledge scopes, a bounded index of candidates, the epoch it has noted | `process` (with `resolve` as the exact cache's `on_miss`), `invalidate`, `update_scope`, `semantic_size` | gateway service |
| **Gateway service** `api/service.py` | semaphore of slots, metrics | `complete`, `open_stream` | HTTP front end, agents |
| **Streaming** `api/streaming.py`, `api/gateway.py` | a session's progress and terminal flag, its handler task | `__next__`, `close`; the ASGI handler with its cancellation | clients |
| **Document agent** `agents/document_agent.py` | rows of tasks in SQLite | `create`, `advance`, `inspect`, `decide`, `delete`, `invalidate` | operators, any number of runners |
| **Pilot journal** `benchmark/free_pilot.py` | attempts and a block in SQLite, shared by runs | `reserve`, `finish`, `block_rate_limit`, the journaled provider | pilot runs |
| **Agent workflow** `agents/workflow.py` | a run's stage and charged calls | `run` | applications |
| Provider adapters, encoders | external services | a call | all of the above |
| **Stability classifier** `classifier/` | none | `classify` | stream drivers, evaluators |
| **Semantic cache** `cache/` | vectors and their metadata; canonical wordings | `index`, `lookup`; `put`, `get` | stream drivers, evaluators |
| **Decision pipeline** `decision/` | reuse history per domain; calibrated thresholds | `route`, `decide`, `judge`, calibration | stream drivers, evaluators |
| **Stream drivers** `scripts/run_*`, `demo/` | a stream, its caches, a budget of judge calls, telemetry | a loop over queries | people |
| **Feedback labelling** `scripts/label_synthetic_feedback.py`, `scripts/retry_fallback_pairs.py` | labels in a file, those of the session | a resumable session; another try for each fallback | calibration |
| **Evaluators** `evaluation/`, `scripts/run_cache_threshold_sweep.py` | confusion matrices during a run | `evaluate`, `threshold_sweep` | scripts |
| **Benchmark runner** `benchmark/runner.py`, `semantic.py`, `report.py` | a cache, the origins of its answers, a trace | `run_workload`, `validate_trace`, `summarize` | scripts |

How they interact: an HTTP request takes a slot of the service, which calls
`process` of a cache with the provider as a callback. The guarded cache wraps
the response cache: it gives it a key with the knowledge scope in it, and a
callback for misses, and indexes the answer after the exact cache has stored it.
The response cache keeps its entries in memory or, through the same interface of
lookup and admission, in a database that other processes use. Agents are clients
of the service; the document agent commits a reservation before each model call
and its result after it. The pilot puts its journal between a run and the
provider.

What is hard, and what makes each part correct:

* *Response cache.* The provider is called between the lookup and the
  admission, under a stripe but outside the lock: invalidations, expiry, other
  callers and a policy that changes its mind come in between. Nothing stale may
  be admitted, misses of one key are generated one at a time, bytes and entries
  stay in bounds with a running count kept in several places, no exit keeps a
  stripe.
* *SQLite store.* The same with several processes, whose stripes do not
  exclude each other, and with crashes and failing transactions anywhere.
* *Guarded cache.* Three copies of the truth (scopes, index, exact cache) under
  two locks, and calls of an encoder, an approver and a provider in between. A
  semantic hit must be valid when it is served.
* *Document agent.* A reservation, a model call and a result in two
  transactions; runners overtake each other, crash, and meet people's decisions
  and deletions. Calls stay in the budget, nobody's work is overwritten,
  nothing is published without right.
* *Gateway and streaming.* Handlers are cancelled while a worker thread opens
  or reads the upstream; a session may be closed from three sides. A slot is
  given back exactly once.
* *Agent workflow.* Several runs share slots and a cache; what a stage costs
  is known only afterwards, or never. The budget must hold all the same.
* *Stream drivers.* The justification of a reuse is spread over five modules
  with their own thresholds, and the position of a vector is all that ties an
  answer to its question. A judge call is a small protocol of its own, which
  must end in a verdict, and in BYPASS if anything fails.
* *Labelling and calibration.* Labels cost calls of a paid quota, sessions are
  capped, stopped and killed, and placeholders of failed calls lie in the same
  file as labels. Thresholds are only as good as the sample behind them.
* *Evaluators.* Seven matrices are kept side by side by code with six ways of
  deciding; they must describe the same pairs.
* *Benchmark runner.* The trace must prove, to a validator that sees nothing
  else, where each reused answer came from.
* *Pilot journal.* Quotas in three windows shared by processes that read the
  clock before they wait for the file; uncertain outcomes after a crash. No
  request is sent twice, no quota exceeded.

`PROJECT.json` lists each hazard at its line with the properties that cover it.

## 2. The modules

| Module | What it is |
|---|---|
| `CacheContract` | abstract specification: what an exact cache promises its callers |
| `Lru` | the bounded least-recently-used map used by three components |
| `CacheCalls` | `ScopedResponseCache.process` apart from its storage: callers, stripes, policy, provider |
| `ResponseCache` | `CacheCalls` with the storage in memory; implements `CacheContract` |
| `PersistentCache` | `CacheCalls` with the SQLite store, several processes and crashes; implements `CacheContract` |
| `GuardedCache` | the guarded semantic cache around an exact cache |
| `DocumentAgent` | tasks, runners, people |
| `Gateway` | requests from headers to answer: refusals, slots, handlers, stream sessions |
| `PilotJournal` | the journal, and the runs that call through it |
| `AgentWorkflow` | specialist and reviewer of several runs over one service |
| `StabilityClassifier`, `SemanticCache`, `TierRouter`, `ThresholdEngine`, `SealedStream` | operators: the gate, the stores, routing and guards, calibration, the builder of sealed streams |
| `JudgeCall` | one call of the remote judge: attempts, reformatting, verdict |
| `FeedbackLabelling` | `JudgeCall` with labelling sessions, their file and their crashes |
| `QueryStream` | nine programs that push queries through gate, caches, router and judge |
| `PairEvaluation` | labelling, calibration, the evaluators and the threshold sweep |
| `PairedBenchmark` | the benchmark runner, its semantic cache and its validator |
| `MC*` | instances for TLC |
| `*Proofs` | theorems (section 5) |

The serving modules fit together by assumption and guarantee: `GuardedCache`
takes of the exact cache only what `CacheContract` promises (it serves what is
stored for a key, may forget at any time, and admits an answer only in the epoch
of its lookup), and `Gateway` takes of `process` only that it ends.

**`CacheCalls`, `ResponseCache`.** A step of a caller is what a thread does
between two points where another can interfere: acquiring a stripe, one critical
section of `_lock`, the start or the end of a provider call. `pc[c]` is the place
in `process()`: *queued* before the stripe, *lookup* and *missed* before and
after the first critical section, *calling* during `generate`, *admitting* before
the last section, *bypass* when the cache is not used. Requests are their keys.
The `OrderedDict` is the function `entries` with the relation `older`; a payload
is the number of its bytes, and `payload_bytes` the program's own running count,
updated where the program updates it. The eviction loop is the operator
`Survivors`: the entries that stay when the oldest go until both sums are in
bounds. The eligibility policy is the application's, so each of the three times
it is asked it may answer either way. `Finish` is every way out of the
`with stripe` block. `invalidations` and `born` are history: how often each
tenant was invalidated, and that number when a generation began. They are never
read by a guard.

**`PersistentCache`.** The table's rows in `entries`, the column `touched` as an
order, each method of the store one action because it is one `BEGIN IMMEDIATE`
transaction. `LookupFails`, and the failure in `NotAdmitted`, are transactions
that are rolled back. `Crash(p)` ends a process with its callers; the table and
its epoch stay. A stripe belongs to a process.

**`GuardedCache`.** `call[c]` holds the locals of `process()`: scope, generation,
vector, candidate, generation time. Actions follow it in order (`Begin` reads the
scope, `ReadGeneration`, `ExactHit`/`ExactMiss`, `Retrieve`, the approver's
answers `Approved`, `NotApproved`, `Revoked`, then `Return` and `Index`).
`InvalidateElsewhere` is an invalidation by another process, which the index
learns of only from the epoch. Similarity is a matrix `Score` of queries.

**`DocumentAgent`.** `rows` is the table, `lock` the write lock. `Reserve`
is the first transaction of `advance()`, `Enter`/`Send`/`Finish` the second,
which holds the lock during the call; `GiveUp` is a reload that finds the task
changed or deleted, or a lock that was waited for too long; `Crash` undoes what
is not committed. Tool steps need no call and are one transaction (`RunTool`). A
draft is the number of the reservation it was written under, which makes
"another draft" visible. `sent`, `inspected` and `decided` are history.

**`Gateway`.** `pc[r]` is the handler or, after a cancellation, what is left of
it. The handler of `/v1/chat/completions` refuses in the order of its checks
(`Unauthorized`, `BadHeader`, `BadBody`, `Invalid`, `Busy`); *reading* is the wait
for the body, *dispatched* the wait for a worker thread, which then tries to get a
slot. A worker thread is not interrupted: `LeftOf` says what a cancellation leaves
at each point, `Opened` may find its handler gone, and then its callback cleans
up. `reply` is history: how the handler answered, if anybody was left to answer. `session` has the fields of `StreamSession` that
steer it, `wire` the events handed to the response for its client, `tally` what was
counted. The response is *sending* until the client took what there was (`Send`) and
*streaming* when it asks for the next event (`Event`, after which it sends again). An
upstream event is one of eight, by what it carries; *bad* stands for everything
the parser refuses, errors, time limits and an upstream that just ends.

**`PilotJournal`.** `journal[run][ordinal]` is the table, `blocked_until` the
control row, `pc[p]` the place in `__call__`. `ReadClock` is a step of its own
since the code reads the clock before it waits for the file's lock. `Replay` and
`Pause` are what a restarted run does with what it finds. Time has days of
`DayLength` and minutes of `Minute` ticks.

**`AgentWorkflow`.** `at[r]` is the stage of a run, `inflight` the runs inside
`service.complete()`. A stage is let in while `calls[r] < max_provider_calls`;
how many calls it costs is settled when it returns: none (a cached draft), one
(a verifier that lets a candidate pass, or the provider), or two (a verifier that
does not, then the provider). `Raise` is the handler that charges one call
whatever was sent and marks the count as unknown; `upstream`, which is history,
counts what was really sent.

**`StabilityClassifier`, `SemanticCache`, `TierRouter`, `ThresholdEngine`,
`SealedStream`.** Operators without state. A query is the set of *cues* that the
regular expressions and the trained model find in it; two vectors are as close as
the table `Similarity` says; a text is the *wording* the guards extract from it.
Similarities, confidences and thresholds are in hundredths, which is the precision
in which the code writes its boundaries. A store is the two lists it is in the
code, and `Search` reads the metadata by position as the code does.

**`JudgeCall`.** `jstate` is the place in `_judge_openrouter` or
`_judge_gemini`, which differ in what they retry, in what a filter is, and in
the request to reformat that only the first one sends. Whatever the model may
return is a pair of a decision and a safety flag, or malformed.

**`FeedbackLabelling`.** `saved` is the file. `SaveOpens` empties it and
`SaveEnds` writes it, since `open(..., "w")` truncates before anything is
written; `SessionCrashes` may come between them. A session that finds such a file
starts afresh, as the code does. `GenuineFeedback` is what the calibration reads.
`program` tells the sessions from `retry_fallback_pairs.py`, which does the same to
the calls of an evaluation: it has no cap, takes a spent quota for a fallback like
any other (`RetryReturned`), refuses a file that does not parse (`RetryStarts`) and
writes once, when every fallback has been asked for again (`RetryCloses`); killed
before that, it has changed nothing.

**`QueryStream`.** The nine programs differ in the stages they have and in what a
spent budget or a failed judge does, so a program is a record of its choices
(`ArmC`, `Demo EXCEPT ...`) and the actions are shared. `Settle` is the end of
the loop's body: the record of telemetry and the population of the caches. A seed
of a sealed stream is indexed whatever becomes of it. The canonical cache is
asked before the gate, as `docs/phase8_walkthrough.md:37` says.

**`PairEvaluation`.** `setup` is how `DecisionEvaluator` was built. A dataset that
does not validate raises before anything is counted (`DatasetInvalid`). `Decide`
holds the order of precedence in the ambiguous tier (forced bypass, decision step,
engine), `TrackJudged` the later override of the prediction where the judge is
the only engine. `Tally` counts one pair in every matrix. The weighted score is
exact integer arithmetic, in units in which every weight and band width is whole.
`matrix` is what the code accumulates, `counted` the history of pairs it is
compared with. The rates of the report are fractions of counts (`Rates`,
`DecisionMetrics`), compared by multiplying out. An evaluation by the production
judge is `run_gemini_eval.py`: `Detail` is the record of a judged call, `SaveCalls`
writes them, and `Retrying` is `retry_fallback_pairs.py` on that file, with the
matrix it recomputes (`Merged`); the provider is the one that the environment names
(`JUDGE_BACKEND`). `run_openrouter_eval.py` evaluates in the same way, without a key
runs nothing (`NoApiKey`), and writes a file of its own that nothing reads again, so
that only the calls of the former can be retried. The script adds the counts of the
two other tiers as literals: these are the constant `RouterCounts`, and what is said of
the merged matrix is said where they are the counts of the evaluation.
`Calibrate` is `run_phase4_calibration.py`, which raises when there is no file of
labels, and only saves its thresholds; an engine that decides pairs with them is what
the tests of the evaluator build. The stage *subforums*
is the calibration by logistic regression on the pairs of question forums:
`ProcessSubforum` builds labelled pairs and their features, `FitSubforums` fits a
model per forum when all of them have been visited, and saves it. `approval` is
history: whether the judge that was asked for this pair answered REUSE itself. What a fit estimates is a choice (`Fits` in `ThresholdEngine`): two
coefficients, here the two ends between which its threshold lies; the threshold
that the program takes from it, the exact bound of Clopper and Pearson that gates
it and the fallback are the code's.

**`PairedBenchmark`.** One request at a time, the fresh arm before or after the
cache's; time passes during each. The exact cache is reduced to what one thread
sees of it. The verifier is whatever is passed in, so it may come to every verdict
that the contract check lets through (`ContractVerdicts`); a verifier that raises or
breaks the contract leaves the record made before it was asked, which is one of these.
Vectors have a dimension: one that cannot be compared with the candidates' ends the
lookup (`DimensionChanged`), but is there to be stored with the answer, while an encoder
that fails leaves none (`EncoderFails`). `ValidEvent` is `validate_trace`, `Diagnosis`
what `reuse_diagnosis.py` counts in the trace.

## 3. What TLC checks

| Run | Instance | Properties |
|---|---|---|
| `MCResponseCache` | 2 callers, 3 keys of 2 tenants, two of them on one stripe, 2 entries, 3 bytes, answers of 1, 2 and 4 bytes, TTL 1, 1 tick, 1 invalidation, 3 requests | `NoStaleEntry`, `StorageBounded`, `MissesCoalesced`, `StoredIsCached`, `RequestsFinish`, `ImplementsContract` |
| `MCPersistentCache` | 3 threads in 2 processes, 2 keys of 2 tenants, 2 entries, 2 bytes, 1 crash, 1 tick, 1 invalidation, 3 requests; symmetric threads | `NoStaleRow`, `TableBounded`, `CoalescedInProcess`, `StoredIsCached`, `ImplementsContract` |
| `MCGuardedCache` | 2 callers, 3 requests, 2 tenants, 2 scopes, 2 entries, 4 bytes, TTL 1, 1 tick, 1 invalidation | `KnowledgeCurrent`, `IndexFresh`, `IndexBounded`, `SemanticHitIsValid` |
| `MCDocumentAgent` | 3 runners, 1 person, 1 task, 5 calls, 1 revision | `CallsReserved`, `PublishedByRight`, `DecidedAsSeen`, `WorkIsKept`, `TaskSettles` |
| `MCGateway` | 2 streams and 1 plain request for 2 slots, 2 events each before the one that ends the stream | `SlotsAccounted`, `CountedOnce`, `WireIsWellFormed`, `SlotsComeBack` |
| `MCPilotJournal` | 2 processes, each started for either of 2 runs, 3 calls a run, limits 2 a run, 2 a day, 3 a minute, days of 2 ticks, 3 points of time | `QuotasKept`, `SentOnce` |
| `MCPilotJournalPause` | the same | `RateLimitBlocks`, which is violated (section 6) |
| `MCAgentWorkflow` | 3 runs, 2 questions, 2 slots, both caches, a budget of 2 | `CallsAccounted` |
| `MCQueryStream` | 9 programs, 5 texts, streams of 3 queries, sealed streams of 3 pairs and a chat query with lags 2 and 3, 1 judge call of the budget, 1 retry | `ReuseJustified`, `AnswersAligned`, `StreamFinishes` |
| `MCPairEvaluation` | 6 constructions, 7 pairs on all sides of the boundaries, 2 evaluated; datasets of 2 pairs to label with 2 calls a session; forums of at most 2 pairs per label, fits that end at 60 or 95 | `ReportReconciles`, `FailClosed`, `OperatingPointClears`, `LabelsKept` |
| `MCPairEvaluationThreshold` | the same | `RecommendationProducesHits`, which is violated (section 6) |
| `MCPairedBenchmark` | 3 policies, 5 requests of 2 tenants, streams of 3, 2 entries, 2 bytes, TTL 1, 1 tick, vectors of 2 dimensions, 6 verdicts | `EvidenceHolds` |

`MCResponseCache`, `MCGuardedCache`, `MCDocumentAgent`, `MCGateway` and
`MCPilotJournal` check the module's type invariant too; that of `PersistentCache` is
only proved.

What the properties say, in short:

* `NoStaleEntry`, `NoStaleRow`: whatever is stored was asked of the provider
  after the last invalidation of its tenant, by whatever process.
* `StorageBounded`, `TableBounded`, `IndexBounded`: entries and bytes in bounds,
  the running counts equal to what they count, the eviction order total.
* `MissesCoalesced`, `CoalescedInProcess`: one generation of a key at a time.
* `StoredIsCached`: an answer that is reported stored was not evicted by its own
  admission, in memory or in the table.
* `ImplementsContract`: both storages refine `CacheContract`. A hit is a live
  answer of the own key; an admission happens only after a generation that no
  invalidation has overtaken; an invalidation leaves nothing of its tenants.
  `stored` is mapped to the *live* entries, `fresh` to the callers whose
  generation began after the last invalidation. Expiry and eviction are
  `Forget`, a crash is `Abandon`.
* `KnowledgeCurrent`, `IndexFresh`, `SemanticHitIsValid`: nothing generated under
  replaced knowledge is stored or indexed, and a semantic hit is, when served,
  of the tenant and scope, above the threshold, live and not invalidated,
  however long the approver took.
* `CallsReserved`: model calls sent never exceed what the row says or the budget,
  across crashes. `WorkIsKept`: a late runner undoes nothing. `PublishedByRight`:
  by a person, or with evidence by the reviewer, and never before the plan is
  done. `DecidedAsSeen`: a draft under decision does not change. `TaskSettles`:
  every task ends, waits for a person or is deleted.
* `SlotsAccounted`, `WireIsWellFormed`, `SlotsComeBack`: each slot is given back
  once, a client that reads `[DONE]` has read a whole answer, and a busy gateway
  becomes free if one of its clients reads or leaves. `CountedOnce` relates what the metrics counted to what the client
  was told: a request is counted as busy or as work done, never both; one that was
  refused has cost nothing else; one that was answered has been counted once, or is
  a stream that still holds its slot; and each session ends in one way.
* `QuotasKept`, `SentOnce`: in every day, every minute and every run no more
  attempts than allowed, and no call sent twice.
* `CallsAccounted`: no run sends more than its budget, although a stage is let in
  with less left than it may cost (a budget of at least two, and a reviewer that
  never asks a verifier, are what makes it true); a number that is reported is
  exact; with an exact cache even the charge of a failed run covers what was sent.
* `ReuseJustified`: every reuse of every program has passed the gate, the
  thresholds and the guards that its path promises, and no fallback of a failed
  judge ever reuses. `AnswersAligned`: position by position, the metadata is that
  of its vector, the stored queries are those answered afresh, in order, and a
  follow-up finds its own seed. `StreamFinishes`: every stream ends.
* `ReportReconciles`: seven matrices of one evaluation agree with each other and
  with the evaluator of the lookup, and the rates reported of them with the
  decisions they summarize; and what a retry of the fallbacks recomputes is of the
  same pairs and takes back no reuse. `FailClosed`: where only the judge can make a
  reuse of an ambiguous pair, as the production step or blended into a score, there is
  one only if the model, asked for this pair, answered REUSE itself; a judge that is
  unavailable, fails, is blocked or cannot be understood makes none, and neither does
  its answer to another pair.
* `OperatingPointClears`: what a calibrated threshold reuses of its feedback is
  bounded by the ceiling with confidence, and both gates on the size of the sample
  are met; if it was swept, no lower one of the sweep would do; if it was fitted,
  it is the threshold of that fit. Every other domain has the fallback.
  `LabelsKept`: a session, or a retry, loses no genuine label and saves none that
  the model did not give; what a crash inside a save loses is the whole file.
* `EvidenceHolds`: whatever fails, a run that is not paused leaves a trace of which
  its validator accepts every event but those with a verdict that approves and names an
  error; these it refuses, and none of them has served a reuse. The savings reported
  are hits less verifier calls, and the diagnosis of the trace adds up: every request
  has one outcome, no answer is reused before one was stored, and each reuse by the
  exact cache repeats a request.

Why the bounds are enough. One invalidation is what may fall between two steps of
a caller; the counters compare for equality only, so a second one adds no new
outcome to a caller that was overtaken by the first, while three requests let one
caller start before it and others after it. Two entries and three sizes make each
bound bind without the other (three entries of 1 byte; 2 + 2 bytes; an answer of
4 bytes that fits never). One tick and a TTL of 1 put expiry at and after its
boundary. Two keys share a stripe and a third does not, so that both waiting and
parallel generation happen. The three runners of the agent are the smallest
number of which one overtakes another while a third waits; its five calls allow
plan, draft, review, draft and review, and a sixth is refused. Three events are
text, end and usage, or text, end and `[DONE]`. In the pilot the daily limit of 2
binds within a day and the minute limit of 3 only across midnight, and the two
runs have six calls for them.

Three runs of a workflow for two slots are the smallest number that meets a busy
service, two questions the smallest for a candidate beside an exact miss. Three
queries are a seed, a reuse and a third one that would show a shift of positions;
the five texts put the similarities on 50, 91, 92 and 93 and the confidences on
both sides of 80 and 90. Three pairs of a sealed stream, two of them with one
seed, meet each other's slots and repeat a seed that is answered from the cache.
Two evaluated pairs suffice for sums that each pair enters alone; the seven lie
on and beside each boundary, safe and unsafe. A labelling dataset of two pairs
meets the gates on both sides, and with two calls a session one session may be
capped by a retry of a pair that failed in an earlier one. Three benchmark
requests are an answer, its reuse or eviction, and a reuse after it.

`CHECK_DEADLOCK FALSE` is set since every instance has bounded requests, clocks
or tasks and legitimately ends.

## 4. Fairness

Four runs check liveness.

* `ResponseCache!FairSpec`: weak fairness of each caller's steps. A provider call
  ends because its client has a timeout; a thread that can run is scheduled.
  Stripes are plain locks that promise no order, and weak fairness suffices: the
  requests of the instance are finite, so each wait ends.
* `DocumentAgent!FairSpec`: for each task, weak fairness of *somebody* advancing
  it. Nothing is assumed of a particular runner: each may crash or be overtaken
  for ever. Crashes and deletions are not fair.
* `Gateway!FairSpec`: weak fairness of what a worker thread or the event loop
  does for each request (the provider's read timeout bounds each event).
  Cancellation is not fair; no client need ever leave. Nor is `Send`: the response
  asks for its next event when `send()` of the last one returns, which a client
  that neither reads nor leaves can put off for ever (a send has no timeout, and
  the stream's deadline is looked at in the next read). `SlotsComeBack` is
  therefore conditional, request by request: the gateway becomes free again if
  *one* of the requests that hold a slot is again and again not blocked in a send,
  whatever the clients of the others do. A gateway whose slots are all held by
  clients that do not read stays busy; `docs/semantic_streaming_agents.md` says so
  ("Downstream backpressure can also delay completion").
* `QueryStream!FairSpec`: weak fairness of `Next`. The programs have one thread,
  which has nothing to wait for but requests, and these end by the client's
  timeout. That the judge's retries end is then a matter of counting them.

## 5. What is proved

TLAPS checks the theorems below for all values of the constants that satisfy the
named assumptions: `BoundsAssumption`, `CallersAssumption`,
`ResponseCacheAssumption`, `PersistentCacheAssumption`, `GuardedAssumption`,
`GatewayAssumption`, `AgentAssumption`, `WorkflowAssumption`, `JournalAssumption`,
`RowAssumption`, `SimilarityAssumption`, `StreamAssumption`, `DriversAssumption`,
`SealedAssumption`, `MaxRetriesAssumption`, `LabelAssumption`, `EngineAssumption`
and `EvaluationAssumption`. Each says of which kind a parameter is, and no more than
the constructors of the code check or its literals say. Every safety invariant and
action property that the runs check is proved.

| Theorem | States |
|---|---|
| `ResponseCacheProofs!TypeCorrect` | `Spec => []TypeOK` |
| `ResponseCacheProofs!NothingStaleIsCached` | `Spec => []NoStaleEntry` |
| `ResponseCacheProofs!IdenticalMissesCoalesce` | `Spec => []MissesCoalesced` |
| `ResponseCacheProofs!StorageStaysBounded` | `Spec => []StorageBounded` |
| `ResponseCacheProofs!StoredAnswersAreCached` | `Spec => StoredIsCached` |
| `ResponseCacheProofs!Refinement` | `Spec => ImplementsContract` |
| `PersistentCacheProofs!TypeCorrect` | `Spec => []TypeOK` |
| `PersistentCacheProofs!NothingStaleIsStored` | `Spec => []NoStaleRow` |
| `PersistentCacheProofs!TableStaysBounded` | `Spec => []TableBounded` |
| `PersistentCacheProofs!StoredAnswersAreCached` | `Spec => StoredIsCached` |
| `PersistentCacheProofs!MissesCoalesceInProcess` | `Spec => []CoalescedInProcess` |
| `PersistentCacheProofs!Refinement` | `Spec => ImplementsContract` |
| `GuardedCacheProofs!TypeCorrect` | `Spec => []TypeOK` |
| `GuardedCacheProofs!KnowledgeStaysCurrent` | `Spec => []KnowledgeCurrent` |
| `GuardedCacheProofs!IndexStaysFresh` | `Spec => []IndexFresh` |
| `GuardedCacheProofs!IndexStaysBounded` | `Spec => []IndexBounded` |
| `GuardedCacheProofs!SemanticHitsAreValid` | `Spec => SemanticHitIsValid` |
| `GatewayProofs!TypeCorrect` | `Spec => []TypeOK` |
| `GatewayProofs!SlotsAreAccounted` | `Spec => []SlotsAccounted` |
| `GatewayProofs!RequestsAreCountedOnce` | `Spec => []CountedOnce` |
| `GatewayProofs!WireStaysWellFormed` | `Spec => []WireIsWellFormed` |
| `ApplicationProofs!CallsAreAccounted` | `WorkflowSpec => []CallsAccounted` |
| `ApplicationProofs!TypeCorrect` | `Spec => []TypeOK`, of the document agent |
| `ApplicationProofs!CallsAreReserved` | `Spec => []CallsReserved` |
| `ApplicationProofs!AnswersArePublishedByRight` | `Spec => []PublishedByRight` |
| `ApplicationProofs!DecisionsAreAsSeen` | `Spec => []DecidedAsSeen` |
| `ApplicationProofs!WorkStaysKept` | `Spec => WorkIsKept` |
| `ApplicationProofs!EvidenceIsSound` | `BenchmarkSpec => []EvidenceHolds` |
| `ResearchProofs!ReusesAreJustified` | `Spec => []ReuseJustified` |
| `ResearchProofs!AnswersStayAligned` | `Spec => []AnswersAligned` |
| `ResearchProofs!LabelsAreKept` | `LabelSpec => []LabelsKept` |
| `ResearchProofs!LabelsStayKept` | `EvaluationSpec => []LabelsKept` |
| `ResearchProofs!FailsClosed` | `EvaluationSpec => []FailClosed` |
| `ResearchProofs!OperatingPointsClear` | `EvaluationSpec => []OperatingPointClears` |
| `ResearchProofs!ReportStaysReconciled` | `EvaluationSpec => []ReportReconciles` |
| `ResearchProofs!TypesAreKept` | `JournalSpec => []JournalTypeOK` |
| `ResearchProofs!QuotasAreKept` | `JournalSpec => []QuotasKept` |
| `ResearchProofs!CallsAreSentOnce` | `JournalSpec => []SentOnce` |

`LruProofs` and `CacheCallsProofs` hold what the caches share: lemmas about the
bounded map, and about the steps of callers, which do not mention the storage.
`ApplicationProofs` holds both agents and the paired benchmark, `ResearchProofs` everything of the research half
and the journal that measures it; the modules proved about there have names for
their specifications that do not clash.

*Bounded map.* `Survivors` is what remains when the oldest entries go. That there is
an oldest (`OldestExists`) is the existence of a minimal element of a finite order,
from the library's theorem on well-founded relations; that both bounds hold
afterwards, that the entry just admitted survives if it fits at all, and that the
sum of the survivors is the running count less what went, are the lemmas that the
three components with such a map use.

*Response cache.* `NoStaleEntry` is not inductive: admission compares epochs, the
property counts invalidations of a tenant. The invariant is
`TypeOK /\ LocksHeld /\ EpochsSeen /\ MissesAbsent /\ NoStaleEntry /\
OlderOrders /\ StorageBounded`. `LocksHeld`: a caller past its stripe holds it. `EpochsSeen`: the
epoch a caller has read is not in the future and, if it is still the current one, no
tenant has been invalidated since its generation began, so the comparison in `Store`
is as good as the comparison of invalidations. `MissesAbsent`: the key of a caller
between miss and admission is not cached, which needs `LocksHeld` for the other
callers of that key (they wait for the same stripe). `MissesCoalesced` follows
from `LocksHeld` and `MissesAbsent`. `StoredIsCached` is a property of the step that
stores, by the lemma on the entry just admitted.

*Contract.* Each `Refinement` maps every step to a step of `CacheContract` or to a
stutter: `InitContract` for the initial states, `NextContract` with one case per
action, from the invariant. A lookup that finds a live entry is the contract's hit;
a store whose epoch still is the one that was read is an admission because of
`EpochsSeen`, and one that evicts is an admission that forgets; a tick makes
entries forgotten by their expiry. In the persistent store, where an epoch is read
and compared inside transactions of other processes, a crash abandons the calls of
its process, and a transaction that is rolled back stutters.

*SQLite store.* The invariant has the same shape, `TypeOK /\ CallsInv /\ Bounded /\
NoStaleRow`, but `LocksHeld` is about the stripes of a process, so nothing like
`MissesAbsent` holds: another process may insert the row of a key that is being
generated. `NoStaleRow` rests on `EpochsSeen` alone, which therefore speaks of all
callers of all processes. `touched` stays a total order of the rows through all of
it, without which there would be no oldest row to evict.

*Guarded cache.* `Ground /\ Remembered /\ Held /\ Counted /\ Calling`: what
everything is measured by (scopes, epoch, clock), what the exact cache remembers,
what the index holds and by which epoch, its running count, and the locals of each
caller by its place in `process()`. The heart are `Asked` and `Answered`: *as long as*
nothing was invalidated since the lookup missed (since the generation was read), the
answer under way is up to date. The hit of an approved candidate is validated by the
comparisons that the code makes after the approver has answered;
`SemanticHitIsValid` is therefore proved of the step `Return` with `Proposed`.

*Gateway.* The invariant relates, for each request, its place to its counters, its
session and its answer (`Account`), and its wire to what the session remembers
(`Told`). A step is about one request, so the rest is a matter of the slots: those of
a request move by at most one, and in the direction of its place (`SlotMoves`). A
session that is closed from three sides is closed once since `Account` says where its
slot is at each of its places.

*Document agent.* `CallsReserved` needs to know whose reservation is still
unused: the invariant is `TypeOK /\ LockHeld /\ OwnReservation /\ Unsent /\
Budget`. `LockHeld`: the runner in the second transaction, and no
other, holds the write lock, and the row is still what it saved. `OwnReservation`:
runners that are under way for a task hold different reservations of it, none
higher than the row's. `Unsent`: as long as the runner with the latest reservation
has not sent, fewer calls were sent than reserved; since only the runner whose row
is unchanged may send, this is all that is needed. `Budget`: calls sent do not
exceed the reservations, and these do not exceed `max_calls`; it holds of deleted
tasks too, whose ids are never given out again. What is said of the rows needs a
second invariant over this one, `RowsInv`: the fields of a row fit its status
(`Shape`), a draft that was decided on is the end of it (`DecidedEnds`), and what a
person saw was the draft that waited (`SeenCreated`). `WorkIsKept` is a property of
steps: a row only ever goes on (`Follows`) or is kept (`Keeps`), by `LockHeld` for
runners and by the statuses that `decide` and `invalidate` accept for people.

*Agent workflow.* `CallsAccounted` alone says nothing about a run that is about to
be let in. The invariant follows each run: `Untouched`, nothing is charged or sent
before the specialist's stage ends; `GoesOn`, a run that goes on has a known count;
`LetIn`, whoever is inside the service is in a stage and had a call left; and what
is to be shown, `Bounded`, `Exact` and `Covered`. The lemma `VerifierCost` (only a
specialist over a guarded cache may spend a second call) is where the reviewer's
bypass is used. Without the assumption of a budget of at least two, which the
constructor checks, the theorem is false.

*Paired benchmark.* What the report needs was decided when a request was served, which
may be long before: the invariant `ArmsTypeOK /\ Traceable /\ CacheBounded /\
ArmGoesOn /\ TraceValid` follows each entry of the cache back to the event that stored
it (`Traceable`: an earlier miss of the same tenant, task and document version, with
that answer and that time), so that a hit about to be recorded is one the validator
accepts (`HitJustified`, in `ArmGoesOn`); every event recorded so far is served validly
and has the counts of its status (`TraceValid`). A verdict that contradicts itself is
the only thing left that a validator can object to, and no hit was served on one, since
a hit needs an approval without an error (`Affirms`). The bound in bytes comes from the lemmas on the bounded map.
`ReportCounts` then counts events: what the report says of them
follows from cardinalities of sets that include, or miss, one another.

*Labelling.* `LabelsKept` compares the file with the labels of the last session,
which the session that runs now holds in memory. The invariant says what it owes
them (`Owed`: each genuine label of the file it began with or has written last is
among its own, unchanged), what a readable file is (`Written`), that each genuine
label in memory or in the file is an answer of the model (`Genuine`), and that the
pair which is being asked for has no genuine label (`Wanted`), so that no label is
overwritten. `RecordKeeps` is what the two programs share: recording the answer for
the pair that was asked disturbs nothing else. That the next pending pair is pending
needs the least element of a set of numbers. `LabelSpec` has the whole protocol of
the judge in it; of that, the proof needs only that the judge does not touch labels.

*Evaluation and calibration.* `EvaluationSpec` has the labelling inside it, and
`LabelledStays` carries that invariant along. `FailClosed` adds what calls of the judge
leave, however they end (`JudgeSound`: a fallback permits nothing, and a verdict that
permits is an answer to reuse, so that `SafeIsApproved`), that the prediction for the
pair under way rests on such an answer where it needs one (`Closed`), and arithmetic: a
blended score without the judge's half stays under the threshold (`CombinedBelowOne`). `OperatingPointClears`
is about calibration, which is one step: `SweepClears` proves of the threshold that
the sweep chooses that it is one of the sweep, clears the ceiling, and is the least
that does; `LogisticClears` that a fit meets the gates of size (`GatesAreMet`);
`FallbackClears` the rest. `Collecting` and `Calibrated` say that an engine, if there
is one, was fitted on the feedback that is kept.

*The report.* `ReportReconciles` compares sums over matrices, and nothing that sums can
be followed by unfolding a definition once. The lemmas therefore begin with
sums: a fold over a finite set unfolds by one element at a time (`Unfolds`,
`SumUnfolds`), there is a function that does so for each finite set, by a least set
without one (`SumsExist`), and a sum over pairs grows by what the last pair adds
(`SumGrows`). The invariant `Reconciled` compares the matrices cell by cell, as the pairs are
counted: the prediction is what the router decided, if it did (`RouterObeyed`); the tiers add up to
the whole (`TiersAgree`); each rule has counted every pair, and the fixed threshold as
it would count them now (`TotalsAgree`); the judge's matrix differs from the router's
in the ambiguous tier only (`JudgeAgrees`). `CallsAreKept` follows the calls into
the file of the retries: a call that is asked again was a fallback, which never was a
reuse, so a retry can only add reuses. `OutcomesPartition` adds up the merged counts, and
fractions are compared by their products, as the module does.

*Query streams.* A reuse is recorded when the judge returns, by the lookup that the
router saw earlier. `Awaiting` says that this lookup is still the one the router
called ambiguous; `VerdictSound` that a fallback never permits; `Aligned` and
`CanonicallyAligned` that the entry found by position, or by key, belongs to the
text that was compared. `NearestIsThere` proves that the maximum the vector store
returns exists, and `RouterEarns` that a tier other than BYPASS implies the gate,
the confidence and the similarity. The theorem covers all nine programs, every
similarity table (nothing is assumed of it but its range) and any wording.

*Positions and sealed streams.* `AnswersAligned` adds to that invariant `Sourced`:
every entry of a store names a record of a query that was answered afresh
(`Filed`), all of these are in the index if there is one (`Complete`), what was
reused came from one of them (`Origins`), and a sealed stream is read in order
(`OnStream`). That a follow-up finds its seed then is a fact about the stream alone,
`Linked`, proved of every stream that `Assemble` can build (`StreamsLinked`): a free
slot always exists, as one more slot is looked at than is occupied
(`FirstFreeIsFree`); the recursive function of the placements exists, by the least
round that could not be gone through (`RoundsGoOn`); the slots of two pairs are apart
(`PairsApart`); and closing up keeps the order and loses nothing (`Positions`, an
injection of a finite set into its numbers).

*Pilot journal.* `QuotasKept` is kept since every step but `Reserve` leaves the set
of reserved rows and their times alone (`QuotasUntouched`), and `Reserve` counts
all three windows in the transaction that inserts its row. The count is made by the
clock that was read before the file was waited for; that rows of later times may be
in the journal by then is the case the lemma about `Reserve` has to deal with:
a window that contains the new row is compared with the window that was counted.
Days are compared by their midnights (`Days`). `SentOnce` needs `Exclusive`: a
process that has reserved and not sent is the only one at its call and nothing has
been sent for it, since a row, once written, stays.

Only model-checked: the liveness properties and everything about fairness, which are
out of TLAPS's reach. The two properties of section 6 are violated, so there is
nothing to prove about them.


## 6. Disagreements of code and documentation

`docs/free_pilot.md:78` says: "A provider rate-limit response blocks new project
calls conservatively until the next local UTC day." In `free_pilot.py:133` the
outcome is recorded in the journal by one transaction (`finish`) and the block
set by another (`block_rate_limit`). A process that ends in between, or finds the
file locked for longer than its timeout, leaves a journal that says
*rate_limited* and blocks nobody: other runs go on calling on the same day. The
run `MCPilotJournalPause` shows the shortest such behaviour (`Reserve`, `Send`,
`Fail`, `Crash`). `RateLimitBlocks` allows for the process that is about to block.

`scripts/run_cache_threshold_sweep.py:191` prints of the case without a
recommendation: "No threshold satisfies IRR_cache < " 10% "while producing hits >
0". `select_threshold` (lines 104-113) only asks for `irr_cache <
HAZARD_RATE_CEILING`, and `threshold_sweep` gives a point without hits the rate 0
(`evaluation/cache_evaluator.py:460`). So as soon as no threshold with hits is
safe, the lowest threshold *without* hits is recommended. The run
`MCPairEvaluationThreshold` shows it with one unsafe pair. The same choice per
domain is made right: `sweep_domain_thresholds` requires `hits > 0`
(`decision/adaptive_threshold_engine.py:424`).

Smaller observations made on the way, none of them a violated property:

* A crash while `label_synthetic_feedback.py` saves loses every label (the file is
  emptied before it is written), and the next session says "starting fresh".
* The comment at `agents/workflow.py:53` calls the charge of a failed stage
  conservative; over a guarded cache the stage may have sent two calls.
* `run_load_test.py:139` loads earlier records "to support resuming" and does not
  use them. The "judge budget" counts decisions, not requests to the provider.
* `retry_fallback_pairs.py:117-121` adds the counts of the two other tiers as
  literals (2, 50 and 36 of 120 pairs), so the metrics it rewrites are right for
  a benchmark with these counts only, which `ReportReconciles` supposes.
* A verifier may approve and name an error: the contract check of
  `benchmark/semantic.py:136-142` does not compare the two, the verdict goes into
  the trace, the provider is asked, and `report.py:99` refuses the whole trace. No
  verifier of the repository gives such a verdict.
* The finish reason of the judge's second, reformatted answer is not looked at.
* `_has_completed_temporal_anchor` takes "in 2099" for a completed event.
* Pairs of the AUTO_REUSE tier take part in the calibration of thresholds that are
  only ever used for the ambiguous tier.
* With a threshold engine and a judge, `decision_evaluator.py:459` announces a
  prediction "populated from judge_hit below" which stays a miss; no script builds
  that combination, and `ReportReconciles` covers it as it is.

## 7. What is not modelled

* Contents: texts, JSON, prompts, hashing (a key is the request it is the digest
  of). What HTTP parsing and authentication find is the refusal it leads to. The
  gateway's health, metrics and dashboard read only; `DELETE /v1/cache` is
  `Invalidate` of the cache modules.
* Validation of requests and configuration is the refusal it leads to.
* Provider adapters and encoders are external: they answer, fail, or take as
  long as their timeouts allow.
* Clocks that are set back, and a `KnowledgeScope` that is changed in one process
  but not in another that shares the store (listed as hazards without a property).
* `GuardedCache` is modelled in guarded mode; *off*, *exact* and *shadow* leave
  out steps of it.
* The document agent's texts, evidence quotes and prompts: a review's verdict is
  free, an answer that fails validation fails the task.
* The regular expressions of the rule engine, of the normaliser and of the guards,
  the trained weights, the embeddings and the cross encoder: tables.
  `LightweightHeuristicClassifier` is used by no program.
* The arithmetic of a logistic regression (its estimates are choices), and the
  saving and loading of thresholds and indexes.
* The demonstration's replay of recorded judgements, the comparison of internal collisions and other flags of the drivers that only
  inspect a dataset, plots and printed tables.
* `stability_evaluator.py`: one confusion matrix over a pure function.
* The builders of workloads and datasets, views, bootstraps and the agreement of
  reviewers: pure functions from files to files.

Much of the repository's code cannot carry a model: the longest files
(`build_and_validate_synthetic_pairs.py`, `build_phase6_sealed_dataset.py`,
`generate_pdf_report.py`, several other builders) are literal texts of queries and
of report paragraphs written out by straight-line code, and a large part of the
evaluators and drivers prints tables and writes JSON.

## 8. Plan

Everything in sections 2 to 5 is done: every invariant and action property that the
runs check is proved, as are both refinements. The rest are the liveness
properties, which TLC checks on the instances of section 4. What could follow:

1. The store behind `PersistentCache` in finer steps, should it ever leave SQLite:
   its transactions are atomic here because SQLite's are.
2. The two hazards that have no property (section 7): a clock that is set back, and
   scopes that change in one of two processes which share a store.

## 9. Running it

    tlc -workers 2 -config MCResponseCache.cfg MCResponseCache   # and the others
    tlapm ResponseCacheProofs.tla                                # and the others
