------------------------------ MODULE AgentWorkflow ------------------------------
(***************************************************************************)
(* AgentWorkflow of src/src/agents/workflow.py: a specialist drafts, a     *)
(* reviewer that never reads the cache approves, and every call is charged *)
(* to a budget.  Several runs share one GatewayService, whose slots may be *)
(* taken and whose cache keeps the drafts of the specialists.  The cache   *)
(* is a ScopedResponseCache ("exact") or a GuardedSemanticCache            *)
(* ("guarded"), which may spend one call on a verifier before generating.  *)
(***************************************************************************)
EXTENDS Integers, FiniteSets

CONSTANTS Runs,               \* calls of run(), each on a thread of its own
          Keys,               \* tenant, question and context of a run
          Caches,             \* the caches the service may have
          max_provider_calls, \* the budget of a run
          max_inflight        \* slots of the service

ASSUME WorkflowAssumption ==
    /\ Caches \subseteq {"exact", "guarded"}
    /\ max_provider_calls \in Nat \ {0, 1}
    /\ max_inflight \in Nat \ {0}

VARIABLES cache,     \* which cache the service has
          cached,    \* keys whose specialist's draft is cached
          inflight,  \* runs inside service.complete()
          at,        \* where each run is
          key,
          calls,     \* budget_charged_calls
          unknown,   \* runs with a stage whose provider_calls is None
          drafted,   \* runs with a draft
          upstream   \* history: calls that really went upstream, per run

workflowVars == <<cache, cached, inflight, at, key, calls, unknown, drafted, upstream>>

Stages == {"specialist", "reviewer"}
Ended == {"COMPLETED", "NEEDS_HUMAN_REVIEW", "FAILED"}

WorkflowInit ==
    /\ cache \in Caches
    /\ cached = {}
    /\ inflight = {}
    /\ at = [r \in Runs |-> "idle"]
    /\ key = [r \in Runs |-> CHOOSE k \in Keys : TRUE]
    /\ calls = [r \in Runs |-> 0]
    /\ unknown = {}
    /\ drafted = {}
    /\ upstream = [r \in Runs |-> 0]

Goto(r, where) == at' = [at EXCEPT ![r] = where]

Begin(r, k) ==
    /\ at[r] = "idle"
    /\ key' = [key EXCEPT ![r] = k]
    /\ Goto(r, "specialist")
    /\ UNCHANGED <<cache, cached, inflight, calls, unknown, drafted, upstream>>

--------------------------------------------------------------------------------
\* invoke(): nothing is sent once the budget is spent.
Exhausted(r) ==
    /\ at[r] \in Stages /\ r \notin inflight
    /\ calls[r] >= max_provider_calls
    /\ Goto(r, "FAILED")
    /\ UNCHANGED <<cache, cached, inflight, key, calls, unknown, drafted, upstream>>

\* service.complete() raises, having sent `sent' calls: one call is charged and
\* the stage's count is unknown.
Raise(r, sent) ==
    /\ Goto(r, "FAILED")
    /\ calls' = [calls EXCEPT ![r] = @ + 1]
    /\ unknown' = unknown \cup {r}
    /\ upstream' = [upstream EXCEPT ![r] = @ + sent]
    /\ UNCHANGED <<cache, cached, key, drafted>>

\* Mutant: a stage is let in although the budget is spent.
AffordableAlways(r) == at[r] \in Stages /\ r \notin inflight

Affordable(r) == at[r] \in Stages /\ r \notin inflight /\ calls[r] < max_provider_calls

\* GatewayBusy: no slot is free, nothing is sent.
Busy(r) ==
    /\ Affordable(r) /\ Cardinality(inflight) = max_inflight
    /\ Raise(r, 0)
    /\ UNCHANGED inflight

EnterService(r) ==
    /\ Affordable(r) /\ Cardinality(inflight) < max_inflight
    /\ inflight' = inflight \cup {r}
    /\ UNCHANGED <<cache, cached, at, key, calls, unknown, drafted, upstream>>

--------------------------------------------------------------------------------
\* What the cache may spend on a verifier before it generates: the reviewer
\* bypasses it, and the guarded cache needs a candidate.
VerifierCalls(r) ==
    IF at[r] = "specialist" /\ cache = "guarded" /\ cached \ {key[r]} # {} THEN {0, 1} ELSE {0}

\* complete() returns: `used' is its provider_calls, and an inadmissible
\* response fails the stage after it has been accounted for.
Returned(r, used) ==
    /\ r \in inflight /\ inflight' = inflight \ {r}
    /\ calls' = [calls EXCEPT ![r] = @ + used]
    /\ upstream' = [upstream EXCEPT ![r] = @ + used]
    /\ UNCHANGED <<cache, key, unknown>>

\* The specialist's draft comes from the cache, or from a candidate that a
\* verifier or an earlier approval lets pass.
DraftReused(r) ==
    /\ at[r] = "specialist"
    /\ \/ key[r] \in cached /\ Returned(r, 0)
       \/ cache = "guarded" /\ cached \ {key[r]} # {} /\ \E v \in VerifierCalls(r) : Returned(r, v)
    /\ drafted' = drafted \cup {r}
    /\ Goto(r, "reviewer")
    /\ UNCHANGED cached

\* The specialist generates; the draft is cached unless the policy or a bound
\* of the cache is against it.
DraftGenerated(r, stored) ==
    /\ at[r] = "specialist" /\ key[r] \notin cached
    /\ \E v \in VerifierCalls(r) : Returned(r, v + 1)
    /\ drafted' = drafted \cup {r}
    /\ cached' = IF stored THEN cached \cup {key[r]} ELSE cached
    /\ Goto(r, "reviewer")

\* One boolean decides; anything else the reviewer says fails the run.
ReviewerDecides(r, verdict) ==
    /\ at[r] = "reviewer"
    /\ Returned(r, 1)
    /\ Goto(r, verdict)
    /\ UNCHANGED <<cached, drafted>>

\* The provider answers, but not with one complete answer.
Incomplete(r) ==
    /\ at[r] = "specialist" => key[r] \notin cached
    /\ \E v \in VerifierCalls(r) : Returned(r, v + 1)
    /\ Goto(r, "FAILED")
    /\ UNCHANGED <<cached, drafted>>

\* The provider raises, after a verifier was perhaps called.
ProviderFails(r) ==
    /\ r \in inflight /\ inflight' = inflight \ {r}
    /\ at[r] = "specialist" => key[r] \notin cached
    /\ \E v \in VerifierCalls(r) : Raise(r, v + 1)

\* The cache drops a draft: it expires, is evicted or invalidated.
Forget(k) ==
    /\ k \in cached
    /\ cached' = cached \ {k}
    /\ UNCHANGED <<cache, inflight, at, key, calls, unknown, drafted, upstream>>

Step(r) ==
    \/ Exhausted(r) \/ Busy(r) \/ EnterService(r)
    \/ DraftReused(r) \/ \E stored \in BOOLEAN : DraftGenerated(r, stored)
    \/ \E verdict \in Ended : ReviewerDecides(r, verdict)
    \/ Incomplete(r) \/ ProviderFails(r)

WorkflowNext ==
    \/ \E r \in Runs : Step(r) \/ \E k \in Keys : Begin(r, k)
    \/ \E k \in Keys : Forget(k)

WorkflowSpec == WorkflowInit /\ [][WorkflowNext]_workflowVars

--------------------------------------------------------------------------------
\* WorkflowResult.provider_calls; None if a stage's count is unknown.
Reported(r) == IF r \in unknown THEN "None" ELSE calls[r]

\* No run sends more calls than its budget, although a stage is let in with
\* less left than it may need; a number that is reported is exact; and with an
\* exact cache even the charge of a failed run covers what was sent.
CallsAccounted ==
    \A r \in Runs :
        /\ upstream[r] <= max_provider_calls
        /\ r \notin unknown => Reported(r) = upstream[r]
        /\ cache = "exact" => upstream[r] <= calls[r]
================================================================================
