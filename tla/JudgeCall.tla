------------------------------- MODULE JudgeCall -------------------------------
(***************************************************************************)
(* The remote judge (src/src/decision/judge_call.py): one call asks the    *)
(* provider up to MaxRetries + 1 times, then once more to reformat an      *)
(* answer that does not parse, and ends in a verdict whatever happens.     *)
(* judge() blocks, so a call has no other actor than the provider.         *)
(***************************************************************************)
EXTENDS Naturals

CONSTANT MaxRetries  \* retries of a rate limited or transient failure (3)

ASSUME MaxRetriesAssumption == MaxRetries \in Nat

VARIABLES backend,     \* which API the judge speaks
          jstate,      \* where the call is
          requests,    \* requests sent for this call
          retries_used,
          verdict      \* the JudgeResult of the call, until it is taken

judgeVars == <<backend, jstate, requests, retries_used, verdict>>

\* "unavailable": no key, or the client library fails; client stays None.
Backends == {"openrouter", "gemini", "unavailable"}
JudgeStates == {"idle", "asking", "reformatting", "answered"}

\* What the JSON of the model says; "malformed" stands for whatever
\* _clean_and_parse_json returns None for.
ModelOutputs == [decision : {"REUSE", "BYPASS"}, is_safe : BOOLEAN]
JudgeResult == [decision : {"REUSE", "BYPASS"}, is_safe : BOOLEAN,
                fallback_triggered : BOOLEAN, names_quota : BOOLEAN]

\* names_quota: the error text has "429", "rate" or "quota" in it.
BypassFallback == [decision |-> "BYPASS", is_safe |-> FALSE,
                   fallback_triggered |-> TRUE, names_quota |-> FALSE]

\* REUSE is kept only if the model also says that it is safe.
Coerced(parsed) ==
    LET safe == parsed.is_safe /\ parsed.decision = "REUSE"
    IN [decision |-> IF safe THEN "REUSE" ELSE "BYPASS", is_safe |-> safe,
        fallback_triggered |-> FALSE, names_quota |-> FALSE]

JudgeInit ==
    /\ jstate = "idle"
    /\ requests = 0 /\ retries_used = 0
    /\ verdict = BypassFallback

Conclude(result) ==
    /\ jstate' = "answered"
    /\ verdict' = result

--------------------------------------------------------------------------------
\* judge() is called: without a client it answers BYPASS at once.
JudgeStart ==
    /\ jstate = "idle"
    /\ retries_used' = 0
    /\ IF backend = "unavailable"
       THEN Conclude(BypassFallback) /\ requests' = 0
       ELSE jstate' = "asking" /\ requests' = 1 /\ UNCHANGED verdict
    /\ UNCHANGED backend

\* A failure that may be retried: gemini's exceeded quota, and for openrouter
\* a server error or a lost connection as well.
RetriedByGemini == {"rate_limit"}
RetriedByOpenRouter == {"rate_limit", "transient"}
Retryable(failure) ==
    failure \in IF backend = "openrouter" THEN RetriedByOpenRouter ELSE RetriedByGemini

JudgeRetry(failure) ==
    /\ jstate = "asking"
    /\ Retryable(failure) /\ retries_used < MaxRetries
    /\ retries_used' = retries_used + 1
    /\ requests' = requests + 1
    /\ UNCHANGED <<backend, jstate, verdict>>

\* Any other exception, and a failure that has used up the retries; its text
\* becomes the error, and may name a quota whatever the failure.
JudgeFail(failure) ==
    /\ jstate = "asking"
    /\ ~(Retryable(failure) /\ retries_used < MaxRetries)
    /\ \E named \in BOOLEAN :
          /\ failure = "rate_limit" => named
          /\ Conclude([BypassFallback EXCEPT !.names_quota = named])
    /\ UNCHANGED <<backend, requests, retries_used>>

\* finish_reason names a safety filter (openrouter) or is not STOP (gemini).
JudgeBlocked ==
    /\ jstate = "asking"
    /\ Conclude(BypassFallback)
    /\ UNCHANGED <<backend, requests, retries_used>>

JudgeAnswer(output) ==
    /\ jstate = "asking"
    /\ Conclude(Coerced(output))
    /\ UNCHANGED <<backend, requests, retries_used>>

\* The answer does not parse.  openrouter asks once more; gemini has only
\* completion.parsed left, which may hold the structured answer.
JudgeMalformed ==
    /\ jstate = "asking"
    /\ \/ backend = "openrouter" /\ jstate' = "reformatting"
          /\ requests' = requests + 1 /\ UNCHANGED verdict
       \/ backend = "gemini" /\ UNCHANGED requests
          /\ \/ \E output \in ModelOutputs : Conclude(Coerced(output))
             \/ Conclude(BypassFallback)
    /\ UNCHANGED <<backend, retries_used>>

\* The second answer; its finish_reason is not looked at.
JudgeReformatted(output) ==
    /\ jstate = "reformatting"
    /\ Conclude(Coerced(output))
    /\ UNCHANGED <<backend, requests, retries_used>>

\* Mutant: an answer that cannot be parsed starts the call over.
JudgeStartsOver ==
    /\ jstate = "reformatting"
    /\ jstate' = "asking"
    /\ requests' = 1 /\ retries_used' = 0
    /\ UNCHANGED <<backend, verdict>>

\* The second request fails or its answer does not parse either.
JudgeUnparseable ==
    /\ jstate = "reformatting"
    /\ Conclude(BypassFallback)
    /\ UNCHANGED <<backend, requests, retries_used>>

\* The call is over and its locals are gone: the caller takes the verdict, or
\* the process ends.
JudgeReset ==
    /\ jstate' = "idle"
    /\ requests' = 0 /\ retries_used' = 0
    /\ verdict' = BypassFallback

JudgeReturn == jstate = "answered" /\ JudgeReset /\ UNCHANGED backend

JudgeNext ==
    \/ \E failure \in {"rate_limit", "transient", "other"} :
          JudgeRetry(failure) \/ JudgeFail(failure)
    \/ \E output \in ModelOutputs : JudgeAnswer(output) \/ JudgeReformatted(output)
    \/ JudgeBlocked \/ JudgeMalformed \/ JudgeUnparseable

JudgeTypeOK ==
    /\ backend \in Backends
    /\ jstate \in JudgeStates
    /\ requests \in 0..MaxRetries + 2
    /\ retries_used \in 0..MaxRetries
    /\ verdict \in JudgeResult

\* What JudgeDecisionStep.decide makes of the verdict: it asks whether it is
\* safe, not what it decided.
JudgeDecisionResult ==
    [decision |-> IF verdict.is_safe THEN "REUSE" ELSE "BYPASS",
     is_safe |-> verdict.is_safe, judge_result |-> verdict]

JudgeSaysReuse == JudgeDecisionResult.decision = "REUSE"
================================================================================
