----------------------------- MODULE GuardedCache ------------------------------
(***************************************************************************)
(* GuardedSemanticCache of src/src/policy/semantic_runtime.py in guarded   *)
(* mode, around an exact cache.  The exact cache is what ResponseCache     *)
(* shows it to be: a set of live answers that may be dropped at any time,  *)
(* a stripe per key, and an epoch that every invalidation moves on.        *)
(* A request is a tenant and a query, the last user message; everything    *)
(* else in it is the same for all.  Encoding a query gives its score       *)
(* against the others; the approver is the operator's, and may answer as   *)
(* it likes.  A step is a critical section of _lock or a provider call;    *)
(* what other callers do to the exact cache while _lock is held touches    *)
(* neither the index nor the scopes, and so commutes with it.              *)
(***************************************************************************)
EXTENDS Lru

CONSTANTS
    Callers, Tenants, Queries,
    Requests,                  \* the pairs <<tenant, query>> that are asked
    Scopes, InitialScope,      \* values of KnowledgeScope
    Default,                   \* the tenant_id=None of update_scope
    Texts, SizeOf,             \* what the provider may answer, and its size
    Score,                     \* similarity of two queries, in hundredths
    Threshold, Margin,         \* threshold and margin, likewise
    TTL,                       \* exact._ttl_seconds
    Nothing,
    MaxClock, MaxEpoch, MaxRequests   \* bounds of the model

ASSUME GuardedAssumption ==
    /\ Requests \subseteq Tenants \X Queries
    /\ Nothing \notin Requests /\ Nothing \notin Nat
    /\ InitialScope \in Scopes
    /\ Default \notin Tenants
    /\ SizeOf \in [Texts -> 1..MaxSize]
    /\ Score \in [Queries -> [Queries -> Int]]
    /\ {Threshold, Margin} \subseteq Int
    /\ TTL \in Nat \ {0}
    /\ {MaxClock, MaxEpoch, MaxRequests} \subseteq Nat

VARIABLES
    scopes,          \* _default_scope and _scopes: tenant or Default -> scope
    index, older,    \* _entries: its candidates, and their order
    bytes,           \* _bytes
    generation,      \* _generation
    exact,           \* the live answers of the exact cache, by key
    epoch,           \* exact.invalidation_epoch
    pc, call,        \* where each caller is in process(), and its locals
    reply,           \* what the last step returned to its caller, if it did
    clock, begun,
    invalidations    \* history: invalidations of each tenant so far

indexVars == <<index, older, bytes, generation>>
vars == <<scopes, indexVars, exact, epoch, pc, call, reply, clock, begun,
          invalidations>>

ScopeIn(s, t) == IF t \in DOMAIN s THEN s[t] ELSE s[Default]
ScopeOf(t) == ScopeIn(scopes, t)

\* An answer remembers, beside its text, when and under which knowledge the
\* provider was asked for it (history: knowledge and born).
Answer == [text : Texts, at : Nat, knowledge : Scopes, born : Nat]

ExactKey == {<<r[1], s, r[2]>> : r \in Requests, s \in Scopes}

\* The key of a candidate is the digest of all of these.
CandidateKey == {<<k, x>> : k \in ExactKey, x \in Texts}
Candidate == [answer : Answer, payload_bytes : 1..MaxSize, expires : Nat]

NoCall == [request |-> Nothing, scope |-> Nothing, generation |-> Nothing,
           seen |-> 0, vector |-> FALSE, candidate |-> Nothing, at |-> 0,
           knowledge |-> Nothing, born |-> 0, answer |-> Nothing]

Init ==
    /\ scopes = [t \in {Default} |-> InitialScope]
    /\ index = [k \in {} |-> 0]
    /\ older = {}
    /\ bytes = 0
    /\ generation = Nothing
    /\ exact = [k \in {} |-> 0]
    /\ epoch = 0
    /\ pc = [c \in Callers |-> "idle"]
    /\ call = [c \in Callers |-> NoCall]
    /\ reply = Nothing
    /\ clock = 0
    /\ begun = 0
    /\ invalidations = [t \in Tenants |-> 0]

--------------------------------------------------------------------------------
(* The index: every use of it first takes note of the exact cache's epoch. *)

Silent == reply' = Nothing
Goto(c, point) == pc' = [pc EXCEPT ![c] = point]
KeyOf(c) == <<call[c].request[1], call[c].scope, call[c].request[2]>>
Namespace(k) == <<k[1], k[2]>>

\* Mutant: _sync_generation notes the new epoch and keeps the candidates.
SyncedIgnoringEpoch == index

\* _sync_generation: what is left of the index.
Synced == IF generation = epoch THEN index ELSE Keep(index, {})

SyncedBytes == IF generation = epoch THEN bytes ELSE 0

\* _sync_generation and _expire.
Current == Keep(Synced, {k \in DOMAIN Synced : Synced[k].expires > clock})

\* The index becomes m, in this order, after _sync_generation.
SetIndex(m, order) ==
    /\ index' = m
    /\ older' = KeepOrder(order, DOMAIN m)
    /\ generation' = epoch

\* _sync_generation, and m is all that is left: the bytes of the rest are given
\* back.
Shrink(m) ==
    /\ SetIndex(m, older)
    /\ bytes' = SyncedBytes - BytesOf(Synced, DOMAIN Synced \ DOMAIN m)

Finish(c, status, answer) ==
    /\ Goto(c, "idle")
    /\ call' = [call EXCEPT ![c] = NoCall]
    /\ reply' = [status |-> status, answer |-> answer, key |-> KeyOf(c)]

\* No hit: the provider is asked, and the candidate forgotten.
Generate(c, vector) ==
    /\ Goto(c, "generating")
    /\ call' = [call EXCEPT ![c].vector = vector, ![c].candidate = Nothing,
                    ![c].at = clock,
                    ![c].knowledge = ScopeOf(call[c].request[1]),
                    ![c].born = invalidations[call[c].request[1]]]
    /\ Silent

--------------------------------------------------------------------------------
\* process() reads the scope of the tenant under _lock.
Begin(c, r) ==
    /\ pc[c] = "idle"
    /\ begun < MaxRequests
    /\ begun' = begun + 1
    /\ Goto(c, "scoped")
    /\ call' = [call EXCEPT ![c].request = r, ![c].scope = ScopeOf(r[1])]
    /\ Silent
    /\ UNCHANGED <<scopes, indexVars, exact, epoch, clock, invalidations>>

\* Later, under _lock again, it reads the generation it will rely on.
ReadGeneration(c) ==
    /\ pc[c] = "scoped"
    /\ Shrink(Synced)
    /\ Goto(c, "active")
    /\ call' = [call EXCEPT ![c].generation = epoch]
    /\ UNCHANGED <<scopes, exact, epoch, clock, begun, invalidations>>
    /\ Silent

\* The epoch cannot be read: the request goes on without the semantic tier.
ScopeUnavailable(c) ==
    /\ pc[c] = "scoped"
    /\ Goto(c, "active")
    /\ UNCHANGED <<scopes, indexVars, exact, epoch, call, clock, begun,
                   invalidations>>
    /\ Silent

StripeFree(c) ==
    \A d \in Callers \ {c} :
        pc[d] \in {"missed", "resolving", "approving", "generating"} => KeyOf(d) # KeyOf(c)

\* exact.process refuses the request, or has no use of its storage, or raises.
Bypass(c) ==
    /\ pc[c] = "active"
    /\ Finish(c, "BYPASS", Nothing)
    /\ UNCHANGED <<scopes, indexVars, exact, epoch, clock, begun, invalidations>>

ExactHit(c) ==
    /\ pc[c] = "active"
    /\ StripeFree(c)
    /\ KeyOf(c) \in DOMAIN exact
    /\ Finish(c, "HIT", exact[KeyOf(c)])
    /\ UNCHANGED <<scopes, indexVars, exact, epoch, clock, begun, invalidations>>

\* Mutant: resolve is passed on whether or not the epoch could be read.
ExactMissResolved(c) ==
    /\ pc[c] = "active"
    /\ StripeFree(c)
    /\ KeyOf(c) \notin DOMAIN exact
    /\ Goto(c, "resolving")
    /\ call' = [call EXCEPT ![c].seen = epoch]
    /\ UNCHANGED <<scopes, indexVars, exact, epoch, clock, begun,
                   invalidations>>
    /\ Silent

\* An eligible miss, with the semantic tier (resolve) or without.
ExactMiss(c) ==
    /\ pc[c] = "active"
    /\ StripeFree(c)
    /\ KeyOf(c) \notin DOMAIN exact
    /\ Goto(c, IF call[c].generation = Nothing THEN "missed" ELSE "resolving")
    /\ call' = [call EXCEPT ![c].seen = epoch]
    /\ UNCHANGED <<scopes, indexVars, exact, epoch, clock, begun,
                   invalidations>>
    /\ Silent

WithoutSemantics(c) ==
    /\ pc[c] = "missed"
    /\ Generate(c, FALSE)
    /\ UNCHANGED <<scopes, indexVars, exact, epoch, clock, begun, invalidations>>

--------------------------------------------------------------------------------
(* resolve *)

ScoreOf(c, k) == Score[call[c].request[2]][k[1][3]]

\* Candidates of the caller's tenant and scope.
Candidates(c, m) == {k \in DOMAIN m : Namespace(k[1]) = Namespace(KeyOf(c))}

\* The best candidate, when it clears the threshold and leads by the margin.
Selected(c, m) ==
    {k \in Candidates(c, m) :
        /\ ScoreOf(c, k) >= Threshold
        /\ \A j \in Candidates(c, m) \ {k} :
              /\ ScoreOf(c, j) <= ScoreOf(c, k)
              /\ ScoreOf(c, k) - ScoreOf(c, j) >= Margin}

\* Retrieval: no candidate clears, or one goes to the approver.
Retrieve(c) ==
    /\ pc[c] = "resolving"
    /\ Shrink(Current)
    /\ \/ /\ Selected(c, Current) = {}
          /\ Generate(c, TRUE)
       \/ \E k \in Selected(c, Current) :
             /\ Goto(c, "approving")
             /\ call' = [call EXCEPT ![c].candidate = <<k, Current[k]>>,
                             ![c].vector = TRUE]
             /\ Silent
    /\ UNCHANGED <<scopes, exact, epoch, clock, begun, invalidations>>

\* Not a user message, an encoder that fails, an epoch that cannot be read.
RetrievalFails(c) ==
    /\ pc[c] = "resolving"
    /\ Generate(c, FALSE)
    /\ UNCHANGED <<scopes, indexVars, exact, epoch, clock, begun, invalidations>>

\* The approver rejects (the answer generated instead may be indexed) or fails.
NotApproved(c) ==
    /\ pc[c] = "approving"
    /\ \E vector \in BOOLEAN : Generate(c, vector)
    /\ UNCHANGED <<scopes, indexVars, exact, epoch, clock, begun, invalidations>>

\* The candidate is still the one retrieved, in the generation of the request.
StillCurrent(c) ==
    LET k == call[c].candidate[1] IN
    /\ epoch = call[c].generation
    /\ k \in DOMAIN Synced
    /\ Synced[k] = call[c].candidate[2]
    /\ Synced[k].expires > clock

\* Mutant: what was checked before the approver's call is not checked again.
ApprovedUnchecked(c) ==
    /\ pc[c] = "approving"
    /\ Shrink(Synced)
    /\ Finish(c, "SEMANTIC", call[c].candidate[2].answer)
    /\ UNCHANGED <<scopes, exact, epoch, clock, begun, invalidations>>

\* The approver approves, and under _lock everything is checked again.
Approved(c) ==
    /\ pc[c] = "approving"
    /\ StillCurrent(c)
    /\ index' = Synced
    /\ older' = MoveToEnd(older, DOMAIN Synced, call[c].candidate[1])
    /\ UNCHANGED <<bytes, generation>>
    /\ Finish(c, "SEMANTIC", call[c].candidate[2].answer)
    /\ UNCHANGED <<scopes, exact, epoch, clock, begun, invalidations>>

\* It approves too late, or what the policy now refuses.
Revoked(c) ==
    /\ pc[c] = "approving"
    /\ Shrink(Synced)
    /\ Generate(c, TRUE)
    /\ UNCHANGED <<scopes, exact, epoch, clock, begun, invalidations>>

--------------------------------------------------------------------------------
\* Mutant: the exact cache stores whatever the epoch is.
ReturnIgnoringEpoch(c, x) ==
    /\ pc[c] = "generating"
    /\ LET a == [text |-> x, at |-> call[c].at, knowledge |-> call[c].knowledge,
                 born |-> call[c].born]
       IN /\ exact' = [k \in DOMAIN exact \cup {KeyOf(c)} |->
                          IF k = KeyOf(c) THEN a ELSE exact[k]]
          /\ IF call[c].vector
             THEN /\ Goto(c, "indexing")
                  /\ call' = [call EXCEPT ![c].answer = a]
                  /\ Silent
             ELSE Finish(c, "MISS", a)
    /\ UNCHANGED <<scopes, indexVars, epoch, clock, begun, invalidations>>

\* The provider's answer x is stored by the exact cache.
Return(c, x) ==
    /\ pc[c] = "generating"
    /\ call[c].seen = epoch
    /\ LET a == [text |-> x, at |-> call[c].at, knowledge |-> call[c].knowledge,
                 born |-> call[c].born]
       IN /\ exact' = [k \in DOMAIN exact \cup {KeyOf(c)} |->
                          IF k = KeyOf(c) THEN a ELSE exact[k]]
          /\ IF call[c].vector
             THEN /\ Goto(c, "indexing")
                  /\ call' = [call EXCEPT ![c].answer = a]
                  /\ Silent
             ELSE Finish(c, "MISS", a)
    /\ UNCHANGED <<scopes, indexVars, epoch, clock, begun, invalidations>>

\* The answer is not stored, or the provider fails.
ReturnUnstored(c) ==
    /\ pc[c] = "generating"
    /\ Finish(c, "MISS", Nothing)
    /\ UNCHANGED <<scopes, indexVars, exact, epoch, clock, begun, invalidations>>

\* Mutant: the bytes of a candidate that is replaced are not given back.
IndexedTwice(c) ==
    LET a     == call[c].answer
        k     == <<KeyOf(c), a.text>>
        entry == [answer |-> a, payload_bytes |-> SizeOf[a.text],
                  expires |-> a.at + TTL]
    IN [more  |-> [j \in DOMAIN Synced \cup {k} |-> IF j = k THEN entry ELSE Synced[j]],
        order |-> MoveToEnd(older, DOMAIN Synced \cup {k}, k),
        bytes |-> SyncedBytes + SizeOf[a.text]]

\* What indexing the answer of c makes of the index and of its order.
Indexed(c) ==
    LET a     == call[c].answer
        k     == <<KeyOf(c), a.text>>
        entry == [answer |-> a, payload_bytes |-> SizeOf[a.text],
                  expires |-> a.at + TTL]
    IN [more  |-> [j \in DOMAIN Synced \cup {k} |-> IF j = k THEN entry ELSE Synced[j]],
        order |-> MoveToEnd(older, DOMAIN Synced \cup {k}, k),
        \* the count, after what k may have had before is given back
        bytes |-> SyncedBytes
                  - BytesOf(Synced, DOMAIN Synced \cap {k}) + SizeOf[a.text]]

\* After exact.process has returned, a stored answer is indexed if nothing was
\* invalidated since the request read its generation; then eviction.
Index(c) ==
    /\ pc[c] = "indexing"
    /\ epoch = call[c].generation
    /\ call[c].answer.at + TTL > clock
    /\ SizeOf[call[c].answer.text] <= MaxBytes
    /\ LET new  == Indexed(c)
           kept == Survivors(new.more, new.order, new.bytes)
       IN /\ SetIndex(Keep(new.more, kept), new.order)
          /\ bytes' = new.bytes - BytesOf(new.more, DOMAIN new.more \ kept)
    /\ Finish(c, "MISS", call[c].answer)
    /\ UNCHANGED <<scopes, exact, epoch, clock, begun, invalidations>>

NotIndexed(c) ==
    /\ pc[c] = "indexing"
    /\ \/ epoch # call[c].generation
       \/ call[c].answer.at + TTL <= clock
       \/ SizeOf[call[c].answer.text] > MaxBytes
    /\ Shrink(Synced)
    /\ Finish(c, "MISS", call[c].answer)
    /\ UNCHANGED <<scopes, exact, epoch, clock, begun, invalidations>>

--------------------------------------------------------------------------------
\* exact.invalidate for these tenants.
ExactInvalidate(affected) ==
    /\ epoch < MaxEpoch
    /\ epoch' = epoch + 1
    /\ exact' = [k \in {j \in DOMAIN exact : j[1] \notin affected} |-> exact[k]]
    /\ invalidations' = [t \in Tenants |->
            IF t \in affected THEN invalidations[t] + 1 ELSE invalidations[t]]

Clear == index' = Keep(index, {}) /\ older' = {} /\ bytes' = 0 /\ UNCHANGED generation

Affected(t) == IF t = Default THEN Tenants ELSE {t}

\* invalidate(): the exact cache, and finally the whole index.
Invalidate(t) ==
    /\ ExactInvalidate(Affected(t))
    /\ Clear
    /\ UNCHANGED <<scopes, pc, call, clock, begun>>
    /\ Silent

\* The storage of the exact cache fails: only the index is cleared.
InvalidateFails ==
    /\ Clear
    /\ UNCHANGED <<scopes, exact, epoch, pc, call, clock, begun, invalidations>>
    /\ Silent

\* Another process, or code that has the exact cache, invalidates it.
InvalidateElsewhere(t) ==
    /\ ExactInvalidate(Affected(t))
    /\ UNCHANGED <<scopes, indexVars, pc, call, clock, begun>>
    /\ Silent

NewScopes(t, s) ==
    IF t = Default
    THEN [d \in {Default} |-> s]
    ELSE [d \in DOMAIN scopes \cup {t} |-> IF d = t THEN s ELSE scopes[d]]

\* Mutant: the new scope in the key is thought to be enough.
UpdateScopeOnly(t, s) ==
    /\ scopes' = NewScopes(t, s)
    /\ Clear
    /\ UNCHANGED <<exact, epoch, pc, call, clock, begun, invalidations>>
    /\ Silent

\* update_scope(): invalidate, then change the scope, under _lock.
UpdateScope(t, s) ==
    /\ ExactInvalidate(Affected(t))
    /\ Clear
    /\ scopes' = NewScopes(t, s)
    /\ UNCHANGED <<pc, call, clock, begun>>
    /\ Silent

\* The exact cache expires or evicts an answer.
ExactForgets(k) ==
    /\ k \in DOMAIN exact
    /\ exact' = [j \in DOMAIN exact \ {k} |-> exact[j]]
    /\ UNCHANGED <<scopes, indexVars, epoch, pc, call, clock, begun,
                   invalidations>>
    /\ Silent

SemanticSize ==
    /\ Shrink(Current)
    /\ UNCHANGED <<scopes, exact, epoch, pc, call, clock, begun, invalidations>>
    /\ Silent

Tick ==
    /\ clock < MaxClock
    /\ clock' = clock + 1
    /\ UNCHANGED <<scopes, indexVars, exact, epoch, pc, call, begun,
                   invalidations>>
    /\ Silent

Step(c) ==
    \/ ReadGeneration(c)
    \/ ScopeUnavailable(c)
    \/ Bypass(c)
    \/ ExactHit(c)
    \/ ExactMiss(c)
    \/ WithoutSemantics(c)
    \/ Retrieve(c)
    \/ RetrievalFails(c)
    \/ NotApproved(c)
    \/ Approved(c)
    \/ Revoked(c)
    \/ \E x \in Texts : Return(c, x)
    \/ ReturnUnstored(c)
    \/ Index(c)
    \/ NotIndexed(c)

Next ==
    \/ \E c \in Callers : (\E r \in Requests : Begin(c, r)) \/ Step(c)
    \/ \E t \in Tenants \cup {Default} :
        \/ Invalidate(t)
        \/ InvalidateElsewhere(t)
        \/ \E s \in Scopes : UpdateScope(t, s)
    \/ InvalidateFails
    \/ \E k \in ExactKey : ExactForgets(k)
    \/ SemanticSize
    \/ Tick

Spec == Init /\ [][Next]_vars

--------------------------------------------------------------------------------
\* The types; and a request that could not read the epoch has no part in the
\* semantic tier, whose checks compare with it.
TypeOK ==
    /\ Default \in DOMAIN scopes
    /\ \A t \in DOMAIN scopes : t \in Tenants \cup {Default} /\ scopes[t] \in Scopes
    /\ \A k \in DOMAIN index : k \in CandidateKey /\ index[k] \in Candidate
    /\ older \subseteq (DOMAIN index) \X (DOMAIN index)
    /\ bytes \in Int
    /\ generation \in 0..MaxEpoch \cup {Nothing}
    /\ \A k \in DOMAIN exact : k \in ExactKey /\ exact[k] \in Answer
    /\ epoch \in 0..MaxEpoch
    /\ \A c \in Callers :
          /\ call[c] = NoCall <=> pc[c] = "idle"
          /\ pc[c] \in {"resolving", "approving"} => call[c].generation \in 0..epoch
    /\ {clock, begun} \subseteq Nat
    /\ invalidations \in [Tenants -> Nat]

\* The answer a was generated after the last invalidation of the tenant t, and
\* under what is now its knowledge.
UpToDate(a, t) == a.born = invalidations[t] /\ a.knowledge = ScopeOf(t)

\* An answer the exact cache holds was asked for after the last invalidation of
\* its tenant and under the scope in force: update_scope leaves nothing that
\* was generated from knowledge it replaced, not even by a provider call that
\* was under way, under any key.
KnowledgeCurrent == \A k \in DOMAIN exact : UpToDate(exact[k], k[1])

\* As long as the index has noted the epoch of the exact cache, each candidate
\* in it is up to date: an answer whose request began before an invalidation,
\* here or in another process, is not indexed after it.
IndexFresh ==
    generation = epoch => \A k \in DOMAIN index : UpToDate(index[k].answer, k[1][1])

\* The index stays within both of its bounds, and its byte count is exact,
\* whichever candidates were replaced, expired, evicted or cleared.
IndexBounded ==
    /\ Cardinality(DOMAIN index) <= MaxEntries
    /\ bytes = BytesOf(index, DOMAIN index)
    /\ bytes <= MaxBytes

\* A semantic hit is an answer of the caller's tenant and scope, to a query
\* above the threshold, that is at this moment neither expired nor invalidated,
\* however long the encoder and the approver took.
SemanticHitIsValid ==
    [][reply' # Nothing /\ reply'.status = "SEMANTIC" =>
        /\ \E k \in DOMAIN index :
             /\ Namespace(k[1]) = Namespace(reply'.key)
             /\ Score[reply'.key[3]][k[1][3]] >= Threshold
             /\ index[k].answer = reply'.answer
        /\ UpToDate(reply'.answer, reply'.key[1])
        /\ clock < reply'.answer.at + TTL]_vars
================================================================================
