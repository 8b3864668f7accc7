--------------------------- MODULE GuardedCacheProofs ---------------------------
(***************************************************************************)
(* Theorems about the guarded semantic cache, for any number of callers,   *)
(* any tenants, queries, scores and scopes.  The invariant has three       *)
(* parts: what the exact cache holds, what the index holds, and what each  *)
(* caller has in its locals at its place in process().                     *)
(***************************************************************************)
EXTENDS GuardedCache, LruProofs

Places == {"idle", "scoped", "active", "missed", "resolving", "approving",
           "generating", "indexing"}

Locals == [request : Requests \cup {Nothing}, scope : Scopes \cup {Nothing},
           generation : Nat \cup {Nothing}, seen : Nat, vector : BOOLEAN,
           candidate : (CandidateKey \X Candidate) \cup {Nothing}, at : Nat,
           knowledge : Scopes \cup {Nothing}, born : Nat,
           answer : Answer \cup {Nothing}]

\* What everything else is measured by.
Ground ==
    /\ Default \in DOMAIN scopes
    /\ \A t \in DOMAIN scopes : t \in Tenants \cup {Default} /\ scopes[t] \in Scopes
    /\ epoch \in 0..MaxEpoch
    /\ invalidations \in [Tenants -> Nat]
    /\ clock \in Nat /\ begun \in Nat

\* The exact cache.
Remembered ==
    /\ \A k \in DOMAIN exact : k \in ExactKey /\ exact[k] \in Answer
    /\ KnowledgeCurrent

\* The index; its epoch is not in the future.
Held ==
    /\ index \in [DOMAIN index -> Candidate] /\ DOMAIN index \subseteq CandidateKey
    /\ older \subseteq (DOMAIN index) \X (DOMAIN index)
    /\ generation \in 0..epoch \cup {Nothing}
    /\ \A k \in DOMAIN index : index[k].expires = index[k].answer.at + TTL
    /\ IndexFresh

Counted ==
    /\ IsFiniteSet(DOMAIN index)
    /\ Orders(older, DOMAIN index)
    /\ IndexBounded

\* A caller's request, and the epochs it has read.
AtWork(c) ==
    pc[c] # "idle" =>
        /\ call[c].request \in Requests /\ call[c].scope \in Scopes
        /\ call[c].generation \in 0..epoch \cup {Nothing}
        /\ pc[c] \in {"resolving", "approving"} => call[c].generation # Nothing
        /\ call[c].seen \in 0..epoch

\* As long as nothing was invalidated since the lookup missed, the provider
\* answers from the knowledge in force.
Asked(c) ==
    pc[c] = "generating" =>
        /\ call[c].knowledge \in Scopes
        /\ call[c].seen = epoch => UpToDate(call[c], call[c].request[1])

\* As long as nothing was invalidated since the generation was read, so is the
\* answer that is about to be indexed.
Answered(c) ==
    pc[c] = "indexing" =>
        /\ call[c].answer \in Answer
        /\ call[c].generation = epoch => UpToDate(call[c].answer, call[c].request[1])

\* What the approver is asked about.
Proposed(c) ==
    pc[c] = "approving" =>
        /\ call[c].candidate \in CandidateKey \X Candidate
        /\ Namespace(call[c].candidate[1][1]) = Namespace(KeyOf(c))
        /\ ScoreOf(c, call[c].candidate[1]) >= Threshold

Local(c) ==
    /\ call[c] = NoCall <=> pc[c] = "idle"
    /\ AtWork(c) /\ Asked(c) /\ Answered(c) /\ Proposed(c)

Calling ==
    /\ pc \in [Callers -> Places] /\ call \in [Callers -> Locals]
    /\ \A c \in Callers : Local(c)

IInv == Ground /\ Remembered /\ Held /\ Counted /\ Calling

--------------------------------------------------------------------------------
(* Requests and keys *)

LEMMA Parts ==
    /\ \A r \in Requests : r[1] \in Tenants /\ r[2] \in Queries
    /\ \A r \in Requests, s \in Scopes : <<r[1], s, r[2]>> \in ExactKey
    /\ \A k \in ExactKey : k[1] \in Tenants /\ k[3] \in Queries
    /\ \A k \in CandidateKey : k[1] \in ExactKey /\ k[1][1] \in Tenants
<1>1. \A r \in Requests : r[1] \in Tenants /\ r[2] \in Queries
      BY GuardedAssumption
<1>2. \A k \in ExactKey : k[1] \in Tenants /\ k[3] \in Queries
      BY <1>1 DEF ExactKey
<1>. QED  BY <1>1, <1>2 DEF ExactKey, CandidateKey

LEMMA KeyOfType ==
    ASSUME NEW c \in Callers, AtWork(c), pc[c] # "idle"
    PROVE  KeyOf(c) \in ExactKey /\ KeyOf(c)[1] = call[c].request[1]
BY Parts DEF AtWork, KeyOf

\* The scope of a tenant is a scope.
LEMMA ScopeOfType ==
    ASSUME Ground, NEW t
    PROVE  ScopeOf(t) \in Scopes
BY DEF Ground, ScopeOf, ScopeIn

--------------------------------------------------------------------------------
(* The locals of the callers *)

LEMMA NoCallType == NoCall \in Locals
BY DEF NoCall, Locals

\* A caller moves; the epoch and the knowledge stay.
LEMMA LocalsMove ==
    ASSUME Calling, NEW c \in Callers, NEW place \in Places, NEW locals \in Locals,
           pc' = [pc EXCEPT ![c] = place], call' = [call EXCEPT ![c] = locals],
           UNCHANGED <<scopes, epoch, invalidations>>,
           Local(c)'
    PROVE  Calling'
<1>1. pc' \in [Callers -> Places] /\ call' \in [Callers -> Locals]
      BY DEF Calling
<1>2. ASSUME NEW d \in Callers, d # c PROVE Local(d)'
  <2>1. pc'[d] = pc[d] /\ call'[d] = call[d] /\ Local(d)
        BY <1>2 DEF Calling
  <2>. QED  BY <2>1 DEF Local, AtWork, Asked, Answered, Proposed, UpToDate, ScopeOf, KeyOf, ScoreOf
<1>. QED  BY <1>1, <1>2 DEF Calling

\* Nobody moves.
LEMMA LocalsStay ==
    ASSUME Calling, UNCHANGED <<pc, call, scopes, epoch, invalidations>>
    PROVE  Calling'
BY DEF Calling, Local, AtWork, Asked, Answered, Proposed, UpToDate, ScopeOf, KeyOf, ScoreOf

\* Nobody moves, and the epoch does: all that was read before it is old.
LEMMA LocalsAge ==
    ASSUME Ground, Calling, UNCHANGED <<pc, call>>, epoch' = epoch + 1
    PROVE  Calling'
<1>1. epoch \in Nat
      BY GuardedAssumption DEF Ground
<1>2. ASSUME NEW c \in Callers PROVE Local(c)'
  <2>1. Local(c)
        BY DEF Calling
  <2>2. AtWork(c)' /\ (pc[c] # "idle" => call[c].seen # epoch' /\ call[c].generation # epoch')
        BY <1>1, <2>1, GuardedAssumption DEF Local, AtWork
  <2>. QED  BY <2>1, <2>2 DEF Local, Asked, Answered, Proposed, KeyOf, ScoreOf
<1>. QED  BY <1>2 DEF Calling

LEMMA FinishMoves ==
    ASSUME Calling, NEW c \in Callers, NEW status, NEW answer, Finish(c, status, answer),
           UNCHANGED <<scopes, epoch, invalidations>>
    PROVE  Calling'
<1>1. pc'[c] = "idle" /\ call'[c] = NoCall
      BY DEF Finish, Goto, Calling
<1>2. Local(c)'
      BY <1>1 DEF Local, AtWork, Asked, Answered, Proposed
<1>. QED  BY <1>2, LocalsMove, NoCallType DEF Finish, Goto, Places

LEMMA GenerateMoves ==
    ASSUME Ground, Calling, NEW c \in Callers, NEW vector \in BOOLEAN, pc[c] # "idle",
           Generate(c, vector), UNCHANGED <<scopes, epoch, invalidations>>
    PROVE  Calling'
<1>. DEFINE t == call[c].request[1]
            locals == [call[c] EXCEPT !.vector = vector, !.candidate = Nothing, !.at = clock,
                                      !.knowledge = ScopeOf(t), !.born = invalidations[t]]
<1>1. /\ call[c] \in Locals /\ Local(c) /\ AtWork(c)
      /\ call[c].request \in Requests /\ t \in Tenants
      BY Parts DEF Calling, Local, AtWork
<1>2. ScopeOf(t) \in Scopes /\ invalidations[t] \in Nat /\ clock \in Nat
      BY <1>1, ScopeOfType DEF Ground
<1>3. locals \in Locals
      BY <1>1, <1>2 DEF Locals
<1>4. pc' = [pc EXCEPT ![c] = "generating"] /\ call' = [call EXCEPT ![c] = locals]
      BY DEF Generate, Goto
<1>5. pc'[c] = "generating" /\ call'[c] = locals
      BY <1>4 DEF Calling
<1>6. /\ locals.request = call[c].request /\ locals.scope = call[c].scope
      /\ locals.generation = call[c].generation /\ locals.seen = call[c].seen
      /\ locals.knowledge = ScopeOf(t) /\ locals.born = invalidations[t]
      BY <1>1 DEF Locals
<1>. HIDE DEF locals
<1>7. AtWork(c)'
      BY <1>1, <1>5, <1>6 DEF AtWork
<1>8. Asked(c)'
      BY <1>2, <1>5, <1>6 DEF Asked, UpToDate, ScopeOf
<1>9. call'[c] # NoCall
      BY <1>1, <1>5, <1>6, GuardedAssumption DEF NoCall
<1>10. Local(c)'
      BY <1>5, <1>7, <1>8, <1>9 DEF Local, Answered, Proposed
<1>. QED  BY <1>3, <1>4, <1>10, LocalsMove DEF Places

--------------------------------------------------------------------------------
(* The index *)

\* What is left of the index when it has noted the epoch: a part of it, counted
\* and ordered, that is up to date.
LEMMA SyncedPart ==
    ASSUME Ground, Held, Counted
    PROVE  /\ Synced \in [DOMAIN Synced -> Candidate]
           /\ DOMAIN Synced \subseteq DOMAIN index /\ IsFiniteSet(DOMAIN Synced)
           /\ \A k \in DOMAIN Synced : /\ Synced[k] = index[k]
                                       /\ UpToDate(index[k].answer, k[1][1])
           /\ SyncedBytes = BytesOf(Synced, DOMAIN Synced)
           /\ SyncedBytes \in Nat /\ SyncedBytes <= MaxBytes
           /\ Orders(KeepOrder(older, DOMAIN Synced), DOMAIN Synced)
           /\ Orders(older, DOMAIN Synced)
           /\ Cardinality(DOMAIN Synced) <= MaxEntries
<1>1. CASE generation = epoch
  <2>1. Synced = index /\ SyncedBytes = bytes
        BY <1>1 DEF Synced, SyncedBytes
  <2>2. bytes \in Nat
        BY BytesOfNat DEF Counted, IndexBounded
  <2>. QED  BY <1>1, <2>1, <2>2, KeepOrders DEF Held, Counted, IndexBounded, IndexFresh
<1>2. CASE generation # epoch
  <2>1. DOMAIN Synced = {} /\ SyncedBytes = 0
        BY <1>2, KeepType DEF Synced, SyncedBytes, Held
  <2>2. Synced \in [DOMAIN Synced -> Candidate]
        BY <1>2, <2>1 DEF Synced, Keep
  <2>3. BytesOf(Synced, DOMAIN Synced) = 0 /\ Cardinality(DOMAIN Synced) = 0 /\ IsFiniteSet(DOMAIN Synced)
        BY <2>1, BytesOfNone, FS_EmptySet
  <2>. QED  BY <2>1, <2>2, <2>3, BoundsAssumption DEF Orders
<1>. QED  BY <1>1, <1>2

\* The index is cut down to a part m of what is up to date.
LEMMA ShrinkHolds ==
    ASSUME Ground, Held, Counted, NEW m, m \in [DOMAIN m -> Candidate],
           DOMAIN m \subseteq DOMAIN Synced, \A k \in DOMAIN m : m[k] = Synced[k],
           Shrink(m), UNCHANGED <<scopes, epoch, invalidations>>
    PROVE  Held' /\ Counted'
<1>0. epoch \in Nat
      BY GuardedAssumption DEF Ground
<1>1. /\ index' = m /\ older' = KeepOrder(older, DOMAIN m) /\ generation' = epoch
      /\ bytes' = SyncedBytes - BytesOf(Synced, DOMAIN Synced \ DOMAIN m)
      BY DEF Shrink, SetIndex
<1>2. \A k \in DOMAIN m : k \in DOMAIN index /\ m[k] = index[k] /\ UpToDate(m[k].answer, k[1][1])
      BY SyncedPart
<1>3. Held'
  <2>1. IndexFresh'
        BY <1>1, <1>2 DEF IndexFresh, UpToDate, ScopeOf
  <2>. QED  BY <1>0, <1>1, <1>2, <2>1, KeepOrderType DEF Held
<1>4. IsFiniteSet(DOMAIN m) /\ Orders(KeepOrder(older, DOMAIN m), DOMAIN m)
      BY <1>2, FS_Subset, KeepOrders DEF Counted
<1>5. Cardinality(DOMAIN m) <= MaxEntries
  <2>1. /\ Cardinality(DOMAIN m) <= Cardinality(DOMAIN Synced)
        /\ Cardinality(DOMAIN m) \in Nat /\ Cardinality(DOMAIN Synced) \in Nat
        /\ Cardinality(DOMAIN Synced) <= MaxEntries
        BY <1>4, SyncedPart, FS_Subset, FS_CardinalityType
  <2>. QED  BY <2>1, BoundsAssumption
<1>6. bytes' = BytesOf(m, DOMAIN m) /\ bytes' <= MaxBytes
  <2>1. /\ IsFiniteSet(DOMAIN Synced) /\ SyncedBytes = BytesOf(Synced, DOMAIN Synced)
        /\ SyncedBytes \in Nat /\ SyncedBytes <= MaxBytes
        BY SyncedPart
  <2>2. DOMAIN Synced \ (DOMAIN Synced \ DOMAIN m) = DOMAIN m
        OBVIOUS
  <2>3. BytesOf(Synced, DOMAIN Synced \ (DOMAIN Synced \ DOMAIN m))
            = SyncedBytes - BytesOf(Synced, DOMAIN Synced \ DOMAIN m)
        BY <2>1, BytesOfDifference
  <2>4. BytesOf(Synced, DOMAIN m) = BytesOf(m, DOMAIN m)
        BY BytesOfSame
  <2>5. BytesOf(Synced, DOMAIN Synced \ DOMAIN m) \in Nat
        BY <2>1, FS_Subset, BytesOfNat
  <2>. QED  BY <1>1, <2>1, <2>2, <2>3, <2>4, <2>5, BoundsAssumption
<1>. QED  BY <1>1, <1>3, <1>4, <1>5, <1>6 DEF Counted, IndexBounded

\* Of the index, what has expired as well.
LEMMA CurrentPart ==
    ASSUME Ground, Held, Counted
    PROVE  /\ Current \in [DOMAIN Current -> Candidate]
           /\ DOMAIN Current \subseteq DOMAIN Synced
           /\ \A k \in DOMAIN Current : Current[k] = Synced[k]
<1>. DEFINE S == {k \in DOMAIN Synced : Synced[k].expires > clock}
<1>1. Synced \in [DOMAIN Synced -> Candidate] /\ S \subseteq DOMAIN Synced
      BY SyncedPart
<1>2. Current = Keep(Synced, S)
      BY DEF Current
<1>. HIDE DEF S
<1>. QED  BY <1>1, <1>2, KeepType

LEMMA ClearHolds ==
    ASSUME Ground, Held, Counted, Clear, epoch' \in {epoch, epoch + 1}
    PROVE  Held' /\ Counted'
<1>1. /\ DOMAIN index' = {} /\ index' \in [DOMAIN index' -> Candidate]
      /\ older' = {} /\ bytes' = 0 /\ generation' = generation
      BY DEF Clear, Keep
<1>2. generation' \in 0..epoch' \cup {Nothing}
      BY <1>1, GuardedAssumption DEF Held, Ground
<1>3. Held'
      BY <1>1, <1>2 DEF Held, IndexFresh
<1>4. Cardinality(DOMAIN index') = 0 /\ IsFiniteSet(DOMAIN index') /\ BytesOf(index', DOMAIN index') = 0
      BY <1>1, BytesOfNone, FS_EmptySet
<1>. QED  BY <1>1, <1>3, <1>4, BoundsAssumption DEF Counted, IndexBounded, Orders

\* The index stays, and what it relies on does too.
LEMMA IndexStays ==
    ASSUME Ground, Held, Counted, UNCHANGED <<indexVars, scopes, epoch, invalidations>>
    PROVE  Held' /\ Counted'
BY DEF Held, Counted, indexVars, IndexFresh, IndexBounded, UpToDate, ScopeOf

\* An invalidation elsewhere: the index is no longer of the current epoch.
LEMMA IndexAges ==
    ASSUME Ground, Held, Counted, UNCHANGED indexVars, epoch' = epoch + 1
    PROVE  Held' /\ Counted'
<1>1. generation' = generation /\ generation' \in 0..epoch' \cup {Nothing} /\ generation' # epoch'
      BY GuardedAssumption DEF Held, Ground, indexVars
<1>. QED  BY <1>1 DEF Held, Counted, indexVars, IndexFresh, IndexBounded

\* A candidate that is served becomes the latest.
LEMMA ApprovedHolds ==
    ASSUME Ground, Held, Counted, NEW c \in Callers, Approved(c)
    PROVE  Held' /\ Counted'
<1>. DEFINE k == call[c].candidate[1]
<1>1. k \in DOMAIN Synced
      BY DEF Approved, StillCurrent
<1>2. generation = epoch /\ Synced = index
  <2>1. CASE generation # epoch
        BY <1>1, <2>1 DEF Synced, Keep
  <2>. QED  BY <2>1 DEF Synced
<1>3. /\ index' = index /\ older' = MoveToEnd(older, DOMAIN index, k)
      /\ UNCHANGED <<bytes, generation, scopes, epoch, invalidations>>
      BY <1>2 DEF Approved
<1>. HIDE DEF k
<1>4. older' \subseteq (DOMAIN index) \X (DOMAIN index)
      BY <1>1, <1>2, <1>3, MoveToEndType DEF Held
<1>5. Orders(older', DOMAIN index)
      BY <1>1, <1>2, <1>3, MoveToEndOrders DEF Counted
<1>6. Held'
      BY <1>3, <1>4 DEF Held, IndexFresh, UpToDate, ScopeOf
<1>. QED  BY <1>3, <1>5, <1>6 DEF Counted, IndexBounded

\* An answer joins the index, and the oldest candidates leave it.
LEMMA IndexHolds ==
    ASSUME Ground, Held, Counted, Calling, NEW c \in Callers, Index(c)
    PROVE  Held' /\ Counted'
<1>. DEFINE a     == call[c].answer
            k     == <<KeyOf(c), a.text>>
            entry == [answer |-> a, payload_bytes |-> SizeOf[a.text], expires |-> a.at + TTL]
            more  == Indexed(c).more
            order == Indexed(c).order
            count == Indexed(c).bytes
            S     == DOMAIN Synced \cup {k}
            kept  == Survivors(more, order, count)
<1>1. /\ pc[c] = "indexing" /\ epoch = call[c].generation /\ Local(c)
      /\ a \in Answer /\ UpToDate(a, call[c].request[1])
      /\ KeyOf(c) \in ExactKey /\ KeyOf(c)[1] = call[c].request[1]
      BY KeyOfType DEF Index, Calling, Local, Answered
<1>2. k \in CandidateKey /\ k[1][1] = call[c].request[1]
      BY <1>1 DEF CandidateKey, Answer
<1>3. entry \in Candidate /\ SizeOf[a.text] \in 1..MaxSize
  <2>1. a.text \in Texts /\ a.at \in Nat
        BY <1>1 DEF Answer
  <2>2. SizeOf[a.text] \in 1..MaxSize /\ a.at + TTL \in Nat
        BY <2>1, GuardedAssumption
  <2>. QED  BY <1>1, <2>2 DEF Candidate
<1>4. /\ more = [j \in S |-> IF j = k THEN entry ELSE Synced[j]]
      /\ order = MoveToEnd(older, S, k)
      /\ count = SyncedBytes - BytesOf(Synced, DOMAIN Synced \cap {k}) + SizeOf[a.text]
      BY DEF Indexed
<1>5. /\ index' = Keep(more, kept) /\ older' = KeepOrder(order, DOMAIN index')
      /\ generation' = epoch
      /\ bytes' = count - BytesOf(more, DOMAIN more \ kept)
      /\ UNCHANGED <<scopes, epoch, invalidations>>
      BY DEF Index, SetIndex
<1>. HIDE DEF more, order, count, kept
<1>6. DOMAIN more = S /\ IsFiniteSet(S) /\ more \in [S -> Candidate]
  <2>1. IsFiniteSet(S)
        BY SyncedPart, FS_AddElement
  <2>. QED  BY <1>3, <1>4, <2>1, SyncedPart
<1>7. Orders(order, S)
  <2>1. Orders(older, DOMAIN Synced) /\ S \subseteq DOMAIN Synced \cup {k} /\ k \in S
        BY SyncedPart
  <2>. HIDE DEF k, S
  <2>. QED  BY <1>4, <2>1, MoveToEndOrders
<1>8. count = BytesOf(more, S)
  <2>. DEFINE rest == DOMAIN Synced \ {k}
  <2>1. S = rest \cup {k} /\ rest \cap {k} = {} /\ rest = DOMAIN Synced \ (DOMAIN Synced \cap {k})
        OBVIOUS
  <2>2. IsFiniteSet(rest) /\ IsFiniteSet({k}) /\ IsFiniteSet(DOMAIN Synced) /\ IsFiniteSet(DOMAIN Synced \cap {k})
        BY SyncedPart, FS_Subset, FS_Singleton
  <2>3. \A j \in rest : more[j] = Synced[j]
        BY <1>4
  <2>4. more[k].payload_bytes = SizeOf[a.text] /\ more[k].payload_bytes \in 0..MaxSize
        BY <1>3, <1>4, BoundsAssumption
  <2>. HIDE DEF k, a, entry, S, rest
  <2>5. BytesOf(more, S) = BytesOf(more, rest) + BytesOf(more, {k})
        BY <2>1, <2>2, BytesOfUnion
  <2>6. BytesOf(more, {k}) = SizeOf[a.text]
        BY <2>4, BytesOfOne
  <2>7. BytesOf(more, rest) = BytesOf(Synced, rest)
        BY <2>3, BytesOfSame
  <2>8. BytesOf(Synced, rest) = BytesOf(Synced, DOMAIN Synced) - BytesOf(Synced, DOMAIN Synced \cap {k})
        BY <2>1, <2>2, BytesOfDifference
  <2>9. SyncedBytes = BytesOf(Synced, DOMAIN Synced)
        BY SyncedPart
  <2>. QED  BY <1>4, <2>5, <2>6, <2>7, <2>8, <2>9
<1>9. /\ kept \subseteq S
      /\ Cardinality(kept) <= MaxEntries /\ BytesOf(more, kept) <= MaxBytes
      /\ BytesOf(more, kept) = count - BytesOf(more, S \ kept)
  <2>1. IsFiniteSet(DOMAIN more) /\ Orders(order, DOMAIN more) /\ count = BytesOf(more, DOMAIN more)
        BY <1>6, <1>7, <1>8
  <2>. HIDE DEF S
  <2>2. kept \subseteq DOMAIN more
        BY SurvivorsSubset DEF kept
  <2>. QED  BY <1>6, <2>1, <2>2, SurvivorsBounded DEF kept
<1>10. /\ DOMAIN index' = kept /\ index' \in [kept -> Candidate]
       /\ \A j \in kept : index'[j] = more[j]
   <2>1. more \in [DOMAIN more -> Candidate] /\ kept \subseteq DOMAIN more
        BY <1>6, <1>9
  <2>. QED  BY <1>5, <2>1, KeepType
<1>11. \A j \in S : /\ j \in CandidateKey
                    /\ more[j].expires = more[j].answer.at + TTL
                    /\ UpToDate(more[j].answer, j[1][1])
  <2>1. ASSUME NEW j \in S, j # k
        PROVE  /\ j \in DOMAIN index /\ more[j] = index[j] /\ UpToDate(index[j].answer, j[1][1])
        BY <1>4, <2>1, SyncedPart
  <2>2. more[k] = entry
        BY <1>4
  <2>3. more[k].expires = more[k].answer.at + TTL /\ UpToDate(more[k].answer, k[1][1])
        BY <1>1, <1>2, <2>2
  <2>. QED  BY <1>2, <2>1, <2>3 DEF Held
<1>12. Held'
  <2>1. IndexFresh'
        BY <1>5, <1>9, <1>10, <1>11 DEF IndexFresh, UpToDate, ScopeOf
  <2>2. generation' \in 0..epoch' \cup {Nothing}
        BY <1>5, GuardedAssumption DEF Ground
  <2>3. older' \subseteq (DOMAIN index') \X (DOMAIN index')
        BY <1>5, KeepOrderType
  <2>. QED  BY <1>9, <1>10, <1>11, <2>1, <2>2, <2>3 DEF Held
<1>13. Counted'
  <2>1. IsFiniteSet(kept) /\ Orders(older', kept)
        BY <1>5, <1>6, <1>7, <1>9, <1>10, FS_Subset, KeepOrders
  <2>2. BytesOf(index', kept) = BytesOf(more, kept)
        BY <1>10, BytesOfSame
  <2>. QED  BY <1>5, <1>6, <1>9, <1>10, <2>1, <2>2 DEF Counted, IndexBounded
<1>. QED  BY <1>12, <1>13

--------------------------------------------------------------------------------
(* The exact cache *)

LEMMA GroundStays ==
    ASSUME Ground, UNCHANGED <<scopes, epoch, invalidations, clock, begun>>
    PROVE  Ground'
BY DEF Ground

\* Answers may be forgotten.
LEMMA RememberedStays ==
    ASSUME Remembered, DOMAIN exact' \subseteq DOMAIN exact,
           \A k \in DOMAIN exact' : exact'[k] = exact[k],
           UNCHANGED <<scopes, invalidations>>
    PROVE  Remembered'
BY DEF Remembered, KnowledgeCurrent, UpToDate, ScopeOf

\* Whom an invalidation affects, and whom a new scope concerns: the same.
LEMMA InvalidatedGround ==
    ASSUME Ground, NEW t \in Tenants \cup {Default}, ExactInvalidate(Affected(t)),
           UNCHANGED <<clock, begun>>,
           UNCHANGED scopes \/ \E s \in Scopes : scopes' = NewScopes(t, s)
    PROVE  Ground' /\ epoch' = epoch + 1
<1>1. epoch' = epoch + 1 /\ epoch' \in 0..MaxEpoch /\ invalidations' \in [Tenants -> Nat]
      BY GuardedAssumption DEF Ground, ExactInvalidate
<1>2. /\ Default \in DOMAIN scopes'
      /\ \A u \in DOMAIN scopes' : u \in Tenants \cup {Default} /\ scopes'[u] \in Scopes
  <2>1. CASE UNCHANGED scopes
        BY <2>1 DEF Ground
  <2>2. ASSUME NEW s \in Scopes, scopes' = NewScopes(t, s)
        PROVE  /\ Default \in DOMAIN scopes'
               /\ \A u \in DOMAIN scopes' : u \in Tenants \cup {Default} /\ scopes'[u] \in Scopes
    <3>1. CASE t = Default
          BY <2>2, <3>1 DEF NewScopes
    <3>2. CASE t # Default
          BY <2>2, <3>2 DEF NewScopes, Ground
    <3>. QED  BY <3>1, <3>2
  <2>. QED  BY <2>1, <2>2
<1>. QED  BY <1>1, <1>2 DEF Ground

LEMMA InvalidatedRemembers ==
    ASSUME Ground, Remembered, NEW t \in Tenants \cup {Default}, ExactInvalidate(Affected(t)),
           UNCHANGED scopes \/ \E s \in Scopes : scopes' = NewScopes(t, s)
    PROVE  Remembered'
<1>1. ASSUME NEW k \in DOMAIN exact'
      PROVE  /\ k \in ExactKey /\ exact'[k] \in Answer
             /\ exact'[k].born = invalidations'[k[1]] /\ exact'[k].knowledge = ScopeOf(k[1])'
  <2>1. /\ k \in DOMAIN exact /\ k[1] \notin Affected(t) /\ exact'[k] = exact[k]
        /\ k \in ExactKey /\ exact[k] \in Answer /\ UpToDate(exact[k], k[1])
        BY DEF ExactInvalidate, Remembered, KnowledgeCurrent
  <2>2. k[1] \in Tenants
        BY <2>1, Parts
  <2>3. t # Default /\ k[1] # t /\ k[1] # Default
        BY <2>1, <2>2, GuardedAssumption DEF Affected
  <2>4. invalidations'[k[1]] = invalidations[k[1]]
        BY <2>1, <2>2 DEF ExactInvalidate
  <2>5. ScopeOf(k[1])' = ScopeOf(k[1])
    <3>1. CASE UNCHANGED scopes
          BY <3>1 DEF ScopeOf
    <3>2. ASSUME NEW s \in Scopes, scopes' = NewScopes(t, s)
          PROVE  ScopeOf(k[1])' = ScopeOf(k[1])
          BY <2>3, <3>2 DEF NewScopes, ScopeOf, ScopeIn, Ground
    <3>. QED  BY <3>1, <3>2
  <2>. QED  BY <2>1, <2>4, <2>5 DEF UpToDate
<1>. QED  BY <1>1 DEF Remembered, KnowledgeCurrent, UpToDate

\* The answer of a call that missed in the epoch that is still current.
LEMMA ReturnRemembers ==
    ASSUME Ground, Remembered, Calling, NEW c \in Callers, NEW x \in Texts, Return(c, x)
    PROVE  Remembered' /\ Calling'
<1>. DEFINE a == [text |-> x, at |-> call[c].at, knowledge |-> call[c].knowledge,
                  born |-> call[c].born]
            k == KeyOf(c)
<1>1. /\ pc[c] = "generating" /\ call[c].seen = epoch
      /\ Local(c) /\ AtWork(c) /\ call[c] \in Locals /\ call[c].request \in Requests
      BY DEF Return, Calling, Local, AtWork
<1>2. k \in ExactKey /\ k[1] = call[c].request[1]
      BY <1>1, KeyOfType
<1>3. a \in Answer /\ UpToDate(a, k[1])
      BY <1>1, <1>2 DEF Local, Asked, UpToDate, Answer, Locals
<1>4. /\ exact' = [j \in DOMAIN exact \cup {k} |-> IF j = k THEN a ELSE exact[j]]
      /\ UNCHANGED <<scopes, epoch, invalidations>>
      BY DEF Return
<1>5. Remembered'
  <2>. HIDE DEF a, k
  <2>1. \A j \in DOMAIN exact' : exact'[j] = IF j = k THEN a ELSE exact[j]
        BY <1>4
  <2>2. \A j \in DOMAIN exact' : /\ j \in ExactKey /\ exact'[j] \in Answer
                                 /\ UpToDate(exact'[j], j[1])
        BY <1>2, <1>3, <1>4, <2>1 DEF Remembered, KnowledgeCurrent
  <2>. QED  BY <1>4, <2>2 DEF Remembered, KnowledgeCurrent, UpToDate, ScopeOf
<1>6. CASE call[c].vector
  <2>. DEFINE locals == [call[c] EXCEPT !.answer = a]
  <2>1. /\ pc' = [pc EXCEPT ![c] = "indexing"] /\ call' = [call EXCEPT ![c] = locals]
        BY <1>6 DEF Return, Goto
  <2>2. /\ locals \in Locals /\ locals.request = call[c].request /\ locals.scope = call[c].scope
        /\ locals.generation = call[c].generation /\ locals.seen = call[c].seen
        /\ locals.answer = a
        BY <1>1, <1>3 DEF Locals
  <2>. HIDE DEF locals, a, k
  <2>3. pc'[c] = "indexing" /\ call'[c] = locals
        BY <2>1 DEF Calling
  <2>4. AtWork(c)' /\ call'[c] # NoCall
        BY <1>1, <1>4, <2>2, <2>3, GuardedAssumption DEF AtWork, NoCall
  <2>5. Answered(c)'
        BY <1>2, <1>3, <1>4, <2>2, <2>3 DEF Answered, UpToDate, ScopeOf
  <2>6. Local(c)'
        BY <2>3, <2>4, <2>5 DEF Local, Asked, Proposed
  <2>. QED  BY <1>4, <1>5, <2>1, <2>2, <2>6, LocalsMove DEF Places
<1>7. CASE ~call[c].vector
  <2>1. Finish(c, "MISS", a)
        BY <1>7 DEF Return
  <2>. QED  BY <1>4, <1>5, <2>1, FinishMoves
<1>. QED  BY <1>1, <1>6, <1>7

--------------------------------------------------------------------------------
(* The invariant *)

LEMMA InitIInv == Init => IInv
<1>. SUFFICES ASSUME Init PROVE IInv
     OBVIOUS
<1>1. Ground
      BY GuardedAssumption DEF Init, Ground
<1>2. Remembered
      BY DEF Init, Remembered, KnowledgeCurrent
<1>3. DOMAIN index = {} /\ index \in [DOMAIN index -> Candidate]
      BY DEF Init
<1>4. Held
      BY <1>3 DEF Init, Held, IndexFresh
<1>5. Counted
      BY <1>3, BytesOfNone, FS_EmptySet, BoundsAssumption DEF Init, Counted, IndexBounded, Orders
<1>6. Calling
      BY NoCallType DEF Init, Calling, Local, AtWork, Asked, Answered, Proposed, Places
<1>. QED  BY <1>1, <1>2, <1>4, <1>5, <1>6 DEF IInv

\* A step of a caller that only goes on, having read an epoch or none.
LEMMA GoesOn ==
    ASSUME Ground, Calling, NEW c \in Callers, pc[c] # "idle",
           NEW place \in {"active", "missed", "resolving"},
           NEW locals \in Locals,
           pc' = [pc EXCEPT ![c] = place], call' = [call EXCEPT ![c] = locals],
           locals.request = call[c].request, locals.scope = call[c].scope,
           locals.generation \in {call[c].generation, epoch},
           place = "resolving" => locals.generation # Nothing,
           locals.seen \in {call[c].seen, epoch},
           UNCHANGED <<scopes, epoch, invalidations>>
    PROVE  Calling'
<1>1. pc'[c] = place /\ call'[c] = locals /\ Local(c) /\ epoch \in Nat
      BY GuardedAssumption DEF Calling, Ground
<1>2. AtWork(c)' /\ call'[c] # NoCall
      BY <1>1, GuardedAssumption DEF Local, AtWork, NoCall
<1>3. Local(c)'
      BY <1>1, <1>2 DEF Local, Asked, Answered, Proposed
<1>. QED  BY <1>3, LocalsMove DEF Places

LEMMA StepIInv ==
    ASSUME IInv, NEW c \in Callers, Step(c)
    PROVE  IInv'
<1>0. /\ Ground /\ Remembered /\ Held /\ Counted /\ Calling
      /\ call[c] \in Locals /\ epoch \in Nat
      BY GuardedAssumption DEF IInv, Calling, Ground
<1>1. CASE ReadGeneration(c)
  <2>. DEFINE locals == [call[c] EXCEPT !.generation = epoch]
  <2>1. Held' /\ Counted'
        BY <1>0, <1>1, SyncedPart, ShrinkHolds DEF ReadGeneration
  <2>2. /\ locals \in Locals /\ locals.request = call[c].request /\ locals.scope = call[c].scope
        /\ locals.generation = epoch /\ locals.seen = call[c].seen
        BY <1>0 DEF Locals
  <2>3. pc' = [pc EXCEPT ![c] = "active"] /\ call' = [call EXCEPT ![c] = locals] /\ pc[c] # "idle"
        BY <1>1 DEF ReadGeneration, Goto
  <2>. HIDE DEF locals
  <2>4. Calling'
        BY <1>0, <1>1, <2>2, <2>3, GoesOn DEF ReadGeneration
  <2>. QED  BY <1>0, <1>1, <2>1, <2>4, GroundStays, RememberedStays DEF ReadGeneration, IInv
<1>2. CASE ScopeUnavailable(c)
  <2>1. /\ pc' = [pc EXCEPT ![c] = "active"] /\ call' = [call EXCEPT ![c] = call[c]]
        /\ pc[c] # "idle"
        BY <1>0, <1>2 DEF ScopeUnavailable, Goto, Calling
  <2>2. Calling'
        BY <1>0, <1>2, <2>1, GoesOn DEF ScopeUnavailable
  <2>. QED  BY <1>0, <1>2, <2>2, IndexStays, GroundStays, RememberedStays DEF ScopeUnavailable, IInv
<1>3. CASE Bypass(c)
  <2>1. Calling'
        BY <1>0, <1>3, FinishMoves DEF Bypass
  <2>. QED  BY <1>0, <1>3, <2>1, IndexStays, GroundStays, RememberedStays DEF Bypass, IInv
<1>4. CASE ExactHit(c)
  <2>1. Calling'
        BY <1>0, <1>4, FinishMoves DEF ExactHit
  <2>. QED  BY <1>0, <1>4, <2>1, IndexStays, GroundStays, RememberedStays DEF ExactHit, IInv
<1>5. CASE ExactMiss(c)
  <2>. DEFINE locals == [call[c] EXCEPT !.seen = epoch]
              place == IF call[c].generation = Nothing THEN "missed" ELSE "resolving"
  <2>1. /\ locals \in Locals /\ locals.request = call[c].request /\ locals.scope = call[c].scope
        /\ locals.generation = call[c].generation /\ locals.seen = epoch
        BY <1>0 DEF Locals
  <2>2. pc' = [pc EXCEPT ![c] = place] /\ call' = [call EXCEPT ![c] = locals] /\ pc[c] # "idle"
        BY <1>5 DEF ExactMiss, Goto
  <2>3. /\ place \in {"active", "missed", "resolving"}
        /\ place = "resolving" => locals.generation # Nothing
        BY <2>1
  <2>. HIDE DEF locals, place
  <2>4. Calling'
        BY <1>0, <1>5, <2>1, <2>2, <2>3, GoesOn DEF ExactMiss
  <2>. QED  BY <1>0, <1>5, <2>4, IndexStays, GroundStays, RememberedStays DEF ExactMiss, IInv
<1>6. CASE WithoutSemantics(c)
  <2>1. Calling'
        BY <1>0, <1>6, GenerateMoves DEF WithoutSemantics
  <2>. QED  BY <1>0, <1>6, <2>1, IndexStays, GroundStays, RememberedStays DEF WithoutSemantics, IInv
<1>7. CASE Retrieve(c)
  <2>1. Held' /\ Counted'
        BY <1>0, <1>7, CurrentPart, ShrinkHolds DEF Retrieve
  <2>2. Calling'
    <3>1. CASE Generate(c, TRUE)
          BY <1>0, <1>7, <3>1, GenerateMoves DEF Retrieve
    <3>2. ASSUME NEW k \in Selected(c, Current),
                 Goto(c, "approving"),
                 call' = [call EXCEPT ![c].candidate = <<k, Current[k]>>, ![c].vector = TRUE]
          PROVE  Calling'
      <4>. DEFINE locals == [call[c] EXCEPT !.candidate = <<k, Current[k]>>, !.vector = TRUE]
      <4>1. /\ k \in DOMAIN Current /\ Namespace(k[1]) = Namespace(KeyOf(c))
            /\ ScoreOf(c, k) >= Threshold
            BY DEF Selected, Candidates
      <4>2. k \in CandidateKey /\ Current[k] \in Candidate
            BY <1>0, <4>1, CurrentPart, SyncedPart DEF Held
      <4>3. /\ locals \in Locals /\ locals.request = call[c].request
            /\ locals.scope = call[c].scope /\ locals.generation = call[c].generation
            /\ locals.seen = call[c].seen /\ locals.candidate = <<k, Current[k]>>
            BY <1>0, <4>2 DEF Locals
      <4>4. pc' = [pc EXCEPT ![c] = "approving"] /\ call' = [call EXCEPT ![c] = locals]
            BY <3>2 DEF Goto
      <4>. HIDE DEF locals
      <4>5. pc'[c] = "approving" /\ call'[c] = locals /\ pc[c] = "resolving" /\ Local(c)
            BY <1>0, <1>7, <4>4 DEF Calling, Retrieve
      <4>6. UNCHANGED <<scopes, epoch, invalidations>>
            BY <1>7 DEF Retrieve
      <4>7. AtWork(c)' /\ call'[c] # NoCall
            BY <4>3, <4>5, <4>6, GuardedAssumption DEF Local, AtWork, NoCall
      <4>8. Proposed(c)'
        <5>1. KeyOf(c)' = KeyOf(c)
              BY <4>3, <4>5 DEF KeyOf
        <5>2. ScoreOf(c, k)' = ScoreOf(c, k)
              BY <4>3, <4>5 DEF ScoreOf
        <5>3. call'[c].candidate = <<k, Current[k]>>
              BY <4>3, <4>5
        <5>4. /\ call'[c].candidate \in CandidateKey \X Candidate
              /\ call'[c].candidate[1] = k
              BY <4>2, <5>3
        <5>. QED  BY <4>1, <5>1, <5>2, <5>4 DEF Proposed, ScoreOf
      <4>9. Local(c)'
            BY <4>5, <4>7, <4>8 DEF Local, Asked, Answered
      <4>. QED  BY <1>0, <4>3, <4>4, <4>6, <4>9, LocalsMove DEF Places
    <3>. QED  BY <1>7, <3>1, <3>2 DEF Retrieve
  <2>. QED  BY <1>0, <1>7, <2>1, <2>2, GroundStays, RememberedStays DEF Retrieve, IInv
<1>8. CASE RetrievalFails(c)
  <2>1. Calling'
        BY <1>0, <1>8, GenerateMoves DEF RetrievalFails
  <2>. QED  BY <1>0, <1>8, <2>1, IndexStays, GroundStays, RememberedStays DEF RetrievalFails, IInv
<1>9. CASE NotApproved(c)
  <2>1. Calling'
        BY <1>0, <1>9, GenerateMoves DEF NotApproved
  <2>. QED  BY <1>0, <1>9, <2>1, IndexStays, GroundStays, RememberedStays DEF NotApproved, IInv
<1>10. CASE Approved(c)
  <2>1. Held' /\ Counted'
        BY <1>0, <1>10, ApprovedHolds
  <2>2. Calling'
        BY <1>0, <1>10, FinishMoves DEF Approved
  <2>. QED  BY <1>0, <1>10, <2>1, <2>2, GroundStays, RememberedStays DEF Approved, IInv
<1>11. CASE Revoked(c)
  <2>1. Held' /\ Counted'
        BY <1>0, <1>11, SyncedPart, ShrinkHolds DEF Revoked
  <2>2. Calling'
        BY <1>0, <1>11, GenerateMoves DEF Revoked
  <2>. QED  BY <1>0, <1>11, <2>1, <2>2, GroundStays, RememberedStays DEF Revoked, IInv
<1>12. ASSUME NEW x \in Texts, Return(c, x) PROVE IInv'
  <2>1. Remembered' /\ Calling'
        BY <1>0, <1>12, ReturnRemembers
  <2>2. UNCHANGED <<scopes, indexVars, epoch, clock, begun, invalidations>>
        BY <1>12 DEF Return
  <2>. QED  BY <1>0, <2>1, <2>2, IndexStays, GroundStays DEF IInv
<1>13. CASE ReturnUnstored(c)
  <2>1. Calling'
        BY <1>0, <1>13, FinishMoves DEF ReturnUnstored
  <2>. QED  BY <1>0, <1>13, <2>1, IndexStays, GroundStays, RememberedStays DEF ReturnUnstored, IInv
<1>14. CASE Index(c)
  <2>1. Held' /\ Counted'
        BY <1>0, <1>14, IndexHolds
  <2>2. UNCHANGED <<scopes, exact, epoch, clock, begun, invalidations>> /\ Finish(c, "MISS", call[c].answer)
        BY <1>14 DEF Index
  <2>3. Calling'
        BY <1>0, <2>2, FinishMoves
  <2>. QED  BY <1>0, <2>1, <2>2, <2>3, GroundStays, RememberedStays DEF IInv
<1>15. CASE NotIndexed(c)
  <2>1. Held' /\ Counted'
        BY <1>0, <1>15, SyncedPart, ShrinkHolds DEF NotIndexed
  <2>2. Calling'
        BY <1>0, <1>15, FinishMoves DEF NotIndexed
  <2>. QED  BY <1>0, <1>15, <2>1, <2>2, GroundStays, RememberedStays DEF NotIndexed, IInv
<1>. QED  BY <1>1, <1>2, <1>3, <1>4, <1>5, <1>6, <1>7, <1>8, <1>9, <1>10, <1>11, <1>12, <1>13, <1>14, <1>15 DEF Step

LEMMA BeginIInv ==
    ASSUME IInv, NEW c \in Callers, NEW r \in Requests, Begin(c, r)
    PROVE  IInv'
<1>. DEFINE locals == [call[c] EXCEPT !.request = r, !.scope = ScopeOf(r[1])]
<1>0. /\ Ground /\ Remembered /\ Held /\ Counted /\ Calling
      /\ call[c] = NoCall /\ NoCall \in Locals /\ epoch \in Nat
      BY NoCallType, GuardedAssumption DEF IInv, Calling, Ground, Begin, Local
<1>1. /\ pc' = [pc EXCEPT ![c] = "scoped"] /\ call' = [call EXCEPT ![c] = locals]
      /\ begun' = begun + 1 /\ UNCHANGED <<scopes, indexVars, exact, epoch, clock, invalidations>>
      BY DEF Begin, Goto
<1>2. /\ locals \in Locals /\ locals.request = r /\ locals.scope \in Scopes
      /\ locals.generation = Nothing /\ locals.seen = 0
  <2>1. ScopeOf(r[1]) \in Scopes /\ call[c] \in Locals
        BY <1>0, ScopeOfType
  <2>2. /\ locals \in Locals /\ locals.request = r /\ locals.scope \in Scopes
        /\ locals.generation = call[c].generation /\ locals.seen = call[c].seen
        BY <2>1 DEF Locals
  <2>3. NoCall.generation = Nothing /\ NoCall.seen = 0
        BY DEF NoCall
  <2>. QED  BY <1>0, <2>2, <2>3
<1>. HIDE DEF locals
<1>3. pc'[c] = "scoped" /\ call'[c] = locals
      BY <1>0, <1>1 DEF Calling
<1>4. AtWork(c)' /\ call'[c] # NoCall
      BY <1>0, <1>1, <1>2, <1>3, GuardedAssumption DEF AtWork, NoCall
<1>5. Local(c)'
      BY <1>3, <1>4 DEF Local, Asked, Answered, Proposed
<1>6. Calling'
      BY <1>0, <1>1, <1>2, <1>5, LocalsMove DEF Places
<1>7. Ground'
      BY <1>0, <1>1 DEF Ground
<1>. QED  BY <1>0, <1>1, <1>6, <1>7, IndexStays, RememberedStays DEF IInv

LEMMA NextIInv == IInv /\ [Next]_vars => IInv'
<1>. SUFFICES ASSUME IInv, [Next]_vars PROVE IInv'
     OBVIOUS
<1>0. Ground /\ Remembered /\ Held /\ Counted /\ Calling
      BY DEF IInv
<1>1. ASSUME NEW c \in Callers, NEW r \in Requests, Begin(c, r) PROVE IInv'
      BY <1>1, BeginIInv
<1>2. ASSUME NEW c \in Callers, Step(c) PROVE IInv'
      BY <1>2, StepIInv
<1>3. ASSUME NEW t \in Tenants \cup {Default}, Invalidate(t) PROVE IInv'
  <2>1. ExactInvalidate(Affected(t)) /\ Clear /\ UNCHANGED <<scopes, pc, call, clock, begun>>
        BY <1>3 DEF Invalidate
  <2>2. Ground' /\ epoch' = epoch + 1
        BY <1>0, <2>1, InvalidatedGround
  <2>3. Remembered'
        BY <1>0, <2>1, InvalidatedRemembers
  <2>. QED  BY <1>0, <2>1, <2>2, <2>3, ClearHolds, LocalsAge DEF IInv
<1>4. ASSUME NEW t \in Tenants \cup {Default}, InvalidateElsewhere(t) PROVE IInv'
  <2>1. ExactInvalidate(Affected(t)) /\ UNCHANGED <<scopes, indexVars, pc, call, clock, begun>>
        BY <1>4 DEF InvalidateElsewhere
  <2>2. Ground' /\ epoch' = epoch + 1
        BY <1>0, <2>1, InvalidatedGround
  <2>3. Remembered'
        BY <1>0, <2>1, InvalidatedRemembers
  <2>. QED  BY <1>0, <2>1, <2>2, <2>3, IndexAges, LocalsAge DEF IInv
<1>5. ASSUME NEW t \in Tenants \cup {Default}, NEW s \in Scopes, UpdateScope(t, s) PROVE IInv'
  <2>1. /\ ExactInvalidate(Affected(t)) /\ Clear /\ scopes' = NewScopes(t, s)
        /\ UNCHANGED <<pc, call, clock, begun>>
        BY <1>5 DEF UpdateScope
  <2>2. Ground' /\ epoch' = epoch + 1
        BY <1>0, <2>1, InvalidatedGround
  <2>3. Remembered'
        BY <1>0, <2>1, InvalidatedRemembers
  <2>. QED  BY <1>0, <2>1, <2>2, <2>3, ClearHolds, LocalsAge DEF IInv
<1>6. CASE InvalidateFails
  <2>1. Clear /\ UNCHANGED <<scopes, exact, epoch, pc, call, clock, begun, invalidations>>
        BY <1>6 DEF InvalidateFails
  <2>. QED  BY <1>0, <2>1, ClearHolds, LocalsStay, GroundStays, RememberedStays DEF IInv
<1>7. ASSUME NEW k \in ExactKey, ExactForgets(k) PROVE IInv'
  <2>1. /\ DOMAIN exact' \subseteq DOMAIN exact /\ \A j \in DOMAIN exact' : exact'[j] = exact[j]
        /\ UNCHANGED <<scopes, indexVars, epoch, pc, call, clock, begun, invalidations>>
        BY <1>7 DEF ExactForgets
  <2>. QED  BY <1>0, <2>1, IndexStays, LocalsStay, GroundStays, RememberedStays DEF IInv
<1>8. CASE SemanticSize
  <2>1. Shrink(Current) /\ UNCHANGED <<scopes, exact, epoch, pc, call, clock, begun, invalidations>>
        BY <1>8 DEF SemanticSize
  <2>2. Held' /\ Counted'
        BY <1>0, <2>1, CurrentPart, ShrinkHolds
  <2>. QED  BY <1>0, <2>1, <2>2, LocalsStay, GroundStays, RememberedStays DEF IInv
<1>9. CASE Tick
  <2>1. clock' = clock + 1 /\ UNCHANGED <<scopes, indexVars, exact, epoch, pc, call, begun, invalidations>>
        BY <1>9 DEF Tick
  <2>2. Ground'
        BY <1>0, <2>1 DEF Ground
  <2>. QED  BY <1>0, <2>1, <2>2, IndexStays, LocalsStay, RememberedStays DEF IInv
<1>10. CASE UNCHANGED vars
  <2>1. UNCHANGED <<scopes, indexVars, exact, epoch, pc, call, clock, begun, invalidations>>
        BY <1>10 DEF vars
  <2>. QED  BY <1>0, <2>1, IndexStays, LocalsStay, GroundStays, RememberedStays DEF IInv
<1>. QED  BY <1>1, <1>2, <1>3, <1>4, <1>5, <1>6, <1>7, <1>8, <1>9, <1>10 DEF Next

\* The invariant, for the theorems that follow from it.
THEOREM Invariant == Spec => []IInv
BY InitIInv, NextIInv, PTL DEF Spec

--------------------------------------------------------------------------------
\* The two caches, the locals of the callers and the counters keep their types
\* (GuardedSemanticCache of semantic_runtime.py).
THEOREM TypeCorrect == Spec => []TypeOK
<1>1. IInv => TypeOK
  <2>. SUFFICES ASSUME IInv PROVE TypeOK
       OBVIOUS
  <2>1. Ground /\ Remembered /\ Held /\ Counted /\ Calling
        BY DEF IInv
  <2>2. \A k \in DOMAIN index : k \in CandidateKey /\ index[k] \in Candidate
        BY <2>1 DEF Held
  <2>3. bytes \in Int
        BY <2>1, BytesOfNat DEF Counted, IndexBounded
  <2>4. generation \in 0..MaxEpoch \cup {Nothing}
        BY <2>1, GuardedAssumption DEF Held, Ground
  <2>5. \A c \in Callers :
           /\ call[c] = NoCall <=> pc[c] = "idle"
           /\ pc[c] \in {"resolving", "approving"} => call[c].generation \in 0..epoch
        BY <2>1 DEF Calling, Local, AtWork
  <2>. QED  BY <2>1, <2>2, <2>3, <2>4, <2>5 DEF TypeOK, Ground, Remembered, Held
<1>. QED  BY Invariant, <1>1, PTL

\* Whatever calls of the provider were under way when knowledge changed,
\* process() never leaves an answer from the old knowledge in the exact cache
\* (update_scope and invalidate of semantic_runtime.py).
THEOREM KnowledgeStaysCurrent == Spec => []KnowledgeCurrent
<1>1. IInv => KnowledgeCurrent
      BY DEF IInv, Remembered
<1>. QED  BY Invariant, <1>1, PTL

\* Nor does the index, once it has noted the epoch: _index and
\* _sync_generation together keep out what an invalidation overtook.
THEOREM IndexStaysFresh == Spec => []IndexFresh
<1>1. IInv => IndexFresh
      BY DEF IInv, Held
<1>. QED  BY Invariant, <1>1, PTL

\* The index keeps max_entries and max_bytes, and _bytes is what its candidates
\* take, however they came and went (_index, _expire, _remove, _clear).
THEOREM IndexStaysBounded == Spec => []IndexBounded
<1>1. IInv => IndexBounded
      BY DEF IInv, Counted
<1>. QED  BY Invariant, <1>1, PTL

\* What a semantic hit returns has passed every check at the moment it is
\* returned, although the encoder and the approver ran without the lock.
THEOREM SemanticHitsAreValid == Spec => SemanticHitIsValid
<1>. DEFINE Valid ==
        reply' # Nothing /\ reply'.status = "SEMANTIC" =>
            /\ \E k \in DOMAIN index :
                 /\ Namespace(k[1]) = Namespace(reply'.key)
                 /\ Score[reply'.key[3]][k[1][3]] >= Threshold
                 /\ index[k].answer = reply'.answer
            /\ UpToDate(reply'.answer, reply'.key[1])
            /\ clock < reply'.answer.at + TTL
<1>1. ASSUME IInv, Next PROVE Valid
  <2>1. CASE \E c \in Callers : Approved(c)
    <3>1. PICK c \in Callers : Approved(c)
          BY <2>1
    <3>. DEFINE k == call[c].candidate[1]
    <3>2. /\ reply' = [status |-> "SEMANTIC", answer |-> call[c].candidate[2].answer, key |-> KeyOf(c)]
          /\ k \in DOMAIN Synced /\ Synced[k] = call[c].candidate[2]
          /\ Synced[k].expires > clock /\ pc[c] = "approving"
          BY <3>1 DEF Approved, Finish, StillCurrent
    <3>3. /\ k \in DOMAIN index /\ index[k] = call[c].candidate[2]
          /\ UpToDate(index[k].answer, k[1][1])
          /\ index[k].expires = index[k].answer.at + TTL
          BY <1>1, <3>2, SyncedPart DEF IInv, Held
    <3>4. /\ Namespace(k[1]) = Namespace(KeyOf(c)) /\ ScoreOf(c, k) >= Threshold
          BY <1>1, <3>2 DEF IInv, Calling, Local, Proposed
    <3>5. KeyOf(c)[1] = k[1][1] /\ KeyOf(c)[3] = call[c].request[2]
          BY <3>4 DEF Namespace, KeyOf
    <3>6. index[k].expires \in Nat /\ clock \in Nat /\ clock < index[k].expires
          BY <1>1, <3>2, <3>3 DEF IInv, Held, Ground, Candidate
    <3>. HIDE DEF k
    <3>7. Score[reply'.key[3]][k[1][3]] >= Threshold
          BY <3>2, <3>4, <3>5 DEF ScoreOf
    <3>8. UpToDate(reply'.answer, reply'.key[1]) /\ clock < reply'.answer.at + TTL
          BY <3>2, <3>3, <3>5, <3>6
    <3>. QED  BY <3>2, <3>3, <3>4, <3>7, <3>8
  <2>2. CASE \A c \in Callers : ~Approved(c)
    <3>1. ASSUME NEW c \in Callers, NEW status \in {"BYPASS", "HIT", "MISS"}, NEW answer,
                 Finish(c, status, answer)
          PROVE  reply'.status # "SEMANTIC"
          BY <3>1 DEF Finish
    <3>2. ASSUME NEW c \in Callers, NEW vector, Generate(c, vector) PROVE reply' = Nothing
          BY <3>2 DEF Generate, Silent
    <3>3. ASSUME NEW c \in Callers, Step(c) PROVE Valid
      <4>1. CASE ReadGeneration(c) \/ ScopeUnavailable(c) \/ ExactMiss(c)
            BY <4>1 DEF ReadGeneration, ScopeUnavailable, ExactMiss, Silent
      <4>2. CASE WithoutSemantics(c) \/ Retrieve(c) \/ RetrievalFails(c) \/ NotApproved(c) \/ Revoked(c)
        <5>1. reply' = Nothing
              BY <4>2, <3>2 DEF WithoutSemantics, Retrieve, RetrievalFails, NotApproved, Revoked, Silent
        <5>. QED  BY <5>1
      <4>3. CASE Bypass(c) \/ ExactHit(c) \/ ReturnUnstored(c) \/ Index(c) \/ NotIndexed(c)
        <5>1. reply'.status # "SEMANTIC"
              BY <4>3, <3>1 DEF Bypass, ExactHit, ReturnUnstored, Index, NotIndexed
        <5>. QED  BY <5>1
      <4>4. ASSUME NEW x \in Texts, Return(c, x) PROVE Valid
        <5>1. reply' = Nothing \/ reply'.status # "SEMANTIC"
              BY <4>4, <3>1 DEF Return, Silent
        <5>. QED  BY <5>1
      <4>. QED  BY <2>2, <3>3, <4>1, <4>2, <4>3, <4>4 DEF Step
    <3>4. ASSUME NEW c \in Callers, NEW r \in Requests, Begin(c, r) PROVE Valid
          BY <3>4 DEF Begin, Silent
    <3>5. ASSUME NEW t \in Tenants \cup {Default},
                 \/ Invalidate(t) \/ InvalidateElsewhere(t)
                 \/ \E s \in Scopes : UpdateScope(t, s)
          PROVE  Valid
          BY <3>5 DEF Invalidate, InvalidateElsewhere, UpdateScope, Silent
    <3>6. CASE InvalidateFails \/ SemanticSize \/ Tick \/ \E k \in ExactKey : ExactForgets(k)
          BY <3>6 DEF InvalidateFails, SemanticSize, Tick, ExactForgets, Silent
    <3>. QED  BY <1>1, <3>3, <3>4, <3>5, <3>6 DEF Next
  <2>. QED  BY <2>1, <2>2
<1>2. IInv /\ [Next]_vars => [Valid]_vars
      BY <1>1
<1>. QED  BY Invariant, <1>2, PTL DEF Spec, SemanticHitIsValid
================================================================================
