---------------------------- MODULE CacheCallsProofs ---------------------------
(***************************************************************************)
(* What the steps of the callers preserve, whatever storage they use.      *)
(* Callers that the step leaves alone keep their place; a stripe is held   *)
(* by the caller that runs under it.                                       *)
(***************************************************************************)
EXTENDS CacheCalls, LruProofs

LEMMA CallsInitType == CallsInit => CallsTypeOK
<1>1. 0 \in 0..MaxSize
    BY BoundsAssumption
<1> QED
    BY <1>1, CallersAssumption DEF CallsInit, CallsTypeOK, Points, Outcomes

LEMMA FinishType ==
    ASSUME CallsTypeOK, NEW c \in Callers, NEW status \in Outcomes,
           Finish(c, status), UNCHANGED <<epoch, invalidations>>
    PROVE  CallsTypeOK'
<1>1. 0 \in 0..MaxSize
    BY BoundsAssumption
<1> QED
    BY <1>1, CallersAssumption DEF CallsTypeOK, Finish, Goto, Points

LEMMA BeginType ==
    ASSUME CallsTypeOK, NEW c \in Callers, NEW k \in Keys,
           NEW cacheable \in BOOLEAN, Begin(c, k, cacheable),
           UNCHANGED <<epoch, invalidations>>
    PROVE  CallsTypeOK'
    BY DEF CallsTypeOK, Begin, Goto, Points, Outcomes

LEMMA MissedType ==
    ASSUME CallsTypeOK, NEW c \in Callers, pc[c] = "lookup",
           Missed(c), UNCHANGED <<epoch, invalidations>>
    PROVE  CallsTypeOK'
    BY DEF CallsTypeOK, Missed, Goto, Points

LEMMA ProceedType ==
    ASSUME CallsTypeOK, NEW c \in Callers, Proceed(c), UNCHANGED <<epoch, invalidations>>
    PROVE  CallsTypeOK'
<1>1. ASSUME NEW cacheable \in BOOLEAN, Enter(c, cacheable) PROVE CallsTypeOK'
    BY <1>1 DEF CallsTypeOK, Enter, Goto, Points
<1>2. CASE Resolve(c)
    BY <1>2, FinishType DEF Resolve, Outcomes
<1>3. CASE Call(c)
    <2>1. TenantOf[key[c]] \in Tenants
        BY <1>3, CallersAssumption DEF Call, CallsTypeOK
    <2> QED
        BY <1>3, <2>1 DEF CallsTypeOK, Call, Goto, Points
<1>4. ASSUME NEW bytes \in Sizes \cup {0}, Return(c, bytes) PROVE CallsTypeOK'
    <2>1. bytes \in 0..MaxSize
        BY CallersAssumption, BoundsAssumption
    <2> QED
        BY <1>4, <2>1 DEF CallsTypeOK, Return, Goto, Points
<1>5. CASE CallFails(c) \/ BypassReturns(c)
    BY <1>5, FinishType DEF CallFails, BypassReturns, Outcomes
<1> QED
    BY <1>1, <1>2, <1>3, <1>4, <1>5 DEF Proceed

LEMMA NextEpochType ==
    ASSUME CallsTypeOK, NEW scope, NextEpoch(scope), UNCHANGED callVars
    PROVE  CallsTypeOK'
    BY DEF CallsTypeOK, NextEpoch, callVars

--------------------------------------------------------------------------------
\* Who runs between acquiring and releasing a stripe is its holder.
InStripe(c) == pc[c] \in {"lookup", "missed", "calling", "admitting"}

LocksHeld == \A c \in Callers : InStripe(c) => holder[LockOf[c][key[c]]] = c

LEMMA InitLocks == CallsInit => LocksHeld
    BY DEF CallsInit, LocksHeld, InStripe

LEMMA FinishLocks ==
    ASSUME CallsTypeOK, LocksHeld, NEW c \in Callers, NEW status, Finish(c, status)
    PROVE  LocksHeld'
<1> SUFFICES ASSUME NEW d \in Callers, InStripe(d)'
             PROVE  holder'[LockOf[d][key'[d]]] = d
    BY DEF LocksHeld
<1>1. d # c
    BY DEF Finish, Goto, InStripe, CallsTypeOK
<1>2. InStripe(d) /\ key'[d] = key[d] /\ key[d] \in Keys
    BY <1>1 DEF Finish, Goto, InStripe, CallsTypeOK
<1>3. LockOf[d][key[d]] \in Locks /\ holder[LockOf[d][key[d]]] = d
    BY <1>2, CallersAssumption DEF LocksHeld
<1> QED
    BY <1>1, <1>2, <1>3 DEF Finish

LEMMA BeginLocks ==
    ASSUME CallsTypeOK, LocksHeld, NEW c \in Callers, NEW k \in Keys,
           NEW cacheable \in BOOLEAN, Begin(c, k, cacheable)
    PROVE  LocksHeld'
    BY DEF Begin, Goto, CallsTypeOK, LocksHeld, InStripe

LEMMA MissedLocks ==
    ASSUME CallsTypeOK, LocksHeld, NEW c \in Callers,
           pc[c] = "lookup", Missed(c)
    PROVE  LocksHeld'
    BY DEF Missed, Goto, CallsTypeOK, LocksHeld, InStripe

LEMMA EnterLocks ==
    ASSUME CallsTypeOK, LocksHeld, NEW c \in Callers, NEW cacheable \in BOOLEAN,
           Enter(c, cacheable)
    PROVE  LocksHeld'
<1> SUFFICES ASSUME NEW d \in Callers, InStripe(d)'
             PROVE  holder'[LockOf[d][key'[d]]] = d
    BY DEF LocksHeld
<1>1. key' = key /\ LockOf[c][key[c]] \in Locks
    BY CallersAssumption DEF Enter, CallsTypeOK
<1>2. CASE d = c
    BY <1>1, <1>2 DEF Enter, CallsTypeOK
<1>3. CASE d # c
    <2>1. InStripe(d) /\ holder[LockOf[d][key[d]]] = d
        BY <1>3 DEF Enter, Goto, InStripe, CallsTypeOK, LocksHeld
    <2>2. LockOf[d][key[d]] # LockOf[c][key[c]]
        BY <2>1, CallersAssumption DEF Enter
    <2> QED
        BY <1>1, <2>1, <2>2 DEF Enter, CallsTypeOK
<1> QED
    BY <1>2, <1>3

LEMMA ProceedLocks ==
    ASSUME CallsTypeOK, LocksHeld, NEW c \in Callers, Proceed(c)
    PROVE  LocksHeld'
<1>1. ASSUME NEW cacheable \in BOOLEAN, Enter(c, cacheable) PROVE LocksHeld'
    BY <1>1, EnterLocks
<1>2. ASSUME NEW status, Finish(c, status) PROVE LocksHeld'
    BY <1>2, FinishLocks
<1>3. ASSUME Call(c) \/ \E bytes \in Sizes \cup {0} : Return(c, bytes)
      PROVE  LocksHeld'
    BY <1>3 DEF Call, Return, Goto, CallsTypeOK, LocksHeld, InStripe
<1> QED
    BY <1>1, <1>2, <1>3 DEF Proceed, Resolve, CallFails, BypassReturns

--------------------------------------------------------------------------------
\* Neither the epoch read at a lookup nor the count noted at a call is from the
\* future, and while that epoch is the current one no tenant was invalidated
\* since the provider call began.
EpochsSeen ==
    \A c \in Callers :
        /\ seen[c] <= epoch
        /\ pc[c] \in {"calling", "admitting"} => born[c] <= invalidations[TenantOf[key[c]]]
        /\ pc[c] \in {"calling", "admitting"} /\ seen[c] = epoch
              => born[c] = invalidations[TenantOf[key[c]]]

LEMMA FinishEpochs ==
    ASSUME CallsTypeOK, EpochsSeen, NEW c \in Callers,
           NEW status, Finish(c, status), UNCHANGED <<epoch, invalidations>>
    PROVE  EpochsSeen'
    BY DEF Finish, Goto, CallsTypeOK, EpochsSeen

LEMMA BeginEpochs ==
    ASSUME CallsTypeOK, EpochsSeen, NEW c \in Callers,
           NEW k \in Keys, NEW cacheable \in BOOLEAN, Begin(c, k, cacheable),
           UNCHANGED <<epoch, invalidations>>
    PROVE  EpochsSeen'
    BY DEF Begin, Goto, CallsTypeOK, EpochsSeen

LEMMA MissedEpochs ==
    ASSUME CallsTypeOK, EpochsSeen, NEW c \in Callers,
           Missed(c), UNCHANGED <<epoch, invalidations>>
    PROVE  EpochsSeen'
    BY DEF Missed, Goto, CallsTypeOK, EpochsSeen

LEMMA ProceedEpochs ==
    ASSUME CallsTypeOK, EpochsSeen, NEW c \in Callers,
           Proceed(c), UNCHANGED <<epoch, invalidations>>
    PROVE  EpochsSeen'
<1>1. ASSUME NEW cacheable \in BOOLEAN, Enter(c, cacheable) PROVE EpochsSeen'
    BY <1>1 DEF Enter, Goto, CallsTypeOK, EpochsSeen
<1>2. ASSUME NEW status, Finish(c, status) PROVE EpochsSeen'
    BY <1>2, FinishEpochs
<1>3. CASE Call(c)
    <2>1. key[c] \in Keys /\ TenantOf[key[c]] \in Tenants
        BY <1>3, CallersAssumption DEF Call, CallsTypeOK
    <2>2. invalidations[TenantOf[key[c]]] \in Nat
        BY <2>1 DEF CallsTypeOK
    <2> QED
        BY <1>3, <2>2 DEF Call, Goto, CallsTypeOK, EpochsSeen
<1>4. ASSUME NEW bytes \in Sizes \cup {0}, Return(c, bytes) PROVE EpochsSeen'
    BY <1>4 DEF Return, Goto, CallsTypeOK, EpochsSeen
<1> QED
    BY <1>1, <1>2, <1>3, <1>4 DEF Proceed, Resolve, CallFails, BypassReturns

\* Every invalidation moves the epoch on, so no epoch seen before is current.
LEMMA NextEpochEpochs ==
    ASSUME CallsTypeOK, EpochsSeen, NEW scope, NextEpoch(scope), UNCHANGED callVars
    PROVE  EpochsSeen'
<1> SUFFICES ASSUME NEW c \in Callers
             PROVE  /\ seen[c] < epoch'
                    /\ pc[c] \in {"calling", "admitting"} =>
                          born[c] <= invalidations'[TenantOf[key[c]]]
    BY DEF EpochsSeen, callVars, NextEpoch, CallsTypeOK
<1>1. seen[c] < epoch'
    BY DEF NextEpoch, EpochsSeen, CallsTypeOK
<1>2. CASE pc[c] \in {"calling", "admitting"}
    <2>1. key[c] \in Keys /\ TenantOf[key[c]] \in Tenants
        BY <1>2, CallersAssumption DEF CallsTypeOK
    <2>2. invalidations[TenantOf[key[c]]] \in Nat /\ born[c] \in Nat
        BY <2>1 DEF CallsTypeOK
    <2>3. born[c] <= invalidations[TenantOf[key[c]]]
        BY <1>2 DEF EpochsSeen
    <2> QED
        BY <1>1, <2>1, <2>2, <2>3 DEF NextEpoch
<1> QED
    BY <1>1, <1>2

--------------------------------------------------------------------------------
(* What each step looks like to CacheContract. *)

StageOf == [c \in Callers |-> Stage(c)]
ReplyOf == [c \in Callers |-> Replied(c)]

LEMMA InitMaps ==
    CallsInit => /\ StageOf = [c \in Callers |-> "idle"]
                 /\ ReplyOf = [c \in Callers |-> "none"]
                 /\ Fresh = {}
    BY DEF CallsInit, StageOf, ReplyOf, Stage, Replied, Fresh

LEMMA FinishMaps ==
    ASSUME CallsTypeOK, NEW c \in Callers, NEW status, Finish(c, status),
           UNCHANGED invalidations
    PROVE  /\ StageOf' = [StageOf EXCEPT ![c] = "idle"]
           /\ ReplyOf' = [ReplyOf EXCEPT ![c] = IF status = "STORED" THEN "MISS" ELSE status]
           /\ key' = [key EXCEPT ![c] = NoKey]
           /\ Fresh' = Fresh \ {c}
<1>1. \A d \in Callers : /\ Stage(d)' = IF d = c THEN "idle" ELSE Stage(d)
                         /\ Replied(d)' = IF d # c THEN Replied(d)
                                          ELSE IF status = "STORED" THEN "MISS" ELSE status
    BY DEF Finish, Goto, CallsTypeOK, Stage, Replied
<1>2. \A d \in Callers : d # c => born'[d] = born[d] /\ key'[d] = key[d]
    BY DEF Finish, CallsTypeOK
<1> QED
    BY <1>1, <1>2 DEF StageOf, ReplyOf, Fresh, Finish

LEMMA BeginMaps ==
    ASSUME CallsTypeOK, NEW c \in Callers, NEW k, NEW cacheable \in BOOLEAN,
           Begin(c, k, cacheable), UNCHANGED invalidations
    PROVE  /\ Stage(c) = "idle"
           /\ StageOf' = [StageOf EXCEPT ![c] = "waiting"]
           /\ ReplyOf' = [ReplyOf EXCEPT ![c] = "none"]
           /\ key' = [key EXCEPT ![c] = k]
           /\ Fresh' = Fresh
<1>1. \A d \in Callers : /\ Stage(d)' = IF d = c THEN "waiting" ELSE Stage(d)
                         /\ Replied(d)' = IF d = c THEN "none" ELSE Replied(d)
                         /\ d # c => key'[d] = key[d]
    BY DEF Begin, Goto, CallsTypeOK, Stage, Replied
<1>2. Stage(c) = "idle"
    BY DEF Begin, Stage
<1> QED
    BY <1>1, <1>2 DEF StageOf, ReplyOf, Fresh, Begin

\* The provider call begins, and what it will bring is fresh.
LEMMA CallMaps ==
    ASSUME CallsTypeOK, NEW c \in Callers, Call(c), UNCHANGED invalidations
    PROVE  /\ Stage(c) = "waiting"
           /\ StageOf' = [StageOf EXCEPT ![c] = "generating"]
           /\ UNCHANGED <<ReplyOf, key>>
           /\ Fresh' = Fresh \cup {c}
<1>1. \A d \in Callers : /\ Stage(d)' = IF d = c THEN "generating" ELSE Stage(d)
                         /\ Replied(d)' = Replied(d)
                         /\ born'[d] = IF d = c THEN invalidations[TenantOf[key[c]]] ELSE born[d]
    BY DEF Call, Goto, CallsTypeOK, Stage, Replied
<1>2. Stage(c) = "waiting"
    BY DEF Call, Stage
<1>3. UNCHANGED <<key, invalidations>>
    BY DEF Call
<1> QED
    BY <1>1, <1>2, <1>3 DEF StageOf, ReplyOf, Fresh

\* Within a stage nothing is seen.
LEMMA InnerMaps ==
    ASSUME CallsTypeOK, NEW c \in Callers, UNCHANGED invalidations,
           \/ \E cacheable \in BOOLEAN : Enter(c, cacheable)
           \/ pc[c] = "lookup" /\ Missed(c)
           \/ \E bytes \in Sizes \cup {0} : Return(c, bytes)
    PROVE  UNCHANGED <<StageOf, ReplyOf, key, Fresh>>
<1>1. \A d \in Callers : Stage(d)' = Stage(d) /\ Replied(d)' = Replied(d)
    BY DEF Enter, Missed, Return, Goto, CallsTypeOK, Stage, Replied
<1>2. UNCHANGED <<key, born>>
    BY DEF Enter, Missed, Return
<1> QED
    BY <1>1, <1>2 DEF StageOf, ReplyOf, Fresh

LEMMA SameMaps ==
    UNCHANGED <<callVars, invalidations>> => UNCHANGED <<StageOf, ReplyOf, key, Fresh>>
    BY DEF callVars, StageOf, ReplyOf, Fresh, Stage, Replied

LEMMA NextEpochMaps ==
    ASSUME CallsTypeOK, EpochsSeen, NEW scope, NextEpoch(scope), UNCHANGED callVars
    PROVE  /\ UNCHANGED <<StageOf, ReplyOf, key>>
           /\ Fresh' = {c \in Fresh : TenantOf[key[c]] \notin scope}
<1>1. \A c \in Callers : Stage(c)' = Stage(c) /\ Replied(c)' = Replied(c)
    BY DEF callVars, Stage, Replied
<1>2. \A c \in Callers : Stage(c) = "generating" => TenantOf[key[c]] \in Tenants
    BY CallersAssumption DEF CallsTypeOK, Stage
<1>3. \A c \in Callers : Stage(c) = "generating" =>
          /\ TenantOf[key[c]] \notin scope =>
                invalidations'[TenantOf[key[c]]] = invalidations[TenantOf[key[c]]]
          /\ TenantOf[key[c]] \in scope =>
                invalidations'[TenantOf[key[c]]] = invalidations[TenantOf[key[c]]] + 1
    BY <1>2 DEF NextEpoch
<1>4. UNCHANGED <<key, born>>
    BY DEF callVars
<1>5. \A c \in Callers : Stage(c) = "generating" =>
          /\ born[c] \in Nat /\ invalidations[TenantOf[key[c]]] \in Nat
          /\ born[c] <= invalidations[TenantOf[key[c]]]
    BY <1>2 DEF CallsTypeOK, EpochsSeen, Stage
<1>6. Fresh' = {c \in Fresh : TenantOf[key[c]] \notin scope}
    BY <1>1, <1>3, <1>4, <1>5 DEF Fresh
<1> QED
    BY <1>1, <1>4, <1>6 DEF StageOf, ReplyOf
================================================================================
