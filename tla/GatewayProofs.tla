----------------------------- MODULE GatewayProofs -----------------------------
(***************************************************************************)
(* Theorems about Gateway, for every set of requests and streams and any   *)
(* number of slots and events.                                             *)
(***************************************************************************)
EXTENDS Gateway, FiniteSetTheorems, TLAPS

Sessions == [DOMAIN NoSession -> BOOLEAN]

\* Before its session can be used nothing has been sent, counted or answered.
Early == {"new", "reading", "dispatched"} \cup Processing \cup {"opened"}

\* What the counters, the session and the answer of a request say of each
\* other, wherever the request is.
Account(r) ==
    LET n == tally[r]
        s == session[r]
    IN  /\ pc[r] \in Early =>
              s = NoSession /\ n = Zero /\ reply[r] = "none" /\ wire[r] = <<>>
        /\ pc[r] \in {"opening"} \cup InSession => r \in Streams
        /\ pc[r] \in InSession => reply[r] \in {"none", "stream"}
        /\ pc[r] \in InSession /\ ~s.closed =>
              /\ ~s.done /\ ~s.failed
              /\ n.busy = 0 /\ n.finish = 0
              /\ n.completed = 0 /\ n.failed = 0 /\ n.cancelled = 0
              /\ n.usage + n.usage_missing = IF s.usage_seen THEN 1 ELSE 0
        /\ s.closed =>
              /\ n.busy = 0 /\ n.finish = 1
              /\ n.completed + n.failed + n.cancelled = 1
              /\ n.usage + n.usage_missing = 1
        /\ n.busy + n.finish <= 1
        /\ reply[r] \in Refusals =>
              /\ pc[r] = "over"
              /\ n = [Zero EXCEPT !.busy = IF reply[r] = "gateway_busy" THEN 1 ELSE 0]
        /\ reply[r] = "stream" => r \in Streams /\ (s.closed \/ pc[r] \in InSession)
        /\ reply[r] \in {"response", "upstream_or_processing_error"} =>
              pc[r] = "over" /\ n.finish = 1

\* What was sent is what the session remembers of it.
Told(r) ==
    LET w == wire[r]
        s == session[r]
    IN  /\ s.has_text <=> \E i \in 1..Len(w) : HasText(w[i])
        /\ s.finished <=> \E i \in 1..Len(w) : HasStop(w[i])
        /\ s.usage_seen <=> \E i \in 1..Len(w) : HasUsage(w[i])
        /\ s.usage_seen => s.finished
        /\ \A i \in 1..Len(w) : w[i] \in {"[DONE]", "error"} => i = Len(w) /\ s.closed
        /\ \A i, j \in 1..Len(w) : HasStop(w[i]) =>
              (HasChoice(w[j]) => j <= i) /\ (HasUsage(w[j]) => i <= j)
        /\ \A i, j \in 1..Len(w) : HasUsage(w[i]) /\ HasUsage(w[j]) => i = j
        /\ \A i \in 1..Len(w) : w[i] = "[DONE]" => s.has_text /\ s.finished

\* The types, apart from the count of the free slots.
ShapeOK ==
    /\ pc \in [Requests -> Points]
    /\ gone \subseteq Requests
    /\ session \in [Requests -> Sessions]
    /\ wire \in [Requests -> Seq(Events \cup {"error"})]
    /\ tally \in [Requests -> [Counters -> Nat]]
    /\ reply \in [Requests -> {"none"} \cup Refusals \cup Answers]

Requestwise == \A r \in Requests : Account(r) /\ Told(r)

IInv ==
    /\ TypeOK
    /\ SlotsAccounted
    /\ Requestwise

--------------------------------------------------------------------------------
(* The steps, by what they do to the request they are about. *)

LEMMA SessionFields ==
    DOMAIN NoSession = {"finished", "has_text", "usage_seen", "done", "failed", "closed"}
    BY DEF NoSession

LEMMA BlankFields ==
    /\ ~NoSession.closed /\ ~NoSession.done /\ ~NoSession.failed /\ ~NoSession.usage_seen
    /\ ~NoSession.has_text /\ ~NoSession.finished
    /\ Zero.busy = 0 /\ Zero.finish = 0 /\ Zero.completed = 0 /\ Zero.failed = 0
    /\ Zero.cancelled = 0 /\ Zero.usage = 0 /\ Zero.usage_missing = 0
    BY DEF NoSession, Zero, Counters

\* Counting counts for one request.
LEMMA CountEffect ==
    ASSUME tally \in [Requests -> [Counters -> Nat]], NEW r \in Requests, NEW S, Count(r, S)
    PROVE  /\ tally' \in [Requests -> [Counters -> Nat]]
           /\ \A q \in Requests \ {r} : tally'[q] = tally[q]
           /\ \A n \in Counters : tally'[r][n] = IF n \in S THEN tally[r][n] + 1 ELSE tally[r][n]
    BY DEF Count

LEMMA GotoEffect ==
    ASSUME pc \in [Requests -> Points], NEW r \in Requests, NEW point \in Points, Goto(r, point)
    PROVE  /\ pc' \in [Requests -> Points]
           /\ pc'[r] = point
           /\ \A q \in Requests \ {r} : pc'[q] = pc[q]
    BY DEF Goto

LEMMA ReplyEffect ==
    ASSUME reply \in [Requests -> {"none"} \cup Refusals \cup Answers],
           NEW r \in Requests, NEW a \in Refusals \cup Answers, Reply(r, a)
    PROVE  /\ reply' \in [Requests -> {"none"} \cup Refusals \cup Answers]
           /\ reply'[r] = IF r \in gone THEN reply[r] ELSE a
           /\ \A q \in Requests \ {r} : reply'[q] = reply[q]
    BY DEF Reply

\* close() ends what is open, in one of three ways, and gives the slot back.
LEMMA CloseEffect ==
    ASSUME ShapeOK, NEW r \in Requests, NEW s \in Sessions,
           NEW counted \in {{}, {"completed"}, {"failed"}}, ~s.closed,
           CloseSession(r, s, counted)
    PROVE  /\ session' \in [Requests -> Sessions]
           /\ session'[r] = [s EXCEPT !.closed = TRUE]
           /\ \A q \in Requests \ {r} : session'[q] = session[q] /\ tally'[q] = tally[q]
           /\ tally' \in [Requests -> [Counters -> Nat]]
           /\ tally'[r].busy = tally[r].busy
           /\ tally'[r].finish = tally[r].finish + 1
           /\ tally'[r].completed = IF "completed" \in counted THEN tally[r].completed + 1
                                                              ELSE tally[r].completed
           /\ tally'[r].failed = IF "failed" \in counted THEN tally[r].failed + 1
                                                        ELSE tally[r].failed
           /\ tally'[r].cancelled = IF s.done \/ s.failed THEN tally[r].cancelled
                                                         ELSE tally[r].cancelled + 1
           /\ tally'[r].usage = tally[r].usage
           /\ tally'[r].usage_missing = IF s.usage_seen THEN tally[r].usage_missing
                                                       ELSE tally[r].usage_missing + 1
           /\ slots' = slots + 1
<1> DEFINE S == counted \cup {"finish"}
                  \cup (IF s.usage_seen THEN {} ELSE {"usage_missing"})
                  \cup (IF s.done \/ s.failed THEN {} ELSE {"cancelled"})
<1>1. /\ session' = [session EXCEPT ![r] = [s EXCEPT !.closed = TRUE]]
      /\ Count(r, S)
      /\ slots' = slots + 1
    BY DEF CloseSession
<1>2. [s EXCEPT !.closed = TRUE] \in Sessions
    BY DEF Sessions
<1>3. /\ session' \in [Requests -> Sessions]
      /\ session'[r] = [s EXCEPT !.closed = TRUE]
      /\ \A q \in Requests \ {r} : session'[q] = session[q]
    BY <1>1, <1>2 DEF ShapeOK
<1>4. /\ tally' \in [Requests -> [Counters -> Nat]]
      /\ \A q \in Requests \ {r} : tally'[q] = tally[q]
      /\ \A n \in Counters : tally'[r][n] = IF n \in S THEN tally[r][n] + 1 ELSE tally[r][n]
    BY <1>1, CountEffect DEF ShapeOK
<1>5. /\ "busy" \notin S /\ "finish" \in S /\ "usage" \notin S
      /\ "completed" \in S <=> "completed" \in counted
      /\ "failed" \in S <=> "failed" \in counted
      /\ "cancelled" \in S <=> ~(s.done \/ s.failed)
      /\ "usage_missing" \in S <=> ~s.usage_seen
    OBVIOUS
<1> HIDE DEF S
<1> QED
    BY <1>1, <1>3, <1>4, <1>5 DEF Counters

--------------------------------------------------------------------------------
(* The invariant holds after a step that is about one request, if it holds *)
(* of that request and the step moves at most its slot.                    *)

SlotMoves(r) ==
    \/ slots' = slots /\ (r \in Holding' <=> r \in Holding)
    \/ slots > 0 /\ slots' = slots - 1 /\ r \notin Holding /\ r \in Holding'
    \/ slots' = slots + 1 /\ r \in Holding /\ r \notin Holding'

StepOf(r) ==
    /\ ShapeOK'
    /\ \A q \in Requests \ {r} :
          /\ pc'[q] = pc[q] /\ session'[q] = session[q] /\ wire'[q] = wire[q]
          /\ tally'[q] = tally[q] /\ reply'[q] = reply[q]
    /\ Account(r)'
    /\ Told(r)'
    /\ SlotMoves(r)

LEMMA StepSlots ==
    ASSUME IInv, NEW r \in Requests, StepOf(r)
    PROVE  SlotsAccounted' /\ slots' \in 0..max_inflight
<1>1. IsFiniteSet(Holding) /\ IsFiniteSet(Holding') /\ Cardinality(Holding) \in Nat
      /\ Cardinality(Holding') \in Nat
    BY GatewayAssumption, FS_Subset, FS_CardinalityType DEF Holding
<1>2. \A q \in Requests \ {r} : q \in Holding' <=> q \in Holding
    BY DEF StepOf, Holding
<1>3. Holding \subseteq Requests /\ Holding' \subseteq Requests
    BY DEF Holding
<1>4. /\ slots \in 0..max_inflight /\ max_inflight \in Nat
      /\ slots + Cardinality(Holding) = max_inflight
    BY GatewayAssumption DEF IInv, TypeOK, SlotsAccounted
<1>5. CASE slots' = slots /\ (r \in Holding' <=> r \in Holding)
    <2>1. Holding' = Holding
        BY <1>2, <1>3, <1>5
    <2> QED
        BY <1>4, <1>5, <2>1 DEF SlotsAccounted
<1>6. CASE slots > 0 /\ slots' = slots - 1 /\ r \notin Holding /\ r \in Holding'
    <2>1. Holding' = Holding \cup {r}
        BY <1>2, <1>3, <1>6
    <2>2. Cardinality(Holding') = Cardinality(Holding) + 1
        BY <1>1, <1>6, <2>1, FS_AddElement
    <2> QED
        BY <1>1, <1>4, <1>6, <2>2 DEF SlotsAccounted
<1>7. CASE slots' = slots + 1 /\ r \in Holding /\ r \notin Holding'
    <2>1. Holding' = Holding \ {r}
        BY <1>2, <1>3, <1>7
    <2>2. Cardinality(Holding') = Cardinality(Holding) - 1
        BY <1>1, <1>7, <2>1, FS_RemoveElement
    <2> QED
        BY <1>1, <1>4, <1>7, <2>2 DEF SlotsAccounted
<1> QED
    BY <1>5, <1>6, <1>7 DEF StepOf, SlotMoves

LEMMA StepInv ==
    ASSUME IInv, NEW r \in Requests, StepOf(r)
    PROVE  IInv'
<1>1. TypeOK'
    BY StepSlots DEF StepOf, ShapeOK, TypeOK, Sessions
<1>2. ASSUME NEW q \in Requests PROVE Account(q)' /\ Told(q)'
    <2>1. CASE q = r
        BY <2>1 DEF StepOf
    <2>2. CASE q # r
        <3>1. /\ pc'[q] = pc[q] /\ session'[q] = session[q] /\ wire'[q] = wire[q]
              /\ tally'[q] = tally[q] /\ reply'[q] = reply[q]
            BY <2>2 DEF StepOf
        <3>2. Account(q) /\ Told(q)
            BY DEF IInv, Requestwise
        <3>3. Account(q)'
            BY <3>1, <3>2 DEF Account
        <3>4. Told(q)'
            BY <3>1, <3>2 DEF Told
        <3> QED
            BY <3>3, <3>4
    <2> QED
        BY <2>1, <2>2
<1> QED
    BY <1>1, <1>2, StepSlots DEF IInv, Requestwise

--------------------------------------------------------------------------------
(* Before a session is there. *)

\* The handler refuses, counting only that it is busy.
LEMMA RefuseStep ==
    ASSUME IInv, NEW r \in Requests, NEW code \in Refusals, Refuse(r, code),
           pc[r] \in {"new", "reading", "dispatched"},
           IF code = "gateway_busy" THEN Count(r, {"busy"}) ELSE UNCHANGED tally
    PROVE  StepOf(r)
<1>0. ShapeOK /\ Account(r) /\ Told(r)
    BY DEF IInv, TypeOK, ShapeOK, Sessions, Requestwise
<1>1. /\ pc' \in [Requests -> Points] /\ pc'[r] = "over"
      /\ \A q \in Requests \ {r} : pc'[q] = pc[q]
    BY <1>0, GotoEffect DEF Refuse, ShapeOK, Points
<1>2. /\ reply' \in [Requests -> {"none"} \cup Refusals \cup Answers]
      /\ reply'[r] \in {"none", code}
      /\ \A q \in Requests \ {r} : reply'[q] = reply[q]
    BY <1>0, ReplyEffect DEF Refuse, ShapeOK, Account, Early
<1>3. /\ tally' \in [Requests -> [Counters -> Nat]]
      /\ \A q \in Requests \ {r} : tally'[q] = tally[q]
      /\ tally'[r] = [Zero EXCEPT !.busy = IF code = "gateway_busy" THEN 1 ELSE 0]
    <2>1. tally[r] = Zero /\ tally \in [Requests -> [Counters -> Nat]]
        BY <1>0 DEF Account, Early, ShapeOK
    <2>2. CASE code = "gateway_busy"
        <3>1. /\ tally' \in [Requests -> [Counters -> Nat]]
              /\ \A q \in Requests \ {r} : tally'[q] = tally[q]
              /\ \A n \in Counters : tally'[r][n] = IF n \in {"busy"} THEN tally[r][n] + 1
                                                                     ELSE tally[r][n]
            BY <2>1, <2>2, CountEffect
        <3> QED
            BY <2>1, <2>2, <3>1 DEF Zero, Counters
    <2>3. CASE code # "gateway_busy"
        BY <2>1, <2>3 DEF Zero
    <2> QED
        BY <2>2, <2>3
<1>4. /\ session'[r] = NoSession /\ wire'[r] = <<>>
      /\ UNCHANGED <<slots, gone, session, wire>>
    BY <1>0 DEF Refuse, Account, Early
<1>5. Account(r)'
    <2>1. tally'[r].busy \in {0, 1} /\ tally'[r].finish = 0
        BY <1>3 DEF Zero, Counters
    <2>2. reply'[r] \in {"none"} \cup Refusals
        BY <1>2
    <2>3. reply'[r] \in Refusals =>
              tally'[r] = [Zero EXCEPT !.busy = IF reply'[r] = "gateway_busy" THEN 1 ELSE 0]
        BY <1>2, <1>3 DEF Refusals
    <2>4. ~session'[r].closed
        BY <1>4, BlankFields
    <2>5. pc'[r] = "over"
        BY <1>1
    <2> QED
        BY <2>1, <2>2, <2>3, <2>4, <2>5 DEF Account, Early, InSession, Processing, Refusals
<1>6. Told(r)'
    BY <1>0, <1>4 DEF Told
<1>7. SlotMoves(r)
    BY <1>0, <1>1, <1>4 DEF SlotMoves, Holding, Processing, InSession
<1>8. ShapeOK'
    BY <1>0, <1>1, <1>2, <1>3, <1>4 DEF ShapeOK
<1> QED
    BY <1>1, <1>2, <1>3, <1>4, <1>5, <1>6, <1>7, <1>8 DEF StepOf

\* The request goes on to its next point, before its session is used, or is
\* dropped by its handler.
LEMMA EarlyStep ==
    ASSUME IInv, NEW r \in Requests, NEW point \in Early \cup {"over"}, Goto(r, point),
           pc[r] \in Early, point \in {"opening", "opened"} => r \in Streams,
           UNCHANGED <<session, wire, tally, reply>>, gone' \subseteq Requests, SlotMoves(r)
    PROVE  StepOf(r)
<1>0. ShapeOK /\ Account(r) /\ Told(r)
    BY DEF IInv, TypeOK, ShapeOK, Sessions, Requestwise
<1>1. /\ pc' \in [Requests -> Points] /\ pc'[r] = point
      /\ \A q \in Requests \ {r} : pc'[q] = pc[q]
    BY <1>0, GotoEffect DEF ShapeOK, Points, Early, InSession
<1>2. Account(r)'
    <2>1. session[r] = NoSession /\ tally[r] = Zero /\ reply[r] = "none" /\ wire[r] = <<>>
        BY <1>0, <1>1 DEF Account
    <2>2. pc'[r] \in {"opening"} \cup InSession => r \in Streams
        BY <1>1 DEF Early, InSession, Processing
    <2>3. "none" \notin Refusals
        BY DEF Refusals
    <2> QED
        BY <2>1, <2>2, <2>3, BlankFields DEF Account
<1>3. Told(r)'
    BY <1>0 DEF Told
<1>4. ShapeOK'
    BY <1>0, <1>1 DEF ShapeOK
<1> QED
    BY <1>1, <1>2, <1>3, <1>4 DEF StepOf

LEMMA AdmitStep ==
    ASSUME IInv, NEW r \in Requests, Admit(r)
    PROVE  StepOf(r)
<1>1. CASE Unauthorized(r) \/ BadHeader(r) \/ BadBody(r) \/ Invalid(r)
    BY <1>1, RefuseStep DEF Unauthorized, BadHeader, BadBody, Invalid, Refusals
<1>2. CASE Busy(r)
    BY <1>2, RefuseStep DEF Busy, Refusals
<1>3. CASE Receive(r) \/ Dispatch(r)
    <2>0. ShapeOK
        BY DEF IInv, TypeOK, ShapeOK, Sessions
    <2>1. SlotMoves(r)
        BY <1>3, <2>0 DEF Receive, Dispatch, Goto, ShapeOK, SlotMoves, Holding, Processing,
           InSession
    <2> QED
        BY <1>3, <2>0, <2>1, EarlyStep DEF Receive, Dispatch, Early, ShapeOK
<1>4. CASE Acquire(r)
    <2>0. ShapeOK /\ slots \in Nat
        BY DEF IInv, TypeOK, ShapeOK, Sessions
    <2>1. SlotMoves(r)
        BY <1>4, <2>0 DEF Acquire, Goto, ShapeOK, SlotMoves, Holding, Processing, InSession
    <2> QED
        BY <1>4, <2>0, <2>1, EarlyStep DEF Acquire, Early, Processing, ShapeOK
<1> QED
    BY <1>1, <1>2, <1>3, <1>4 DEF Admit

\* A request that had a slot and no session is over.
LEMMA FinishStep ==
    ASSUME IInv, NEW r \in Requests, pc[r] \in Processing, Goto(r, "over"),
           NEW S \in {{"finish"}, {"finish", "usage_missing"}}, Count(r, S),
           NEW a \in {"response", "upstream_or_processing_error"}, Reply(r, a),
           slots' = slots + 1, UNCHANGED <<gone, session, wire>>
    PROVE  StepOf(r)
<1>0. ShapeOK /\ Account(r) /\ Told(r)
    BY DEF IInv, TypeOK, ShapeOK, Sessions, Requestwise
<1>1. /\ pc' \in [Requests -> Points] /\ pc'[r] = "over"
      /\ \A q \in Requests \ {r} : pc'[q] = pc[q]
    BY <1>0, GotoEffect DEF ShapeOK, Points
<1>2. /\ session[r] = NoSession /\ tally[r] = Zero /\ reply[r] = "none"
    BY <1>0 DEF Account, Early
<1>3. /\ reply' \in [Requests -> {"none"} \cup Refusals \cup Answers]
      /\ reply'[r] \in {"none", a}
      /\ \A q \in Requests \ {r} : reply'[q] = reply[q]
    BY <1>0, <1>2, ReplyEffect DEF ShapeOK, Answers
<1>4. /\ tally' \in [Requests -> [Counters -> Nat]]
      /\ \A q \in Requests \ {r} : tally'[q] = tally[q]
      /\ \A n \in Counters : tally'[r][n] = IF n \in S THEN tally[r][n] + 1 ELSE tally[r][n]
    BY <1>0, CountEffect DEF ShapeOK
<1>5. tally'[r].busy = 0 /\ tally'[r].finish = 1
    BY <1>2, <1>4, BlankFields DEF Counters
<1>6. Account(r)'
    <2>1. reply'[r] \notin Refusals /\ reply'[r] # "stream"
        BY <1>3 DEF Refusals
    <2>2. ~session'[r].closed
        BY <1>2, BlankFields
    <2> QED
        BY <1>1, <1>5, <2>1, <2>2 DEF Account, Early, InSession, Processing
<1>7. Told(r)'
    BY <1>0 DEF Told
<1>8. SlotMoves(r)
    BY <1>1 DEF SlotMoves, Holding, Processing, InSession
<1>9. ShapeOK'
    BY <1>0, <1>1, <1>3, <1>4 DEF ShapeOK
<1> QED
    BY <1>1, <1>3, <1>4, <1>6, <1>7, <1>8, <1>9 DEF StepOf

--------------------------------------------------------------------------------
(* While a session is there. *)

\* Going on to another point with the session, open or closed, as it is.
LEMMA SessionStep ==
    ASSUME IInv, NEW r \in Requests, pc[r] \in {"opening"} \cup InSession,
           NEW point \in InSession, Goto(r, point),
           point = "opened" => pc[r] = "opening",
           reply' = reply \/ (Reply(r, "stream") /\ point = "sending"),
           UNCHANGED <<slots, session, wire, tally>>, gone' \subseteq Requests
    PROVE  StepOf(r)
<1>0. ShapeOK /\ Account(r) /\ Told(r)
    BY DEF IInv, TypeOK, ShapeOK, Sessions, Requestwise
<1>1. /\ pc' \in [Requests -> Points] /\ pc'[r] = point
      /\ \A q \in Requests \ {r} : pc'[q] = pc[q]
    BY <1>0, GotoEffect DEF ShapeOK, Points
<1>2. /\ reply' \in [Requests -> {"none"} \cup Refusals \cup Answers]
      /\ reply'[r] = reply[r] \/ (reply'[r] = "stream" /\ point = "sending")
      /\ \A q \in Requests \ {r} : reply'[q] = reply[q]
    BY <1>0, ReplyEffect DEF ShapeOK, Answers
<1>3. reply[r] \in {"none", "stream"} /\ r \in Streams
    BY <1>0 DEF Account, Early, Processing
<1>4. pc'[r] \in Early => /\ session[r] = NoSession /\ tally[r] = Zero /\ reply'[r] = "none"
                          /\ wire[r] = <<>>
    BY <1>0, <1>1, <1>2 DEF Account, Early, InSession, Processing
<1>5. ~session[r].closed =>
          /\ ~session[r].done /\ ~session[r].failed
          /\ tally[r].busy = 0 /\ tally[r].finish = 0
          /\ tally[r].completed = 0 /\ tally[r].failed = 0 /\ tally[r].cancelled = 0
          /\ tally[r].usage + tally[r].usage_missing = IF session[r].usage_seen THEN 1 ELSE 0
    BY <1>0, BlankFields DEF Account, Early, Processing
<1>6. Account(r)'
    <2>1. reply'[r] \in {"none", "stream"}
        BY <1>2, <1>3
    <2>2. reply'[r] \notin Refusals
        BY <2>1 DEF Refusals
    <2>3. session[r].closed =>
              /\ tally[r].busy = 0 /\ tally[r].finish = 1
              /\ tally[r].completed + tally[r].failed + tally[r].cancelled = 1
              /\ tally[r].usage + tally[r].usage_missing = 1
        BY <1>0 DEF Account
    <2>4. tally[r].busy + tally[r].finish <= 1
        BY <1>0 DEF Account
    <2> QED
        BY <1>1, <1>3, <1>4, <1>5, <2>1, <2>2, <2>3, <2>4 DEF Account
<1>7. Told(r)'
    BY <1>0 DEF Told
<1>8. SlotMoves(r)
    <2>1. pc[r] = "opening" => ~session[r].closed
        BY <1>0, BlankFields DEF Account, Early, Processing
    <2> QED
        BY <1>1, <2>1 DEF SlotMoves, Holding, Processing, InSession
<1>9. ShapeOK'
    BY <1>0, <1>1, <1>2 DEF ShapeOK
<1> QED
    BY <1>1, <1>2, <1>6, <1>7, <1>8, <1>9 DEF StepOf

\* A handler is cancelled wherever it waits.
LEMMA LeftOfPoints ==
    ASSUME NEW r, NEW point \in LeftOf(r)
    PROVE  \/ pc[r] = "reading" /\ point = "over"
           \/ pc[r] = "dispatched" /\ r \notin Streams /\ point \in {"over", "dispatched"}
           \/ pc[r] = "opened" /\ point = "cleanup"
           \/ pc[r] \in {"sending", "streaming"} /\ point = "closing"
           \/ pc[r] \notin {"reading", "opened", "sending", "streaming"} /\ point = pc[r]
    BY Zenon DEF LeftOf

LEMMA CancelStep ==
    ASSUME IInv, NEW r \in Requests, Cancel(r)
    PROVE  StepOf(r)
<1>0. ShapeOK /\ Account(r)
    BY DEF IInv, TypeOK, ShapeOK, Sessions, Requestwise
<1>1. /\ gone' \subseteq Requests
      /\ UNCHANGED <<slots, session, wire, tally, reply>>
      /\ pc[r] \in Processing \cup {"reading", "dispatched", "opened", "sending", "streaming"}
    BY <1>0 DEF Cancel, ShapeOK
<1>2. PICK point \in LeftOf(r) : Goto(r, point)
    BY DEF Cancel
<1>3. CASE pc[r] \in {"opened", "sending", "streaming"}
    <2>1. point \in {"cleanup", "closing"}
        BY <1>3, LeftOfPoints
    <2>2. point \in InSession /\ point # "opened" /\ pc[r] \in {"opening"} \cup InSession
        BY <1>3, <2>1 DEF InSession
    <2>3. reply' = reply \/ (Reply(r, "stream") /\ point = "sending")
        BY <1>1
    <2>4. point = "opened" => pc[r] = "opening"
        BY <2>2
    <2>5. UNCHANGED <<slots, session, wire, tally>>
        BY <1>1
    <2> QED
        BY <1>1, <1>2, <2>2, <2>3, <2>4, <2>5, SessionStep
<1>4. CASE pc[r] \in Processing \cup {"reading", "dispatched"}
    <2>1. point = pc[r] \/ (point = "over" /\ pc[r] \in {"reading", "dispatched"})
        <3>1. pc[r] \notin {"opened", "sending", "streaming"}
            BY <1>4 DEF Processing
        <3>2. \/ pc[r] = "reading" /\ point = "over"
              \/ pc[r] = "dispatched" /\ point \in {"over", "dispatched"}
              \/ point = pc[r]
            BY <1>2, <3>1, LeftOfPoints
        <3> QED
            BY <3>2
    <2>5. point \in Early \cup {"over"}
        BY <1>4, <2>1 DEF Early
    <2>6. point \in {"opening", "opened"} => r \in Streams
        BY <1>0, <1>4, <2>1 DEF Account, Processing
    <2>2. pc'[r] = point
        BY <1>0, <1>2 DEF Goto, ShapeOK
    <2>3. SlotMoves(r)
        BY <1>1, <1>4, <2>1, <2>2 DEF SlotMoves, Holding, Processing, InSession
    <2>4. pc[r] \in Early
        BY <1>4 DEF Early
    <2> QED
        BY <1>1, <1>2, <2>3, <2>4, <2>5, <2>6, EarlyStep
<1> QED
    BY <1>1, <1>3, <1>4

\* close() of an open session: once, and for good.
LEMMA CloseStep ==
    ASSUME IInv, NEW r \in Requests, pc[r] \in InSession, ~session[r].closed,
           NEW s \in Sessions, NEW counted \in {{}, {"completed"}, {"failed"}},
           s.closed = FALSE, s.usage_seen = session[r].usage_seen,
           s.has_text = session[r].has_text, s.finished = session[r].finished,
           (s.done \/ s.failed) <=> counted # {},
           CloseSession(r, s, counted),
           Goto(r, "sending") \/ Goto(r, "over"),
           \/ wire' = wire
           \/ wire' = [wire EXCEPT ![r] = Append(@, "error")]
           \/ wire' = [wire EXCEPT ![r] = Append(@, "[DONE]")] /\ s.has_text /\ s.finished,
           UNCHANGED <<gone, reply>>
    PROVE  StepOf(r)
<1>0. ShapeOK /\ Account(r) /\ Told(r)
    BY DEF IInv, TypeOK, ShapeOK, Sessions, Requestwise
<1>1. /\ pc' \in [Requests -> Points] /\ pc'[r] \in {"sending", "over"}
      /\ \A q \in Requests \ {r} : pc'[q] = pc[q]
    BY <1>0, GotoEffect DEF ShapeOK, Points, InSession
<1>2. /\ session' \in [Requests -> Sessions]
      /\ session'[r] = [s EXCEPT !.closed = TRUE]
      /\ \A q \in Requests \ {r} : session'[q] = session[q] /\ tally'[q] = tally[q]
      /\ tally' \in [Requests -> [Counters -> Nat]]
      /\ tally'[r].busy = tally[r].busy
      /\ tally'[r].finish = tally[r].finish + 1
      /\ tally'[r].completed = IF "completed" \in counted THEN tally[r].completed + 1
                                                         ELSE tally[r].completed
      /\ tally'[r].failed = IF "failed" \in counted THEN tally[r].failed + 1
                                                   ELSE tally[r].failed
      /\ tally'[r].cancelled = IF s.done \/ s.failed THEN tally[r].cancelled
                                                    ELSE tally[r].cancelled + 1
      /\ tally'[r].usage = tally[r].usage
      /\ tally'[r].usage_missing = IF s.usage_seen THEN tally[r].usage_missing
                                                  ELSE tally[r].usage_missing + 1
      /\ slots' = slots + 1
    BY <1>0, CloseEffect
<1>3. /\ session'[r].closed
      /\ session'[r].has_text = session[r].has_text
      /\ session'[r].finished = session[r].finished
      /\ session'[r].usage_seen = session[r].usage_seen
    BY <1>2, SessionFields DEF Sessions
<1>4. Account(r)'
    <2>1. /\ tally[r].busy = 0 /\ tally[r].finish = 0
          /\ tally[r].completed = 0 /\ tally[r].failed = 0 /\ tally[r].cancelled = 0
          /\ tally[r].usage + tally[r].usage_missing = IF session[r].usage_seen THEN 1 ELSE 0
          /\ tally[r].usage \in Nat /\ tally[r].usage_missing \in Nat
          /\ r \in Streams /\ reply[r] \in {"none", "stream"}
        BY <1>0 DEF Account, ShapeOK, Counters
    <2>2. tally'[r].busy = 0 /\ tally'[r].finish = 1
        BY <1>2, <2>1
    <2>3. tally'[r].completed + tally'[r].failed + tally'[r].cancelled = 1
        <3>1. /\ "completed" \in counted \/ "failed" \in counted <=> counted # {}
              /\ ~("completed" \in counted /\ "failed" \in counted)
            OBVIOUS
        <3>2. "completed" \in counted \/ "failed" \in counted <=> s.done \/ s.failed
            BY <3>1
        <3>3. \/ /\ tally'[r].completed = 0 /\ tally'[r].failed = 0 /\ tally'[r].cancelled = 1
              \/ /\ tally'[r].completed = 1 /\ tally'[r].failed = 0 /\ tally'[r].cancelled = 0
              \/ /\ tally'[r].completed = 0 /\ tally'[r].failed = 1 /\ tally'[r].cancelled = 0
            BY <1>2, <2>1, <3>1, <3>2
        <3> QED
            BY <3>3
    <2>4. tally'[r].usage + tally'[r].usage_missing = 1
        BY <1>2, <2>1
    <2>5. reply'[r] \in {"none", "stream"} /\ reply'[r] \notin Refusals
        BY <2>1 DEF Refusals
    <2>6. pc'[r] \notin Early
        BY <1>1 DEF Early, Processing
    <2> QED
        BY <1>3, <2>1, <2>2, <2>3, <2>4, <2>5, <2>6 DEF Account
<1>5. wire' \in [Requests -> Seq(Events \cup {"error"})] /\ Told(r)'
      /\ \A q \in Requests \ {r} : wire'[q] = wire[q]
    <2>1. CASE wire' = wire
        BY <1>0, <1>3, <2>1 DEF Told, ShapeOK
    <2>2. ASSUME NEW last \in {"error", "[DONE]"},
                 wire' = [wire EXCEPT ![r] = Append(@, last)],
                 last = "[DONE]" => session[r].has_text /\ session[r].finished
          PROVE  wire' \in [Requests -> Seq(Events \cup {"error"})] /\ Told(r)'
                 /\ \A q \in Requests \ {r} : wire'[q] = wire[q]
        <3>1. wire' \in [Requests -> Seq(Events \cup {"error"})]
            BY <1>0, <2>2 DEF ShapeOK, Events
        <3> DEFINE w == wire[r]
        <3>2. w \in Seq(Events \cup {"error"}) /\ wire'[r] = Append(w, last)
            BY <1>0, <2>2 DEF ShapeOK
        <3>3. /\ Len(wire'[r]) = Len(w) + 1 /\ Len(w) \in Nat
              /\ \A i \in 1..Len(w) : wire'[r][i] = w[i]
              /\ wire'[r][Len(w) + 1] = last
            BY <3>2
        <3>4. ~HasChoice(last) /\ ~HasText(last) /\ ~HasStop(last) /\ ~HasUsage(last)
            BY DEF HasChoice, HasText, HasStop, HasUsage
        <3>5. \A i \in 1..Len(w) : w[i] \notin {"[DONE]", "error"}
            BY <1>0 DEF Told
        <3>6. \A i \in 1..Len(wire'[r]) : i \in 1..Len(w) \/ i = Len(w) + 1
            BY <3>3
        <3> HIDE DEF w
        <3>7. /\ (\E i \in 1..Len(wire'[r]) : HasText(wire'[r][i])) <=> \E i \in 1..Len(w) : HasText(w[i])
              /\ (\E i \in 1..Len(wire'[r]) : HasStop(wire'[r][i])) <=> \E i \in 1..Len(w) : HasStop(w[i])
              /\ (\E i \in 1..Len(wire'[r]) : HasUsage(wire'[r][i])) <=> \E i \in 1..Len(w) : HasUsage(w[i])
            BY <3>3, <3>4, <3>6
        <3>8. /\ session'[r].has_text <=> \E i \in 1..Len(wire'[r]) : HasText(wire'[r][i])
              /\ session'[r].finished <=> \E i \in 1..Len(wire'[r]) : HasStop(wire'[r][i])
              /\ session'[r].usage_seen <=> \E i \in 1..Len(wire'[r]) : HasUsage(wire'[r][i])
              /\ session'[r].usage_seen => session'[r].finished
            BY <1>0, <1>3, <3>7 DEF Told, w
        <3>9. \A i, j \in 1..Len(wire'[r]) : HasStop(wire'[r][i]) =>
                  (HasChoice(wire'[r][j]) => j <= i) /\ (HasUsage(wire'[r][j]) => i <= j)
            BY <1>0, <3>3, <3>4, <3>6 DEF Told, w
        <3>10. \A i, j \in 1..Len(wire'[r]) :
                  HasUsage(wire'[r][i]) /\ HasUsage(wire'[r][j]) => i = j
            BY <1>0, <3>3, <3>4, <3>6 DEF Told, w
        <3>11. \A i \in 1..Len(wire'[r]) : wire'[r][i] \in {"[DONE]", "error"} => i = Len(wire'[r])
            BY <3>3, <3>5, <3>6
        <3>12. \A i \in 1..Len(wire'[r]) :
                  wire'[r][i] = "[DONE]" => session'[r].has_text /\ session'[r].finished
            BY <1>3, <2>2, <3>3, <3>5, <3>6
        <3>13. Told(r)'
            BY <1>3, <3>8, <3>9, <3>10, <3>11, <3>12 DEF Told
        <3> QED
            BY <2>2, <3>1, <3>13
    <2> QED
        BY <2>1, <2>2
<1>6. SlotMoves(r)
    <2>1. r \in Holding
        BY DEF Holding
    <2>2. r \notin Holding'
        BY <1>1, <1>3 DEF Holding, Processing
    <2> QED
        BY <1>2, <2>1, <2>2 DEF SlotMoves
<1>7. ShapeOK'
    BY <1>0, <1>1, <1>2, <1>5 DEF ShapeOK
<1> QED
    BY <1>1, <1>2, <1>4, <1>5, <1>6, <1>7 DEF StepOf

\* close() of a session that is closed changes nothing, and the request is over.
LEMMA ClosedStep ==
    ASSUME IInv, NEW r \in Requests, pc[r] \in InSession, session[r].closed,
           CloseSession(r, session[r], {}), Goto(r, "over"), UNCHANGED <<gone, wire, reply>>
    PROVE  StepOf(r)
<1>0. ShapeOK /\ Account(r) /\ Told(r)
    BY DEF IInv, TypeOK, ShapeOK, Sessions, Requestwise
<1>1. /\ pc' \in [Requests -> Points] /\ pc'[r] = "over"
      /\ \A q \in Requests \ {r} : pc'[q] = pc[q]
    BY <1>0, GotoEffect DEF ShapeOK, Points
<1>2. /\ session' = [session EXCEPT ![r] = session[r]] /\ Count(r, {}) /\ slots' = slots
    BY DEF CloseSession
<1>3. session' = session
    BY <1>0, <1>2 DEF ShapeOK
<1>4. /\ tally' \in [Requests -> [Counters -> Nat]]
      /\ \A q \in Requests \ {r} : tally'[q] = tally[q]
      /\ \A n \in Counters : tally'[r][n] = tally[r][n]
    BY <1>0, <1>2, CountEffect DEF ShapeOK
<1>5. tally'[r] = tally[r]
    BY <1>0, <1>4 DEF ShapeOK
<1>6. Account(r)'
    BY <1>0, <1>1, <1>3, <1>5 DEF Account, Early, InSession, Processing, Refusals
<1>7. Told(r)'
    BY <1>0, <1>3 DEF Told
<1>8. SlotMoves(r)
    BY <1>1, <1>2, <1>3 DEF SlotMoves, Holding, Processing, InSession
<1>9. ShapeOK'
    BY <1>0, <1>1, <1>3, <1>4 DEF ShapeOK
<1> QED
    BY <1>1, <1>3, <1>4, <1>6, <1>7, <1>8, <1>9 DEF StepOf

\* An event that is passed on is remembered.
LEMMA ForwardEffect ==
    ASSUME ShapeOK, NEW r \in Requests, NEW e \in Events, Forward(r, e)
    PROVE  /\ session' \in [Requests -> Sessions]
           /\ \A q \in Requests \ {r} : session'[q] = session[q]
           /\ session'[r].has_text <=> session[r].has_text \/ HasText(e)
           /\ session'[r].finished <=> session[r].finished \/ HasStop(e)
           /\ session'[r].usage_seen <=> session[r].usage_seen \/ HasUsage(e)
           /\ session'[r].closed <=> session[r].closed
           /\ session'[r].done <=> session[r].done
           /\ session'[r].failed <=> session[r].failed
<1> DEFINE s == session[r]
           new == [s EXCEPT !.has_text = @ \/ HasText(e),
                            !.finished = @ \/ HasStop(e),
                            !.usage_seen = @ \/ HasUsage(e)]
<1>1. session' = [session EXCEPT ![r] = new]
    BY DEF Forward
<1>2. s \in Sessions
    BY DEF ShapeOK
<1>3. /\ (s.has_text \/ HasText(e)) \in BOOLEAN
      /\ (s.finished \/ HasStop(e)) \in BOOLEAN
      /\ (s.usage_seen \/ HasUsage(e)) \in BOOLEAN
    BY DEF HasText, HasStop, HasUsage
<1>4. /\ new \in Sessions
      /\ new.has_text = (s.has_text \/ HasText(e))
      /\ new.finished = (s.finished \/ HasStop(e))
      /\ new.usage_seen = (s.usage_seen \/ HasUsage(e))
      /\ new.closed = s.closed /\ new.done = s.done /\ new.failed = s.failed
    BY <1>2, <1>3, SessionFields DEF Sessions
<1> HIDE DEF new
<1> QED
    BY <1>1, <1>4 DEF ShapeOK

LEMMA ForwardStep ==
    ASSUME IInv, NEW r \in Requests, NEW e \in Events, pc[r] = "streaming",
           ~session[r].closed, Forward(r, e), Goto(r, "sending"), UNCHANGED <<gone, reply>>
    PROVE  StepOf(r)
<1>0. ShapeOK /\ Account(r) /\ Told(r)
    BY DEF IInv, TypeOK, ShapeOK, Sessions, Requestwise
<1>1. /\ session' \in [Requests -> Sessions]
      /\ \A q \in Requests \ {r} : session'[q] = session[q]
      /\ session'[r].has_text <=> session[r].has_text \/ HasText(e)
      /\ session'[r].finished <=> session[r].finished \/ HasStop(e)
      /\ session'[r].usage_seen <=> session[r].usage_seen \/ HasUsage(e)
      /\ session'[r].closed <=> session[r].closed
      /\ session'[r].done <=> session[r].done
      /\ session'[r].failed <=> session[r].failed
    BY <1>0, ForwardEffect
<1>2. /\ e \notin {"[DONE]", "bad", "error"}
      /\ HasChoice(e) => ~session[r].finished
      /\ HasUsage(e) => ~session[r].usage_seen /\ (session[r].finished \/ HasStop(e))
      /\ slots' = slots
    BY DEF Forward, Accepts, Events
<1>9. /\ pc' \in [Requests -> Points] /\ pc'[r] = "sending"
      /\ \A q \in Requests \ {r} : pc'[q] = pc[q]
    BY <1>0, GotoEffect DEF ShapeOK, Points, InSession
<1> DEFINE S == IF e = "usage?" THEN {"usage_missing"}
                ELSE IF HasUsage(e) THEN {"usage"} ELSE {}
<1>3. /\ tally' \in [Requests -> [Counters -> Nat]]
      /\ \A q \in Requests \ {r} : tally'[q] = tally[q]
      /\ \A n \in Counters : tally'[r][n] = IF n \in S THEN tally[r][n] + 1 ELSE tally[r][n]
    BY <1>0, CountEffect DEF Forward, ShapeOK
<1>4. Account(r)'
    <2>1. /\ tally[r].busy = 0 /\ tally[r].finish = 0
          /\ tally[r].completed = 0 /\ tally[r].failed = 0 /\ tally[r].cancelled = 0
          /\ tally[r].usage + tally[r].usage_missing = IF session[r].usage_seen THEN 1 ELSE 0
          /\ tally[r].usage \in Nat /\ tally[r].usage_missing \in Nat
          /\ r \in Streams /\ reply[r] \in {"none", "stream"}
          /\ ~session[r].done /\ ~session[r].failed
        BY <1>0 DEF Account, ShapeOK, Counters, InSession
    <2>2. /\ tally'[r].busy = 0 /\ tally'[r].finish = 0
          /\ tally'[r].completed = 0 /\ tally'[r].failed = 0 /\ tally'[r].cancelled = 0
        BY <1>3, <2>1 DEF Counters
    <2>3. HasUsage("usage?") /\ ("usage_missing" \in S <=> e = "usage?")
          /\ ("usage" \in S <=> e # "usage?" /\ HasUsage(e))
        BY DEF HasUsage
    <2>4. tally'[r].usage + tally'[r].usage_missing = IF session'[r].usage_seen THEN 1 ELSE 0
        <3> HIDE DEF S
        <3> QED
            BY <1>1, <1>2, <1>3, <2>1, <2>3 DEF Counters
    <2>5. pc'[r] = "sending" /\ reply'[r] \notin Refusals /\ reply' = reply
        BY <1>9, <2>1 DEF Refusals
    <2> QED
        BY <1>1, <2>1, <2>2, <2>4, <2>5 DEF Account, Early, Processing, InSession
<1>5. wire' \in [Requests -> Seq(Events \cup {"error"})]
      /\ \A q \in Requests \ {r} : wire'[q] = wire[q]
    BY <1>0 DEF Forward, ShapeOK
<1>6. Told(r)'
    <2> DEFINE w == wire[r]
    <2>1. w \in Seq(Events \cup {"error"}) /\ wire'[r] = Append(w, e)
        BY <1>0 DEF Forward, ShapeOK
    <2>2. /\ Len(wire'[r]) = Len(w) + 1 /\ Len(w) \in Nat
          /\ \A i \in 1..Len(w) : wire'[r][i] = w[i]
          /\ wire'[r][Len(w) + 1] = e
        BY <2>1
    <2>3. \A i \in 1..Len(wire'[r]) : i \in 1..Len(w) \/ i = Len(w) + 1
        BY <2>2
    <2>4. \A i \in 1..Len(w) : w[i] \notin {"[DONE]", "error"}
        BY <1>0 DEF Told
    <2> HIDE DEF w
    <2>5. /\ (\E i \in 1..Len(wire'[r]) : HasText(wire'[r][i]))
                 <=> HasText(e) \/ \E i \in 1..Len(w) : HasText(w[i])
          /\ (\E i \in 1..Len(wire'[r]) : HasStop(wire'[r][i]))
                 <=> HasStop(e) \/ \E i \in 1..Len(w) : HasStop(w[i])
          /\ (\E i \in 1..Len(wire'[r]) : HasUsage(wire'[r][i]))
                 <=> HasUsage(e) \/ \E i \in 1..Len(w) : HasUsage(w[i])
        BY <2>2, <2>3
    <2>6. HasStop(e) => HasChoice(e)
        BY DEF HasStop, HasChoice
    <2>7. /\ session[r].has_text <=> \E i \in 1..Len(w) : HasText(w[i])
          /\ session[r].finished <=> \E i \in 1..Len(w) : HasStop(w[i])
          /\ session[r].usage_seen <=> \E i \in 1..Len(w) : HasUsage(w[i])
          /\ \A i, j \in 1..Len(w) : HasStop(w[i]) =>
                (HasChoice(w[j]) => j <= i) /\ (HasUsage(w[j]) => i <= j)
          /\ \A i, j \in 1..Len(w) : HasUsage(w[i]) /\ HasUsage(w[j]) => i = j
        BY <1>0 DEF Told, w
    <2>8. \A i, j \in 1..Len(wire'[r]) : HasStop(wire'[r][i]) =>
              (HasChoice(wire'[r][j]) => j <= i) /\ (HasUsage(wire'[r][j]) => i <= j)
        <3> SUFFICES ASSUME NEW i \in 1..Len(wire'[r]), NEW j \in 1..Len(wire'[r]),
                            HasStop(wire'[r][i])
                     PROVE  /\ HasChoice(wire'[r][j]) => j <= i
                            /\ HasUsage(wire'[r][j]) => i <= j
            OBVIOUS
        <3>1. CASE i \in 1..Len(w) /\ j \in 1..Len(w)
            BY <2>2, <2>7, <3>1
        <3>2. CASE i \in 1..Len(w) /\ j = Len(w) + 1
            BY <1>2, <2>2, <2>7, <3>2
        <3>3. CASE i = Len(w) + 1
            <4>1. ~session[r].finished /\ ~session[r].usage_seen
                BY <1>0, <1>2, <2>2, <2>6, <3>3 DEF Told
            <4> QED
                BY <2>2, <2>3, <2>7, <3>3, <4>1
        <3> QED
            BY <2>3, <3>1, <3>2, <3>3
    <2>9. \A i, j \in 1..Len(wire'[r]) : HasUsage(wire'[r][i]) /\ HasUsage(wire'[r][j]) => i = j
        BY <1>2, <2>2, <2>3, <2>7
    <2>10. \A i \in 1..Len(wire'[r]) : wire'[r][i] \notin {"[DONE]", "error"}
        BY <1>2, <2>2, <2>3, <2>4
    <2>11. /\ session'[r].has_text <=> \E i \in 1..Len(wire'[r]) : HasText(wire'[r][i])
           /\ session'[r].finished <=> \E i \in 1..Len(wire'[r]) : HasStop(wire'[r][i])
           /\ session'[r].usage_seen <=> \E i \in 1..Len(wire'[r]) : HasUsage(wire'[r][i])
        BY <1>1, <2>5, <2>7
    <2>12. session'[r].usage_seen => session'[r].finished
        BY <1>0, <1>1, <1>2 DEF Told
    <2> QED
        BY <2>8, <2>9, <2>10, <2>11, <2>12 DEF Told
<1>7. SlotMoves(r)
    BY <1>1, <1>2, <1>9 DEF SlotMoves, Holding, InSession
<1>8. ShapeOK'
    BY <1>0, <1>1, <1>3, <1>5, <1>9 DEF ShapeOK
<1> QED
    BY <1>1, <1>3, <1>4, <1>5, <1>6, <1>7, <1>8, <1>9 DEF StepOf

LEMMA EventStep ==
    ASSUME IInv, NEW r \in Requests, NEW e \in Events, Event(r, e)
    PROVE  StepOf(r)
<1>0. ShapeOK /\ Account(r) /\ Told(r)
    BY DEF IInv, TypeOK, ShapeOK, Sessions, Requestwise
<1>1. /\ pc[r] = "streaming" /\ pc[r] \in InSession /\ ~session[r].closed
      /\ Goto(r, "sending") /\ UNCHANGED <<gone, reply>>
    BY DEF Event, InSession
<1>2. /\ session[r] \in Sessions /\ ~session[r].done /\ ~session[r].failed
    BY <1>0, <1>1 DEF Account, ShapeOK
<1>3. CASE e = "[DONE]" /\ Done(r)
    <2> DEFINE s == [session[r] EXCEPT !.done = TRUE]
    <2>1. /\ s \in Sessions /\ s.closed = FALSE /\ s.usage_seen = session[r].usage_seen
          /\ s.has_text = session[r].has_text /\ s.finished = session[r].finished
          /\ s.done
        BY <1>1, <1>2, SessionFields DEF Sessions
    <2>2. session[r].has_text /\ session[r].finished
        BY <1>3 DEF Done, Accepts
    <2>3. CloseSession(r, s, {"completed"}) /\ wire' = [wire EXCEPT ![r] = Append(@, "[DONE]")]
        BY <1>3 DEF Done
    <2> HIDE DEF s
    <2>4. (s.done \/ s.failed) <=> {"completed"} # {}
        BY <2>1
    <2>5. \/ wire' = wire
          \/ wire' = [wire EXCEPT ![r] = Append(@, "error")]
          \/ wire' = [wire EXCEPT ![r] = Append(@, "[DONE]")] /\ s.has_text /\ s.finished
        BY <2>1, <2>2, <2>3
    <2>6. Goto(r, "sending") \/ Goto(r, "over")
        BY <1>1
    <2>7. {"completed"} \in {{}, {"completed"}, {"failed"}}
        OBVIOUS
    <2>8. UNCHANGED <<gone, reply>>
        BY <1>1
    <2> QED
        BY <1>1, <2>1, <2>3, <2>4, <2>5, <2>6, <2>7, <2>8, CloseStep
<1>4. CASE Forward(r, e)
    BY <1>1, <1>4, ForwardStep
<1>5. CASE Fail(r, e)
    <2> DEFINE s == [session[r] EXCEPT !.failed = TRUE]
    <2>1. /\ s \in Sessions /\ s.closed = FALSE /\ s.usage_seen = session[r].usage_seen
          /\ s.has_text = session[r].has_text /\ s.finished = session[r].finished
          /\ s.failed
        BY <1>1, <1>2, SessionFields DEF Sessions
    <2>3. CloseSession(r, s, {"failed"}) /\ wire' = [wire EXCEPT ![r] = Append(@, "error")]
        BY <1>5 DEF Fail
    <2> HIDE DEF s
    <2>4. (s.done \/ s.failed) <=> {"failed"} # {}
        BY <2>1
    <2>5. \/ wire' = wire
          \/ wire' = [wire EXCEPT ![r] = Append(@, "error")]
          \/ wire' = [wire EXCEPT ![r] = Append(@, "[DONE]")] /\ s.has_text /\ s.finished
        BY <2>3
    <2>6. Goto(r, "sending") \/ Goto(r, "over")
        BY <1>1
    <2>7. {"failed"} \in {{}, {"completed"}, {"failed"}}
        OBVIOUS
    <2>8. UNCHANGED <<gone, reply>>
        BY <1>1
    <2> QED
        BY <1>1, <2>1, <2>3, <2>4, <2>5, <2>6, <2>7, <2>8, CloseStep
<1> QED
    BY <1>3, <1>4, <1>5 DEF Event

LEMMA LastCloseStep ==
    ASSUME IInv, NEW r \in Requests, Close(r)
    PROVE  StepOf(r)
<1>0. ShapeOK /\ Account(r)
    BY DEF IInv, TypeOK, ShapeOK, Sessions, Requestwise
<1>1. /\ pc[r] \in InSession /\ Goto(r, "over") /\ CloseSession(r, session[r], {})
      /\ UNCHANGED <<gone, wire, reply>>
    BY DEF Close, InSession
<1>2. CASE session[r].closed
    BY <1>1, <1>2, ClosedStep
<1>3. CASE ~session[r].closed
    <2>1. session[r] \in Sessions /\ ~session[r].done /\ ~session[r].failed
        BY <1>0, <1>1, <1>3 DEF Account, ShapeOK
    <2>2. session[r].closed = FALSE
        BY <1>3, <2>1, SessionFields DEF Sessions
    <2>3. (session[r].done \/ session[r].failed) <=> {} # {}
        BY <2>1
    <2>4. \/ wire' = wire
          \/ wire' = [wire EXCEPT ![r] = Append(@, "error")]
          \/ wire' = [wire EXCEPT ![r] = Append(@, "[DONE]")] /\ session[r].has_text
             /\ session[r].finished
        BY <1>1
    <2>5. Goto(r, "sending") \/ Goto(r, "over")
        BY <1>1
    <2>6. {} \in {{}, {"completed"}, {"failed"}}
        OBVIOUS
    <2>7. UNCHANGED <<gone, reply>>
        BY <1>1
    <2> QED
        BY <1>1, <1>3, <2>1, <2>2, <2>3, <2>4, <2>5, <2>6, <2>7, CloseStep
<1> QED
    BY <1>2, <1>3

\* The client takes what there was to send.
LEMMA SendStep ==
    ASSUME IInv, NEW r \in Requests, Send(r)
    PROVE  StepOf(r)
<1>1. /\ "streaming" \in InSession /\ pc[r] \in {"opening"} \cup InSession
      /\ Goto(r, "streaming") /\ reply' = reply /\ gone' \subseteq Requests
      /\ UNCHANGED <<slots, session, wire, tally>>
    BY DEF Send, InSession, IInv, TypeOK
<1>2. "streaming" = "opened" => pc[r] = "opening"
    OBVIOUS
<1> QED
    BY <1>1, <1>2, SessionStep

LEMMA WorkStep ==
    ASSUME IInv, NEW r \in Requests, Work(r)
    PROVE  StepOf(r)
<1>0. ShapeOK
    BY DEF IInv, TypeOK, ShapeOK, Sessions
<1>1. CASE Complete(r)
    BY <1>1, FinishStep DEF Complete, Processing
<1>2. CASE OpenFails(r)
    <2>1. {"finish", "usage_missing"} \in {{"finish"}, {"finish", "usage_missing"}}
        OBVIOUS
    <2> QED
        BY <1>2, <2>1, FinishStep DEF OpenFails, Processing
<1>3. CASE Opened(r) \/ Respond(r) \/ Exhausted(r)
    <2>1. PICK point \in {"cleanup", "opened", "sending", "closing"} :
              /\ Goto(r, point)
              /\ point = "opened" => pc[r] = "opening"
              /\ reply' = reply \/ (Reply(r, "stream") /\ point = "sending")
        BY <1>3 DEF Opened, Respond, Exhausted
    <2>2. /\ pc[r] \in {"opening"} \cup InSession
          /\ UNCHANGED <<slots, session, wire, tally>> /\ gone' \subseteq Requests
        BY <1>0, <1>3 DEF Opened, Respond, Exhausted, InSession, ShapeOK
    <2>3. point \in InSession
        BY DEF InSession
    <2> QED
        BY <2>1, <2>2, <2>3, SessionStep
<1>4. ASSUME NEW e \in Events, Event(r, e) PROVE StepOf(r)
    BY <1>4, EventStep
<1>5. CASE Close(r)
    BY <1>5, LastCloseStep
<1> QED
    BY <1>1, <1>2, <1>3, <1>4, <1>5 DEF Work

--------------------------------------------------------------------------------
LEMMA InitIInv == Init => IInv
<1> SUFFICES ASSUME Init PROVE IInv
    OBVIOUS
<1>1. TypeOK
    <2>1. NoSession \in [DOMAIN NoSession -> BOOLEAN]
        <3>1. NoSession = [f \in DOMAIN NoSession |-> NoSession[f]]
            BY DEF NoSession
        <3>2. ASSUME NEW f \in DOMAIN NoSession PROVE NoSession[f] \in BOOLEAN
            <4>1. \/ f = "finished" \/ f = "has_text" \/ f = "usage_seen"
                  \/ f = "done" \/ f = "failed" \/ f = "closed"
                BY SessionFields, Zenon
            <4>2. CASE f = "finished"
                BY <4>2 DEF NoSession
            <4>3. CASE f = "has_text"
                BY <4>3 DEF NoSession
            <4>4. CASE f = "usage_seen"
                BY <4>4 DEF NoSession
            <4>5. CASE f = "done"
                BY <4>5 DEF NoSession
            <4>6. CASE f = "failed"
                BY <4>6 DEF NoSession
            <4>7. CASE f = "closed"
                BY <4>7 DEF NoSession
            <4> QED
                BY <4>1, <4>2, <4>3, <4>4, <4>5, <4>6, <4>7, Zenon
        <3> QED
            BY <3>1, <3>2, Zenon
    <2>2. Zero \in [Counters -> Nat]
        BY DEF Zero
    <2>3. max_inflight \in 0..max_inflight
        BY GatewayAssumption
    <2>4. "new" \in Points /\ <<>> \in Seq(Events \cup {"error"})
        BY DEF Points
    <2> QED
        BY <2>1, <2>2, <2>3, <2>4 DEF Init, TypeOK
<1>2. SlotsAccounted
    <2>1. Holding = {}
        BY DEF Init, Holding, Processing, InSession
    <2> QED
        BY <2>1, FS_EmptySet, GatewayAssumption DEF Init, SlotsAccounted
<1>3. ASSUME NEW r \in Requests PROVE Account(r) /\ Told(r)
    <2>1. /\ pc[r] = "new" /\ session[r] = NoSession /\ tally[r] = Zero /\ reply[r] = "none"
          /\ wire[r] = <<>>
        BY DEF Init
    <2>2. Account(r)
        BY <2>1, BlankFields DEF Account, InSession, Refusals
    <2>3. Told(r)
        BY <2>1, BlankFields DEF Told
    <2> QED
        BY <2>2, <2>3
<1> QED
    BY <1>1, <1>2, <1>3 DEF IInv, Requestwise

LEMMA NextIInv == IInv /\ [Next]_vars => IInv'
<1> SUFFICES ASSUME IInv, [Next]_vars PROVE IInv'
    OBVIOUS
<1>1. ASSUME NEW r \in Requests, Admit(r) \/ Cancel(r) \/ Work(r) \/ Send(r) PROVE IInv'
    BY <1>1, AdmitStep, CancelStep, WorkStep, SendStep, StepInv
<1>2. CASE UNCHANGED vars
    <2>1. TypeOK'
        BY <1>2 DEF vars, IInv, TypeOK
    <2>2. SlotsAccounted'
        BY <1>2 DEF vars, IInv, SlotsAccounted, Holding
    <2>3. Requestwise'
        BY <1>2 DEF vars, IInv, Requestwise, Account, Told
    <2> QED
        BY <2>1, <2>2, <2>3 DEF IInv
<1> QED
    BY <1>1, <1>2 DEF Next

THEOREM Invariant == Spec => []IInv
    BY InitIInv, NextIInv, PTL DEF Spec

\* Every variable keeps its type; the free slots are never more than there are,
\* nor fewer than none.
THEOREM TypeCorrect == Spec => []TypeOK
<1>1. IInv => TypeOK
    BY DEF IInv
<1> QED
    BY <1>1, Invariant, PTL

\* Wherever a handler is cancelled, and whatever the upstream does, the slots
\* that are not free are those of the requests that still need them.
THEOREM SlotsAreAccounted == Spec => []SlotsAccounted
<1>1. IInv => SlotsAccounted
    BY DEF IInv
<1> QED
    BY <1>1, Invariant, PTL

\* The metrics count each request once, as refused, or as finished with one
\* outcome and one word on its usage.
THEOREM RequestsAreCountedOnce == Spec => []CountedOnce
<1>1. ASSUME IInv PROVE CountedOnce
    <2> SUFFICES ASSUME NEW r \in Requests
                 PROVE  LET n == tally[r] IN
                        /\ n.busy + n.finish <= 1
                        /\ reply[r] \in Refusals =>
                              n = [Zero EXCEPT !.busy = IF reply[r] = "gateway_busy" THEN 1 ELSE 0]
                        /\ reply[r] \in Answers => n.finish = 1 \/ (r \in Streams /\ r \in Holding)
                        /\ session[r].closed =>
                              /\ n.finish = 1
                              /\ n.completed + n.failed + n.cancelled = 1
                              /\ n.usage + n.usage_missing = 1
        BY DEF CountedOnce
    <2>1. Account(r)
        BY <1>1 DEF IInv, Requestwise
    <2> QED
        BY <2>1 DEF Account, Answers, Holding
<1> QED
    BY <1>1, Invariant, PTL

\* A set whose members are all equal has at most one.
LEMMA AtMostOne ==
    ASSUME NEW S, \A i, j \in S : i = j
    PROVE  Cardinality(S) <= 1
<1>1. CASE S = {}
    BY <1>1, FS_EmptySet
<1>2. ASSUME NEW i \in S PROVE Cardinality(S) <= 1
    <2>1. S = {i}
        OBVIOUS
    <2>2. Cardinality({i}) = 1
        BY FS_Singleton
    <2> QED
        BY <2>1, <2>2
<1> QED
    BY <1>1, <1>2

\* A client is never told [DONE] of an answer that is not whole, nor anything
\* after [DONE] or an error.
THEOREM WireStaysWellFormed == Spec => []WireIsWellFormed
<1>1. ASSUME IInv PROVE WireIsWellFormed
    <2> SUFFICES ASSUME NEW r \in Streams
                 PROVE  LET w == wire[r]
                            at(P(_)) == {i \in 1..Len(w) : P(w[i])}
                        IN /\ \A i \in 1..Len(w) : w[i] \in {"[DONE]", "error"} => i = Len(w)
                           /\ Cardinality(at(HasStop)) <= 1
                           /\ Cardinality(at(HasUsage)) <= 1
                           /\ \A i \in at(HasStop) :
                                 /\ \A j \in at(HasChoice) : j <= i
                                 /\ \A j \in at(HasUsage) : j >= i
                           /\ Len(w) > 0 /\ w[Len(w)] = "[DONE]" =>
                                 at(HasText) # {} /\ at(HasStop) # {}
        BY DEF WireIsWellFormed
    <2>0. Told(r) /\ Len(wire[r]) \in Nat
        BY <1>1, GatewayAssumption DEF IInv, Requestwise, TypeOK
    <2>1. \A S : (\A i, j \in S : i = j) => Cardinality(S) <= 1
        BY AtMostOne
    <2>2. Cardinality({i \in 1..Len(wire[r]) : HasStop(wire[r][i])}) <= 1
        <3>1. \A i, j \in {i \in 1..Len(wire[r]) : HasStop(wire[r][i])} : i = j
            BY <2>0 DEF Told, HasStop, HasChoice
        <3> QED
            BY <2>1, <3>1
    <2>3. Cardinality({i \in 1..Len(wire[r]) : HasUsage(wire[r][i])}) <= 1
        <3>1. \A i, j \in {i \in 1..Len(wire[r]) : HasUsage(wire[r][i])} : i = j
            BY <2>0 DEF Told
        <3> QED
            BY <2>1, <3>1
    <2>4. \A i \in 1..Len(wire[r]) : HasStop(wire[r][i]) =>
              \A j \in 1..Len(wire[r]) : /\ HasChoice(wire[r][j]) => j <= i
                                         /\ HasUsage(wire[r][j]) => j >= i
        BY <2>0 DEF Told
    <2>5. Len(wire[r]) > 0 /\ wire[r][Len(wire[r])] = "[DONE]" =>
              /\ \E i \in 1..Len(wire[r]) : HasText(wire[r][i])
              /\ \E i \in 1..Len(wire[r]) : HasStop(wire[r][i])
        BY <2>0 DEF Told
    <2>6. \A i \in 1..Len(wire[r]) : wire[r][i] \in {"[DONE]", "error"} => i = Len(wire[r])
        BY <2>0 DEF Told
    <2> QED
        BY <2>2, <2>3, <2>4, <2>5, <2>6
<1> QED
    BY <1>1, Invariant, PTL
================================================================================
