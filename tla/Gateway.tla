-------------------------------- MODULE Gateway --------------------------------
(***************************************************************************)
(* A request to the gateway, from its headers to its answer: the ASGI      *)
(* handler of src/src/api/gateway.py, which checks and reads the request   *)
(* and may be cancelled at any time, the processing slots of               *)
(* GatewayService (src/src/api/service.py), and StreamSession of           *)
(* src/src/api/streaming.py.  The handler uses a session from one worker   *)
(* thread at a time, and a worker thread is not interrupted when its       *)
(* handler is cancelled.  What the cache makes of a request is a status    *)
(* here.                                                                   *)
(***************************************************************************)
EXTENDS Integers, Sequences, FiniteSets

CONSTANTS Requests, Streams,   \* Streams: the requests with "stream": true
          max_inflight,
          MaxEvents            \* bound: events before the one that ends a stream

ASSUME GatewayAssumption ==
    /\ IsFiniteSet(Requests)
    /\ Streams \subseteq Requests
    /\ max_inflight \in Nat \ {0}
    /\ MaxEvents \in Nat

VARIABLES
    slots,     \* the free slots of _slots
    pc,        \* where the handling of each request is
    gone,      \* requests whose handler was cancelled
    session,   \* the StreamSession of each request
    wire,      \* history: what was returned to be sent to the client
    tally,     \* history: what WorkMetrics counted for each request
    reply      \* history: how the handler of each request answered

vars == <<slots, pc, gone, session, wire, tally, reply>>

\* Where a request can be while it holds a slot.
Processing == {"processing", "opening"}
InSession == {"opened", "sending", "streaming", "closing", "cleanup"}
Points == {"new", "reading", "dispatched", "over"} \cup Processing \cup InSession

\* Why the handler refuses, in the order of its checks: no tenant for the
\* credential (401), a header (415, or 400 for the cache mode), the body (413,
\* 400, 408), a field of the body (400), no free slot (503).
Refusals == {"unauthorized", "bad_header", "bad_body", "invalid_request_error", "gateway_busy"}
Answers == {"response", "stream", "upstream_or_processing_error"}

NoSession == [finished |-> FALSE, has_text |-> FALSE, usage_seen |-> FALSE,
              done |-> FALSE, failed |-> FALSE, closed |-> FALSE]

Counters == {"busy", "finish", "completed", "failed", "cancelled", "usage", "usage_missing"}
Zero == [n \in Counters |-> 0]

\* An upstream event by what it carries: text, the finish reason, usage that can
\* be read or ("usage?") cannot; "bad" is any event or error but these.
Events == {"text", "text+stop", "stop", "stop+usage", "usage", "usage?", "[DONE]", "bad"}
HasChoice(e) == e \in {"text", "text+stop", "stop", "stop+usage"}
HasText(e) == e \in {"text", "text+stop"}
HasStop(e) == e \in {"text+stop", "stop", "stop+usage"}
HasUsage(e) == e \in {"stop+usage", "usage", "usage?"}

Init ==
    /\ slots = max_inflight
    /\ pc = [r \in Requests |-> "new"]
    /\ gone = {}
    /\ session = [r \in Requests |-> NoSession]
    /\ wire = [r \in Requests |-> <<>>]
    /\ tally = [r \in Requests |-> Zero]
    /\ reply = [r \in Requests |-> "none"]

--------------------------------------------------------------------------------
Goto(r, point) == pc' = [pc EXCEPT ![r] = point]

Count(r, S) ==
    tally' = [tally EXCEPT ![r] = [n \in Counters |-> IF n \in S THEN @[n] + 1 ELSE @[n]]]

\* A handler that was cancelled answers nobody.
Reply(r, answer) ==
    reply' = IF r \in gone THEN reply ELSE [reply EXCEPT ![r] = answer]

Refuse(r, code) ==
    /\ Goto(r, "over")
    /\ Reply(r, code)
    /\ UNCHANGED <<slots, gone, session, wire>>

\* One bearer token of a tenant, or the request is not looked at any further.
Unauthorized(r) ==
    /\ pc[r] = "new"
    /\ Refuse(r, "unauthorized") /\ UNCHANGED tally

\* Not JSON, encoded, or an unknown cache mode.
BadHeader(r) ==
    /\ pc[r] = "new"
    /\ Refuse(r, "bad_header") /\ UNCHANGED tally

\* The headers will do, and the body is awaited.
Receive(r) ==
    /\ pc[r] = "new"
    /\ Goto(r, "reading")
    /\ UNCHANGED <<slots, gone, session, wire, tally, reply>>

\* The body is too long, not strict JSON, too slow, or its client has left.
BadBody(r) ==
    /\ pc[r] = "reading"
    /\ Refuse(r, "bad_body") /\ UNCHANGED tally

\* The body is read, and a worker thread is to take it up.
Dispatch(r) ==
    /\ pc[r] = "reading"
    /\ Goto(r, "dispatched")
    /\ UNCHANGED <<slots, gone, session, wire, tally, reply>>

\* A field that validate_request does not know or accept, or a stream that
\* open_stream does not offer.
Invalid(r) ==
    /\ pc[r] = "dispatched"
    /\ Refuse(r, "invalid_request_error") /\ UNCHANGED tally

\* Mutant: the work of a request that was refused is in the histogram as well.
BusyFinished(r) ==
    /\ pc[r] = "dispatched"
    /\ slots = 0
    /\ Refuse(r, "gateway_busy")
    /\ Count(r, {"busy", "finish"})

\* No slot is free: refused at once, and counted as such.
Busy(r) ==
    /\ pc[r] = "dispatched"
    /\ slots = 0
    /\ Refuse(r, "gateway_busy")
    /\ Count(r, {"busy"})

Acquire(r) ==
    /\ pc[r] = "dispatched"
    /\ slots > 0
    /\ slots' = slots - 1
    /\ Goto(r, IF r \in Streams THEN "opening" ELSE "processing")
    /\ UNCHANGED <<gone, session, wire, tally, reply>>

\* complete(): whatever cache.process does, and whether or not anybody waits.
\* The usage of a provider's answer is counted while it runs and left out.
Complete(r) ==
    /\ pc[r] = "processing"
    /\ Goto(r, "over")
    /\ Count(r, {"finish"})
    /\ slots' = slots + 1
    /\ \E answer \in {"response", "upstream_or_processing_error"} : Reply(r, answer)
    /\ UNCHANGED <<gone, session, wire>>

\* provider.open_stream raises.
OpenFails(r) ==
    /\ pc[r] = "opening"
    /\ Goto(r, "over")
    /\ Count(r, {"finish", "usage_missing"})
    /\ slots' = slots + 1
    /\ Reply(r, "upstream_or_processing_error")
    /\ UNCHANGED <<gone, session, wire>>

\* Mutant: a handler that was cancelled meanwhile leaves the session to itself.
OpenedUnattended(r) ==
    /\ pc[r] = "opening"
    /\ Goto(r, IF r \in gone THEN "over" ELSE "opened")
    /\ UNCHANGED <<slots, gone, session, wire, tally, reply>>

\* The session is there; if its handler was cancelled, the callback of the
\* shielded task schedules its close.
Opened(r) ==
    /\ pc[r] = "opening"
    /\ Goto(r, IF r \in gone THEN "cleanup" ELSE "opened")
    /\ UNCHANGED <<slots, gone, session, wire, tally, reply>>

\* The handler gets the session and starts ManagedStreamingResponse, with the
\* headers to be sent.
Respond(r) ==
    /\ pc[r] = "opened"
    /\ Goto(r, "sending")
    /\ Reply(r, "stream")
    /\ UNCHANGED <<slots, gone, session, wire, tally>>

\* What is left of a request when its handler is cancelled: nothing while it
\* reads the body; the worker thread, if it has begun, or the shielded task
\* that opens a stream, to which the handler adds the callback; in the
\* response, `finally', which closes the session under a shield.
LeftOf(r) ==
    CASE pc[r] = "reading" -> {"over"}
      [] pc[r] = "dispatched" /\ r \notin Streams -> {"over", "dispatched"}
      [] pc[r] = "opened" -> {"cleanup"}
      [] pc[r] \in {"sending", "streaming"} -> {"closing"}
      [] OTHER -> {pc[r]}

\* The client disconnects or the server cancels the handler.
Cancel(r) ==
    /\ r \notin gone
    /\ pc[r] \in Processing \cup {"reading", "dispatched", "opened", "sending", "streaming"}
    /\ gone' = gone \cup {r}
    /\ \E point \in LeftOf(r) : Goto(r, point)
    /\ UNCHANGED <<slots, session, wire, tally, reply>>

--------------------------------------------------------------------------------
(* StreamSession *)

\* Mutant: a session closes as often as it is asked to.
CloseAgain(r, s, counted) ==
    /\ session' = [session EXCEPT ![r] = [s EXCEPT !.closed = TRUE]]
    /\ Count(r, counted \cup {"finish"}
                \cup (IF s.usage_seen THEN {} ELSE {"usage_missing"})
                \cup (IF s.done \/ s.failed THEN {} ELSE {"cancelled"}))
    /\ slots' = slots + 1

\* Mutant: where the source's close raises, nothing is released.
CloseRaising(r, s, counted) ==
    /\ session' = [session EXCEPT ![r] = [s EXCEPT !.closed = TRUE]]
    /\ IF s.closed
       THEN /\ Count(r, counted)
            /\ UNCHANGED slots
       ELSE \/ /\ Count(r, counted \cup {"finish"}
                            \cup (IF s.usage_seen THEN {} ELSE {"usage_missing"})
                            \cup (IF s.done \/ s.failed THEN {} ELSE {"cancelled"}))
               /\ slots' = slots + 1
            \/ /\ Count(r, counted)
               /\ UNCHANGED slots

\* close() of the session s: the source may raise, the rest is done all the same.
CloseSession(r, s, counted) ==
    IF s.closed
    THEN /\ session' = [session EXCEPT ![r] = s]
         /\ Count(r, counted)
         /\ UNCHANGED slots
    ELSE /\ session' = [session EXCEPT ![r] = [s EXCEPT !.closed = TRUE]]
         /\ Count(r, counted \cup {"finish"}
                     \cup (IF s.usage_seen THEN {} ELSE {"usage_missing"})
                     \cup (IF s.done \/ s.failed THEN {} ELSE {"cancelled"}))
         /\ slots' = slots + 1

\* Mutant: what comes after the finish reason is not looked at.
AcceptsLate(s, e) ==
    /\ e # "bad"
    /\ e = "[DONE]" => s.finished /\ s.has_text
    /\ HasUsage(e) => ~s.usage_seen /\ (s.finished \/ HasStop(e))

\* The event is one that may come now.
Accepts(s, e) ==
    /\ e # "bad"
    /\ e = "[DONE]" => s.finished /\ s.has_text
    /\ HasChoice(e) => ~s.finished
    /\ HasUsage(e) => ~s.usage_seen /\ (s.finished \/ HasStop(e))

\* The last event: the stream is complete, and the client is told.
Done(r) ==
    /\ Accepts(session[r], "[DONE]")
    /\ CloseSession(r, [session[r] EXCEPT !.done = TRUE], {"completed"})
    /\ wire' = [wire EXCEPT ![r] = Append(@, "[DONE]")]

\* Mutant: that the usage has come is not remembered.
ForwardForgetful(r, e) ==
    /\ e # "[DONE]"
    /\ Accepts(session[r], e)
    /\ session' = [session EXCEPT ![r] =
            [session[r] EXCEPT !.has_text = @ \/ HasText(e),
                               !.finished = @ \/ HasStop(e)]]
    /\ Count(r, IF e = "usage?" THEN {"usage_missing"}
                ELSE IF HasUsage(e) THEN {"usage"} ELSE {})
    /\ wire' = [wire EXCEPT ![r] = Append(@, e)]
    /\ UNCHANGED slots

\* An event that is passed on; its usage is counted, or counted as missing.
Forward(r, e) ==
    /\ e # "[DONE]"
    /\ Accepts(session[r], e)
    /\ session' = [session EXCEPT ![r] =
            [session[r] EXCEPT !.has_text = @ \/ HasText(e),
                               !.finished = @ \/ HasStop(e),
                               !.usage_seen = @ \/ HasUsage(e)]]
    /\ Count(r, IF e = "usage?" THEN {"usage_missing"}
                ELSE IF HasUsage(e) THEN {"usage"} ELSE {})
    /\ wire' = [wire EXCEPT ![r] = Append(@, e)]
    /\ UNCHANGED slots

\* Anything else, an upstream that ends early or is too slow or too long
\* ("bad"): the client is told that the answer is not complete.
Fail(r, e) ==
    /\ ~Accepts(session[r], e)
    /\ CloseSession(r, [session[r] EXCEPT !.failed = TRUE], {"failed"})
    /\ wire' = [wire EXCEPT ![r] = Append(@, "error")]

\* __next__(), whose event is then to be sent.
Event(r, e) ==
    /\ pc[r] = "streaming"
    /\ ~session[r].closed
    /\ Len(wire[r]) < MaxEvents \/ e \in {"[DONE]", "bad"}
    /\ Goto(r, "sending")
    /\ \/ e = "[DONE]" /\ Done(r)
       \/ Forward(r, e)
       \/ Fail(r, e)
    /\ UNCHANGED <<gone, reply>>

\* send() returns: the client, or a buffer on the way to it, took what there was
\* to send, and the response asks for the next event.
Send(r) ==
    /\ pc[r] = "sending"
    /\ Goto(r, "streaming")
    /\ UNCHANGED <<slots, gone, session, wire, tally, reply>>

\* __next__() of a closed session raises StopIteration, and the response ends.
Exhausted(r) ==
    /\ pc[r] = "streaming"
    /\ session[r].closed
    /\ Goto(r, "closing")
    /\ UNCHANGED <<slots, gone, session, wire, tally, reply>>

\* The shielded close in `finally', or the one that cleanup scheduled.
Close(r) ==
    /\ pc[r] \in {"closing", "cleanup"}
    /\ CloseSession(r, session[r], {})
    /\ Goto(r, "over")
    /\ UNCHANGED <<gone, wire, reply>>

\* What goes on without the client, and has a timeout where it waits.
Work(r) ==
    \/ Complete(r)
    \/ OpenFails(r)
    \/ Opened(r)
    \/ Respond(r)
    \/ \E e \in Events : Event(r, e)
    \/ Exhausted(r)
    \/ Close(r)

\* What the handler does before the request has a slot.
Admit(r) ==
    \/ Unauthorized(r)
    \/ BadHeader(r)
    \/ Receive(r)
    \/ BadBody(r)
    \/ Dispatch(r)
    \/ Invalid(r)
    \/ Busy(r)
    \/ Acquire(r)

Next == \E r \in Requests : Admit(r) \/ Cancel(r) \/ Work(r) \/ Send(r)

Spec == Init /\ [][Next]_vars

\* The provider's calls and reads end, if only by their timeouts, and the event
\* loop and its worker threads go on.  Nothing makes a client read or leave: a
\* send() has no timeout, and no fairness here.
FairSpec == Spec /\ \A r \in Requests : WF_vars(Work(r))

--------------------------------------------------------------------------------
TypeOK ==
    /\ slots \in 0..max_inflight
    /\ pc \in [Requests -> Points]
    /\ gone \subseteq Requests
    /\ session \in [Requests -> [DOMAIN NoSession -> BOOLEAN]]
    /\ wire \in [Requests -> Seq(Events \cup {"error"})]
    /\ tally \in [Requests -> [Counters -> Nat]]
    /\ reply \in [Requests -> {"none"} \cup Refusals \cup Answers]

\* Who holds a slot: until its work is over or its session is closed.
Holding ==
    {r \in Requests : \/ pc[r] \in Processing
                      \/ pc[r] \in InSession /\ ~session[r].closed}

\* "Processing slots are held through streaming and released on completion,
\* disconnection or error": the slots that are not free are those of requests
\* under way, so that none is lost to a handler cancelled at a bad moment and
\* none is given back twice, by the last event and again by the response's end.
SlotsAccounted == slots + Cardinality(Holding) = max_inflight

\* A request is refused as busy or is in the histogram, once and never both,
\* and whoever was refused for another reason is in no counter; who was
\* answered had a slot and is counted, or is a stream that will be.  A session
\* has ended in just one of three ways, and said once whether its usage is
\* known, whatever was cancelled meanwhile.
CountedOnce ==
    \A r \in Requests :
        LET n == tally[r] IN
        /\ n.busy + n.finish <= 1
        /\ reply[r] \in Refusals =>
              tally[r] = [Zero EXCEPT !.busy = IF reply[r] = "gateway_busy" THEN 1 ELSE 0]
        /\ reply[r] \in Answers => n.finish = 1 \/ (r \in Streams /\ r \in Holding)
        /\ session[r].closed =>
              /\ n.finish = 1
              /\ n.completed + n.failed + n.cancelled = 1
              /\ n.usage + n.usage_missing = 1

\* A client that reads [DONE] has read a whole answer: text, one finish reason
\* and no choice after it, usage at most once and only then, and nothing after
\* [DONE]; an error, too, is the last it reads.
WireIsWellFormed ==
    \A r \in Streams :
        LET w == wire[r]
            at(P(_)) == {i \in 1..Len(w) : P(w[i])}
        IN /\ \A i \in 1..Len(w) : w[i] \in {"[DONE]", "error"} => i = Len(w)
           /\ Cardinality(at(HasStop)) <= 1
           /\ Cardinality(at(HasUsage)) <= 1
           /\ \A i \in at(HasStop) :
                 /\ \A j \in at(HasChoice) : j <= i
                 /\ \A j \in at(HasUsage) : j >= i
           /\ Len(w) > 0 /\ w[Len(w)] = "[DONE]" =>
                 at(HasText) # {} /\ at(HasStop) # {}

\* "Downstream backpressure can also delay completion", without limit, of the
\* request whose client neither reads nor leaves, and of no other: a busy gateway
\* becomes free again as long as one slot is held by a request whose client
\* takes, each time, what is sent to it, or leaves, be it while the upstream
\* connection is opened.  Whatever the other clients do, its slot comes back.
SlotsComeBack ==
    \A r \in Requests :
        []<>(pc[r] # "sending") => (r \in Holding ~> slots > 0)
================================================================================
