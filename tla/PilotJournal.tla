------------------------------ MODULE PilotJournal ------------------------------
(***************************************************************************)
(* The quota journal of src/src/benchmark/free_pilot.py: PilotJournal, a   *)
(* SQLite file shared by all runs of the project, and JournaledProvider,   *)
(* through which a run makes its model calls one after another.  A run     *)
(* that is started again makes the same calls; those in the journal are    *)
(* replayed.  The same run may be started twice at once.                   *)
(***************************************************************************)
EXTENDS Integers, FiniteSets

CONSTANTS Processes, Runs,
          NoRun, NoRow,
          Calls,          \* the model calls of a run
          max_calls, daily_limit, minute_limit,
          DayLength, Minute,   \* ticks of a day and of a minute
          MaxClock             \* bound on the clock

ASSUME JournalAssumption ==
    /\ NoRun \notin Runs
    /\ IsFiniteSet(Runs)
    /\ {Calls, max_calls, daily_limit, minute_limit, DayLength, Minute} \subseteq Nat \ {0}
    /\ MaxClock \in Nat

VARIABLES
    clock,
    journal,        \* table pilot_calls: journal[run][ordinal]
    blocked_until,  \* of the one row of pilot_control
    pc,             \* where each process is in __call__
    run,            \* the --run-id it was started with
    ordinal,        \* its next call
    now,            \* the clock it read for its reservation
    sent            \* history: requests sent for each call of each run

journalVars == <<clock, journal, blocked_until, pc, run, ordinal, now, sent>>

Ordinals == 0..(Calls - 1)
\* "truncated" is a complete call with an inadmissible answer, "rate_limited" an
\* error with that code.
Row == [started : 0..MaxClock,
        state : {"reserved", "complete", "truncated", "error", "rate_limited"}]

ASSUME RowAssumption == NoRow \notin Row

JournalInit ==
    /\ clock = 0
    /\ journal = [r \in Runs |-> [o \in Ordinals |-> NoRow]]
    /\ blocked_until = 0
    /\ pc = [p \in Processes |-> "stopped"]
    /\ run = [p \in Processes |-> NoRun]
    /\ ordinal = [p \in Processes |-> 0]
    /\ now = [p \in Processes |-> 0]
    /\ sent = [r \in Runs |-> [o \in Ordinals |-> 0]]

--------------------------------------------------------------------------------
Midnight(t) == (t \div DayLength) * DayLength

Reserved(r) == {o \in Ordinals : journal[r][o] # NoRow}

\* The attempts of all runs that started at a time in T.
Attempts(T) ==
    {a \in Runs \X Ordinals :
        a[2] \in Reserved(a[1]) /\ journal[a[1]][a[2]].started \in T}

\* Mutant: an attempt counts when its outcome is known.
AllowedUnfinished(r, t) ==
    LET known(T) == {a \in Attempts(T) : journal[a[1]][a[2]].state # "reserved"} IN
    /\ blocked_until <= t
    /\ Cardinality(Reserved(r)) < max_calls
    /\ Cardinality(known(Midnight(t)..MaxClock)) < daily_limit
    /\ Cardinality(known((t - Minute + 1)..MaxClock)) < minute_limit

\* The run's budget and the project's quotas at the time t.
Allowed(r, t) ==
    /\ blocked_until <= t
    /\ Cardinality(Reserved(r)) < max_calls
    /\ Cardinality(Attempts(Midnight(t)..MaxClock)) < daily_limit
    /\ Cardinality(Attempts((t - Minute + 1)..MaxClock)) < minute_limit

Goto(p, point) == pc' = [pc EXCEPT ![p] = point]

\* The run is paused, or the process ends: a new one starts from its first call.
Stop(p) ==
    /\ Goto(p, "stopped")
    /\ run' = [run EXCEPT ![p] = NoRun]
    /\ ordinal' = [ordinal EXCEPT ![p] = 0]
    /\ now' = [now EXCEPT ![p] = 0]

\* The run goes on to its next call.
GoOn(p) ==
    /\ Goto(p, "running")
    /\ ordinal' = [ordinal EXCEPT ![p] = @ + 1]
    /\ now' = [now EXCEPT ![p] = 0]
    /\ UNCHANGED run

MyRow(p) == journal[run[p]][ordinal[p]]
SetRow(p, row) == journal' = [journal EXCEPT ![run[p]][ordinal[p]] = row]

\* The process is started, for the first time or again.
Start(p, r) ==
    /\ pc[p] = "stopped"
    /\ Goto(p, "running")
    /\ run' = [run EXCEPT ![p] = r]
    /\ UNCHANGED <<clock, journal, blocked_until, ordinal, now, sent>>

\* reserve() reads the clock, and may then wait for the file.
ReadClock(p) ==
    /\ pc[p] = "running"
    /\ ordinal[p] \in Ordinals
    /\ Goto(p, "reserving")
    /\ now' = [now EXCEPT ![p] = clock]
    /\ UNCHANGED <<clock, journal, blocked_until, run, ordinal, sent>>

\* The call was made before: its answer or its error is repeated.  The run
\* records an error and goes on.
Replay(p) ==
    /\ pc[p] = "reserving"
    /\ MyRow(p) # NoRow
    /\ MyRow(p).state \in {"complete", "error", "rate_limited"}
    /\ GoOn(p)
    /\ UNCHANGED <<clock, journal, blocked_until, sent>>

\* RunPaused: nobody knows the outcome of the call, its answer was incomplete,
\* or no new call is allowed.
Pause(p) ==
    /\ pc[p] = "reserving"
    /\ IF MyRow(p) = NoRow THEN ~Allowed(run[p], now[p])
       ELSE MyRow(p).state \in {"reserved", "truncated"}
    /\ Stop(p)
    /\ UNCHANGED <<clock, journal, blocked_until, sent>>

\* Mutant: a reservation without an outcome is taken over.
ReserveAgain(p) ==
    /\ pc[p] = "reserving"
    /\ MyRow(p) # NoRow => MyRow(p).state = "reserved"
    /\ Allowed(run[p], now[p])
    /\ SetRow(p, [started |-> now[p], state |-> "reserved"])
    /\ Goto(p, "reserved")
    /\ UNCHANGED <<clock, blocked_until, run, ordinal, now, sent>>

Reserve(p) ==
    /\ pc[p] = "reserving"
    /\ MyRow(p) = NoRow
    /\ Allowed(run[p], now[p])
    /\ SetRow(p, [started |-> now[p], state |-> "reserved"])
    /\ Goto(p, "reserved")
    /\ UNCHANGED <<clock, blocked_until, run, ordinal, now, sent>>

Send(p) ==
    /\ pc[p] = "reserved"
    /\ Goto(p, "sent")
    /\ sent' = [sent EXCEPT ![run[p]][ordinal[p]] = @ + 1]
    /\ UNCHANGED <<clock, journal, blocked_until, run, ordinal, now>>

\* finish(): the outcome of the call replaces its reservation.
Finish(p, state) ==
    /\ pc[p] = "sent"
    /\ MyRow(p) # NoRow
    /\ MyRow(p).state = "reserved"
    /\ SetRow(p, [MyRow(p) EXCEPT !.state = state])

\* An answer; CompleteAnswerProvider pauses the run if it is not complete.
Answer(p, state) ==
    /\ state \in {"complete", "truncated"}
    /\ Finish(p, state)
    /\ IF state = "complete" THEN GoOn(p) ELSE Stop(p)
    /\ UNCHANGED <<clock, blocked_until, sent>>

\* The call fails, and the run pauses; after a rate limit it blocks all runs first.
Fail(p, state) ==
    /\ state \in {"error", "rate_limited"}
    /\ Finish(p, state)
    /\ IF state = "error" THEN Stop(p)
       ELSE /\ Goto(p, "blocking")
            /\ UNCHANGED <<run, ordinal, now>>
    /\ UNCHANGED <<clock, blocked_until, sent>>

\* Mutant: a whole day, not the rest of this one.
BlockForADay(p) ==
    /\ pc[p] = "blocking"
    /\ blocked_until' = clock + DayLength
    /\ Stop(p)
    /\ UNCHANGED <<clock, journal, sent>>

\* block_rate_limit()
Block(p) ==
    /\ pc[p] = "blocking"
    /\ LET until == Midnight(clock) + DayLength IN
       blocked_until' = IF until > blocked_until THEN until ELSE blocked_until
    /\ Stop(p)
    /\ UNCHANGED <<clock, journal, sent>>

\* The process ends, or the file is locked for too long and the run pauses.
Crash(p) ==
    /\ pc[p] # "stopped"
    /\ Stop(p)
    /\ UNCHANGED <<clock, journal, blocked_until, sent>>

Tick ==
    /\ clock < MaxClock
    /\ clock' = clock + 1
    /\ UNCHANGED <<journal, blocked_until, pc, run, ordinal, now, sent>>

JournalNext ==
    \/ \E p \in Processes :
          \/ \E r \in Runs : Start(p, r)
          \/ ReadClock(p) \/ Replay(p) \/ Pause(p)
          \/ Reserve(p) \/ Send(p)
          \/ \E state \in {"complete", "truncated"} : Answer(p, state)
          \/ \E state \in {"error", "rate_limited"} : Fail(p, state)
          \/ Block(p) \/ Crash(p)
    \/ Tick

JournalSpec == JournalInit /\ [][JournalNext]_journalVars

--------------------------------------------------------------------------------
JournalTypeOK ==
    /\ clock \in 0..MaxClock
    /\ journal \in [Runs -> [Ordinals -> Row \cup {NoRow}]]
    /\ blocked_until \in 0..(MaxClock + DayLength)
    /\ blocked_until % DayLength = 0
    /\ pc \in [Processes -> {"stopped", "running", "reserving", "reserved", "sent", "blocking"}]
    /\ run \in [Processes -> Runs \cup {NoRun}]
    /\ ordinal \in [Processes -> 0..Calls]
    /\ now \in [Processes -> 0..MaxClock]
    /\ sent \in [Runs -> [Ordinals -> Nat]]

\* "Every attempted call, including errors and uncertain outcomes, is reserved
\* transactionally": whatever crashes or waits, all processes together start no
\* more calls in a UTC day, in any minute and in a run than allowed.
QuotasKept ==
    /\ \A t \in 0..MaxClock :
          /\ Cardinality(Attempts(Midnight(t)..(Midnight(t) + DayLength - 1))) <= daily_limit
          /\ Cardinality(Attempts((t - Minute + 1)..t)) <= minute_limit
    /\ \A r \in Runs : Cardinality(Reserved(r)) <= max_calls

\* "Provider calls are never automatically retried": no call of a run is sent
\* twice, though the run be started again or twice at once, and none is sent
\* that is not in the journal.
SentOnce ==
    \A r \in Runs, o \in Ordinals :
        /\ sent[r][o] <= 1
        /\ sent[r][o] = 1 => journal[r][o] # NoRow

\* "A provider rate-limit response blocks new project calls until the next local
\* UTC day": from the time it is recorded, but for the process that is about to
\* block.  It does not: the record and the block are two transactions.
RateLimitBlocks ==
    \A r \in Runs : \A o \in Reserved(r) :
        journal[r][o].state = "rate_limited" =>
            \/ \E p \in Processes : pc[p] = "blocking"
            \/ clock >= Midnight(journal[r][o].started) + DayLength
            \/ blocked_until > clock
================================================================================
