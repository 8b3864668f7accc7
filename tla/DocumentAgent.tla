----------------------------- MODULE DocumentAgent -----------------------------
(***************************************************************************)
(* DocumentAgent of src/src/agents/document_agent.py: tasks are rows of a  *)
(* SQLite database that any number of runners (processes) advance, people  *)
(* decide, and anybody deletes.  advance() is two transactions: the first  *)
(* reserves a model call and commits, the second holds the write lock of   *)
(* the database during the call.  A runner may crash anywhere.  Runners    *)
(* have the same documents and model.  Texts are left out: a draft is the  *)
(* number of the reservation it was written under.                         *)
(***************************************************************************)
EXTENDS Integers, Sequences, FiniteSets

CONSTANTS Runners, People, Tasks,
          NoOne, NoTask, NoRow,
          Plans,                    \* plans validate_plan lets pass
          max_calls, max_revisions  \* max_calls, max_revisions

ASSUME AgentAssumption ==
    /\ NoOne \notin Runners
    /\ NoTask \notin Tasks
    /\ Plans \subseteq Seq({"search", "read"}) \ {<<>>}
    /\ max_calls \in Nat \ {0}
    /\ max_revisions \in Nat

VARIABLES
    rows,       \* table document_tasks: the state of every task there is
    created,    \* ids uuid4() has given out
    lock,       \* the runner that holds the write lock
    pc,         \* where each runner is in advance()
    task,       \* the task it advances
    mine,       \* the state s it saved with its reservation
    inspected,  \* history: the draft a person saw of an awaiting task
    decided,    \* history: tasks a person approved or modified
    sent        \* history: model calls sent to the gateway for each task

vars == <<rows, created, lock, pc, task, mine, inspected, decided, sent>>
runnerVars == <<lock, pc, task, mine>>

Statuses == {"PLANNING", "TOOLS", "DRAFTING", "REVIEWING", "AWAITING_APPROVAL",
             "COMPLETED", "REJECTED", "FAILED"}
ModelStages == {"PLANNING", "DRAFTING", "REVIEWING"}
Final == {"COMPLETED", "REJECTED", "FAILED"}

Modified == 0   \* the answer is a person's own text
Nothing == -1   \* no draft, no answer

\* tools holds the results of the first `done' steps of the plan.
State == [status : Statuses, plan : Plans \cup {<<>>}, done : Nat,
          draft : Int, answer : Int,
          reserved_calls : 0..max_calls, revisions : 0..max_revisions,
          require_approval : BOOLEAN, cache : BOOLEAN]

Init ==
    /\ rows = [t \in {} |-> 0]
    /\ created = {}
    /\ lock = NoOne
    /\ pc = [r \in Runners |-> "idle"]
    /\ task = [r \in Runners |-> NoTask]
    /\ mine = [r \in Runners |-> NoRow]
    /\ inspected = [p \in People |-> [t \in Tasks |-> Nothing]]
    /\ decided = {}
    /\ sent = [t \in Tasks |-> 0]

--------------------------------------------------------------------------------
Exists(t) == t \in DOMAIN rows

\* A transaction needs the write lock; the rows it leaves are committed.
Writable == lock = NoOne
Save(t, s) == rows' = [rows EXCEPT ![t] = s]

Create(t, approval, cache) ==
    /\ Writable
    /\ t \notin created
    /\ created' = created \cup {t}
    /\ rows' = [u \in DOMAIN rows \cup {t} |->
            IF u # t THEN rows[u]
            ELSE [status |-> "PLANNING", plan |-> <<>>, done |-> 0,
                  draft |-> Nothing, answer |-> Nothing, reserved_calls |-> 0,
                  revisions |-> 0, require_approval |-> approval, cache |-> cache]]
    /\ UNCHANGED <<runnerVars, inspected, decided, sent>>

\* delete and invalidate; a task in a model call is deleted after it.
Delete(S) ==
    /\ Writable
    /\ S # {}
    /\ rows' = [t \in DOMAIN rows \ S |-> rows[t]]
    /\ UNCHANGED <<created, runnerVars, inspected, decided, sent>>

--------------------------------------------------------------------------------
(* advance(), first transaction. *)

\* Mutant: what fails is left to be tried again.
Retried(s) == s

Failed(s) == [s EXCEPT !.status = "FAILED"]

\* A tool is run, and its result saved, or it fails.
RunTool(r, t) ==
    /\ pc[r] = "idle"
    /\ Writable
    /\ Exists(t)
    /\ rows[t].status = "TOOLS"
    /\ LET s    == rows[t]
           last == s.done + 1 = Len(s.plan)
       IN \/ Save(t, [s EXCEPT !.done = @ + 1,
                               !.status = IF last THEN "DRAFTING" ELSE "TOOLS"])
          \/ Save(t, Failed(s))
    /\ UNCHANGED <<created, runnerVars, inspected, decided, sent>>

BudgetExhausted(r, t) ==
    /\ pc[r] = "idle"
    /\ Writable
    /\ Exists(t)
    /\ rows[t].status \in ModelStages
    /\ rows[t].reserved_calls >= max_calls
    /\ Save(t, Failed(rows[t]))
    /\ UNCHANGED <<created, runnerVars, inspected, decided, sent>>

\* Mutant: the reservation is saved with the result of the call.
ReserveUncommitted(r, t) ==
    /\ pc[r] = "idle"
    /\ Writable
    /\ Exists(t)
    /\ rows[t].status \in ModelStages
    /\ rows[t].reserved_calls < max_calls
    /\ pc' = [pc EXCEPT ![r] = "reserved"]
    /\ task' = [task EXCEPT ![r] = t]
    /\ mine' = [mine EXCEPT ![r] = rows[t]]
    /\ UNCHANGED <<rows, created, lock, inspected, decided, sent>>

\* A model call is reserved, and the reservation committed.
Reserve(r, t) ==
    /\ pc[r] = "idle"
    /\ Writable
    /\ Exists(t)
    /\ rows[t].status \in ModelStages
    /\ rows[t].reserved_calls < max_calls
    /\ LET s == [rows[t] EXCEPT !.reserved_calls = @ + 1] IN
       /\ Save(t, s)
       /\ mine' = [mine EXCEPT ![r] = s]
    /\ pc' = [pc EXCEPT ![r] = "reserved"]
    /\ task' = [task EXCEPT ![r] = t]
    /\ UNCHANGED <<created, lock, inspected, decided, sent>>

--------------------------------------------------------------------------------
(* advance(), second transaction. *)

\* advance() is over, and its transaction too.
Leave(r) ==
    /\ pc' = [pc EXCEPT ![r] = "idle"]
    /\ task' = [task EXCEPT ![r] = NoTask]
    /\ mine' = [mine EXCEPT ![r] = NoRow]
    /\ lock' = IF lock = r THEN NoOne ELSE lock

\* Mutant: the task is not loaded again.
EnterUnchecked(r) ==
    /\ pc[r] = "reserved"
    /\ Writable
    /\ Exists(task[r])
    /\ lock' = r
    /\ pc' = [pc EXCEPT ![r] = "calling"]
    /\ UNCHANGED <<rows, created, task, mine, inspected, decided, sent>>

\* BEGIN IMMEDIATE again: the task is as this runner left it.
Enter(r) ==
    /\ pc[r] = "reserved"
    /\ Writable
    /\ Exists(task[r])
    /\ rows[task[r]] = mine[r]
    /\ lock' = r
    /\ pc' = [pc EXCEPT ![r] = "calling"]
    /\ UNCHANGED <<rows, created, task, mine, inspected, decided, sent>>

\* Somebody has advanced or deleted it, or kept the lock for longer than the
\* timeout: the reservation is lost.
GiveUp(r) ==
    /\ pc[r] = "reserved"
    /\ \/ ~Writable
       \/ ~Exists(task[r])
       \/ Exists(task[r]) /\ rows[task[r]] # mine[r]
    /\ Leave(r)
    /\ UNCHANGED <<rows, created, inspected, decided, sent>>

\* service.complete() calls the provider: the cache mode is not guarded, so
\* once at most.
Send(r) ==
    /\ pc[r] = "calling"
    /\ pc' = [pc EXCEPT ![r] = "sent"]
    /\ sent' = [sent EXCEPT ![task[r]] = @ + 1]
    /\ UNCHANGED <<rows, created, lock, task, mine, inspected, decided>>

\* Evidence: a document was read.
Supported(s) == \E i \in 1..s.done : s.plan[i] = "read"

\* Mutant: the reviewer's verdict is enough.
ReviewedUnsupported(s) ==
    {IF s.require_approval
     THEN [s EXCEPT !.status = "AWAITING_APPROVAL"]
     ELSE [s EXCEPT !.status = "COMPLETED", !.answer = s.draft],
     IF s.revisions < max_revisions
     THEN [s EXCEPT !.status = "DRAFTING", !.revisions = @ + 1]
     ELSE [s EXCEPT !.status = "AWAITING_APPROVAL"]}

\* Mutant: the draft is revised once more than max_revisions times.
ReviewedOnceMore(s) ==
    LET revised == IF s.revisions <= max_revisions
                   THEN [s EXCEPT !.status = "DRAFTING", !.revisions = @ + 1]
                   ELSE [s EXCEPT !.status = "AWAITING_APPROVAL"]
    IN {revised,
        IF ~Supported(s) THEN revised
        ELSE IF s.require_approval THEN [s EXCEPT !.status = "AWAITING_APPROVAL"]
        ELSE [s EXCEPT !.status = "COMPLETED", !.answer = s.draft]}

\* What the reviewer's verdict, approved or not, makes of the task.
Reviewed(s) ==
    LET revised == IF s.revisions < max_revisions
                   THEN [s EXCEPT !.status = "DRAFTING", !.revisions = @ + 1]
                   ELSE [s EXCEPT !.status = "AWAITING_APPROVAL"]
    IN {revised,
        IF ~Supported(s) THEN revised
        ELSE IF s.require_approval THEN [s EXCEPT !.status = "AWAITING_APPROVAL"]
        ELSE [s EXCEPT !.status = "COMPLETED", !.answer = s.draft]}

\* What a model answer may make of the task s.
Planned(s) == {[s EXCEPT !.plan = p, !.status = "TOOLS"] : p \in Plans}
Drafted(s) == {[s EXCEPT !.draft = s.reserved_calls, !.status = "REVIEWING"]}

Answered(s) ==
    IF s.status = "PLANNING" THEN Planned(s)
    ELSE IF s.status = "DRAFTING" THEN Drafted(s) ELSE Reviewed(s)

\* Only a draft may come from the cache, when the task allows it.
Reused(s) == s.cache /\ s.status = "DRAFTING"

\* An answer that is used; or the gateway, the provider or the answer fails.
Finish(r) ==
    /\ pc[r] \in {"calling", "sent"}
    /\ LET s == mine[r] IN
       \/ /\ pc[r] = "sent" \/ Reused(s)
          /\ \E done \in Answered(s) : Save(task[r], done)
       \/ Save(task[r], Failed(s))
    /\ Leave(r)
    /\ UNCHANGED <<created, inspected, decided, sent>>

\* The process ends, or the commit fails: what is not committed is undone.
Crash(r) ==
    /\ pc[r] # "idle"
    /\ Leave(r)
    /\ UNCHANGED <<rows, created, inspected, decided, sent>>

--------------------------------------------------------------------------------
\* inspect(), of a task that awaits a decision.
Inspect(p, t) ==
    /\ Exists(t)
    /\ rows[t].status = "AWAITING_APPROVAL"
    /\ inspected' = [inspected EXCEPT ![p][t] = rows[t].draft]
    /\ UNCHANGED <<rows, created, runnerVars, decided, sent>>

Publish(s, decision) ==
    IF decision = "reject" THEN Nothing
    ELSE IF decision = "modify" THEN Modified ELSE s.draft

\* Mutant: a decision is taken whatever has become of the task.
DecideUnchecked(t, decision) ==
    /\ Writable
    /\ Exists(t)
    /\ rows[t].status # "PLANNING"
    /\ Save(t, [rows[t] EXCEPT
            !.status = IF decision = "reject" THEN "REJECTED" ELSE "COMPLETED",
            !.answer = Publish(rows[t], decision)])
    /\ decided' = IF decision = "reject" THEN decided ELSE decided \cup {t}
    /\ UNCHANGED <<created, runnerVars, inspected, sent>>

\* decide()
Decide(t, decision) ==
    /\ Writable
    /\ Exists(t)
    /\ rows[t].status = "AWAITING_APPROVAL"
    /\ Save(t, [rows[t] EXCEPT
            !.status = IF decision = "reject" THEN "REJECTED" ELSE "COMPLETED",
            !.answer = Publish(rows[t], decision)])
    /\ decided' = IF decision = "reject" THEN decided ELSE decided \cup {t}
    /\ UNCHANGED <<created, runnerVars, inspected, sent>>

Advance(r, t) ==
    \/ RunTool(r, t)
    \/ BudgetExhausted(r, t)
    \/ Reserve(r, t)
    \/ task[r] = t /\ (Enter(r) \/ GiveUp(r) \/ Send(r) \/ Finish(r))

Next ==
    \/ \E r \in Runners, t \in Tasks : Advance(r, t)
    \/ \E r \in Runners : Crash(r)
    \/ \E t \in Tasks, approval, cache \in BOOLEAN : Create(t, approval, cache)
    \/ \E S \in SUBSET Tasks : Delete(S)
    \/ \E p \in People, t \in Tasks : Inspect(p, t)
    \/ \E t \in Tasks, decision \in {"approve", "modify", "reject"} : Decide(t, decision)

Spec == Init /\ [][Next]_vars

\* Somebody goes on calling advance() for a task, and a model call ends.
FairSpec == Spec /\ \A t \in Tasks : WF_vars(\E r \in Runners : Advance(r, t))

--------------------------------------------------------------------------------
\* The types, and the ranges of the counters a task carries through its rounds
\* of drafting and review.
TypeOK ==
    /\ DOMAIN rows \subseteq created
    /\ created \subseteq Tasks
    /\ \A t \in DOMAIN rows : rows[t] \in State
    /\ lock \in Runners \cup {NoOne}
    /\ pc \in [Runners -> {"idle", "reserved", "calling", "sent"}]
    /\ task \in [Runners -> Tasks \cup {NoTask}]
    /\ mine \in [Runners -> State \cup {NoRow}]
    /\ \A r \in Runners :
          IF pc[r] = "idle" THEN task[r] = NoTask /\ mine[r] = NoRow
          ELSE task[r] \in created /\ mine[r] \in State
    /\ inspected \in [People -> [Tasks -> Int]]
    /\ decided \subseteq Tasks
    /\ sent \in [Tasks -> Nat]

\* "Reservation survives crashes; no hidden retry can reset the task budget":
\* however many runners compete for a task and crash during its calls, no more
\* model calls are sent for it than the row says, and never more than max_calls.
CallsReserved ==
    \A t \in Tasks :
        /\ sent[t] <= max_calls
        /\ Exists(t) => sent[t] <= rows[t].reserved_calls

\* An answer is published by a person, or, if the task does not ask for one, by
\* a reviewer who had evidence, and then it is the draft; and by nobody before
\* all of the plan has been carried out.
PublishedByRight ==
    \A t \in DOMAIN rows :
        rows[t].status = "COMPLETED" =>
            /\ t \notin decided => ~rows[t].require_approval /\ Supported(rows[t])
            /\ rows[t].answer \in (IF t \in decided THEN {Modified} ELSE {}) \cup {rows[t].draft}
            /\ rows[t].done = Len(rows[t].plan)

\* What a person saw of a task that awaits a decision is what is decided on:
\* no runner that was late changes the draft under the decision.
DecidedAsSeen ==
    \A p \in People, t \in DOMAIN rows :
        inspected[p][t] # Nothing =>
            /\ rows[t].status \in {"AWAITING_APPROVAL", "COMPLETED", "REJECTED"}
            /\ rows[t].draft = inspected[p][t]

\* "Never overwrite it": a runner that comes back after others have advanced
\* the task undoes none of their work, returns no reservation, and never
\* reopens a task that has ended.
WorkIsKept ==
    [][\A t \in Tasks : Exists(t) /\ Exists(t)' =>
        LET s == rows[t] IN
        /\ s.status \in Final => rows'[t] = s
        /\ s.plan # <<>> => rows'[t].plan = s.plan
        /\ rows'[t].done >= s.done
        /\ rows'[t].draft >= s.draft
        /\ rows'[t].revisions >= s.revisions
        /\ rows'[t].reserved_calls >= s.reserved_calls]_vars

\* The budget bounds the work of runners that take each other's turn, and of
\* runners that crash: every task ends, waits for a person or is deleted.
TaskSettles ==
    \A t \in Tasks :
        Exists(t) ~> ~Exists(t) \/ rows[t].status \in Final \cup {"AWAITING_APPROVAL"}
================================================================================
