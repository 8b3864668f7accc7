--------------------------- MODULE ApplicationProofs ---------------------------
(***************************************************************************)
(* Theorems about what is built on the caches and the gateway: the two     *)
(* agents, AgentWorkflow, for any number of runs and keys, either cache    *)
(* and any budget of two calls or more, and DocumentAgent, for every set   *)
(* of runners, people, tasks and plans and every budget; and               *)
(* PairedBenchmark, for every workload, policy, similarity, size and       *)
(* sequence of failures.                                                   *)
(***************************************************************************)
EXTENDS AgentWorkflow, DocumentAgent, PairedBenchmark, LruProofs

--------------------------------------------------------------------------------
(* AgentWorkflow.  The invariant follows one run: nothing is sent before   *)
(* the specialist's stage ends, and whoever is inside the service got in   *)
(* with a call left.                                                       *)

Places == {"idle", "specialist", "reviewer", "COMPLETED", "NEEDS_HUMAN_REVIEW", "FAILED"}

Types ==
    /\ cache \in Caches
    /\ inflight \subseteq Runs /\ unknown \subseteq Runs
    /\ at \in [Runs -> Places]
    /\ calls \in [Runs -> Nat] /\ upstream \in [Runs -> Nat]

\* Until the specialist's stage ends, the run has nothing to account for.
Untouched(r) ==
    at[r] \in {"idle", "specialist"} => calls[r] = 0 /\ upstream[r] = 0

\* A run that goes on has an exact count.
GoesOn(r) == at[r] \in {"idle", "specialist", "reviewer"} => r \notin unknown

\* Who is inside the service is in a stage and had a call left.
LetIn(r) == r \in inflight => at[r] \in Stages /\ calls[r] < max_provider_calls

Bounded(r) == upstream[r] <= max_provider_calls
Exact(r) == r \notin unknown => calls[r] = upstream[r]
Covered(r) == cache = "exact" => upstream[r] <= calls[r]

Accounts(r) ==
    Untouched(r) /\ GoesOn(r) /\ LetIn(r) /\ Bounded(r) /\ Exact(r) /\ Covered(r)

WorkflowInv == Types /\ \A r \in Runs : Accounts(r)

--------------------------------------------------------------------------------
\* A run that a step leaves where it was, with the counts it had, keeps its
\* account, provided nobody else put it into the service.
LEMMA Untroubled ==
    ASSUME Types, NEW r \in Runs, Accounts(r), cache' = cache,
           at'[r] = at[r], calls'[r] = calls[r], upstream'[r] = upstream[r],
           r \in unknown' <=> r \in unknown, r \in inflight' => r \in inflight
    PROVE  Accounts(r)'
BY DEF Accounts, Untouched, GoesOn, LetIn, Bounded, Exact, Covered

\* What a verifier may cost: nothing with an exact cache or at the reviewer.
LEMMA VerifierCost ==
    ASSUME NEW r \in Runs, NEW v \in VerifierCalls(r)
    PROVE  /\ v \in 0..1
           /\ cache = "exact" \/ at[r] # "specialist" => v = 0
BY DEF VerifierCalls

\* A stage that returns charges what it sent.
LEMMA ReturnedAccounts ==
    ASSUME WorkflowInv, NEW r \in Runs, NEW used \in 0..2, NEW where \in {"reviewer"} \cup Ended,
           at[r] # "specialist" => used <= 1,
           Returned(r, used), Goto(r, where)
    PROVE  WorkflowInv'
<1>1. r \in inflight /\ Accounts(r) /\ at[r] \in Stages /\ calls[r] < max_provider_calls
      BY DEF WorkflowInv, Accounts, LetIn, Returned
<1>2. calls[r] \in Nat /\ upstream[r] \in Nat /\ calls[r] = upstream[r] /\ r \notin unknown
      BY <1>1 DEF WorkflowInv, Types, Accounts, GoesOn, Exact, Stages
<1>3. Types'
      BY DEF WorkflowInv, Types, Returned, Goto, Places, Ended
<1>4. at'[r] = where /\ calls'[r] = calls[r] + used /\ upstream'[r] = upstream[r] + used
      BY DEF WorkflowInv, Types, Returned, Goto
<1>5. r \notin unknown' /\ r \notin inflight' /\ cache' = cache
      BY <1>2 DEF Returned
<1>6. upstream[r] + used <= max_provider_calls
  <2>1. CASE at[r] = "specialist"
        BY <1>1, <1>2, <2>1, WorkflowAssumption DEF Accounts, Untouched
  <2>2. CASE at[r] # "specialist"
        BY <1>1, <1>2, <2>2, WorkflowAssumption
  <2>. QED  BY <2>1, <2>2
<1>7. Accounts(r)'
      BY <1>2, <1>4, <1>5, <1>6 DEF Accounts, Untouched, GoesOn, LetIn, Bounded, Exact, Covered, Ended
<1>8. ASSUME NEW s \in Runs, s # r PROVE Accounts(s)'
  <2>1. at'[s] = at[s] /\ calls'[s] = calls[s] /\ upstream'[s] = upstream[s]
        BY <1>8 DEF WorkflowInv, Types, Returned, Goto
  <2>2. (s \in unknown' <=> s \in unknown) /\ (s \in inflight' => s \in inflight)
        BY DEF Returned
  <2>. QED  BY <1>5, <2>1, <2>2, Untroubled DEF WorkflowInv
<1>. QED  BY <1>3, <1>7, <1>8 DEF WorkflowInv

\* A stage that raises is charged one call, whatever it sent.
LEMMA RaiseAccounts ==
    ASSUME WorkflowInv, NEW r \in Runs, NEW used \in 0..2,
           at[r] \in Stages, r \notin unknown, calls[r] < max_provider_calls,
           cache = "exact" \/ at[r] # "specialist" => used <= 1,
           Raise(r, used), inflight' \subseteq inflight, r \notin inflight'
    PROVE  WorkflowInv'
<1>1. calls[r] \in Nat /\ upstream[r] \in Nat /\ calls[r] = upstream[r] /\ Accounts(r)
      BY DEF WorkflowInv, Types, Accounts, Exact
<1>2. Types'
      BY DEF WorkflowInv, Types, Raise, Goto, Places
<1>3. at'[r] = "FAILED" /\ calls'[r] = calls[r] + 1 /\ upstream'[r] = upstream[r] + used
      BY DEF WorkflowInv, Types, Raise, Goto
<1>4. r \in unknown' /\ cache' = cache
      BY DEF Raise
<1>5. upstream[r] + used <= max_provider_calls
  <2>1. CASE at[r] = "specialist"
        BY <1>1, <2>1, WorkflowAssumption DEF Accounts, Untouched
  <2>2. CASE at[r] # "specialist"
        BY <1>1, <2>2, WorkflowAssumption
  <2>. QED  BY <2>1, <2>2
<1>6. Accounts(r)'
      BY <1>1, <1>3, <1>4, <1>5 DEF Accounts, Untouched, GoesOn, LetIn, Bounded, Exact, Covered
<1>7. ASSUME NEW s \in Runs, s # r PROVE Accounts(s)'
  <2>1. at'[s] = at[s] /\ calls'[s] = calls[s] /\ upstream'[s] = upstream[s]
        BY <1>7 DEF WorkflowInv, Types, Raise, Goto
  <2>2. (s \in unknown' <=> s \in unknown) /\ (s \in inflight' => s \in inflight)
        BY <1>7 DEF Raise
  <2>. QED  BY <1>4, <2>1, <2>2, Untroubled DEF WorkflowInv
<1>. QED  BY <1>2, <1>6, <1>7 DEF WorkflowInv

--------------------------------------------------------------------------------
LEMMA InitAccounts == WorkflowInit => WorkflowInv
BY WorkflowAssumption
   DEF WorkflowInit, WorkflowInv, Types, Places, Accounts, Untouched, GoesOn, LetIn, Bounded, Exact, Covered

LEMMA NextAccounts == WorkflowInv /\ [WorkflowNext]_workflowVars => WorkflowInv'
<1>. SUFFICES ASSUME WorkflowInv, [WorkflowNext]_workflowVars PROVE WorkflowInv'
     OBVIOUS
<1>1. ASSUME NEW r \in Runs, NEW k \in Keys, Begin(r, k) PROVE WorkflowInv'
  <2>1. Types'
        BY <1>1 DEF WorkflowInv, Types, Begin, Goto, Places
  <2>2. ASSUME NEW s \in Runs PROVE Accounts(s)'
    <3>1. CASE s = r
          BY <1>1, <3>1 DEF WorkflowInv, Types, Begin, Goto, Accounts, Untouched, GoesOn, LetIn,
                            Bounded, Exact, Covered, Stages
    <3>2. CASE s # r
          BY <1>1, <3>2, Untroubled DEF WorkflowInv, Types, Begin, Goto
    <3>. QED  BY <3>1, <3>2
  <2>. QED  BY <2>1, <2>2 DEF WorkflowInv
<1>2. ASSUME NEW r \in Runs, Exhausted(r) PROVE WorkflowInv'
  <2>1. Types'
        BY <1>2 DEF WorkflowInv, Types, Exhausted, Goto, Places
  <2>2. ASSUME NEW s \in Runs PROVE Accounts(s)'
    <3>1. CASE s = r
          BY <1>2, <3>1 DEF WorkflowInv, Types, Exhausted, Goto, Accounts, Untouched, GoesOn, LetIn,
                            Bounded, Exact, Covered, Stages
    <3>2. CASE s # r
          BY <1>2, <3>2, Untroubled DEF WorkflowInv, Types, Exhausted, Goto
    <3>. QED  BY <3>1, <3>2
  <2>. QED  BY <2>1, <2>2 DEF WorkflowInv
<1>3. ASSUME NEW r \in Runs, Busy(r) PROVE WorkflowInv'
  <2>1. at[r] \in Stages /\ r \notin inflight /\ calls[r] < max_provider_calls
        BY <1>3 DEF Busy, Affordable
  <2>2. r \notin unknown
        BY <2>1 DEF WorkflowInv, Accounts, GoesOn, Stages
  <2>. QED  BY <1>3, <2>1, <2>2, RaiseAccounts DEF Busy
<1>4. ASSUME NEW r \in Runs, EnterService(r) PROVE WorkflowInv'
  <2>1. Types'
        BY <1>4 DEF WorkflowInv, Types, EnterService
  <2>2. ASSUME NEW s \in Runs PROVE Accounts(s)'
        BY <1>4 DEF WorkflowInv, EnterService, Affordable, Accounts, Untouched, GoesOn, LetIn, Bounded, Exact, Covered
  <2>. QED  BY <2>1, <2>2 DEF WorkflowInv
<1>5. ASSUME NEW r \in Runs, DraftReused(r) PROVE WorkflowInv'
  <2>1. PICK used \in 0..1 : Returned(r, used)
        BY <1>5, VerifierCost DEF DraftReused
  <2>. QED  BY <1>5, <2>1, ReturnedAccounts DEF DraftReused
<1>6. ASSUME NEW r \in Runs, NEW stored \in BOOLEAN, DraftGenerated(r, stored) PROVE WorkflowInv'
  <2>1. PICK v \in VerifierCalls(r) : Returned(r, v + 1)
        BY <1>6 DEF DraftGenerated
  <2>2. v + 1 \in 0..2 /\ at[r] = "specialist" /\ Goto(r, "reviewer")
        BY <1>6, VerifierCost DEF DraftGenerated
  <2>. QED  BY <2>1, <2>2, ReturnedAccounts
<1>7. ASSUME NEW r \in Runs, NEW verdict \in Ended, ReviewerDecides(r, verdict) PROVE WorkflowInv'
  <2>1. Returned(r, 1) /\ Goto(r, verdict) /\ verdict \in {"reviewer"} \cup Ended
        BY <1>7 DEF ReviewerDecides
  <2>2. 1 \in 0..2 /\ (at[r] # "specialist" => 1 <= 1)
        OBVIOUS
  <2>. QED  BY <2>1, <2>2, ReturnedAccounts
<1>8. ASSUME NEW r \in Runs, Incomplete(r) PROVE WorkflowInv'
  <2>1. PICK v \in VerifierCalls(r) : Returned(r, v + 1)
        BY <1>8 DEF Incomplete
  <2>2. v + 1 \in 0..2 /\ (at[r] # "specialist" => v + 1 <= 1) /\ Goto(r, "FAILED")
        BY <1>8, VerifierCost DEF Incomplete
  <2>. QED  BY <2>1, <2>2, ReturnedAccounts DEF Ended
<1>9. ASSUME NEW r \in Runs, ProviderFails(r) PROVE WorkflowInv'
  <2>1. PICK v \in VerifierCalls(r) : Raise(r, v + 1)
        BY <1>9 DEF ProviderFails
  <2>2. v + 1 \in 0..2 /\ (cache = "exact" \/ at[r] # "specialist" => v + 1 <= 1)
        BY VerifierCost
  <2>3. r \in inflight /\ inflight' \subseteq inflight /\ r \notin inflight'
        BY <1>9 DEF ProviderFails
  <2>4. at[r] \in Stages /\ calls[r] < max_provider_calls /\ r \notin unknown
        BY <2>3 DEF WorkflowInv, Accounts, LetIn, GoesOn, Stages
  <2>. QED  BY <2>1, <2>2, <2>3, <2>4, RaiseAccounts
<1>10. ASSUME NEW k \in Keys, Forget(k) PROVE WorkflowInv'
       BY <1>10, Untroubled DEF WorkflowInv, Types, Forget
<1>11. CASE UNCHANGED workflowVars
       BY <1>11, Untroubled DEF WorkflowInv, Types, workflowVars
<1>. QED  BY <1>1, <1>2, <1>3, <1>4, <1>5, <1>6, <1>7, <1>8, <1>9, <1>10, <1>11 DEF WorkflowNext, Step

\* No run sends more calls than its budget, a number of calls that is reported
\* is exact, and with an exact cache what is charged covers what was sent:
\* CallsAccounted (workflow.py, invoke and finish), for every set of runs.
THEOREM CallsAreAccounted == WorkflowSpec => []CallsAccounted
<1>1. WorkflowInv => CallsAccounted
      BY DEF WorkflowInv, Accounts, Bounded, Exact, Covered, CallsAccounted, Reported
<1>. QED  BY <1>1, InitAccounts, NextAccounts, PTL DEF WorkflowSpec

--------------------------------------------------------------------------------
(* DocumentAgent. *)

InCall(r) == pc[r] \in {"calling", "sent"}
AtWork(r) == pc[r] # "idle"

\* The runner in a model call holds the lock, and the task as it saved it.
LockHeld ==
    \A r \in Runners :
        /\ InCall(r) <=> lock = r
        /\ InCall(r) => Exists(task[r]) /\ rows[task[r]] = mine[r]

\* A runner's reservation is its own.
OwnReservation ==
    /\ \A r \in Runners : AtWork(r) =>
          /\ mine[r].status \in ModelStages
          /\ Exists(task[r]) => mine[r].reserved_calls <= rows[task[r]].reserved_calls
    /\ \A r, q \in Runners :
          r # q /\ AtWork(r) /\ AtWork(q) /\ task[r] = task[q] /\ Exists(task[r]) =>
              mine[r].reserved_calls # mine[q].reserved_calls

\* The last reservation is not used up before the call of its runner is sent.
Unsent ==
    \A r \in Runners :
        /\ pc[r] \in {"reserved", "calling"}
        /\ Exists(task[r])
        /\ mine[r].reserved_calls = rows[task[r]].reserved_calls
        => sent[task[r]] < rows[task[r]].reserved_calls

Budget ==
    \A t \in Tasks :
        /\ sent[t] <= max_calls
        /\ Exists(t) => sent[t] <= rows[t].reserved_calls
        /\ Exists(t) => rows[t].reserved_calls <= max_calls
        /\ t \notin created => sent[t] = 0

IInv == TypeOK /\ LockHeld /\ OwnReservation /\ Unsent /\ Budget

--------------------------------------------------------------------------------
\* Saving a task changes this row and no other.
LEMMA SaveRow ==
    ASSUME NEW t, NEW s, Exists(t), Save(t, s)
    PROVE  /\ DOMAIN rows' = DOMAIN rows
           /\ rows'[t] = s
           /\ \A u \in DOMAIN rows : u # t => rows'[u] = rows[u]
    BY DEF Save, Exists

\* A saved task is well typed when its state is.
LEMMA SaveType ==
    ASSUME TypeOK, NEW t, NEW s \in State, Exists(t), Save(t, s)
    PROVE  /\ DOMAIN rows' \subseteq created
           /\ \A u \in DOMAIN rows' : rows'[u] \in State
    BY SaveRow DEF TypeOK

LEMMA StatusNames ==
    {"TOOLS", "DRAFTING", "REVIEWING", "AWAITING_APPROVAL", "COMPLETED", "REJECTED",
     "FAILED"} \subseteq Statuses
    BY DEF Statuses

LEMMA FailedType ==
    ASSUME NEW s \in State
    PROVE  Failed(s) \in State /\ Failed(s).reserved_calls = s.reserved_calls
<1>1. [s EXCEPT !.status = "FAILED"] \in State
    BY StatusNames DEF State
<1>2. [s EXCEPT !.status = "FAILED"].reserved_calls = s.reserved_calls
    BY DEF State
<1> QED
    BY <1>1, <1>2 DEF Failed

LEMMA ReviewedType ==
    ASSUME NEW s \in State, NEW a \in Reviewed(s)
    PROVE  a \in State /\ a.reserved_calls = s.reserved_calls
<1> DEFINE revise   == [s EXCEPT !.status = "DRAFTING", !.revisions = s.revisions + 1]
           await    == [s EXCEPT !.status = "AWAITING_APPROVAL"]
           complete == [s EXCEPT !.status = "COMPLETED", !.answer = s.draft]
<1>1. a \in {await, complete} \/ (a = revise /\ s.revisions < max_revisions)
    BY DEF Reviewed
<1>2. s.draft \in Int
    BY DEF State
<1>3. s.revisions < max_revisions =>
          revise \in State /\ revise.reserved_calls = s.reserved_calls
    <2>1. s.revisions < max_revisions => s.revisions + 1 \in 0..max_revisions
        BY AgentAssumption DEF State
    <2> QED
        BY <2>1, StatusNames DEF State
<1>4. await \in State /\ await.reserved_calls = s.reserved_calls
    BY StatusNames DEF State
<1>5. complete \in State /\ complete.reserved_calls = s.reserved_calls
    BY <1>2, StatusNames DEF State
<1> QED
    BY <1>1, <1>3, <1>4, <1>5

\* Whatever a model answers, the task stays a task and keeps its reservations.
LEMMA AnsweredType ==
    ASSUME NEW s \in State, NEW a \in Answered(s)
    PROVE  a \in State /\ a.reserved_calls = s.reserved_calls
<1>1. CASE a \in Planned(s)
    <2>1. PICK p \in Plans : a = [s EXCEPT !.plan = p, !.status = "TOOLS"]
        BY <1>1 DEF Planned
    <2>2. [s EXCEPT !.plan = p, !.status = "TOOLS"] \in State
        BY StatusNames DEF State
    <2>3. [s EXCEPT !.plan = p, !.status = "TOOLS"].reserved_calls = s.reserved_calls
        BY DEF State
    <2> QED
        BY <2>1, <2>2, <2>3
<1>2. CASE a \in Drafted(s)
    <2>1. a = [s EXCEPT !.draft = s.reserved_calls, !.status = "REVIEWING"]
        BY <1>2 DEF Drafted
    <2>2. s.reserved_calls \in Int
        BY DEF State
    <2>3. [s EXCEPT !.draft = s.reserved_calls, !.status = "REVIEWING"] \in State
        BY <2>2, StatusNames DEF State
    <2>4. [s EXCEPT !.draft = s.reserved_calls, !.status = "REVIEWING"].reserved_calls
          = s.reserved_calls
        BY DEF State
    <2> QED
        BY <2>1, <2>3, <2>4
<1> QED
    BY <1>1, <1>2, ReviewedType DEF Answered

\* What Finish saves.
LEMMA FinishSaves ==
    ASSUME IInv, NEW r \in Runners, Finish(r)
    PROVE  \E s \in State : /\ Exists(task[r])
                            /\ Save(task[r], s)
                            /\ s.reserved_calls = rows[task[r]].reserved_calls
<1>1. /\ mine[r] \in State
      /\ mine[r].status \in ModelStages
      /\ Exists(task[r])
      /\ rows[task[r]] = mine[r]
    BY DEF IInv, TypeOK, LockHeld, OwnReservation, Finish, InCall, AtWork
<1> QED
    BY <1>1, AnsweredType, FailedType DEF Finish

--------------------------------------------------------------------------------
\* Steps in which a row keeps its reservations and no runner starts anything.
Quiet(t) ==
    /\ Exists(t)
    /\ Writable
    /\ \E s \in State : Save(t, s) /\ s.reserved_calls = rows[t].reserved_calls
    /\ UNCHANGED <<created, runnerVars, sent>>

LEMMA RunToolQuiet ==
    ASSUME TypeOK, NEW r \in Runners, NEW t \in Tasks, RunTool(r, t)
    PROVE  Quiet(t)
<1>1. rows[t] \in State
    BY DEF TypeOK, RunTool, Exists
<1> DEFINE s      == rows[t]
           status == IF s.done + 1 = Len(s.plan) THEN "DRAFTING" ELSE "TOOLS"
           next   == [s EXCEPT !.done = s.done + 1, !.status = status]
<1>2. s.done + 1 \in Nat
    BY <1>1 DEF State
<1>3. status \in Statuses
    BY StatusNames
<1>4. next \in State /\ next.reserved_calls = s.reserved_calls
    <2> HIDE DEF status
    <2> QED
        BY <1>1, <1>2, <1>3 DEF State
<1>5. Save(t, next) \/ Save(t, Failed(s))
    BY DEF RunTool
<1> QED
    BY <1>1, <1>4, <1>5, FailedType DEF RunTool, Quiet

LEMMA BudgetExhaustedQuiet ==
    ASSUME TypeOK, NEW r \in Runners, NEW t \in Tasks, BudgetExhausted(r, t)
    PROVE  Quiet(t)
<1>1. rows[t] \in State
    BY DEF TypeOK, BudgetExhausted, Exists
<1> QED
    BY <1>1, FailedType DEF BudgetExhausted, Quiet

LEMMA DecideQuiet ==
    ASSUME TypeOK, NEW t \in Tasks,
           NEW decision \in {"approve", "modify", "reject"}, Decide(t, decision)
    PROVE  Quiet(t)
<1>1. rows[t] \in State
    BY DEF TypeOK, Decide, Exists
<1> DEFINE status == IF decision = "reject" THEN "REJECTED" ELSE "COMPLETED"
           answer == Publish(rows[t], decision)
           s      == [rows[t] EXCEPT !.status = status, !.answer = answer]
<1>2. status \in Statuses
    BY StatusNames
<1>3. answer \in Int
    BY <1>1 DEF State, Publish, Nothing, Modified
<1>4. s \in State /\ s.reserved_calls = rows[t].reserved_calls
    <2> HIDE DEF status, answer
    <2> QED
        BY <1>1, <1>2, <1>3 DEF State
<1> QED
    BY <1>4 DEF Decide, Quiet

--------------------------------------------------------------------------------
(* Every action keeps the invariant. *)

LEMMA InitIInv == Init => IInv
<1> SUFFICES ASSUME Init PROVE IInv
    OBVIOUS
<1>1. TypeOK
    BY DEF Init, TypeOK, Nothing
<1>2. LockHeld /\ OwnReservation /\ Unsent
    BY AgentAssumption DEF Init, LockHeld, OwnReservation, Unsent, InCall, AtWork
<1>3. Budget
    BY AgentAssumption DEF Init, Budget, Exists
<1> QED
    BY <1>1, <1>2, <1>3 DEF IInv

LEMMA QuietStep ==
    ASSUME IInv, NEW t \in Tasks, Quiet(t),
           decided' \subseteq Tasks, UNCHANGED inspected
    PROVE  IInv'
<1> PICK s \in State : Save(t, s) /\ s.reserved_calls = rows[t].reserved_calls
    BY DEF Quiet
<1>1. Exists(t) /\ Writable /\ UNCHANGED <<created, lock, pc, task, mine, sent>>
    BY DEF Quiet, runnerVars
<1>2. /\ DOMAIN rows' = DOMAIN rows
      /\ rows'[t] = s
      /\ \A u \in DOMAIN rows : u # t => rows'[u] = rows[u]
    BY <1>1, SaveRow
<1>3. \A u \in DOMAIN rows : rows'[u].reserved_calls = rows[u].reserved_calls
    BY <1>2
<1>4. TypeOK'
    BY <1>1, SaveType DEF IInv, TypeOK
<1>5. LockHeld'
    <2>1. \A r \in Runners : ~InCall(r)
        BY <1>1, AgentAssumption DEF IInv, LockHeld, Writable
    <2> QED
        BY <1>1, <2>1 DEF IInv, LockHeld, InCall
<1>6. OwnReservation'
    BY <1>1, <1>2, <1>3 DEF IInv, OwnReservation, AtWork, Exists
<1>7. Unsent'
    BY <1>1, <1>2, <1>3 DEF IInv, Unsent, Exists
<1>8. Budget'
    BY <1>1, <1>2, <1>3 DEF IInv, Budget, Exists
<1> QED
    BY <1>4, <1>5, <1>6, <1>7, <1>8 DEF IInv

LEMMA CreateStep ==
    ASSUME IInv, NEW t \in Tasks, NEW approval \in BOOLEAN, NEW reuse \in BOOLEAN,
           Create(t, approval, reuse)
    PROVE  IInv'
<1> DEFINE new == [status |-> "PLANNING", plan |-> <<>>, done |-> 0,
                   draft |-> Nothing, answer |-> Nothing, reserved_calls |-> 0,
                   revisions |-> 0, require_approval |-> approval, cache |-> reuse]
<1>1. /\ t \notin created
      /\ created' = created \cup {t}
      /\ UNCHANGED <<lock, pc, task, mine, inspected, decided, sent>>
    BY DEF Create, runnerVars
<1>2. /\ DOMAIN rows' = DOMAIN rows \cup {t}
      /\ rows'[t] = new
      /\ \A u \in DOMAIN rows : u # t => rows'[u] = rows[u]
    BY DEF Create
<1>3. t \notin DOMAIN rows /\ \A r \in Runners : AtWork(r) => task[r] # t
    BY <1>1 DEF IInv, TypeOK, AtWork
<1>4. new \in State
    BY AgentAssumption DEF State, Statuses, Nothing
<1>5. new.reserved_calls = 0
    OBVIOUS
<1> HIDE DEF new
<1>6. TypeOK'
    BY <1>1, <1>2, <1>4 DEF IInv, TypeOK
<1>7. LockHeld'
    BY <1>1, <1>2, <1>3 DEF IInv, LockHeld, InCall, AtWork, Exists
<1>8. OwnReservation'
    BY <1>1, <1>2, <1>3 DEF IInv, OwnReservation, AtWork, Exists
<1>9. Unsent'
    BY <1>1, <1>2, <1>3 DEF IInv, Unsent, AtWork, Exists
<1>10. Budget'
    BY <1>1, <1>2, <1>3, <1>5, AgentAssumption DEF IInv, Budget, Exists
<1> QED
    BY <1>6, <1>7, <1>8, <1>9, <1>10 DEF IInv

LEMMA DeleteStep ==
    ASSUME IInv, NEW S, Delete(S)
    PROVE  IInv'
<1>1. UNCHANGED <<created, lock, pc, task, mine, inspected, decided, sent>>
    BY DEF Delete, runnerVars
<1>2. /\ DOMAIN rows' = DOMAIN rows \ S
      /\ \A u \in DOMAIN rows' : rows'[u] = rows[u]
    BY DEF Delete
<1>3. \A r \in Runners : ~InCall(r)
    BY AgentAssumption DEF IInv, LockHeld, Delete, Writable
<1>4. TypeOK'
    BY <1>1, <1>2 DEF IInv, TypeOK
<1>5. LockHeld'
    BY <1>1, <1>3 DEF IInv, LockHeld, InCall
<1>6. OwnReservation' /\ Unsent' /\ Budget'
    BY <1>1, <1>2 DEF IInv, OwnReservation, Unsent, Budget, AtWork, Exists
<1> QED
    BY <1>4, <1>5, <1>6 DEF IInv

LEMMA ReserveStep ==
    ASSUME IInv, NEW r \in Runners, NEW t \in Tasks, Reserve(r, t)
    PROVE  IInv'
<1> DEFINE s == [rows[t] EXCEPT !.reserved_calls = rows[t].reserved_calls + 1]
<1>1. /\ pc[r] = "idle" /\ Exists(t) /\ Writable
      /\ rows[t].status \in ModelStages
      /\ rows[t].reserved_calls < max_calls
      /\ Save(t, s)
      /\ mine' = [mine EXCEPT ![r] = s]
      /\ pc' = [pc EXCEPT ![r] = "reserved"]
      /\ task' = [task EXCEPT ![r] = t]
      /\ UNCHANGED <<created, lock, inspected, decided, sent>>
    BY DEF Reserve
<1>2. rows[t] \in State /\ rows[t].reserved_calls + 1 \in 0..max_calls
    <2>1. rows[t] \in State /\ rows[t].reserved_calls < max_calls
        BY <1>1 DEF IInv, TypeOK, Exists, Reserve
    <2> QED
        BY <2>1, AgentAssumption DEF State
<1>3. s \in State
    BY <1>2 DEF State
<1>4. s.reserved_calls = rows[t].reserved_calls + 1 /\ s.status = rows[t].status
    BY <1>2 DEF State
<1> HIDE DEF s
<1>5. /\ DOMAIN rows' = DOMAIN rows
      /\ rows'[t] = s
      /\ \A u \in DOMAIN rows : u # t => rows'[u] = rows[u]
    BY <1>1, SaveRow
<1>6. /\ pc'[r] = "reserved" /\ task'[r] = t /\ mine'[r] = s
      /\ \A q \in Runners : q # r =>
            pc'[q] = pc[q] /\ task'[q] = task[q] /\ mine'[q] = mine[q]
    BY <1>1 DEF IInv, TypeOK
<1>7. TypeOK'
    <2>1. DOMAIN rows' \subseteq created /\ \A u \in DOMAIN rows' : rows'[u] \in State
        BY <1>1, <1>3, SaveType DEF IInv
    <2>2. t \in created
        BY <1>1 DEF IInv, TypeOK, Exists
    <2>3. \A q \in Runners :
              IF pc'[q] = "idle" THEN task'[q] = NoTask /\ mine'[q] = NoRow
              ELSE task'[q] \in created /\ mine'[q] \in State
        BY <1>3, <1>6, <2>2 DEF IInv, TypeOK
    <2>4. /\ pc' \in [Runners -> {"idle", "reserved", "calling", "sent"}]
          /\ task' \in [Runners -> Tasks \cup {NoTask}]
          /\ mine' \in [Runners -> State \cup {NoRow}]
        BY <1>1, <1>3 DEF IInv, TypeOK
    <2> QED
        BY <1>1, <2>1, <2>3, <2>4 DEF IInv, TypeOK
<1>8. LockHeld'
    <2>1. \A q \in Runners : ~InCall(q) /\ lock # q
        BY <1>1, AgentAssumption DEF IInv, LockHeld, Writable
    <2> QED
        BY <1>1, <1>6, <2>1 DEF LockHeld, InCall
<1>9. \A q \in Runners \ {r} :
          AtWork(q) /\ task[q] = t => mine[q].reserved_calls <= rows[t].reserved_calls
    BY <1>1 DEF IInv, OwnReservation
<1>10. /\ rows[t].reserved_calls \in Nat
       /\ \A q \in Runners : AtWork(q) => mine[q].reserved_calls \in Nat
    BY <1>2 DEF IInv, TypeOK, AtWork, State
<1>11. OwnReservation'
    <2>1. ASSUME NEW q \in Runners, AtWork(q)'
          PROVE  /\ mine'[q].status \in ModelStages
                 /\ Exists(task[q])' => mine'[q].reserved_calls <= rows'[task'[q]].reserved_calls
        <3>1. CASE q = r
            BY <1>1, <1>2, <1>4, <1>5, <1>6, <3>1
        <3>2. CASE q # r
            <4>1. AtWork(q) /\ mine'[q] = mine[q] /\ task'[q] = task[q]
                BY <1>6, <2>1, <3>2 DEF AtWork
            <4>2. CASE task[q] = t
                <5>1. mine[q].reserved_calls <= rows[t].reserved_calls
                    BY <1>9, <3>2, <4>1, <4>2
                <5>2. mine[q].status \in ModelStages
                    BY <4>1 DEF IInv, OwnReservation
                <5> QED
                    BY <1>4, <1>5, <1>10, <4>1, <4>2, <5>1, <5>2
            <4>3. CASE task[q] # t
                BY <1>5, <4>1, <4>3 DEF IInv, OwnReservation, Exists
            <4> QED
                BY <4>2, <4>3
        <3> QED
            BY <3>1, <3>2
    <2>2. ASSUME NEW p \in Runners, NEW q \in Runners, p # q, AtWork(p)', AtWork(q)',
                 task'[p] = task'[q], Exists(task[p])'
          PROVE  mine'[p].reserved_calls # mine'[q].reserved_calls
        <3>1. CASE p # r /\ q # r
            BY <1>5, <1>6, <2>2, <3>1 DEF IInv, OwnReservation, AtWork, Exists
        <3>2. CASE p = r
            <4>1. AtWork(q) /\ mine'[q] = mine[q] /\ task[q] = t
                BY <1>6, <2>2, <3>2 DEF AtWork
            <4> QED
                <5>1. mine[q].reserved_calls <= rows[t].reserved_calls
                    BY <1>9, <2>2, <3>2, <4>1
                <5> QED
                    BY <1>4, <1>6, <1>10, <2>2, <3>2, <4>1, <5>1
        <3>3. CASE q = r
            <4>1. AtWork(p) /\ mine'[p] = mine[p] /\ task[p] = t
                BY <1>6, <2>2, <3>3 DEF AtWork
            <4> QED
                <5>1. mine[p].reserved_calls <= rows[t].reserved_calls
                    BY <1>9, <2>2, <3>3, <4>1
                <5> QED
                    BY <1>4, <1>6, <1>10, <2>2, <3>3, <4>1, <5>1
        <3> QED
            BY <3>1, <3>2, <3>3
    <2> QED
        BY <2>1, <2>2 DEF OwnReservation
<1>12. sent[t] <= rows[t].reserved_calls /\ sent[t] \in Nat /\ rows[t].reserved_calls \in Nat
    BY <1>1, <1>2 DEF IInv, TypeOK, Budget, State
<1>13. Unsent'
    <2> SUFFICES ASSUME NEW q \in Runners,
                        pc'[q] \in {"reserved", "calling"},
                        Exists(task[q])',
                        mine'[q].reserved_calls = rows'[task'[q]].reserved_calls
                 PROVE  sent'[task'[q]] < rows'[task'[q]].reserved_calls
        BY DEF Unsent
    <2>1. CASE task'[q] = t
        BY <1>1, <1>4, <1>5, <1>12, <2>1
    <2>2. CASE task'[q] # t
        BY <1>1, <1>5, <1>6, <2>2 DEF IInv, Unsent, Exists
    <2> QED
        BY <2>1, <2>2
<1>14. Budget'
    <2>1. rows'[t].reserved_calls <= max_calls
        BY <1>1, <1>4, <1>5, <1>12, AgentAssumption
    <2> QED
        BY <1>1, <1>4, <1>5, <1>12, <2>1 DEF IInv, Budget, Exists
<1> QED
    BY <1>7, <1>8, <1>11, <1>13, <1>14 DEF IInv

LEMMA EnterStep ==
    ASSUME IInv, NEW r \in Runners, Enter(r)
    PROVE  IInv'
<1>1. /\ pc[r] = "reserved" /\ Writable /\ Exists(task[r])
      /\ rows[task[r]] = mine[r]
      /\ lock' = r
      /\ pc' = [pc EXCEPT ![r] = "calling"]
      /\ UNCHANGED <<rows, created, task, mine, inspected, decided, sent>>
    BY DEF Enter
<1>2. /\ pc'[r] = "calling"
      /\ \A q \in Runners : q # r => pc'[q] = pc[q]
    BY <1>1 DEF IInv, TypeOK
<1>3. TypeOK'
    BY <1>1, <1>2 DEF IInv, TypeOK
<1>4. \A q \in Runners : ~InCall(q)
    BY <1>1, AgentAssumption DEF IInv, LockHeld, Writable
<1>5. LockHeld'
    BY <1>1, <1>2, <1>4 DEF LockHeld, InCall, Exists
<1>6. \A q \in Runners : AtWork(q)' => AtWork(q)
    BY <1>1, <1>2 DEF AtWork
<1>7. OwnReservation'
    BY <1>1, <1>6 DEF IInv, OwnReservation, Exists
<1>8. Unsent' /\ Budget'
    BY <1>1, <1>2 DEF IInv, Unsent, Budget, Exists
<1> QED
    BY <1>3, <1>5, <1>7, <1>8 DEF IInv

\* Leaving advance() with no row changed, as after a crash.
LEMMA LeaveStep ==
    ASSUME IInv, NEW r \in Runners, pc[r] # "idle", Leave(r),
           UNCHANGED <<rows, created, inspected, decided, sent>>
    PROVE  IInv'
<1>1. /\ pc' = [pc EXCEPT ![r] = "idle"]
      /\ task' = [task EXCEPT ![r] = NoTask]
      /\ mine' = [mine EXCEPT ![r] = NoRow]
      /\ lock' = IF lock = r THEN NoOne ELSE lock
    BY DEF Leave
<1>2. /\ pc'[r] = "idle" /\ task'[r] = NoTask /\ mine'[r] = NoRow
      /\ \A q \in Runners : q # r =>
            pc'[q] = pc[q] /\ task'[q] = task[q] /\ mine'[q] = mine[q]
    BY <1>1 DEF IInv, TypeOK
<1>3. TypeOK'
    BY <1>1, <1>2 DEF IInv, TypeOK
<1>4. LockHeld'
    BY <1>1, <1>2, AgentAssumption DEF IInv, LockHeld, InCall, Exists
<1>5. \A q \in Runners : AtWork(q)' => q # r /\ AtWork(q)
    BY <1>2 DEF AtWork
<1>6. OwnReservation'
    BY <1>2, <1>5 DEF IInv, OwnReservation, Exists
<1>7. Unsent' /\ Budget'
    BY <1>2 DEF IInv, Unsent, Budget, Exists
<1> QED
    BY <1>3, <1>4, <1>6, <1>7 DEF IInv

LEMMA SendStep ==
    ASSUME IInv, NEW r \in Runners, Send(r)
    PROVE  IInv'
<1> DEFINE t == task[r]
<1>1. /\ pc[r] = "calling"
      /\ pc' = [pc EXCEPT ![r] = "sent"]
      /\ sent' = [sent EXCEPT ![t] = sent[t] + 1]
      /\ UNCHANGED <<rows, created, lock, task, mine, inspected, decided>>
    BY DEF Send
<1>2. /\ pc'[r] = "sent"
      /\ \A q \in Runners : q # r => pc'[q] = pc[q]
    BY <1>1 DEF IInv, TypeOK
<1>3. t \in Tasks /\ t \in created /\ Exists(t) /\ rows[t] = mine[r]
    BY <1>1 DEF IInv, TypeOK, LockHeld, InCall
<1>4. /\ sent'[t] = sent[t] + 1
      /\ \A u \in Tasks : u # t => sent'[u] = sent[u]
      /\ sent' \in [Tasks -> Nat]
    BY <1>1, <1>3 DEF IInv, TypeOK
<1>5. TypeOK'
    BY <1>1, <1>2, <1>4 DEF IInv, TypeOK
<1>6. LockHeld'
    BY <1>1, <1>2 DEF IInv, LockHeld, InCall, Exists
<1>7. OwnReservation'
    BY <1>1, <1>2 DEF IInv, OwnReservation, AtWork, Exists
<1>8. /\ sent[t] < rows[t].reserved_calls
      /\ rows[t].reserved_calls <= max_calls
      /\ sent[t] \in Nat /\ rows[t].reserved_calls \in Nat
    <2>1. rows[t].reserved_calls \in Nat
        BY <1>3, AgentAssumption DEF IInv, TypeOK, State, Exists
    <2> QED
        BY <1>1, <1>3, <2>1 DEF IInv, TypeOK, Unsent, Budget, Exists
<1>9. Unsent'
    <2> SUFFICES ASSUME NEW q \in Runners,
                        pc'[q] \in {"reserved", "calling"},
                        Exists(task[q]),
                        mine[q].reserved_calls = rows[task[q]].reserved_calls
                 PROVE  sent'[task[q]] < rows[task[q]].reserved_calls
        BY <1>1 DEF Unsent, Exists
    <2>1. q # r /\ pc[q] = pc'[q] /\ task[q] \in Tasks
        BY <1>2 DEF IInv, TypeOK, Exists
    <2>2. task[q] # t
        BY <1>1, <1>3, <2>1 DEF IInv, OwnReservation, AtWork
    <2> QED
        BY <1>4, <2>1, <2>2 DEF IInv, Unsent
<1>10. Budget'
    BY <1>1, <1>3, <1>4, <1>8, AgentAssumption DEF IInv, Budget, Exists
<1> QED
    BY <1>5, <1>6, <1>7, <1>9, <1>10 DEF IInv

LEMMA FinishStep ==
    ASSUME IInv, NEW r \in Runners, Finish(r)
    PROVE  IInv'
<1> DEFINE t == task[r]
<1>1. PICK s \in State : /\ Exists(t)
                         /\ Save(t, s)
                         /\ s.reserved_calls = rows[t].reserved_calls
    BY FinishSaves
<1>2. /\ pc[r] \in {"calling", "sent"}
      /\ Leave(r)
      /\ UNCHANGED <<created, inspected, decided, sent>>
    BY DEF Finish
<1>3. /\ DOMAIN rows' = DOMAIN rows
      /\ \A u \in DOMAIN rows : rows'[u].reserved_calls = rows[u].reserved_calls
    BY <1>1, SaveRow
<1>4. lock = r /\ \A q \in Runners : q # r => ~InCall(q)
    BY <1>2 DEF IInv, LockHeld, InCall
<1>5. /\ lock' = NoOne
      /\ pc'[r] = "idle" /\ task'[r] = NoTask /\ mine'[r] = NoRow
      /\ \A q \in Runners : q # r =>
            pc'[q] = pc[q] /\ task'[q] = task[q] /\ mine'[q] = mine[q]
    BY <1>2, <1>4 DEF IInv, TypeOK, Leave
<1>6. TypeOK'
    <2>1. DOMAIN rows' \subseteq created /\ \A u \in DOMAIN rows' : rows'[u] \in State
        BY <1>1, SaveType DEF IInv
    <2>2. /\ pc' \in [Runners -> {"idle", "reserved", "calling", "sent"}]
          /\ task' \in [Runners -> Tasks \cup {NoTask}]
          /\ mine' \in [Runners -> State \cup {NoRow}]
        BY <1>2 DEF IInv, TypeOK, Leave
    <2> QED
        BY <1>2, <1>5, <2>1, <2>2 DEF IInv, TypeOK
<1>7. LockHeld'
    BY <1>4, <1>5, AgentAssumption DEF LockHeld, InCall
<1>8. \A q \in Runners : AtWork(q)' => q # r /\ AtWork(q)
    BY <1>5 DEF AtWork
<1>9. OwnReservation'
    BY <1>3, <1>5, <1>8 DEF IInv, OwnReservation, Exists
<1>10. Unsent' /\ Budget'
    BY <1>2, <1>3, <1>5 DEF IInv, Unsent, Budget, Exists
<1> QED
    BY <1>6, <1>7, <1>9, <1>10 DEF IInv

LEMMA InspectStep ==
    ASSUME IInv, NEW p \in People, NEW t \in Tasks, Inspect(p, t)
    PROVE  IInv'
<1>1. UNCHANGED <<rows, created, lock, pc, task, mine, decided, sent>>
    BY DEF Inspect, runnerVars
<1>2. rows[t].draft \in Int
    BY DEF IInv, TypeOK, Inspect, Exists, State
<1>3. inspected' \in [People -> [Tasks -> Int]]
    BY <1>2 DEF IInv, TypeOK, Inspect
<1> QED
    BY <1>1, <1>3 DEF IInv, TypeOK, LockHeld, OwnReservation, Unsent, Budget,
                      InCall, AtWork, Exists

LEMMA NextIInv == IInv /\ [Next]_vars => IInv'
<1> SUFFICES ASSUME IInv, [Next]_vars PROVE IInv'
    OBVIOUS
<1>1. ASSUME NEW r \in Runners, NEW t \in Tasks, Advance(r, t) PROVE IInv'
    <2>1. CASE RunTool(r, t) \/ BudgetExhausted(r, t)
        <3>1. Quiet(t)
            BY <2>1, RunToolQuiet, BudgetExhaustedQuiet DEF IInv
        <3>2. UNCHANGED <<inspected, decided>>
            BY <2>1 DEF RunTool, BudgetExhausted
        <3>3. decided' \subseteq Tasks
            BY <3>2 DEF IInv, TypeOK
        <3> QED
            BY <3>1, <3>2, <3>3, QuietStep
    <2>2. CASE GiveUp(r)
        BY <2>2, LeaveStep DEF GiveUp
    <2> QED
        BY <1>1, <2>1, <2>2, ReserveStep, EnterStep, SendStep, FinishStep DEF Advance
<1>2. ASSUME NEW r \in Runners, Crash(r) PROVE IInv'
    BY <1>2, LeaveStep DEF Crash
<1>3. ASSUME NEW t \in Tasks, NEW decision \in {"approve", "modify", "reject"},
             Decide(t, decision)
      PROVE  IInv'
    <2>1. Quiet(t)
        BY <1>3, DecideQuiet DEF IInv
    <2>2. decided' \subseteq Tasks /\ UNCHANGED inspected
        BY <1>3 DEF Decide, IInv, TypeOK
    <2> QED
        BY <2>1, <2>2, QuietStep
<1>4. CASE UNCHANGED vars
    BY <1>4 DEF vars, IInv, TypeOK, LockHeld, OwnReservation, Unsent, Budget,
                InCall, AtWork, Exists
<1> QED
    BY <1>1, <1>2, <1>3, <1>4, CreateStep, DeleteStep, InspectStep DEF Next

THEOREM Invariant == Spec => []IInv
    BY InitIInv, NextIInv, PTL DEF Spec

\* The variables of the agent keep their types.
THEOREM TypeCorrect == Spec => []TypeOK
<1>1. IInv => TypeOK
    BY DEF IInv
<1> QED
    BY <1>1, Invariant, PTL

\* However many runners race for a task, and whenever they crash, the model
\* calls sent for it are covered by reservations its row has kept, and by
\* max_calls: a runner calls only if the last reservation is its own.
THEOREM CallsAreReserved == Spec => []CallsReserved
<1>1. IInv => CallsReserved
    BY DEF IInv, Budget, CallsReserved
<1> QED
    BY <1>1, Invariant, PTL

--------------------------------------------------------------------------------
(* What becomes of a row.  A status says how far the plan is carried out,  *)
(* an answered stage follows from the one before, and a row whose status   *)
(* is final, or that awaits a person, is out of the runners' reach.        *)

Shape(s) ==
    /\ s.draft <= s.reserved_calls
    /\ s.status = "PLANNING" => s.plan = <<>> /\ s.done = 0
    /\ s.status = "TOOLS" => s.done < Len(s.plan)
    /\ s.status \in {"DRAFTING", "REVIEWING", "AWAITING_APPROVAL", "COMPLETED"} =>
          s.done = Len(s.plan)

\* A person decides about a task for good.
DecidedEnds ==
    \A t \in decided : t \in created /\ (Exists(t) => rows[t].status = "COMPLETED")

\* Nobody has seen a task that is not there yet.
SeenCreated ==
    \A p \in People, t \in Tasks : t \notin created => inspected[p][t] = Nothing

RowsInv ==
    /\ \A t \in DOMAIN rows : Shape(rows[t])
    /\ PublishedByRight
    /\ DecidedEnds
    /\ DecidedAsSeen
    /\ SeenCreated

\* The state n keeps the work of the state s.
Keeps(s, n) ==
    /\ s.plan # <<>> => n.plan = s.plan
    /\ n.done >= s.done
    /\ n.draft >= s.draft
    /\ n.revisions >= s.revisions
    /\ n.reserved_calls >= s.reserved_calls

\* The state n is what a runner may make of the state s.
Follows(s, n) ==
    /\ s.status \in ModelStages \cup {"TOOLS"}
    /\ Shape(n)
    /\ Keeps(s, n)
    /\ n.status = "COMPLETED" => ~n.require_approval /\ Supported(n) /\ n.answer = n.draft

LEMMA StateFields ==
    ASSUME NEW s \in State
    PROVE  /\ s.done \in Nat /\ s.draft \in Int /\ s.answer \in Int
           /\ s.reserved_calls \in Nat /\ s.revisions \in Nat
           /\ Len(s.plan) \in Nat
           /\ s.status \in Statuses
<1>1. s.plan \in Plans \cup {<<>>}
    BY DEF State
<1>2. \A p \in Plans : Len(p) \in Nat
    BY AgentAssumption
<1>3. Len(s.plan) \in Nat
    BY <1>1, <1>2
<1> QED
    BY <1>3 DEF State

LEMMA FailedFollows ==
    ASSUME NEW s \in State, Shape(s), s.status \in ModelStages \cup {"TOOLS"}
    PROVE  Follows(s, Failed(s))
<1> DEFINE n == [s EXCEPT !.status = "FAILED"]
<1>1. /\ n.status = "FAILED" /\ n.plan = s.plan /\ n.done = s.done /\ n.draft = s.draft
      /\ n.revisions = s.revisions /\ n.reserved_calls = s.reserved_calls
    BY DEF State
<1> HIDE DEF n
<1>2. Shape(n) /\ Keeps(s, n)
    BY <1>1, StateFields DEF Shape, Keeps
<1>3. Follows(s, n)
    BY <1>1, <1>2 DEF Follows
<1> QED
    BY <1>3 DEF Failed, n

LEMMA RunToolFollows ==
    ASSUME NEW s \in State, Shape(s), s.status = "TOOLS", NEW status,
           status = IF s.done + 1 = Len(s.plan) THEN "DRAFTING" ELSE "TOOLS"
    PROVE  Follows(s, [s EXCEPT !.done = s.done + 1, !.status = status])
<1> DEFINE n == [s EXCEPT !.done = s.done + 1, !.status = status]
<1>1. /\ n.status = status /\ n.plan = s.plan /\ n.done = s.done + 1 /\ n.draft = s.draft
      /\ n.revisions = s.revisions /\ n.reserved_calls = s.reserved_calls
    BY DEF State
<1> HIDE DEF n
<1>2. status \in {"DRAFTING", "TOOLS"} /\ (status = "TOOLS" => s.done + 1 # Len(s.plan))
      /\ (status = "DRAFTING" => s.done + 1 = Len(s.plan))
    OBVIOUS
<1>3. s.done < Len(s.plan)
    BY DEF Shape
<1>4. Shape(n) /\ Keeps(s, n)
    BY <1>1, <1>2, <1>3, StateFields DEF Shape, Keeps
<1>5. Follows(s, n)
    BY <1>1, <1>2, <1>4 DEF Follows
<1> QED
    BY <1>5 DEF n

LEMMA ReserveFollows ==
    ASSUME NEW s \in State, Shape(s), s.status \in ModelStages
    PROVE  Follows(s, [s EXCEPT !.reserved_calls = s.reserved_calls + 1])
<1> DEFINE n == [s EXCEPT !.reserved_calls = s.reserved_calls + 1]
<1>1. /\ n.status = s.status /\ n.plan = s.plan /\ n.done = s.done /\ n.draft = s.draft
      /\ n.revisions = s.revisions /\ n.reserved_calls = s.reserved_calls + 1
    BY DEF State
<1> HIDE DEF n
<1>2. Shape(n) /\ Keeps(s, n)
    BY <1>1, StateFields DEF Shape, Keeps
<1>3. Follows(s, n)
    BY <1>1, <1>2 DEF Follows, ModelStages
<1> QED
    BY <1>3 DEF n

LEMMA PlannedFollows ==
    ASSUME NEW s \in State, Shape(s), s.status = "PLANNING", NEW n \in Planned(s)
    PROVE  Follows(s, n)
<1>1. PICK p \in Plans : n = [s EXCEPT !.plan = p, !.status = "TOOLS"]
    BY DEF Planned
<1>2. /\ n.status = "TOOLS" /\ n.plan = p /\ n.done = s.done /\ n.draft = s.draft
      /\ n.revisions = s.revisions /\ n.reserved_calls = s.reserved_calls
    BY <1>1 DEF State
<1>3. s.plan = <<>> /\ s.done = 0
    BY DEF Shape
<1>4. Len(p) \in Nat /\ Len(p) # 0
    BY AgentAssumption
<1>5. Shape(n) /\ Keeps(s, n)
    BY <1>2, <1>3, <1>4, StateFields DEF Shape, Keeps
<1> QED
    BY <1>2, <1>5 DEF Follows, ModelStages

LEMMA DraftedFollows ==
    ASSUME NEW s \in State, Shape(s), s.status = "DRAFTING", NEW n \in Drafted(s)
    PROVE  Follows(s, n)
<1>1. n = [s EXCEPT !.draft = s.reserved_calls, !.status = "REVIEWING"]
    BY DEF Drafted
<1>2. /\ n.status = "REVIEWING" /\ n.plan = s.plan /\ n.done = s.done
      /\ n.draft = s.reserved_calls
      /\ n.revisions = s.revisions /\ n.reserved_calls = s.reserved_calls
    BY <1>1 DEF State
<1>3. Shape(n) /\ Keeps(s, n)
    BY <1>2, StateFields DEF Shape, Keeps
<1> QED
    BY <1>2, <1>3 DEF Follows, ModelStages

LEMMA ReviewedFollows ==
    ASSUME NEW s \in State, Shape(s), s.status = "REVIEWING", NEW n \in Reviewed(s)
    PROVE  Follows(s, n)
<1> DEFINE revise   == [s EXCEPT !.status = "DRAFTING", !.revisions = s.revisions + 1]
           await    == [s EXCEPT !.status = "AWAITING_APPROVAL"]
           complete == [s EXCEPT !.status = "COMPLETED", !.answer = s.draft]
<1>1. \/ n = revise \/ n = await
      \/ n = complete /\ Supported(s) /\ ~s.require_approval
    BY DEF Reviewed
<1>2. /\ revise.status = "DRAFTING" /\ revise.plan = s.plan /\ revise.done = s.done
      /\ revise.draft = s.draft /\ revise.revisions = s.revisions + 1
      /\ revise.reserved_calls = s.reserved_calls
    BY DEF State
<1>3. /\ await.status = "AWAITING_APPROVAL" /\ await.plan = s.plan /\ await.done = s.done
      /\ await.draft = s.draft /\ await.revisions = s.revisions
      /\ await.reserved_calls = s.reserved_calls
    BY DEF State
<1>4. /\ complete.status = "COMPLETED" /\ complete.plan = s.plan /\ complete.done = s.done
      /\ complete.draft = s.draft /\ complete.revisions = s.revisions
      /\ complete.reserved_calls = s.reserved_calls /\ complete.answer = s.draft
    BY DEF State
<1>5. complete.require_approval = s.require_approval
    BY DEF State
<1> HIDE DEF revise, await, complete
<1>6. s.done = Len(s.plan) /\ s.draft <= s.reserved_calls
    BY DEF Shape
<1>7. CASE n = revise
    <2>1. Shape(n) /\ Keeps(s, n)
        BY <1>2, <1>6, <1>7, StateFields DEF Shape, Keeps
    <2> QED
        BY <1>2, <1>7, <2>1 DEF Follows, ModelStages
<1>8. CASE n = await
    <2>1. Shape(n) /\ Keeps(s, n)
        BY <1>3, <1>6, <1>8, StateFields DEF Shape, Keeps
    <2> QED
        BY <1>3, <1>8, <2>1 DEF Follows, ModelStages
<1>9. CASE n = complete /\ Supported(s) /\ ~s.require_approval
    <2>1. Shape(n) /\ Keeps(s, n)
        BY <1>4, <1>6, <1>9, StateFields DEF Shape, Keeps
    <2>2. Supported(n)
        BY <1>4, <1>9 DEF Supported
    <2> QED
        BY <1>4, <1>5, <1>9, <2>1, <2>2 DEF Follows, ModelStages
<1> QED
    BY <1>1, <1>7, <1>8, <1>9

LEMMA AnsweredFollows ==
    ASSUME NEW s \in State, Shape(s), s.status \in ModelStages, NEW n \in Answered(s)
    PROVE  Follows(s, n)
<1>1. s.status \in {"PLANNING", "DRAFTING", "REVIEWING"}
    BY DEF ModelStages
<1> QED
    BY <1>1, PlannedFollows, DraftedFollows, ReviewedFollows DEF Answered

--------------------------------------------------------------------------------
\* A runner takes a task one step on, and nobody decides or looks.
Advanced(t) ==
    /\ Exists(t)
    /\ \E n : Save(t, n) /\ Follows(rows[t], n)
    /\ UNCHANGED <<created, inspected, decided>>

LEMMA AdvanceAdvances ==
    ASSUME IInv, RowsInv, NEW r \in Runners, NEW t \in Tasks, Advance(r, t)
    PROVE  Advanced(t) \/ UNCHANGED <<rows, created, inspected, decided>>
<1>1. Exists(t) => rows[t] \in State /\ Shape(rows[t])
    BY DEF IInv, TypeOK, RowsInv, Exists
<1>2. CASE RunTool(r, t)
    <2> DEFINE s == rows[t]
               status == IF s.done + 1 = Len(s.plan) THEN "DRAFTING" ELSE "TOOLS"
    <2>1. Exists(t) /\ s.status = "TOOLS" /\ UNCHANGED <<created, inspected, decided>>
        BY <1>2 DEF RunTool
    <2>2. \/ Save(t, [s EXCEPT !.done = s.done + 1, !.status = status])
          \/ Save(t, Failed(s))
        BY <1>2 DEF RunTool
    <2>3. s \in State /\ Shape(s)
        BY <1>1, <2>1
    <2>4. Follows(s, [s EXCEPT !.done = s.done + 1, !.status = status])
        BY <2>1, <2>3, RunToolFollows
    <2>5. Follows(s, Failed(s))
        BY <2>1, <2>3, FailedFollows
    <2> QED
        BY <2>1, <2>2, <2>4, <2>5 DEF Advanced
<1>3. CASE BudgetExhausted(r, t)
    <2>1. /\ Exists(t) /\ rows[t].status \in ModelStages
          /\ Save(t, Failed(rows[t])) /\ UNCHANGED <<created, inspected, decided>>
        BY <1>3 DEF BudgetExhausted
    <2>2. Follows(rows[t], Failed(rows[t]))
        BY <1>1, <2>1, FailedFollows
    <2> QED
        BY <2>1, <2>2 DEF Advanced
<1>4. CASE Reserve(r, t)
    <2> DEFINE n == [rows[t] EXCEPT !.reserved_calls = rows[t].reserved_calls + 1]
    <2>1. /\ Exists(t) /\ rows[t].status \in ModelStages
          /\ Save(t, n) /\ UNCHANGED <<created, inspected, decided>>
        BY <1>4 DEF Reserve
    <2>2. Follows(rows[t], n)
        BY <1>1, <2>1, ReserveFollows
    <2> QED
        BY <2>1, <2>2 DEF Advanced
<1>5. CASE task[r] = t /\ Finish(r)
    <2>1. /\ Exists(t) /\ mine[r] = rows[t] /\ rows[t].status \in ModelStages
        BY <1>5 DEF Finish, IInv, LockHeld, OwnReservation, InCall, AtWork
    <2>2. /\ \/ \E n \in Answered(rows[t]) : Save(t, n)
             \/ Save(t, Failed(rows[t]))
          /\ UNCHANGED <<created, inspected, decided>>
        BY <1>5, <2>1 DEF Finish
    <2>3. Follows(rows[t], Failed(rows[t]))
        BY <1>1, <2>1, FailedFollows
    <2>4. \A n \in Answered(rows[t]) : Follows(rows[t], n)
        BY <1>1, <2>1, AnsweredFollows
    <2> QED
        BY <2>1, <2>2, <2>3, <2>4 DEF Advanced
<1>6. CASE Enter(r) \/ GiveUp(r) \/ Send(r)
    BY <1>6 DEF Enter, GiveUp, Send
<1> QED
    BY <1>2, <1>3, <1>4, <1>5, <1>6 DEF Advance

\* The rows keep their shape, and the decisions their grounds, when a task
\* advances: it is one that nobody awaits a decision on.
LEMMA AdvancedStep ==
    ASSUME IInv, RowsInv, NEW t \in Tasks, Advanced(t)
    PROVE  RowsInv'
<1>1. PICK n : Save(t, n) /\ Follows(rows[t], n)
    BY DEF Advanced
<1>2. Exists(t) /\ UNCHANGED <<created, inspected, decided>>
    BY DEF Advanced
<1>3. /\ DOMAIN rows' = DOMAIN rows
      /\ rows'[t] = n
      /\ \A u \in DOMAIN rows : u # t => rows'[u] = rows[u]
    BY <1>1, <1>2, SaveRow
<1>4. t \notin decided
    BY <1>1, <1>2 DEF Follows, RowsInv, DecidedEnds, ModelStages
<1>5. \A u \in DOMAIN rows' : Shape(rows'[u])
    BY <1>1, <1>3 DEF RowsInv, Follows
<1>6. PublishedByRight'
    <2> SUFFICES ASSUME NEW u \in DOMAIN rows', rows'[u].status = "COMPLETED"
                 PROVE  /\ u \notin decided => ~rows'[u].require_approval /\ Supported(rows'[u])
                        /\ rows'[u].answer \in
                              (IF u \in decided THEN {Modified} ELSE {}) \cup {rows'[u].draft}
                        /\ rows'[u].done = Len(rows'[u].plan)
        BY <1>2 DEF PublishedByRight
    <2>1. CASE u = t
        BY <1>1, <1>3, <1>4, <2>1 DEF Follows, Shape
    <2>2. CASE u # t
        BY <1>3, <2>2 DEF RowsInv, PublishedByRight
    <2> QED
        BY <2>1, <2>2
<1>7. DecidedEnds'
    BY <1>2, <1>3, <1>4 DEF RowsInv, DecidedEnds, Exists
<1>8. DecidedAsSeen'
    <2>1. \A p \in People : inspected[p][t] = Nothing
        BY <1>1, <1>2 DEF Follows, RowsInv, DecidedAsSeen, ModelStages, Exists
    <2> QED
        BY <1>2, <1>3, <2>1 DEF RowsInv, DecidedAsSeen
<1>9. SeenCreated'
    BY <1>2 DEF RowsInv, SeenCreated
<1> QED
    BY <1>5, <1>6, <1>7, <1>8, <1>9 DEF RowsInv

LEMMA DecideRows ==
    ASSUME IInv, RowsInv, NEW t \in Tasks,
           NEW decision \in {"approve", "modify", "reject"}, Decide(t, decision)
    PROVE  /\ RowsInv'
           /\ Exists(t) /\ rows[t].status = "AWAITING_APPROVAL"
           /\ \E n : Save(t, n) /\ Keeps(rows[t], n)
<1> DEFINE s      == rows[t]
           status == IF decision = "reject" THEN "REJECTED" ELSE "COMPLETED"
           answer == Publish(s, decision)
           n      == [s EXCEPT !.status = status, !.answer = answer]
<1>1. /\ Exists(t) /\ s.status = "AWAITING_APPROVAL" /\ Save(t, n)
      /\ decided' = IF decision = "reject" THEN decided ELSE decided \cup {t}
      /\ UNCHANGED <<created, inspected>>
    BY DEF Decide
<1>2. s \in State /\ Shape(s)
    BY <1>1 DEF IInv, TypeOK, RowsInv, Exists
<1>3. /\ n.status = status /\ n.answer = answer /\ n.plan = s.plan /\ n.done = s.done
      /\ n.draft = s.draft /\ n.revisions = s.revisions
      /\ n.reserved_calls = s.reserved_calls
    BY <1>2 DEF State
<1>4. decision # "reject" => answer \in {Modified, s.draft}
    BY DEF Publish
<1>5. t \in created /\ t \notin decided
    BY <1>1 DEF IInv, TypeOK, RowsInv, DecidedEnds, Exists
<1>6. /\ status \in {"REJECTED", "COMPLETED"}
      /\ status = "COMPLETED" <=> decision # "reject"
    OBVIOUS
<1> HIDE DEF status, answer, n
<1>7. s.done = Len(s.plan) /\ s.draft <= s.reserved_calls
    BY <1>1, <1>2 DEF Shape
<1>8. Shape(n) /\ Keeps(s, n)
    BY <1>2, <1>3, <1>6, <1>7, StateFields DEF Shape, Keeps
<1>9. /\ DOMAIN rows' = DOMAIN rows
      /\ rows'[t] = n
      /\ \A u \in DOMAIN rows : u # t => rows'[u] = rows[u]
    BY <1>1, SaveRow
<1>10. PublishedByRight'
    <2> SUFFICES ASSUME NEW u \in DOMAIN rows', rows'[u].status = "COMPLETED"
                 PROVE  /\ u \notin decided' => ~rows'[u].require_approval /\ Supported(rows'[u])
                        /\ rows'[u].answer \in
                              (IF u \in decided' THEN {Modified} ELSE {}) \cup {rows'[u].draft}
                        /\ rows'[u].done = Len(rows'[u].plan)
        BY DEF PublishedByRight
    <2>1. CASE u = t
        <3>1. decision # "reject"
            BY <1>3, <1>6, <1>9, <2>1
        <3>2. t \in decided' /\ answer \in {Modified, s.draft}
            BY <1>1, <1>4, <3>1
        <3> QED
            BY <1>3, <1>7, <1>9, <2>1, <3>2
    <2>2. CASE u # t
        <3>1. u \in decided' <=> u \in decided
            BY <1>1, <2>2
        <3> QED
            BY <1>9, <2>2, <3>1 DEF RowsInv, PublishedByRight
    <2> QED
        BY <2>1, <2>2
<1>11. DecidedEnds'
    <2> SUFFICES ASSUME NEW u \in decided'
                 PROVE  u \in created' /\ (Exists(u)' => rows'[u].status = "COMPLETED")
        BY DEF DecidedEnds
    <2>1. CASE u = t
        <3>1. decision # "reject"
            BY <1>1, <1>5, <2>1
        <3> QED
            BY <1>1, <1>3, <1>5, <1>6, <1>9, <2>1, <3>1
    <2>2. CASE u # t
        BY <1>1, <1>9, <2>2 DEF RowsInv, DecidedEnds, Exists
    <2> QED
        BY <2>1, <2>2
<1>12. DecidedAsSeen'
    <2> SUFFICES ASSUME NEW p \in People, NEW u \in DOMAIN rows', inspected[p][u] # Nothing
                 PROVE  /\ rows'[u].status \in {"AWAITING_APPROVAL", "COMPLETED", "REJECTED"}
                        /\ rows'[u].draft = inspected[p][u]
        BY <1>1 DEF DecidedAsSeen
    <2>1. CASE u = t
        BY <1>3, <1>6, <1>9, <2>1 DEF RowsInv, DecidedAsSeen
    <2>2. CASE u # t
        BY <1>9, <2>2 DEF RowsInv, DecidedAsSeen
    <2> QED
        BY <2>1, <2>2
<1>13. SeenCreated'
    BY <1>1 DEF RowsInv, SeenCreated
<1>14. \A u \in DOMAIN rows' : Shape(rows'[u])
    BY <1>8, <1>9 DEF RowsInv
<1>15. RowsInv'
    BY <1>10, <1>11, <1>12, <1>13, <1>14 DEF RowsInv
<1> QED
    BY <1>1, <1>8, <1>15

LEMMA InitRows == Init => RowsInv
    BY DEF Init, RowsInv, PublishedByRight, DecidedEnds, DecidedAsSeen, SeenCreated

LEMMA CreateRows ==
    ASSUME IInv, RowsInv, NEW t \in Tasks, NEW approval \in BOOLEAN, NEW reuse \in BOOLEAN,
           Create(t, approval, reuse)
    PROVE  /\ RowsInv'
           /\ ~Exists(t) /\ \A u \in DOMAIN rows : rows'[u] = rows[u]
<1> DEFINE new == [status |-> "PLANNING", plan |-> <<>>, done |-> 0,
                   draft |-> Nothing, answer |-> Nothing, reserved_calls |-> 0,
                   revisions |-> 0, require_approval |-> approval, cache |-> reuse]
<1>1. /\ t \notin created
      /\ created' = created \cup {t}
      /\ UNCHANGED <<inspected, decided>>
    BY DEF Create
<1>2. /\ DOMAIN rows' = DOMAIN rows \cup {t}
      /\ rows'[t] = new
      /\ \A u \in DOMAIN rows : u # t => rows'[u] = rows[u]
    BY DEF Create
<1>3. t \notin DOMAIN rows /\ t \notin decided
    BY <1>1 DEF IInv, TypeOK, RowsInv, DecidedEnds
<1>4. new.status = "PLANNING" /\ Shape(new)
    BY DEF Shape, Nothing
<1> HIDE DEF new
<1>5. \A u \in DOMAIN rows' : Shape(rows'[u])
    BY <1>2, <1>4 DEF RowsInv
<1>6. PublishedByRight'
    <2> SUFFICES ASSUME NEW u \in DOMAIN rows', rows'[u].status = "COMPLETED"
                 PROVE  /\ u \notin decided => ~rows'[u].require_approval /\ Supported(rows'[u])
                        /\ rows'[u].answer \in
                              (IF u \in decided THEN {Modified} ELSE {}) \cup {rows'[u].draft}
                        /\ rows'[u].done = Len(rows'[u].plan)
        BY <1>1 DEF PublishedByRight
    <2>1. u # t /\ u \in DOMAIN rows
        BY <1>2, <1>4
    <2> QED
        BY <1>2, <2>1 DEF RowsInv, PublishedByRight
<1>7. DecidedEnds'
    BY <1>1, <1>2, <1>3 DEF RowsInv, DecidedEnds, Exists
<1>8. DecidedAsSeen'
    <2>1. \A p \in People : inspected[p][t] = Nothing
        BY <1>1 DEF RowsInv, SeenCreated
    <2> QED
        BY <1>1, <1>2, <2>1 DEF RowsInv, DecidedAsSeen
<1>9. SeenCreated'
    BY <1>1 DEF RowsInv, SeenCreated
<1> QED
    BY <1>2, <1>3, <1>5, <1>6, <1>7, <1>8, <1>9 DEF RowsInv, Exists

LEMMA DeleteRows ==
    ASSUME IInv, RowsInv, NEW S, Delete(S)
    PROVE  RowsInv' /\ \A u \in DOMAIN rows' : u \in DOMAIN rows /\ rows'[u] = rows[u]
<1>1. UNCHANGED <<created, inspected, decided>>
    BY DEF Delete
<1>2. \A u \in DOMAIN rows' : u \in DOMAIN rows /\ rows'[u] = rows[u]
    BY DEF Delete
<1>3. (\A u \in DOMAIN rows' : Shape(rows'[u])) /\ DecidedEnds' /\ SeenCreated'
    BY <1>1, <1>2 DEF RowsInv, DecidedEnds, SeenCreated, Exists
<1>4. PublishedByRight'
    BY <1>1, <1>2 DEF RowsInv, PublishedByRight
<1>5. DecidedAsSeen'
    BY <1>1, <1>2 DEF RowsInv, DecidedAsSeen
<1> QED
    BY <1>2, <1>3, <1>4, <1>5 DEF RowsInv

LEMMA InspectRows ==
    ASSUME IInv, RowsInv, NEW p \in People, NEW t \in Tasks, Inspect(p, t)
    PROVE  RowsInv'
<1>1. /\ Exists(t) /\ rows[t].status = "AWAITING_APPROVAL"
      /\ inspected' = [inspected EXCEPT ![p][t] = rows[t].draft]
      /\ UNCHANGED <<rows, created, decided>>
    BY DEF Inspect
<1>2. /\ inspected'[p][t] = rows[t].draft
      /\ \A q \in People, u \in Tasks : q # p \/ u # t => inspected'[q][u] = inspected[q][u]
    BY <1>1 DEF IInv, TypeOK
<1>3. DOMAIN rows \subseteq Tasks /\ t \in created
    BY <1>1 DEF IInv, TypeOK, Exists
<1>4. DecidedAsSeen'
    BY <1>1, <1>2, <1>3 DEF RowsInv, DecidedAsSeen
<1>5. SeenCreated'
    BY <1>1, <1>2, <1>3 DEF RowsInv, SeenCreated
<1> QED
    BY <1>1, <1>4, <1>5 DEF RowsInv, PublishedByRight, DecidedEnds, Exists

LEMMA NextRows == IInv /\ RowsInv /\ [Next]_vars => RowsInv'
<1> SUFFICES ASSUME IInv, RowsInv, [Next]_vars PROVE RowsInv'
    OBVIOUS
<1>1. UNCHANGED <<rows, created, inspected, decided>> => RowsInv'
    BY DEF RowsInv, PublishedByRight, DecidedEnds, DecidedAsSeen, SeenCreated, Exists
<1>2. ASSUME NEW r \in Runners, NEW t \in Tasks, Advance(r, t) PROVE RowsInv'
    BY <1>1, <1>2, AdvanceAdvances, AdvancedStep
<1>3. ASSUME NEW r \in Runners, Crash(r) PROVE RowsInv'
    BY <1>1, <1>3 DEF Crash
<1>4. CASE UNCHANGED vars
    BY <1>1, <1>4 DEF vars
<1> QED
    BY <1>2, <1>3, <1>4, CreateRows, DeleteRows, InspectRows, DecideRows DEF Next

LEMMA RowsInvariant == Spec => []RowsInv
    BY InitRows, NextRows, Invariant, PTL DEF Spec

\* An answer is published by a person, or as a draft the reviewer let pass with
\* evidence where no person was asked for; and after all of the plan, whatever
\* runners, crashes and decisions come between.
THEOREM AnswersArePublishedByRight == Spec => []PublishedByRight
<1>1. RowsInv => PublishedByRight
    BY DEF RowsInv
<1> QED
    BY <1>1, RowsInvariant, PTL

\* A late runner never changes the draft a person has seen and decides on.
THEOREM DecisionsAreAsSeen == Spec => []DecidedAsSeen
<1>1. RowsInv => DecidedAsSeen
    BY DEF RowsInv
<1> QED
    BY <1>1, RowsInvariant, PTL

\* No step, by whoever comes back late, takes back work of a task that is there,
\* a reservation of it, or the end it has come to.
THEOREM WorkStaysKept == Spec => WorkIsKept
<1>1. ASSUME IInv, RowsInv, [Next]_vars,
             NEW t \in Tasks, Exists(t), Exists(t)'
      PROVE  /\ rows[t].status \in Final => rows'[t] = rows[t]
             /\ Keeps(rows[t], rows'[t])
    <2>1. rows[t] \in State
        BY <1>1 DEF IInv, TypeOK, Exists
    <2>2. Keeps(rows[t], rows[t])
        BY <2>1, StateFields DEF Keeps
    <2>3. rows'[t] = rows[t] => /\ rows[t].status \in Final => rows'[t] = rows[t]
                                /\ Keeps(rows[t], rows'[t])
        BY <2>2
    <2>4. ASSUME NEW r \in Runners, NEW u \in Tasks, Advance(r, u), rows' # rows
          PROVE  /\ rows[t].status \in Final => rows'[t] = rows[t]
                 /\ Keeps(rows[t], rows'[t])
        <3>1. Advanced(u)
            BY <1>1, <2>4, AdvanceAdvances
        <3>2. PICK n : Save(u, n) /\ Follows(rows[u], n)
            BY <3>1 DEF Advanced
        <3>3. /\ rows'[u] = n
              /\ \A v \in DOMAIN rows : v # u => rows'[v] = rows[v]
            BY <3>1, <3>2, SaveRow DEF Advanced
        <3>4. CASE u = t
            BY <3>2, <3>3, <3>4 DEF Follows, ModelStages, Final
        <3>5. CASE u # t
            BY <1>1, <2>3, <3>3, <3>5 DEF Exists
        <3> QED
            BY <3>4, <3>5
    <2>5. ASSUME NEW u \in Tasks, NEW decision \in {"approve", "modify", "reject"},
                 Decide(u, decision)
          PROVE  /\ rows[t].status \in Final => rows'[t] = rows[t]
                 /\ Keeps(rows[t], rows'[t])
        <3>1. /\ Exists(u) /\ rows[u].status = "AWAITING_APPROVAL"
              /\ \E n : Save(u, n) /\ Keeps(rows[u], n)
            BY <1>1, <2>5, DecideRows
        <3>2. PICK n : Save(u, n) /\ Keeps(rows[u], n)
            BY <3>1
        <3>3. /\ rows'[u] = n
              /\ \A v \in DOMAIN rows : v # u => rows'[v] = rows[v]
            BY <3>1, <3>2, SaveRow
        <3>4. CASE u = t
            BY <3>1, <3>2, <3>3, <3>4 DEF Final
        <3>5. CASE u # t
            BY <1>1, <2>3, <3>3, <3>5 DEF Exists
        <3> QED
            BY <3>4, <3>5
    <2>6. ASSUME NEW u \in Tasks, NEW approval \in BOOLEAN, NEW reuse \in BOOLEAN,
                 Create(u, approval, reuse)
          PROVE  rows'[t] = rows[t]
        BY <1>1, <2>6, CreateRows DEF Exists
    <2>7. ASSUME NEW S, Delete(S) PROVE rows'[t] = rows[t]
        BY <1>1, <2>7, DeleteRows DEF Exists
    <2>8. ASSUME NEW r \in Runners, Crash(r) PROVE rows'[t] = rows[t]
        BY <2>8 DEF Crash
    <2>9. ASSUME NEW p \in People, NEW u \in Tasks, Inspect(p, u) PROVE rows'[t] = rows[t]
        BY <2>9 DEF Inspect
    <2>10. CASE UNCHANGED vars
        BY <2>3, <2>10 DEF vars
    <2>11. CASE rows' = rows
        BY <2>3, <2>11
    <2> QED
        BY <1>1, <2>3, <2>4, <2>5, <2>6, <2>7, <2>8, <2>9, <2>10, <2>11 DEF Next
<1>2. IInv /\ RowsInv /\ [Next]_vars =>
        \A t \in Tasks : Exists(t) /\ Exists(t)' =>
            LET s == rows[t] IN
            /\ s.status \in Final => rows'[t] = s
            /\ s.plan # <<>> => rows'[t].plan = s.plan
            /\ rows'[t].done >= s.done
            /\ rows'[t].draft >= s.draft
            /\ rows'[t].revisions >= s.revisions
            /\ rows'[t].reserved_calls >= s.reserved_calls
    BY <1>1 DEF Keeps
<1> QED
    BY <1>2, Invariant, RowsInvariant, PTL DEF Spec, WorkIsKept

--------------------------------------------------------------------------------
(* PairedBenchmark.  The invariant follows an answer from the event that   *)
(* generated it, through the cache and the runner's own index, to the hit  *)
(* that serves it.                                                         *)

Arms == [calls : 0..1, usage : 0..1, answer : Nat]
EventStatuses == {"HIT", "MISS", "BYPASS", "ERROR"}

OutcomeRecords ==
    [status : EventStatuses, candidate : Nat, verification : ContractVerdicts \cup {NoVerification},
     dimension : Nat, stored : BOOLEAN, arm : Arms]
EventRecords ==
    [request : Requests, status : EventStatuses, stored : BOOLEAN, candidate : Nat,
     verification : ContractVerdicts \cup {NoVerification}, cache : Arms, fresh : Arms]

ArmsTypeOK ==
    /\ stage \in {"next", "lookup", "generate", "record", "paused"}
    /\ stage \in {"lookup", "generate", "record"} => request \in Requests
    /\ outcome \in OutcomeRecords
    /\ fresh \in Arms \cup {<< >>} /\ (fresh # << >> => fresh.calls = 1)
    /\ events \in Seq(EventRecords)

\* Event n generated the answer that it stored for q.
StoredBy(n, q) ==
    /\ n \in Events
    /\ events[n].request = q /\ events[n].status = "MISS" /\ events[n].stored
    /\ events[n].cache.answer = n

\* The event that is about to be recorded did.
StoringNow(n, q) ==
    /\ stage = "record" /\ n = Id /\ q = request
    /\ outcome.status = "MISS" /\ outcome.stored

\* What is cached can be traced to the event that stored it, which the runner
\* knows too.
Traceable ==
    \A q \in DOMAIN entries :
        /\ entries[q].event = entries[q].answer
        /\ StoredBy(entries[q].event, q) \/ StoringNow(entries[q].event, q)
        /\ entries[q].dimension \in Nat
        /\ q \in DOMAIN origins /\ origins[q] = entries[q].event

CacheBounded ==
    /\ IsFiniteSet(DOMAIN entries) /\ Orders(order, DOMAIN entries)
    /\ \A q \in DOMAIN entries : entries[q].payload_bytes \in 0..MaxSize
    /\ bytes = BytesOf(entries, DOMAIN entries) /\ bytes <= MaxBytes

\* Nobody was asked, or the answer permits reuse.
Affirms(v) == v = NoVerification \/ (v.approved /\ ~v.error)

\* The hit about to be recorded is one that the validator accepts.
HitJustified ==
    LET n == outcome.candidate
    IN /\ Cacheable[request]
       /\ outcome.arm = Arm(0, 0, n)
       /\ n \in Events /\ StoredBy(n, events[n].request)
       /\ ScopeOf[events[n].request] = ScopeOf[request]
       /\ events[n].request # request =>
             /\ policy \in {"similarity", "verified"}
             /\ policy = "verified" => outcome.verification # NoVerification
       /\ Affirms(outcome.verification)

\* The cache arm, when its event is recorded.
ArmServed ==
    IF outcome.status = "HIT" THEN ~outcome.stored /\ HitJustified
    ELSE /\ outcome.candidate = 0
         /\ outcome.stored => outcome.status = "MISS"
         /\ IF outcome.status = "ERROR" THEN \E used \in 0..1 : outcome.arm = FailedArm(used)
            ELSE outcome.arm = Arm(1, 1, Id)

ArmGoesOn ==
    /\ policy # "verified" => outcome.verification = NoVerification
    /\ stage = "record" => ArmServed
    /\ stage # "record" => /\ outcome.status = "ERROR" /\ ~outcome.stored
                           /\ outcome.candidate = 0 /\ outcome.arm = FailedArm(0)
    /\ stage = "generate" /\ Cacheable[request] => request \notin DOMAIN entries

\* What the counts of the report need of an event, and what a hit rests on.
CountsOf(i) ==
    /\ events[i].status = "HIT" => /\ Cacheable[events[i].request]
                                   /\ Affirms(events[i].verification)
    /\ policy # "verified" => events[i].verification = NoVerification

TraceValid == \A i \in Events : ValidService(i) /\ CountsOf(i)

BenchmarkInv == ArmsTypeOK /\ Traceable /\ CacheBounded /\ ArmGoesOn /\ TraceValid

--------------------------------------------------------------------------------
LEMMA ArmsOf ==
    ASSUME NEW n \in 0..1, NEW m \in 0..1, NEW a \in Nat
    PROVE  /\ Arm(n, m, a) \in Arms
           /\ Arm(n, m, a).calls = n /\ Arm(n, m, a).usage = m /\ Arm(n, m, a).answer = a
    BY DEF Arm, Arms

LEMMA InitEvidence == BenchmarkInit => BenchmarkInv
<1> SUFFICES ASSUME BenchmarkInit PROVE BenchmarkInv
    OBVIOUS
<1>1. DOMAIN entries = {} /\ IsFiniteSet({}) /\ BytesOf(entries, {}) = 0
    BY FS_EmptySet, BytesOfNone DEF BenchmarkInit
<1>2. CacheBounded
    BY <1>1, BoundsAssumption DEF BenchmarkInit, CacheBounded, Orders
<1>3. Undecided \in OutcomeRecords /\ Undecided.verification = NoVerification
    BY ArmsOf DEF Undecided, OutcomeRecords, FailedArm, EventStatuses, NoVector
<1>4. ArmsTypeOK
    BY <1>3 DEF BenchmarkInit, ArmsTypeOK
<1>5. ArmGoesOn
    BY <1>3 DEF BenchmarkInit, ArmGoesOn, Undecided
<1>6. Events = {}
    BY DEF BenchmarkInit, Events
<1> QED
    BY <1>1, <1>2, <1>4, <1>5, <1>6 DEF BenchmarkInv, Traceable, TraceValid

\* What is paused has no evidence left.
LEMMA PausedEvidence == ASSUME BenchmarkInv, RunPaused PROVE BenchmarkInv'
<1>1. DOMAIN entries' = {} /\ IsFiniteSet({}) /\ BytesOf(entries', {}) = 0
    BY FS_EmptySet, BytesOfNone DEF RunPaused
<1>2. CacheBounded'
    BY <1>1, BoundsAssumption DEF RunPaused, CacheBounded, Orders
<1>3. Undecided \in OutcomeRecords /\ Undecided.verification = NoVerification
    BY ArmsOf DEF Undecided, OutcomeRecords, FailedArm, EventStatuses, NoVector
<1>4. ArmsTypeOK'
    BY <1>3 DEF RunPaused, ArmsTypeOK
<1>5. ArmGoesOn'
    BY <1>3 DEF RunPaused, ArmGoesOn, Undecided
<1>6. Events' = {}
    BY DEF RunPaused, Events
<1> QED
    BY <1>1, <1>2, <1>4, <1>5, <1>6 DEF BenchmarkInv, Traceable, TraceValid

\* The trace and the answers it explains, as long as nothing is recorded.
LEMMA TraceStays ==
    ASSUME TraceValid, UNCHANGED <<events, policy>>
    PROVE  /\ TraceValid'
           /\ \A n, q : StoredBy(n, q) <=> StoredBy(n, q)'
    BY DEF TraceValid, ValidService, ValidHit, CountsOf, Events, StoredBy

--------------------------------------------------------------------------------
\* Steps that leave the cache alone.
LEMMA CacheStays ==
    ASSUME CacheBounded, UNCHANGED cacheVars
    PROVE  CacheBounded'
    BY DEF CacheBounded, cacheVars

LEMMA TickEvidence == ASSUME BenchmarkInv, Tick PROVE BenchmarkInv'
<1> USE DEF Tick
<1>1. TraceValid' /\ \A n, q : StoredBy(n, q) <=> StoredBy(n, q)'
    BY TraceStays DEF BenchmarkInv
<1>2. CacheBounded'
    BY CacheStays DEF BenchmarkInv
<1>3. Traceable'
    BY <1>1 DEF BenchmarkInv, Traceable, StoringNow, Id, cacheVars
<1>4. ArmsTypeOK' /\ ArmGoesOn'
    BY <1>1 DEF BenchmarkInv, ArmsTypeOK, ArmGoesOn, ArmServed, HitJustified, Id, Events, cacheVars
<1> QED
    BY <1>1, <1>2, <1>3, <1>4 DEF BenchmarkInv

LEMMA FreshEvidence ==
    ASSUME BenchmarkInv, NEW result, FreshArm(result)
    PROVE  BenchmarkInv'
<1>1. TraceValid' /\ \A n, q : StoredBy(n, q) <=> StoredBy(n, q)'
    BY TraceStays DEF BenchmarkInv, FreshArm
<1>2. CacheBounded'
    BY CacheStays DEF BenchmarkInv, FreshArm
<1>3. Traceable'
    BY <1>1 DEF BenchmarkInv, Traceable, StoringNow, Id, FreshArm, cacheVars
<1>4. ArmGoesOn'
    BY <1>1 DEF BenchmarkInv, ArmGoesOn, ArmServed, HitJustified, Id, Events, FreshArm, cacheVars
<1>5. fresh' \in Arms /\ fresh'.calls = 1
    <2>1. Id \in Nat
        BY DEF BenchmarkInv, ArmsTypeOK, Id
    <2> QED
        BY <2>1, ArmsOf DEF FreshArm, FailedArm
<1>6. ArmsTypeOK'
    BY <1>5 DEF BenchmarkInv, ArmsTypeOK, FreshArm
<1> QED
    BY <1>1, <1>2, <1>3, <1>4, <1>6 DEF BenchmarkInv

LEMMA RequestEvidence ==
    ASSUME BenchmarkInv, NEW q \in Requests, NextRequest(q)
    PROVE  BenchmarkInv'
<1>1. TraceValid' /\ \A n, p : StoredBy(n, p) <=> StoredBy(n, p)'
    BY TraceStays DEF BenchmarkInv, NextRequest
<1>2. CacheBounded'
    BY CacheStays DEF BenchmarkInv, NextRequest
<1>3. Traceable'
    BY <1>1 DEF BenchmarkInv, Traceable, StoringNow, NextRequest, cacheVars
<1>4. ArmsTypeOK' /\ ArmGoesOn'
    BY DEF BenchmarkInv, ArmsTypeOK, ArmGoesOn, NextRequest
<1> QED
    BY <1>1, <1>2, <1>3, <1>4 DEF BenchmarkInv

LEMMA BypassEvidence == ASSUME BenchmarkInv, Bypass PROVE BenchmarkInv'
<1> USE DEF Bypass, Unmoved
<1>1. TraceValid' /\ \A n, p : StoredBy(n, p) <=> StoredBy(n, p)'
    BY TraceStays DEF BenchmarkInv
<1>2. CacheBounded'
    BY CacheStays DEF BenchmarkInv
<1>3. Traceable'
    BY <1>1 DEF BenchmarkInv, Traceable, StoringNow, cacheVars
<1>4. ArmsTypeOK' /\ ArmGoesOn'
    BY DEF BenchmarkInv, ArmsTypeOK, ArmGoesOn, cacheVars
<1> QED
    BY <1>1, <1>2, <1>3, <1>4 DEF BenchmarkInv

LEMMA FailureEvidence ==
    ASSUME BenchmarkInv, NEW used \in {0, 1}, NotGenerated(used)
    PROVE  BenchmarkInv'
<1> USE DEF NotGenerated, Unmoved
<1>1. TraceValid' /\ \A n, p : StoredBy(n, p) <=> StoredBy(n, p)'
    BY TraceStays DEF BenchmarkInv
<1>2. CacheBounded'
    BY CacheStays DEF BenchmarkInv
<1>3. Traceable'
    BY <1>1 DEF BenchmarkInv, Traceable, StoringNow, cacheVars
<1>4. FailedArm(used) \in Arms
    BY ArmsOf DEF FailedArm
<1>5. outcome' = [outcome EXCEPT !.arm = FailedArm(used)] /\ outcome \in OutcomeRecords
    BY DEF BenchmarkInv, ArmsTypeOK
<1>6. /\ outcome' \in OutcomeRecords /\ outcome'.arm = FailedArm(used)
      /\ outcome'.status = outcome.status /\ outcome'.stored = outcome.stored
      /\ outcome'.candidate = outcome.candidate /\ outcome'.verification = outcome.verification
    BY <1>4, <1>5 DEF OutcomeRecords
<1>7. ArmsTypeOK'
    BY <1>6 DEF BenchmarkInv, ArmsTypeOK
<1>8. ArmGoesOn'
    BY <1>6 DEF BenchmarkInv, ArmGoesOn, ArmServed, cacheVars
<1> QED
    BY <1>1, <1>2, <1>3, <1>7, <1>8 DEF BenchmarkInv

--------------------------------------------------------------------------------
\* The lookup keeps some of what it finds.
LEMMA PurgeKeeps ==
    ASSUME CacheBounded, NEW hit, Purge(hit)
    PROVE  /\ CacheBounded'
           /\ DOMAIN entries' = Kept /\ Kept \subseteq DOMAIN entries
           /\ \A q \in Kept : entries'[q] = entries[q]
<1>1. Kept \subseteq DOMAIN entries /\ Expired \subseteq DOMAIN entries /\ Kept = DOMAIN entries \ Expired
    BY DEF Kept, Expired
<1>2. DOMAIN entries' = Kept /\ \A q \in Kept : entries'[q] = entries[q]
    BY DEF Purge, Keep
<1> HIDE DEF Kept, Expired
<1>3. IsFiniteSet(Kept) /\ IsFiniteSet(Expired) /\ IsFiniteSet(DOMAIN entries)
    BY <1>1, FS_Subset DEF CacheBounded
<1>4. bytes' = BytesOf(entries', Kept)
    <2>1. BytesOf(entries', Kept) = BytesOf(entries, Kept)
        BY <1>2, BytesOfSame
    <2>2. BytesOf(entries, Kept) = BytesOf(entries, DOMAIN entries) - BytesOf(entries, Expired)
        BY <1>1, <1>3, BytesOfDifference
    <2> QED
        BY <2>1, <2>2 DEF Purge, CacheBounded
<1>5. bytes' <= MaxBytes
    <2>1. bytes \in Nat /\ BytesOf(entries, Expired) \in Nat
        BY <1>3, BytesOfNat DEF CacheBounded
    <2> QED
        BY <2>1, BoundsAssumption DEF Purge, CacheBounded
<1>6. Orders(KeepOrder(order, Kept), Kept)
    BY <1>1, KeepOrders DEF CacheBounded
<1>7. Orders(order', Kept)
    <2>1. CASE hit \in Kept
        <3>1. Kept \subseteq Kept \cup {hit}
            OBVIOUS
        <3>2. Orders(MoveToEnd(KeepOrder(order, Kept), Kept, hit), Kept)
            BY <1>6, <2>1, <3>1, MoveToEndOrders
        <3> QED
            BY <2>1, <3>2 DEF Purge
    <2>2. CASE hit \notin Kept
        BY <1>6, <2>2 DEF Purge
    <2> QED
        BY <2>1, <2>2
<1> QED
    BY <1>1, <1>2, <1>3, <1>4, <1>5, <1>7 DEF CacheBounded

\* A lookup leaves the trace alone, and what it keeps can be traced.
LEMMA PurgeTraceable ==
    ASSUME BenchmarkInv, NEW hit, Purge(hit), Looking, Unmoved
    PROVE  /\ CacheBounded' /\ TraceValid' /\ Traceable'
           /\ DOMAIN entries' = Kept /\ Kept \subseteq DOMAIN entries
           /\ \A q \in Kept : entries[q].event = entries[q].answer /\ StoredBy(entries[q].event, q)
                             /\ entries[q].dimension \in Nat
           /\ \A n, q : StoredBy(n, q) <=> StoredBy(n, q)'
<1>1. TraceValid' /\ \A n, q : StoredBy(n, q) <=> StoredBy(n, q)'
    BY TraceStays DEF BenchmarkInv, Unmoved
<1>2. /\ CacheBounded'
      /\ DOMAIN entries' = Kept /\ Kept \subseteq DOMAIN entries
      /\ \A q \in Kept : entries'[q] = entries[q]
    BY PurgeKeeps DEF BenchmarkInv
<1>3. \A q \in DOMAIN entries :
         /\ entries[q].event = entries[q].answer /\ StoredBy(entries[q].event, q)
         /\ entries[q].dimension \in Nat
         /\ q \in DOMAIN origins /\ origins[q] = entries[q].event
    BY DEF BenchmarkInv, Traceable, StoringNow, Looking
<1>4. Traceable'
    BY <1>1, <1>2, <1>3 DEF Traceable, Unmoved, StoredBy, Events
<1> QED
    BY <1>1, <1>2, <1>3, <1>4

\* A lookup that finds nothing to reuse.
LEMMA MissEvidence ==
    ASSUME BenchmarkInv, Looking, Unmoved, request \notin Kept, NEW hit, Purge(hit),
           NEW v \in ContractVerdicts \cup {NoVerification}, NEW d \in Nat,
           ToProvider(v, d), policy # "verified" => v = NoVerification
    PROVE  BenchmarkInv'
<1>1. CacheBounded' /\ TraceValid' /\ Traceable' /\ DOMAIN entries' = Kept
    BY PurgeTraceable
<1>2. /\ outcome' = [outcome EXCEPT !.verification = v, !.dimension = d]
      /\ stage' = "generate" /\ outcome \in OutcomeRecords
    BY DEF ToProvider, BenchmarkInv, ArmsTypeOK
<1>3. /\ outcome' \in OutcomeRecords /\ outcome'.verification = v
      /\ outcome'.status = outcome.status /\ outcome'.stored = outcome.stored
      /\ outcome'.candidate = outcome.candidate /\ outcome'.arm = outcome.arm
    BY <1>2 DEF OutcomeRecords
<1>4. ArmsTypeOK'
    BY <1>2, <1>3 DEF BenchmarkInv, ArmsTypeOK, Looking, Unmoved
<1>5. ArmGoesOn'
    BY <1>1, <1>2, <1>3 DEF BenchmarkInv, ArmGoesOn, Looking, Unmoved
<1> QED
    BY <1>1, <1>4, <1>5 DEF BenchmarkInv

\* A lookup that reuses the answer of q.
LEMMA HitEvidence ==
    ASSUME BenchmarkInv, Looking, Unmoved, NEW q \in Kept, Purge(q), NEW n, n = entries[q].event,
           NEW v \in ContractVerdicts \cup {NoVerification},
           Hit(entries[q], n, v), Affirms(v), policy # "verified" => v = NoVerification,
           ScopeOf[q] = ScopeOf[request],
           q # request => /\ policy \in {"similarity", "verified"}
                          /\ policy = "verified" => v # NoVerification
    PROVE  BenchmarkInv'
<1>1. /\ CacheBounded' /\ TraceValid' /\ Traceable'
      /\ entries[q].answer = n /\ StoredBy(n, q) /\ StoredBy(n, q)'
    BY PurgeTraceable
<1>2. n \in Nat /\ n \in Events /\ events[n].request = q
    BY <1>1 DEF StoredBy, Events
<1>3. Arm(0, 0, n) \in Arms
    BY <1>2, ArmsOf
<1>4. /\ outcome' = [outcome EXCEPT !.status = "HIT", !.candidate = n,
                         !.verification = v, !.arm = Arm(0, 0, n)]
      /\ stage' = "record" /\ outcome \in OutcomeRecords /\ ~outcome.stored
    BY <1>1 DEF Hit, BenchmarkInv, ArmsTypeOK, ArmGoesOn, Looking
<1>5. /\ outcome' \in OutcomeRecords /\ outcome'.verification = v
      /\ outcome'.status = "HIT" /\ ~outcome'.stored
      /\ outcome'.candidate = n /\ outcome'.arm = Arm(0, 0, n)
    BY <1>2, <1>3, <1>4 DEF OutcomeRecords, EventStatuses
<1>6. ArmsTypeOK'
    BY <1>4, <1>5 DEF BenchmarkInv, ArmsTypeOK, Looking, Unmoved
<1>7. HitJustified'
    BY <1>1, <1>2, <1>5 DEF HitJustified, Looking, Unmoved, Events
<1>8. ArmGoesOn'
    BY <1>4, <1>5, <1>7 DEF BenchmarkInv, ArmGoesOn, ArmServed, Unmoved
<1> QED
    BY <1>1, <1>6, <1>8 DEF BenchmarkInv

LEMMA AbsentAffirms == Affirms(NoVerification) /\ NoVector \in Nat
    BY DEF Affirms, NoVector

\* What the contract check lets through is recorded as a verdict.
LEMMA VerdictsAreRecorded ==
    ASSUME NEW v \in ContractVerdicts
    PROVE  /\ v # NoVerification
           /\ ValidVerification(v) <=> ~(v.approved /\ v.error)
<1>1. /\ v \in [calls : 0..1, usage : 0..1, approved : BOOLEAN, error : BOOLEAN]
      /\ v.usage <= v.calls /\ v.calls \in 0..1
    BY DEF ContractVerdicts
<1>2. v # NoVerification
    <2>1. DOMAIN v = {"calls", "usage", "approved", "error"}
        BY <1>1
    <2> QED
        BY <2>1 DEF NoVerification
<1>3. ValidVerification(v) <=> ~(v.approved /\ v.error)
    BY <1>1, <1>2 DEF ValidVerification
<1> QED
    BY <1>2, <1>3

LEMMA LookupEvidence ==
    ASSUME BenchmarkInv,
           \/ ExactHit \/ ExactMiss \/ EncoderFails
           \/ \E d \in Dimensions : NoCandidate(d) \/ DimensionChanged(d)
           \/ \E q \in Requests : SimilarityHit(q) \/ \E v \in Verdicts : Verify(q, v)
    PROVE  BenchmarkInv'
<1>1. CASE ExactHit
    <2> DEFINE n == entries[request].event
    <2>1. request \in DOMAIN entries /\ request \in Kept
        BY <1>1 DEF ExactHit, Kept
    <2>2. request \in DOMAIN origins /\ origins[request] = n
        BY <2>1 DEF BenchmarkInv, Traceable
    <2>3. Hit(entries[request], n, NoVerification)
        BY <1>1, <2>2 DEF ExactHit
    <2> HIDE DEF n
    <2> QED
        BY <1>1, <2>1, <2>3, HitEvidence, AbsentAffirms DEF ExactHit, n
<1>2. CASE ExactMiss
    BY <1>2, MissEvidence, AbsentAffirms DEF ExactMiss
<1>3. CASE EncoderFails
    BY <1>3, MissEvidence, AbsentAffirms DEF EncoderFails, Semantic
<1>4. ASSUME NEW d \in Dimensions, NoCandidate(d) \/ DimensionChanged(d) PROVE BenchmarkInv'
    <2>1. d \in Nat
        BY BenchmarkAssumption
    <2> QED
        BY <1>4, <2>1, MissEvidence DEF NoCandidate, DimensionChanged, Semantic
<1>5. ASSUME NEW q \in Requests, SimilarityHit(q) PROVE BenchmarkInv'
    <2>1. q \in Kept /\ ScopeOf[q] = ScopeOf[request]
        BY <1>5 DEF SimilarityHit, Acceptable, IsBest, Candidates
    <2> QED
        BY <1>5, <2>1, HitEvidence, AbsentAffirms DEF SimilarityHit, Semantic
<1>6. ASSUME NEW q \in Requests, NEW v \in Verdicts, Verify(q, v) PROVE BenchmarkInv'
    <2>1. /\ q \in Kept /\ ScopeOf[q] = ScopeOf[request]
          /\ policy = "verified" /\ Looking /\ Unmoved /\ request \notin Kept
        BY <1>6 DEF Verify, Acceptable, IsBest, Candidates, Semantic
    <2>2. v \in ContractVerdicts /\ v # NoVerification
        BY BenchmarkAssumption, VerdictsAreRecorded
    <2>3. \/ Affirms(v) /\ Purge(q) /\ Hit(entries[q], entries[q].event, v)
          \/ Purge(request) /\ ToProvider(v, entries[q].dimension)
        BY <1>6 DEF Verify, Affirms
    <2>4. entries[q].dimension \in Nat
        BY <2>1 DEF BenchmarkInv, Traceable, Kept
    <2> QED
        BY <2>1, <2>2, <2>3, <2>4, HitEvidence, MissEvidence
<1> QED
    BY <1>1, <1>2, <1>3, <1>4, <1>5, <1>6

--------------------------------------------------------------------------------
\* An answer joins the cache, and the oldest ones leave it.
LEMMA AdmitKeeps ==
    ASSUME CacheBounded, request \notin DOMAIN entries, NEW size \in Sizes, Admit(size)
    PROVE  /\ CacheBounded'
           /\ request \in DOMAIN origins' /\ origins'[request] = Id
           /\ \A q \in DOMAIN origins \ {request} : q \in DOMAIN origins' /\ origins'[q] = origins[q]
           /\ \A q \in DOMAIN entries' :
                 \/ /\ q = request /\ entries'[q].event = Id /\ entries'[q].answer = Id
                    /\ entries'[q].dimension = outcome.dimension
                 \/ q # request /\ q \in DOMAIN entries /\ entries'[q] = entries[q]
<1> DEFINE entry == [event |-> Id, answer |-> Id, payload_bytes |-> size,
                     expires |-> clock + ttl_seconds, dimension |-> outcome.dimension]
           S     == DOMAIN entries \cup {request}
           more  == [q \in S |-> IF q = request THEN entry ELSE entries[q]]
           later == MoveToEnd(order, DOMAIN more, request)
           total == bytes + size
           left  == Survivors(more, later, total)
<1>1. /\ DOMAIN more = S /\ more[request] = entry /\ request \in S
      /\ \A q \in DOMAIN entries : more[q] = entries[q]
    OBVIOUS
<1>2. /\ entries' = Keep(more, left)
      /\ order' = KeepOrder(later, left)
      /\ bytes' = bytes + (size - BytesOf(more, DOMAIN more \ left))
    BY DEF Admit
<1>3. entry.event = Id /\ entry.answer = Id /\ entry.payload_bytes = size /\ size \in 0..MaxSize
      /\ entry.dimension = outcome.dimension
    BY BenchmarkAssumption, BoundsAssumption
<1> HIDE DEF entry, more, later, left, total
<1>4. IsFiniteSet(DOMAIN entries) /\ IsFiniteSet({request}) /\ IsFiniteSet(S)
    BY FS_Singleton, FS_Union DEF CacheBounded
<1>5. bytes' = total - BytesOf(more, S \ left)
    <2>1. /\ bytes \in Nat /\ size \in Nat
          /\ BytesOf(more, S \ left) \in Nat
        BY <1>3, <1>4, BoundsAssumption, BytesOfNat, FS_Subset DEF CacheBounded
    <2> HIDE DEF S
    <2> QED
        BY <1>1, <1>2, <2>1 DEF total
<1>6. Orders(later, S)
    <2>1. S \subseteq DOMAIN entries \cup {request} /\ request \in S /\ Orders(order, DOMAIN entries)
        BY DEF CacheBounded
    <2> HIDE DEF S
    <2> QED
        BY <1>1, <2>1, MoveToEndOrders DEF later
<1>7. total = BytesOf(more, S)
    <2>1. BytesOf(more, S) = BytesOf(more, DOMAIN entries) + BytesOf(more, {request})
        BY <1>4, BytesOfUnion
    <2>2. BytesOf(more, {request}) = size
        BY <1>1, <1>3, BytesOfOne
    <2>3. BytesOf(more, DOMAIN entries) = BytesOf(entries, DOMAIN entries)
        BY <1>1, BytesOfSame
    <2> QED
        BY <2>1, <2>2, <2>3 DEF CacheBounded, total
<1> HIDE DEF S
<1>8. /\ left \subseteq S
      /\ BytesOf(more, left) <= MaxBytes
      /\ BytesOf(more, left) = total - BytesOf(more, S \ left)
    <2>1. IsFiniteSet(DOMAIN more) /\ Orders(later, DOMAIN more) /\ total = BytesOf(more, DOMAIN more)
        BY <1>1, <1>4, <1>6, <1>7
    <2>2. left \subseteq DOMAIN more
        BY SurvivorsSubset DEF left
    <2> QED
        BY <1>1, <2>1, <2>2, SurvivorsBounded DEF left
<1>9. DOMAIN entries' = left /\ \A q \in left : entries'[q] = more[q]
    BY <1>2 DEF Keep
<1>10. \A q \in left : \/ q = request /\ more[q] = entry
                       \/ q # request /\ q \in DOMAIN entries /\ more[q] = entries[q]
    BY <1>1, <1>8 DEF S
<1>11. CacheBounded'
    <2>1. IsFiniteSet(left) /\ Orders(order', left)
        BY <1>2, <1>4, <1>6, <1>8, FS_Subset, KeepOrders
    <2>2. BytesOf(entries', left) = BytesOf(more, left)
        BY <1>9, BytesOfSame
    <2>3. \A q \in left : entries'[q].payload_bytes \in 0..MaxSize
        BY <1>3, <1>9, <1>10 DEF CacheBounded
    <2> QED
        BY <1>8, <1>9, <1>5, <2>1, <2>2, <2>3 DEF CacheBounded
<1>12. origins' = [q \in DOMAIN origins \cup {request} |-> IF q = request THEN Id ELSE origins[q]]
    BY DEF Admit
<1> QED
    BY <1>3, <1>9, <1>10, <1>11, <1>12

LEMMA GeneratedEvidence ==
    ASSUME BenchmarkInv, NEW size \in Sizes, Generated(size)
    PROVE  BenchmarkInv'
<1> DEFINE stored == /\ Cacheable[request] /\ size <= MaxBytes
                     /\ policy = "exact" \/ outcome.dimension # NoVector
           status == IF Cacheable[request] THEN "MISS" ELSE "BYPASS"
<1>1. TraceValid' /\ \A n, p : StoredBy(n, p) <=> StoredBy(n, p)'
    BY TraceStays DEF BenchmarkInv, Generated
<1>2. /\ stage = "generate" /\ request \in Requests
      /\ stored \in BOOLEAN /\ status \in EventStatuses /\ status # "HIT" /\ status # "ERROR"
      /\ (stored => status = "MISS")
    BY BenchmarkAssumption DEF Generated, BenchmarkInv, ArmsTypeOK, OutcomeRecords, EventStatuses
<1>3. Id \in Nat /\ Arm(1, 1, Id) \in Arms
    <2>1. Id \in Nat
        BY DEF BenchmarkInv, ArmsTypeOK, Id
    <2> QED
        BY <2>1, ArmsOf
<1>4. /\ outcome' = [outcome EXCEPT !.status = status, !.stored = stored, !.arm = Arm(1, 1, Id)]
      /\ stage' = "record" /\ outcome \in OutcomeRecords
      /\ Id' = Id /\ outcome.candidate = 0
      /\ UNCHANGED <<policy, clock, request, fresh, events>>
    BY <1>2 DEF Generated, BenchmarkInv, ArmsTypeOK, ArmGoesOn, Id
<1>5. IF stored THEN Admit(size) ELSE UNCHANGED <<cacheVars, origins>>
    BY DEF Generated
<1>6. stored => request \notin DOMAIN entries
    BY <1>2 DEF BenchmarkInv, ArmGoesOn
<1> HIDE DEF stored, status
<1>7. /\ outcome' \in OutcomeRecords /\ outcome'.verification = outcome.verification
      /\ outcome'.status = status /\ outcome'.stored = stored
      /\ outcome'.candidate = 0 /\ outcome'.arm = Arm(1, 1, Id)
    BY <1>2, <1>3, <1>4 DEF OutcomeRecords
<1>8. ArmsTypeOK'
    <2>1. /\ fresh \in Arms \cup {<< >>} /\ (fresh # << >> => fresh.calls = 1)
          /\ events \in Seq(EventRecords)
        BY DEF BenchmarkInv, ArmsTypeOK
    <2> QED
        BY <1>2, <1>4, <1>7, <2>1 DEF ArmsTypeOK
<1>9. ArmGoesOn'
    BY <1>2, <1>4, <1>7 DEF BenchmarkInv, ArmGoesOn, ArmServed
<1>10. \A q \in DOMAIN entries :
         /\ entries[q].event = entries[q].answer /\ StoredBy(entries[q].event, q)
         /\ entries[q].dimension \in Nat
         /\ q \in DOMAIN origins /\ origins[q] = entries[q].event
    BY <1>2 DEF BenchmarkInv, Traceable, StoringNow
<1>11. CASE stored
    <2>1. /\ CacheBounded'
          /\ request \in DOMAIN origins' /\ origins'[request] = Id
          /\ \A q \in DOMAIN origins \ {request} : q \in DOMAIN origins' /\ origins'[q] = origins[q]
          /\ \A q \in DOMAIN entries' :
                \/ /\ q = request /\ entries'[q].event = Id /\ entries'[q].answer = Id
                   /\ entries'[q].dimension = outcome.dimension
                \/ q # request /\ q \in DOMAIN entries /\ entries'[q] = entries[q]
        BY <1>5, <1>6, <1>11, AdmitKeeps DEF BenchmarkInv
    <2>2. StoringNow(Id, request)'
        BY <1>2, <1>4, <1>7, <1>11 DEF StoringNow
    <2>4. outcome.dimension \in Nat
        BY <1>4 DEF OutcomeRecords
    <2>3. Traceable'
        BY <1>1, <1>4, <1>10, <2>1, <2>2, <2>4 DEF Traceable
    <2> QED
        BY <1>1, <1>8, <1>9, <2>1, <2>3 DEF BenchmarkInv
<1>12. CASE ~stored
    <2>1. CacheBounded' /\ UNCHANGED <<entries, origins>>
        BY <1>5, <1>12, CacheStays DEF BenchmarkInv, cacheVars
    <2>2. Traceable'
        BY <1>1, <1>10, <2>1 DEF Traceable
    <2> QED
        BY <1>1, <1>8, <1>9, <2>1, <2>2 DEF BenchmarkInv
<1> QED
    BY <1>11, <1>12

--------------------------------------------------------------------------------
\* What is recorded is valid, and what was valid stays so.
LEMMA RecordEvidence == ASSUME BenchmarkInv, Record PROVE BenchmarkInv'
<1> DEFINE event == [request |-> request, status |-> outcome.status, stored |-> outcome.stored,
                     candidate |-> outcome.candidate, verification |-> outcome.verification,
                     cache |-> outcome.arm, fresh |-> fresh]
<1>1. PICK n : n = Len(events) + 1
    OBVIOUS
<1>2. /\ events \in Seq(EventRecords) /\ n \in Nat \ {0} /\ Events = 1..n - 1 /\ n \notin Events
      /\ request \in Requests /\ outcome \in OutcomeRecords /\ fresh \in Arms /\ fresh.calls = 1
      /\ ArmServed
      /\ policy # "verified" => outcome.verification = NoVerification
    BY <1>1 DEF Record, BenchmarkInv, ArmsTypeOK, ArmGoesOn, Events
<1>3. event \in EventRecords
    BY <1>2 DEF EventRecords, OutcomeRecords
<1>4. /\ event.request = request /\ event.status = outcome.status /\ event.stored = outcome.stored
      /\ event.candidate = outcome.candidate /\ event.verification = outcome.verification
      /\ event.cache = outcome.arm /\ event.fresh = fresh
    OBVIOUS
<1>5. events' = Append(events, event)
    BY DEF Record
<1> HIDE DEF event
<1>6. /\ events' \in Seq(EventRecords) /\ Events' = 1..n
      /\ events'[n] = event /\ \A i \in Events : events'[i] = events[i]
    BY <1>1, <1>2, <1>3, <1>5 DEF Events
<1>7. \A i \in Events : i \in Events' /\ i # n /\ i \in Nat
    BY <1>2, <1>6
<1>8. Id = n
    BY <1>1 DEF Id
<1>9. ASSUME NEW i \in Events PROVE ValidService(i)' /\ CountsOf(i)'
    <2>1. ValidService(i) /\ CountsOf(i) /\ events'[i] = events[i] /\ policy' = policy
        BY <1>6 DEF BenchmarkInv, TraceValid, Record
    <2>2. CountsOf(i)'
        BY <2>1 DEF CountsOf
    <2>3. ValidHit(i) => ValidHit(i)'
        <3>1. \A c \in 1..i - 1 : events'[c] = events[c]
            BY <1>2, <1>6
        <3> QED
            BY <2>1, <3>1 DEF ValidHit
    <2> QED
        BY <2>1, <2>2, <2>3 DEF ValidService
<1>10. ASSUME NEW m, NEW q, StoredBy(m, q) PROVE StoredBy(m, q)'
    BY <1>6, <1>7, <1>10 DEF StoredBy
<1>11. policy' = policy /\ outcome.arm \in Arms
    BY <1>2 DEF Record, OutcomeRecords
<1>12. CountsOf(n)'
    BY <1>2, <1>4, <1>6, <1>11 DEF CountsOf, ArmServed, HitJustified
<1>13. ValidArm(outcome.arm) /\ ValidArm(fresh)
    <2>1. outcome.arm.calls >= 0 /\ outcome.arm.usage <= outcome.arm.calls
        BY <1>8, <1>2, ArmsOf DEF ArmServed, HitJustified, FailedArm, Arm, Arms
    <2> QED
        BY <1>2, <2>1 DEF ValidArm, Arms
<1>14. outcome.status = "HIT" => ValidHit(n)'
    <2> SUFFICES ASSUME outcome.status = "HIT" PROVE ValidHit(n)'
        OBVIOUS
    <2> DEFINE c == outcome.candidate
    <2>1. /\ outcome.arm = Arm(0, 0, c) /\ StoredBy(c, events[c].request) /\ c \in Events
          /\ ScopeOf[events[c].request] = ScopeOf[request]
          /\ events[c].request # request =>
                /\ policy \in {"similarity", "verified"}
                /\ policy = "verified" =>
                      /\ outcome.verification # NoVerification
                      /\ outcome.verification.approved /\ ~outcome.verification.error
        BY <1>2 DEF ArmServed, HitJustified, Affirms
    <2>2. c \in 1..n - 1 /\ events'[c] = events[c]
        BY <1>2, <1>6, <2>1
    <2>3. events[c].status = "MISS" /\ events[c].stored /\ events[c].cache.answer = c
        BY <2>1 DEF StoredBy
    <2>4. outcome.arm.calls = 0 /\ outcome.arm.answer = c
        BY <2>1 DEF Arm
    <2> HIDE DEF c
    <2> QED
        BY <1>4, <1>6, <1>11, <2>1, <2>2, <2>3, <2>4 DEF ValidHit, c
<1>15. /\ outcome.stored => outcome.status = "MISS"
       /\ outcome.status # "HIT" => outcome.arm.calls = 1 /\ outcome.candidate = 0
       /\ outcome.status = "ERROR" <=> outcome.arm.answer = 0
    <2>1. CASE outcome.status = "HIT"
        <3>1. outcome.arm = Arm(0, 0, outcome.candidate) /\ outcome.candidate \in Events /\ ~outcome.stored
            BY <1>2, <2>1 DEF ArmServed, HitJustified
        <3> QED
            BY <1>2, <2>1, <3>1 DEF Arm
    <2>2. CASE outcome.status = "ERROR"
        BY <1>2, <2>2 DEF ArmServed, FailedArm, Arm
    <2>3. CASE outcome.status \notin {"HIT", "ERROR"}
        BY <1>2, <1>8, <2>3 DEF ArmServed, Arm
    <2> QED
        BY <2>1, <2>2, <2>3
<1>16. ValidService(n)'
    BY <1>2, <1>4, <1>6, <1>13, <1>14, <1>15 DEF ValidService, ValidArm
<1>17. TraceValid'
    BY <1>2, <1>6, <1>9, <1>12, <1>16 DEF TraceValid
<1>18. CacheBounded'
    BY CacheStays DEF BenchmarkInv, Record
<1>19. ASSUME NEW q \in DOMAIN entries
       PROVE  /\ entries[q].event = entries[q].answer
              /\ StoredBy(entries[q].event, q)' /\ entries[q].dimension \in Nat
              /\ q \in DOMAIN origins /\ origins[q] = entries[q].event
    <2>1. PICK m : m = entries[q].event
        OBVIOUS
    <2>2. /\ m = entries[q].answer /\ (StoredBy(m, q) \/ StoringNow(m, q))
          /\ entries[q].dimension \in Nat
          /\ q \in DOMAIN origins /\ origins[q] = m
        BY <2>1 DEF BenchmarkInv, Traceable
    <2>3. StoringNow(m, q) => StoredBy(m, q)'
        <3> SUFFICES ASSUME StoringNow(m, q) PROVE StoredBy(m, q)'
            OBVIOUS
        <3>1. m = n /\ q = request /\ outcome.status = "MISS" /\ outcome.stored
            BY <1>8 DEF StoringNow
        <3>2. outcome.arm.answer = n
            BY <1>2, <1>8, <3>1 DEF ArmServed, Arm
        <3>3. n \in Events'
            BY <1>2, <1>6
        <3> QED
            BY <1>4, <1>6, <3>1, <3>2, <3>3 DEF StoredBy
    <2>4. StoredBy(m, q)'
        BY <1>10, <2>2, <2>3
    <2> QED
        BY <2>1, <2>2, <2>4 DEF Record, StoredBy, cacheVars
<1>20. Traceable'
    BY <1>19 DEF Traceable, Record, cacheVars
<1>21. Undecided \in OutcomeRecords /\ Undecided.verification = NoVerification
    BY ArmsOf DEF Undecided, OutcomeRecords, FailedArm, EventStatuses, NoVector
<1>22. ArmsTypeOK'
    BY <1>6, <1>21 DEF Record, ArmsTypeOK
<1>23. ArmGoesOn'
    BY <1>21 DEF Record, ArmGoesOn, Undecided
<1> QED
    BY <1>17, <1>18, <1>20, <1>22, <1>23 DEF BenchmarkInv

LEMMA StepEvidence == ASSUME BenchmarkInv, BenchmarkNext PROVE BenchmarkInv'
    BY RequestEvidence, LookupEvidence, FreshEvidence, BypassEvidence, GeneratedEvidence,
       FailureEvidence, RecordEvidence, PausedEvidence, TickEvidence DEF BenchmarkNext

LEMMA StutterEvidence == ASSUME BenchmarkInv, UNCHANGED benchmarkVars PROVE BenchmarkInv'
<1> USE DEF benchmarkVars, cacheVars
<1>1. TraceValid' /\ \A n, q : StoredBy(n, q) <=> StoredBy(n, q)'
    BY TraceStays DEF BenchmarkInv
<1>2. CacheBounded'
    BY CacheStays DEF BenchmarkInv
<1>3. Traceable'
    BY <1>1 DEF BenchmarkInv, Traceable, StoringNow, Id
<1>4. ArmsTypeOK' /\ ArmGoesOn'
    BY <1>1 DEF BenchmarkInv, ArmsTypeOK, ArmGoesOn, ArmServed, HitJustified, Id, Events
<1> QED
    BY <1>1, <1>2, <1>3, <1>4 DEF BenchmarkInv

\* What every step of the benchmark preserves: the cache is bounded, its
\* answers and the hit in progress lead back to the events that stored them,
\* and the trace so far is valid.
THEOREM BenchmarkInvariant == BenchmarkSpec => []BenchmarkInv
<1>1. BenchmarkInv /\ [BenchmarkNext]_benchmarkVars => BenchmarkInv'
    BY StepEvidence, StutterEvidence
<1> QED
    BY InitEvidence, <1>1, PTL DEF BenchmarkSpec

--------------------------------------------------------------------------------
\* The counts of the report, from what is known of each event.
LEMMA ReportCounts ==
    ASSUME BenchmarkInv
    PROVE  /\ AttemptsAvoided = StatusCount("HIT") - VerifierAttempts
           /\ LET d == Diagnosis
              IN /\ SumOver(d.terminal) = Len(events)
                 /\ d.terminal.HIT <= d.eligible_requests
                 /\ d.terminal.HIT > 0 => d.stored > 0
                 /\ d.stored <= d.terminal.MISS
                 /\ policy = "exact" => d.prior_same.HIT = d.terminal.HIT
                 /\ policy # "verified" => d.provider_work.net_avoided = d.terminal.HIT
<1> DEFINE With(s)  == {i \in Events : events[i].status = s}
           Fresh    == {i \in Events : events[i].fresh.calls = 1}
           Cached   == {i \in Events : events[i].cache.calls = 1}
           Verified == {i \in Events : events[i].verification # NoVerification
                                          /\ events[i].verification.calls = 1}
           Allowed  == {i \in Events : Cacheable[events[i].request]}
           Stored     == {i \in Events : events[i].stored}
           Prior    == {i \in Repeated : events[i].status = "HIT"}
<1>1. /\ events \in Seq(EventRecords)
      /\ \A i \in Events : ValidService(i) /\ CountsOf(i) /\ events[i].status \in EventStatuses
    <2>1. events \in Seq(EventRecords) /\ \A i \in Events : ValidService(i) /\ CountsOf(i)
        BY DEF BenchmarkInv, ArmsTypeOK, TraceValid
    <2>2. \A i \in Events : events[i] \in EventRecords
        BY <2>1 DEF Events
    <2> QED
        BY <2>1, <2>2 DEF EventRecords
<1>2. IsFiniteSet(Events) /\ Cardinality(Events) = Len(events) /\ Len(events) \in Nat
    <2>1. Len(events) \in Nat
        BY <1>1
    <2>2. \A n \in Nat : IsFiniteSet(1..n) /\ Cardinality(1..n) = n
        BY FS_Interval
    <2> QED
        BY <2>1, <2>2 DEF Events
<1>3. \A S \in SUBSET Events : IsFiniteSet(S) /\ Cardinality(S) \in Nat
    BY <1>2, FS_Subset, FS_CardinalityType
<1>4. \A S, T \in SUBSET Events : S \subseteq T => Cardinality(S) <= Cardinality(T)
    BY <1>3, FS_Subset
<1>5. \A S, T \in SUBSET Events :
         S \cap T = {} => Cardinality(S \cup T) = Cardinality(S) + Cardinality(T)
    <2> SUFFICES ASSUME NEW S \in SUBSET Events, NEW T \in SUBSET Events, S \cap T = {}
                 PROVE  Cardinality(S \cup T) = Cardinality(S) + Cardinality(T)
        OBVIOUS
    <2>1. IsFiniteSet(S) /\ IsFiniteSet(T) /\ Cardinality(S) \in Nat /\ Cardinality(T) \in Nat
        BY <1>3
    <2>2. Cardinality(S \cup T) = Cardinality(S) + Cardinality(T) - Cardinality(S \cap T)
        BY <2>1, FS_Union
    <2>3. Cardinality(S \cap T) = 0
        BY FS_EmptySet
    <2> QED
        BY <2>1, <2>2, <2>3
<1>6. Fresh = Events /\ Cached = Events \ With("HIT")
    BY <1>1 DEF ValidService, ValidHit
<1>7. With("HIT") \subseteq Allowed /\ Stored \subseteq With("MISS")
    BY <1>1 DEF ValidService, CountsOf
<1>8. With("HIT") # {} => Stored # {}
    BY <1>1 DEF ValidService, ValidHit, Events
<1>9. policy = "exact" => Prior = With("HIT")
    BY <1>1 DEF ValidService, ValidHit, Events, Repeated
<1>10. policy # "verified" => Verified = {}
    BY <1>1 DEF CountsOf
<1>11. /\ Events = (With("HIT") \cup With("MISS")) \cup (With("BYPASS") \cup With("ERROR"))
       /\ \A s, t : s # t => With(s) \cap With(t) = {}
    BY <1>1 DEF EventStatuses
<1>12. /\ \A s : With(s) \in SUBSET Events
       /\ Allowed \in SUBSET Events /\ Stored \in SUBSET Events /\ Verified \in SUBSET Events
    OBVIOUS
<1>13. /\ \A s : StatusCount(s) = Cardinality(With(s))
       /\ Attempts("fresh") = Cardinality(Fresh) /\ Attempts("cache") = Cardinality(Cached)
       /\ VerifierAttempts = Cardinality(Verified) /\ Eligible = Cardinality(Allowed)
       /\ Cardinality({i \in Events : events[i].stored}) = Cardinality(Stored)
    BY DEF StatusCount, Attempts, VerifierAttempts, Eligible
<1>14. /\ Diagnosis.terminal.HIT = StatusCount("HIT") /\ Diagnosis.terminal.MISS = StatusCount("MISS")
       /\ SumOver(Diagnosis.terminal) =
             StatusCount("HIT") + StatusCount("MISS") + StatusCount("BYPASS") + StatusCount("ERROR")
       /\ Diagnosis.eligible_requests = Eligible /\ Diagnosis.stored = Cardinality(Stored)
       /\ Diagnosis.prior_same.HIT = Cardinality(Prior)
       /\ Diagnosis.provider_work.net_avoided = AttemptsAvoided
    BY DEF Diagnosis, SumOver
<1> HIDE DEF With, Fresh, Cached, Verified, Allowed, Stored, Prior
<1>15. Attempts("cache") = Len(events) - StatusCount("HIT")
    <2>1. Cached \cup With("HIT") = Events /\ Cached \cap With("HIT") = {} /\ Cached \in SUBSET Events
        BY <1>6, <1>12
    <2>2. Cardinality(Events) = Cardinality(Cached) + Cardinality(With("HIT"))
        BY <1>5, <1>12, <2>1
    <2>3. Cardinality(Cached) \in Nat /\ Cardinality(With("HIT")) \in Nat
        BY <1>3, <1>12, <2>1
    <2> QED
        BY <1>2, <1>13, <2>2, <2>3
<1>16. Attempts("fresh") = Len(events)
    BY <1>2, <1>6, <1>13
<1>17. AttemptsAvoided = StatusCount("HIT") - VerifierAttempts
    <2>1. StatusCount("HIT") \in Nat /\ VerifierAttempts \in Nat
        BY <1>3, <1>12, <1>13
    <2> QED
        BY <1>2, <1>15, <1>16, <2>1 DEF AttemptsAvoided
<1>18. SumOver(Diagnosis.terminal) = Len(events)
    <2> DEFINE served == With("HIT") \cup With("MISS")
               other  == With("BYPASS") \cup With("ERROR")
    <2>1. served \cap other = {} /\ served \in SUBSET Events /\ other \in SUBSET Events /\ Events = served \cup other
        BY <1>11, <1>12
    <2>2. Cardinality(served) = Cardinality(With("HIT")) + Cardinality(With("MISS"))
        BY <1>5, <1>11, <1>12
    <2>3. Cardinality(other) = Cardinality(With("BYPASS")) + Cardinality(With("ERROR"))
        BY <1>5, <1>11, <1>12
    <2> HIDE DEF served, other
    <2>4. Cardinality(Events) = Cardinality(served) + Cardinality(other)
        BY <1>5, <2>1
    <2>5. \A s : Cardinality(With(s)) \in Nat
        BY <1>3, <1>12
    <2> QED
        BY <1>2, <1>13, <1>14, <2>2, <2>3, <2>4, <2>5
<1>19. StatusCount("HIT") <= Eligible /\ Cardinality(Stored) <= StatusCount("MISS")
    BY <1>4, <1>7, <1>12, <1>13
<1>20. StatusCount("HIT") > 0 => Cardinality(Stored) > 0
    <2>1. StatusCount("HIT") > 0 => With("HIT") # {}
        <3>1. Cardinality({}) = 0
            BY FS_EmptySet
        <3>2. StatusCount("HIT") = Cardinality(With("HIT"))
            BY <1>13
        <3> QED
            BY <3>1, <3>2
    <2>2. IsFiniteSet(Stored) /\ Cardinality(Stored) \in Nat
        BY <1>3, <1>12
    <2>3. Stored # {} => Cardinality(Stored) # 0
        BY <2>2, FS_EmptySet
    <2> QED
        BY <1>8, <2>1, <2>2, <2>3
<1>21. policy = "exact" => Cardinality(Prior) = StatusCount("HIT")
    BY <1>9, <1>13
<1>22. policy # "verified" => AttemptsAvoided = StatusCount("HIT")
    <2>1. policy # "verified" => VerifierAttempts = 0
        BY <1>10, <1>13, FS_EmptySet
    <2>2. StatusCount("HIT") \in Nat
        BY <1>3, <1>12, <1>13
    <2> QED
        BY <1>17, <2>1, <2>2
<1> QED
    BY <1>14, <1>17, <1>18, <1>19, <1>20, <1>21, <1>22

\* Whatever provider, encoder and clock do, and for every verdict that the contract
\* check of the verified policy lets through, each event of a run is accepted by the
\* validator of the trace unless its verdict approves and names an error, and no
\* such verdict has served a hit; the report reconciles, and the cache is within its
\* bounds, for every workload, policy and size (run_workload, process of
\* semantic.py, validate_trace, summarize, diagnose).
THEOREM EvidenceIsSound == BenchmarkSpec => []EvidenceHolds
<1>1. BenchmarkInv => EvidenceHolds
    <2> SUFFICES ASSUME BenchmarkInv PROVE EvidenceHolds
        OBVIOUS
    <2>1. ASSUME NEW i \in Events
          PROVE  /\ ValidEvent(i) <=> ~Contradicts(i)
                 /\ Contradicts(i) => events[i].status # "HIT"
        <3>1. ValidService(i) /\ CountsOf(i)
            BY DEF BenchmarkInv, TraceValid
        <3>2. events[i] \in EventRecords
            BY DEF BenchmarkInv, ArmsTypeOK, Events
        <3> DEFINE v == events[i].verification
        <3>3. v \in ContractVerdicts \cup {NoVerification}
            BY <3>2 DEF EventRecords
        <3> HIDE DEF v
        <3>4. ValidVerification(v) <=> ~(v # NoVerification /\ v.approved /\ v.error)
            BY <3>3, VerdictsAreRecorded DEF ValidVerification
        <3>5. ValidEvent(i) <=> ~Contradicts(i)
            BY <3>1, <3>4 DEF ValidEvent, Contradicts, v
        <3>6. Contradicts(i) => events[i].status # "HIT"
            BY <3>1 DEF Contradicts, CountsOf, Affirms
        <3> QED
            BY <3>5, <3>6
    <2>2. bytes = BytesOf(entries, DOMAIN entries) /\ bytes <= MaxBytes
        BY DEF BenchmarkInv, CacheBounded
    <2> QED
        BY <2>1, <2>2, ReportCounts DEF EvidenceHolds
<1> QED
    BY BenchmarkInvariant, <1>1, PTL
================================================================================
