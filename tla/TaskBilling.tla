------------------------------ MODULE TaskBilling ------------------------------
(***************************************************************************)
(* The billing life of an asynchronous task: submission (controller/       *)
(* relay.go), polling and timeout (service/task_polling.go), cancellation  *)
(* (middleware/task_plugin_lifecycle.go), a client's realtime fetch        *)
(* (relay/relay_task.go), usage reconciliation (service/task_usage_        *)
(* reconciliation.go) and the billing_recovery sweeps, all of them driving *)
(* the settlement journal.                                                 *)
(*                                                                         *)
(* Every handler reads the task row into memory and later writes it back   *)
(* under a compare-and-swap on status; job[w] is what worker w holds in    *)
(* memory between those steps.                                             *)
(*                                                                         *)
(* Abstractions.  NOT_START, SUBMITTED and QUEUED are one status.  The     *)
(* consecutive-failure counter of the poller is a choice: a failed poll    *)
(* either rewrites the row or fails the task.  What upstream measures for  *)
(* a task is one value, actual[t].  Usage facts that cannot be priced,     *)
(* which the code keeps pending and evaluates again at every pass, are one *)
(* of the bounded faults: their handler stops.  Text, URLs and plugin      *)
(* state are left out, and so are legacy tasks (never refunded) and        *)
(* personal pricing.                                                       *)
(***************************************************************************)
EXTENDS SettlementJournal

CONSTANTS PerCall,     \* tasks with PerCallBilling
          TokenPriced, \* tasks with neither a tiered snapshot nor PerCallBilling
          Overreports, \* tasks whose upstream reports progress 100% while running
          Orphans,     \* tasks whose channel is deleted while they run
          Cancellable, \* tasks whose upstream protocol can cancel or delete
          Realtime,    \* tasks of Gemini and Vertex channels
          MaxFaults    \* bound on database errors and crashes

ASSUME TaskConstants ==
    /\ PerCall \subseteq Tasks /\ TokenPriced \subseteq Tasks \ PerCall
    /\ Overreports \subseteq Tasks /\ Orphans \subseteq Tasks /\ Cancellable \subseteq Tasks
    /\ Realtime \subseteq Tasks \ Enhanced
    /\ MaxFaults \in Nat

VARIABLES
    status,   \* tasks.status; "none" before the row exists
    full,     \* tasks.progress = "100%"
    usage,    \* "none"; usage_pending with facts still "unknown" or "known"; "settled"
    held,     \* UsageReconciliation.ReservedQuota
    actual,   \* the quota of what upstream will measure
    begun,    \* tasks whose request has reached persistence
    job,      \* [Workers -> the handler's next step and its copy of the row]
    faults    \* faults so far

taskvars == <<status, full, usage, held, actual, begun>>
tvars == <<jvars, taskvars, job, faults>>

Running  == {"submitted", "inProgress"}
Terminal == {"success", "failure"}
Statuses == {"none"} \cup Running \cup Terminal
Usages   == {"none", "unknown", "known", "settled"}

\* usage_pending
Measuring == {"unknown", "known"}

Steps == {"idle", "settle", "settling", "giveBack", "poll", "cancel", "fetch", "failed",
          "failing", "refund", "reconcile", "reconciling", "ack", "touch", "measure", "plain"}

\* st, q, u and h are the status, quota, usage state and ReservedQuota in memory.
Job(at, t, s, q, u, h) == [at |-> at, task |-> t, st |-> s, q |-> q, u |-> u, h |-> h]

Jobs == [at : Steps, task : Tasks, st : Statuses, q : Quotas, u : Usages, h : Quotas]

Idle == Job("idle", CHOOSE t \in Tasks : TRUE, "none", 0, "none", 0)

Start(w, j)  == job' = [job EXCEPT ![w] = j]
Goto(w, at)  == job' = [job EXCEPT ![w].at = at]
Done(w)      == Start(w, Idle)

At(w, at) == job[w].at = at /\ pc[w] = "idle"

Returned(w, at) == job[w].at = at /\ pc[w] \in {"ok", "err"} /\ Return(w)
--------------------------------------------------------------------------------
(* Submission: executeTaskSubmissionWith *)

\* The row is inserted, running or already terminal; an immediate failure is
\* charged 0.  The task is durable from here on.
PersistTask(w, t, s) ==
    /\ At(w, "idle")
    /\ t \notin begun \cup Enhanced
    /\ s = "failure" => charge[t] = 0
    /\ begun' = begun \cup {t}
    /\ status' = [status EXCEPT ![t] = s]
    /\ full' = [full EXCEPT ![t] = s \in Terminal]
    /\ Start(w, Job("settle", t, s, charge[t], "none", 0))
    /\ UNCHANGED <<jvars, usage, held, actual, faults>>

\* Upstream refused the task, the client went away or the insert failed: the
\* deferred Refund gives the reservation back.
PersistFails(w, t) ==
    /\ At(w, "idle")
    /\ t \notin begun
    /\ begun' = begun \cup {t}
    /\ Start(w, Job("giveBack", t, "none", 0, "none", 0))
    /\ UNCHANGED <<jvars, status, full, usage, held, actual, faults>>

\* PersistSeedanceEnhanceSubmission: one transaction creates the row with quota
\* 0 and the settlement fact.
PersistEnhanced(w, t) ==
    LET key == Key("settle", t)
    IN  /\ At(w, "idle")
        /\ t \in Enhanced \ begun
        /\ begun' = begun \cup {t}
        /\ opened' = opened \cup {key}
        /\ Ensure(w, key, SettleFact(t, FALSE))
        /\ status' = [status EXCEPT ![t] = "submitted"]
        /\ Start(w, Job("settling", t, "submitted", 0, "none", 0))
        /\ UNCHANGED <<full, usage, held, actual, faults>>

\* expenseConfirmed: an immediate result is final, except a tiered success
\* whose usage facts could not be evaluated.
Confirms(t, s) ==
    CASE s = "failure" -> {TRUE}
      [] s = "success" -> IF t \in PerCall \cup TokenPriced THEN {TRUE} ELSE BOOLEAN
      [] OTHER         -> {FALSE}

\* A session submits its fact and waits for the journal.
SessionRuns(w, k, fact) ==
    LET key == Key(k, job[w].task)
    IN  Ensure(w, key, fact) /\ opened' = opened \cup {key}

\* SettleOrganizationInvoiceTaskSubmission
SubmitSettle(w) ==
    /\ At(w, "settle")
    /\ \E c \in Confirms(job[w].task, job[w].st) :
          SessionRuns(w, "settle", SettleFact(job[w].task, c))
    /\ Goto(w, "settling")
    /\ UNCHANGED <<taskvars, faults>>

\* Mutant: every failed settlement gives the reservation back.
SettleReturns_AlwaysRefund(w) ==
    /\ Returned(w, "settling")
    /\ IF pc[w] = "err" THEN Goto(w, "giveBack") ELSE Done(w)
    /\ UNCHANGED <<taskvars, faults>>

\* A settlement error goes to the client.  An enhanced submission becomes
\* durable only when its settlement returns without one.
SettleReturns(w) ==
    /\ Returned(w, "settling")
    /\ IF pc[w] = "err" /\ job[w].task \in Enhanced THEN Goto(w, "giveBack") ELSE Done(w)
    /\ UNCHANGED <<taskvars, faults>>

\* BillingSession.Refund of a session that did not record its settlement.
GiveBack(w) ==
    /\ At(w, "giveBack")
    /\ IF reserved[job[w].task] = 0
       THEN Done(w) /\ UNCHANGED jvars
       ELSE SessionRuns(w, "refund", RefundFact(job[w].task)) /\ Goto(w, "plain")
    /\ UNCHANGED <<taskvars, faults>>
--------------------------------------------------------------------------------
(* Writers of the status: they read the row, talk to upstream, and write the *)
(* whole row back.                                                            *)

ReadRow(w, t, at) == Start(w, Job(at, t, status[t], quota[t], usage[t], held[t]))

\* GetAllUnFinishSyncTasks and GetTimedOutUnfinishedTasks skip progress 100%.
ReadTask(w, t) ==
    /\ At(w, "idle")
    /\ status[t] \in Running
    /\ ~full[t]
    /\ ReadRow(w, t, "poll")
    /\ UNCHANGED <<jvars, taskvars, faults>>

\* A client deletes a running task and upstream has agreed.
ReadForCancel(w, t) ==
    /\ At(w, "idle")
    /\ t \in Cancellable
    /\ status[t] \in Running
    /\ ReadRow(w, t, "cancel")
    /\ UNCHANGED <<jvars, taskvars, faults>>

\* A client asks for a Gemini or Vertex task, whatever its status.
ReadForFetch(w, t) ==
    /\ At(w, "idle")
    /\ t \in Realtime
    /\ status[t] # "none"
    /\ ReadRow(w, t, "fetch")
    /\ UNCHANGED <<jvars, taskvars, faults>>

\* Mutant: the quota in memory is written for enhanced tasks too.
Written_Stale(t, q) == q

\* UpdateWithStatus writes the caller's quota; for an enhanced task the row's
\* own quota, which the journal owns, is merged in.
Written(t, q) == IF t \in Enhanced THEN quota[t] ELSE q

\* Mutant: the row is written whatever its status is now.
Swap_NoCompare(w, s, f, u, h) ==
    LET t == job[w].task
    IN  /\ status' = [status EXCEPT ![t] = s]
        /\ full' = [full EXCEPT ![t] = f]
        /\ usage' = [usage EXCEPT ![t] = u]
        /\ held' = [held EXCEPT ![t] = h]
        /\ quota' = [quota EXCEPT ![t] = Written(t, job[w].q)]
        /\ UNCHANGED <<reserved, charge, net, row, receipt, logged, posted, opened, pc, cur>>
        /\ UNCHANGED <<actual, begun, faults>>

\* UpdateWithStatus(st), won: the status is still the one that was read.
Swap(w, s, f, u, h) ==
    LET t == job[w].task
    IN  /\ status[t] = job[w].st
        /\ status' = [status EXCEPT ![t] = s]
        /\ full' = [full EXCEPT ![t] = f]
        /\ usage' = [usage EXCEPT ![t] = u]
        /\ held' = [held EXCEPT ![t] = h]
        /\ quota' = [quota EXCEPT ![t] = Written(t, job[w].q)]
        /\ UNCHANGED <<reserved, charge, net, row, receipt, logged, posted, opened, pc, cur>>
        /\ UNCHANGED <<actual, begun, faults>>

\* UpdateWithStatus, lost: nothing is written and billing is skipped.
SwapLost(w) ==
    /\ \E at \in {"poll", "cancel", "fetch"} : At(w, at)
    /\ status[job[w].task] # job[w].st
    /\ Done(w)
    /\ UNCHANGED <<jvars, taskvars, faults>>

\* A running answer, or a poll failure below the limit (recordPollFailure).
PollRunning(w) ==
    /\ At(w, "poll")
    /\ \E s \in Running, f \in BOOLEAN :
          /\ f => job[w].task \in Overreports
          /\ Swap(w, s, f, job[w].u, job[w].h)
    /\ Done(w)

\* finalizeTerminalTask: a pending usage is reconciled; a failure is settled;
\* a success without usage keeps its quota.
Finalize(w, s, u, h) ==
    LET t == job[w].task
        q == Written(t, job[w].q)
    IN  CASE u \in Measuring                   -> Start(w, Job("reconcile", t, s, q, u, h))
          [] u \notin Measuring /\ s = "failure" -> Start(w, Job("failed", t, s, q, u, h))
          [] OTHER                             -> Done(w)

\* StageTaskUsageReconciliation: usage_pending is written with the status.
\* A token-priced result without tokens is not staged.
PollSucceeded(w) ==
    LET q == Written(job[w].task, job[w].q)
        Succeed(u, h) == Swap(w, "success", TRUE, u, h) /\ Finalize(w, "success", u, h)
    IN  /\ At(w, "poll")
        /\ \/ job[w].task \in TokenPriced /\ Succeed(job[w].u, job[w].h)
           \/ \E u \in Measuring : Succeed(u, q)

\* A failure answer, HTTP 404, or the poll failure limit (failTaskFromPoll).
PollFailed(w) ==
    /\ At(w, "poll")
    /\ Swap(w, "failure", TRUE, job[w].u, job[w].h)
    /\ Finalize(w, "failure", job[w].u, job[w].h)

\* sweepTimedOutTasks and cancelTaskAfterUpstream refund a quota that is not 0.
FailAndRefund(w) ==
    LET q == Written(job[w].task, job[w].q)
    IN  /\ Swap(w, "failure", TRUE, job[w].u, job[w].h)
        /\ IF q = 0 THEN Done(w)
           ELSE Start(w, Job("refund", job[w].task, "failure", q, job[w].u, job[w].h))

TimeOut(w) == At(w, "poll") /\ FailAndRefund(w)

Cancel(w) == At(w, "cancel") /\ FailAndRefund(w)

\* tryRealtimeFetch writes a changed answer of upstream (another status,
\* progress or URL), from any status, and settles nothing.  A success is final
\* for upstream; a failure may have been decided here (a timeout) while
\* upstream goes on.  The progress is what the answer says, or, when it says
\* none, what was read.
RealtimeFetch(w) ==
    /\ At(w, "fetch")
    /\ \E s \in {"inProgress"} \cup Terminal, f \in BOOLEAN :
          /\ job[w].st = "success" => s = "success"
          /\ Swap(w, s, f, job[w].u, job[w].h)
    /\ Done(w)

\* The answer equals the row that was read: nothing is written.
FetchUnchanged(w) ==
    /\ At(w, "fetch")
    /\ Done(w)
    /\ UNCHANGED <<jvars, taskvars, faults>>

\* TaskBulkUpdateByID for a channel that is gone: no compare-and-swap.
BulkFail(w) ==
    /\ At(w, "poll")
    /\ job[w].task \in Orphans
    /\ status' = [status EXCEPT ![job[w].task] = "failure"]
    /\ full' = [full EXCEPT ![job[w].task] = TRUE]
    /\ Done(w)
    /\ UNCHANGED <<jvars, usage, held, actual, begun, faults>>
--------------------------------------------------------------------------------
(* Settling a failed task *)

\* RecalculateTaskQuota of a caller that holds q = a: nothing to move.
ConfirmQuota(t, a) ==
    /\ ConfirmExpense(Key("recalculate", t), a)
    /\ UNCHANGED <<opened, pc, cur>>

\* settleTaskBillingOnComplete of a failed task: token usage is charged, and
\* the refund is skipped if that succeeds.
FinalizeFailure(w) ==
    LET t == job[w].task
        q == job[w].q
        a == actual[t]
    IN  /\ At(w, "failed")
        /\ \/ UNCHANGED jvars /\ Goto(w, "refund")
           \/ /\ t \in TokenPriced /\ q # a
              /\ TaskSubmit(w, Key("recalculate", t), RecalculateFact(q, a))
              /\ Goto(w, "failing")
           \/ t \in TokenPriced /\ q = a /\ ConfirmQuota(t, a) /\ Done(w)
        /\ UNCHANGED <<taskvars, faults>>

\* An error of the recalculation is refunded when the quota came from tokens and
\* ignored when the adaptor computed it.
FailureRecalculated(w) ==
    /\ Returned(w, "failing")
    /\ (pc[w] = "err" /\ Goto(w, "refund")) \/ Done(w)
    /\ UNCHANGED <<taskvars, faults>>

\* RefundTaskQuota with the quota the caller holds.
RefundTask(w) ==
    LET key == Key("taskRefund", job[w].task)
    IN  /\ At(w, "refund")
        /\ IF job[w].q = 0
           THEN ConfirmExpense(key, 0) /\ UNCHANGED <<opened, pc, cur>> /\ Done(w)
           ELSE TaskSubmit(w, key, TaskRefundFact(job[w].q)) /\ Goto(w, "plain")
        /\ UNCHANGED <<taskvars, faults>>
--------------------------------------------------------------------------------
(* Usage reconciliation of successful tasks *)

\* A per-call task is confirmed at what it holds.
Measured(t, q) == IF t \in PerCall THEN q ELSE actual[t]

\* PersistTaskUsage writes the caller's copy if the row is still pending.
PersistUsage(t, u, h) ==
    IF usage[t] \in Measuring /\ status[t] = "success"
    THEN usage' = [usage EXCEPT ![t] = u] /\ held' = [held EXCEPT ![t] = h]
    ELSE UNCHANGED <<usage, held>>

KeepPending(w) == PersistUsage(job[w].task, job[w].u, job[w].h) /\ Done(w)

\* settleReconciledTaskUsage gives up for now: the measurement is pending or the
\* confirmation is refused.
StillPending(w) ==
    /\ At(w, "reconcile")
    /\ \/ job[w].u = "unknown"
       \/ /\ job[w].h = Measured(job[w].task, job[w].h)
          /\ ~ConfirmAllowed(job[w].task, job[w].h, "recalculate")
    /\ KeepPending(w)
    /\ UNCHANGED <<jvars, status, full, actual, begun, faults>>

\* settleReconciledTaskUsage: every retry uses the same reserved and final quota.
\* An expression that cannot be evaluated on the facts ends the handler (Fault).
Reconcile(w) ==
    LET t == job[w].task
        q == job[w].h
        a == Measured(t, q)
    IN  /\ At(w, "reconcile")
        /\ job[w].u = "known"
        /\ \/ q = a /\ ConfirmQuota(t, a) /\ Goto(w, "ack")
           \/ /\ q # a
              /\ TaskSubmit(w, Key("recalculate", t), RecalculateFact(q, a))
              /\ Goto(w, "reconciling")
        /\ UNCHANGED <<taskvars, faults>>

\* Mutant: a failed recalculation is acknowledged.
ReconcileReturns_AckAlways(w) ==
    /\ Returned(w, "reconciling")
    /\ Goto(w, "ack")
    /\ UNCHANGED <<taskvars, faults>>

ReconcileReturns(w) ==
    /\ Returned(w, "reconciling")
    /\ IF pc[w] = "ok" THEN Goto(w, "ack") /\ UNCHANGED <<usage, held>> ELSE KeepPending(w)
    /\ UNCHANGED <<status, full, actual, begun, faults>>

\* PersistTaskUsage(task, true)
AckUsage(w) ==
    /\ At(w, "ack")
    /\ PersistUsage(job[w].task, "settled", job[w].h)
    /\ Done(w)
    /\ UNCHANGED <<jvars, status, full, actual, begun, faults>>

\* Mutant: only tasks whose measurement is complete are listed.
ListUsage_KnownOnly(w, t) ==
    /\ At(w, "idle")
    /\ status[t] = "success"
    /\ usage[t] = "known"
    /\ ReadRow(w, t, "reconcile")
    /\ UNCHANGED <<jvars, taskvars, faults>>

\* RunTaskUsageReconciliationOnce reads a pending task ...
ListUsage(w, t) ==
    /\ At(w, "idle")
    /\ status[t] = "success"
    /\ usage[t] \in Measuring
    /\ ReadRow(w, t, IF usage[t] = "known" THEN "reconcile" ELSE "touch")
    /\ UNCHANGED <<jvars, taskvars, faults>>

\* ... writes its copy back before asking upstream ...
TouchUsage(w) ==
    /\ At(w, "touch")
    /\ PersistUsage(job[w].task, job[w].u, job[w].h)
    /\ Goto(w, "measure")
    /\ UNCHANGED <<jvars, status, full, actual, begun, faults>>

\* ... and persists the measured facts, with the quota it read as reserved.
MeasureUsage(w) ==
    /\ At(w, "measure")
    /\ PersistUsage(job[w].task, "known", job[w].q)
    /\ Start(w, [job[w] EXCEPT !.at = "reconcile", !.u = "known", !.h = job[w].q])
    /\ UNCHANGED <<jvars, status, full, actual, begun, faults>>

\* Upstream has no usable answer yet.
MeasureFails(w) ==
    /\ At(w, "measure")
    /\ Done(w)
    /\ UNCHANGED <<jvars, taskvars, faults>>
--------------------------------------------------------------------------------
(* billing_recovery, the journal's steps and faults *)

\* SweepPendingRefunds lists a failed task that still holds quota.
ListFailed(w, t) ==
    /\ At(w, "idle")
    /\ status[t] = "failure"
    /\ quota[t] > 0
    /\ ReadRow(w, t, "refund")
    /\ UNCHANGED <<jvars, taskvars, faults>>

\* SweepPendingTaskSettlements
SweepJournal(w, key) ==
    /\ job[w].at = "idle"
    /\ SweepPick(w, key)
    /\ Goto(w, "plain")
    /\ UNCHANGED <<taskvars, faults>>

PlainReturns(w) == Returned(w, "plain") /\ Done(w) /\ UNCHANGED <<taskvars, faults>>

RunJournal(w) == JournalStep(w) /\ UNCHANGED <<taskvars, job, faults>>

\* The journal cannot be written, or the expression cannot price the facts: the
\* submitter gets an error.
EnsureFault(w) ==
    LET t  == job[w].task
        no == UNCHANGED opened
        Fails(at, k, next) ==
            At(w, at) /\ EnsureFails(w, Key(k, t), NoRow) /\ Goto(w, next)
    IN  \/ Fails("settle", "settle", "settling") /\ opened' = opened \cup {Key("settle", t)}
        \/ Fails("giveBack", "refund", "plain") /\ opened' = opened \cup {Key("refund", t)}
        \/ Fails("failed", "recalculate", "failing") /\ t \in TokenPriced /\ no
        \/ Fails("reconcile", "recalculate", "reconciling") /\ job[w].u = "known" /\ no
        \/ Fails("refund", "taskRefund", "plain") /\ no

\* A database error, or the process dies between two steps.
Fault(w) ==
    /\ faults < MaxFaults
    /\ faults' = faults + 1
    /\ \/ StepFails(w) /\ UNCHANGED job
       \/ EnsureFault(w)
       \/ Crash(w) /\ Done(w)
       \/ job[w].at # "idle" /\ pc[w] = "idle" /\ Done(w) /\ UNCHANGED jvars
    /\ UNCHANGED taskvars
--------------------------------------------------------------------------------
TInit ==
    /\ JInit
    /\ \A t \in Tasks : charge[t] <= reserved[t]   \* ForcePreConsume, then Reserve
    /\ status = [t \in Tasks |-> "none"]
    /\ full = [t \in Tasks |-> FALSE]
    /\ usage = [t \in Tasks |-> "none"]
    /\ held = [t \in Tasks |-> 0]
    /\ actual \in [Tasks -> Quotas]
    /\ begun = {}
    /\ job = [w \in Workers |-> Idle]
    /\ faults = 0

Persist(w, t) ==
    \/ \E s \in {"submitted"} \cup Terminal : PersistTask(w, t, s)
    \/ PersistFails(w, t)
    \/ PersistEnhanced(w, t)

\* What a handler that has started does next, once upstream has answered.
Continue(w) ==
    \/ SubmitSettle(w) \/ SettleReturns(w) \/ GiveBack(w)
    \/ SwapLost(w) \/ PollSucceeded(w) \/ PollFailed(w) \/ TimeOut(w) \/ Cancel(w)
    \/ PollRunning(w) \/ BulkFail(w) \/ RealtimeFetch(w) \/ FetchUnchanged(w)
    \/ FinalizeFailure(w) \/ FailureRecalculated(w) \/ RefundTask(w)
    \/ StillPending(w) \/ Reconcile(w) \/ ReconcileReturns(w) \/ AckUsage(w)
    \/ TouchUsage(w) \/ MeasureUsage(w) \/ MeasureFails(w)
    \/ PlainReturns(w) \/ RunJournal(w)

\* The poll pass, the reconciler and the recovery sweeps list a row of t.
List(w, t) ==
    \/ ReadTask(w, t) \/ ListUsage(w, t) \/ ListFailed(w, t)
    \/ \E k \in Kinds : SweepJournal(w, Key(k, t))

TNext ==
    \E w \in Workers :
        \/ \E t \in Tasks :
              Persist(w, t) \/ List(w, t) \/ ReadForCancel(w, t) \/ ReadForFetch(w, t)
        \/ Continue(w)
        \/ Fault(w)

\* Handlers that have started go on, and the schedulers keep starting passes.
\* A task's age passes the timeout, after which each pass times it out before
\* polling it.  Upstream measures a successful task some day.
Fairness ==
    /\ \A w \in Workers : WF_tvars(Continue(w))
    /\ WF_tvars(\E w \in Workers, t \in Tasks : List(w, t))
    /\ \A t \in Tasks :
          /\ SF_tvars(\E w \in Workers : TimeOut(w) /\ job[w].task = t)
          /\ SF_tvars(\E w \in Workers : MeasureUsage(w) /\ job[w].task = t)

\* Every pass lists every row that it should.
SweepFairness ==
    \A t \in Tasks :
        /\ SF_tvars(\E w \in Workers : ReadTask(w, t))
        /\ SF_tvars(\E w \in Workers : ListUsage(w, t))
        /\ SF_tvars(\E w \in Workers : ListFailed(w, t))
        /\ \A k \in Kinds : SF_tvars(\E w \in Workers : SweepJournal(w, Key(k, t)))

TSafe == TInit /\ [][TNext]_tvars
TSpec == TSafe /\ Fairness
TSweptSpec == TSpec /\ SweepFairness
--------------------------------------------------------------------------------
(* Properties *)

\* Every variable has its type; a handler that is not inside the journal has
\* no journal step left.
TTypeOK ==
    /\ JTypeOK
    /\ status \in [Tasks -> Statuses]
    /\ full \in [Tasks -> BOOLEAN]
    /\ usage \in [Tasks -> Usages]
    /\ held \in [Tasks -> Quotas]
    /\ actual \in [Tasks -> Quotas]
    /\ begun \subseteq Tasks
    /\ job \in [Workers -> Jobs]
    /\ faults \in 0 .. MaxFaults
    /\ \A w \in Workers :
          pc[w] # "idle" => job[w].at \in {"settling", "failing", "reconciling", "plain"}

\* A session or a task is never given back more than was taken for it, however
\* refunds, settlements and recalculations of the same task interleave
\* (needsRefundLocked, RefundTaskQuota).
NeverOverRefunded == \A t \in Tasks : net[t] >= 0

\* Whatever a stale writer does to the status and the quota of a task, each of
\* its operations moves the balances at most once: a refund that is submitted
\* again after its row was deleted finds the receipt of the first one
\* (taskInvoiceExpenseReceiptTx).
AppliedOnce ==
    [][\A t \in Tasks :
          net'[t] # net[t] => \E k \in Kinds : Key(k, t) \in posted' \ posted]_tvars

\* The compare-and-swap of UpdateWithStatus keeps a terminal status: of two
\* pollers, a timeout sweep and a cancellation only one decides the outcome.
TerminalIsFinal ==
    [][\A t \in Tasks : status[t] \in Terminal => status'[t] = status[t]]_tvars

\* RefundTaskQuota refunds and zeroes task.quota atomically, and that is final:
\* only a failed task is refunded, no writer with an older copy of the row
\* brings the quota or another status back, and no recalculation charges it.
RefundIsFinal ==
    \A t \in Tasks :
        Key("taskRefund", t) \in posted => status[t] = "failure" /\ quota[t] = 0

\* An acknowledged usage reconciliation has charged what was measured, although
\* the measured facts, the journal and the acknowledgement are written in three
\* transactions and several reconcilers may overwrite each other's copy.
SettledAtMeasured ==
    \A t \in Tasks : usage[t] = "settled" => quota[t] = Measured(t, charge[t])

\* The final state of a task's bill.
SettledTask(t) ==
    \/ status[t] = "failure" /\ quota[t] = 0
    \/ status[t] = "success" /\ usage[t] = "settled"

\* Every task that was submitted is decided and its bill settled some day:
\* refunded after a failure, charged what was measured after a success, provided
\* that the measured facts can be priced some day.
EveryTaskSettles == \A t \in Tasks : status[t] \in Running ~> SettledTask(t)

\* A failed task gets its quota back some day (RefundTaskQuota, retried by
\* SweepPendingRefunds).
FailedRefunded == \A t \in Tasks : status[t] = "failure" ~> quota[t] = 0

\* A failed task whose usage was charged without error is not refunded as well
\* (settleTaskBillingOnComplete returned true).
ChargedFailureKept ==
    \A t \in Tasks : ~({Key("recalculate", t), Key("taskRefund", t)} \subseteq posted)

\* Persisted billing facts do not pile up: whatever failed on the way, again
\* and again every one of them has been applied, as long as fewer than the
\* sweep's limit of 100 rows before them conflict for good.
FactsApplied == []<>(\A key \in Keys : row[key].state # "pending")
--------------------------------------------------------------------------------
(* The inductive invariants that the proofs rest on. *)

SessionSteps == {"settle", "settling", "giveBack"}

\* A request's session is driven by one worker, which submits each of its
\* operations once.
SessionOwner ==
    /\ \A t \in Tasks, k \in SessionKinds : Key(k, t) \in opened => t \in begun
    /\ \A w \in Workers : job[w].at \in SessionSteps =>
          /\ job[w].task \in begun
          /\ Key("refund", job[w].task) \notin opened
          /\ job[w].at = "settle" => Key("settle", job[w].task) \notin opened
          /\ \A v \in Workers \ {w} :
                job[v].at \in SessionSteps => job[v].task # job[w].task

\* Whatever channels and clients do.
TCore == TTypeOK /\ JCore /\ SessionOwner

BillingSteps == {"failed", "failing", "refund", "reconcile", "reconciling", "ack", "touch", "measure"}

\* Without realtime fetches, only a decided task is billed by its outcome ...
BilledWhenDecided ==
    /\ \A t \in Tasks : status[t] # "none" => t \in begun
    /\ \A key \in Keys : key.kind \notin SessionKinds =>
          (row[key].state # "none" \/ key \in posted => status[key.task] \in Terminal)
    /\ \A w \in Workers :
          /\ job[w].at # "fetch"
          /\ job[w].at \in {"poll", "cancel"} =>
                job[w].st \in Running /\ status[job[w].task] # "none"
          /\ job[w].at \in BillingSteps => status[job[w].task] \in Terminal

\* ... and until then the row and every copy of it hold the quota charged.
ChargedUntilDecided ==
    /\ \A t \in Tasks \ Enhanced : status[t] \notin Terminal => quota[t] = charge[t]
    /\ \A w \in Workers :
          job[w].at \in {"poll", "cancel"} /\ job[w].task \notin Enhanced =>
              job[w].q = charge[job[w].task]

\* Realtime = {}
TLedgerInv == TCore /\ BilledWhenDecided /\ ChargedUntilDecided /\ Reconciled

Recalculated(t) == Key("recalculate", t) \in posted
Refunded(t)     == Key("taskRefund", t) \in posted

\* Only a failed task is refunded.
RefundsFailures ==
    /\ \A t \in Tasks :
          row[Key("taskRefund", t)].state # "none" \/ Refunded(t) => status[t] = "failure"
    /\ \A w \in Workers :
          job[w].at \in {"failed", "failing", "refund"} => status[job[w].task] = "failure"

\* The quota column of a direct task is a function of the operations posted.
QuotaFollowsPostings ==
    \A t \in Tasks :
        /\ quota[t] = IF Refunded(t) THEN 0 ELSE IF Recalculated(t) THEN actual[t] ELSE charge[t]
        /\ Refunded(t) /\ ~Recalculated(t) => charge[t] # 0

\* A direct task is recalculated from its charge to its measurement.
RecalculatesCharge ==
    \A t \in Tasks : LET r == row[Key("recalculate", t)] IN
        /\ r.state # "none" => r.expected = charge[t] /\ r.final = actual[t]
        /\ r.state # "none" \/ Recalculated(t) => charge[t] # actual[t] /\ t \notin PerCall

\* A reserved quota that a reconciler may have read.
KnownQuota(t, q) == q = charge[t] \/ (Recalculated(t) /\ q = actual[t])

UsageSteps == {"reconcile", "reconciling", "ack", "touch", "measure"}

\* The usage state and its copies: however stale, they hold a known quota.
UsageCopies ==
    /\ \A t \in Tasks :
          /\ status[t] \notin Terminal => usage[t] = "none"
          /\ usage[t] \in Measuring => KnownQuota(t, held[t])
    /\ \A w \in Workers :
          /\ job[w].at \in {"poll", "cancel"} => job[w].u = "none"
          /\ job[w].at = "failed" => job[w].q = charge[job[w].task]
          /\ job[w].at \in UsageSteps =>
                job[w].u \in Measuring /\ KnownQuota(job[w].task, job[w].h)
          /\ job[w].at \in {"touch", "measure"} => KnownQuota(job[w].task, job[w].q)

\* A session gives its reservation back only if no task was created.
GivesBackUnborn ==
    /\ \A t \in Tasks : charge[t] <= reserved[t]
    /\ \A t \in Tasks : Key("refund", t) \in opened =>
          Key("settle", t) \notin opened /\ status[t] = "none"
    /\ \A w \in Workers :
          /\ job[w].at = "giveBack" =>
                Key("settle", job[w].task) \notin opened /\ status[job[w].task] = "none"
          /\ job[w].at \in {"settle", "settling"} => status[job[w].task] # "none"

\* Realtime = {} and Enhanced = {}
TDirectInv ==
    /\ TLedgerInv /\ RefundsFailures /\ QuotaFollowsPostings
    /\ RecalculatesCharge /\ UsageCopies /\ GivesBackUnborn

\* Nothing is left to move, or it has been moved.
Charged(t) == t \in PerCall \/ charge[t] = actual[t] \/ Recalculated(t)

\* A worker that goes through, or is done with, the recalculation of a task.
PastApply(w) == job[w].at = "reconciling" /\ pc[w] \in {"log", "mark", "delete", "ok"}

\* An applied recalculation of a successful task has been posted, whether the
\* money transaction or a surviving receipt marked it applied.
AppliedIsPosted ==
    \A t \in Tasks :
        /\ receipt[t].source = "recalculate" => status[t] \in Terminal
        /\ status[t] = "success" =>
              /\ row[Key("recalculate", t)].state = "applied" => Recalculated(t)
              /\ receipt[t].source = "recalculate" /\ receipt[t].applied => Charged(t)

\* The usage of a successful task is acknowledged only after that.
AckedIsCharged ==
    /\ \A t \in Tasks : usage[t] # "none" => status[t] = "success"
    /\ \A t \in Tasks : usage[t] = "settled" => Charged(t)
    /\ \A w \in Workers :
          /\ job[w].at \in UsageSteps => status[job[w].task] = "success"
          /\ job[w].at = "ack" => Charged(job[w].task)
          /\ job[w].at = "reconciling" /\ pc[w] # "idle" =>
                cur[w] = Key("recalculate", job[w].task)
          /\ PastApply(w) => Recalculated(job[w].task)

\* Realtime = {}, Enhanced = {} and Orphans = {}
TSettledInv == TDirectInv /\ AppliedIsPosted /\ AckedIsCharged
================================================================================
