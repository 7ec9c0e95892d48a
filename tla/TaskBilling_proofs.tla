--------------------------- MODULE TaskBilling_proofs ---------------------------
(***************************************************************************)
(* Proofs about TaskBilling.  TCore holds for every kind of task; the      *)
(* other inductive invariants hold under an assumption on the constants,   *)
(* which each theorem names: the kinds of task it leaves out are those for *)
(* which TLC finds a counterexample.                                       *)
(***************************************************************************)
EXTENDS TaskBilling, SettlementJournal_proofs

\* A handler's memory is a record with these fields.
LEMMA JobFacts ==
    ASSUME NEW at \in Steps, NEW t \in Tasks, NEW s \in Statuses, NEW q \in Quotas,
           NEW u \in Usages, NEW h \in Quotas
    PROVE  /\ Job(at, t, s, q, u, h) \in Jobs
           /\ Job(at, t, s, q, u, h).at = at /\ Job(at, t, s, q, u, h).task = t
           /\ Job(at, t, s, q, u, h).st = s /\ Job(at, t, s, q, u, h).q = q
           /\ Job(at, t, s, q, u, h).u = u /\ Job(at, t, s, q, u, h).h = h
BY DEF Job, Jobs

\* A worker without a handler.
LEMMA IdleFacts == Idle \in Jobs /\ Idle.at = "idle"
<1>1. \E t \in Tasks : TRUE BY ConstantsAssumption
<1>2. (CHOOSE t \in Tasks : TRUE) \in Tasks BY <1>1
<1>3. 0 \in Quotas BY NoRowIsRow
<1> QED BY <1>2, <1>3, JobFacts DEF Idle, Steps, Statuses, Usages

\* Starting, finishing and moving a handler concern one worker only.
LEMMA StartFacts ==
    ASSUME job \in [Workers -> Jobs], NEW w \in Workers, NEW j \in Jobs, Start(w, j)
    PROVE  /\ job' \in [Workers -> Jobs] /\ job'[w] = j
           /\ \A v \in Workers \ {w} : job'[v] = job[v]
BY DEF Start

\* The same for Goto, which keeps what the handler holds.
LEMMA GotoFacts ==
    ASSUME job \in [Workers -> Jobs], NEW w \in Workers, NEW at \in Steps, Goto(w, at)
    PROVE  /\ job' \in [Workers -> Jobs]
           /\ job'[w].at = at /\ job'[w].task = job[w].task /\ job'[w].st = job[w].st
           /\ job'[w].q = job[w].q /\ job'[w].u = job[w].u /\ job'[w].h = job[w].h
           /\ \A v \in Workers \ {w} : job'[v] = job[v]
BY DEF Goto, Jobs

\* Every initial state satisfies TCore.
LEMMA InitTCore == TInit => TCore
<1> SUFFICES ASSUME TInit PROVE TCore OBVIOUS
<1>1. JCore BY InitJInv DEF TInit, JInv
<1>2. TTypeOK
  <2>1. job \in [Workers -> Jobs] /\ \A w \in Workers : job[w].at = "idle"
    BY IdleFacts DEF TInit
  <2>2. JTypeOK BY <1>1 DEF JCore
  <2>3. 0 \in 0 .. MaxFaults /\ 0 \in Quotas BY TaskConstants, NoRowIsRow
  <2>4. \A w \in Workers : pc[w] = "idle" BY DEF TInit, JInit
  <2> QED BY <2>1, <2>2, <2>3, <2>4 DEF TInit, TTypeOK, Statuses, Usages
<1>3. SessionOwner
  <2>1. opened = {} /\ \A w \in Workers : job[w].at = "idle"
    BY IdleFacts DEF TInit, JInit
  <2> QED BY <2>1 DEF SessionOwner, SessionSteps
<1> QED BY <1>1, <1>2, <1>3 DEF TCore
--------------------------------------------------------------------------------
(* What the steps of TaskBilling do to the journal. *)

\* What a worker holds has the types of the row it copies.
LEMMA JobTypes ==
    ASSUME TTypeOK, NEW w \in Workers
    PROVE  /\ job[w] \in Jobs /\ job[w].at \in Steps /\ job[w].task \in Tasks
           /\ job[w].st \in Statuses /\ job[w].q \in Quotas /\ job[w].u \in Usages
           /\ job[w].h \in Quotas
BY DEF TTypeOK, Jobs

\* The amounts a step may read are quotas.
LEMMA RowTypes ==
    ASSUME TTypeOK, NEW t \in Tasks
    PROVE  /\ quota[t] \in Quotas /\ charge[t] \in Quotas /\ reserved[t] \in Quotas
           /\ actual[t] \in Quotas /\ held[t] \in Quotas
           /\ status[t] \in Statuses /\ usage[t] \in Usages
BY DEF TTypeOK, JTypeOK

\* JCore does not depend on the value of tasks.quota.
LEMMA QuotaWrite ==
    ASSUME JCore, quota' \in [Tasks -> Quotas],
           UNCHANGED <<reserved, charge, net, row, receipt, logged, posted, opened, pc, cur>>
    PROVE  JCore'
<1>1. JTypeOK' BY DEF JCore, JTypeOK
<1>2. RowFacts' /\ SessionOnce' /\ PendingNotPosted' /\ ReceiptGuards'
  BY DEF JCore, RowFacts, SessionOnce, PendingNotPosted, ReceiptGuards
<1>3. LogBeforeDone' /\ LogNotLost'
  BY DEF JCore, LogBeforeDone, LogNotLost, Pending
<1> QED BY <1>1, <1>2, <1>3 DEF JCore

\* A won compare-and-swap writes a quota.
LEMMA SwapJCore ==
    ASSUME TCore, NEW w \in Workers, NEW s, NEW f, NEW u, NEW h, Swap(w, s, f, u, h)
    PROVE  JCore'
<1>1. job[w].task \in Tasks /\ job[w].q \in Quotas /\ quota \in [Tasks -> Quotas]
  BY JobTypes DEF TCore, TTypeOK, JTypeOK
<1>2. Written(job[w].task, job[w].q) \in Quotas
  BY <1>1 DEF Written
<1>3. quota' \in [Tasks -> Quotas]
  BY <1>1, <1>2 DEF Swap
<1> QED BY <1>3, QuotaWrite DEF Swap, TCore

\* A session's operation that was not submitted before.
LEMMA SessionEnsure ==
    ASSUME JCore, NEW w \in Workers, NEW t \in Tasks, NEW k \in SessionKinds,
           NEW fact, GoodFact(Key(k, t), fact), Key(k, t) \notin opened,
           Ensure(w, Key(k, t), fact) \/ EnsureFails(w, Key(k, t), NoRow),
           opened' = opened \cup {Key(k, t)}
    PROVE  JCore'
<1>1. Key(k, t) \in Keys /\ Key(k, t).kind = k
  BY KeyFacts DEF SessionKinds, Kinds
<1>2. opened' \subseteq Keys /\ opened \subseteq opened'
  BY <1>1 DEF JCore, JTypeOK
<1> QED BY <1>1, <1>2, EnsureStep, EnsureFailsStep

\* The operations of a task.
LEMMA TaskEnsure ==
    ASSUME JCore, NEW w \in Workers, NEW t \in Tasks,
           \/ \E q, a \in Quotas : q # a /\ TaskSubmit(w, Key("recalculate", t), RecalculateFact(q, a))
           \/ \E q \in Quotas \ {0} : TaskSubmit(w, Key("taskRefund", t), TaskRefundFact(q))
    PROVE  JCore'
<1>1. Submit(w) BY DEF Submit
<1> QED BY <1>1, SubmitStep

\* A confirmed expense that moves nothing.
LEMMA Confirming ==
    ASSUME JCore, NEW t \in Tasks, NEW q \in Quotas,
           ConfirmExpense(Key("taskRefund", t), 0) \/ ConfirmExpense(Key("recalculate", t), q),
           UNCHANGED <<opened, pc, cur>>
    PROVE  JCore'
<1>1. ConfirmOnly BY DEF ConfirmOnly
<1> QED BY <1>1, ConfirmStep

\* The journal's part of TCore is kept by every step of every handler.
LEMMA HandlerJCore ==
    ASSUME TCore, NEW w \in Workers, Continue(w)
    PROVE  JCore'
<1> USE JobTypes DEF TCore
<1>1. CASE SubmitSettle(w)
  <2>1. PICK c \in BOOLEAN : SessionRuns(w, "settle", SettleFact(job[w].task, c))
    BY <1>1 DEF SubmitSettle, Confirms
  <2>2. Key("settle", job[w].task) \notin opened
    BY <1>1 DEF SubmitSettle, At, SessionOwner, SessionSteps
  <2> QED BY <2>1, <2>2, SubmittedFacts, SessionEnsure DEF SessionRuns, SessionKinds
<1>2. CASE GiveBack(w)
  <2>1. Key("refund", job[w].task) \notin opened
    BY <1>2 DEF GiveBack, At, SessionOwner, SessionSteps
  <2>2. CASE reserved[job[w].task] = 0
    BY <1>2, <2>2, StutterStep DEF GiveBack, jvars
  <2>3. CASE reserved[job[w].task] # 0
    BY <1>2, <2>1, <2>3, SubmittedFacts, SessionEnsure DEF GiveBack, SessionRuns, SessionKinds
  <2> QED BY <2>2, <2>3
<1>3. CASE SettleReturns(w) \/ FailureRecalculated(w) \/ ReconcileReturns(w) \/ PlainReturns(w)
  BY <1>3, ControlActions DEF SettleReturns, FailureRecalculated, ReconcileReturns, PlainReturns, Returned
<1>4. CASE \/ SwapLost(w) \/ BulkFail(w) \/ FetchUnchanged(w) \/ StillPending(w) \/ AckUsage(w)
           \/ TouchUsage(w) \/ MeasureUsage(w) \/ MeasureFails(w)
  BY <1>4, StutterStep
     DEF SwapLost, BulkFail, FetchUnchanged, StillPending, AckUsage, TouchUsage, MeasureUsage, MeasureFails, jvars
<1>5. CASE \/ PollSucceeded(w) \/ PollFailed(w) \/ TimeOut(w) \/ Cancel(w) \/ PollRunning(w)
           \/ RealtimeFetch(w)
  BY <1>5, SwapJCore DEF PollSucceeded, PollFailed, TimeOut, Cancel, FailAndRefund, PollRunning, RealtimeFetch
<1>6. CASE FinalizeFailure(w)
  <2>1. actual[job[w].task] \in Quotas BY RowTypes
  <2>2. CASE UNCHANGED jvars BY <2>2, StutterStep DEF jvars
  <2>3. CASE /\ job[w].q # actual[job[w].task]
             /\ TaskSubmit(w, Key("recalculate", job[w].task), RecalculateFact(job[w].q, actual[job[w].task]))
    BY <2>1, <2>3, TaskEnsure
  <2>4. CASE ConfirmQuota(job[w].task, actual[job[w].task])
    BY <2>1, <2>4, Confirming DEF ConfirmQuota
  <2> QED BY <1>6, <2>2, <2>3, <2>4 DEF FinalizeFailure
<1>7. CASE RefundTask(w)
  <2>1. CASE job[w].q = 0
    BY <1>7, <2>1, NoRowIsRow, Confirming DEF RefundTask
  <2>2. CASE job[w].q # 0
    BY <1>7, <2>2, TaskEnsure DEF RefundTask
  <2> QED BY <2>1, <2>2
<1>8. CASE Reconcile(w)
  <2>1. Measured(job[w].task, job[w].h) \in Quotas BY RowTypes DEF Measured
  <2>2. CASE /\ job[w].h # Measured(job[w].task, job[w].h)
             /\ TaskSubmit(w, Key("recalculate", job[w].task),
                           RecalculateFact(job[w].h, Measured(job[w].task, job[w].h)))
    BY <2>1, <2>2, TaskEnsure
  <2>3. CASE ConfirmQuota(job[w].task, Measured(job[w].task, job[w].h))
    BY <2>1, <2>3, Confirming DEF ConfirmQuota
  <2> QED BY <1>8, <2>2, <2>3 DEF Reconcile
<1>9. CASE RunJournal(w)
  BY <1>9, ApplyNowStep, OutboxStep, ControlActions DEF RunJournal, JournalStep
<1> QED BY <1>1, <1>2, <1>3, <1>4, <1>5, <1>6, <1>7, <1>8, <1>9 DEF Continue

\* So it is by the beginnings of handlers and by faults.
LEMMA OtherJCore ==
    ASSUME TCore, NEW w \in Workers,
           \/ Fault(w)
           \/ \E t \in Tasks : Persist(w, t) \/ List(w, t) \/ ReadForCancel(w, t) \/ ReadForFetch(w, t)
    PROVE  JCore'
<1> USE JobTypes DEF TCore
<1>1. ASSUME NEW t \in Tasks, Persist(w, t) PROVE JCore'
  <2>1. CASE PersistEnhanced(w, t)
    <3>1. Key("settle", t) \notin opened
      BY <2>1 DEF PersistEnhanced, SessionOwner, SessionKinds
    <3> QED BY <2>1, <3>1, SubmittedFacts, SessionEnsure DEF PersistEnhanced, SessionKinds
  <2>2. CASE UNCHANGED jvars BY <2>2, StutterStep DEF jvars
  <2> QED BY <1>1, <2>1, <2>2 DEF Persist, PersistTask, PersistFails
<1>2. ASSUME NEW t \in Tasks, List(w, t) \/ ReadForCancel(w, t) \/ ReadForFetch(w, t) PROVE JCore'
  <2>1. CASE UNCHANGED jvars BY <2>1, StutterStep DEF jvars
  <2>2. CASE \E k \in Kinds : SweepJournal(w, Key(k, t))
    BY <2>2, KeyFacts, ControlActions DEF SweepJournal
  <2> QED BY <1>2, <2>1, <2>2 DEF List, ReadTask, ListUsage, ListFailed, ReadForCancel, ReadForFetch
<1>3. CASE Fault(w)
  <2>1. CASE StepFails(w) \/ Crash(w) BY <2>1, ControlActions
  <2>2. CASE UNCHANGED jvars BY <2>2, StutterStep DEF jvars
  <2>3. CASE EnsureFault(w)
    <3> DEFINE t == job[w].task
    <3>1. CASE /\ At(w, "settle") /\ EnsureFails(w, Key("settle", t), NoRow)
               /\ opened' = opened \cup {Key("settle", t)}
      BY <3>1, SubmittedFacts, SessionEnsure DEF At, SessionOwner, SessionSteps, SessionKinds
    <3>2. CASE /\ At(w, "giveBack") /\ EnsureFails(w, Key("refund", t), NoRow)
               /\ opened' = opened \cup {Key("refund", t)}
      BY <3>2, SubmittedFacts, SessionEnsure DEF At, SessionOwner, SessionSteps, SessionKinds
    <3>3. CASE (\E k \in Kinds : EnsureFails(w, Key(k, t), NoRow)) /\ UNCHANGED opened
      BY <3>3, KeyFacts, EnsureFailsStep DEF JCore, JTypeOK
    <3> QED BY <2>3, <3>1, <3>2, <3>3 DEF EnsureFault, Kinds
  <2> QED BY <1>3, <2>1, <2>2, <2>3 DEF Fault
<1> QED BY <1>1, <1>2, <1>3

--------------------------------------------------------------------------------
(* Types *)

\* The steps a handler may be at while the journal works for it.
JournalSteps == {"settling", "failing", "reconciling", "plain"}

\* The types of what a step writes make up TTypeOK.
LEMMA TypesFromParts ==
    ASSUME TTypeOK, JTypeOK', NEW w \in Workers, job' \in [Workers -> Jobs],
           \A v \in Workers \ {w} : job'[v] = job[v] /\ pc'[v] = pc[v],
           pc'[w] # "idle" => job'[w].at \in JournalSteps,
           status' \in [Tasks -> Statuses], full' \in [Tasks -> BOOLEAN],
           usage' \in [Tasks -> Usages], held' \in [Tasks -> Quotas],
           UNCHANGED actual, begun' \subseteq Tasks, faults' \in 0 .. MaxFaults
    PROVE  TTypeOK'
BY DEF TTypeOK, JournalSteps

\* A compare-and-swap writes a row of the right type.
LEMMA SwapTypes ==
    ASSUME TTypeOK, NEW w \in Workers, NEW s \in Statuses, NEW f \in BOOLEAN,
           NEW u \in Usages, NEW h \in Quotas, Swap(w, s, f, u, h)
    PROVE  /\ status' \in [Tasks -> Statuses] /\ full' \in [Tasks -> BOOLEAN]
           /\ usage' \in [Tasks -> Usages] /\ held' \in [Tasks -> Quotas]
           /\ Written(job[w].task, job[w].q) \in Quotas
           /\ UNCHANGED <<pc, actual, begun, faults>>
BY JobTypes, RowTypes DEF Swap, TTypeOK, Written

\* The usage state that is persisted is typed.
LEMMA PersistTypes ==
    ASSUME TTypeOK, NEW t \in Tasks, NEW u \in Usages, NEW h \in Quotas, PersistUsage(t, u, h)
    PROVE  usage' \in [Tasks -> Usages] /\ held' \in [Tasks -> Quotas]
BY DEF PersistUsage, TTypeOK

\* A copy of the row is typed.
LEMMA ReadTypes ==
    ASSUME TTypeOK, NEW w \in Workers, NEW t \in Tasks, NEW at \in Steps, ReadRow(w, t, at)
    PROVE  /\ job' \in [Workers -> Jobs] /\ \A v \in Workers \ {w} : job'[v] = job[v]
           /\ job'[w].at = at /\ job'[w].task = t /\ job'[w].st = status[t]
           /\ job'[w].q = quota[t] /\ job'[w].u = usage[t] /\ job'[w].h = held[t]
BY JobFacts, RowTypes, StartFacts DEF ReadRow, TTypeOK

\* What a finished handler leaves.
LEMMA DoneFacts ==
    ASSUME TTypeOK, NEW w \in Workers, Done(w)
    PROVE  /\ job' \in [Workers -> Jobs] /\ \A v \in Workers \ {w} : job'[v] = job[v]
           /\ job'[w].at = "idle"
BY IdleFacts, StartFacts DEF Done, TTypeOK

\* What a handler that starts holds.
LEMMA StartJob ==
    ASSUME TTypeOK, NEW w \in Workers, NEW at \in Steps, NEW t \in Tasks, NEW s \in Statuses,
           NEW q \in Quotas, NEW u \in Usages, NEW h \in Quotas, Start(w, Job(at, t, s, q, u, h))
    PROVE  /\ job' \in [Workers -> Jobs] /\ \A v \in Workers \ {w} : job'[v] = job[v]
           /\ job'[w].at = at /\ job'[w].task = t /\ job'[w].st = s
           /\ job'[w].q = q /\ job'[w].u = u /\ job'[w].h = h
<1>1. Job(at, t, s, q, u, h) \in Jobs BY JobFacts
<1>2. /\ job' \in [Workers -> Jobs] /\ job'[w] = Job(at, t, s, q, u, h)
      /\ \A v \in Workers \ {w} : job'[v] = job[v]
  BY <1>1, StartFacts DEF TTypeOK
<1> QED BY <1>2, JobFacts

\* What a reconciler holds after it has measured.
LEMMA MeasureJob ==
    ASSUME TTypeOK, NEW w \in Workers, MeasureUsage(w)
    PROVE  /\ job' \in [Workers -> Jobs] /\ \A v \in Workers \ {w} : job'[v] = job[v]
           /\ job'[w].at = "reconcile" /\ job'[w].task = job[w].task
           /\ job'[w].u = "known" /\ job'[w].h = job[w].q /\ job'[w].q = job[w].q
<1> DEFINE j == [job[w] EXCEPT !.at = "reconcile", !.u = "known", !.h = job[w].q]
<1>1. /\ j \in Jobs /\ j.at = "reconcile" /\ j.task = job[w].task
      /\ j.u = "known" /\ j.h = job[w].q /\ j.q = job[w].q
  BY JobTypes DEF Jobs, Steps, Usages
<1>2. Start(w, j) BY DEF MeasureUsage
<1> HIDE DEF j
<1>3. /\ job' \in [Workers -> Jobs] /\ job'[w] = j
      /\ \A v \in Workers \ {w} : job'[v] = job[v]
  BY <1>1, <1>2, StartFacts DEF TTypeOK
<1> QED BY <1>1, <1>3

\* Steps that a handler takes outside the journal.
LEMMA HandlerTypes ==
    ASSUME TTypeOK, NEW w \in Workers, Continue(w), JTypeOK'
    PROVE  TTypeOK'
<1> USE JobTypes, RowTypes
<1>1. CASE SubmitSettle(w) \/ (GiveBack(w) /\ reserved[job[w].task] # 0)
  <2>1. \E at \in {"settling", "plain"} : Goto(w, at)
    BY <1>1 DEF SubmitSettle, GiveBack
  <2>2. job' \in [Workers -> Jobs] /\ job'[w].at \in JournalSteps
        /\ \A v \in Workers \ {w} : job'[v] = job[v]
    BY <2>1, GotoFacts DEF Steps, JournalSteps, TTypeOK
  <2>3. \A v \in Workers \ {w} : pc'[v] = pc[v]
    BY <1>1 DEF SubmitSettle, GiveBack, SessionRuns, Ensure, TTypeOK, JTypeOK
  <2>4. UNCHANGED <<taskvars, faults>> BY <1>1 DEF SubmitSettle, GiveBack
  <2> QED BY <2>2, <2>3, <2>4, TypesFromParts DEF taskvars, TTypeOK
<1>2. CASE GiveBack(w) /\ reserved[job[w].task] = 0
  BY <1>2, DoneFacts, TypesFromParts DEF GiveBack, At, jvars, taskvars, TTypeOK
<1>3. CASE SettleReturns(w) \/ FailureRecalculated(w) \/ ReconcileReturns(w) \/ PlainReturns(w)
  <2>1. pc'[w] = "idle" /\ \A v \in Workers \ {w} : pc'[v] = pc[v]
    BY <1>3 DEF SettleReturns, FailureRecalculated, ReconcileReturns, PlainReturns, Returned, Return, TTypeOK, JTypeOK
  <2>2. Done(w) \/ \E at \in {"giveBack", "refund", "ack"} : Goto(w, at)
    BY <1>3 DEF SettleReturns, FailureRecalculated, ReconcileReturns, PlainReturns, KeepPending
  <2>3. job' \in [Workers -> Jobs] /\ \A v \in Workers \ {w} : job'[v] = job[v]
    BY <2>2, DoneFacts, GotoFacts DEF Steps, TTypeOK
  <2>4. UNCHANGED <<status, full, actual, begun, faults>>
        /\ usage' \in [Tasks -> Usages] /\ held' \in [Tasks -> Quotas]
    BY <1>3, PersistTypes DEF SettleReturns, FailureRecalculated, ReconcileReturns, PlainReturns, KeepPending, taskvars, TTypeOK
  <2> QED BY <2>1, <2>3, <2>4, TypesFromParts DEF TTypeOK
<1>4. CASE SwapLost(w) \/ FetchUnchanged(w) \/ MeasureFails(w)
  BY <1>4, DoneFacts, TypesFromParts DEF SwapLost, FetchUnchanged, MeasureFails, At, jvars, taskvars, TTypeOK
<1>5. CASE BulkFail(w)
  <2>1. status' \in [Tasks -> Statuses] /\ full' \in [Tasks -> BOOLEAN]
    BY <1>5 DEF BulkFail, TTypeOK, Statuses, Terminal
  <2> QED BY <1>5, <2>1, DoneFacts, TypesFromParts DEF BulkFail, At, jvars, TTypeOK
<1>6. CASE StillPending(w) \/ AckUsage(w)
  BY <1>6, DoneFacts, PersistTypes, TypesFromParts DEF StillPending, AckUsage, KeepPending, At, jvars, TTypeOK, Usages
<1>7. CASE TouchUsage(w)
  BY <1>7, GotoFacts, PersistTypes, TypesFromParts DEF TouchUsage, At, jvars, TTypeOK, Usages, Steps
<1>8. CASE MeasureUsage(w)
  <2>1. job' \in [Workers -> Jobs] /\ \A v \in Workers \ {w} : job'[v] = job[v]
    BY <1>8, MeasureJob
  <2> QED BY <1>8, <2>1, PersistTypes, TypesFromParts DEF MeasureUsage, At, jvars, TTypeOK, Usages
<1>9. ASSUME NEW s \in {"success", "failure"}, NEW u \in Usages, NEW h \in Quotas,
             At(w, "poll"), Swap(w, s, TRUE, u, h), Finalize(w, s, u, h)
      PROVE  TTypeOK'
  <2>1. s \in Statuses /\ "reconcile" \in Steps /\ "failed" \in Steps BY DEF Statuses, Terminal, Steps
  <2>2. Written(job[w].task, job[w].q) \in Quotas BY <1>9, <2>1, SwapTypes
  <2>3. job' \in [Workers -> Jobs] /\ \A v \in Workers \ {w} : job'[v] = job[v]
    <3>1. Done(w) \/ \E at \in Steps : Start(w, Job(at, job[w].task, s, Written(job[w].task, job[w].q), u, h))
      BY <1>9, <2>1 DEF Finalize
    <3> QED BY <3>1, <2>1, <2>2, DoneFacts, StartFacts, JobFacts DEF TTypeOK
  <2> QED BY <1>9, <2>1, <2>3, SwapTypes, TypesFromParts DEF At, TTypeOK
<1>10. CASE PollSucceeded(w)
  <2>1. Written(job[w].task, job[w].q) \in Quotas BY DEF Written
  <2>2. \E u \in Usages, h \in Quotas : Swap(w, "success", TRUE, u, h) /\ Finalize(w, "success", u, h)
    BY <1>10, <2>1 DEF PollSucceeded, Measuring, Usages
  <2> QED BY <1>9, <1>10, <2>2 DEF PollSucceeded
<1>11. CASE PollFailed(w)
  BY <1>9, <1>11 DEF PollFailed
<1>12. CASE TimeOut(w) \/ Cancel(w)
  <2>1. FailAndRefund(w) /\ pc[w] = "idle" BY <1>12 DEF TimeOut, Cancel, At
  <2>2. "failure" \in Statuses /\ "refund" \in Steps BY DEF Statuses, Terminal, Steps
  <2>3. Written(job[w].task, job[w].q) \in Quotas BY DEF Written
  <2>4. job' \in [Workers -> Jobs] /\ \A v \in Workers \ {w} : job'[v] = job[v]
    BY <2>1, <2>2, <2>3, DoneFacts, StartFacts, JobFacts DEF FailAndRefund, TTypeOK
  <2> QED BY <2>1, <2>2, <2>4, SwapTypes, TypesFromParts DEF FailAndRefund, TTypeOK
<1>13. CASE PollRunning(w) \/ RealtimeFetch(w)
  <2>1. pc[w] = "idle" /\ Done(w) BY <1>13 DEF PollRunning, RealtimeFetch, At
  <2>2. PICK s \in Statuses, f \in BOOLEAN : Swap(w, s, f, job[w].u, job[w].h)
    <3>1. CASE PollRunning(w)
      BY <3>1 DEF PollRunning, Statuses
    <3>2. CASE RealtimeFetch(w)
      BY <3>2 DEF RealtimeFetch, Statuses, Running
    <3> QED BY <1>13, <3>1, <3>2
  <2>3. /\ job' \in [Workers -> Jobs] /\ \A v \in Workers \ {w} : job'[v] = job[v]
    BY <2>1, DoneFacts
  <2>4. /\ status' \in [Tasks -> Statuses] /\ full' \in [Tasks -> BOOLEAN]
        /\ usage' \in [Tasks -> Usages] /\ held' \in [Tasks -> Quotas]
        /\ UNCHANGED <<pc, actual, begun, faults>>
    BY <2>2, JobTypes, SwapTypes
  <2> QED BY <2>1, <2>3, <2>4, TypesFromParts DEF TTypeOK
<1>14. CASE FinalizeFailure(w) \/ RefundTask(w) \/ Reconcile(w)
  <2>1. /\ UNCHANGED <<taskvars, faults>> /\ pc[w] = "idle"
        /\ \/ UNCHANGED pc /\ (Done(w) \/ Goto(w, "refund") \/ Goto(w, "ack"))
           \/ /\ \E at \in JournalSteps : Goto(w, at)
              /\ \A v \in Workers \ {w} : pc'[v] = pc[v]
    BY <1>14 DEF FinalizeFailure, RefundTask, Reconcile, ConfirmQuota, TaskSubmit, Ensure, EnsureFails, At, jvars, JournalSteps, TTypeOK, JTypeOK
  <2>2. job' \in [Workers -> Jobs] /\ \A v \in Workers \ {w} : job'[v] = job[v]
    BY <2>1, DoneFacts, GotoFacts DEF Steps, JournalSteps, TTypeOK
  <2>3. pc'[w] # "idle" => job'[w].at \in JournalSteps
    BY <2>1, GotoFacts DEF Steps, JournalSteps, TTypeOK
  <2> QED BY <2>1, <2>2, <2>3, TypesFromParts DEF taskvars, TTypeOK
<1>15. CASE RunJournal(w)
  <2>1. pc[w] # "idle" /\ \A v \in Workers \ {w} : pc'[v] = pc[v]
    BY <1>15 DEF RunJournal, JournalStep, ApplyNow, ApplyAgain, ApplyRefused, WriteLog, MarkLogDone, DeleteRow, TTypeOK, JTypeOK
  <2>2. UNCHANGED <<taskvars, job, faults>> BY <1>15 DEF RunJournal
  <2> QED BY <2>1, <2>2, TypesFromParts DEF taskvars, TTypeOK, JournalSteps
<1> QED BY <1>1, <1>2, <1>3, <1>4, <1>5, <1>6, <1>7, <1>8, <1>10, <1>11, <1>12, <1>13, <1>14, <1>15 DEF Continue

\* Beginnings of handlers, and faults.
LEMMA OtherTypes ==
    ASSUME TTypeOK, NEW w \in Workers, JTypeOK',
           \/ Fault(w)
           \/ \E t \in Tasks : Persist(w, t) \/ List(w, t) \/ ReadForCancel(w, t) \/ ReadForFetch(w, t)
    PROVE  TTypeOK'
<1> USE JobTypes, RowTypes
<1>1. ASSUME NEW t \in Tasks, NEW s \in {"submitted"} \cup Terminal, PersistTask(w, t, s) PROVE TTypeOK'
  <2>1. s \in Statuses /\ "settle" \in Steps /\ "none" \in Usages /\ 0 \in Quotas
    BY NoRowIsRow DEF Statuses, Running, Steps, Usages
  <2>2. job' \in [Workers -> Jobs] /\ \A v \in Workers \ {w} : job'[v] = job[v]
    BY <1>1, <2>1, StartFacts, JobFacts DEF PersistTask, TTypeOK
  <2>3. full' \in [Tasks -> BOOLEAN]
    <3>1. (s \in Terminal) \in BOOLEAN OBVIOUS
    <3> QED BY <1>1, <3>1 DEF PersistTask, TTypeOK
  <2> QED BY <1>1, <2>1, <2>2, <2>3, TypesFromParts DEF PersistTask, At, jvars, TTypeOK
<1>2. ASSUME NEW t \in Tasks, PersistFails(w, t) PROVE TTypeOK'
  <2>1. "none" \in Statuses /\ "giveBack" \in Steps /\ "none" \in Usages /\ 0 \in Quotas
    BY NoRowIsRow DEF Statuses, Steps, Usages
  <2>2. job' \in [Workers -> Jobs] /\ \A v \in Workers \ {w} : job'[v] = job[v]
    BY <1>2, <2>1, StartFacts, JobFacts DEF PersistFails, TTypeOK
  <2> QED BY <1>2, <2>1, <2>2, TypesFromParts DEF PersistFails, At, jvars, TTypeOK
<1>3. ASSUME NEW t \in Tasks, PersistEnhanced(w, t) PROVE TTypeOK'
  <2>1. "submitted" \in Statuses /\ "settling" \in Steps /\ "none" \in Usages /\ 0 \in Quotas
    BY NoRowIsRow DEF Statuses, Running, Steps, Usages
  <2>2. job' \in [Workers -> Jobs] /\ job'[w].at = "settling" /\ \A v \in Workers \ {w} : job'[v] = job[v]
    BY <1>3, <2>1, StartFacts, JobFacts DEF PersistEnhanced, TTypeOK
  <2>3. \A v \in Workers \ {w} : pc'[v] = pc[v]
    BY <1>3 DEF PersistEnhanced, Ensure, TTypeOK, JTypeOK
  <2> QED BY <1>3, <2>1, <2>2, <2>3, TypesFromParts DEF PersistEnhanced, TTypeOK, JournalSteps
<1>4. ASSUME NEW t \in Tasks,
             \/ ReadTask(w, t) \/ ListUsage(w, t) \/ ListFailed(w, t)
             \/ ReadForCancel(w, t) \/ ReadForFetch(w, t)
      PROVE  TTypeOK'
  <2>1. /\ \E at \in Steps : ReadRow(w, t, at)
        /\ pc[w] = "idle" /\ UNCHANGED <<jvars, taskvars, faults>>
    BY <1>4 DEF ReadTask, ListUsage, ListFailed, ReadForCancel, ReadForFetch, At, Steps
  <2>2. job' \in [Workers -> Jobs] /\ \A v \in Workers \ {w} : job'[v] = job[v]
    BY <2>1, ReadTypes
  <2>3. UNCHANGED <<pc, status, full, usage, held, actual, begun, faults>>
    BY <2>1 DEF jvars, taskvars
  <2> QED BY <2>1, <2>2, <2>3, TypesFromParts DEF TTypeOK
<1>5. ASSUME NEW key, SweepJournal(w, key) PROVE TTypeOK'
  <2>1. \A v \in Workers \ {w} : pc'[v] = pc[v]
    BY <1>5 DEF SweepJournal, SweepPick, TTypeOK, JTypeOK
  <2> QED BY <1>5, <2>1, GotoFacts, TypesFromParts DEF SweepJournal, Steps, JournalSteps, taskvars, TTypeOK
<1>6. CASE Fault(w)
  <2>1. UNCHANGED taskvars /\ faults' \in 0 .. MaxFaults
    BY <1>6, TaskConstants DEF Fault, TTypeOK
  <2>2. CASE StepFails(w) /\ UNCHANGED job
    <3>1. pc[w] # "idle" /\ \A v \in Workers \ {w} : pc'[v] = pc[v]
      BY <2>2 DEF StepFails, TTypeOK, JTypeOK
    <3> QED BY <2>1, <2>2, <3>1, TypesFromParts DEF taskvars, TTypeOK, JournalSteps
  <2>3. CASE EnsureFault(w)
    <3>1. \A v \in Workers \ {w} : pc'[v] = pc[v]
      BY <2>3 DEF EnsureFault, EnsureFails, TTypeOK, JTypeOK
    <3>2. \E at \in JournalSteps : Goto(w, at)
      BY <2>3 DEF EnsureFault, JournalSteps
    <3>3. job' \in [Workers -> Jobs] /\ job'[w].at \in JournalSteps /\ \A v \in Workers \ {w} : job'[v] = job[v]
      BY <3>2, GotoFacts DEF Steps, JournalSteps, TTypeOK
    <3> QED BY <2>1, <3>1, <3>3, TypesFromParts DEF taskvars, TTypeOK
  <2>4. CASE (Crash(w) \/ (pc[w] = "idle" /\ UNCHANGED jvars)) /\ Done(w)
    <3>1. pc'[w] = "idle" /\ \A v \in Workers \ {w} : pc'[v] = pc[v]
      BY <2>4 DEF Crash, jvars, TTypeOK, JTypeOK
    <3> QED BY <2>1, <2>4, <3>1, DoneFacts, TypesFromParts DEF taskvars, TTypeOK
  <2> QED BY <1>6, <2>2, <2>3, <2>4 DEF Fault
<1> QED BY <1>1, <1>2, <1>3, <1>4, <1>5, <1>6 DEF Persist, List
--------------------------------------------------------------------------------
(* Sessions *)

\* A step that submits nothing for a session, and does not leave its worker in
\* one, disturbs no session.
LEMMA OwnerKept ==
    ASSUME SessionOwner, NEW w \in Workers,
           \A v \in Workers \ {w} : job'[v] = job[v],
           begun \subseteq begun', UNCHANGED opened, job'[w].at \notin SessionSteps
    PROVE  SessionOwner'
BY DEF SessionOwner

\* The worker of a session may submit its operations and move on.
LEMMA OwnerMoves ==
    ASSUME SessionOwner, NEW w \in Workers, NEW k \in SessionKinds, job[w].at \in SessionSteps,
           job[w].task \in Tasks,
           \A v \in Workers \ {w} : job'[v] = job[v],
           UNCHANGED begun, opened' \subseteq opened \cup {Key(k, job[w].task)},
           \/ job'[w].at \notin SessionSteps
           \/ /\ job'[w].task = job[w].task
              /\ job'[w].at \in SessionSteps \ {"settle"}
              /\ Key("refund", job[w].task) \notin opened'
    PROVE  SessionOwner'
<1>1. \A t \in Tasks, i \in SessionKinds : Key(i, t) \in opened' => t \in begun'
  BY DEF SessionOwner, Key, SessionKinds
<1>2. ASSUME NEW v \in Workers \ {w}, job'[v].at \in SessionSteps
      PROVE  /\ job'[v].task \in begun' /\ Key("refund", job'[v].task) \notin opened'
             /\ job'[v].at = "settle" => Key("settle", job'[v].task) \notin opened'
             /\ \A x \in Workers \ {v} : job'[x].at \in SessionSteps => job'[x].task # job'[v].task
  BY <1>2 DEF SessionOwner, Key
<1>3. ASSUME job'[w].at \in SessionSteps
      PROVE  /\ job'[w].task \in begun' /\ Key("refund", job'[w].task) \notin opened'
             /\ job'[w].at # "settle"
             /\ \A x \in Workers \ {w} : job'[x].at \in SessionSteps => job'[x].task # job'[w].task
  BY <1>3 DEF SessionOwner
<1> QED BY <1>1, <1>2, <1>3 DEF SessionOwner

\* What a handler's step does to the jobs: outside the session's own steps, the
\* worker is not in a session afterwards.
LEMMA HandlerOwner ==
    ASSUME TCore, NEW w \in Workers, Continue(w)
    PROVE  SessionOwner'
<1> USE JobTypes DEF TCore
<1>1. CASE SubmitSettle(w)
  <2>1. job[w].at = "settle" /\ Goto(w, "settling") /\ UNCHANGED begun
        /\ opened' = opened \cup {Key("settle", job[w].task)}
    BY <1>1 DEF SubmitSettle, SessionRuns, At, taskvars
  <2>2. Key("refund", job[w].task) \notin opened'
    BY <2>1 DEF SessionOwner, SessionSteps, Key
  <2>3. /\ job'[w].task = job[w].task /\ job'[w].at = "settling"
        /\ \A v \in Workers \ {w} : job'[v] = job[v]
    BY <2>1, GotoFacts DEF Steps, TTypeOK
  <2> QED BY <2>1, <2>2, <2>3, OwnerMoves DEF SessionSteps, SessionKinds
<1>2. CASE GiveBack(w)
  <2>1. /\ job[w].at = "giveBack" /\ (Done(w) \/ Goto(w, "plain")) /\ UNCHANGED begun
        /\ opened' \subseteq opened \cup {Key("refund", job[w].task)}
    BY <1>2 DEF GiveBack, SessionRuns, At, jvars, taskvars
  <2>2. job'[w].at \in {"idle", "plain"} /\ \A v \in Workers \ {w} : job'[v] = job[v]
    BY <2>1, DoneFacts, GotoFacts DEF Steps, TTypeOK
  <2> QED BY <2>1, <2>2, OwnerMoves DEF SessionSteps, SessionKinds
<1>3. CASE SettleReturns(w)
  <2>1. job[w].at = "settling" /\ UNCHANGED <<begun, opened>> /\ (Done(w) \/ Goto(w, "giveBack"))
    BY <1>3 DEF SettleReturns, Returned, Return, taskvars
  <2>2. CASE Done(w)
    BY <2>1, <2>2, DoneFacts, OwnerKept DEF SessionSteps
  <2>3. CASE Goto(w, "giveBack")
    <3>1. /\ job'[w].task = job[w].task /\ job'[w].at = "giveBack"
          /\ \A v \in Workers \ {w} : job'[v] = job[v]
      BY <2>3, GotoFacts DEF Steps, TTypeOK
    <3> QED BY <2>1, <3>1, OwnerMoves DEF SessionSteps, SessionKinds, SessionOwner
  <2> QED BY <2>1, <2>2, <2>3
<1>4. CASE \/ FailureRecalculated(w) \/ ReconcileReturns(w) \/ PlainReturns(w)
           \/ SwapLost(w) \/ FetchUnchanged(w) \/ MeasureFails(w) \/ BulkFail(w)
           \/ StillPending(w) \/ AckUsage(w) \/ TouchUsage(w) \/ PollRunning(w) \/ RealtimeFetch(w)
           \/ FinalizeFailure(w) \/ RefundTask(w) \/ Reconcile(w)
  <2>1. UNCHANGED <<begun, opened>>
    BY <1>4 DEF FailureRecalculated, ReconcileReturns, PlainReturns, Returned, Return, SwapLost, FetchUnchanged,
       MeasureFails, BulkFail, StillPending, AckUsage, TouchUsage, PollRunning, RealtimeFetch, Swap,
       FinalizeFailure, RefundTask, Reconcile, TaskSubmit, ConfirmQuota, jvars, taskvars
  <2>2. Done(w) \/ \E at \in Steps \ SessionSteps : Goto(w, at)
    BY <1>4 DEF FailureRecalculated, ReconcileReturns, PlainReturns, SwapLost, FetchUnchanged,
       MeasureFails, BulkFail, StillPending, AckUsage, TouchUsage, PollRunning, RealtimeFetch, KeepPending,
       FinalizeFailure, RefundTask, Reconcile, Steps, SessionSteps
  <2>3. job'[w].at \notin SessionSteps /\ \A v \in Workers \ {w} : job'[v] = job[v]
    BY <2>2, DoneFacts, GotoFacts DEF TTypeOK, SessionSteps
  <2> QED BY <2>1, <2>3, OwnerKept
<1>5. CASE MeasureUsage(w)
  <2>1. job'[w].at = "reconcile" /\ \A v \in Workers \ {w} : job'[v] = job[v]
    BY <1>5, MeasureJob
  <2> QED BY <1>5, <2>1, OwnerKept DEF MeasureUsage, SessionSteps, jvars
<1>6. CASE PollSucceeded(w) \/ PollFailed(w) \/ TimeOut(w) \/ Cancel(w)
  <2>1. PICK s \in {"success", "failure"}, u \in Usages, h \in Quotas :
          /\ Swap(w, s, TRUE, u, h)
          /\ \/ Done(w)
             \/ \E at \in {"reconcile", "failed", "refund"} :
                  Start(w, Job(at, job[w].task, s, Written(job[w].task, job[w].q), u, h))
    <3>1. Written(job[w].task, job[w].q) \in Quotas BY RowTypes DEF Written
    <3>2. CASE PollSucceeded(w)
      BY <3>1, <3>2 DEF PollSucceeded, Finalize, Measuring, Usages
    <3>3. CASE PollFailed(w)
      BY <3>3 DEF PollFailed, Finalize
    <3>4. CASE TimeOut(w) \/ Cancel(w)
      BY <3>4 DEF TimeOut, Cancel, FailAndRefund
    <3> QED BY <1>6, <3>2, <3>3, <3>4
  <2>2. s \in Statuses /\ Written(job[w].task, job[w].q) \in Quotas
    BY RowTypes DEF Written, Statuses, Terminal
  <2>3. job'[w].at \notin SessionSteps /\ \A v \in Workers \ {w} : job'[v] = job[v]
    BY <2>1, <2>2, DoneFacts, StartJob DEF SessionSteps, Steps
  <2> QED BY <2>1, <2>3, OwnerKept DEF Swap
<1>7. CASE RunJournal(w)
  <2>1. UNCHANGED <<job, begun, opened>>
    BY <1>7 DEF RunJournal, JournalStep, ApplyNow, ApplyAgain, ApplyRefused, WriteLog, MarkLogDone, DeleteRow, taskvars
  <2> QED BY <2>1 DEF SessionOwner
<1> QED BY <1>1, <1>2, <1>3, <1>4, <1>5, <1>6, <1>7 DEF Continue

\* A request begins one session; faults end handlers or count as submissions.
LEMMA OtherOwner ==
    ASSUME TCore, NEW w \in Workers,
           \/ Fault(w)
           \/ \E t \in Tasks : Persist(w, t) \/ List(w, t) \/ ReadForCancel(w, t) \/ ReadForFetch(w, t)
    PROVE  SessionOwner'
<1> USE JobTypes DEF TCore
<1>1. ASSUME NEW t \in Tasks, NEW at \in SessionSteps,
             t \notin begun, begun' = begun \cup {t},
             opened' \subseteq opened \cup {Key("settle", t)},
             at = "settle" => UNCHANGED opened,
             job'[w].at = at, job'[w].task = t, \A v \in Workers \ {w} : job'[v] = job[v]
      PROVE  SessionOwner'
  <2>1. \A k \in SessionKinds : Key(k, t) \notin opened BY <1>1 DEF SessionOwner
  <2>2. \A x \in Tasks, k \in SessionKinds : Key(k, x) \in opened' => x \in begun'
    BY <1>1 DEF SessionOwner, Key, SessionKinds
  <2>3. ASSUME NEW v \in Workers \ {w}, job[v].at \in SessionSteps
        PROVE  /\ job[v].task \in begun /\ Key("refund", job[v].task) \notin opened'
               /\ job[v].at = "settle" => Key("settle", job[v].task) \notin opened'
               /\ \A x \in Workers \ {v} : job'[x].at \in SessionSteps => job'[x].task # job[v].task
    BY <1>1, <2>3 DEF SessionOwner, Key
  <2>4. Key("refund", t) \notin opened' /\ (at = "settle" => Key("settle", t) \notin opened')
    BY <1>1, <2>1 DEF SessionKinds, Key
  <2>5. \A v \in Workers \ {w} : job'[v].at \in SessionSteps => job'[v].task # job'[w].task
    BY <1>1, <2>3
  <2> QED BY <1>1, <2>2, <2>3, <2>4, <2>5 DEF SessionOwner
<1>2. ASSUME NEW t \in Tasks, Persist(w, t) PROVE SessionOwner'
  <2>1. /\ t \notin begun /\ begun' = begun \cup {t}
        /\ \/ \E s \in Statuses : Start(w, Job("settle", t, s, charge[t], "none", 0)) /\ UNCHANGED opened
           \/ Start(w, Job("giveBack", t, "none", 0, "none", 0)) /\ UNCHANGED opened
           \/ /\ Start(w, Job("settling", t, "submitted", 0, "none", 0))
              /\ opened' = opened \cup {Key("settle", t)}
    BY <1>2 DEF Persist, PersistTask, PersistFails, PersistEnhanced, jvars, Statuses, Running
  <2>2. {"none", "submitted"} \subseteq Statuses /\ "none" \in Usages /\ 0 \in Quotas
        /\ charge[t] \in Quotas /\ {"settle", "giveBack", "settling"} \subseteq Steps
    BY NoRowIsRow, RowTypes DEF Statuses, Running, Usages, Steps
  <2>3. PICK at \in {"settle", "giveBack", "settling"} :
          /\ job'[w].at = at /\ job'[w].task = t /\ \A v \in Workers \ {w} : job'[v] = job[v]
          /\ at # "settling" => UNCHANGED opened
    BY <2>1, <2>2, StartJob
  <2> QED BY <2>1, <2>3, <1>1 DEF SessionSteps
<1>3. ASSUME NEW t \in Tasks, List(w, t) \/ ReadForCancel(w, t) \/ ReadForFetch(w, t) PROVE SessionOwner'
  <2>1. /\ UNCHANGED <<begun, opened>>
        /\ \/ Goto(w, "plain")
           \/ \E at \in {"poll", "cancel", "fetch", "refund", "reconcile", "touch"} : ReadRow(w, t, at)
    BY <1>3 DEF List, ReadTask, ListUsage, ListFailed, SweepJournal, SweepPick, ReadForCancel, ReadForFetch, jvars, taskvars
  <2>2. job'[w].at \notin SessionSteps /\ \A v \in Workers \ {w} : job'[v] = job[v]
    BY <2>1, GotoFacts, ReadTypes DEF TTypeOK, Steps, SessionSteps
  <2> QED BY <2>1, <2>2, OwnerKept
<1>4. CASE Fault(w)
  <2>1. UNCHANGED begun BY <1>4 DEF Fault, taskvars
  <2>2. CASE StepFails(w) /\ UNCHANGED job
    BY <2>1, <2>2 DEF StepFails, SessionOwner
  <2>3. CASE (Crash(w) \/ UNCHANGED jvars) /\ Done(w)
    BY <2>1, <2>3, DoneFacts, OwnerKept DEF Crash, jvars, SessionSteps
  <2>4. CASE EnsureFault(w)
    <3>1. CASE /\ At(w, "settle") /\ opened' = opened \cup {Key("settle", job[w].task)}
               /\ Goto(w, "settling")
      <4>1. Key("refund", job[w].task) \notin opened'
        BY <3>1 DEF SessionOwner, SessionSteps, Key, At
      <4>2. /\ job'[w].task = job[w].task /\ job'[w].at = "settling"
            /\ \A v \in Workers \ {w} : job'[v] = job[v]
        BY <3>1, GotoFacts DEF Steps, TTypeOK
      <4> QED BY <2>1, <3>1, <4>1, <4>2, OwnerMoves DEF SessionSteps, SessionKinds, At
    <3>2. CASE /\ At(w, "giveBack") /\ opened' = opened \cup {Key("refund", job[w].task)}
               /\ Goto(w, "plain")
      <4>1. job'[w].at = "plain" /\ \A v \in Workers \ {w} : job'[v] = job[v]
        BY <3>2, GotoFacts DEF Steps, TTypeOK
      <4> QED BY <2>1, <3>2, <4>1, OwnerMoves DEF SessionSteps, SessionKinds, At
    <3>3. CASE UNCHANGED opened /\ \E at \in {"failing", "reconciling", "plain"} : Goto(w, at)
      BY <2>1, <3>3, GotoFacts, OwnerKept DEF Steps, SessionSteps, TTypeOK
    <3> QED BY <2>4, <3>1, <3>2, <3>3 DEF EnsureFault
  <2> QED BY <1>4, <2>2, <2>3, <2>4 DEF Fault
<1> QED BY <1>2, <1>3, <1>4

--------------------------------------------------------------------------------
(* The theorems that hold for every kind of task. *)

TStep(w) ==
    \/ Continue(w) \/ Fault(w)
    \/ \E t \in Tasks : Persist(w, t) \/ List(w, t) \/ ReadForCancel(w, t) \/ ReadForFetch(w, t)

\* Every step is one worker's.
LEMMA OneWorker == TNext => \E w \in Workers : TStep(w)
BY DEF TNext, TStep

\* TCore is inductive.
LEMMA NextTCore == TCore /\ [TNext]_tvars => TCore'
<1> SUFFICES ASSUME TCore, [TNext]_tvars PROVE TCore' OBVIOUS
<1>1. ASSUME NEW w \in Workers, TStep(w) PROVE TCore'
  <2>1. JCore' BY <1>1, HandlerJCore, OtherJCore DEF TStep
  <2>2. JTypeOK' BY <2>1 DEF JCore
  <2>3. TTypeOK' BY <1>1, <2>2, HandlerTypes, OtherTypes DEF TStep, TCore
  <2>4. SessionOwner' BY <1>1, HandlerOwner, OtherOwner DEF TStep
  <2> QED BY <2>1, <2>3, <2>4 DEF TCore
<1>2. CASE UNCHANGED tvars
  <2>1. JCore' BY <1>2, StutterStep DEF TCore, tvars, jvars
  <2>2. TTypeOK' BY <1>2, <2>1 DEF TCore, TTypeOK, tvars, jvars, taskvars, JCore
  <2>3. SessionOwner' BY <1>2 DEF TCore, SessionOwner, tvars, jvars, taskvars
  <2> QED BY <2>1, <2>2, <2>3 DEF TCore
<1> QED BY <1>1, <1>2, OneWorker

\* TCore holds in every reachable state, for every kind of task.
THEOREM TCoreCorrect == TSafe => []TCore
BY InitTCore, NextTCore, PTL DEF TSafe

\* Type correctness of the whole billing life of a task, for any tasks of any
\* kind, any workers, amounts and faults.
THEOREM TTypeCorrect == TSafe => []TTypeOK
<1>1. TCore => TTypeOK BY DEF TCore
<1> QED BY <1>1, TCoreCorrect, PTL

\* Every step but the money transaction leaves balances and postings alone.
LEMMA MoneyAlone ==
    ASSUME [TNext]_tvars, ~ \E w \in Workers : ApplyNow(w)
    PROVE  UNCHANGED <<reserved, charge, net, posted>>
<1>1. ASSUME NEW w \in Workers, Continue(w) PROVE UNCHANGED <<reserved, charge, net, posted>>
  <2>1. CASE SubmitSettle(w) \/ SettleReturns(w) \/ GiveBack(w)
    BY <2>1 DEF SubmitSettle, SettleReturns, GiveBack, SessionRuns, Ensure, Returned, Return, jvars
  <2>2. CASE \/ SwapLost(w) \/ PollSucceeded(w) \/ PollFailed(w) \/ TimeOut(w) \/ Cancel(w)
             \/ PollRunning(w) \/ BulkFail(w) \/ RealtimeFetch(w) \/ FetchUnchanged(w)
    BY <2>2 DEF SwapLost, PollSucceeded, PollFailed, TimeOut, Cancel, FailAndRefund, PollRunning,
       BulkFail, RealtimeFetch, FetchUnchanged, Swap, jvars
  <2>3. CASE \/ FinalizeFailure(w) \/ FailureRecalculated(w) \/ RefundTask(w)
             \/ Reconcile(w) \/ ReconcileReturns(w) \/ PlainReturns(w)
    BY <2>3 DEF FinalizeFailure, FailureRecalculated, RefundTask, Reconcile, ReconcileReturns, PlainReturns,
       TaskSubmit, Ensure, EnsureFails, ConfirmQuota, ConfirmExpense, Returned, Return, jvars
  <2>4. CASE StillPending(w) \/ AckUsage(w) \/ TouchUsage(w) \/ MeasureUsage(w) \/ MeasureFails(w)
    BY <2>4 DEF StillPending, AckUsage, TouchUsage, MeasureUsage, MeasureFails, jvars
  <2>5. CASE RunJournal(w)
    BY <2>5 DEF RunJournal, JournalStep, ApplyAgain, ApplyRefused, WriteLog, MarkLogDone, DeleteRow
  <2> QED BY <1>1, <2>1, <2>2, <2>3, <2>4, <2>5 DEF Continue
<1>2. ASSUME NEW w \in Workers, Fault(w) PROVE UNCHANGED <<reserved, charge, net, posted>>
  BY <1>2 DEF Fault, StepFails, EnsureFault, EnsureFails, Crash, jvars
<1>3. ASSUME NEW w \in Workers, NEW t \in Tasks,
             Persist(w, t) \/ List(w, t) \/ ReadForCancel(w, t) \/ ReadForFetch(w, t)
      PROVE  UNCHANGED <<reserved, charge, net, posted>>
  BY <1>3 DEF Persist, PersistTask, PersistFails, PersistEnhanced, Ensure, List, ReadTask, ListUsage, ListFailed,
     SweepJournal, SweepPick, ReadForCancel, ReadForFetch, jvars
<1>4. CASE UNCHANGED tvars BY <1>4 DEF tvars, jvars
<1> QED BY <1>1, <1>2, <1>3, <1>4, OneWorker DEF TStep

\* Stale writers notwithstanding, balances move only by an operation that has
\* not moved them before: for every kind of task, realtime-fetched ones included.
THEOREM AppliedOnceCorrect == TSafe => AppliedOnce
<1>1. ASSUME TCore, [TNext]_tvars
      PROVE  [\A t \in Tasks : net'[t] # net[t] => \E k \in Kinds : Key(k, t) \in posted' \ posted]_tvars
  <2>1. CASE \E w \in Workers : ApplyNow(w)
    <3>1. PICK w \in Workers : ApplyNow(w) BY <2>1
    <3>2. /\ cur[w] \in Keys /\ cur[w].task \in Tasks /\ cur[w] \notin posted
          /\ \/ UNCHANGED <<net, quota, posted>>
             \/ /\ posted' = posted \cup {cur[w]}
                /\ net' = [net EXCEPT ![cur[w].task] = @ + row[cur[w]].final - row[cur[w]].expected]
      BY <1>1, <3>1, ApplyNowMoves DEF TCore
    <3>3. ASSUME NEW t \in Tasks, net'[t] # net[t]
          PROVE  \E k \in Kinds : Key(k, t) \in posted' \ posted
      <4>1. t = cur[w].task /\ posted' = posted \cup {cur[w]}
        BY <3>2, <3>3, <1>1 DEF TCore, TTypeOK, JTypeOK
      <4>2. cur[w] = Key(cur[w].kind, t) /\ cur[w].kind \in Kinds
        BY <3>2, <4>1, KeyFacts
      <4> QED BY <3>2, <4>1, <4>2
    <3> QED BY <3>3
  <2>2. CASE ~ \E w \in Workers : ApplyNow(w)
    BY <1>1, <2>2, MoneyAlone
  <2> QED BY <2>1, <2>2
<1> QED BY <1>1, TCoreCorrect, PTL DEF TSafe, AppliedOnce
--------------------------------------------------------------------------------
(* Without realtime fetches: the quota column and the balances reconcile, the *)
(* tasks implement the ledger, and a decided status is final.                 *)

(* What the steps do, each group of handlers in one lemma. *)

\* A handler that reads a row changes nothing but its own memory, and what it
\* is about to do depends on the status it read.
LEMMA ReadEffect ==
    ASSUME TCore, NEW w \in Workers, NEW t \in Tasks,
           ReadTask(w, t) \/ ReadForCancel(w, t) \/ ListUsage(w, t) \/ ListFailed(w, t)
    PROVE  /\ UNCHANGED <<jvars, taskvars>> /\ pc[w] = "idle" /\ job[w].at = "idle"
           /\ \A v \in Workers \ {w} : job'[v] = job[v]
           /\ job'[w].task = t /\ job'[w].st = status[t] /\ job'[w].q = quota[t]
           /\ job'[w].u = usage[t] /\ job'[w].h = held[t]
           /\ \/ job'[w].at \in {"poll", "cancel"} /\ status[t] \in Running
              \/ job'[w].at \in {"reconcile", "touch"} /\ status[t] = "success" /\ usage[t] \in Measuring
              \/ job'[w].at = "refund" /\ status[t] = "failure"
<1> USE DEF TCore
<1>1. CASE ReadTask(w, t) \/ ReadForCancel(w, t)
  <2>1. \E at \in {"poll", "cancel"} : ReadRow(w, t, at) BY <1>1 DEF ReadTask, ReadForCancel
  <2> QED BY <1>1, <2>1, ReadTypes DEF ReadTask, ReadForCancel, At, Steps
<1>2. CASE ListUsage(w, t)
  <2>1. \E at \in {"reconcile", "touch"} : ReadRow(w, t, at) BY <1>2 DEF ListUsage
  <2> QED BY <1>2, <2>1, ReadTypes DEF ListUsage, At, Steps
<1>3. CASE ListFailed(w, t)
  BY <1>3, ReadTypes DEF ListFailed, At, Steps
<1> QED BY <1>1, <1>2, <1>3

\* Handler w decides its task: a compare-and-swap to outcome s, and what w is left with.
Decides(w, s, u, h) ==
    /\ job[w].at \in {"poll", "cancel"} /\ pc[w] = "idle" /\ Swap(w, s, TRUE, u, h)
    /\ \/ u = job[w].u /\ h = job[w].h
       \/ s = "success" /\ u \in Measuring /\ h = Written(job[w].task, job[w].q)
    /\ \A v \in Workers \ {w} : job'[v] = job[v]
    /\ \/ job'[w].at = "idle"
       \/ /\ job'[w].at \in {"reconcile", "failed", "refund"}
          /\ job'[w].task = job[w].task /\ job'[w].st = s
          /\ job'[w].q = Written(job[w].task, job[w].q)
          /\ job'[w].u = u /\ job'[w].h = h
          /\ job'[w].at = "reconcile" => u \in Measuring
          /\ job'[w].at # "reconcile" => s = "failure"

\* A handler that decides the outcome of a task.
LEMMA OutcomeEffect ==
    ASSUME TCore, NEW w \in Workers, PollSucceeded(w) \/ PollFailed(w) \/ TimeOut(w) \/ Cancel(w)
    PROVE  \E s \in Terminal, u \in Usages, h \in Quotas : Decides(w, s, u, h)
<1> USE DEF TCore
<1> DEFINE t == job[w].task
           q == Written(t, job[w].q)
           Goes(s, u, h) ==
             /\ \A v \in Workers \ {w} : job'[v] = job[v]
             /\ \/ job'[w].at = "idle"
                \/ /\ job'[w].at \in {"reconcile", "failed", "refund"}
                   /\ job'[w].task = job[w].task /\ job'[w].st = s /\ job'[w].q = q
                   /\ job'[w].u = u /\ job'[w].h = h
                   /\ job'[w].at = "reconcile" => u \in Measuring
                   /\ job'[w].at # "reconcile" => s = "failure"
           Made(s, u, h) ==
             /\ job[w].at \in {"poll", "cancel"} /\ pc[w] = "idle" /\ Swap(w, s, TRUE, u, h)
             /\ \/ u = job[w].u /\ h = job[w].h
                \/ s = "success" /\ u \in Measuring /\ h = q
             /\ Goes(s, u, h)
<1> SUFFICES \E s \in Terminal, u \in Usages, h \in Quotas : Made(s, u, h) BY DEF Decides
<1>1. /\ q \in Quotas /\ t \in Tasks /\ job[w].u \in Usages /\ job[w].h \in Quotas
      /\ Measuring \subseteq Usages /\ "success" \in Terminal /\ "failure" \in Terminal
  BY JobTypes, RowTypes DEF Written, Measuring, Usages, Terminal
<1>2. ASSUME NEW s \in Terminal, NEW u \in Usages, NEW h \in Quotas,
             \/ Done(w)
             \/ Start(w, Job("reconcile", t, s, q, u, h)) /\ u \in Measuring
             \/ (Start(w, Job("failed", t, s, q, u, h)) \/ Start(w, Job("refund", t, s, q, u, h))) /\ s = "failure"
      PROVE  Goes(s, u, h)
  <2>1. s \in Statuses BY DEF Statuses
  <2>2. CASE Done(w) BY <2>2, DoneFacts
  <2>3. CASE Start(w, Job("reconcile", t, s, q, u, h)) /\ u \in Measuring
    BY <2>1, <2>3, <1>1, StartJob DEF Steps
  <2>4. CASE Start(w, Job("failed", t, s, q, u, h)) /\ s = "failure"
    BY <2>1, <2>4, <1>1, StartJob DEF Steps
  <2>5. CASE Start(w, Job("refund", t, s, q, u, h)) /\ s = "failure"
    BY <2>1, <2>5, <1>1, StartJob DEF Steps
  <2> QED BY <1>2, <2>2, <2>3, <2>4, <2>5
<1>3. ASSUME NEW s \in Terminal, NEW u \in Usages, NEW h \in Quotas, Finalize(w, s, u, h)
      PROVE  Goes(s, u, h)
  <2>1. \/ Done(w)
        \/ Start(w, Job("reconcile", t, s, q, u, h)) /\ u \in Measuring
        \/ (Start(w, Job("failed", t, s, q, u, h)) \/ Start(w, Job("refund", t, s, q, u, h))) /\ s = "failure"
    BY <1>3 DEF Finalize
  <2> QED BY <1>2, <2>1
<1> HIDE DEF q, Goes
<1>4. CASE PollSucceeded(w)
  <2>1. /\ At(w, "poll")
        /\ \E u \in Usages, h \in Quotas :
             /\ Swap(w, "success", TRUE, u, h) /\ Finalize(w, "success", u, h)
             /\ \/ u = job[w].u /\ h = job[w].h
                \/ u \in Measuring /\ h = q
    BY <1>1, <1>4 DEF PollSucceeded, q
  <2>2. \E u \in Usages, h \in Quotas : Made("success", u, h)
    BY <1>1, <1>3, <2>1 DEF At
  <2> QED BY <1>1, <2>2, Zenon
<1>5. CASE PollFailed(w)
  <2>1. Made("failure", job[w].u, job[w].h)
    BY <1>1, <1>3, <1>5 DEF PollFailed, At
  <2> QED BY <1>1, <2>1, Zenon
<1>6. CASE TimeOut(w) \/ Cancel(w)
  <2>1. /\ job[w].at \in {"poll", "cancel"} /\ pc[w] = "idle"
        /\ Swap(w, "failure", TRUE, job[w].u, job[w].h)
        /\ Done(w) \/ Start(w, Job("refund", t, "failure", q, job[w].u, job[w].h))
    BY <1>6 DEF TimeOut, Cancel, FailAndRefund, At, q
  <2>2. Made("failure", job[w].u, job[w].h)
    BY <1>1, <1>2, <2>1
  <2> QED BY <1>1, <2>2, Zenon
<1> QED BY <1>4, <1>5, <1>6

\* What every step outside the journal and the compare-and-swaps leaves alone.
BooksKept == UNCHANGED <<reserved, charge, net, quota, posted, status, actual>>

\* A fact about one operation changes no other row.
LEMMA EnsureRows ==
    ASSUME TCore, NEW w \in Workers, NEW key \in Keys, NEW fact,
           TaskSubmit(w, key, fact) \/ Ensure(w, key, fact) \/ EnsureFails(w, key, fact)
    PROVE  /\ UNCHANGED <<reserved, charge, net, quota, logged, posted>> /\ pc[w] = "idle"
           /\ \A k \in Keys \ {key} : row'[k] = row[k]
           /\ \A v \in Workers \ {w} : pc'[v] = pc[v] /\ cur'[v] = cur[v]
BY DEF TaskSubmit, Ensure, EnsureFails, TCore, JCore, JTypeOK

\* A handler that bills the outcome submits an operation of its task, or
\* confirms an expense, and goes on with what it holds.
LEMMA BillEffect ==
    ASSUME TCore, NEW w \in Workers, FinalizeFailure(w) \/ RefundTask(w) \/ Reconcile(w)
    PROVE  /\ BooksKept /\ UNCHANGED <<taskvars, opened>>
           /\ job[w].at \in {"failed", "refund", "reconcile"} /\ pc[w] = "idle"
           /\ \A key \in Keys : key.task # job[w].task => row'[key] = row[key]
           /\ \A v \in Workers \ {w} : job'[v] = job[v]
           /\ \/ job'[w].at = "idle"
              \/ /\ job'[w].task = job[w].task /\ job'[w].st = job[w].st /\ job'[w].q = job[w].q
                 /\ job'[w].u = job[w].u /\ job'[w].h = job[w].h
                 /\ \/ job[w].at = "failed" /\ job'[w].at \in {"refund", "failing"}
                    \/ job[w].at = "refund" /\ job'[w].at = "plain"
                    \/ job[w].at = "reconcile" /\ job'[w].at \in {"reconciling", "ack"}
<1> USE JobTypes DEF TCore
<1>1. /\ job[w].at \in {"failed", "refund", "reconcile"} /\ pc[w] = "idle" /\ UNCHANGED taskvars
      /\ \/ Done(w)
         \/ job[w].at = "failed" /\ (Goto(w, "refund") \/ Goto(w, "failing"))
         \/ job[w].at = "refund" /\ Goto(w, "plain")
         \/ job[w].at = "reconcile" /\ (Goto(w, "reconciling") \/ Goto(w, "ack"))
  BY DEF FinalizeFailure, RefundTask, Reconcile, At
<1>2. /\ \A v \in Workers \ {w} : job'[v] = job[v]
      /\ \/ job'[w].at = "idle"
         \/ /\ job'[w].task = job[w].task /\ job'[w].st = job[w].st /\ job'[w].q = job[w].q
            /\ job'[w].u = job[w].u /\ job'[w].h = job[w].h
            /\ \/ job[w].at = "failed" /\ job'[w].at \in {"refund", "failing"}
               \/ job[w].at = "refund" /\ job'[w].at = "plain"
               \/ job[w].at = "reconcile" /\ job'[w].at \in {"reconciling", "ack"}
  <2>1. CASE Done(w) BY <2>1, DoneFacts
  <2>2. ASSUME NEW at \in Steps, Goto(w, at)
        PROVE  /\ \A v \in Workers \ {w} : job'[v] = job[v]
               /\ job'[w].at = at /\ job'[w].task = job[w].task /\ job'[w].st = job[w].st
               /\ job'[w].q = job[w].q /\ job'[w].u = job[w].u /\ job'[w].h = job[w].h
    BY <2>2, GotoFacts DEF TTypeOK
  <2> QED BY <1>1, <2>1, <2>2 DEF Steps
<1>3. /\ UNCHANGED <<reserved, charge, net, quota, posted, opened>>
      /\ \A key \in Keys : key.task # job[w].task => row'[key] = row[key]
  <2>1. \/ UNCHANGED jvars
        \/ \E k \in Kinds : \E q : ConfirmExpense(Key(k, job[w].task), q) /\ UNCHANGED opened
        \/ \E k \in Kinds : \E fact : TaskSubmit(w, Key(k, job[w].task), fact)
    BY DEF FinalizeFailure, RefundTask, Reconcile, ConfirmQuota, Kinds
  <2>2. CASE UNCHANGED jvars BY <2>2 DEF jvars
  <2>3. CASE \E k \in Kinds : \E q : ConfirmExpense(Key(k, job[w].task), q) /\ UNCHANGED opened
    BY <2>3 DEF ConfirmExpense
  <2>4. CASE \E k \in Kinds : \E fact : TaskSubmit(w, Key(k, job[w].task), fact)
    <3>0. PICK k \in Kinds : \E fact : TaskSubmit(w, Key(k, job[w].task), fact) BY <2>4
    <3>1. PICK fact : TaskSubmit(w, Key(k, job[w].task), fact) BY <3>0
    <3>2. Key(k, job[w].task) \in Keys /\ Key(k, job[w].task).task = job[w].task
      BY KeyFacts
    <3>3. UNCHANGED opened BY <3>1 DEF TaskSubmit
    <3> QED BY <3>1, <3>2, <3>3, EnsureRows
  <2> QED BY <2>1, <2>2, <2>3, <2>4
<1> QED BY <1>1, <1>2, <1>3 DEF BooksKept, taskvars

\* Handlers that return from the journal, write the usage state or stop.
LEMMA UsageEffect ==
    ASSUME TCore, NEW w \in Workers,
           \/ FailureRecalculated(w) \/ ReconcileReturns(w) \/ PlainReturns(w) \/ SwapLost(w)
           \/ StillPending(w) \/ AckUsage(w) \/ TouchUsage(w) \/ MeasureUsage(w) \/ MeasureFails(w)
    PROVE  /\ BooksKept /\ UNCHANGED <<row, receipt, opened, begun>>
           /\ \A v \in Workers \ {w} : job'[v] = job[v] /\ pc'[v] = pc[v] /\ cur'[v] = cur[v]
           /\ pc'[w] = "idle"
           /\ \/ job'[w].at = "idle"
              \/ /\ job'[w].task = job[w].task /\ job'[w].q = job[w].q
                 /\ \/ job[w].at = "failing" /\ job'[w].at = "refund"
                    \/ /\ job[w].at = "reconciling" /\ job'[w].at = "ack" /\ pc[w] = "ok"
                       /\ job'[w].u = job[w].u /\ job'[w].h = job[w].h
                    \/ /\ job[w].at = "touch" /\ job'[w].at = "measure"
                       /\ job'[w].u = job[w].u /\ job'[w].h = job[w].h
                    \/ /\ job[w].at = "measure" /\ job'[w].at = "reconcile"
                       /\ job'[w].u = "known" /\ job'[w].h = job[w].q
<1> USE DEF TCore
<1>1. /\ UNCHANGED <<reserved, charge, net, quota, posted, status, actual, row, receipt, opened, begun>>
      /\ pc'[w] = "idle" /\ \A v \in Workers \ {w} : pc'[v] = pc[v] /\ cur'[v] = cur[v]
  BY DEF FailureRecalculated, ReconcileReturns, PlainReturns, SwapLost, StillPending, AckUsage, TouchUsage,
         MeasureUsage, MeasureFails, Returned, Return, At, jvars, taskvars, TTypeOK, JTypeOK
<1>2. CASE MeasureUsage(w)
  <2>1. job[w].at = "measure" BY <1>2 DEF MeasureUsage, At
  <2> QED BY <1>1, <1>2, <2>1, MeasureJob DEF BooksKept
<1>3. CASE ~MeasureUsage(w)
  <2>1. \/ Done(w)
        \/ job[w].at = "failing" /\ Goto(w, "refund")
        \/ job[w].at = "reconciling" /\ Goto(w, "ack") /\ pc[w] = "ok"
        \/ job[w].at = "touch" /\ Goto(w, "measure")
    BY <1>3 DEF FailureRecalculated, ReconcileReturns, PlainReturns, SwapLost, StillPending, AckUsage, TouchUsage,
         MeasureFails, Returned, At, KeepPending
  <2>2. CASE Done(w) BY <1>1, <2>2, DoneFacts DEF BooksKept
  <2>3. CASE ~Done(w)
    BY <1>1, <2>1, <2>3, GotoFacts DEF BooksKept, TTypeOK, Steps
  <2> QED BY <2>2, <2>3
<1> QED BY <1>2, <1>3

\* A session's own steps.
LEMMA SessionEffect ==
    ASSUME TCore, NEW w \in Workers, SubmitSettle(w) \/ SettleReturns(w) \/ GiveBack(w)
    PROVE  /\ BooksKept /\ UNCHANGED taskvars
           /\ \A key \in Keys : key.kind \notin SessionKinds => row'[key] = row[key]
           /\ \A v \in Workers \ {w} : job'[v] = job[v]
           /\ job'[w].at \in {"settling", "giveBack", "plain", "idle"}
           /\ job'[w].at \in {"settling", "giveBack"} => job'[w].task = job[w].task
<1> USE JobTypes DEF TCore
<1>1. /\ UNCHANGED taskvars /\ job[w].at \in {"settle", "settling", "giveBack"}
      /\ Done(w) \/ Goto(w, "settling") \/ Goto(w, "giveBack") \/ Goto(w, "plain")
  BY DEF SubmitSettle, SettleReturns, GiveBack, At, Returned
<1>2. /\ \A v \in Workers \ {w} : job'[v] = job[v]
      /\ job'[w].at \in {"settling", "giveBack", "plain", "idle"}
      /\ job'[w].at \in {"settling", "giveBack"} => job'[w].task = job[w].task
  BY <1>1, DoneFacts, GotoFacts DEF TTypeOK, Steps
<1>3. /\ UNCHANGED <<reserved, charge, net, quota, posted>>
      /\ \A key \in Keys : key.kind \notin SessionKinds => row'[key] = row[key]
  <2>1. \/ UNCHANGED <<reserved, charge, net, quota, posted, row>>
        \/ \E k \in SessionKinds : \E fact : Ensure(w, Key(k, job[w].task), fact)
    BY DEF SubmitSettle, SettleReturns, GiveBack, SessionRuns, Returned, Return, jvars, SessionKinds
  <2>2. CASE UNCHANGED <<reserved, charge, net, quota, posted, row>> BY <2>2
  <2>3. CASE \E k \in SessionKinds : \E fact : Ensure(w, Key(k, job[w].task), fact)
    <3>0. PICK k \in SessionKinds : \E fact : Ensure(w, Key(k, job[w].task), fact) BY <2>3
    <3>1. PICK fact : Ensure(w, Key(k, job[w].task), fact) BY <3>0
    <3>2. Key(k, job[w].task) \in Keys /\ Key(k, job[w].task).kind \in SessionKinds
      BY KeyFacts DEF SessionKinds, Kinds
    <3> QED BY <3>1, <3>2, EnsureRows
  <2> QED BY <2>1, <2>2, <2>3
<1> QED BY <1>1, <1>2, <1>3 DEF BooksKept, taskvars

\* Faults end a handler, or give it an error from the journal.
LEMMA FaultEffect ==
    ASSUME TCore, NEW w \in Workers, Fault(w)
    PROVE  /\ BooksKept /\ UNCHANGED <<taskvars, row, receipt>>
           /\ \A v \in Workers \ {w} : job'[v] = job[v] /\ pc'[v] = pc[v] /\ cur'[v] = cur[v]
           /\ \/ job'[w] = job[w] /\ StepFails(w)
              \/ job'[w].at = "idle" /\ pc'[w] = "idle" /\ UNCHANGED opened
              \/ /\ job'[w].task = job[w].task /\ job'[w].u = job[w].u /\ job'[w].h = job[w].h
                 /\ job'[w].q = job[w].q /\ pc[w] = "idle" /\ pc'[w] = "err"
                 /\ \/ /\ job[w].at = "settle" /\ job'[w].at = "settling"
                       /\ opened' = opened \cup {Key("settle", job[w].task)}
                    \/ /\ job[w].at = "giveBack" /\ job'[w].at = "plain"
                       /\ opened' = opened \cup {Key("refund", job[w].task)}
                    \/ job[w].at = "failed" /\ job'[w].at = "failing" /\ UNCHANGED opened
                    \/ /\ job[w].at = "reconcile" /\ job'[w].at = "reconciling" /\ UNCHANGED opened
                       /\ cur'[w] = Key("recalculate", job[w].task)
                    \/ job[w].at = "refund" /\ job'[w].at = "plain" /\ UNCHANGED opened
<1> USE DEF TCore
<1>1. UNCHANGED taskvars BY DEF Fault
<1>2. CASE StepFails(w) /\ UNCHANGED job
  BY <1>1, <1>2 DEF StepFails, BooksKept, taskvars, TTypeOK, JTypeOK
<1>3. CASE (Crash(w) \/ (pc[w] = "idle" /\ UNCHANGED jvars)) /\ Done(w)
  BY <1>1, <1>3, DoneFacts DEF Crash, jvars, BooksKept, taskvars, TTypeOK, JTypeOK
<1>4. CASE EnsureFault(w)
  <2> DEFINE t == job[w].task
  <2>1. /\ UNCHANGED <<reserved, charge, net, quota, posted, row, receipt>>
        /\ pc[w] = "idle" /\ pc'[w] = "err"
        /\ \A v \in Workers \ {w} : pc'[v] = pc[v] /\ cur'[v] = cur[v]
    BY <1>4 DEF EnsureFault, EnsureFails, TTypeOK, JTypeOK
  <2>2. PICK at \in Steps :
          /\ Goto(w, at)
          /\ \/ /\ job[w].at = "settle" /\ at = "settling" /\ opened' = opened \cup {Key("settle", t)}
             \/ /\ job[w].at = "giveBack" /\ at = "plain" /\ opened' = opened \cup {Key("refund", t)}
             \/ job[w].at = "failed" /\ at = "failing" /\ UNCHANGED opened
             \/ /\ job[w].at = "reconcile" /\ at = "reconciling" /\ UNCHANGED opened
                /\ cur'[w] = Key("recalculate", t)
             \/ job[w].at = "refund" /\ at = "plain" /\ UNCHANGED opened
    BY <1>4 DEF EnsureFault, EnsureFails, At, Steps, TTypeOK, JTypeOK
  <2>3. /\ job'[w].at = at /\ job'[w].task = job[w].task /\ job'[w].st = job[w].st
        /\ job'[w].q = job[w].q /\ job'[w].u = job[w].u /\ job'[w].h = job[w].h
        /\ \A v \in Workers \ {w} : job'[v] = job[v]
    BY <2>2, GotoFacts DEF TTypeOK
  <2> QED BY <1>1, <2>1, <2>2, <2>3 DEF BooksKept, taskvars
<1> QED BY <1>2, <1>3, <1>4 DEF Fault

\* A request begins: the row of a task, or nothing, is created.
LEMMA PersistEffect ==
    ASSUME TCore, NEW w \in Workers, NEW t \in Tasks, Persist(w, t)
    PROVE  /\ UNCHANGED <<reserved, charge, net, quota, posted, usage, held, actual>>
           /\ \A key \in Keys : key.kind \notin SessionKinds => row'[key] = row[key]
           /\ t \notin begun /\ begun' = begun \cup {t} /\ job[w].at = "idle" /\ pc[w] = "idle"
           /\ \A v \in Workers \ {w} : job'[v] = job[v]
           /\ job'[w].task = t
           /\ \/ job'[w].at = "giveBack" /\ UNCHANGED status
              \/ /\ \E s \in {"submitted"} \cup Terminal : status' = [status EXCEPT ![t] = s]
                 /\ job'[w].at = "settle"
              \/ /\ status' = [status EXCEPT ![t] = "submitted"] /\ t \in Enhanced
                 /\ job'[w].at = "settling"
<1> USE DEF TCore
<1>1. /\ "none" \in Statuses /\ "submitted" \in Statuses /\ \A s \in Terminal : s \in Statuses
      /\ "none" \in Usages /\ 0 \in Quotas /\ charge[t] \in Quotas
      /\ "settle" \in Steps /\ "giveBack" \in Steps /\ "settling" \in Steps
  BY NoRowIsRow, RowTypes DEF Statuses, Running, Usages, Steps
<1>2. CASE PersistFails(w, t)
  <2>1. job'[w].at = "giveBack" /\ job'[w].task = t /\ \A v \in Workers \ {w} : job'[v] = job[v]
    BY <1>1, <1>2, StartJob DEF PersistFails
  <2> QED BY <1>2, <2>1 DEF PersistFails, At, jvars
<1>3. CASE \E s \in {"submitted"} \cup Terminal : PersistTask(w, t, s)
  <2>1. PICK s \in {"submitted"} \cup Terminal : PersistTask(w, t, s) BY <1>3
  <2>2. job'[w].at = "settle" /\ job'[w].task = t /\ \A v \in Workers \ {w} : job'[v] = job[v]
    BY <1>1, <2>1, StartJob DEF PersistTask
  <2> QED BY <2>1, <2>2 DEF PersistTask, At, jvars
<1>4. CASE PersistEnhanced(w, t)
  <2>1. job'[w].at = "settling" /\ job'[w].task = t /\ \A v \in Workers \ {w} : job'[v] = job[v]
    BY <1>1, <1>4, StartJob DEF PersistEnhanced
  <2>2. Key("settle", t) \in Keys /\ Key("settle", t).kind \in SessionKinds
    BY KeyFacts DEF SessionKinds, Kinds
  <2>3. \A key \in Keys : key.kind \notin SessionKinds => row'[key] = row[key]
    BY <1>4, <2>2, EnsureRows DEF PersistEnhanced
  <2> QED BY <1>4, <2>1, <2>3 DEF PersistEnhanced, Ensure, At
<1> QED BY <1>2, <1>3, <1>4 DEF Persist

\* The steps inside the journal other than the money transaction create no row.
LEMMA JournalEffect ==
    ASSUME TCore, NEW w \in Workers, RunJournal(w), ~ApplyNow(w)
    PROVE  /\ BooksKept /\ UNCHANGED <<taskvars, job, opened, receipt>>
           /\ \A v \in Workers \ {w} : pc'[v] = pc[v]
           /\ cur' = cur
           /\ \A key \in Keys : row'[key].state # "none" =>
                 /\ row[key].state = row'[key].state
                 /\ row'[key].expected = row[key].expected /\ row'[key].final = row[key].final
                 /\ row'[key].confirm = row[key].confirm
<1> USE DEF TCore, JCore, JTypeOK
<1>1. \A v \in Workers \ {w} : pc'[v] = pc[v]
  BY DEF RunJournal, JournalStep, ApplyAgain, ApplyRefused, WriteLog, MarkLogDone, DeleteRow
<1>2. \A key \in Keys : row'[key].state # "none" =>
         /\ row[key].state = row'[key].state
         /\ row'[key].expected = row[key].expected /\ row'[key].final = row[key].final
         /\ row'[key].confirm = row[key].confirm
  <2>1. cur[w] \in Keys /\ row \in [Keys -> Rows] OBVIOUS
  <2>2. CASE UNCHANGED row BY <2>2
  <2>3. CASE row' = [row EXCEPT ![cur[w]].logDone = TRUE]
    BY <2>1, <2>3 DEF Rows
  <2>4. CASE row' = [row EXCEPT ![cur[w]] = NoRow]
    BY <2>1, <2>4, NoRowIsRow
  <2> QED BY <2>2, <2>3, <2>4 DEF RunJournal, JournalStep, ApplyAgain, ApplyRefused, WriteLog, MarkLogDone, DeleteRow
<1>3. /\ UNCHANGED <<reserved, charge, net, quota, posted, opened, receipt, cur>>
      /\ UNCHANGED <<taskvars, job>>
  BY DEF RunJournal, JournalStep, ApplyAgain, ApplyRefused, WriteLog, MarkLogDone, DeleteRow
<1> QED BY <1>1, <1>2, <1>3 DEF BooksKept, taskvars

--------------------------------------------------------------------------------
(* TLedgerInv is inductive. *)

\* What one worker's new memory must satisfy.
LedgerJob(w) ==
    /\ job'[w].at # "fetch"
    /\ job'[w].at \in {"poll", "cancel"} =>
          /\ job'[w].st \in Running /\ status'[job'[w].task] # "none"
          /\ job'[w].task \notin Enhanced => job'[w].q = charge[job'[w].task]
    /\ job'[w].at \in BillingSteps => status'[job'[w].task] \in Terminal

\* A step that keeps decided tasks decided, opens operations of decided tasks
\* only and leaves the quota of undecided ones keeps TLedgerInv.
LEMMA LedgerFrom ==
    ASSUME TLedgerInv, TCore', NEW w \in Workers,
           \A v \in Workers \ {w} : job'[v] = job[v],
           LedgerJob(w),
           \A t \in Tasks :
              /\ status[t] \in Terminal => status'[t] \in Terminal
              /\ status[t] # "none" => status'[t] # "none"
              /\ status'[t] # "none" => t \in begun',
           \A key \in Keys : key.kind \notin SessionKinds =>
              (row'[key].state # "none" \/ key \in posted' =>
                  row[key].state # "none" \/ key \in posted \/ status'[key.task] \in Terminal),
           UNCHANGED charge,
           \A t \in Tasks \ Enhanced : status'[t] \notin Terminal => quota'[t] = quota[t],
           Reconciled'
    PROVE  TLedgerInv'
<1>1. \A key \in Keys : key.task \in Tasks BY KeyFacts
<1>2. \A v \in Workers : job[v].task \in Tasks BY JobTypes DEF TLedgerInv, TCore
<1>3. BilledWhenDecided'
  <2>1. \A key \in Keys : key.kind \notin SessionKinds =>
          (row'[key].state # "none" \/ key \in posted' => status'[key.task] \in Terminal)
    BY <1>1 DEF TLedgerInv, BilledWhenDecided
  <2>2. ASSUME NEW v \in Workers
        PROVE  /\ job'[v].at # "fetch"
               /\ job'[v].at \in {"poll", "cancel"} =>
                     job'[v].st \in Running /\ status'[job'[v].task] # "none"
               /\ job'[v].at \in BillingSteps => status'[job'[v].task] \in Terminal
    BY <1>2 DEF TLedgerInv, BilledWhenDecided, LedgerJob
  <2> QED BY <2>1, <2>2 DEF BilledWhenDecided
<1>4. ChargedUntilDecided'
  <2>1. ASSUME NEW v \in Workers, job'[v].at \in {"poll", "cancel"}, job'[v].task \notin Enhanced
        PROVE  job'[v].q = charge'[job'[v].task]
    BY <2>1 DEF TLedgerInv, ChargedUntilDecided, LedgerJob
  <2> QED BY <2>1 DEF TLedgerInv, ChargedUntilDecided
<1> QED BY <1>3, <1>4 DEF TLedgerInv

\* In particular, a step that leaves the books alone.
LEMMA LedgerQuiet ==
    ASSUME TLedgerInv, TCore', BooksKept, begun \subseteq begun', NEW w \in Workers,
           \A v \in Workers \ {w} : job'[v] = job[v],
           LedgerJob(w),
           \A key \in Keys : key.kind \notin SessionKinds =>
              (row'[key].state # "none" =>
                  row[key].state # "none" \/ status'[key.task] \in Terminal)
    PROVE  TLedgerInv'
<1>1. Reconciled' BY QuietReconciled DEF TLedgerInv, BooksKept, Ledger!lvars
<1> QED BY <1>1, LedgerFrom DEF TLedgerInv, BilledWhenDecided, BooksKept

\* A won compare-and-swap of a poller or a cancellation writes the quota that
\* the row already has.
LEMMA SwapKeepsQuota ==
    ASSUME TLedgerInv, NEW w \in Workers, job[w].at \in {"poll", "cancel"},
           NEW s, NEW f, NEW u, NEW h, Swap(w, s, f, u, h)
    PROVE  /\ quota' = quota /\ status[job[w].task] \in Running
           /\ Written(job[w].task, job[w].q) = quota[job[w].task]
<1>1. job[w].task \in Tasks /\ quota \in [Tasks -> Quotas]
  BY JobTypes DEF TLedgerInv, TCore, TTypeOK, JTypeOK
<1>2. status[job[w].task] \in Running
  BY DEF Swap, TLedgerInv, BilledWhenDecided
<1>3. Written(job[w].task, job[w].q) = quota[job[w].task]
  BY <1>1, <1>2 DEF TLedgerInv, ChargedUntilDecided, Written, Running, Terminal
<1> QED BY <1>1, <1>2, <1>3 DEF Swap

\* The compare-and-swaps keep TLedgerInv.
LEMMA SwapLedger ==
    ASSUME TLedgerInv, TCore', NEW w \in Workers, job[w].at \in {"poll", "cancel"},
           NEW s \in Running \cup Terminal, NEW f, NEW u, NEW h, Swap(w, s, f, u, h),
           \A v \in Workers \ {w} : job'[v] = job[v],
           \/ job'[w].at = "idle"
           \/ /\ s \in Terminal /\ job'[w].at \in BillingSteps /\ job'[w].task = job[w].task
    PROVE  TLedgerInv'
<1>1. job[w].task \in Tasks /\ status \in [Tasks -> Statuses]
  BY JobTypes DEF TLedgerInv, TCore, TTypeOK
<1>2. quota' = quota /\ status[job[w].task] \in Running BY SwapKeepsQuota
<1>3. UNCHANGED <<reserved, charge, net, row, posted, begun>> BY DEF Swap
<1>4. Reconciled' BY <1>2, <1>3, QuietReconciled DEF TLedgerInv, Ledger!lvars
<1>5. status' = [status EXCEPT ![job[w].task] = s] BY DEF Swap
<1>6. \A t \in Tasks :
        /\ status[t] \in Terminal => status'[t] \in Terminal
        /\ status[t] # "none" => status'[t] # "none"
        /\ status'[t] # "none" => t \in begun'
  BY <1>1, <1>2, <1>3, <1>5 DEF TLedgerInv, BilledWhenDecided, Running, Terminal
<1>7. LedgerJob(w)
  BY <1>1, <1>5 DEF LedgerJob, BillingSteps
<1> QED BY <1>2, <1>3, <1>4, <1>6, <1>7, LedgerFrom

\* The money transaction keeps TLedgerInv: what moves the quota of a direct task
\* is an operation of a decided task.
LEMMA ApplyLedger ==
    ASSUME TLedgerInv, TCore', NEW w \in Workers, RunJournal(w), ApplyNow(w)
    PROVE  TLedgerInv'
<1> DEFINE key == cur[w]
           r   == row[key]
<1>1. /\ key \in Keys /\ key.task \in Tasks /\ r \in Rows
      /\ \/ UNCHANGED <<net, quota, posted>>
         \/ /\ posted' = posted \cup {key}
            /\ quota' = quota \/ (r.entity /\ quota' = [quota EXCEPT ![key.task] = r.final])
  BY ApplyNowMoves DEF TLedgerInv, TCore
<1>2. /\ UNCHANGED <<charge, status, begun, job>> /\ r.state = "pending"
      /\ row' = [row EXCEPT ![key].state = "applied"]
  BY DEF ApplyNow, RunJournal, taskvars
<1>3. \A k \in Keys : row'[k].state # "none" => row[k].state # "none"
  BY <1>1, <1>2 DEF TLedgerInv, TCore, JCore, JTypeOK, Rows
<1>4. Reconciled' BY ApplyNowReconciled DEF TLedgerInv, TCore, JInv
<1>5. \A t \in Tasks \ Enhanced : status'[t] \notin Terminal => quota'[t] = quota[t]
  <2>1. key.kind \notin SessionKinds => status[key.task] \in Terminal
    BY <1>1, <1>2 DEF TLedgerInv, BilledWhenDecided
  <2>2. key.kind \in SessionKinds /\ r.entity => key.task \in Enhanced
    BY <1>1, <1>2 DEF TLedgerInv, TCore, JCore, RowFacts, SessionKinds
  <2>3. quota \in [Tasks -> Quotas] BY DEF TLedgerInv, TCore, JCore, JTypeOK
  <2> QED BY <1>1, <1>2, <2>1, <2>2, <2>3
<1>6. LedgerJob(w)
  BY <1>2 DEF LedgerJob, TLedgerInv, BilledWhenDecided, ChargedUntilDecided
<1>7. \A k \in Keys : k.kind \notin SessionKinds =>
         (row'[k].state # "none" \/ k \in posted' => row[k].state # "none" \/ k \in posted)
  BY <1>1, <1>2, <1>3
<1> QED BY <1>2, <1>4, <1>5, <1>6, <1>7, LedgerFrom DEF TLedgerInv, BilledWhenDecided

\* The steps of handlers keep TLedgerInv.
LEMMA HandlerLedger ==
    ASSUME TLedgerInv, TCore', NEW w \in Workers, Continue(w)
    PROVE  TLedgerInv'
<1>1. TCore BY DEF TLedgerInv
<1>2. job[w].task \in Tasks BY <1>1, JobTypes DEF TCore
<1>3. BilledWhenDecided BY DEF TLedgerInv
<1>4. CASE SubmitSettle(w) \/ SettleReturns(w) \/ GiveBack(w)
  BY <1>1, <1>4, SessionEffect, LedgerQuiet DEF LedgerJob, BillingSteps, taskvars
<1>5. CASE \/ FailureRecalculated(w) \/ ReconcileReturns(w) \/ PlainReturns(w) \/ SwapLost(w)
           \/ StillPending(w) \/ AckUsage(w) \/ TouchUsage(w) \/ MeasureUsage(w) \/ MeasureFails(w)
  <2>1. LedgerJob(w)
    BY <1>1, <1>2, <1>3, <1>5, UsageEffect DEF LedgerJob, BooksKept, BilledWhenDecided, BillingSteps
  <2> QED BY <1>1, <1>5, <2>1, UsageEffect, LedgerQuiet
<1>6. CASE FinalizeFailure(w) \/ RefundTask(w) \/ Reconcile(w)
  <2>1. status[job[w].task] \in Terminal
    BY <1>1, <1>3, <1>6, BillEffect DEF BilledWhenDecided, BillingSteps
  <2>2. LedgerJob(w)
    BY <1>1, <1>6, <2>1, BillEffect DEF LedgerJob, BooksKept, BillingSteps
  <2> QED BY <1>1, <1>6, <2>1, <2>2, BillEffect, LedgerQuiet DEF BooksKept, taskvars
<1>7. CASE PollSucceeded(w) \/ PollFailed(w) \/ TimeOut(w) \/ Cancel(w)
  <2>a. PICK s \in Terminal, u \in Usages, h \in Quotas : Decides(w, s, u, h)
    BY <1>1, <1>7, OutcomeEffect
  <2>1. /\ job[w].at \in {"poll", "cancel"} /\ Swap(w, s, TRUE, u, h)
        /\ \A v \in Workers \ {w} : job'[v] = job[v]
        /\ \/ job'[w].at = "idle"
           \/ job'[w].at \in {"reconcile", "failed", "refund"} /\ job'[w].task = job[w].task
    BY <2>a DEF Decides
  <2> QED BY <2>1, SwapLedger DEF BillingSteps
<1>8. CASE PollRunning(w)
  <2>1. PICK s \in Running, f \in BOOLEAN : Swap(w, s, f, job[w].u, job[w].h)
    BY <1>8 DEF PollRunning
  <2>2. job[w].at = "poll" /\ Done(w) BY <1>8 DEF PollRunning, At
  <2> QED BY <1>1, <2>1, <2>2, DoneFacts, SwapLedger DEF TCore
<1>9. CASE BulkFail(w)
  <2>1. /\ job[w].at = "poll" /\ Done(w) /\ status' = [status EXCEPT ![job[w].task] = "failure"]
        /\ UNCHANGED <<reserved, charge, net, quota, posted, row, begun>>
    BY <1>9 DEF BulkFail, At, jvars
  <2>2. status[job[w].task] # "none" /\ status \in [Tasks -> Statuses]
    BY <1>1, <1>3, <2>1 DEF BilledWhenDecided, TCore, TTypeOK
  <2>3. \A t \in Tasks :
          /\ status[t] \in Terminal => status'[t] \in Terminal
          /\ status[t] # "none" => status'[t] # "none"
          /\ status'[t] # "none" => t \in begun'
    BY <1>2, <1>3, <2>1, <2>2 DEF BilledWhenDecided, Terminal
  <2>4. Reconciled' BY <2>1, QuietReconciled DEF TLedgerInv, Ledger!lvars
  <2>5. job'[w].at = "idle" /\ \A v \in Workers \ {w} : job'[v] = job[v]
    BY <1>1, <2>1, DoneFacts DEF TCore
  <2> QED BY <2>1, <2>3, <2>4, <2>5, LedgerFrom DEF LedgerJob, BillingSteps
<1>10. CASE RealtimeFetch(w) \/ FetchUnchanged(w)
  BY <1>3, <1>10 DEF RealtimeFetch, FetchUnchanged, At, BilledWhenDecided
<1>11. CASE RunJournal(w)
  <2>1. CASE ApplyNow(w) BY <1>11, <2>1, ApplyLedger
  <2>2. CASE ~ApplyNow(w)
    <3>1. LedgerJob(w)
      BY <1>1, <1>11, <2>2, JournalEffect DEF LedgerJob, BooksKept, taskvars, TLedgerInv, BilledWhenDecided, ChargedUntilDecided
    <3> QED BY <1>1, <1>11, <2>2, <3>1, JournalEffect, LedgerQuiet DEF taskvars
  <2> QED BY <2>1, <2>2
<1> QED BY <1>4, <1>5, <1>6, <1>7, <1>8, <1>9, <1>10, <1>11 DEF Continue

\* So do beginnings of handlers and faults; nobody begins a realtime fetch.
LEMMA OtherLedger ==
    ASSUME TLedgerInv, TCore', Realtime = {}, NEW w \in Workers,
           \/ Fault(w)
           \/ \E t \in Tasks : Persist(w, t) \/ List(w, t) \/ ReadForCancel(w, t) \/ ReadForFetch(w, t)
    PROVE  TLedgerInv'
<1>1. TCore BY DEF TLedgerInv
<1>2. BilledWhenDecided /\ ChargedUntilDecided BY DEF TLedgerInv
<1>3. CASE Fault(w)
  <2>1. UNCHANGED <<status, charge>> BY <1>1, <1>3, FaultEffect DEF BooksKept
  <2>2. LedgerJob(w)
    <3>1. CASE job'[w] = job[w]
      BY <1>2, <2>1, <3>1 DEF LedgerJob, BilledWhenDecided, ChargedUntilDecided
    <3>2. CASE job'[w] # job[w]
      BY <1>1, <1>2, <1>3, <2>1, <3>2, FaultEffect DEF LedgerJob, BilledWhenDecided, BillingSteps
    <3> QED BY <3>1, <3>2
  <2> QED BY <1>1, <1>3, <2>2, FaultEffect, LedgerQuiet DEF taskvars
<1>4. ASSUME NEW t \in Tasks, Persist(w, t) PROVE TLedgerInv'
  <2>1. /\ UNCHANGED <<reserved, charge, net, quota, posted>>
        /\ \A key \in Keys : key.kind \notin SessionKinds => row'[key] = row[key]
        /\ t \notin begun /\ begun' = begun \cup {t}
        /\ \A v \in Workers \ {w} : job'[v] = job[v]
        /\ job'[w].at \in {"settle", "giveBack", "settling"}
        /\ \/ UNCHANGED status
           \/ \E s \in {"submitted"} \cup Terminal : status' = [status EXCEPT ![t] = s]
    BY <1>1, <1>4, PersistEffect
  <2>2. Reconciled' BY <2>1, QuietReconciled DEF TLedgerInv, Ledger!lvars
  <2>3. status[t] = "none" /\ status \in [Tasks -> Statuses]
    BY <1>1, <1>2, <2>1 DEF BilledWhenDecided, TCore, TTypeOK
  <2>4. \A x \in Tasks :
          /\ status[x] \in Terminal => status'[x] \in Terminal
          /\ status[x] # "none" => status'[x] # "none"
          /\ status'[x] # "none" => x \in begun'
    BY <1>2, <2>1, <2>3 DEF BilledWhenDecided, Terminal
  <2>5. LedgerJob(w) BY <2>1 DEF LedgerJob, BillingSteps
  <2> QED BY <2>1, <2>2, <2>4, <2>5, LedgerFrom
<1>5. ASSUME NEW t \in Tasks,
             ReadTask(w, t) \/ ReadForCancel(w, t) \/ ListUsage(w, t) \/ ListFailed(w, t)
      PROVE  TLedgerInv'
  <2>1. UNCHANGED <<reserved, charge, net, quota, posted, status, actual, row, begun>>
    BY <1>1, <1>5, ReadEffect DEF jvars, taskvars
  <2>2. LedgerJob(w)
    BY <1>1, <1>2, <1>5, <2>1, ReadEffect DEF LedgerJob, BillingSteps, ChargedUntilDecided, Running, Terminal
  <2> QED BY <1>1, <1>5, <2>1, <2>2, ReadEffect, LedgerQuiet DEF BooksKept
<1>6. ASSUME NEW key, SweepJournal(w, key) PROVE TLedgerInv'
  <2>1. UNCHANGED <<reserved, charge, net, quota, posted, status, actual, row, begun>> /\ Goto(w, "plain")
    BY <1>6 DEF SweepJournal, SweepPick, taskvars
  <2>2. job'[w].at = "plain" /\ \A v \in Workers \ {w} : job'[v] = job[v]
    BY <1>1, <2>1, GotoFacts DEF TCore, TTypeOK, Steps
  <2> QED BY <2>1, <2>2, LedgerQuiet DEF BooksKept, LedgerJob, BillingSteps
<1>7. ~ \E t \in Tasks : ReadForFetch(w, t) BY DEF ReadForFetch
<1> QED BY <1>3, <1>4, <1>5, <1>6, <1>7 DEF List

\* TLedgerInv is inductive.
LEMMA NextTLedger ==
    ASSUME Realtime = {} PROVE TLedgerInv /\ [TNext]_tvars => TLedgerInv'
<1> SUFFICES ASSUME TLedgerInv, [TNext]_tvars PROVE TLedgerInv' OBVIOUS
<1>1. TCore' BY NextTCore DEF TLedgerInv
<1>2. ASSUME NEW w \in Workers, TStep(w) PROVE TLedgerInv'
  BY <1>1, <1>2, HandlerLedger, OtherLedger DEF TStep
<1>3. CASE UNCHANGED tvars
  <2>1. Reconciled' BY <1>3, QuietReconciled DEF TLedgerInv, Ledger!lvars, tvars, jvars
  <2> QED BY <1>1, <1>3, <2>1 DEF TLedgerInv, BilledWhenDecided, ChargedUntilDecided, tvars, jvars, taskvars
<1> QED BY <1>2, <1>3, OneWorker

\* The initial states satisfy it, whatever the constants.
LEMMA InitTLedger == TInit => TLedgerInv
<1> SUFFICES ASSUME TInit PROVE TLedgerInv OBVIOUS
<1>1. TCore /\ Reconciled BY InitTCore, InitJInv DEF TInit, JInv
<1>2. \A w \in Workers : job[w].at = "idle" BY IdleFacts DEF TInit
<1>3. \A key \in Keys : row[key].state = "none" /\ key \notin posted
  BY NoRowIsRow DEF TInit, JInit
<1>4. \A t \in Tasks \ Enhanced : quota[t] = charge[t] BY DEF TInit, JInit, InitialQuota
<1>5. \A t \in Tasks : status[t] = "none" BY DEF TInit
<1> QED BY <1>1, <1>2, <1>3, <1>4, <1>5 DEF TLedgerInv, BilledWhenDecided, ChargedUntilDecided, BillingSteps
--------------------------------------------------------------------------------
(* The theorems without realtime fetches *)

\* TLedgerInv holds in every reachable state.
THEOREM TLedgerCorrect ==
    ASSUME Realtime = {} PROVE TSafe => []TLedgerInv
BY InitTLedger, NextTLedger, PTL DEF TSafe

\* The whole billing life of tasks keeps balances and quota columns reconciled:
\* the stale quota that UpdateWithStatus writes back is never a wrong one.
THEOREM TReconciledCorrect ==
    ASSUME Realtime = {} PROVE TSafe => []Reconciled
<1>1. TLedgerInv => Reconciled BY DEF TLedgerInv
<1> QED BY <1>1, TLedgerCorrect, PTL

\* Every step but the money transaction leaves the ledger alone.
LEMMA QuotaAlone ==
    ASSUME TLedgerInv, [TNext]_tvars, Realtime = {}, ~ \E w \in Workers : ApplyNow(w)
    PROVE  UNCHANGED Ledger!lvars
<1>1. UNCHANGED <<reserved, charge, net, posted>> BY MoneyAlone
<1>2. TCore /\ BilledWhenDecided BY DEF TLedgerInv
<1>3. ASSUME NEW w \in Workers, Continue(w) PROVE UNCHANGED quota
  <2>1. CASE SubmitSettle(w) \/ SettleReturns(w) \/ GiveBack(w)
    BY <1>2, <2>1, SessionEffect DEF BooksKept
  <2>2. CASE \/ FailureRecalculated(w) \/ ReconcileReturns(w) \/ PlainReturns(w) \/ SwapLost(w)
             \/ StillPending(w) \/ AckUsage(w) \/ TouchUsage(w) \/ MeasureUsage(w) \/ MeasureFails(w)
    BY <1>2, <2>2, UsageEffect DEF BooksKept
  <2>3. CASE FinalizeFailure(w) \/ RefundTask(w) \/ Reconcile(w)
    BY <1>2, <2>3, BillEffect DEF BooksKept
  <2>4. CASE PollSucceeded(w) \/ PollFailed(w) \/ TimeOut(w) \/ Cancel(w)
    BY <1>2, <2>4, OutcomeEffect, SwapKeepsQuota DEF Decides
  <2>5. CASE PollRunning(w)
    BY <2>5, SwapKeepsQuota DEF PollRunning, At
  <2>6. CASE BulkFail(w) BY <2>6 DEF BulkFail, jvars
  <2>7. CASE RealtimeFetch(w) \/ FetchUnchanged(w)
    BY <1>2, <2>7 DEF RealtimeFetch, FetchUnchanged, At, BilledWhenDecided
  <2>8. CASE RunJournal(w) BY <1>2, <2>8, JournalEffect DEF BooksKept
  <2> QED BY <1>3, <2>1, <2>2, <2>3, <2>4, <2>5, <2>6, <2>7, <2>8 DEF Continue
<1>4. ASSUME NEW w \in Workers, Fault(w) PROVE UNCHANGED quota
  BY <1>2, <1>4, FaultEffect DEF BooksKept
<1>5. ASSUME NEW w \in Workers, NEW t \in Tasks,
             Persist(w, t) \/ List(w, t) \/ ReadForCancel(w, t) \/ ReadForFetch(w, t)
      PROVE  UNCHANGED quota
  BY <1>5 DEF Persist, PersistTask, PersistFails, PersistEnhanced, Ensure, List, ReadTask, ListUsage, ListFailed,
     SweepJournal, SweepPick, ReadForCancel, ReadForFetch, jvars
<1>6. CASE UNCHANGED tvars BY <1>6 DEF tvars, jvars, Ledger!lvars
<1> QED BY <1>1, <1>3, <1>4, <1>5, <1>6, OneWorker DEF TStep, Ledger!lvars

\* The tasks implement the ledger: although handlers write whole rows back, the
\* quota column moves only with the balances, by operations of the ledger.
THEOREM TLedgerRefinement ==
    ASSUME Realtime = {} PROVE TSafe => ImplementsLedger
<1>1. TInit => Ledger!LInit
  BY DEF TInit, JInit, InitialQuota, Quotas, Ledger!LInit, Ledger!StartQuota, Ledger!Amounts
<1>2. TLedgerInv /\ [TNext]_tvars => [Ledger!LNext]_(Ledger!lvars)
  <2> SUFFICES ASSUME TLedgerInv, [TNext]_tvars PROVE [Ledger!LNext]_(Ledger!lvars)
    OBVIOUS
  <2>1. CASE \E w \in Workers : ApplyNow(w) BY <2>1, ApplyNowRefines DEF TLedgerInv, TCore
  <2>2. CASE ~ \E w \in Workers : ApplyNow(w) BY <2>2, QuotaAlone
  <2> QED BY <2>1, <2>2
<1> QED BY <1>1, <1>2, TLedgerCorrect, PTL DEF TSafe, ImplementsLedger, Ledger!LSpec

\* A step changes the status of undecided tasks only, unless a deleted channel's
\* tasks are failed in bulk.
LEMMA StatusMoves ==
    ASSUME TLedgerInv, [TNext]_tvars, Realtime = {}, NEW t \in Tasks, status[t] \in Terminal,
           status'[t] # status[t]
    PROVE  \E w \in Workers : BulkFail(w) /\ job[w].task = t
<1>1. TCore /\ BilledWhenDecided BY DEF TLedgerInv
<1>2. status \in [Tasks -> Statuses] BY <1>1 DEF TCore, TTypeOK
<1>3. ASSUME NEW w \in Workers, job[w].at \in {"poll", "cancel"}, NEW s, NEW f, NEW u, NEW h, Swap(w, s, f, u, h)
      PROVE  status'[t] = status[t]
  <2>1. status[job[w].task] \in Running BY <1>3, SwapKeepsQuota
  <2> QED BY <1>2, <1>3, <2>1 DEF Swap, Running, Terminal
<1>4. ASSUME NEW w \in Workers, Continue(w) PROVE BulkFail(w) /\ job[w].task = t
  <2>1. CASE SubmitSettle(w) \/ SettleReturns(w) \/ GiveBack(w)
    BY <1>1, <2>1, SessionEffect DEF BooksKept
  <2>2. CASE \/ FailureRecalculated(w) \/ ReconcileReturns(w) \/ PlainReturns(w) \/ SwapLost(w)
             \/ StillPending(w) \/ AckUsage(w) \/ TouchUsage(w) \/ MeasureUsage(w) \/ MeasureFails(w)
    BY <1>1, <2>2, UsageEffect DEF BooksKept
  <2>3. CASE FinalizeFailure(w) \/ RefundTask(w) \/ Reconcile(w)
    BY <1>1, <2>3, BillEffect DEF BooksKept
  <2>4. CASE PollSucceeded(w) \/ PollFailed(w) \/ TimeOut(w) \/ Cancel(w)
    BY <1>1, <1>3, <2>4, OutcomeEffect DEF Decides
  <2>5. CASE PollRunning(w)
    BY <1>3, <2>5 DEF PollRunning, At
  <2>6. CASE BulkFail(w) BY <1>2, <2>6 DEF BulkFail
  <2>7. CASE RealtimeFetch(w) \/ FetchUnchanged(w)
    BY <1>1, <2>7 DEF RealtimeFetch, FetchUnchanged, At, BilledWhenDecided
  <2>8. CASE RunJournal(w) BY <2>8 DEF RunJournal, taskvars
  <2> QED BY <1>4, <2>1, <2>2, <2>3, <2>4, <2>5, <2>6, <2>7, <2>8 DEF Continue
<1>5. ASSUME NEW w \in Workers, Fault(w) PROVE FALSE
  BY <1>5 DEF Fault, taskvars
<1>6. ASSUME NEW w \in Workers, NEW x \in Tasks, Persist(w, x) PROVE FALSE
  <2>1. status[x] = "none" BY <1>1, <1>6, PersistEffect DEF BilledWhenDecided
  <2>2. x # t BY <2>1 DEF Terminal
  <2> QED BY <1>1, <1>2, <1>6, <2>2, PersistEffect
<1>7. ASSUME NEW w \in Workers, NEW x \in Tasks, List(w, x) \/ ReadForCancel(w, x) \/ ReadForFetch(w, x)
      PROVE  FALSE
  BY <1>7 DEF List, ReadTask, ListUsage, ListFailed, SweepJournal, ReadForCancel, ReadForFetch, taskvars
<1>8. CASE UNCHANGED tvars BY <1>8 DEF tvars, taskvars
<1> QED BY <1>4, <1>5, <1>6, <1>7, <1>8, OneWorker DEF TStep

\* Of any number of pollers, timeout sweeps and cancellations only one decides
\* the outcome of a task.
THEOREM TerminalIsFinalCorrect ==
    ASSUME Realtime = {}, Orphans = {} PROVE TSafe => TerminalIsFinal
<1>1. ASSUME TLedgerInv, [TNext]_tvars
      PROVE  [\A t \in Tasks : status[t] \in Terminal => status'[t] = status[t]]_tvars
  BY <1>1, StatusMoves DEF BulkFail
<1> QED BY <1>1, TLedgerCorrect, PTL DEF TSafe, TerminalIsFinal
================================================================================
