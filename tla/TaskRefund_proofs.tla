---------------------------- MODULE TaskRefund_proofs ----------------------------
(***************************************************************************)
(* TaskBilling without realtime fetches and enhanced tasks: refunds are    *)
(* final and never exceed what was taken; an acknowledged usage            *)
(* reconciliation has charged what was measured.                           *)
(***************************************************************************)
EXTENDS TaskBilling_proofs

\* The amounts of a task are fixed, and what is posted stays posted.
LEMMA Fixed ==
    ASSUME TCore, [TNext]_tvars
    PROVE  UNCHANGED <<charge, reserved, actual>> /\ posted \subseteq posted'
<1>1. UNCHANGED <<charge, reserved>> /\ posted \subseteq posted'
  <2>1. CASE \E w \in Workers : ApplyNow(w)
    BY <2>1 DEF ApplyNow
  <2>2. CASE ~ \E w \in Workers : ApplyNow(w)
    BY <2>2, MoneyAlone
  <2> QED BY <2>1, <2>2
<1>2. UNCHANGED actual
  <2>1. ASSUME NEW w \in Workers, Continue(w) PROVE UNCHANGED actual
    <3>1. CASE SubmitSettle(w) \/ SettleReturns(w) \/ GiveBack(w)
      BY <3>1, SessionEffect DEF BooksKept
    <3>2. CASE \/ FailureRecalculated(w) \/ ReconcileReturns(w) \/ PlainReturns(w) \/ SwapLost(w)
               \/ StillPending(w) \/ AckUsage(w) \/ TouchUsage(w) \/ MeasureUsage(w) \/ MeasureFails(w)
      BY <3>2, UsageEffect DEF BooksKept
    <3>3. CASE FinalizeFailure(w) \/ RefundTask(w) \/ Reconcile(w)
      BY <3>3, BillEffect DEF BooksKept
    <3>4. CASE PollSucceeded(w) \/ PollFailed(w) \/ TimeOut(w) \/ Cancel(w)
      BY <3>4, OutcomeEffect DEF Decides, Swap
    <3>5. CASE PollRunning(w) \/ RealtimeFetch(w)
      BY <3>5 DEF PollRunning, RealtimeFetch, Swap
    <3>6. CASE BulkFail(w) \/ FetchUnchanged(w) \/ RunJournal(w)
      BY <3>6 DEF BulkFail, FetchUnchanged, RunJournal, taskvars
    <3> QED BY <2>1, <3>1, <3>2, <3>3, <3>4, <3>5, <3>6 DEF Continue
  <2>2. ASSUME NEW w \in Workers, Fault(w) PROVE UNCHANGED actual
    BY <2>2 DEF Fault, taskvars
  <2>3. ASSUME NEW w \in Workers, NEW t \in Tasks,
               Persist(w, t) \/ List(w, t) \/ ReadForCancel(w, t) \/ ReadForFetch(w, t)
        PROVE  UNCHANGED actual
    BY <2>3 DEF Persist, PersistTask, PersistFails, PersistEnhanced, List, ReadTask, ListUsage, ListFailed,
       SweepJournal, ReadForCancel, ReadForFetch, taskvars
  <2>4. CASE UNCHANGED tvars BY <2>4 DEF tvars, taskvars
  <2> QED BY <2>1, <2>2, <2>3, <2>4, OneWorker DEF TStep
<1> QED BY <1>1, <1>2

\* What is decided stays decided, and a failed task stays failed.
LEMMA StatusStays ==
    ASSUME TLedgerInv, [TNext]_tvars, Realtime = {}, NEW t \in Tasks
    PROVE  /\ status[t] \in Terminal => status'[t] \in Terminal
           /\ status[t] = "failure" => status'[t] = "failure"
           /\ status'[t] = "success" => status[t] = "success" \/ status[t] \notin Terminal
<1>1. ASSUME status[t] \in Terminal, status'[t] # status[t] PROVE status'[t] = "failure"
  <2>1. PICK w \in Workers : BulkFail(w) /\ job[w].task = t BY <1>1, StatusMoves
  <2> QED BY <2>1 DEF BulkFail, TLedgerInv, TCore, TTypeOK
<1> QED BY <1>1 DEF Terminal

\* An operation that a submission finds, or puts, in the journal.
LEMMA SubmittedRow ==
    ASSUME TCore, NEW w \in Workers, NEW key \in Keys, NEW fact, GoodFact(key, fact),
           TaskSubmit(w, key, fact)
    PROVE  /\ row[key].state # "none" =>
                 row'[key].expected = row[key].expected /\ row'[key].final = row[key].final
           /\ row[key].state = "none" /\ row'[key].state # "none" =>
                 row'[key].expected = fact.expected /\ row'[key].final = fact.final
<1>1. JCore /\ row \in [Keys -> Rows] BY DEF TCore, JCore, JTypeOK
<1>2. CASE Ensure(w, key, fact)
  <2>1. row'[key] = EnsuredRow(key, fact) BY <1>1, <1>2 DEF Ensure
  <2> QED BY <1>1, <2>1, EnsuredRowFacts
<1>3. CASE EnsureFails(w, key, fact) BY <1>3 DEF EnsureFails
<1> QED BY <1>2, <1>3 DEF TaskSubmit

\* A task's operations enter the journal as they should: a recalculation from
\* the quota charged to the one measured, a refund of a failed task.
RowMoves(w) ==
    \A t \in Tasks :
        LET c == Key("recalculate", t)
            f == Key("taskRefund", t)
        IN  /\ row'[c].state # "none" =>
                  \/ row[c].state # "none" /\ row'[c].expected = row[c].expected /\ row'[c].final = row[c].final
                  \/ /\ row'[c].expected = charge[t] /\ row'[c].final = actual[t]
                     /\ charge[t] # actual[t] /\ t \notin PerCall
            /\ row'[f].state # "none" =>
                  row[f].state # "none" \/ status[t] = "failure"

\* Submitting the recalculation of a task, from its charge to what was measured.
LEMMA RecalculateMoves ==
    ASSUME TDirectInv, NEW w \in Workers, NEW t \in Tasks, t \notin PerCall, charge[t] # actual[t],
           TaskSubmit(w, Key("recalculate", t), RecalculateFact(charge[t], actual[t]))
    PROVE  RowMoves(w)
<1> DEFINE key == Key("recalculate", t)
           fact == RecalculateFact(charge[t], actual[t])
<1>1. TCore /\ JCore BY DEF TDirectInv, TLedgerInv, TCore
<1>2. charge[t] \in Quotas /\ actual[t] \in Quotas BY <1>1, RowTypes DEF TCore
<1>3. key \in Keys /\ GoodFact(key, fact)
  BY <1>1, <1>2, KeyFacts, SubmittedFacts DEF Kinds
<1>4. fact.expected = charge[t] /\ fact.final = actual[t] BY DEF RecalculateFact, Fact
<1> HIDE DEF fact
<1>5. TaskSubmit(w, key, fact) BY DEF fact
<1>6. \A k \in Keys \ {key} : row'[k] = row[k]
  BY <1>1, <1>3, <1>5, EnsureRows
<1>7. /\ row[key].state # "none" =>
            row'[key].expected = row[key].expected /\ row'[key].final = row[key].final
      /\ row[key].state = "none" /\ row'[key].state # "none" =>
            row'[key].expected = charge[t] /\ row'[key].final = actual[t]
  BY <1>1, <1>3, <1>4, <1>5, SubmittedRow
<1>8. \A x \in Tasks : /\ Key("recalculate", x) \in Keys /\ Key("taskRefund", x) \in Keys
                       /\ Key("taskRefund", x) # key
                       /\ x # t => Key("recalculate", x) # key
  BY KeyFacts DEF Kinds, Key
<1> QED BY <1>6, <1>7, <1>8 DEF RowMoves

\* Every step moves rows so.
LEMMA RowSteps ==
    ASSUME TDirectInv, Enhanced = {}, NEW w \in Workers, TStep(w)
    PROVE  RowMoves(w)
<1>1. TLedgerInv /\ TCore /\ JCore BY DEF TDirectInv, TLedgerInv, TCore
<1>2. job[w].task \in Tasks /\ job[w].q \in Quotas BY <1>1, JobTypes DEF TCore
<1>3. \A t \in Tasks : /\ Key("recalculate", t) \in Keys /\ Key("taskRefund", t) \in Keys
                       /\ Key("recalculate", t).kind \notin SessionKinds
                       /\ Key("taskRefund", t).kind \notin SessionKinds
  BY KeyFacts DEF Kinds, SessionKinds
<1>4. ASSUME \A key \in Keys : key.kind \notin SessionKinds => row'[key] = row[key] PROVE RowMoves(w)
  BY <1>3, <1>4 DEF RowMoves
<1>5. ASSUME Continue(w) PROVE RowMoves(w)
  <2>1. CASE SubmitSettle(w) \/ SettleReturns(w) \/ GiveBack(w)
    BY <1>1, <1>4, <2>1, SessionEffect
  <2>2. CASE \/ FailureRecalculated(w) \/ ReconcileReturns(w) \/ PlainReturns(w) \/ SwapLost(w)
             \/ StillPending(w) \/ AckUsage(w) \/ TouchUsage(w) \/ MeasureUsage(w) \/ MeasureFails(w)
    BY <1>1, <1>4, <2>2, UsageEffect
  <2>3. CASE PollSucceeded(w) \/ PollFailed(w) \/ TimeOut(w) \/ Cancel(w)
    BY <1>1, <1>4, <2>3, OutcomeEffect DEF Decides, Swap
  <2>4. CASE PollRunning(w) \/ RealtimeFetch(w)
    BY <1>4, <2>4 DEF PollRunning, RealtimeFetch, Swap
  <2>5. CASE BulkFail(w) \/ FetchUnchanged(w)
    BY <1>4, <2>5 DEF BulkFail, FetchUnchanged, jvars
  <2>6. CASE RunJournal(w) /\ ~ApplyNow(w)
    BY <1>1, <1>3, <2>6, JournalEffect DEF RowMoves
  <2>7. CASE ApplyNow(w)
    <3>1. cur[w] \in Keys /\ row' = [row EXCEPT ![cur[w]].state = "applied"] /\ row[cur[w]].state = "pending"
          /\ row \in [Keys -> Rows]
      BY <1>1, <2>7 DEF ApplyNow, JCore, JTypeOK
    <3>2. \A key \in Keys : row'[key].state # "none" =>
             row[key].state # "none" /\ row'[key].expected = row[key].expected /\ row'[key].final = row[key].final
      BY <3>1 DEF Rows
    <3> QED BY <1>3, <3>2 DEF RowMoves
  <2>8. CASE FinalizeFailure(w)
    <3> DEFINE t == job[w].task
    <3>1. job[w].at = "failed" BY <2>8 DEF FinalizeFailure, At
    <3>2. job[w].q = charge[t] BY <3>1 DEF TDirectInv, UsageCopies
    <3>3. CASE UNCHANGED row BY <1>4, <3>3
    <3>4. CASE t \in TokenPriced /\ job[w].q # actual[t]
               /\ TaskSubmit(w, Key("recalculate", t), RecalculateFact(job[w].q, actual[t]))
      BY <1>2, <3>2, <3>4, TaskConstants, RecalculateMoves
    <3> QED BY <2>8, <3>3, <3>4 DEF FinalizeFailure, ConfirmQuota, ConfirmExpense, jvars
  <2>9. CASE RefundTask(w)
    <3> DEFINE key == Key("taskRefund", job[w].task)
    <3>1. job[w].at = "refund" BY <2>9 DEF RefundTask, At
    <3>2. status[job[w].task] = "failure" BY <3>1 DEF TDirectInv, RefundsFailures
    <3>3. CASE UNCHANGED row BY <1>4, <3>3
    <3>4. CASE TaskSubmit(w, key, TaskRefundFact(job[w].q))
      <4>1. key \in Keys BY <1>2, <1>3
      <4>2. \A k \in Keys \ {key} : row'[k] = row[k] BY <1>1, <3>4, <4>1, EnsureRows
      <4>3. \A t \in Tasks : Key("recalculate", t) # key /\ (t # job[w].task => Key("taskRefund", t) # key)
        BY DEF Key
      <4> QED BY <1>3, <3>2, <4>2, <4>3 DEF RowMoves
    <3> QED BY <2>9, <3>3, <3>4 DEF RefundTask, ConfirmExpense
  <2>10. CASE Reconcile(w)
    <3> DEFINE t == job[w].task
    <3>1. job[w].at = "reconcile" BY <2>10 DEF Reconcile, At
    <3>2. KnownQuota(t, job[w].h) BY <3>1 DEF TDirectInv, UsageCopies, UsageSteps
    <3>3. CASE UNCHANGED row BY <1>4, <3>3
    <3>4. CASE job[w].h # Measured(t, job[w].h)
               /\ TaskSubmit(w, Key("recalculate", t), RecalculateFact(job[w].h, Measured(t, job[w].h)))
      <4>1. t \notin PerCall /\ Measured(t, job[w].h) = actual[t] BY <3>4 DEF Measured
      <4>2. job[w].h = charge[t] BY <3>2, <3>4, <4>1 DEF KnownQuota
      <4> QED BY <1>2, <3>4, <4>1, <4>2, RecalculateMoves
    <3> QED BY <2>10, <3>3, <3>4 DEF Reconcile, ConfirmQuota, ConfirmExpense
  <2> QED BY <1>5, <2>1, <2>2, <2>3, <2>4, <2>5, <2>6, <2>7, <2>8, <2>9, <2>10 DEF Continue
<1>6. ASSUME Fault(w) PROVE RowMoves(w) BY <1>1, <1>4, <1>6, FaultEffect
<1>7. ASSUME NEW t \in Tasks, Persist(w, t) PROVE RowMoves(w) BY <1>1, <1>4, <1>7, PersistEffect
<1>8. ASSUME NEW t \in Tasks, List(w, t) \/ ReadForCancel(w, t) \/ ReadForFetch(w, t) PROVE RowMoves(w)
  BY <1>4, <1>8 DEF List, ReadTask, ListUsage, ListFailed, SweepJournal, SweepPick, ReadForCancel, ReadForFetch, jvars
<1> QED BY <1>5, <1>6, <1>7, <1>8 DEF TStep

--------------------------------------------------------------------------------
(* The parts of TDirectInv, one by one. *)

\* The quota column of a direct task stays a function of what is posted.
LEMMA QuotaPart ==
    ASSUME TDirectInv, [TNext]_tvars, Realtime = {}, Enhanced = {}
    PROVE  QuotaFollowsPostings'
<1>1. TLedgerInv /\ TCore /\ JCore BY DEF TDirectInv, TLedgerInv, TCore
<1>2. UNCHANGED <<charge, actual>> BY <1>1, Fixed
<1>3. CASE ~ \E w \in Workers : ApplyNow(w)
  <2>1. UNCHANGED <<quota, posted>> BY <1>1, <1>3, QuotaAlone DEF Ledger!lvars
  <2> QED BY <1>2, <2>1 DEF TDirectInv, QuotaFollowsPostings, Refunded, Recalculated
<1>4. CASE \E w \in Workers : ApplyNow(w)
  <2>1. PICK w \in Workers : ApplyNow(w) BY <1>4
  <2>0. PICK key \in Keys : key = cur[w] BY <1>1 DEF JCore, JTypeOK
  <2> DEFINE r == row[key]
  <2>2. /\ key.task \in Tasks /\ r \in Rows /\ key \notin posted
        /\ \/ UNCHANGED <<net, quota, posted>>
           \/ /\ posted' = posted \cup {key}
              /\ \/ key.kind \in SessionKinds /\ quota' = quota /\ ~r.entity
                 \/ /\ r.entity /\ quota[key.task] = EntityExpected(key, r)
                    /\ quota' = [quota EXCEPT ![key.task] = r.final]
    BY <1>1, <2>0, <2>1, ApplyNowMoves
  <2>3. CASE UNCHANGED <<quota, posted>>
    BY <1>2, <2>3 DEF TDirectInv, QuotaFollowsPostings, Refunded, Recalculated
  <2>4. CASE posted' = posted \cup {key} /\ key.kind \in SessionKinds /\ quota' = quota
    <3>1. \A t \in Tasks : (Refunded(t)' <=> Refunded(t)) /\ (Recalculated(t)' <=> Recalculated(t))
      BY <2>4 DEF Refunded, Recalculated, Key, SessionKinds
    <3> QED BY <1>2, <2>4, <3>1 DEF TDirectInv, QuotaFollowsPostings
  <2>5. CASE /\ posted' = posted \cup {key} /\ r.entity
             /\ quota[key.task] = EntityExpected(key, r) /\ quota' = [quota EXCEPT ![key.task] = r.final]
    <3> DEFINE t == key.task
    <3>1. r.state = "pending" BY <2>0, <2>1 DEF ApplyNow
    <3>2. key.kind \notin SessionKinds
      BY <1>1, <2>2, <2>5, <3>1 DEF JCore, RowFacts, SessionKinds
    <3>3. quota[t] = r.expected BY <2>5, <3>2 DEF EntityExpected, SessionKinds
    <3>4. quota \in [Tasks -> Quotas] BY <1>1 DEF JCore, JTypeOK
    <3>5. ASSUME NEW x \in Tasks, x # t
          PROVE  /\ quota'[x] = quota[x] /\ (Refunded(x)' <=> Refunded(x))
                 /\ (Recalculated(x)' <=> Recalculated(x))
      BY <2>2, <2>5, <3>4, <3>5, KeyFacts DEF Refunded, Recalculated, Key
    <3>6. key.kind \in {"recalculate", "taskRefund"} /\ key = Key(key.kind, t)
      BY <2>2, <3>2, KeyFacts DEF Kinds, SessionKinds
    <3>7. quota'[t] = r.final /\ quota[t] # r.final
      <4>1. quota[t] # r.final
        BY <2>0, <2>1, <2>2, <2>5 DEF ApplyNow, AtTarget
      <4> QED BY <2>2, <2>5, <3>4, <4>1
    <3>8. CASE key.kind = "recalculate"
      <4>1. ~Recalculated(t) /\ Recalculated(t)' /\ (Refunded(t)' <=> Refunded(t))
        BY <2>2, <2>5, <3>6, <3>8 DEF Recalculated, Refunded, Key
      <4>2. r.expected = charge[t] /\ r.final = actual[t]
        BY <2>2, <3>1, <3>6, <3>8 DEF TDirectInv, RecalculatesCharge
      <4>3. ~Refunded(t)
        BY <2>2, <3>3, <4>1, <4>2 DEF TDirectInv, QuotaFollowsPostings
      <4>4. quota'[t] = actual'[t] BY <1>2, <3>7, <4>2
      <4>5. /\ quota'[t] = IF Refunded(t)' THEN 0 ELSE IF Recalculated(t)' THEN actual'[t] ELSE charge'[t]
            /\ Refunded(t)' /\ ~Recalculated(t)' => charge'[t] # 0
        BY <4>1, <4>3, <4>4
      <4> QED BY <1>2, <3>5, <4>5 DEF TDirectInv, QuotaFollowsPostings
    <3>9. CASE key.kind = "taskRefund"
      <4>1. ~Refunded(t) /\ Refunded(t)' /\ (Recalculated(t)' <=> Recalculated(t))
        BY <2>2, <2>5, <3>6, <3>9 DEF Recalculated, Refunded, Key
      <4>2. r.final = 0 BY <1>1, <2>2, <3>1, <3>9 DEF JCore, RowFacts
      <4>3. ~Recalculated(t) => charge[t] # 0
        BY <2>2, <3>7, <4>1, <4>2 DEF TDirectInv, QuotaFollowsPostings
      <4>4. /\ quota'[t] = IF Refunded(t)' THEN 0 ELSE IF Recalculated(t)' THEN actual'[t] ELSE charge'[t]
            /\ Refunded(t)' /\ ~Recalculated(t)' => charge'[t] # 0
        BY <1>2, <3>7, <4>1, <4>2, <4>3
      <4> QED BY <1>2, <3>5, <4>4 DEF TDirectInv, QuotaFollowsPostings
    <3> QED BY <3>6, <3>8, <3>9
  <2> QED BY <2>2, <2>3, <2>4, <2>5
<1> QED BY <1>3, <1>4

\* What is posted was a pending row.
LEMMA PostedWasPending ==
    ASSUME TCore, [TNext]_tvars, NEW key \in Keys, key \in posted', key \notin posted
    PROVE  row[key].state = "pending"
<1>1. CASE ~ \E w \in Workers : ApplyNow(w) BY <1>1, MoneyAlone
<1>2. CASE \E w \in Workers : ApplyNow(w)
  BY <1>2, ApplyNowMoves DEF TCore, ApplyNow
<1> QED BY <1>1, <1>2

\* Recalculations stay those of the charge.
LEMMA RecalculatePart ==
    ASSUME TDirectInv, Enhanced = {}, NEW w \in Workers, TStep(w), [TNext]_tvars
    PROVE  RecalculatesCharge'
<1>1. TCore BY DEF TDirectInv, TLedgerInv
<1>2. UNCHANGED <<charge, actual>> BY <1>1, Fixed
<1>3. RowMoves(w) BY RowSteps
<1> SUFFICES ASSUME NEW t \in Tasks
             PROVE  LET r == row'[Key("recalculate", t)] IN
                    /\ r.state # "none" => r.expected = charge'[t] /\ r.final = actual'[t]
                    /\ r.state # "none" \/ Recalculated(t)' => charge'[t] # actual'[t] /\ t \notin PerCall
  BY DEF RecalculatesCharge
<1>4. Key("recalculate", t) \in Keys BY KeyFacts DEF Kinds
<1>5. Recalculated(t)' => Recalculated(t) \/ row[Key("recalculate", t)].state # "none"
  BY <1>1, <1>4, PostedWasPending DEF Recalculated
<1> QED BY <1>2, <1>3, <1>5 DEF TDirectInv, RecalculatesCharge, RowMoves

\* Only failed tasks are refunded.
LEMMA RefundPart ==
    ASSUME TDirectInv, Realtime = {}, Enhanced = {}, NEW w \in Workers, TStep(w), [TNext]_tvars
    PROVE  RefundsFailures'
<1>1. TLedgerInv /\ TCore /\ RefundsFailures BY DEF TDirectInv, TLedgerInv
<1>2. RowMoves(w) BY RowSteps
<1>3. \A t \in Tasks : status[t] = "failure" => status'[t] = "failure"
  BY <1>1, StatusStays
<1>4. ASSUME NEW t \in Tasks PROVE row'[Key("taskRefund", t)].state # "none" \/ Refunded(t)' => status'[t] = "failure"
  <2>1. Key("taskRefund", t) \in Keys BY KeyFacts DEF Kinds
  <2>2. Refunded(t)' => Refunded(t) \/ row[Key("taskRefund", t)].state # "none"
    BY <1>1, <2>1, PostedWasPending DEF Refunded
  <2> QED BY <1>1, <1>2, <1>3, <2>2 DEF RefundsFailures, RowMoves
<1>5. \A v \in Workers : job[v].task \in Tasks BY <1>1, JobTypes DEF TCore
<1>6. /\ \A v \in Workers \ {w} : job'[v] = job[v]
      /\ job'[w].at \in {"failed", "failing", "refund"} => status'[job'[w].task] = "failure"
  <2>1. ASSUME Continue(w)
        PROVE  /\ \A v \in Workers \ {w} : job'[v] = job[v]
               /\ job'[w].at \in {"failed", "failing", "refund"} => status'[job'[w].task] = "failure"
    <3>1. CASE SubmitSettle(w) \/ SettleReturns(w) \/ GiveBack(w)
      BY <1>1, <3>1, SessionEffect
    <3>2. CASE \/ FailureRecalculated(w) \/ ReconcileReturns(w) \/ PlainReturns(w) \/ SwapLost(w)
               \/ StillPending(w) \/ AckUsage(w) \/ TouchUsage(w) \/ MeasureUsage(w) \/ MeasureFails(w)
      BY <1>1, <1>3, <1>5, <3>2, UsageEffect DEF RefundsFailures
    <3>3. CASE FinalizeFailure(w) \/ RefundTask(w) \/ Reconcile(w)
      BY <1>1, <1>3, <1>5, <3>3, BillEffect DEF RefundsFailures
    <3>4. CASE PollSucceeded(w) \/ PollFailed(w) \/ TimeOut(w) \/ Cancel(w)
      <4>a. PICK s \in Terminal, u \in Usages, h \in Quotas : Decides(w, s, u, h)
        BY <1>1, <3>4, OutcomeEffect
      <4>1. /\ Swap(w, s, TRUE, u, h) /\ \A v \in Workers \ {w} : job'[v] = job[v]
            /\ \/ job'[w].at = "idle"
               \/ /\ job'[w].task = job[w].task
                  /\ job'[w].at \in {"reconcile", "failed", "refund"}
                  /\ job'[w].at # "reconcile" => s = "failure"
        BY <4>a DEF Decides
      <4>2. status'[job[w].task] = s BY <1>1, <1>5, <4>1 DEF Swap, TCore, TTypeOK
      <4> QED BY <4>1, <4>2
    <3>5. CASE PollRunning(w) \/ RealtimeFetch(w) \/ BulkFail(w) \/ FetchUnchanged(w)
      <4>1. Done(w) BY <3>5 DEF PollRunning, RealtimeFetch, BulkFail, FetchUnchanged
      <4> QED BY <1>1, <4>1, DoneFacts DEF TCore
    <3>6. CASE RunJournal(w)
      BY <1>1, <1>3, <1>5, <3>6 DEF RunJournal, RefundsFailures
    <3> QED BY <2>1, <3>1, <3>2, <3>3, <3>4, <3>5, <3>6 DEF Continue
  <2>2. CASE Fault(w)
    BY <1>1, <1>3, <1>5, <2>2, FaultEffect DEF RefundsFailures
  <2>3. CASE \E t \in Tasks : Persist(w, t)
    BY <1>1, <2>3, PersistEffect
  <2>4. ASSUME NEW t \in Tasks, ReadTask(w, t) \/ ReadForCancel(w, t) \/ ListUsage(w, t) \/ ListFailed(w, t)
        PROVE  /\ \A v \in Workers \ {w} : job'[v] = job[v]
               /\ job'[w].at \in {"failed", "failing", "refund"} => status'[job'[w].task] = "failure"
    BY <1>1, <1>3, <2>4, ReadEffect
  <2>5. CASE \E key : SweepJournal(w, key)
    BY <1>1, <2>5, GotoFacts DEF SweepJournal, TCore, TTypeOK, Steps
  <2>6. ~ \E t \in Tasks : ReadForFetch(w, t) BY DEF ReadForFetch
  <2> QED BY <2>1, <2>2, <2>3, <2>4, <2>5, <2>6 DEF TStep, List
<1> QED BY <1>1, <1>3, <1>4, <1>5, <1>6 DEF RefundsFailures

\* Who writes the usage state of a task outside the compare-and-swaps: a
\* reconciler of a successful task, with what it holds.
LEMMA UsageWrites ==
    ASSUME TCore, NEW w \in Workers, NEW t \in Tasks,
           \/ FailureRecalculated(w) \/ ReconcileReturns(w) \/ PlainReturns(w) \/ SwapLost(w)
           \/ StillPending(w) \/ AckUsage(w) \/ TouchUsage(w) \/ MeasureUsage(w) \/ MeasureFails(w)
    PROVE  \/ usage'[t] = usage[t] /\ held'[t] = held[t]
           \/ /\ t = job[w].task /\ status[t] = "success" /\ usage[t] \in Measuring
              /\ job[w].at \in UsageSteps
              /\ \/ usage'[t] = job[w].u /\ held'[t] = job[w].h
                 \/ usage'[t] = "settled" /\ job[w].at = "ack"
                 \/ usage'[t] = "known" /\ held'[t] = job[w].q /\ job[w].at = "measure"
<1> USE DEF TCore, TTypeOK
<1>1. ASSUME NEW u, NEW h, PersistUsage(job[w].task, u, h)
      PROVE  \/ usage'[t] = usage[t] /\ held'[t] = held[t]
             \/ /\ t = job[w].task /\ status[t] = "success" /\ usage[t] \in Measuring
                /\ usage'[t] = u /\ held'[t] = h
  BY <1>1 DEF PersistUsage
<1>2. CASE FailureRecalculated(w) \/ PlainReturns(w) \/ SwapLost(w) \/ MeasureFails(w)
  BY <1>2 DEF FailureRecalculated, PlainReturns, SwapLost, MeasureFails, taskvars
<1>3. CASE ReconcileReturns(w)
  BY <1>1, <1>3 DEF ReconcileReturns, KeepPending, Returned, UsageSteps
<1>4. CASE StillPending(w)
  BY <1>1, <1>4 DEF StillPending, KeepPending, At, UsageSteps
<1>5. CASE AckUsage(w)
  BY <1>1, <1>5 DEF AckUsage, At, UsageSteps
<1>6. CASE TouchUsage(w)
  BY <1>1, <1>6 DEF TouchUsage, At, UsageSteps
<1>7. CASE MeasureUsage(w)
  BY <1>1, <1>7 DEF MeasureUsage, At, UsageSteps
<1> QED BY <1>2, <1>3, <1>4, <1>5, <1>6, <1>7

\* What must hold of the usage copies of a worker after its step.
UsageJob(w) ==
    /\ job'[w].at \in {"poll", "cancel"} => job'[w].u = "none"
    /\ job'[w].at = "failed" => job'[w].q = charge[job'[w].task]
    /\ job'[w].at \in UsageSteps =>
          job'[w].u \in Measuring /\ KnownQuota(job'[w].task, job'[w].h)
    /\ job'[w].at \in {"touch", "measure"} => KnownQuota(job'[w].task, job'[w].q)

\* A step that keeps the usage columns of every task well formed, and the copy
\* of its worker.
LEMMA UsageFrom ==
    ASSUME TDirectInv, [TNext]_tvars, NEW w \in Workers,
           \A v \in Workers \ {w} : job'[v] = job[v], UsageJob(w),
           \A t \in Tasks :
              /\ status'[t] \notin Terminal => usage'[t] = "none"
              /\ usage'[t] \in Measuring => KnownQuota(t, held'[t])
    PROVE  UsageCopies'
<1>1. TCore BY DEF TDirectInv, TLedgerInv
<1>2. UNCHANGED <<charge, actual>> /\ posted \subseteq posted' BY <1>1, Fixed
<1>3. ASSUME NEW t, NEW q, KnownQuota(t, q)
      PROVE  q = charge'[t] \/ (Key("recalculate", t) \in posted' /\ q = actual'[t])
  BY <1>2, <1>3 DEF KnownQuota, Recalculated
<1>4. ASSUME NEW t \in Tasks
      PROVE  /\ status'[t] \notin Terminal => usage'[t] = "none"
             /\ usage'[t] \in Measuring => KnownQuota(t, held[t])'
  BY <1>3 DEF KnownQuota, Recalculated
<1>5. ASSUME NEW v \in Workers
      PROVE  /\ job'[v].at \in {"poll", "cancel"} => job'[v].u = "none"
             /\ job'[v].at = "failed" => job'[v].q = charge'[job'[v].task]
             /\ job'[v].at \in UsageSteps => job'[v].u \in Measuring /\ KnownQuota(job[v].task, job[v].h)'
             /\ job'[v].at \in {"touch", "measure"} => KnownQuota(job[v].task, job[v].q)'
  <2>1. /\ job'[v].at \in {"poll", "cancel"} => job'[v].u = "none"
        /\ job'[v].at = "failed" => job'[v].q = charge[job'[v].task]
        /\ job'[v].at \in UsageSteps => job'[v].u \in Measuring /\ KnownQuota(job'[v].task, job'[v].h)
        /\ job'[v].at \in {"touch", "measure"} => KnownQuota(job'[v].task, job'[v].q)
    BY DEF TDirectInv, UsageCopies, UsageJob
  <2>2. KnownQuota(job'[v].task, job'[v].h) => KnownQuota(job[v].task, job[v].h)'
    BY <1>3 DEF KnownQuota, Recalculated
  <2>3. KnownQuota(job'[v].task, job'[v].q) => KnownQuota(job[v].task, job[v].q)'
    BY <1>3 DEF KnownQuota, Recalculated
  <2> QED BY <1>2, <2>1, <2>2, <2>3
<1> QED BY <1>4, <1>5 DEF UsageCopies

\* The usage copies stay those of a known quota.
LEMMA UsagePart ==
    ASSUME TDirectInv, Realtime = {}, Enhanced = {}, NEW w \in Workers, TStep(w), [TNext]_tvars
    PROVE  UsageCopies'
<1>1. TLedgerInv /\ TCore /\ UsageCopies BY DEF TDirectInv, TLedgerInv
<1>2. BilledWhenDecided /\ ChargedUntilDecided /\ RefundsFailures /\ QuotaFollowsPostings
  BY DEF TDirectInv, TLedgerInv
<1>3. \A t \in Tasks : status[t] \in Terminal => status'[t] \in Terminal
  BY <1>1, StatusStays
<1>4. \A v \in Workers : job[v].task \in Tasks BY <1>1, JobTypes DEF TCore
<1>5. ASSUME UNCHANGED <<usage, held>>
      PROVE  \A t \in Tasks : /\ status'[t] \notin Terminal => usage'[t] = "none"
                              /\ usage'[t] \in Measuring => KnownQuota(t, held'[t])
  BY <1>1, <1>3, <1>5 DEF UsageCopies
<1>6. ASSUME Continue(w) PROVE UsageCopies'
  <2>1. CASE SubmitSettle(w) \/ SettleReturns(w) \/ GiveBack(w)
    <3>1. UsageJob(w) BY <1>1, <2>1, SessionEffect DEF UsageJob, UsageSteps
    <3> QED BY <1>1, <1>5, <2>1, <3>1, SessionEffect, UsageFrom DEF taskvars
  <2>2. CASE \/ FailureRecalculated(w) \/ ReconcileReturns(w) \/ PlainReturns(w) \/ SwapLost(w)
             \/ StillPending(w) \/ AckUsage(w) \/ TouchUsage(w) \/ MeasureUsage(w) \/ MeasureFails(w)
    <3>1. UsageJob(w)
      BY <1>1, <2>2, UsageEffect DEF UsageJob, UsageSteps, UsageCopies, Measuring
    <3>2. ASSUME NEW t \in Tasks
          PROVE  /\ status'[t] \notin Terminal => usage'[t] = "none"
                 /\ usage'[t] \in Measuring => KnownQuota(t, held'[t])
      <4>1. status' = status BY <1>1, <2>2, UsageEffect DEF BooksKept
      <4>2. CASE usage'[t] = usage[t] /\ held'[t] = held[t]
        BY <1>1, <4>1, <4>2 DEF UsageCopies
      <4>3. CASE /\ t = job[w].task /\ status[t] = "success" /\ job[w].at \in UsageSteps
                 /\ \/ usage'[t] = job[w].u /\ held'[t] = job[w].h
                    \/ usage'[t] = "settled"
                    \/ held'[t] = job[w].q /\ job[w].at = "measure"
        <5>1. status'[t] \in Terminal BY <4>1, <4>3 DEF Terminal
        <5>2. KnownQuota(t, job[w].h) /\ (job[w].at = "measure" => KnownQuota(t, job[w].q))
          BY <1>1, <4>3 DEF UsageCopies
        <5> QED BY <4>3, <5>1, <5>2 DEF Measuring
      <4> QED BY <1>1, <2>2, <4>2, <4>3, UsageWrites
    <3> QED BY <1>1, <2>2, <3>1, <3>2, UsageEffect, UsageFrom
  <2>3. CASE FinalizeFailure(w) \/ RefundTask(w) \/ Reconcile(w)
    <3>1. UsageJob(w)
      BY <1>1, <2>3, BillEffect DEF UsageJob, UsageSteps, UsageCopies
    <3> QED BY <1>1, <1>5, <2>3, <3>1, BillEffect, UsageFrom DEF taskvars
  <2>4. CASE PollSucceeded(w) \/ PollFailed(w) \/ TimeOut(w) \/ Cancel(w)
    <3>a. PICK s \in Terminal, u \in Usages, h \in Quotas : Decides(w, s, u, h)
      BY <1>1, <2>4, OutcomeEffect
    <3>1. /\ job[w].at \in {"poll", "cancel"} /\ pc[w] = "idle" /\ Swap(w, s, TRUE, u, h)
          /\ \/ u = job[w].u /\ h = job[w].h
             \/ s = "success" /\ u \in Measuring /\ h = Written(job[w].task, job[w].q)
          /\ \A v \in Workers \ {w} : job'[v] = job[v]
          /\ \/ job'[w].at = "idle"
             \/ /\ job'[w].at \in {"reconcile", "failed", "refund"}
                /\ job'[w].task = job[w].task /\ job'[w].st = s
                /\ job'[w].q = Written(job[w].task, job[w].q)
                /\ job'[w].u = u /\ job'[w].h = h
                /\ job'[w].at = "reconcile" => u \in Measuring
                /\ job'[w].at # "reconcile" => s = "failure"
      BY <3>a DEF Decides
    <3>2. Written(job[w].task, job[w].q) = charge[job[w].task]
      BY <1>2, <1>4, <3>1 DEF Written, ChargedUntilDecided
    <3>3. job[w].u = "none" BY <1>1, <3>1 DEF UsageCopies
    <3>4. u \in Measuring => h = charge[job[w].task] BY <3>1, <3>2, <3>3 DEF Measuring
    <3>5. UsageJob(w)
      BY <3>1, <3>2, <3>4 DEF UsageJob, UsageSteps, KnownQuota
    <3>6. ASSUME NEW t \in Tasks
          PROVE  /\ status'[t] \notin Terminal => usage'[t] = "none"
                 /\ usage'[t] \in Measuring => KnownQuota(t, held'[t])
      <4>1. CASE t = job[w].task
        BY <1>1, <3>1, <3>4, <4>1 DEF Swap, TCore, TTypeOK, KnownQuota
      <4>2. CASE t # job[w].task
        BY <1>1, <3>1, <4>2 DEF Swap, TCore, TTypeOK, UsageCopies
      <4> QED BY <4>1, <4>2
    <3> QED BY <3>1, <3>5, <3>6, UsageFrom
  <2>5. CASE PollRunning(w)
    <3>1. PICK s, f : Swap(w, s, f, job[w].u, job[w].h) BY <2>5 DEF PollRunning
    <3>2. job[w].at = "poll" /\ Done(w) BY <2>5 DEF PollRunning, At
    <3>3. job[w].u = "none" BY <1>1, <3>2 DEF UsageCopies
    <3>4. ASSUME NEW t \in Tasks
          PROVE  /\ status'[t] \notin Terminal => usage'[t] = "none"
                 /\ usage'[t] \in Measuring => KnownQuota(t, held'[t])
      <4>1. CASE t = job[w].task
        BY <1>1, <3>1, <3>3, <4>1 DEF Swap, TCore, TTypeOK, Measuring
      <4>2. CASE t # job[w].task
        BY <1>1, <3>1, <4>2 DEF Swap, TCore, TTypeOK, UsageCopies
      <4> QED BY <4>1, <4>2
    <3>5. job'[w].at = "idle" /\ \A v \in Workers \ {w} : job'[v] = job[v]
      BY <1>1, <3>2, DoneFacts DEF TCore
    <3> QED BY <3>4, <3>5, UsageFrom DEF UsageJob, UsageSteps
  <2>6. CASE BulkFail(w)
    <3>1. Done(w) /\ UNCHANGED <<usage, held>> BY <2>6 DEF BulkFail
    <3>2. job'[w].at = "idle" /\ \A v \in Workers \ {w} : job'[v] = job[v]
      BY <1>1, <3>1, DoneFacts DEF TCore
    <3> QED BY <1>5, <3>1, <3>2, UsageFrom DEF UsageJob, UsageSteps
  <2>7. CASE RealtimeFetch(w) \/ FetchUnchanged(w)
    BY <1>2, <2>7 DEF RealtimeFetch, FetchUnchanged, At, BilledWhenDecided
  <2>8. CASE RunJournal(w)
    <3>1. UNCHANGED <<usage, held, job>> BY <2>8 DEF RunJournal, taskvars
    <3>2. UsageJob(w) BY <1>1, <3>1 DEF UsageJob, UsageCopies
    <3> QED BY <1>5, <3>1, <3>2, UsageFrom
  <2> QED BY <1>6, <2>1, <2>2, <2>3, <2>4, <2>5, <2>6, <2>7, <2>8 DEF Continue
<1>7. ASSUME Fault(w) PROVE UsageCopies'
  <2>1. UsageJob(w)
    <3>1. CASE job'[w] = job[w] BY <1>1, <3>1 DEF UsageJob, UsageCopies
    <3>2. CASE job'[w] # job[w]
      BY <1>1, <1>7, <3>2, FaultEffect DEF UsageJob, UsageSteps, UsageCopies
    <3> QED BY <3>1, <3>2
  <2> QED BY <1>1, <1>5, <1>7, <2>1, FaultEffect, UsageFrom DEF taskvars
<1>8. ASSUME NEW t \in Tasks, Persist(w, t) PROVE UsageCopies'
  <2>1. UsageJob(w) BY <1>1, <1>8, PersistEffect DEF UsageJob, UsageSteps
  <2> QED BY <1>1, <1>5, <1>8, <2>1, PersistEffect, UsageFrom
<1>9. ASSUME NEW t \in Tasks, ReadTask(w, t) \/ ReadForCancel(w, t) \/ ListUsage(w, t) \/ ListFailed(w, t)
      PROVE  UsageCopies'
  <2>1. UNCHANGED <<usage, held>> BY <1>1, <1>9, ReadEffect DEF taskvars
  <2>2. status[t] = "success" => KnownQuota(t, quota[t])
    BY <1>2 DEF RefundsFailures, QuotaFollowsPostings, KnownQuota
  <2>3. UsageJob(w)
    BY <1>1, <1>9, <2>2, ReadEffect DEF UsageJob, UsageSteps, UsageCopies, Running, Terminal
  <2> QED BY <1>1, <1>5, <1>9, <2>1, <2>3, ReadEffect, UsageFrom
<1>10. ASSUME NEW key, SweepJournal(w, key) PROVE UsageCopies'
  <2>1. UNCHANGED <<usage, held>> /\ Goto(w, "plain") BY <1>10 DEF SweepJournal, taskvars
  <2>2. job'[w].at = "plain" /\ \A v \in Workers \ {w} : job'[v] = job[v]
    BY <1>1, <2>1, GotoFacts DEF TCore, TTypeOK, Steps
  <2> QED BY <1>5, <2>1, <2>2, UsageFrom DEF UsageJob, UsageSteps
<1>11. ~ \E t \in Tasks : ReadForFetch(w, t) BY DEF ReadForFetch
<1> QED BY <1>6, <1>7, <1>8, <1>9, <1>10, <1>11 DEF TStep, List

\* A session gives its reservation back only if no task was created.
LEMMA UnbornPart ==
    ASSUME TDirectInv, Realtime = {}, Enhanced = {}, NEW w \in Workers, TStep(w), [TNext]_tvars
    PROVE  GivesBackUnborn'
<1>1. TLedgerInv /\ TCore /\ GivesBackUnborn /\ BilledWhenDecided /\ SessionOwner
  BY DEF TDirectInv, TLedgerInv, TCore
<1>2. UNCHANGED <<charge, reserved>> BY <1>1, Fixed
<1>3. \A v \in Workers : job[v].task \in Tasks BY <1>1, JobTypes DEF TCore
<1>4. status \in [Tasks -> Statuses] BY <1>1 DEF TCore, TTypeOK
<1> DEFINE Unborn(t) == Key("settle", t) \notin opened' /\ status'[t] = "none"
           Rest(v) == /\ job'[v].at = "giveBack" => Unborn(job'[v].task)
                      /\ job'[v].at \in {"settle", "settling"} => status'[job'[v].task] # "none"
<1>5. ASSUME \A v \in Workers \ {w} : job'[v] = job[v],
             \A t \in Tasks : status[t] # "none" => status'[t] # "none",
             \A t \in Tasks : Key("refund", t) \in opened' => Unborn(t),
             \A v \in Workers \ {w} : job[v].at = "giveBack" => Unborn(job[v].task),
             Rest(w)
      PROVE  GivesBackUnborn'
  <2>1. ASSUME NEW v \in Workers PROVE Rest(v)
    BY <1>1, <1>3, <1>5 DEF GivesBackUnborn
  <2>2. \A t \in Tasks : charge'[t] <= reserved'[t] BY <1>1, <1>2 DEF GivesBackUnborn
  <2> QED BY <1>5, <2>1, <2>2 DEF GivesBackUnborn
<1>6. ASSUME UNCHANGED <<opened, status>>
      PROVE  /\ \A t \in Tasks : status[t] # "none" => status'[t] # "none"
             /\ \A t \in Tasks : Key("refund", t) \in opened' => Unborn(t)
             /\ \A v \in Workers : job[v].at = "giveBack" => Unborn(job[v].task)
  BY <1>1, <1>6 DEF GivesBackUnborn
<1>7. ASSUME UNCHANGED opened, NEW t \in Tasks, status[t] # "none", NEW s, s # "none",
             status' = [status EXCEPT ![t] = s]
      PROVE  /\ \A x \in Tasks : status[x] # "none" => status'[x] # "none"
             /\ \A x \in Tasks : Key("refund", x) \in opened' => Unborn(x)
             /\ \A v \in Workers : job[v].at = "giveBack" => Unborn(job[v].task)
  BY <1>1, <1>3, <1>4, <1>7 DEF GivesBackUnborn
<1>8. ASSUME Continue(w) PROVE GivesBackUnborn'
  <2>1. CASE SubmitSettle(w)
    <3>1. /\ job[w].at = "settle" /\ UNCHANGED status /\ Goto(w, "settling")
          /\ opened' = opened \cup {Key("settle", job[w].task)}
      BY <2>1 DEF SubmitSettle, SessionRuns, At, taskvars
    <3>2. /\ job'[w].at = "settling" /\ job'[w].task = job[w].task
          /\ \A v \in Workers \ {w} : job'[v] = job[v]
      BY <1>1, <3>1, GotoFacts DEF TCore, TTypeOK, Steps
    <3>3. status[job[w].task] # "none" BY <1>1, <3>1 DEF GivesBackUnborn
    <3>4. \A t \in Tasks : Key("refund", t) \in opened' => Unborn(t)
      BY <1>1, <3>1, <3>3 DEF GivesBackUnborn, Key
    <3>5. \A v \in Workers \ {w} : job[v].at = "giveBack" => Unborn(job[v].task)
      BY <1>1, <3>1, <3>3 DEF GivesBackUnborn, Key
    <3> QED BY <1>5, <3>1, <3>2, <3>3, <3>4, <3>5
  <2>2. CASE SettleReturns(w)
    <3>1. UNCHANGED <<opened, status>> /\ Done(w)
      BY <2>2 DEF SettleReturns, Returned, Return, taskvars
    <3>2. job'[w].at = "idle" /\ \A v \in Workers \ {w} : job'[v] = job[v]
      BY <1>1, <3>1, DoneFacts DEF TCore
    <3> QED BY <1>5, <1>6, <3>1, <3>2
  <2>3. CASE GiveBack(w)
    <3>1. /\ job[w].at = "giveBack" /\ UNCHANGED status /\ (Goto(w, "plain") \/ Done(w))
          /\ opened' \subseteq opened \cup {Key("refund", job[w].task)} /\ opened \subseteq opened'
      BY <2>3 DEF GiveBack, SessionRuns, At, taskvars, jvars
    <3>2. job'[w].at \in {"plain", "idle"} /\ \A v \in Workers \ {w} : job'[v] = job[v]
      BY <1>1, <3>1, GotoFacts, DoneFacts DEF TCore, TTypeOK, Steps
    <3>3. Unborn(job[w].task) BY <1>1, <3>1 DEF GivesBackUnborn, Key
    <3>4. \A t \in Tasks : Key("refund", t) \in opened' => Unborn(t)
      BY <1>1, <3>1, <3>3 DEF GivesBackUnborn, Key
    <3>5. \A v \in Workers \ {w} : job[v].at = "giveBack" => Unborn(job[v].task)
      BY <1>1, <3>1 DEF GivesBackUnborn, Key
    <3> QED BY <1>5, <3>1, <3>2, <3>4, <3>5
  <2>4. CASE \/ FailureRecalculated(w) \/ ReconcileReturns(w) \/ PlainReturns(w) \/ SwapLost(w)
             \/ StillPending(w) \/ AckUsage(w) \/ TouchUsage(w) \/ MeasureUsage(w) \/ MeasureFails(w)
    BY <1>1, <1>5, <1>6, <2>4, UsageEffect DEF BooksKept
  <2>5. CASE FinalizeFailure(w) \/ RefundTask(w) \/ Reconcile(w)
    BY <1>1, <1>5, <1>6, <2>5, BillEffect DEF BooksKept
  <2>6. CASE PollSucceeded(w) \/ PollFailed(w) \/ TimeOut(w) \/ Cancel(w)
    <3>a. PICK s \in Terminal, u \in Usages, h \in Quotas : Decides(w, s, u, h)
      BY <1>1, <2>6, OutcomeEffect
    <3>1. /\ job[w].at \in {"poll", "cancel"} /\ Swap(w, s, TRUE, u, h)
          /\ \A v \in Workers \ {w} : job'[v] = job[v]
          /\ job'[w].at \in {"idle", "reconcile", "failed", "refund"}
      BY <3>a DEF Decides
    <3>2. UNCHANGED opened /\ status' = [status EXCEPT ![job[w].task] = s] /\ s # "none"
      BY <3>1 DEF Swap, Terminal
    <3>3. status[job[w].task] # "none" BY <1>1, <3>1 DEF BilledWhenDecided
    <3> QED BY <1>3, <1>5, <1>7, <3>1, <3>2, <3>3
  <2>7. CASE PollRunning(w) \/ BulkFail(w)
    <3>1. /\ job[w].at = "poll" /\ Done(w) /\ UNCHANGED opened
          /\ \E s \in {"failure"} \cup Running : status' = [status EXCEPT ![job[w].task] = s]
      BY <2>7 DEF PollRunning, BulkFail, Swap, At, jvars
    <3>2. status[job[w].task] # "none" BY <1>1, <3>1 DEF BilledWhenDecided
    <3>3. job'[w].at = "idle" /\ \A v \in Workers \ {w} : job'[v] = job[v]
      BY <1>1, <3>1, DoneFacts DEF TCore
    <3>4. PICK s \in {"failure"} \cup Running : status' = [status EXCEPT ![job[w].task] = s] BY <3>1
    <3>5. s # "none" BY DEF Running
    <3> QED BY <1>3, <1>5, <1>7, <3>1, <3>2, <3>3, <3>4, <3>5
  <2>8. CASE RealtimeFetch(w) \/ FetchUnchanged(w)
    BY <1>1, <2>8 DEF RealtimeFetch, FetchUnchanged, At, BilledWhenDecided
  <2>9. CASE RunJournal(w)
    <3>1. UNCHANGED <<opened, status, job>>
      BY <2>9 DEF RunJournal, JournalStep, ApplyNow, ApplyAgain, ApplyRefused, WriteLog, MarkLogDone, DeleteRow, taskvars
    <3> QED BY <1>1, <1>2, <3>1 DEF GivesBackUnborn
  <2> QED BY <1>8, <2>1, <2>2, <2>3, <2>4, <2>5, <2>6, <2>7, <2>8, <2>9 DEF Continue
<1>9. ASSUME Fault(w) PROVE GivesBackUnborn'
  <2>1. UNCHANGED status BY <1>1, <1>9, FaultEffect DEF BooksKept
  <2>2. CASE job'[w] = job[w] /\ StepFails(w)
    BY <1>1, <1>5, <1>6, <1>9, <2>1, <2>2, FaultEffect DEF StepFails, GivesBackUnborn
  <2>3. CASE UNCHANGED opened /\ job'[w].at \in {"idle", "failing", "reconciling", "plain"}
    BY <1>1, <1>5, <1>6, <1>9, <2>1, <2>3, FaultEffect
  <2>4. CASE /\ job[w].at = "settle" /\ job'[w].at = "settling" /\ job'[w].task = job[w].task
             /\ opened' = opened \cup {Key("settle", job[w].task)}
    <3>1. status[job[w].task] # "none" BY <1>1, <2>4 DEF GivesBackUnborn
    <3>2. \A t \in Tasks : Key("refund", t) \in opened' => Unborn(t)
      BY <1>1, <2>1, <2>4, <3>1 DEF GivesBackUnborn, Key
    <3>3. \A v \in Workers \ {w} : job[v].at = "giveBack" => Unborn(job[v].task)
      BY <1>1, <2>1, <2>4, <3>1 DEF GivesBackUnborn, Key
    <3> QED BY <1>1, <1>5, <1>9, <2>1, <2>4, <3>1, <3>2, <3>3, FaultEffect
  <2>5. CASE /\ job[w].at = "giveBack" /\ job'[w].at = "plain"
             /\ opened' = opened \cup {Key("refund", job[w].task)}
    <3>1. Unborn(job[w].task) BY <1>1, <2>1, <2>5 DEF GivesBackUnborn, Key
    <3>2. \A t \in Tasks : Key("refund", t) \in opened' => Unborn(t)
      BY <1>1, <2>1, <2>5, <3>1 DEF GivesBackUnborn, Key
    <3>3. \A v \in Workers \ {w} : job[v].at = "giveBack" => Unborn(job[v].task)
      BY <1>1, <2>1, <2>5 DEF GivesBackUnborn, Key
    <3> QED BY <1>1, <1>5, <1>9, <2>1, <2>5, <3>2, <3>3, FaultEffect
  <2> QED BY <1>1, <1>9, <2>2, <2>3, <2>4, <2>5, FaultEffect
<1>10. ASSUME NEW t \in Tasks, Persist(w, t) PROVE GivesBackUnborn'
  <2>1. UNCHANGED opened BY <1>10 DEF Persist, PersistTask, PersistFails, PersistEnhanced, jvars
  <2>2. t \notin begun /\ status[t] = "none"
    BY <1>1, <1>10, PersistEffect DEF BilledWhenDecided
  <2>3. Key("refund", t) \notin opened /\ Key("settle", t) \notin opened
    BY <1>1, <2>2 DEF SessionOwner, SessionKinds
  <2>4. \A v \in Workers \ {w} : job[v].at = "giveBack" => job[v].task # t
    BY <1>1, <2>2 DEF SessionOwner, SessionSteps
  <2>5. \A x \in Tasks : x # t => status'[x] = status[x]
    BY <1>1, <1>4, <1>10, PersistEffect
  <2>6. Rest(w)
    <3>1. CASE job'[w].at = "giveBack" /\ UNCHANGED status
      BY <1>1, <1>10, <2>1, <2>2, <2>3, <3>1, PersistEffect
    <3>2. CASE job'[w].at = "settle" /\ \E s \in {"submitted"} \cup Terminal : status' = [status EXCEPT ![t] = s]
      <4>1. job'[w].task = t BY <1>1, <1>10, PersistEffect
      <4>2. status'[t] # "none" BY <1>4, <3>2 DEF Terminal
      <4> QED BY <3>2, <4>1, <4>2
    <3> QED BY <1>1, <1>10, <3>1, <3>2, PersistEffect
  <2>7. \A x \in Tasks : Key("refund", x) \in opened' => Unborn(x)
    BY <1>1, <2>1, <2>3, <2>5 DEF GivesBackUnborn
  <2>8. \A v \in Workers \ {w} : job[v].at = "giveBack" => Unborn(job[v].task)
    BY <1>1, <1>3, <2>1, <2>4, <2>5 DEF GivesBackUnborn
  <2> QED BY <1>1, <1>5, <1>10, <2>2, <2>5, <2>6, <2>7, <2>8, PersistEffect
<1>11. ASSUME NEW t \in Tasks, ReadTask(w, t) \/ ReadForCancel(w, t) \/ ListUsage(w, t) \/ ListFailed(w, t)
      PROVE  GivesBackUnborn'
  BY <1>1, <1>5, <1>6, <1>11, ReadEffect DEF jvars, taskvars
<1>12. ASSUME NEW key, SweepJournal(w, key) PROVE GivesBackUnborn'
  <2>1. UNCHANGED <<opened, status>> /\ Goto(w, "plain")
    BY <1>12 DEF SweepJournal, SweepPick, taskvars
  <2>2. job'[w].at = "plain" /\ \A v \in Workers \ {w} : job'[v] = job[v]
    BY <1>1, <2>1, GotoFacts DEF TCore, TTypeOK, Steps
  <2> QED BY <1>5, <1>6, <2>1, <2>2
<1>13. ~ \E t \in Tasks : ReadForFetch(w, t) BY DEF ReadForFetch
<1> QED BY <1>8, <1>9, <1>10, <1>11, <1>12, <1>13 DEF TStep, List

\* TDirectInv is inductive.
LEMMA NextTDirect ==
    ASSUME Realtime = {}, Enhanced = {} PROVE TDirectInv /\ [TNext]_tvars => TDirectInv'
<1> SUFFICES ASSUME TDirectInv, [TNext]_tvars PROVE TDirectInv' OBVIOUS
<1>1. TLedgerInv' BY NextTLedger DEF TDirectInv
<1>2. QuotaFollowsPostings' BY QuotaPart
<1>3. ASSUME NEW w \in Workers, TStep(w) PROVE TDirectInv'
  BY <1>1, <1>2, <1>3, RefundPart, RecalculatePart, UsagePart, UnbornPart DEF TDirectInv
<1>4. CASE UNCHANGED tvars
  <2>1. RefundsFailures' /\ RecalculatesCharge'
    BY <1>4 DEF TDirectInv, RefundsFailures, RecalculatesCharge, Refunded, Recalculated, tvars, jvars, taskvars
  <2>2. UsageCopies'
    BY <1>4 DEF TDirectInv, UsageCopies, KnownQuota, Recalculated, tvars, jvars, taskvars
  <2>3. GivesBackUnborn'
    BY <1>4 DEF TDirectInv, GivesBackUnborn, tvars, jvars, taskvars
  <2> QED BY <1>1, <1>2, <2>1, <2>2, <2>3 DEF TDirectInv
<1> QED BY <1>3, <1>4, OneWorker

\* The initial states satisfy it.
LEMMA InitTDirect ==
    ASSUME Enhanced = {} PROVE TInit => TDirectInv
<1> SUFFICES ASSUME TInit PROVE TDirectInv OBVIOUS
<1>1. TLedgerInv BY InitTLedger
<1>2. \A w \in Workers : job[w].at = "idle" BY IdleFacts DEF TInit
<1>3. posted = {} /\ opened = {} BY DEF TInit, JInit
<1>4. \A t \in Tasks : Key("recalculate", t) \in Keys /\ Key("taskRefund", t) \in Keys BY KeyFacts DEF Kinds
<1>5. \A key \in Keys : row[key].state = "none" BY NoRowIsRow DEF TInit, JInit
<1>6. \A t \in Tasks : /\ quota[t] = charge[t] /\ status[t] = "none" /\ usage[t] = "none"
                       /\ charge[t] <= reserved[t]
  BY DEF TInit, JInit, InitialQuota
<1>7. RefundsFailures /\ RecalculatesCharge /\ QuotaFollowsPostings
  BY <1>2, <1>3, <1>4, <1>5, <1>6 DEF RefundsFailures, RecalculatesCharge, QuotaFollowsPostings, Refunded, Recalculated
<1>8. UsageCopies /\ GivesBackUnborn
  BY <1>2, <1>3, <1>6 DEF UsageCopies, UsageSteps, Measuring, GivesBackUnborn
<1> QED BY <1>1, <1>7, <1>8 DEF TDirectInv
--------------------------------------------------------------------------------
(* Refunds *)

\* TDirectInv holds in every reachable state.
THEOREM TDirectCorrect ==
    ASSUME Realtime = {}, Enhanced = {} PROVE TSafe => []TDirectInv
BY InitTDirect, NextTDirect, PTL DEF TSafe

\* A refund of a direct task is final: only a failed task is refunded, and from
\* then on its quota is 0, whoever writes an older copy of the row back.
THEOREM RefundIsFinalCorrect ==
    ASSUME Realtime = {}, Enhanced = {} PROVE TSafe => []RefundIsFinal
<1>1. TDirectInv => RefundIsFinal
  BY DEF TDirectInv, RefundsFailures, QuotaFollowsPostings, Refunded, RefundIsFinal
<1> QED BY <1>1, TDirectCorrect, PTL

\* What the balances hold for a direct task is never negative: no interleaving of
\* session refunds, settlements, recalculations and task refunds gives back more
\* than was taken.
LEMMA DirectNet ==
    ASSUME TDirectInv, Enhanced = {} PROVE NeverOverRefunded
<1> SUFFICES ASSUME NEW t \in Tasks PROVE net[t] >= 0 BY DEF NeverOverRefunded
<1>1. TCore /\ JCore BY DEF TDirectInv, TLedgerInv, TCore
<1>2. charge[t] \in Int /\ quota[t] \in Int /\ reserved[t] \in Int /\ quota[t] >= 0
  BY <1>1, RowTypes DEF TCore, Quotas
<1>3. charge[t] <= reserved[t] BY DEF TDirectInv, GivesBackUnborn
<1>4. net[t] = quota[t] + Outstanding(t) BY DEF TDirectInv, TLedgerInv, Reconciled
<1>5. CASE Key("refund", t) \notin posted
  BY <1>2, <1>3, <1>4, <1>5 DEF Outstanding, InitialQuota
<1>6. CASE Key("refund", t) \in posted
  <2>1. /\ Key("refund", t) \in Keys /\ Key("refund", t).kind \in SessionKinds
        /\ Key("settle", t) \in Keys /\ Key("settle", t).kind \in SessionKinds
    BY KeyFacts DEF Kinds, SessionKinds
  <2>2. Key("refund", t) \in opened BY <1>1, <1>6, <2>1 DEF JCore, SessionOnce
  <2>3. Key("settle", t) \notin opened /\ status[t] = "none"
    BY <2>2 DEF TDirectInv, GivesBackUnborn
  <2>4. Key("settle", t) \notin posted BY <1>1, <2>1, <2>3 DEF JCore, SessionOnce
  <2>5. quota[t] = charge[t]
    BY <2>3 DEF TDirectInv, TLedgerInv, ChargedUntilDecided, Terminal
  <2> QED BY <1>2, <1>4, <1>6, <2>4, <2>5 DEF Outstanding, InitialQuota
<1> QED BY <1>5, <1>6

\* The theorem about it.
THEOREM NeverOverRefundedCorrect ==
    ASSUME Realtime = {}, Enhanced = {} PROVE TSafe => []NeverOverRefunded
BY DirectNet, TDirectCorrect, PTL

--------------------------------------------------------------------------------
(* Acknowledged usage: TSettledInv is inductive. *)

\* A step of w is no step of another worker.
LEMMA OthersAlone ==
    ASSUME TCore, NEW w \in Workers, TStep(w)
    PROVE  \A v \in Workers \ {w} : job'[v] = job[v] /\ pc'[v] = pc[v] /\ cur'[v] = cur[v]
<1> USE DEF TCore, TTypeOK, JTypeOK
<1>1. ASSUME Continue(w) PROVE \A v \in Workers \ {w} : job'[v] = job[v] /\ pc'[v] = pc[v] /\ cur'[v] = cur[v]
  <2>1. CASE SubmitSettle(w) \/ SettleReturns(w) \/ GiveBack(w)
    <3>1. \A v \in Workers \ {w} : pc'[v] = pc[v] /\ cur'[v] = cur[v]
      BY <2>1 DEF SubmitSettle, SettleReturns, GiveBack, SessionRuns, Ensure, Returned, Return, jvars
    <3> QED BY <2>1, <3>1, SessionEffect
  <2>2. CASE \/ FailureRecalculated(w) \/ ReconcileReturns(w) \/ PlainReturns(w) \/ SwapLost(w)
             \/ StillPending(w) \/ AckUsage(w) \/ TouchUsage(w) \/ MeasureUsage(w) \/ MeasureFails(w)
    BY <2>2, UsageEffect
  <2>3. CASE FinalizeFailure(w) \/ RefundTask(w) \/ Reconcile(w)
    <3>1. \A v \in Workers \ {w} : pc'[v] = pc[v] /\ cur'[v] = cur[v]
      BY <2>3 DEF FinalizeFailure, RefundTask, Reconcile, TaskSubmit, Ensure, EnsureFails, ConfirmQuota, jvars
    <3> QED BY <2>3, <3>1, BillEffect
  <2>4. CASE PollSucceeded(w) \/ PollFailed(w) \/ TimeOut(w) \/ Cancel(w)
    BY <2>4, OutcomeEffect DEF Decides, Swap
  <2>5. CASE PollRunning(w) \/ RealtimeFetch(w) \/ BulkFail(w) \/ FetchUnchanged(w)
    <3>1. Done(w) /\ UNCHANGED <<pc, cur>>
      BY <2>5 DEF PollRunning, RealtimeFetch, BulkFail, FetchUnchanged, Swap, jvars
    <3> QED BY <3>1, DoneFacts
  <2>6. CASE RunJournal(w)
    <3>1. UNCHANGED <<job, cur>>
      BY <2>6 DEF RunJournal, JournalStep, ApplyNow, ApplyAgain, ApplyRefused, WriteLog, MarkLogDone, DeleteRow
    <3>2. \A v \in Workers \ {w} : pc'[v] = pc[v]
      BY <2>6 DEF RunJournal, JournalStep, ApplyNow, ApplyAgain, ApplyRefused, WriteLog, MarkLogDone, DeleteRow
    <3> QED BY <3>1, <3>2
  <2> QED BY <1>1, <2>1, <2>2, <2>3, <2>4, <2>5, <2>6 DEF Continue
<1>2. CASE Fault(w) BY <1>2, FaultEffect
<1>3. ASSUME NEW t \in Tasks, Persist(w, t)
      PROVE  \A v \in Workers \ {w} : job'[v] = job[v] /\ pc'[v] = pc[v] /\ cur'[v] = cur[v]
  <2>1. \A v \in Workers \ {w} : pc'[v] = pc[v] /\ cur'[v] = cur[v]
    BY <1>3 DEF Persist, PersistTask, PersistFails, PersistEnhanced, Ensure, jvars
  <2> QED BY <1>3, <2>1, PersistEffect
<1>4. ASSUME NEW t \in Tasks, NEW at \in Steps, ReadRow(w, t, at), UNCHANGED jvars
      PROVE  \A v \in Workers \ {w} : job'[v] = job[v] /\ pc'[v] = pc[v] /\ cur'[v] = cur[v]
  BY <1>4, ReadTypes DEF jvars
<1>5. ASSUME NEW t \in Tasks, ReadForCancel(w, t) \/ ReadForFetch(w, t) \/ ReadTask(w, t) \/ ListUsage(w, t) \/ ListFailed(w, t)
      PROVE  \A v \in Workers \ {w} : job'[v] = job[v] /\ pc'[v] = pc[v] /\ cur'[v] = cur[v]
  BY <1>4, <1>5 DEF ReadForCancel, ReadForFetch, ReadTask, ListUsage, ListFailed, Steps
<1>6. ASSUME NEW key, SweepJournal(w, key)
      PROVE  \A v \in Workers \ {w} : job'[v] = job[v] /\ pc'[v] = pc[v] /\ cur'[v] = cur[v]
  BY <1>6, GotoFacts DEF SweepJournal, SweepPick, Steps
<1> QED BY <1>1, <1>2, <1>3, <1>5, <1>6 DEF TStep, List

\* A step marks no recalculation of t applied.
Kept(t) ==
    /\ row'[Key("recalculate", t)].state = "applied" => row[Key("recalculate", t)].state = "applied"
    /\ receipt'[t].source = "recalculate" => receipt'[t] = receipt[t]

\* What AppliedIsPosted says of one task after a step.
Sound(t) ==
    /\ receipt'[t].source = "recalculate" => status'[t] \in Terminal
    /\ status'[t] = "success" =>
          /\ row'[Key("recalculate", t)].state = "applied" => Key("recalculate", t) \in posted'
          /\ receipt'[t].source = "recalculate" /\ receipt'[t].applied =>
                t \in PerCall \/ charge[t] = actual[t] \/ Key("recalculate", t) \in posted'

\* Where nothing is marked, or the task has failed, AppliedIsPosted is kept.
LEMMA KeptSound ==
    ASSUME TSettledInv, [TNext]_tvars, Realtime = {}, NEW t \in Tasks,
           Kept(t) \/ status'[t] = "failure"
    PROVE  Sound(t)
<1>1. TLedgerInv /\ TCore /\ AppliedIsPosted /\ BilledWhenDecided
  BY DEF TSettledInv, TDirectInv, TLedgerInv
<1>2. CASE status'[t] = "failure" BY <1>2 DEF Sound, Terminal
<1>3. CASE Kept(t)
  <2>1. posted \subseteq posted' BY <1>1, Fixed
  <2>2. status[t] \in Terminal => status'[t] \in Terminal BY <1>1, StatusStays
  <2>3. status'[t] = "success" => status[t] = "success" \/ status[t] \notin Terminal
    BY <1>1, StatusStays
  <2>4. Key("recalculate", t) \in Keys /\ Key("recalculate", t).kind \notin SessionKinds
        /\ Key("recalculate", t).task = t
    BY KeyFacts DEF Kinds, SessionKinds
  <2>5. status[t] \notin Terminal => row[Key("recalculate", t)].state = "none"
    BY <1>1, <2>4 DEF BilledWhenDecided
  <2>6. status[t] \notin Terminal => receipt[t].source # "recalculate"
    BY <1>1 DEF AppliedIsPosted
  <2>7. receipt'[t].source = "recalculate" => status'[t] \in Terminal
    BY <1>3, <2>2, <2>6 DEF Kept
  <2>8. ASSUME status'[t] = "success"
        PROVE  /\ row'[Key("recalculate", t)].state = "applied" => Key("recalculate", t) \in posted'
               /\ receipt'[t].source = "recalculate" /\ receipt'[t].applied =>
                    t \in PerCall \/ charge[t] = actual[t] \/ Key("recalculate", t) \in posted'
    BY <1>1, <1>3, <2>1, <2>3, <2>5, <2>6, <2>8 DEF Kept, AppliedIsPosted, Charged, Recalculated
  <2> QED BY <2>7, <2>8 DEF Sound
<1> QED BY <1>2, <1>3

\* AppliedIsPosted follows, task by task.
LEMMA SoundApplied ==
    ASSUME TCore, [TNext]_tvars, \A t \in Tasks : Sound(t) PROVE AppliedIsPosted'
<1>1. UNCHANGED <<charge, actual>> BY Fixed
<1> QED BY <1>1 DEF AppliedIsPosted, Sound, Charged, Recalculated

\* The money transaction posts a recalculation that it marks applied, if the
\* task has succeeded.
LEMMA ApplySound ==
    ASSUME TSettledInv, [TNext]_tvars, Realtime = {}, Enhanced = {}, NEW w \in Workers,
           RunJournal(w), ApplyNow(w)
    PROVE  /\ \A t \in Tasks : Sound(t)
           /\ \A t \in Tasks : cur[w] = Key("recalculate", t) /\ status[t] = "success" =>
                 Key("recalculate", t) \in posted'
<1>1. TDirectInv /\ TCore /\ JCore /\ AppliedIsPosted BY DEF TSettledInv, TDirectInv, TLedgerInv, TCore
<1>2. PICK key \in Keys : key = cur[w] BY <1>1 DEF JCore, JTypeOK
<1>3. /\ row \in [Keys -> Rows] /\ receipt \in [Tasks -> Receipts] /\ key.task \in Tasks
      /\ UNCHANGED <<status, charge, actual>>
      /\ row' = [row EXCEPT ![key].state = "applied"] /\ receipt' = MarkReceipt(key, row[key])
      /\ row[key].state = "pending"
  BY <1>1, <1>2, KeyFacts DEF JCore, JTypeOK, ApplyNow, RunJournal, taskvars
<1>4. receipt' = receipt \/ (receipt[key.task].source = key.kind /\ receipt' = [receipt EXCEPT ![key.task].applied = TRUE])
  BY <1>3 DEF MarkReceipt
<1>5. ASSUME NEW t \in Tasks, key = Key("recalculate", t), status[t] = "success" PROVE key \in posted'
  <2>1. CASE AtTarget(key)
    <3>1. quota[t] = row[key].final /\ posted' = posted
      BY <1>2, <1>5, <2>1 DEF ApplyNow, AtTarget, Key
    <3>2. row[key].final = actual[t] /\ charge[t] # actual[t]
      BY <1>1, <1>3, <1>5 DEF TDirectInv, RecalculatesCharge
    <3>3. ~Refunded(t) BY <1>1, <1>5 DEF TDirectInv, RefundsFailures
    <3> QED BY <1>1, <1>5, <3>1, <3>2, <3>3 DEF TDirectInv, QuotaFollowsPostings, Recalculated
  <2>2. CASE ~AtTarget(key)
    BY <1>2, <2>2 DEF ApplyNow
  <2> QED BY <2>1, <2>2
<1>6. ASSUME NEW t \in Tasks PROVE Sound(t)
  <2>1. Key("recalculate", t) \in Keys BY KeyFacts DEF Kinds
  <2>2. CASE key # Key("recalculate", t)
    <3>1. row'[Key("recalculate", t)] = row[Key("recalculate", t)] BY <1>3, <2>1, <2>2
    <3>2. t = key.task => key.kind # "recalculate" BY <2>2, KeyFacts
    <3>3. receipt'[t].source = "recalculate" => receipt'[t] = receipt[t]
      <4>1. CASE t = key.task /\ receipt' # receipt
        <5>1. receipt'[t].source = receipt[t].source BY <1>3, <1>4, <4>1 DEF Receipts
        <5> QED BY <1>4, <3>2, <4>1, <5>1
      <4>2. CASE t # key.task \/ receipt' = receipt
        BY <1>3, <1>4, <4>2
      <4> QED BY <4>1, <4>2
    <3> QED BY <3>1, <3>3, KeptSound DEF Kept
  <2>3. CASE key = Key("recalculate", t)
    <3>1. status'[t] \in Terminal
      <4>1. TLedgerInv BY <1>1 DEF TDirectInv
      <4>2. key.kind \notin SessionKinds /\ key.task = t BY <2>3 DEF Key, SessionKinds
      <4> QED BY <1>3, <4>1, <4>2 DEF TLedgerInv, BilledWhenDecided
    <3> QED BY <1>3, <1>5, <2>3, <3>1 DEF Sound
  <2> QED BY <2>2, <2>3
<1> QED BY <1>2, <1>5, <1>6

\* A reconciler that finds a receipt, confirms an expense or opens the
\* recalculation of a successful task.
LEMMA ReconcileSound ==
    ASSUME TSettledInv, [TNext]_tvars, Realtime = {}, Enhanced = {}, NEW w \in Workers, Reconcile(w)
    PROVE  /\ \A t \in Tasks : Sound(t)
           /\ job'[w].task = job[w].task /\ job'[w].at \in {"reconciling", "ack"}
           /\ job'[w].at = "ack" => Charged(job[w].task) /\ UNCHANGED pc
           /\ job'[w].at = "reconciling" =>
                 /\ cur'[w] = Key("recalculate", job[w].task)
                 /\ pc'[w] \in {"log", "mark", "delete", "ok"} => Recalculated(job[w].task)
<1>1. TDirectInv /\ TLedgerInv /\ TCore /\ JCore /\ AppliedIsPosted
  BY DEF TSettledInv, TDirectInv, TLedgerInv, TCore
<1>2. PICK t \in Tasks : t = job[w].task BY <1>1, JobTypes DEF TCore
<1>3. PICK key \in Keys : key = Key("recalculate", t) /\ key.task = t /\ key.kind = "recalculate"
  BY KeyFacts DEF Kinds
<1>4. job[w].at = "reconcile" /\ UNCHANGED taskvars BY DEF Reconcile, At
<1>5. KnownQuota(t, job[w].h) /\ status[t] = "success" /\ status'[t] = "success"
  BY <1>1, <1>2, <1>4 DEF TDirectInv, UsageCopies, TSettledInv, AckedIsCharged, UsageSteps, taskvars
<1>6. /\ row \in [Keys -> Rows] /\ receipt \in [Tasks -> Receipts] /\ posted \subseteq posted'
      /\ pc \in [Workers -> PCs] /\ cur \in [Workers -> Keys]
  BY <1>1, Fixed DEF JCore, JTypeOK
<1>7. ASSUME NEW x \in Tasks, x # t, receipt'[x] = receipt[x], row'[Key("recalculate", x)] = row[Key("recalculate", x)]
      PROVE  Sound(x)
  BY <1>7, KeptSound DEF Kept
<1>8. CASE job[w].h = Measured(t, job[w].h) /\ ConfirmQuota(t, job[w].h) /\ Goto(w, "ack")
  <2>1. Charged(t) BY <1>5, <1>8 DEF Measured, KnownQuota, Charged
  <2>2. UNCHANGED <<row, pc>> /\ receipt' = [receipt EXCEPT ![t] = Confirmed(t, job[w].h, "recalculate", TRUE)]
    BY <1>8 DEF ConfirmQuota, ConfirmExpense, Key
  <2>3. Sound(t)
    <3>1. row'[key].state = "applied" => Recalculated(t) BY <1>1, <1>3, <1>5, <2>2 DEF AppliedIsPosted
    <3> QED BY <1>3, <1>5, <1>6, <2>1, <3>1 DEF Sound, Charged, Recalculated, Terminal
  <2>4. \A x \in Tasks : Sound(x) BY <1>6, <1>7, <2>2, <2>3
  <2>5. job'[w].at = "ack" /\ job'[w].task = job[w].task
    BY <1>1, <1>8, GotoFacts DEF TCore, TTypeOK, Steps
  <2> QED BY <1>2, <2>1, <2>2, <2>4, <2>5
<1>9. CASE /\ job[w].h # Measured(t, job[w].h) /\ Goto(w, "reconciling")
           /\ TaskSubmit(w, key, RecalculateFact(job[w].h, Measured(t, job[w].h)))
  <2> DEFINE fact == RecalculateFact(job[w].h, Measured(t, job[w].h))
             r == EnsuredRow(key, fact)
  <2>1. t \notin PerCall /\ job[w].h = charge[t] /\ charge[t] # actual[t] /\ Measured(t, job[w].h) = actual[t]
    BY <1>5, <1>9 DEF Measured, KnownQuota
  <2>2. charge[t] \in Quotas /\ actual[t] \in Quotas BY <1>1, RowTypes DEF TCore
  <2>3. GoodFact(key, fact) BY <1>1, <1>3, <2>1, <2>2, SubmittedFacts
  <2>4. job'[w].at = "reconciling" /\ job'[w].task = job[w].task
    BY <1>1, <1>9, GotoFacts DEF TCore, TTypeOK, Steps
  <2> HIDE DEF fact
  <2>5. TaskSubmit(w, key, fact) BY <1>9 DEF fact
  <2>6. CASE EnsureFails(w, key, fact)
    <3>1. UNCHANGED <<row, receipt>> /\ pc'[w] = "err" /\ cur'[w] = key
      BY <1>6, <2>6 DEF EnsureFails
    <3>2. \A x \in Tasks : Sound(x) BY <3>1, KeptSound DEF Kept
    <3> QED BY <1>2, <1>3, <2>4, <3>1, <3>2
  <2>7. CASE Ensure(w, key, fact)
    <3>1. r.state = "applied" => Recalculated(t)
      <4>1. CASE row[key].state = "applied"
        BY <1>1, <1>3, <1>5, <4>1 DEF AppliedIsPosted
      <4>2. CASE row[key].state # "applied"
        <5>1. r.state = "applied" => HasReceipt(key, Stored(key, fact))
          BY <2>3, <4>2 DEF EnsuredRow, Stored, GoodFact
        <5>2. HasReceipt(key, Stored(key, fact)) => Charged(t)
          BY <1>1, <1>3, <1>5 DEF HasReceipt, AppliedIsPosted
        <5> QED BY <2>1, <5>1, <5>2 DEF Charged
      <4> QED BY <4>1, <4>2
    <3> HIDE DEF r
    <3>2. /\ row' = [row EXCEPT ![key] = r] /\ cur'[w] = key
          /\ pc'[w] = IF r.state = "applied" THEN AfterApplied(r) ELSE "apply"
          /\ \/ receipt' = receipt
             \/ receipt' = [receipt EXCEPT ![t] = Confirmed(t, r.final, "recalculate", r.state = "applied")]
      BY <1>3, <1>6, <2>7 DEF Ensure, r
    <3>3. pc'[w] \in {"log", "mark", "delete", "ok"} => Recalculated(t)
      BY <3>1, <3>2
    <3>4. receipt'[t].source = "recalculate" /\ receipt'[t].applied => Charged(t)
      <4>1. CASE receipt'[t] = receipt[t] BY <1>1, <1>5, <4>1 DEF AppliedIsPosted
      <4>2. CASE receipt'[t] # receipt[t]
        <5>1. receipt'[t] = [source |-> "recalculate", quota |-> r.final, applied |-> r.state = "applied"]
          BY <1>6, <3>2, <4>2 DEF Confirmed
        <5>2. receipt'[t].applied = (r.state = "applied") BY <5>1
        <5> QED BY <3>1, <5>2 DEF Charged
      <4> QED BY <4>1, <4>2
    <3>5. Sound(t)
      BY <1>3, <1>5, <1>6, <3>1, <3>2, <3>4 DEF Sound, Charged, Recalculated, Terminal
    <3>6. ASSUME NEW x \in Tasks, x # t PROVE Sound(x)
      <4>1. Key("recalculate", x) \in Keys /\ Key("recalculate", x) # key
        BY <1>3, <3>6, KeyFacts DEF Kinds
      <4> QED BY <1>6, <1>7, <3>2, <3>6, <4>1
    <3> QED BY <1>2, <1>3, <2>4, <3>2, <3>3, <3>5, <3>6
  <2> QED BY <2>5, <2>6, <2>7 DEF TaskSubmit
<1> QED BY <1>2, <1>3, <1>8, <1>9 DEF Reconcile


\* A session's fact concerns another operation of its task.
LEMMA SessionKeeps ==
    ASSUME TCore, NEW w \in Workers, SubmitSettle(w) \/ SettleReturns(w) \/ GiveBack(w), NEW t \in Tasks
    PROVE  Kept(t)
<1>1. Key("recalculate", t) \in Keys /\ Key("recalculate", t).kind \notin SessionKinds
  BY KeyFacts DEF Kinds, SessionKinds
<1>2. row'[Key("recalculate", t)] = row[Key("recalculate", t)] BY <1>1, SessionEffect
<1>3. receipt \in [Tasks -> Receipts] BY DEF TCore, JCore, JTypeOK
<1>4. ASSUME NEW x \in Tasks, NEW k \in SessionKinds, NEW fact, Ensure(w, Key(k, x), fact) PROVE Kept(t)
  <2>1. \/ receipt' = receipt
        \/ \E q, b : receipt' = [receipt EXCEPT ![x] = Confirmed(x, q, k, b)]
    BY <1>4 DEF Ensure, Key
  <2>2. ASSUME NEW q, NEW b, receipt' = [receipt EXCEPT ![x] = Confirmed(x, q, k, b)]
        PROVE  receipt'[t].source = "recalculate" => receipt'[t] = receipt[t]
    BY <1>3, <2>2 DEF Confirmed, SessionKinds
  <2> QED BY <1>2, <2>1, <2>2 DEF Kept
<1>5. job[w].task \in Tasks BY JobTypes DEF TCore
<1>6. CASE SubmitSettle(w)
  <2>1. PICK c \in BOOLEAN : Ensure(w, Key("settle", job[w].task), SettleFact(job[w].task, c))
    BY <1>6 DEF SubmitSettle, SessionRuns, Confirms
  <2> QED BY <1>4, <1>5, <2>1 DEF SessionKinds
<1>7. CASE SettleReturns(w)
  BY <1>2, <1>7 DEF SettleReturns, Returned, Return, Kept
<1>8. CASE GiveBack(w)
  <2>1. UNCHANGED receipt \/ Ensure(w, Key("refund", job[w].task), RefundFact(job[w].task))
    BY <1>8 DEF GiveBack, SessionRuns, jvars
  <2> QED BY <1>2, <1>4, <1>5, <2>1 DEF SessionKinds, Kept
<1> QED BY <1>6, <1>7, <1>8

\* The settlement of a failed task concerns that task alone.
LEMMA FailureSound ==
    ASSUME TSettledInv, [TNext]_tvars, Realtime = {}, NEW w \in Workers,
           FinalizeFailure(w) \/ RefundTask(w), NEW t \in Tasks
    PROVE  Sound(t)
<1>1. TDirectInv /\ TLedgerInv /\ TCore /\ JCore BY DEF TSettledInv, TDirectInv, TLedgerInv, TCore
<1>2. PICK x \in Tasks : x = job[w].task BY <1>1, JobTypes DEF TCore
<1>3. status[x] = "failure" /\ UNCHANGED status
  BY <1>1, <1>2 DEF FinalizeFailure, RefundTask, At, TDirectInv, RefundsFailures, taskvars
<1>4. CASE t = x BY <1>3, <1>4, KeptSound
<1>5. CASE t # x
  <2>1. Key("recalculate", t) \in Keys /\ Key("recalculate", t).task = t
        /\ Key("recalculate", x).task = x /\ Key("taskRefund", x).task = x
    BY KeyFacts DEF Kinds
  <2>2. row'[Key("recalculate", t)] = row[Key("recalculate", t)]
    BY <1>1, <1>2, <1>5, <2>1, BillEffect
  <2>3. ASSUME NEW k, NEW fact, TaskSubmit(w, Key(k, x), fact) PROVE receipt'[t] = receipt[t]
    BY <1>1, <1>5, <2>3 DEF TaskSubmit, Ensure, EnsureFails, Key, JCore, JTypeOK
  <2>4. ASSUME NEW k, NEW q, ConfirmExpense(Key(k, x), q) PROVE receipt'[t] = receipt[t]
    BY <1>1, <1>5, <2>4 DEF ConfirmExpense, Key, JCore, JTypeOK
  <2>5. ASSUME FinalizeFailure(w) PROVE receipt'[t] = receipt[t]
    <3>1. \/ UNCHANGED receipt
          \/ TaskSubmit(w, Key("recalculate", x), RecalculateFact(job[w].q, actual[x]))
          \/ ConfirmExpense(Key("recalculate", x), actual[x])
      BY <1>2, <2>5 DEF FinalizeFailure, ConfirmQuota, jvars
    <3> QED BY <2>3, <2>4, <3>1
  <2>6. ASSUME RefundTask(w) PROVE receipt'[t] = receipt[t]
    <3>1. \/ TaskSubmit(w, Key("taskRefund", x), TaskRefundFact(job[w].q))
          \/ ConfirmExpense(Key("taskRefund", x), 0)
      BY <1>2, <2>6 DEF RefundTask
    <3> QED BY <2>3, <2>4, <3>1
  <2>7. receipt'[t] = receipt[t] BY <2>5, <2>6
  <2> QED BY <2>2, <2>7, KeptSound DEF Kept
<1> QED BY <1>4, <1>5

\* Every step keeps AppliedIsPosted.
LEMMA AppliedPart ==
    ASSUME TSettledInv, [TNext]_tvars, Realtime = {}, Enhanced = {}, NEW w \in Workers, TStep(w)
    PROVE  AppliedIsPosted'
<1>1. TDirectInv /\ TLedgerInv /\ TCore /\ JCore BY DEF TSettledInv, TDirectInv, TLedgerInv, TCore
<1> SUFFICES ASSUME NEW t \in Tasks PROVE Sound(t) BY <1>1, SoundApplied
<1>2. Key("recalculate", t) \in Keys BY KeyFacts DEF Kinds
<1>3. ASSUME UNCHANGED <<row, receipt>> PROVE Sound(t) BY <1>3, KeptSound DEF Kept
<1>4. ASSUME Continue(w) PROVE Sound(t)
  <2>1. CASE SubmitSettle(w) \/ SettleReturns(w) \/ GiveBack(w)
    BY <1>1, <2>1, SessionKeeps, KeptSound
  <2>2. CASE \/ FailureRecalculated(w) \/ ReconcileReturns(w) \/ PlainReturns(w) \/ SwapLost(w)
             \/ StillPending(w) \/ AckUsage(w) \/ TouchUsage(w) \/ MeasureUsage(w) \/ MeasureFails(w)
    BY <1>1, <1>3, <2>2, UsageEffect
  <2>3. CASE PollSucceeded(w) \/ PollFailed(w) \/ TimeOut(w) \/ Cancel(w)
    BY <1>1, <1>3, <2>3, OutcomeEffect DEF Decides, Swap
  <2>4. CASE PollRunning(w) \/ RealtimeFetch(w) \/ BulkFail(w) \/ FetchUnchanged(w)
    BY <1>3, <2>4 DEF PollRunning, RealtimeFetch, Swap, BulkFail, FetchUnchanged, jvars
  <2>5. CASE FinalizeFailure(w) \/ RefundTask(w) BY <2>5, FailureSound
  <2>6. CASE Reconcile(w) BY <2>6, ReconcileSound
  <2>7. CASE RunJournal(w) /\ ApplyNow(w) BY <2>7, ApplySound
  <2>8. CASE RunJournal(w) /\ ~ApplyNow(w)
    <3>1. Kept(t) BY <1>1, <1>2, <2>8, JournalEffect DEF Kept
    <3> QED BY <3>1, KeptSound
  <2> QED BY <1>4, <2>1, <2>2, <2>3, <2>4, <2>5, <2>6, <2>7, <2>8 DEF Continue
<1>5. CASE Fault(w) BY <1>1, <1>3, <1>5, FaultEffect
<1>6. ASSUME NEW x \in Tasks, Persist(w, x) PROVE Sound(t)
  BY <1>3, <1>6 DEF Persist, PersistTask, PersistFails, PersistEnhanced, jvars
<1>7. ASSUME NEW x \in Tasks, List(w, x) \/ ReadForCancel(w, x) \/ ReadForFetch(w, x) PROVE Sound(t)
  BY <1>3, <1>7 DEF List, ReadTask, ListUsage, ListFailed, SweepJournal, SweepPick, ReadForCancel, ReadForFetch, jvars
<1> QED BY <1>4, <1>5, <1>6, <1>7 DEF TStep


\* Charged(t) after a step, which changes neither charge nor actual.
ChargedAfter(t) == t \in PerCall \/ charge[t] = actual[t] \/ Key("recalculate", t) \in posted'

\* Without deleted channels a success is final.
LEMMA SuccessStays ==
    ASSUME TLedgerInv, [TNext]_tvars, Realtime = {}, Orphans = {}, NEW t \in Tasks, status[t] = "success"
    PROVE  status'[t] = "success"
<1>1. status[t] \in Terminal BY DEF Terminal
<1> QED BY <1>1, StatusMoves DEF BulkFail

\* What AckedIsCharged says of the row of a task after a step ...
AckRow(t) ==
    /\ usage'[t] # "none" => status'[t] = "success"
    /\ usage'[t] = "settled" => ChargedAfter(t)

\* ... holds.
LEMMA RowAcked ==
    ASSUME TSettledInv, [TNext]_tvars, Realtime = {}, Orphans = {}, NEW w \in Workers, TStep(w), NEW t \in Tasks
    PROVE  AckRow(t)
<1>1. /\ TDirectInv /\ TLedgerInv /\ TCore /\ AckedIsCharged /\ UsageCopies
      /\ usage \in [Tasks -> Usages] /\ status \in [Tasks -> Statuses] /\ job[w].task \in Tasks
  BY JobTypes DEF TSettledInv, TDirectInv, TLedgerInv, TCore, TTypeOK
<1>2. posted \subseteq posted' BY <1>1, Fixed
<1>3. ASSUME usage'[t] = usage[t] PROVE AckRow(t)
  BY <1>1, <1>2, <1>3, SuccessStays DEF AckedIsCharged, AckRow, Charged, Recalculated, ChargedAfter
<1>4. ASSUME NEW s, NEW f, NEW u, NEW h, Swap(w, s, f, u, h), job[w].at \in {"poll", "cancel"},
             u = "none" \/ (s = "success" /\ u \in Measuring)
      PROVE  AckRow(t)
  <2>1. CASE t = job[w].task
    BY <1>1, <1>4, <2>1 DEF Swap, AckRow, Measuring
  <2>2. CASE t # job[w].task
    BY <1>1, <1>3, <1>4, <2>2 DEF Swap
  <2> QED BY <2>1, <2>2
<1>5. job[w].at \in {"poll", "cancel"} => job[w].u = "none" BY <1>1 DEF UsageCopies
<1>6. ASSUME Continue(w) PROVE AckRow(t)
  <2>1. CASE SubmitSettle(w) \/ SettleReturns(w) \/ GiveBack(w)
    BY <1>1, <1>3, <2>1, SessionEffect DEF taskvars
  <2>2. CASE \/ FailureRecalculated(w) \/ ReconcileReturns(w) \/ PlainReturns(w) \/ SwapLost(w)
             \/ StillPending(w) \/ AckUsage(w) \/ TouchUsage(w) \/ MeasureUsage(w) \/ MeasureFails(w)
    <3>1. CASE usage'[t] = usage[t] BY <1>3, <3>1
    <3>2. CASE usage'[t] # usage[t]
      <4>1. /\ t = job[w].task /\ status[t] = "success" /\ job[w].at \in UsageSteps
            /\ \/ usage'[t] = job[w].u
               \/ usage'[t] = "settled" /\ job[w].at = "ack"
               \/ usage'[t] = "known"
        BY <1>1, <2>2, <3>2, UsageWrites
      <4>2. status'[t] = "success" BY <1>1, <4>1, SuccessStays
      <4>3. job[w].u \in Measuring BY <1>1, <4>1 DEF UsageCopies
      <4>4. job[w].at = "ack" => Charged(t) BY <1>1, <4>1 DEF AckedIsCharged
      <4> QED BY <1>2, <4>1, <4>2, <4>3, <4>4 DEF AckRow, Measuring, Charged, Recalculated, ChargedAfter
    <3> QED BY <3>1, <3>2
  <2>3. CASE FinalizeFailure(w) \/ RefundTask(w) \/ Reconcile(w)
    BY <1>1, <1>3, <2>3, BillEffect DEF taskvars
  <2>4. CASE PollSucceeded(w) \/ PollFailed(w) \/ TimeOut(w) \/ Cancel(w)
    <3>a. PICK s \in Terminal, u \in Usages, h \in Quotas : Decides(w, s, u, h)
      BY <1>1, <2>4, OutcomeEffect
    <3>1. /\ job[w].at \in {"poll", "cancel"} /\ Swap(w, s, TRUE, u, h)
          /\ u = job[w].u \/ (s = "success" /\ u \in Measuring)
      BY <3>a DEF Decides
    <3> QED BY <1>4, <1>5, <3>1
  <2>5. CASE PollRunning(w)
    BY <1>4, <1>5, <2>5 DEF PollRunning, At
  <2>6. CASE RealtimeFetch(w) \/ FetchUnchanged(w)
    BY <1>1, <2>6 DEF RealtimeFetch, FetchUnchanged, At, TLedgerInv, BilledWhenDecided
  <2>7. CASE BulkFail(w) \/ RunJournal(w)
    BY <1>3, <2>7 DEF BulkFail, RunJournal, taskvars
  <2> QED BY <1>6, <2>1, <2>2, <2>3, <2>4, <2>5, <2>6, <2>7 DEF Continue
<1>7. CASE Fault(w) BY <1>3, <1>7 DEF Fault, taskvars
<1>8. ASSUME NEW x \in Tasks, Persist(w, x) \/ List(w, x) \/ ReadForCancel(w, x) \/ ReadForFetch(w, x)
      PROVE  AckRow(t)
  BY <1>3, <1>8 DEF Persist, PersistTask, PersistFails, PersistEnhanced, List, ReadTask, ListUsage, ListFailed,
     SweepJournal, ReadForCancel, ReadForFetch, taskvars
<1> QED BY <1>6, <1>7, <1>8 DEF TStep

\* What AckedIsCharged says of a worker after a step, if it holds task t.
AckJob(w, t) ==
    /\ job'[w].task = t
    /\ job'[w].at \in UsageSteps => status'[t] = "success"
    /\ job'[w].at = "ack" => ChargedAfter(t)
    /\ job'[w].at = "reconciling" /\ pc'[w] # "idle" => cur'[w] = Key("recalculate", t)
    /\ job'[w].at = "reconciling" /\ pc'[w] \in {"log", "mark", "delete", "ok"} =>
          Key("recalculate", t) \in posted'

\* The journal takes a reconciler past the application of its operation only
\* if that is posted.
LEMMA JournalAcked ==
    ASSUME TSettledInv, [TNext]_tvars, Realtime = {}, Enhanced = {}, Orphans = {}, NEW w \in Workers,
           RunJournal(w) \/ (StepFails(w) /\ UNCHANGED <<job, status>>)
    PROVE  \E t \in Tasks : AckJob(w, t)
<1>1. TDirectInv /\ TLedgerInv /\ TCore /\ JCore /\ AckedIsCharged /\ AppliedIsPosted /\ TTypeOK
  BY DEF TSettledInv, TDirectInv, TLedgerInv, TCore
<1>2. PICK t \in Tasks : t = job[w].task BY <1>1, JobTypes
<1>3. /\ posted \subseteq posted' /\ pc \in [Workers -> PCs] /\ cur \in [Workers -> Keys]
  BY <1>1, Fixed DEF JCore, JTypeOK
<1>4. /\ UNCHANGED <<job, cur, status>> /\ pc[w] \in {"apply", "log", "mark", "delete"}
  BY DEF RunJournal, JournalStep, ApplyNow, ApplyAgain, ApplyRefused, WriteLog, MarkLogDone, DeleteRow, StepFails, taskvars
<1>5. job[w].at # "ack" BY <1>1, <1>4 DEF TTypeOK
<1>6. ASSUME job[w].at = "reconciling", pc'[w] \in {"log", "mark", "delete", "ok"}
      PROVE  Key("recalculate", t) \in posted'
  <2>1. status[t] = "success" /\ cur[w] = Key("recalculate", t)
    BY <1>1, <1>2, <1>4, <1>6 DEF AckedIsCharged, UsageSteps
  <2>2. CASE pc[w] \in {"log", "mark", "delete"}
    BY <1>1, <1>2, <1>3, <1>6, <2>2 DEF AckedIsCharged, PastApply, Recalculated
  <2>3. CASE pc[w] = "apply"
    <3>1. CASE RunJournal(w) /\ ApplyNow(w) BY <2>1, <3>1, ApplySound
    <3>2. CASE ApplyAgain(w)
      BY <1>1, <1>3, <2>1, <3>2 DEF ApplyAgain, AppliedIsPosted, Recalculated
    <3>3. CASE ApplyRefused(w) \/ StepFails(w)
      BY <1>3, <1>6, <2>3, <3>3 DEF ApplyRefused, StepFails
    <3> QED BY <2>3, <3>1, <3>2, <3>3 DEF RunJournal, JournalStep, WriteLog, MarkLogDone, DeleteRow
  <2> QED BY <1>4, <2>2, <2>3
<1>7. job[w].at \in UsageSteps => status[t] = "success" BY <1>1, <1>2 DEF AckedIsCharged
<1>8. job[w].at = "reconciling" => cur[w] = Key("recalculate", t)
  BY <1>1, <1>2, <1>4 DEF AckedIsCharged
<1> QED BY <1>2, <1>4, <1>5, <1>6, <1>7, <1>8 DEF AckJob


\* Every step leaves its worker so.
LEMMA WorkerAcked ==
    ASSUME TSettledInv, [TNext]_tvars, Realtime = {}, Enhanced = {}, Orphans = {}, NEW w \in Workers,
           TStep(w), TCore'
    PROVE  \E t \in Tasks : AckJob(w, t)
<1>1. TDirectInv /\ TLedgerInv /\ TCore /\ JCore /\ AckedIsCharged /\ UsageCopies /\ TTypeOK
  BY DEF TSettledInv, TDirectInv, TLedgerInv, TCore
<1>2. PICK t \in Tasks : t = job[w].task BY <1>1, JobTypes
<1>3. PICK x \in Tasks : x = job'[w].task
  <2>1. job' \in [Workers -> Jobs] BY DEF TCore, TTypeOK
  <2> QED BY <2>1 DEF Jobs
<1>4. posted \subseteq posted' /\ UNCHANGED <<charge, actual>> BY <1>1, Fixed
<1>5. status[t] = "success" => status'[t] = "success" BY <1>1, SuccessStays
<1>6. job[w].at \in UsageSteps => status[t] = "success" BY <1>1, <1>2 DEF AckedIsCharged
<1>7. ASSUME job'[w].at \notin UsageSteps PROVE \E y \in Tasks : AckJob(w, y)
  BY <1>3, <1>7 DEF AckJob, UsageSteps
<1>8. ASSUME job'[w].at \in {"reconcile", "touch", "measure"}, job[w].at \in UsageSteps, x = t
      PROVE \E y \in Tasks : AckJob(w, y)
  BY <1>3, <1>5, <1>6, <1>8 DEF AckJob
<1>9. ASSUME Continue(w) PROVE \E y \in Tasks : AckJob(w, y)
  <2>1. CASE SubmitSettle(w) \/ SettleReturns(w) \/ GiveBack(w)
    BY <1>1, <1>7, <2>1, SessionEffect DEF UsageSteps
  <2>2. CASE \/ FailureRecalculated(w) \/ ReconcileReturns(w) \/ PlainReturns(w) \/ SwapLost(w)
             \/ StillPending(w) \/ AckUsage(w) \/ TouchUsage(w) \/ MeasureUsage(w) \/ MeasureFails(w)
    <3>1. CASE job'[w].at \notin UsageSteps BY <1>7, <3>1
    <3>2. CASE job'[w].at \in UsageSteps
      <4>1. /\ x = t
            /\ \/ job[w].at = "reconciling" /\ job'[w].at = "ack" /\ pc[w] = "ok"
               \/ job[w].at = "touch" /\ job'[w].at = "measure"
               \/ job[w].at = "measure" /\ job'[w].at = "reconcile"
        BY <1>1, <1>2, <1>3, <2>2, <3>2, UsageEffect DEF UsageSteps
      <4>2. CASE job[w].at = "reconciling" /\ job'[w].at = "ack" /\ pc[w] = "ok"
        <5>1. Recalculated(t) BY <1>1, <1>2, <4>2 DEF AckedIsCharged, PastApply
        <5> QED BY <1>3, <1>4, <1>5, <1>6, <4>1, <4>2, <5>1 DEF AckJob, ChargedAfter, Recalculated, UsageSteps
      <4> QED BY <1>8, <4>1, <4>2 DEF UsageSteps
    <3> QED BY <3>1, <3>2
  <2>3. CASE FinalizeFailure(w) \/ RefundTask(w)
    <3>1. job[w].at \in {"failed", "refund"} BY <2>3 DEF FinalizeFailure, RefundTask, At
    <3>2. job'[w].at \in {"idle", "refund", "failing", "plain"} BY <1>1, <2>3, <3>1, BillEffect
    <3> QED BY <1>7, <3>2 DEF UsageSteps
  <2>4. CASE Reconcile(w)
    <3>1. /\ x = t /\ job'[w].at \in {"reconciling", "ack"}
          /\ job'[w].at = "ack" => Charged(t)
          /\ job'[w].at = "reconciling" =>
                /\ cur'[w] = Key("recalculate", t)
                /\ pc'[w] \in {"log", "mark", "delete", "ok"} => Recalculated(t)
      BY <1>2, <1>3, <2>4, ReconcileSound
    <3>2. status'[t] = "success" BY <1>5, <1>6, <2>4 DEF Reconcile, At, UsageSteps
    <3> QED BY <1>3, <1>4, <3>1, <3>2 DEF AckJob, Charged, Recalculated, ChargedAfter
  <2>5. CASE PollSucceeded(w) \/ PollFailed(w) \/ TimeOut(w) \/ Cancel(w)
    <3>a. PICK s \in Terminal, u \in Usages, h \in Quotas : Decides(w, s, u, h)
      BY <1>1, <2>5, OutcomeEffect
    <3>1. /\ job[w].at \in {"poll", "cancel"} /\ Swap(w, s, TRUE, u, h)
          /\ u = job[w].u \/ (s = "success" /\ u \in Measuring)
          /\ \/ job'[w].at = "idle"
             \/ /\ job'[w].at \in {"reconcile", "failed", "refund"} /\ job'[w].task = job[w].task
                /\ job'[w].at = "reconcile" => u \in Measuring
      BY <3>a DEF Decides
    <3>2. job[w].u = "none" BY <1>1, <3>1 DEF UsageCopies
    <3>3. status'[t] = s BY <1>1, <1>2, <3>1 DEF Swap, TTypeOK
    <3>4. CASE job'[w].at = "reconcile"
      BY <1>2, <1>3, <3>1, <3>2, <3>3, <3>4 DEF AckJob, Measuring
    <3> QED BY <1>7, <3>1, <3>4 DEF UsageSteps
  <2>6. CASE PollRunning(w) \/ RealtimeFetch(w) \/ BulkFail(w) \/ FetchUnchanged(w)
    <3>1. Done(w) BY <2>6 DEF PollRunning, RealtimeFetch, BulkFail, FetchUnchanged
    <3> QED BY <1>1, <1>7, <3>1, DoneFacts DEF UsageSteps
  <2>7. CASE RunJournal(w) BY <2>7, JournalAcked
  <2> QED BY <1>9, <2>1, <2>2, <2>3, <2>4, <2>5, <2>6, <2>7 DEF Continue
<1>10. CASE Fault(w)
  <2>1. CASE job'[w] = job[w] /\ StepFails(w)
    <3>1. job' = job
      <4>1. job \in [Workers -> Jobs] /\ job' \in [Workers -> Jobs] BY <1>1 DEF TCore, TTypeOK
      <4>2. \A v \in Workers : job'[v] = job[v] BY <1>1, <1>10, <2>1, FaultEffect
      <4> QED BY <4>1, <4>2
    <3>2. UNCHANGED status BY <1>10 DEF Fault, taskvars
    <3> QED BY <2>1, <3>1, <3>2, JournalAcked
  <2>2. CASE job'[w].at \in {"idle", "settling", "plain", "failing"} BY <1>7, <2>2 DEF UsageSteps
  <2>3. CASE /\ job[w].at = "reconcile" /\ job'[w].at = "reconciling" /\ job'[w].task = job[w].task
             /\ pc'[w] = "err" /\ cur'[w] = Key("recalculate", job[w].task)
    BY <1>2, <1>3, <1>5, <1>6, <2>3 DEF AckJob, UsageSteps
  <2> QED BY <1>1, <1>10, <2>1, <2>2, <2>3, FaultEffect
<1>11. ASSUME NEW y \in Tasks, Persist(w, y) PROVE \E z \in Tasks : AckJob(w, z)
  BY <1>1, <1>7, <1>11, PersistEffect DEF UsageSteps
<1>12. ASSUME NEW y \in Tasks, ReadTask(w, y) \/ ReadForCancel(w, y) \/ ListUsage(w, y) \/ ListFailed(w, y)
       PROVE  \E z \in Tasks : AckJob(w, z)
  <2>1. job'[w].task = y /\ UNCHANGED status
        /\ \/ job'[w].at \in {"poll", "cancel", "refund"}
           \/ job'[w].at \in {"reconcile", "touch"} /\ status[y] = "success"
    BY <1>1, <1>12, ReadEffect DEF taskvars
  <2> QED BY <1>7, <2>1 DEF AckJob, UsageSteps
<1>13. ASSUME NEW key, SweepJournal(w, key) PROVE \E z \in Tasks : AckJob(w, z)
  <2>1. job'[w].at = "plain" BY <1>1, <1>13, GotoFacts DEF SweepJournal, TTypeOK, Steps
  <2> QED BY <1>7, <2>1 DEF UsageSteps
<1>14. ~ \E y \in Tasks : ReadForFetch(w, y) BY DEF ReadForFetch
<1> QED BY <1>9, <1>10, <1>11, <1>12, <1>13, <1>14 DEF TStep, List

\* Every step keeps AckedIsCharged.
LEMMA AckedPart ==
    ASSUME TSettledInv, [TNext]_tvars, Realtime = {}, Enhanced = {}, Orphans = {}, NEW w \in Workers,
           TStep(w), TCore'
    PROVE  AckedIsCharged'
<1>1. TLedgerInv /\ TCore /\ AckedIsCharged BY DEF TSettledInv, TDirectInv, TLedgerInv
<1>2. posted \subseteq posted' /\ UNCHANGED <<charge, actual>> BY <1>1, Fixed
<1>3. \A t \in Tasks : AckRow(t) BY RowAcked
<1>4. ASSUME NEW v \in Workers PROVE \E t \in Tasks : AckJob(v, t)
  <2>1. CASE v = w BY <2>1, WorkerAcked
  <2>2. CASE v # w
    <3>1. PICK t \in Tasks : t = job[v].task BY <1>1, JobTypes DEF TCore
    <3>2. job'[v] = job[v] /\ pc'[v] = pc[v] /\ cur'[v] = cur[v] BY <1>1, <2>2, OthersAlone
    <3>3. status[t] = "success" => status'[t] = "success" BY <1>1, SuccessStays
    <3>4. AckJob(v, t)
      BY <1>1, <1>2, <3>1, <3>2, <3>3 DEF AckedIsCharged, AckJob, Charged, Recalculated, ChargedAfter, PastApply
    <3> QED BY <3>4
  <2> QED BY <2>1, <2>2
<1>5. \A v \in Workers :
        /\ job'[v].at \in UsageSteps => status'[job'[v].task] = "success"
        /\ job'[v].at = "ack" => Charged(job[v].task)'
        /\ job'[v].at = "reconciling" /\ pc'[v] # "idle" => cur'[v] = Key("recalculate", job'[v].task)
        /\ PastApply(v)' => Recalculated(job[v].task)'
  BY <1>2, <1>4 DEF AckJob, Charged, Recalculated, ChargedAfter, PastApply
<1>6. \A t \in Tasks : /\ usage'[t] # "none" => status'[t] = "success"
                       /\ usage'[t] = "settled" => Charged(t)'
  BY <1>2, <1>3 DEF AckRow, Charged, Recalculated, ChargedAfter
<1> QED BY <1>5, <1>6 DEF AckedIsCharged

\* TSettledInv is inductive.
LEMMA NextTSettled ==
    ASSUME Realtime = {}, Enhanced = {}, Orphans = {} PROVE TSettledInv /\ [TNext]_tvars => TSettledInv'
<1> SUFFICES ASSUME TSettledInv, [TNext]_tvars PROVE TSettledInv' OBVIOUS
<1>1. TDirectInv' /\ TCore' BY NextTDirect DEF TSettledInv, TDirectInv, TLedgerInv
<1>2. ASSUME NEW w \in Workers, TStep(w) PROVE TSettledInv'
  BY <1>1, <1>2, AppliedPart, AckedPart DEF TSettledInv
<1>3. CASE UNCHANGED tvars
  <2>1. AppliedIsPosted'
    BY <1>3 DEF TSettledInv, AppliedIsPosted, Charged, Recalculated, tvars, jvars, taskvars
  <2>2. AckedIsCharged'
    BY <1>3 DEF TSettledInv, AckedIsCharged, Charged, Recalculated, PastApply, tvars, jvars, taskvars
  <2> QED BY <1>1, <2>1, <2>2 DEF TSettledInv
<1> QED BY <1>2, <1>3, OneWorker

\* The initial states satisfy it.
LEMMA InitTSettled ==
    ASSUME Enhanced = {} PROVE TInit => TSettledInv
<1> SUFFICES ASSUME TInit PROVE TSettledInv OBVIOUS
<1>1. TDirectInv BY InitTDirect
<1>2. \A w \in Workers : job[w].at = "idle" BY IdleFacts DEF TInit
<1>3. \A t \in Tasks : status[t] = "none" /\ usage[t] = "none" /\ receipt[t].source # "recalculate"
  BY DEF TInit, JInit, NoReceipt
<1> QED BY <1>1, <1>2, <1>3 DEF TSettledInv, AppliedIsPosted, AckedIsCharged, UsageSteps, PastApply
--------------------------------------------------------------------------------
(* Usage reconciliation *)

\* TSettledInv holds in every reachable state.
THEOREM TSettledCorrect ==
    ASSUME Realtime = {}, Enhanced = {}, Orphans = {} PROVE TSafe => []TSettledInv
BY InitTSettled, NextTSettled, PTL DEF TSafe

\* A direct task whose usage reconciliation is acknowledged holds the measured
\* quota, whichever of several reconcilers and sweeps moved it and whatever
\* failed between measuring, charging and acknowledging.
THEOREM SettledAtMeasuredCorrect ==
    ASSUME Realtime = {}, Enhanced = {}, Orphans = {} PROVE TSafe => []SettledAtMeasured
<1>1. TSettledInv => SettledAtMeasured
  <2> SUFFICES ASSUME TSettledInv, NEW t \in Tasks, usage[t] = "settled"
               PROVE  quota[t] = Measured(t, charge[t])
    BY DEF SettledAtMeasured
  <2>1. status[t] = "success" /\ Charged(t) BY DEF TSettledInv, AckedIsCharged
  <2>2. ~Refunded(t) BY <2>1 DEF TSettledInv, TDirectInv, RefundsFailures
  <2>3. Recalculated(t) => t \notin PerCall BY DEF TSettledInv, TDirectInv, RecalculatesCharge
  <2>4. quota[t] = IF Recalculated(t) THEN actual[t] ELSE charge[t]
    BY <2>2 DEF TSettledInv, TDirectInv, QuotaFollowsPostings
  <2> QED BY <2>1, <2>3, <2>4 DEF Charged, Measured
<1> QED BY <1>1, TSettledCorrect, PTL
================================================================================
