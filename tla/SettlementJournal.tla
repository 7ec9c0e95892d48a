--------------------------- MODULE SettlementJournal ---------------------------
(***************************************************************************)
(* The durable settlement journal (model/task_settlement.go) and the code  *)
(* that drives it (service/billing_recovery.go).                           *)
(*                                                                         *)
(* Every balance adjustment after admission is a journal row: the immutable*)
(* fact is inserted first, one transaction then moves the balances, the    *)
(* task's quota column and "applied" together, the billing log is written  *)
(* to a second database as an outbox step, and the completed row is        *)
(* deleted.  Request handlers, pollers and the billing_recovery sweep run  *)
(* these steps concurrently, on several nodes, and any of them may fail or *)
(* crash between two steps.                                                *)
(*                                                                         *)
(* Abstractions.  The funding balance and the token balance are moved by   *)
(* the same delta in the same transaction; net[t] is the amount that those *)
(* transactions have taken from them so far on behalf of task t.  Usage    *)
(* counters, ownership columns and log text are left out.  Personal        *)
(* (reseller) facts are not modelled.                                      *)
(***************************************************************************)
EXTENDS Integers

CONSTANTS Tasks,      \* billed tasks; each is created by one request
          Enhanced,   \* tasks persisted together with their settlement fact
          Workers,    \* goroutines, on any node, that run journals
          MaxQuota    \* bound on every amount

ASSUME ConstantsAssumption ==
    /\ MaxQuota \in Nat
    /\ Tasks # {}
    /\ Enhanced \subseteq Tasks

Quotas == 0 .. MaxQuota

\* The operation ids: "settle:<request>", "refund:<request>",
\* "task-recalculate:<task>" and "task-refund:<task>".
Kinds == {"settle", "refund", "recalculate", "taskRefund"}

Keys == [task : Tasks, kind : Kinds]

\* A row of task_settlement_journals.  "state" merges the row's existence
\* with its applied column; delta is final - expected.
Rows == [state : {"none", "pending", "applied"}, expected : Quotas,
         final : Quotas, entity : BOOLEAN, confirm : BOOLEAN, logDone : BOOLEAN]

NoRow == [state |-> "none", expected |-> 0, final |-> 0,
          entity |-> FALSE, confirm |-> FALSE, logDone |-> FALSE]

\* TaskInvoiceExpense on the task row; source "none" is a nil quota.
Receipts == [source : Kinds \cup {"none"}, quota : Quotas, applied : BOOLEAN]

NoReceipt == [source |-> "none", quota |-> 0, applied |-> FALSE]

VARIABLES
    reserved,  \* [Tasks -> Quotas] preConsumedQuota of the task's session
    charge,    \* [Tasks -> Quotas] the quota submitted for settlement
    net,       \* [Tasks -> Int] taken from the balances for the task
    quota,     \* [Tasks -> Quotas] tasks.quota
    row,       \* [Keys -> Rows] the journal table
    receipt,   \* [Tasks -> Receipts]
    logged,    \* operations with a row in the log database
    posted,    \* history: operations whose transaction moved the balances
    opened,    \* history: session operations already submitted once
    pc,        \* [Workers -> step the worker is at]
    cur        \* [Workers -> Keys] operation the worker is executing

jvars == <<reserved, charge, net, quota, row, receipt, logged, posted, opened, pc, cur>>

Key(k, t) == [task |-> t, kind |-> k]

\* cur[w] of a worker that executes nothing.
IdleKey == CHOOSE key \in Keys : TRUE
--------------------------------------------------------------------------------
(* The facts that callers persist. *)

Fact(e, f, ent, conf, log) ==
    [state |-> "pending", expected |-> e, final |-> f,
     entity |-> ent, confirm |-> conf, logDone |-> ~log]

\* BillingSession.settle and settleTaskSubmission: delta = actual - reserved.
\* "confirmed" attaches an InvoiceExpenseQuota to a directly inserted task.
SettleFact(t, confirmed) ==
    Fact(reserved[t], charge[t], t \in Enhanced, confirmed /\ t \notin Enhanced, TRUE)

\* Mutant: the amount given back is stored as the final quota.
RefundFact_WrongSign(t) == Fact(reserved[t], 0 - reserved[t], FALSE, FALSE, FALSE)

\* BillingSession.Refund: gives the whole reservation back, writes no log.
RefundFact(t) == Fact(reserved[t], 0, FALSE, FALSE, FALSE)

\* RecalculateTaskQuota for a caller that read quota q and computed a.
RecalculateFact(q, a) == Fact(q, a, TRUE, TRUE, TRUE)

\* Mutant: the amount given back is stored as the final quota.
TaskRefundFact_WrongSign(q) == Fact(q, 0 - q, TRUE, TRUE, TRUE)

\* RefundTaskQuota for a caller that read quota q.
TaskRefundFact(q) == Fact(q, 0, TRUE, TRUE, TRUE)

\* EntityExpectedQuota: a task created with its fact starts at quota 0.
EntityExpected(key, r) == IF key.kind = "settle" THEN 0 ELSE r.expected
--------------------------------------------------------------------------------
(* Expense receipts (model/organization_invoice_task_expense.go). *)

\* Mutant: the receipt is not consulted.
HasReceipt_Ignored(key, r) == FALSE

\* taskInvoiceExpenseReceiptTx: this very operation is already on the task.
HasReceipt(key, r) ==
    /\ r.entity \/ r.confirm
    /\ receipt[key.task].applied
    /\ receipt[key.task].source = key.kind
    /\ receipt[key.task].quota = r.final

\* Mutant: a later confirmation overwrites an earlier one.
ConfirmAllowed_Always(t, q, source) == TRUE

\* confirmTaskInvoiceExpenseTx: only a refund to zero may replace another
\* confirmed expense.
ConfirmAllowed(t, q, source) ==
    \/ receipt[t].source = "none"
    \/ receipt[t].source = source /\ receipt[t].quota = q
    \/ source = "taskRefund" /\ q = 0

Confirmed(t, q, source, applied) ==
    IF receipt[t].source = source /\ receipt[t].quota = q
    THEN receipt[t]
    ELSE [source |-> source, quota |-> q, applied |-> applied]

\* markTaskInvoiceExpenseAppliedTx
MarkReceipt(key, r) ==
    IF r.confirm /\ receipt[key.task].source = key.kind
    THEN [receipt EXCEPT ![key.task].applied = TRUE]
    ELSE receipt

\* ConfirmTaskInvoiceExpense: RefundTaskQuota of a caller that read quota 0 and
\* RecalculateTaskQuota of one that read the actual quota move nothing and
\* persist no row; one transaction records the expense as applied.
ConfirmExpense(key, q) ==
    /\ ConfirmAllowed(key.task, q, key.kind)
    /\ receipt' = [receipt EXCEPT ![key.task] = Confirmed(key.task, q, key.kind, TRUE)]
    /\ UNCHANGED <<reserved, charge, net, quota, row, logged, posted>>
--------------------------------------------------------------------------------
(* ensureTaskSettlementJournalTx, in one transaction. *)

Stored(key, fact) == IF row[key].state = "none" THEN fact ELSE row[key]

\* Every monetary column of the persisted fact equals the new one.
SameFact(r, fact) ==
    /\ r.expected = fact.expected
    /\ r.final = fact.final
    /\ r.entity = fact.entity
    /\ r.confirm = fact.confirm

EnsureOk(key, fact) ==
    LET r == Stored(key, fact)
    IN  /\ SameFact(r, fact)
        /\ r.confirm => ConfirmAllowed(key.task, r.final, key.kind)

\* The row after the transaction: a surviving receipt marks it applied.
EnsuredRow(key, fact) ==
    LET r == Stored(key, fact)
    IN  IF r.state = "pending" /\ HasReceipt(key, r)
        THEN [r EXCEPT !.state = "applied"] ELSE r

AfterApplied(r) == IF r.logDone THEN "delete" ELSE "log"

\* EnsureTaskSettlementJournal commits and the caller goes on to apply it.  The
\* validation before it refuses no fact of these callers: their amounts are
\* natural and the delta is computed from them.
Ensure(w, key, fact) ==
    /\ pc[w] = "idle"
    /\ EnsureOk(key, fact)
    /\ LET r == EnsuredRow(key, fact)
       IN  /\ row' = [row EXCEPT ![key] = r]
           /\ receipt' = IF r.confirm
                         THEN [receipt EXCEPT ![key.task] =
                                  Confirmed(key.task, r.final, key.kind, r.state = "applied")]
                         ELSE receipt
           /\ pc' = [pc EXCEPT ![w] = IF r.state = "applied" THEN AfterApplied(r) ELSE "apply"]
    /\ cur' = [cur EXCEPT ![w] = key]
    /\ UNCHANGED <<reserved, charge, net, quota, logged, posted>>

\* ErrTaskSettlementJournalConflict, or the database refuses: nothing is
\* written and the caller gets an error.
EnsureFails(w, key, fact) ==
    /\ pc[w] = "idle"
    /\ pc' = [pc EXCEPT ![w] = "err"]
    /\ cur' = [cur EXCEPT ![w] = key]
    /\ UNCHANGED <<reserved, charge, net, quota, row, receipt, logged, posted>>
--------------------------------------------------------------------------------
(* ApplyTaskSettlementJournal *)

\* Mutant: the balances move although the task's quota is already final.
AtTarget_Never(key) == FALSE

\* taskSettlementEntityAtTarget
AtTarget(key) == row[key].entity /\ quota[key.task] = row[key].final

EntityConflict(key) ==
    /\ row[key].entity
    /\ quota[key.task] # row[key].final
    /\ quota[key.task] # EntityExpected(key, row[key])

\* The money transaction: balances, tasks.quota, applied and the receipt.
ApplyNow(w) ==
    LET key == cur[w]
        r   == row[key]
    IN  /\ pc[w] = "apply"
        /\ r.state = "pending"
        /\ ~EntityConflict(key)
        /\ row' = [row EXCEPT ![key].state = "applied"]
        /\ receipt' = MarkReceipt(key, r)
        /\ IF AtTarget(key)
           THEN UNCHANGED <<net, quota, posted>>
           ELSE /\ net' = [net EXCEPT ![key.task] = @ + r.final - r.expected]
                /\ quota' = IF r.entity
                            THEN [quota EXCEPT ![key.task] = r.final] ELSE quota
                /\ posted' = posted \cup {key}
        /\ pc' = [pc EXCEPT ![w] = AfterApplied(r)]
        /\ UNCHANGED <<reserved, charge, logged, opened, cur>>

\* Another worker applied the row first: the retry changes nothing.
ApplyAgain(w) ==
    /\ pc[w] = "apply"
    /\ row[cur[w]].state = "applied"
    /\ pc' = [pc EXCEPT ![w] = AfterApplied(row[cur[w]])]
    /\ UNCHANGED <<reserved, charge, net, quota, row, receipt, logged, posted, opened, cur>>

\* The row is gone (another worker completed and deleted it), or the task's
\* quota is neither the expected nor the final one.
ApplyRefused(w) ==
    /\ pc[w] = "apply"
    /\ \/ row[cur[w]].state = "none"
       \/ row[cur[w]].state = "pending" /\ EntityConflict(cur[w])
    /\ pc' = [pc EXCEPT ![w] = "err"]
    /\ UNCHANGED <<reserved, charge, net, quota, row, receipt, logged, posted, opened, cur>>
--------------------------------------------------------------------------------
(* completeTaskSettlementJournalLog and DeleteTaskSettlementJournal *)

\* RecordTaskBillingLog: the log database keeps one row per operation id.
WriteLog(w) ==
    /\ pc[w] = "log"
    /\ logged' = logged \cup {cur[w]}
    /\ pc' = [pc EXCEPT ![w] = "mark"]
    /\ UNCHANGED <<reserved, charge, net, quota, row, receipt, posted, opened, cur>>

\* MarkTaskSettlementLogDone: updates the row only if it is there and applied.
MarkLogDone(w) ==
    /\ pc[w] = "mark"
    /\ row' = IF row[cur[w]].state = "applied"
              THEN [row EXCEPT ![cur[w]].logDone = TRUE] ELSE row
    /\ pc' = [pc EXCEPT ![w] = "delete"]
    /\ UNCHANGED <<reserved, charge, net, quota, receipt, logged, posted, opened, cur>>

DeleteRow(w) ==
    /\ pc[w] = "delete"
    /\ row' = IF row[cur[w]].state = "applied" /\ row[cur[w]].logDone
              THEN [row EXCEPT ![cur[w]] = NoRow] ELSE row
    /\ pc' = [pc EXCEPT ![w] = "ok"]
    /\ UNCHANGED <<reserved, charge, net, quota, receipt, logged, posted, opened, cur>>

\* Mutant: a failed log write is only logged, as a failed delete is.
StepFails_LogSwallowed(w) ==
    /\ pc[w] \in {"apply", "log", "mark", "delete"}
    /\ pc' = [pc EXCEPT ![w] = CASE pc[w] = "log" -> "mark"
                                 [] pc[w] = "delete" -> "ok"
                                 [] OTHER -> "err"]
    /\ UNCHANGED <<reserved, charge, net, quota, row, receipt, logged, posted, opened, cur>>

\* A database error: the caller gets an error, except that a failed delete is
\* only logged.
StepFails(w) ==
    /\ pc[w] \in {"apply", "log", "mark", "delete"}
    /\ pc' = [pc EXCEPT ![w] = IF pc[w] = "delete" THEN "ok" ELSE "err"]
    /\ UNCHANGED <<reserved, charge, net, quota, row, receipt, logged, posted, opened, cur>>

\* The process dies; what it committed stays.
Crash(w) ==
    /\ pc[w] # "idle"
    /\ pc' = [pc EXCEPT ![w] = "idle"]
    /\ cur' = [cur EXCEPT ![w] = IdleKey]
    /\ UNCHANGED <<reserved, charge, net, quota, row, receipt, logged, posted, opened>>
--------------------------------------------------------------------------------
(* The billing_recovery sweep *)

\* Mutant: the listing drops one of its two conditions.
Pending_UnloggedOnly(key) == row[key].state = "applied" /\ ~row[key].logDone

\* ListPendingTaskSettlementJournals, without its limit of the 100 oldest rows.
Pending(key) ==
    \/ row[key].state = "pending"
    \/ row[key].state = "applied" /\ ~row[key].logDone

\* SweepPendingTaskSettlements takes a listed row; by the time it applies it,
\* the row may have been completed by someone else.
SweepPick(w, key) ==
    /\ pc[w] = "idle"
    /\ Pending(key)
    /\ pc' = [pc EXCEPT ![w] = "apply"]
    /\ cur' = [cur EXCEPT ![w] = key]
    /\ UNCHANGED <<reserved, charge, net, quota, row, receipt, logged, posted, opened>>

\* The steps every executor of a journal takes.
JournalStep(w) ==
    \/ ApplyNow(w) \/ ApplyAgain(w) \/ ApplyRefused(w)
    \/ WriteLog(w) \/ MarkLogDone(w) \/ DeleteRow(w)
--------------------------------------------------------------------------------
(* The journal on its own: sessions submit each of their operations at most *)
(* once; task operations are submitted any number of times, with whatever   *)
(* quota their caller read, however stale.                                  *)

InitialQuota(t) == IF t \in Enhanced THEN 0 ELSE charge[t]

JInit ==
    /\ reserved \in [Tasks -> Quotas]
    /\ charge \in [Tasks -> Quotas]
    /\ net = reserved
    /\ quota = [t \in Tasks |-> InitialQuota(t)]
    /\ row = [key \in Keys |-> NoRow]
    /\ receipt = [t \in Tasks |-> NoReceipt]
    /\ logged = {}
    /\ posted = {}
    /\ opened = {}
    /\ pc = [w \in Workers |-> "idle"]
    /\ cur = [w \in Workers |-> IdleKey]

\* The caller of a journal operation returns.
Return(w) ==
    /\ pc[w] \in {"ok", "err"}
    /\ pc' = [pc EXCEPT ![w] = "idle"]
    /\ cur' = [cur EXCEPT ![w] = IdleKey]
    /\ UNCHANGED <<reserved, charge, net, quota, row, receipt, logged, posted, opened>>

\* A session submits its settlement or its refund (BillingSession.settle,
\* settleTaskSubmission, Refund); it keeps no second chance.
SessionSubmit(w, key, fact) ==
    /\ key \notin opened
    /\ opened' = opened \cup {key}
    /\ Ensure(w, key, fact) \/ EnsureFails(w, key, fact)

TaskSubmit(w, key, fact) ==
    /\ Ensure(w, key, fact) \/ (EnsureFails(w, key, fact) /\ ~EnsureOk(key, fact))
    /\ UNCHANGED opened

Submit(w) ==
    \E t \in Tasks :
        \/ \E c \in BOOLEAN : SessionSubmit(w, Key("settle", t), SettleFact(t, c))
        \/ SessionSubmit(w, Key("refund", t), RefundFact(t))
        \/ \E q, a \in Quotas :
              q # a /\ TaskSubmit(w, Key("recalculate", t), RecalculateFact(q, a))
        \/ \E q \in Quotas \ {0} :
              TaskSubmit(w, Key("taskRefund", t), TaskRefundFact(q))

\* RefundTaskQuota and RecalculateTaskQuota with nothing to move.
ConfirmOnly ==
    /\ \E t \in Tasks :
          \/ ConfirmExpense(Key("taskRefund", t), 0)
          \/ \E q \in Quotas : ConfirmExpense(Key("recalculate", t), q)
    /\ UNCHANGED <<opened, pc, cur>>

JNext ==
    \/ ConfirmOnly
    \/ \E w \in Workers :
          \/ Submit(w)
          \/ JournalStep(w) \/ StepFails(w) \/ Crash(w) \/ Return(w)
          \/ \E key \in Keys : SweepPick(w, key)

JSpec == JInit /\ [][JNext]_jvars
--------------------------------------------------------------------------------
(* Properties *)

\* What the balances hold beyond tasks.quota: the part of the reservation
\* that the submission's settlement has not yet turned into quota, minus the
\* reservation once it has been refunded.
Outstanding(t) ==
    (IF Key("settle", t) \in posted THEN 0 ELSE reserved[t] - InitialQuota(t))
      - (IF Key("refund", t) \in posted THEN reserved[t] ELSE 0)

PCs == {"idle", "apply", "log", "mark", "delete", "ok", "err"}

\* Every variable has its type: amounts stay in bounds, rows are well formed.
JTypeOK ==
    /\ reserved \in [Tasks -> Quotas]
    /\ charge \in [Tasks -> Quotas]
    /\ net \in [Tasks -> Int]
    /\ quota \in [Tasks -> Quotas]
    /\ row \in [Keys -> Rows]
    /\ receipt \in [Tasks -> Receipts]
    /\ logged \subseteq Keys
    /\ posted \subseteq Keys
    /\ opened \subseteq Keys
    /\ pc \in [Workers -> PCs]
    /\ cur \in [Workers -> Keys]

\* ApplyTaskSettlementJournal never moves money without moving tasks.quota by
\* the same amount, and a session's settlement and refund move it once each:
\* whatever stale facts are replayed, by however many workers, after whatever
\* crashes, the balances and the quota columns reconcile.
Reconciled == \A t \in Tasks : net[t] = quota[t] + Outstanding(t)

\* The journal implements the ledger: every step of every worker, after any
\* failure, crash or replay of a stale fact, either leaves balances and quota
\* alone or is one whole ledger operation that never happened before, although
\* its row is deleted on completion and may be submitted again.
Ledger == INSTANCE BillingLedger
ImplementsLedger == Ledger!LSpec

\* The outbox loses no log: an operation that moved the balances has its log
\* entry, or a row from which recovery will still write it.
LogNotLost ==
    \A key \in posted :
        key.kind # "refund" => key \in logged \/ Pending(key)
--------------------------------------------------------------------------------
(* The inductive invariant that the proofs rest on. *)

SessionKinds == {"settle", "refund"}

\* Rows are immutable facts: what a row says follows from its operation.
RowFacts ==
    \A key \in Keys : row[key].state # "none" =>
        /\ key.kind = "settle" =>
              /\ row[key].expected = reserved[key.task]
              /\ row[key].final = charge[key.task]
              /\ row[key].entity <=> key.task \in Enhanced
        /\ key.kind = "refund" =>
              /\ row[key].expected = reserved[key.task]
              /\ row[key].final = 0
              /\ ~row[key].entity
        /\ key.kind \notin SessionKinds => row[key].entity /\ row[key].confirm
        /\ key.kind = "taskRefund" => row[key].final = 0

\* A session operation is submitted once, so its row never comes back.
SessionOnce ==
    \A key \in Keys : key.kind \in SessionKinds /\ key \notin opened =>
        row[key].state = "none" /\ key \notin posted

\* A row that is still to be applied has not moved anything yet.
PendingNotPosted ==
    \A key \in Keys : row[key].state = "pending" => key \notin posted

\* What stops a replay of a task operation: the receipt on the task names it,
\* or names the task's refund, which nothing overwrites.
ReceiptGuards ==
    /\ \A t \in Tasks : receipt[t].source = "taskRefund" => receipt[t].quota = 0
    /\ \A key \in Keys : key.kind \notin SessionKinds =>
          /\ row[key].state = "pending" =>
                \/ receipt[key.task].source = key.kind
                \/ receipt[key.task].source = "taskRefund"
          /\ key \in posted =>
                \/ receipt[key.task].source = key.kind /\ receipt[key.task].applied
                \/ receipt[key.task].source = "taskRefund" /\ key.kind # "taskRefund"

\* log_done is set only after the log was written.
LogBeforeDone ==
    /\ \A key \in Keys : row[key].state # "none" /\ row[key].logDone =>
          key.kind = "refund" \/ key \in logged
    /\ \A w \in Workers : pc[w] = "mark" => cur[w] \in logged

\* What holds of the journal whoever else writes tasks.quota ...
JCore ==
    /\ JTypeOK /\ RowFacts /\ SessionOnce /\ PendingNotPosted
    /\ ReceiptGuards /\ LogBeforeDone /\ LogNotLost

\* ... and what holds when the journal is its only writer.
JInv == JCore /\ Reconciled
================================================================================
