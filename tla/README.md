# Verification of token-gateway

token-gateway relays requests to AI providers and charges for them. This
project models the parts in which an order of events nobody tested can do harm:

* how the money of an asynchronous task (video, music, images) moves from
  admission to the final bill, across nodes, two databases, crashes and retries;
* how concurrent requests of one user share wallet, subscription and token, and
  how each of them ends up charged or refunded;
* how nodes share background work through leases;
* how the tabs of a browser share a login session whose refresh token rotates;
* how the chat playground keeps answers apart while requests, timers and renders
  race;
* how the price editor takes a stored price apart and puts it together again.

## 1. Inventory

| Component | State | Operations | Talks to |
|---|---|---|---|
| Request billing session (`service/billing_session.go`, `relay/request_billing.go`, `service/quota.go`, `service/violation_fee.go`) | funding source, pre-consumed quota, trust, settled / refunded flags, in memory | preConsume with fallback, Reserve, settle, settleTaskSubmission, Refund, fee, realtime turn | journal, balances |
| Settlement journal (`model/task_settlement.go`, `service/billing_recovery.go`) | `task_settlement_journals`, balances, `tasks.quota` | ensure, apply, log, mark, delete, sweep | log database, receipts |
| Invoice expense receipts (`model/organization_invoice_task_expense.go`) | `invoice_expense_*` columns of the task | confirm, find receipt, mark applied | journal |
| Task submission (`controller/relay.go`, `relay/relay_task.go`) | the task row, `durable` flag | insert, settle, deferred refund | session, journal |
| Task polling (`service/task_polling.go`, `model/task.go`) | status, progress, poll failures | poll, fail, time out, bulk fail | upstream, journal |
| Cancellation (`middleware/task_plugin_lifecycle.go`) | status | cancel after upstream agreed | journal |
| Realtime fetch (`relay/relay_task.go`) | the whole row | write upstream's answer | upstream |
| Usage reconciliation (`*/task_usage_reconciliation.go`) | `usage_pending`, facts, reserved quota | stage, measure, settle, acknowledge | upstream, journal |
| System task leases (`model/system_task.go`, `service/system_task*.go`) | rows, the lock row of a type with its lease, heartbeats | schedule, claim, renew, expire, finish | every scheduled pass |
| Login sessions (`service/auth_session.go`, `model/user_session.go`) | session row with current and previous refresh hash, user's auth version | login, rotate, detect reuse, log out, advance after a security change | browser |
| Browser session client (`web/src/lib/auth-session*.ts`, `http-client.ts`, `stores/auth-store.ts`) | session in memory, epoch, refresh in flight, Web Lock, shared cookie | refresh, retry, publish and receive session events, reload | server, other tabs |
| Playground chat (`web/src/features/playground`) | conversation, queued updaters, pending chunks, timers, stored copy | send, stream, flush, stop, edit, regenerate, delete, reload | relay, localStorage |
| Price expressions and editor (`web/src/features/pricing/lib`, `system-settings/models`) | stored expression, base, rules, cards, text | open, edit as text, edit as cards, switch mode, save | server options |
| Balances (`model/billing_balance.go`, `model/wallet_balance.go`, `model/subscription.go`) | wallet, token, subscription use | conditional debit, adjust within range, clamp, period reset | session, journal |
| Quota reservation cache (`model/quota_reserve.go`) | Redis mirror | reserve, compensate | balances |
| Midjourney, personal pricing, delivery reservation, top-ups, invoices | see `PROJECT.json` | | journal |

What is hard here:

* **Interleaving.** A poller, the timeout sweep, a cancellation, a client's
  fetch, the reconciler and the recovery sweep all hold copies of one row, on
  different nodes. The status is guarded by a compare-and-swap; the quota by
  the journal's expected value; the acknowledgement by a row lock.
* **Crash and partial failure.** The fact, the money, the log (in another
  database), the mark and the deletion are five separate commits.
* **Replay.** The completed row is deleted, so an operation may be submitted
  again; only the receipt on the task remembers it.
* **Liveness.** Every bill must be settled, every background task must end and
  every refresh must give the Web Lock back, although each step may fail.
* **Answers that come too late.** A refresh answered after a sign-out, a chunk of
  a stopped request, a heartbeat after the lease has lapsed, an edit saved from an
  old render: each has a guard (epoch, generation, condition of an update), and
  the question is whether the guards are enough together.
* **Conversions back and forth.** A price goes from text to base and rules, to
  cards and back to text at every save; what is misread is charged.

What correct means, component by component: the journal moves balances and
quota together, each operation at most once, and never loses a log; the task
life cycle decides each task once, refunds a failure once and for good, charges
a success what was measured, and settles every task some day. A synchronous
request is charged what its log shows or gets everything back, on the source that
was debited, and admission overdraws no balance. A background task
is executed once and its outcome is final. Honest tabs are never taken for a
thief's, never log each other out, and never show a session after signing out of
it. An answer on screen is its own request's. A price nobody edited charges what
it charged, and an edited one what the screen says.

## 2. Modules

| Module | Models |
|---|---|
| `BillingLedger` | The abstract promise: a reservation, then whole operations (settle, refund, requote), each at most once. |
| `SettlementJournal` | The journal, the receipts and the workers that execute rows. Detailed specification of the ledger. |
| `TaskBilling` | Extends the journal with the life of a task: submission, polling, timeout, cancellation, fetch, reconciliation, sweeps. |
| `RequestCharge` | The abstract promise to the user of a request: amounts are held, then it is settled or returned, never both. |
| `RequestBilling` | Extends the journal with synchronous requests and the three balances they share. Detailed specification of `RequestCharge`. |
| `SystemTaskLease` | Rows, lock row, runner loops and handlers of one background task type. |
| `BrowserSession` | The abstract promise about login sessions: opened once, revoked at most once, never shown again after sign-out. |
| `AuthSession` | Tabs, cookie, Web Lock, session events and the server's sessions. Detailed specification of `BrowserSession`. |
| `PlaygroundChat` | Requests, chunks, timers, React's queue, the user and the stored copy. |
| `PriceExpression` | Operators: split, combine, read and write rules; what a text charges. |
| `PriceEditor` | The sheet and its two editors, on top of `PriceExpression`. |
| `MC*` | Symmetry, inputs and views for TLC. |
| `SystemTaskLease_proofs` | Theorems about `SystemTaskLease`. |
| `SettlementJournal_proofs` | Theorems about `SettlementJournal`, and what each step of a worker preserves, used again by the next three. |
| `TaskBilling_proofs` | Theorems about `TaskBilling`: of tasks of every kind, and of those that are not fetched in realtime. |
| `TaskRefund_proofs` | Those about direct tasks among the latter. |
| `RequestBilling_proofs` | Theorems about `RequestBilling`, and that it implements `RequestCharge`. |
| `AuthSession_proofs` | Types of `AuthSession`, and that it implements `BrowserSession`. |
| `AuthLock_proofs` | What the Web Lock is worth: the cookie, reuse detection, forced sign-outs. |
| `PlaygroundChat_proofs` | Theorems about `PlaygroundChat`, with the lemmas on running a queue of updaters. |

### SettlementJournal

`row[key]` is the journal table, keyed by operation id (`settle:<request>`,
`refund:<request>`, `task-recalculate:<task>`, `task-refund:<task>`): existence
and the applied column are merged into `state`. `net[t]` is what the money
transactions have taken for task `t` from the funding source and the token,
which the code moves by the same delta in one transaction. `receipt[t]` is the
expense receipt on the task row; `logged` is the log database. `posted` and
`opened` are history variables. A worker (a goroutine on any node) is at a step
`pc[w]` of `applyPersistedTaskSettlementJournal`:

    Ensure -> ApplyNow | ApplyAgain | ApplyRefused -> WriteLog -> MarkLogDone -> DeleteRow

Each step is one transaction of the code. Between two steps the worker may
fail (`StepFails`), die (`Crash`) or be overtaken. On its own (`JSpec`) the
module lets callers submit any recalculation or refund with any quota, stale
or not, any number of times; that is more than the program does, so what holds
of `JSpec` holds whatever the callers become.

### TaskBilling

`job[w]` is what a handler holds in memory between its steps: its next step and
the status, quota, usage state and reserved quota it read. Every writer of the
row goes through `Swap`, which is `UpdateWithStatus`: it compares the status
and writes the **whole** row back, quota included, except that an enhanced
task keeps the row's own quota (`updateSeedanceEnhanceTaskStatus`).
`BulkFail` is the one writer that does not compare.

Tasks differ by constant sets: `Enhanced` (created with quota 0 together with
the settlement fact), `PerCall`, `TokenPriced` (neither tiered nor per-call),
`Overreports` (upstream says 100 % while running), `Orphans` (channel deleted),
`Cancellable`, `Realtime` (Gemini and Vertex). The rest of `Tasks` are tiered
tasks of plugin channels.

Abstractions: NOT_START, SUBMITTED and QUEUED are one status; the poll failure
counter is a choice; a price is one value `actual[t]`; the retry loop before
persistence is the choice between `PersistTask` and `PersistFails`; with
consumption logging switched off `RecordTaskBillingLog` writes nothing, and
`logged` then means "the outbox step was done".

### RequestBilling

A request is a task of the journal whose row has no entity; its goroutine is the
worker of the same name, and the other workers are recovery sweeps. A violation
fee is a task of its own, owned by its request. `at[r]` is where the request's
goroutine is:

    first -> second -> open -> settling -> done
                       open -> failing -> refunding -> fee -> charging -> done

`Admit` is one attempt of `NewBillingSession` (`first` and `second` are the two
sources of the user's preference), `Reserve` the increase of the reservation before
a retry (organization discount, tiered price, images), `Settle`, `Refund` and
`ChargeFee` write a journal row and hand over to the journal's own steps. `Post` is
the journal's money transaction with its effect on wallet, subscription and token;
it can be refused by a balance, which is then a `StepFails`. `net[t]` is what
the transactions have taken for `t` from its source and `tokenNet[t]` what they have
taken from the token; `direct` and `tokenDirect` are the same for realtime turns,
which bypass the journal. `charge[t]` is what the handler computes and the consume
log shows. `rowSource[key]` is the source that a journal row names, fixed when the row
is inserted: the session may be gone when the sweep applies it. An insert that the
database refuses is only logged by the code and not tried again; `unwritten` remembers
such operations. `taken[t][s]` books every movement for `t` on the source `s` it was
really made on, turns included.

Abstractions: a check of a cached balance (trust bypass, `validateWalletQuota`, the
check before a realtime turn) may come out either way, so what is proved rests on the
database's conditions alone; one subscription with a total stands for the one a
request is fixed to; the token is not deleted meanwhile; the turns of a realtime
request sum to at most its charge; batched balance updates (off by default) and
personal pricing are left out.

### SystemTaskLease

One task type: types share nothing. Every database statement of the claim pass,
of the cleanup and of the handlers is an action; `loop[r]` is what runner `r` has
read so far and `handlers` the goroutines it has started. A lease is live or has
lapsed; `Lapse` is the passing of its 60 seconds. Because each statement computes
its clock beforehand, a delayed one may still take a lapsed lease for live
(`SeesHeld`), and a cleanup deletes a lock only if its own clock is past that
lease (`late`). `LoopError` includes errors after which the statement has in fact
been committed. `calm`, chosen initially, marks the behaviours in which no claim
outlasts a lease taken within it, no error hides a commit and no row from before
`active_key` is pending: liveness is claimed of these.

### AuthSession

A refresh secret is its generation (the successor is derived, so there is one).
A request carries the cookie of the moment it is sent and its answer rewrites the
cookie when it arrives (`Jar`); a request that is sent again because of that answer
carries the cookie just rewritten. `tab[t].run` is the page's single refresh, waiting for the
Web Lock, sent or answered; `tab[t].op` the user's operation; `orphans` are
requests whose page is gone but which the server may still serve. The epoch of
`auth-session.ts` is the flag `run.current`. A security change is served in two
steps, as in the code (`BumpAuthVersion`, `AdvanceSession`). `Abstract` maps this
state to `BrowserSession`: the session each tab shows, the sessions opened and
revoked, and those each tab has signed out of.

### PlaygroundChat

A text is a sequence of letters, each named by its request and its place in that
request's answer, so that a letter of another request, a hole, a repetition and a
reordering are all visible. `Word` says which letter stands at each place and the
code compares nothing else: `Begins` is its `startsWith`, by which a chunk that
begins with the pending text replaces it (`mergePendingStreamChunk`) and one that
begins with the text on screen adds only its rest (`getAppendableChunk`). `Ends`
says where the chunks of an answer end, and `Cumulative` whose chunks repeat all
that went before. `queue` holds updaters React
has not run; an updater met by an empty queue may run at once (eager state).
`said` is what the upstream has said, `clobbered` marks that a saved edit
replaced updates that were not rendered yet. A write to localStorage may be refused,
which is only logged. A page load may drop the oldest messages, the beginning of a
text (`collapseRepeatedSectionSnapshots`) and its end (`truncateText`); the sizes at
which it does so are left open, and `cut` marks a message that was shortened.

### PriceExpression and PriceEditor

A text is the sequence of its top-level tokens; a pair of parentheses is one
token holding a text. `Charge(x)` is the price in every circumstance (time,
parameter, request length): the reference against which splitting, combining,
reading and writing are judged. One time function in one zone and one request
parameter stand for all; a header condition is written as one atom like a
parameter's; a request has two images. The editor and its sheet set base price
and rules in the same handlers, so one copy stands for both. The operators are
recursive, so this part is for TLC alone. The reader accepts `&&` and `||` between the
two bounds of a range whatever their order, as the code does, so a card may explain a
range otherwise than its text charges; `Misjoined` recognizes such texts.

## 3. Runs

Amounts are 0..1, and 0..2 in `task_realtime`, where a stale quota may differ from
both the expected and the final one; elsewhere the larger amounts are left to the
proofs, which hold for every bound. One task is enough for safety because no operation touches two tasks. Two
workers are enough for the races between a reader and a writer; a third
interference comes from the sweep by reusing a worker after a crash or a
return. `MaxFaults` bounds database errors and crashes together; one fault
already separates any two commits, two allow a failed recovery of a failure.
The task runs allow termination (`CHECK_DEADLOCK FALSE`): once every bill is
settled nothing remains to be done; and so do the console runs, where the user's
operations are bounded.

Two requests with opposite preferences, a wallet of 1, a token of 2 and a
subscription of 1, with amounts 0..1, let either be refused at its first source, at
its second or by the token while the other holds the rest. The first is an image
request, which may not incur debt, and may end in a fee; the second is a realtime
request charged turn by turn. `RecoveryLast` is the bound of that run: only the first
request dies, its fee comes after the end of the second, and the sweep begins when
both have ended; a sweep beside a running submission is the subject of
`journal_direct`. The proofs do without the bound, and cover playground requests and
unlimited tokens as well. A request may stop for good,
by dying too, hence `CHECK_DEADLOCK FALSE`.

Two tabs, two sessions, two refreshes, two operations and one fault let a tab be
overtaken by the other at every await, with an answer lost or a page reloaded in
between. Two runners, two rows and two faults let a lapsed lease be taken over
while its old holder goes on and another node dies. The playground has three
generations (a request, a stop or reload, another request), up to three letters in
two chunks each and four messages. Its first answer stutters ("1", then "12"), its
second repeats a letter without stuttering ("12", then "1"), its third is cumulative
("1", then "11"). The price run has eleven texts, one of them a range within the day
in the legacy form with `||`, all kinds of conditions a card can show, with equal and
reversed bounds, over a
day of four hours, two cards of two conditions, and three edits: enough to read a
text, change two cards and save. Its `VIEW` drops what the hidden editor holds,
which is recomputed when its mode is entered; the constraint of `playground`
stops at states that a saved edit has clobbered.

| Run | Instance | Shows |
|---|---|---|
| `journal_direct` | direct task, 2 workers, amounts 0..1 | `Reconciled`, `LogNotLost`, `ImplementsLedger` under unlimited failures and replays |
| `task_safety` | tiered task, cancellable, 2 faults, fair passes | one outcome, final refund, final charge, no over-refund, ledger steps only; every task settles, every fact is applied |
| `task_hard` | enhanced, token-priced, overreporting, orphaned, cancellable | balances and quota reconcile even where the outcome is decided twice |
| `task_realtime` | realtime-fetched per-call task | stale writers notwithstanding, every operation moves the balances at most once |
| `requests` | 2 requests (images, realtime) with opposite preferences, a fee, a sweep | no admission overdraws, both balances move together and on the one source that was debited, only a death or a refused insert strands a reservation, each request is charged or returned; the subscription's counter through period resets |
| `lease` | 2 runners, 2 rows (one possibly from before `active_key`), 2 faults | a task is executed once, its outcome is final, every task ends |
| `auth_safety` | 2 tabs, 2 sessions, Web Locks, 1 fault | the cookie stays repairable, honest tabs are not taken for a thief's and not forced out; `AuthSession` implements `BrowserSession` |
| `auth_liveness` | the same, smaller | every refresh settles and frees the Web Lock |
| `playground` | 3 generations, 3 letters in 2 chunks, 4 messages | an answer shows its own text in order, all of it when done unless the stream stutters; no answer spins once the page is idle |
| `price_rules` | 11 texts, 8 conditions, 3 edits | unedited prices keep their meaning, saved ones charge what is shown, cards can be read back |

Runs that exhibit a disagreement between the code and its own documents (each
is a finding in `PROJECT.json`):

| Run | Behaviour |
|---|---|
| `v_enhanced_refund` | Settlement of an enhanced submission committed, a later step errors, and the deferred refund gives the reservation back as well. |
| `v_price` | A rule beside a sum, or beside tiers priced per image, is combined with the whole of it: opening and saving changes the price. |

### Further disagreements

These follow from the same modules and are kept as properties without a run; the
constants to set (in the run named) and the property to check reproduce each.

| Property | Set | Behaviour, and what the repository says |
|---|---|---|
| `FailedRefunded` | `task_safety`, `Enhanced = {t1}` | An enhanced task fails before its settlement is applied. The refund of zero leaves a receipt and the later real refund is taken for a replay (`service/task_billing.go:208`). |
| `ChargedFailureKept` | `task_safety`, `TokenPriced = {t1}`, as an INVARIANT | A failed task is charged for its usage, then refunded by the recovery sweep (`service/task_polling.go:679`, `model/task_settlement.go:452`). |
| `EveryTaskSettles` | `task_safety`, `Overreports = {t1}` | A running task at progress 100 % is in no listing and never ends, although "the 24h sweep remains the only backstop" (`service/task_polling.go:802`). |
| `RefundIsFinal` | `task_safety`, `Realtime = {t1}` | A fetch that read the row before the refund writes its old quota, or another status, back (`service/task_billing.go:207`). |
| `EveryTaskSettles` | `task_safety`, `Realtime = {t1}` | A fetch that sees SUCCESS first leaves the task without usage reconciliation. |
| `TerminalIsFinal` | `task_safety`, `Orphans = {t1}` | The bulk failure of a deleted channel's tasks overwrites a terminal status, which the comment on `TaskBulkUpdateByID` (`model/task.go:587`) warns of. |
| `LogShowsCharge` | `requests` | Each turn of a realtime connection is debited at once, outside the journal (`PreWssConsumeQuota`, `service/quota.go:156`), and again with the sum that is settled at the end; the log shows the sum once. "applyTaskSettlementJournal is the only balance-adjustment path used by request handling and recovery" (`service/billing_recovery.go:14`); `service/reseller_realtime.go:19` knows of the direct writes and avoids them for personal requests. |
| `TasksEnd` | `lease`, `MaxTasks = 1`, `Legacy = {}`, `MaxFaults = 1` | A claim whose update committed but reported an error, or that stalled past its lease, leaves a running row without a lock row. Expired leases are found through lock rows only, so the row is never failed and its `active_key` blocks the type (`service/system_task.go:18`: "mark expired leases failed"). |
| `LogoutRevokes` | `auth_safety` | Logout with an expired token and an outdated cookie answers success and revokes nothing (`docs/authentication.md:61`). |
| `SecurityChangeKeepsSession` | `auth_safety` | Between the advance of the user's version and that of the session, another tab's refresh revokes the session that "preserves only the current browser session" (`service/auth_session.go:178`) was to keep. |
| `UneditedKept` | `price_rules`, `Texts <- Prefixed` | A text with the prefix `v1:` and a rule becomes `(v1:...) * rule`, which no longer compiles; saving is refused. |
| `CardsAsExplained` | `price_rules`, `Conditions <- Reversed`, as an INVARIANT | Two conditions ">= 3" and "< 1" on one card never hold together, yet are read back as a range across midnight; the card then says "start > end: across midnight" and the text charges never. |
| `CardsAsExplained` | `price_rules`, `Texts <- OnlyLegacy`, as an INVARIANT | A stored rule `hour >= 1 \|\| hour < 2` is read as a range within the day (`billing-expr.ts:391`), while "the \|\| form is a tautology that applies the multiplier 24/7" (`time-rule-expr.test.ts:65`). Reading legacy ranges is intended (`time-rule-expr.test.ts:133`, for one across midnight); editing any card writes the range as it is shown. |
| `ReservationNamed` | `requests`, as an INVARIANT | The insert of the settlement's or the refund's row fails. The error is logged, no row remains for recovery, and the reservation stays taken; the comments say that on failure the journal is kept and recovery is triggered, with no crash window between steps (`service/billing_session.go:46`: "失败时 journal 保留并立即触发既有 SystemTask 恢复，不存在分步崩溃窗口"), and that recovery replays the refund until it succeeds (`service/billing_session.go:153`). |

`NothingDropped` of `PlaygroundChat` (run `playground`, as a PROPERTY) fails too, though
no document speaks of it: a delta that begins with the text pending or on screen is
taken for a cumulative chunk, so the deltas "1" and "12" are shown as "12"
(`use-chat-handler.ts:60`, `message-streaming-utils.ts:74`). That is why
`ShowsOwnText` and `WholeWhenDone` promise a text without holes of exact streams only:
the cumulative ones and those in which no chunk begins with a run of chunks just
before it (`Exact`). And text that is queued when [DONE] arrives may still be lost to a
Stop or to an edit before the next render, since its updaters are then stale. After a
connection that closes with status 200 and no [DONE] no listener reacts: the busy flags
stay, and the answer spins, until the user stops it (`QuietClose`); `NothingStuck`
speaks of the page when its flags are down.

Two more belong to the editor: "contains" and the comparisons of a parameter are
written with a test for nil that `tryParseRequestConditions` never recognizes, so
the card disappears behind "too complex" while it is being edited (the exception
in `CardsStayOpen`); and an incomplete condition on a card is left out, so that the
rule applies more widely until it is filled in (`Complete` in `SavedAsShown`).

### Fairness

`Fairness` says: a handler that has started goes on (`WF Continue(w)`); the
schedulers, which start the poll, reconciliation and recovery passes every 15
seconds (`controller/system_task_handlers.go`), keep listing rows; a task's age
passes the timeout, after which each pass times it out before polling it; and
upstream some day measures a task it has completed. Faults are bounded, so
eventually passes run undisturbed. `TSweptSpec` adds that each pass lists every
row it should, task by task; the temporal disagreements above also arise under it
(with `MaxFaults = 1`), so they cannot be blamed on a sweep that never looks. No fairness is
assumed for clients (cancel, fetch, submit) or for faults. Two limits of the code are
outside these properties: usage facts that no expression can price are retried
forever (`service/task_usage_reconciliation.go:74`), where the model has a bounded
fault; and the recovery sweep reads the 100 oldest rows
(`model/task_settlement.go:435`), so that rows behind 100 which conflict for good are
never reached.

`LFairness`: the loop of a live runner goes on, and each turn of it comes to the
cleanup and to the claim pass, so both are strongly fair (`RunSystemTaskRunner`);
a handler returns some day; a lease nobody renews lapses. Nothing is assumed of
renewals. Fairness of `AuthSession`: the server answers or the client's timeout
does, the script goes on after an answer, and the Web Lock is granted to each
waiter some day (strong fairness: the browser queues lock requests). The user is
not fair in any module.

## 4. Proofs

`SettlementJournal_proofs` proves, for every set of tasks, enhanced tasks and
workers and every bound on amounts:

* `JTypeCorrect`: `JSpec => []JTypeOK`;
* `ReconciledCorrect`: `JSpec => []Reconciled`;
* `LogNotLostCorrect`: `JSpec => []LogNotLost`;
* `LedgerRefinement`: `JSpec => ImplementsLedger`.

All rest on `JInvCorrect`. `Reconciled` is not inductive: a step that applies a
row is harmless only if that operation has not moved the balances before, and
that depends on a row that was deleted long ago. `JInv` adds

* `RowFacts`: what a row says follows from its operation (the immutable fact);
* `SessionOnce`: a session operation that was never submitted has no row and no
  posting, so its row cannot come back;
* `PendingNotPosted`: a row still to be applied has moved nothing;
* `ReceiptGuards`: a pending or posted task operation is named by the task's
  receipt, or the receipt names the task's refund, which only an equal refund
  replaces. This is why a replay is stopped after the deletion;
* `LogBeforeDone`: `log_done` follows the log, also for a worker about to set it.

The refinement needs no mapping beyond the shared variables: outside `ApplyNow`
the ledger's variables stay, and `ApplyNow` is one of `Settle`, `Refund` and
`Requote`, first time by `PendingNotPosted`.

`SystemTaskLease_proofs` proves, for every number of runners, rows and faults and
whether calm or not:

* `LeaseTypes`: `LSpec => []LTypeOK`;
* `LeaseExecutedOnce`: `LSpec => []ExecutedOnce`;
* `LeaseEndedIsFinal`: `LSpec => EndedIsFinal`.

They rest on `LeaseInvariant`. That a row is executed once is not inductive: the
runner that dispatches it has only read it. `LInv` adds `Started` (a row that has
not started has no executor; one runner at most is about to execute a row, and
then nobody has) and `HasRow` (a runner inside a claim holds the id of a row).
The argument never uses the lock: what makes execution unique is the update
conditional on `pending`, and that no step makes a row pending again. The lock
only keeps two rows of a type apart, and that for as long as no holder stalls.
The assumption is `LeaseConstants`: bounds are natural and `None` is no runner.

For the journal the assumption is `ConstantsAssumption`: amounts are natural, there is a task,
enhanced tasks are tasks.

### The life of a task

On its own the journal lets callers do anything. `TaskBilling` replaces these
callers by the handlers of the program, and more is true. Two modules prove, for
every set of tasks and workers, every amount and any bound on faults, assuming
`TaskConstants` (the kinds of tasks are sets of tasks, per-call tasks are not token-priced,
enhanced tasks are not fetched in realtime):

| Theorem | States | For tasks that are |
|---|---|---|
| `TTypeCorrect` | `TTypeOK` | any |
| `AppliedOnceCorrect` | `AppliedOnce` | any |
| `TReconciledCorrect` | `Reconciled` | not `Realtime` |
| `TLedgerRefinement` | `ImplementsLedger` | not `Realtime` |
| `TerminalIsFinalCorrect` | `TerminalIsFinal` | not `Realtime`, not `Orphans` |
| `NeverOverRefundedCorrect` | `NeverOverRefunded` | not `Realtime`, not `Enhanced` |
| `RefundIsFinalCorrect` | `RefundIsFinal` | not `Realtime`, not `Enhanced` |
| `SettledAtMeasuredCorrect` | `SettledAtMeasured` | not `Realtime`, not `Enhanced`, not `Orphans` |

The last column is a hypothesis of the theorem. Each kind that is excluded is one for
which the property is false of the code, as TLC shows when the kind is put into
the instance: a realtime fetch writes a stale quota and status back, the bulk failure of a deleted
channel overwrites a terminal status, the deferred refund of an enhanced submission
repeats its settlement's (`v_enhanced_refund`). `RefundIsFinal` fails of an
enhanced task only if it is token-priced and orphaned too. What holds of every kind is that no
operation moves the balances twice.

The invariants come in layers, in `TaskBilling`, each proved with the one before it:

* `TCore` is `JCore` (the journal's invariant without `Reconciled`, which stale
  writers break) with `SessionOwner`: one handler at most owns a task's billing
  session, and what it has still to submit was never submitted.
* `TLedgerInv` adds that only a decided task is billed by its outcome
  (`BilledWhenDecided`) and that until then the row **and every handler's copy of
  it** hold the quota charged (`ChargedUntilDecided`). So a handler whose
  compare-and-swap succeeds writes back the quota that is there, although it
  wrote the whole row from an old copy. That is why the status comparison alone
  protects the quota.
* `TDirectInv` adds that the quota column is a function of the operations posted
  (`QuotaFollowsPostings`), that only failures are refunded, that a pending
  recalculation expects the charge, and that a reservation is given back only if
  the task was never born.
* `TSettledInv` adds that an applied recalculation has been posted
  (`AppliedIsPosted`: whichever of the money transaction and a surviving receipt
  marked it applied) and that usage is acknowledged only after that
  (`AckedIsCharged`).

A step of a worker inside the journal changes no handler's copy, so the lemmas of
`SettlementJournal_proofs` carry over; the new work is in the handlers.

### Synchronous requests

For any number of requests, fees and sweeps, any amounts, balances and preferences,
assuming `RequestConstants` (requests are tasks and workers, every task is owned by a
request, and a request by itself; a total and amounts above zero; the initial balances
are not negative and in range):

| Theorem | States |
|---|---|
| `RTypeCorrect` | `RTypeOK` |
| `TokenFollowsFundingCorrect` | `TokenFollowsFunding` |
| `OnlyUseOverdrawsCorrect` | `OnlyUseOverdraws` |
| `NothingStrandedCorrect` | `NothingStranded` |
| `OneSourceCorrect` | `OneSource` |
| `RequestChargeRefinement` | `ImplementsRequestCharge` |
| `LogShowsChargeWithoutRealtime` | `LogShowsCharge`, if `Realtime = {}` |

The last one shows that the realtime turns (`LogShowsCharge` among the further disagreements) are the only way in which
a log and a charge come apart.

All rest on `RInvCorrect`. That a request is charged or returned and never both is
not visible in the journal, which would apply both rows; it lies in the order in
which one goroutine submits them. `RInv` therefore adds to the journal's invariant

* `Lifecycle`: what each place of the goroutine says about the two rows of its
  request. Until one has been submitted the reservation may still grow, and neither
  row exists, so the row that is written names the whole reservation; after a
  settlement was submitted, with or without success, no place leads to the refund;
* `SessionRowsOnly`: no other operation moves a request's balance;
* `FeesOneShot`: a fee has neither reservation nor refund;
* `TokenFollowsFunding` and `OnlyUseOverdraws` themselves. The second is inductive
  because of the journal's `RowFacts`: a row that takes anything is the settlement of
  more than was reserved, which is the evidence the invariant asks for.

`NetFacts` sums this up: what the balances hold for a task is its reservation until a
row is applied, then its charge or nothing. The refinement maps `held` to `net` and
the phase to the rows submitted and applied: a reservation is a `Hold` (or a stutter,
when nothing is reserved), a submission a `Close`, `Post` a `Charge` or a `GiveBack`,
and every other step a stutter. `held` does not contain the turns of a realtime
request, which bypass the journal.

`NothingStranded` and `OneSource` need a second layer, `SInv`, proved on top of `RInv`:

* `RowsKept`: a submitted operation has its row until it is applied, unless the
  database refused it;
* `SourceFirst`: nothing is taken or submitted for a request before its session has
  chosen its source for good. A request that falls back to the second source has
  taken nothing from the first;
* `SourceKept`: every row names that source, and everything booked for a task was
  taken from it. `Post` moves the source in the **row**, a turn that of the session,
  so this is what makes the two agree.

`RInv` and `SInv` were checked with TLC on the bounds of `requests` before they were
proved.

### Tabs and the cookie

For any number of tabs, sessions, refreshes, operations and faults, assuming
`AuthConstants` (the bounds are natural, at least one session):

| Theorem | States |
|---|---|
| `AuthTypeCorrect` | `TypeOK` |
| `BrowserSessionRefinement` | `ImplementsBrowserSession` |
| `CookieNearHeadCorrect` | `CookieNearHead` |
| `OnlyLossRevokesCorrect` | `OnlyLossRevokes` |
| `NotForcedOutCorrect` | `NotForcedOut` |

The first two hold with and without Web Locks and rest on `ACore`: every token in a
request, an answer or the cookie is of a session the server has opened, and the
sessions a tab signed out of are revoked and named by no answer that tab would
still accept. The refinement is then one lemma per action.

The other three are about browsers with Web Locks. `CookieInv` says that only the
holder of the lock has a refresh under way, and that every token which may still
become the cookie is at most one generation behind the server. This is not
inductive: a refresh whose page is gone is served when nobody holds the lock for
it. It needs `BehindCookie`: a refresh that was not served carries a secret no
newer than the cookie and than every answer on its way there, so that serving it
either rotates the head by one or rotates nothing. `CalmInv` adds, for behaviours
in which no refresh was abandoned, that the cookie or the answer on its way is the
server's head (`AtHead`; hence no reuse is detected) and that a refusal on its way
to a tab is still true when it arrives (`Verdicts`). `NotForcedOut` follows action
by action: only the answer of a refresh or of a retried request drops a session.

### The playground

For any number of requests, letters and messages, any words and any division of them
into chunks, and a queue of any length, assuming `ChatConstants` (the bounds are
natural, chunks end within an answer):

| Theorem | States |
|---|---|
| `CTypeCorrect` | `CTypeOK` |
| `ShowsOwnTextCorrect` | `ShowsOwnText` |
| `NothingStuckCorrect` | `NothingStuck` |
| `WholeWhenDoneCorrect` | `WholeWhenDone` |

All but the first speak of a behaviour until a saved edit replaces updates that
were not rendered yet (`clobbered`): such an edit may take text away from an answer
under way (`use-playground-conversation.ts:89`). They rest on `ChatInvCorrect`.

What is on screen says nothing about what is to come: text waits in the pending
chunk and in updaters React has not run, and an updater looks at the generation
of the moment it runs, not of the moment it was queued. `ChatInv` therefore speaks
of the conversation once the queue has run, in this generation (`Now`) and in a
later one (`Later`, when a stop or a new request comes first: every updater of a
request is then stale). Its parts:

* `CallsInv`: what a request said comes in order, a request has one call, and the
  flags follow the call of the current generation;
* `TextInv`: the rendered, latest and stored conversations, `Now` and `Later` are
  `Sound` (an answer is `OwnText`: letters of its own request in order, without a
  hole if the stream is exact; and only the last message can be pending), and while a
  request is under way the last answer of `Now` goes on with what is pending
  (`Continues`): there is an end of a chunk such that the answer holds letters up to
  it and the pending text letters after it, all of them if the stream is exact.

The end of a chunk matters: `startsWith` compares a chunk with runs of whole chunks,
never with other parts of an answer, so in an exact stream of deltas it never holds,
and in a cumulative one it always does.

An action adds to the queue, runs it or replaces it, and `RunAllAppend` reduces
each to one updater at a time: running `us \o <<u>>` is running `us` and then
`u`. That this holds for a queue of any length, and that running a queue keeps
types, is shown from the least number at which it would fail (`Inductive`, from
`WFMin`), since the library's induction theorems take an operator. `FlownWhole`
says that flushing turns `Continues` into the whole text of an exact stream; with it
`WholeWhenDone` is a fact about the one step that ends a stream.

### Left to TLC

Liveness (fairness and ENABLED are beyond the prover). `PriceExpression` and with it
`PriceEditor`: their operators recurse over texts.

## 5. Not modelled

`PROJECT.json` lists every part with its reason. In short: the Redis mirror of
balances (best effort by design, it promises no invariant), the choice among several
subscriptions, batched balance updates, personal pricing, the Midjourney
entity, the delivery reservation of enhanced tasks, legacy tasks, price
arithmetic, the Redis copy of a login session, and everything that translates
payloads or draws user interfaces.

Within the modelled parts: `ServeRefresh` is one step for several statements, and the
session store does not fail in it. In the code an error reading the session answers
401 and clears the cookie (`service/auth_session.go:233`), which signs the tab out, and
a revocation between the check and the rotation answers 500 instead of 401.
`AdvanceSession` merges the advance of a session with the revocation of the others
(`service/auth_session.go:204`, `:214`).

The share of the repository's TypeScript lines that the modules stand for is
small and cannot become large: of its 257 000 lines most are pages, forms, tables
and translations, which render what the server answers and keep no protocol of
their own. What the console does have of protocols and algorithms (the session
client, the playground, the price editor) is modelled; the gateway itself is
written in Go.

## 6. Plan

Midjourney tasks and personal pricing, as further users of the journal: the first
with an entity of its own and a polling loop, the second with revenue entries of the
reseller in each fact.
