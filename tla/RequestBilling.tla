---------------------------- MODULE RequestBilling ----------------------------
(***************************************************************************)
(* The billing of synchronous requests (controller/relay.go Relay,         *)
(* relay/request_billing.go, service/billing_session.go): admission        *)
(* against the wallet or the subscription and the token, further           *)
(* reservations before a retry, settlement of the actual quota or refund of*)
(* the reservation through the settlement journal, and the violation fee.  *)
(* Requests of one user run concurrently and share the wallet, the         *)
(* subscription and the token; billing_recovery applies what they leave.   *)
(*                                                                         *)
(* Each request is a task of the journal and its goroutine is the worker   *)
(* of the same name; the other workers are sweeps.  A fee is a task of its *)
(* own ("violation-fee:<request>").  charge[t] is the quota the handler    *)
(* computes and its consume log shows.                                     *)
(*                                                                         *)
(* Abstractions.  Cached balances may be stale, so a check of one (the     *)
(* trust bypass, validateWalletQuota, the check before a realtime turn)    *)
(* may come out either way.  There is one subscription, with a total.      *)
(* The turns of a realtime request sum to at most its charge.  Batched     *)
(* balance updates (off by default) and personal pricing are not modelled. *)
(***************************************************************************)
EXTENDS SettlementJournal

CONSTANTS Requests,       \* requests of one user, with one token
          Owner,          \* [Tasks -> Requests] the request a task bills
          Preference,     \* [Requests -> billing preference of the user]
          Playground,     \* requests that do not touch the token
          Image,          \* image requests
          Realtime,       \* realtime websocket requests
          Unlimited,      \* the token has no quota of its own
          InitialWallet, InitialToken,
          Total,          \* the subscription's amount_total
          WalletLimit     \* MaxWalletQuota; MinWalletQuota is its negative

Sources == {"wallet", "subscription"}

\* NewBillingSession: what each preference tries, in order.
Preferences == [wallet_only        |-> <<"wallet", "none">>,
                subscription_only  |-> <<"subscription", "none">>,
                wallet_first       |-> <<"wallet", "subscription">>,
                subscription_first |-> <<"subscription", "wallet">>]

ASSUME RequestConstants ==
    /\ Requests \subseteq Tasks /\ Requests \subseteq Workers
    /\ Owner \in [Tasks -> Requests] /\ \A r \in Requests : Owner[r] = r
    /\ Preference \in [Requests -> DOMAIN Preferences]
    /\ Playground \subseteq Requests /\ Image \subseteq Requests
    /\ Realtime \subseteq Requests
    /\ Enhanced = {}
    /\ Unlimited \in BOOLEAN
    /\ MaxQuota > 0 /\ Total \in Nat \ {0} /\ WalletLimit \in Nat
    /\ InitialWallet \in 0 .. WalletLimit /\ InitialToken \in Nat

VARIABLES
    at,             \* [Requests -> where the request's goroutine is]
    source,         \* [Requests -> funding of its session, "none" without one]
    trusted,        \* [Requests -> BOOLEAN] admitted without a reservation
    extraReserved,  \* [Requests -> Quotas] reserved after admission
    wallet,         \* users.quota
    used,           \* user_subscriptions.amount_used
    token,          \* tokens.remain_quota
    tokenNet,       \* [Tasks -> Int] taken from the token with net
    direct,         \* [Requests -> Nat] taken turn by turn by a realtime request
    tokenDirect,    \* [Requests -> Nat] ... and the part taken from the token
    rowSource,      \* [Keys -> billing_source of the journal row]
    unwritten,      \* history: operations whose row the database refused
    taken           \* history: [Tasks -> [Sources -> taken from it for the task]]

balances == <<wallet, used, token, tokenNet, taken>>
session  == <<source, trusted, extraReserved>>
turns    == <<direct, tokenDirect>>
written  == <<rowSource, unwritten>>
rvars    == <<jvars, at, session, balances, turns, written>>

RInit ==
    /\ reserved = [t \in Tasks |-> 0]
    /\ charge \in [Tasks -> Quotas]
    /\ net = reserved
    /\ quota = charge
    /\ row = [key \in Keys |-> NoRow]
    /\ receipt = [t \in Tasks |-> NoReceipt]
    /\ logged = {} /\ posted = {} /\ opened = {}
    /\ pc = [w \in Workers |-> "idle"]
    /\ cur = [w \in Workers |-> IdleKey]
    /\ at = [r \in Requests |-> "first"]
    /\ source = [r \in Requests |-> "none"]
    /\ trusted = [r \in Requests |-> FALSE]
    /\ extraReserved = [r \in Requests |-> 0]
    /\ wallet = InitialWallet /\ used = 0 /\ token = InitialToken
    /\ tokenNet = [t \in Tasks |-> 0]
    /\ direct = [r \in Requests |-> 0] /\ tokenDirect = [r \in Requests |-> 0]
    /\ rowSource = [key \in Keys |-> "none"] /\ unwritten = {}
    /\ taken = [t \in Tasks |-> [s \in Sources |-> 0]]

Goto(r, p) == at' = [at EXCEPT ![r] = p]

Quiet == UNCHANGED <<charge, quota, row, receipt, logged, posted, opened, pc, cur, turns, written>>
--------------------------------------------------------------------------------
(* Admission and reservation (model/billing_balance.go) *)

\* adjustUserWalletInTx: the wallet after the move stays within its range.
WalletAllows(delta) == delta = 0 \/ wallet - delta \in -WalletLimit .. WalletLimit

\* Mutant: the debit trusts the cached balance that validateWalletQuota checked.
FundingAllows_CachedCheck(s, amount, debt) ==
    \/ amount = 0
    \/ s = "wallet" /\ WalletAllows(amount)
    \/ s = "subscription" /\ used + amount <= Total

\* "WHERE quota >= amount", or only the range where debt is allowed.
FundingAllows(s, amount, debt) ==
    \/ amount = 0
    \/ s = "wallet" /\ IF debt THEN WalletAllows(amount) ELSE wallet >= amount
    \/ s = "subscription" /\ used + amount <= Total

\* preConsumeTokenBalanceTx
TokenAllows(r, amount) == r \in Playground \/ amount = 0 \/ Unlimited \/ token >= amount

\* Mutant: a negative delta returns early, so a refund leaves the token debited.
MoveToken_NoCredit(t, delta) ==
    IF Owner[t] \in Playground \/ delta < 0
    THEN UNCHANGED <<token, tokenNet>>
    ELSE /\ token' = token - delta
         /\ tokenNet' = [tokenNet EXCEPT ![t] = @ + delta]

\* The token's half of a transaction on behalf of task t (ApplyToken).
MoveToken(t, delta) ==
    IF Owner[t] \in Playground
    THEN UNCHANGED <<token, tokenNet>>
    ELSE /\ token' = token - delta
         /\ tokenNet' = [tokenNet EXCEPT ![t] = @ + delta]

\* What the history keeps of a debit (or a credit) of s on behalf of task t.
Note(t, s, delta) ==
    taken' = [taken EXCEPT ![t] = [x \in Sources |-> @[x] + (IF x = s THEN delta ELSE 0)]]

\* One transaction debits the funding source and the token.
Take(r, s, amount, debt) ==
    /\ FundingAllows(s, amount, debt)
    /\ TokenAllows(r, amount)
    /\ wallet' = IF s = "wallet" THEN wallet - amount ELSE wallet
    /\ used' = IF s = "subscription" THEN used + amount ELSE used
    /\ MoveToken(r, amount)
    /\ Note(r, s, amount)
    /\ net' = [net EXCEPT ![r] = @ + amount]

\* The source NewBillingSession is trying.
Trying(r) == Preferences[Preference[r]][IF at[r] = "first" THEN 1 ELSE 2]

\* trySubscription: at least 1, to fix the subscription.
PreConsumed(s, q) == IF s = "subscription" /\ q = 0 THEN 1 ELSE q

\* preConsume commits and PrepareRequestBilling returns with a session; a
\* trusted wallet reserves nothing.
Admit(r, q, trust) ==
    LET s      == Trying(r)
        amount == IF trust THEN 0 ELSE PreConsumed(s, q)
    IN  /\ at[r] \in {"first", "second"}
        /\ trust => s = "wallet"
        /\ Take(r, s, amount, FALSE)
        /\ reserved' = [reserved EXCEPT ![r] = amount]
        /\ source' = [source EXCEPT ![r] = s]
        /\ trusted' = [trusted EXCEPT ![r] = trust]
        /\ Goto(r, "open")
        /\ Quiet /\ UNCHANGED extraReserved

\* The transaction is refused, or a cached balance is too low: the second
\* source is tried if the first was short of quota (and the subscription
\* allows the wallet), otherwise the request is rejected.
AdmitRefused(r) ==
    /\ at[r] \in {"first", "second"}
    /\ \/ /\ at[r] = "first"
          /\ Preferences[Preference[r]][2] # "none"
          /\ Goto(r, "second")
       \/ Goto(r, "done")
    /\ Quiet /\ UNCHANGED <<reserved, net, session, balances>>

\* A free model needs no session ...
FreeModel(r) ==
    /\ at[r] = "first"
    /\ Goto(r, "open")
    /\ Quiet /\ UNCHANGED <<reserved, net, session, balances>>

\* ... until a retry selects a group or a quantity that is not free.  There is
\* no retry once a realtime connection has been charged for a turn.
NoLongerFree(r) ==
    /\ at[r] = "open" /\ source[r] = "none" /\ direct[r] = 0
    /\ Goto(r, "first")
    /\ Quiet /\ UNCHANGED <<reserved, net, session, balances>>

\* BillingSession.Reserve raises the reservation to target.
Reserve(r, target) ==
    LET delta == target - reserved[r]
    IN  /\ at[r] = "open" /\ source[r] # "none"
        /\ ~(trusted[r] /\ r \notin Image)
        /\ delta > 0
        /\ Take(r, source[r], delta, r \notin Image)
        /\ reserved' = [reserved EXCEPT ![r] = target]
        /\ extraReserved' = [extraReserved EXCEPT ![r] = @ + delta]
        /\ trusted' = [trusted EXCEPT ![r] = FALSE]
        /\ Quiet /\ UNCHANGED <<at, source>>
--------------------------------------------------------------------------------
(* The end of a request (Relay, RefundFailedRequestBilling) *)

\* Every attempt failed, or a reservation was refused.  A realtime connection
\* that was open always ends in a settlement.
Fail(r) ==
    /\ at[r] = "open" /\ direct[r] = 0
    /\ Goto(r, "failing")
    /\ Quiet /\ UNCHANGED <<reserved, net, session, balances>>

\* Mutant: only what admission reserved counts.
NeedsRefund_AdmissionOnly(r) == source[r] # "none" /\ reserved[r] > extraReserved[r]

\* needsRefundLocked of a request's session, if it has one.
NeedsRefund(r) == source[r] # "none" /\ reserved[r] > 0

\* Mutant: the row forgets the session's source.
Funding_Wallet(t) == "wallet"

\* The source of a task's journal row (s.funding.Source()); a request without a
\* session is charged to the wallet.
Funding(t) == IF source[Owner[t]] = "none" THEN "wallet" ELSE source[Owner[t]]

\* applyTaskSettlementJournal inserts the row, with its source; when the insert
\* fails the error is only logged and nothing of the operation remains.
Submitted(r, key, fact, p) ==
    /\ SessionSubmit(r, key, fact)
    /\ IF row'[key].state = "none"
       THEN unwritten' = unwritten \cup {key} /\ UNCHANGED rowSource
       ELSE rowSource' = [rowSource EXCEPT ![key] = Funding(key.task)] /\ UNCHANGED unwritten
    /\ Goto(r, p)
    /\ UNCHANGED <<session, balances, turns>>

Refund(r) ==
    /\ at[r] = "failing" /\ NeedsRefund(r)
    /\ Submitted(r, Key("refund", r), RefundFact(r), "refunding")

NoRefund(r) ==
    /\ at[r] = "failing" /\ ~NeedsRefund(r)
    /\ Goto(r, "fee")
    /\ Quiet /\ UNCHANGED <<reserved, net, session, balances>>

\* ChargeViolationFeeIfNeeded: a one-shot charge beside the refund.
ChargeFee(r, t) ==
    /\ at[r] = "fee" /\ Owner[t] = r
    /\ charge[t] > 0
    /\ Submitted(r, Key("settle", t), SettleFact(t, FALSE), "charging")

NoFee(r) ==
    /\ at[r] = "fee"
    /\ Goto(r, "done")
    /\ Quiet /\ UNCHANGED <<reserved, net, session, balances>>

\* SettleBillingAndRecordConsumeLog, with a session or without one.  The
\* handler only logs an error and Relay returns success.
Settle(r) ==
    /\ at[r] = "open"
    /\ Submitted(r, Key("settle", r), SettleFact(r, FALSE), "settling")

\* Mutant: an error of the settlement fails the request, which is then refunded.
Returned_SettleErrorFails(w) ==
    /\ Return(w)
    /\ IF w \in Requests
       THEN Goto(w, CASE at[w] = "refunding" -> "fee"
                      [] at[w] = "settling" /\ pc[w] = "err" -> "failing"
                      [] OTHER -> "done")
       ELSE UNCHANGED at
    /\ UNCHANGED <<session, balances, turns, written>>

\* The journal operation returned to the request, or to the sweep.
Returned(w) ==
    /\ Return(w)
    /\ IF w \in Requests
       THEN Goto(w, IF at[w] = "refunding" THEN "fee" ELSE "done")
       ELSE UNCHANGED at
    /\ UNCHANGED <<session, balances, turns, written>>
--------------------------------------------------------------------------------
(* The journal's transactions on the three balances *)

\* Mutant: no clamp.
UsedAfter_Unclamped(delta) == used + delta

\* postConsumeUserSubscriptionDeltaTx clamps at zero ...
UsedAfter(delta) == IF used + delta < 0 THEN 0 ELSE used + delta

\* ApplyTaskSettlementJournal with applyTaskSettlementFundingTx and
\* applyTaskSettlementTokenTx; ... and refuses more than the total.  The source
\* is the one in the row, whoever applies it.  A subscription's refund is two
\* clamped credits in one transaction, what admission took
\* (refundSubscriptionPreConsumeTx) and the rest: their sum, clamped once.
Post(w) ==
    LET t     == cur[w].task
        s     == rowSource[cur[w]]
        delta == row[cur[w]].final - row[cur[w]].expected
    IN  /\ ApplyNow(w)
        /\ IF s = "wallet"
           THEN /\ WalletAllows(delta)
                /\ wallet' = wallet - delta
                /\ UNCHANGED used
           ELSE /\ UsedAfter(delta) <= Total
                /\ used' = UsedAfter(delta)
                /\ UNCHANGED wallet
        /\ MoveToken(t, delta)
        /\ Note(t, s, delta)
        /\ UNCHANGED <<at, session, turns, written>>

\* The steps that move no balance.  A refused transaction is a StepFails.
Carry(w) ==
    /\ \/ ApplyAgain(w) \/ ApplyRefused(w)
       \/ WriteLog(w) \/ MarkLogDone(w) \/ DeleteRow(w) \/ StepFails(w)
    /\ UNCHANGED <<at, session, balances, turns, written>>

Sweep(w) ==
    /\ w \notin Requests
    /\ Crash(w) \/ \E key \in Keys : SweepPick(w, key)
    /\ UNCHANGED <<at, session, balances, turns, written>>

\* The process that serves the request dies.
Die(r) ==
    /\ at[r] \notin {"done", "dead"}
    /\ Goto(r, "dead")
    /\ pc' = [pc EXCEPT ![r] = "idle"]
    /\ cur' = [cur EXCEPT ![r] = IdleKey]
    /\ UNCHANGED <<reserved, charge, net, quota, row, receipt, logged, posted, opened>>
    /\ UNCHANGED <<session, balances, turns, written>>

\* maybeResetUserSubscriptionWithPlanTx: a new period.
ResetPeriod ==
    /\ used > 0
    /\ used' = 0
    /\ UNCHANGED <<jvars, at, session, wallet, token, tokenNet, taken, turns, written>>
--------------------------------------------------------------------------------
(* Realtime turns (PreWssConsumeQuota, PostConsumeQuota) *)

\* The connection is open, or was until the settlement.
MayTurn(r) == at[r] = "open" \/ (at[r] # "dead" /\ Key("settle", r) \in opened)

\* Each answer of the upstream is charged at once, outside the session and the
\* journal; the goroutine that reads the upstream may still do so when the
\* request settles.  First the funding source ...
Turn(r, q) ==
    /\ r \in Realtime /\ MayTurn(r)
    /\ q > 0 /\ direct[r] + q <= charge[r]
    /\ FundingAllows(Funding(r), q, TRUE)
    /\ wallet' = IF Funding(r) = "wallet" THEN wallet - q ELSE wallet
    /\ used' = IF Funding(r) = "subscription" THEN used + q ELSE used
    /\ Note(r, Funding(r), q)
    /\ direct' = [direct EXCEPT ![r] = @ + q]
    /\ UNCHANGED <<jvars, at, session, token, tokenNet, tokenDirect, written>>

\* ... then, in a statement of its own, the token.
TurnToken(r, q) ==
    /\ r \notin Playground /\ at[r] # "dead"
    /\ q > 0 /\ tokenDirect[r] + q <= direct[r]
    /\ token' = token - q
    /\ tokenDirect' = [tokenDirect EXCEPT ![r] = @ + q]
    /\ UNCHANGED <<jvars, at, session, wallet, used, tokenNet, taken, direct, written>>
--------------------------------------------------------------------------------
RNext ==
    \/ \E r \in Requests :
          \/ \E q \in Quotas, trust \in BOOLEAN : Admit(r, q, trust)
          \/ AdmitRefused(r) \/ FreeModel(r) \/ NoLongerFree(r)
          \/ \E q \in Quotas : Reserve(r, q)
          \/ Settle(r) \/ Fail(r) \/ Refund(r) \/ NoRefund(r) \/ NoFee(r) \/ Die(r)
          \/ \E t \in Tasks \ Requests : ChargeFee(r, t)
          \/ \E q \in Quotas : Turn(r, q) \/ TurnToken(r, q)
    \/ \E w \in Workers : Post(w) \/ Carry(w) \/ Returned(w) \/ Sweep(w)
    \/ ResetPeriod

RSpec == RInit /\ [][RNext]_rvars
--------------------------------------------------------------------------------
(* Properties *)

Places == {"first", "second", "open", "failing", "refunding", "fee", "charging",
           "settling", "done", "dead"}

\* Every variable has its type; the wallet stays within its range and the
\* subscription between nothing and its total, whatever is refunded after the
\* period was reset.
RTypeOK ==
    /\ JTypeOK
    /\ at \in [Requests -> Places]
    /\ source \in [Requests -> Sources \cup {"none"}]
    /\ trusted \in [Requests -> BOOLEAN]
    /\ extraReserved \in [Requests -> Quotas]
    /\ wallet \in -WalletLimit .. WalletLimit
    /\ used \in 0 .. Total
    /\ token \in Int
    /\ tokenNet \in [Tasks -> Int]
    /\ direct \in [Requests -> Quotas]
    /\ tokenDirect \in [Requests -> Quotas]
    /\ rowSource \in [Keys -> Sources \cup {"none"}]
    /\ unwritten \subseteq opened
    /\ taken \in [Tasks -> [Sources -> Int]]

\* How far a task's billing is, as RequestCharge sees it.
PhaseOf(t) ==
    IF Key("settle", t) \in posted THEN "settled"
    ELSE IF Key("refund", t) \in posted THEN "returned"
    ELSE IF Key("settle", t) \in opened THEN "settling"
    ELSE IF Key("refund", t) \in opened THEN "returning"
    ELSE "open"

\* Sessions and the journal implement RequestCharge: a request is settled for
\* exactly what its log shows or gets everything back, whichever workers fail
\* or crash; after its end nothing more is reserved and never are both applied.
\* What is held is net: the turns of a realtime request (direct) are not in it.
Charges == INSTANCE RequestCharge
              WITH held <- net, phase <- [t \in Tasks |-> PhaseOf(t)]
ImplementsRequestCharge == Charges!CSpec

\* The token is debited and credited with the funding source, in admission,
\* reservation, settlement, refund and fee: no failure separates the two.
TokenFollowsFunding ==
    \A t \in Tasks : tokenNet[t] = IF Owner[t] \in Playground THEN 0 ELSE net[t]

\* What has been taken from a funding source for a task.
Booked(t) == net[t] + (IF t \in Requests THEN direct[t] ELSE 0)

\* Whatever is taken for a request, and for its fee, comes from one of the two
\* sources and goes back to that one: the settlement and the refund of a request
\* that fell back from one source to the other, that began without a session,
\* or whose row the recovery sweep applies after the session is gone, never
\* credit or debit the source that was not debited.
OneSource ==
    \A t \in Tasks : \E s \in Sources :
        taken[t][s] >= 0 /\ \A x \in Sources \ {s} : taken[t][x] = 0

\* Use beyond the reservation was settled for t.
UsedMore(t) == Key("settle", t) \in posted /\ charge[t] > reserved[t]

\* Admission never overdraws, however many requests race for the last quota on
\* stale caches: only actual use beyond a reservation, a fee, a reservation
\* that may incur debt and a realtime turn take the wallet below zero, and only
\* use, a fee or a turn takes a limited token there.
OnlyUseOverdraws ==
    /\ wallet < 0 =>
          \/ \E t \in Tasks : UsedMore(t)
          \/ \E r \in Requests : direct[r] > 0 \/ (extraReserved[r] > 0 /\ r \notin Image)
    /\ token < 0 /\ ~Unlimited =>
          (\E t \in Tasks : UsedMore(t)) \/ (\E r \in Requests : direct[r] > 0)

\* A request that ran to its end and still holds quota has been settled, or has
\* a row from which recovery will settle or refund it: besides the death of the
\* process, only a database that refuses the insert of the row strands a
\* reservation (settle and Refund do not try again).
NothingStranded ==
    \A r \in Requests : at[r] = "done" /\ net[r] # 0 =>
        \E k \in SessionKinds :
            Key(k, r) \in posted \/ row[Key(k, r)].state = "pending" \/ Key(k, r) \in unwritten

\* The same without the refused insert, as the comments on Settle and Refund
\* have it ("a failure keeps the journal", "recovery replays until it succeeds").
ReservationNamed ==
    \A r \in Requests : at[r] = "done" /\ net[r] # 0 =>
        \E k \in SessionKinds : Key(k, r) \in posted \/ row[Key(k, r)].state = "pending"

\* A settled request has been charged what its consume log shows.
LogShowsCharge ==
    \A t \in Tasks : Key("settle", t) \in posted => Booked(t) = charge[t]
--------------------------------------------------------------------------------
(* The inductive invariant that the proofs rest on. *)

\* Requests have no rows of task operations.
SessionRowsOnly ==
    \A key \in Keys : key.kind \notin SessionKinds =>
        row[key].state = "none" /\ key \notin posted

\* A fee has no reservation and no refund.
FeesOneShot ==
    \A t \in Tasks \ Requests : reserved[t] = 0 /\ Key("refund", t) \notin opened

\* Until a request has submitted its settlement or its refund, its session may
\* reserve more; it submits one of them, never the other.
LifecycleOf(r) ==
    /\ at[r] \in {"first", "second"} => source[r] = "none"
    /\ source[r] = "none" => reserved[r] = 0
    /\ extraReserved[r] <= reserved[r]
    /\ at[r] \notin {"refunding", "charging", "settling"} => pc[r] = "idle"
    /\ at[r] \in {"first", "second", "open", "failing", "refunding", "fee", "charging"} =>
          Key("settle", r) \notin opened
    /\ at[r] \in {"first", "second", "open", "failing", "settling"} =>
          Key("refund", r) \notin opened
    /\ at[r] = "settling" => Key("settle", r) \in opened
    /\ at[r] = "refunding" => Key("refund", r) \in opened
    /\ at[r] \in {"fee", "charging", "done"} =>
          reserved[r] = 0 \/ \E k \in SessionKinds : Key(k, r) \in opened
    /\ ~(Key("settle", r) \in opened /\ Key("refund", r) \in opened)

Lifecycle == \A r \in Requests : LifecycleOf(r)

RInv ==
    /\ RTypeOK /\ JCore /\ Reconciled /\ quota = charge
    /\ SessionRowsOnly /\ FeesOneShot /\ Lifecycle
    /\ TokenFollowsFunding /\ OnlyUseOverdraws

\* A submitted operation has its row until it is applied, unless it was refused.
RowsKept ==
    \A key \in opened : key \in posted \/ row[key].state = "pending" \/ key \in unwritten

\* A session has its source before anything is taken or submitted for it: turns
\* are charged once the connection is open, the fee is the last operation.
SourceFirst ==
    /\ \A r \in Requests : at[r] \in {"first", "second"} => direct[r] = 0
    /\ \A t \in Tasks \ Requests : Key("settle", t) \in opened =>
          at[Owner[t]] \in {"charging", "done", "dead"}

\* Rows and what was taken agree with the source of the session.
SourceKept ==
    /\ \A key \in Keys : row[key].state # "none" => rowSource[key] = Funding(key.task)
    /\ \A t \in Tasks, s \in Sources : taken[t][s] = IF s = Funding(t) THEN Booked(t) ELSE 0

SInv == RowsKept /\ SourceFirst /\ SourceKept
================================================================================
