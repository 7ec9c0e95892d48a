----------------------------- MODULE BillingLedger -----------------------------
(***************************************************************************)
(* What the settlement journal promises its callers, with no rows, no      *)
(* workers and no failures: a request reserves an amount; from then on the *)
(* balances move only by whole operations, each at most once, and the      *)
(* operations that own the task's quota column move both together          *)
(* (model/task_settlement.go, comment on TaskSettlementJournal).           *)
(***************************************************************************)
EXTENDS Integers

CONSTANTS Tasks,      \* billed tasks
          Enhanced,   \* tasks created with quota 0 by their settlement
          MaxQuota    \* bound on every amount

VARIABLES reserved,   \* [Tasks -> amount taken at admission]
          charge,     \* [Tasks -> amount submitted for settlement]
          net,        \* [Tasks -> amount taken from the balances so far]
          quota,      \* [Tasks -> tasks.quota]
          posted      \* operations that have moved the balances

lvars == <<reserved, charge, net, quota, posted>>

Amounts == 0 .. MaxQuota

Op(k, t) == [task |-> t, kind |-> k]

StartQuota(t) == IF t \in Enhanced THEN 0 ELSE charge[t]

LInit ==
    /\ reserved \in [Tasks -> Amounts]
    /\ charge \in [Tasks -> Amounts]
    /\ net = reserved
    /\ quota = [t \in Tasks |-> StartQuota(t)]
    /\ posted = {}

Once(k, t) ==
    /\ Op(k, t) \notin posted
    /\ posted' = posted \cup {Op(k, t)}
    /\ UNCHANGED <<reserved, charge>>

Move(t, delta) == net' = [net EXCEPT ![t] = @ + delta]

\* "settle": the reservation becomes the charge; the settlement of an enhanced
\* task also gives the task its quota.
Settle(t) ==
    /\ Once("settle", t)
    /\ Move(t, charge[t] - reserved[t])
    /\ IF t \in Enhanced
       THEN quota[t] = 0 /\ quota' = [quota EXCEPT ![t] = charge[t]]
       ELSE UNCHANGED quota

\* "refund": a failed request gets its whole reservation back.
Refund(t) ==
    /\ Once("refund", t)
    /\ Move(t, 0 - reserved[t])
    /\ UNCHANGED quota

\* "task-recalculate" and "task-refund": the task's quota becomes q and the
\* balances move by exactly the difference.
Requote(k, t, q) ==
    /\ Once(k, t)
    /\ Move(t, q - quota[t])
    /\ quota' = [quota EXCEPT ![t] = q]

LNext ==
    \E t \in Tasks :
        \/ Settle(t)
        \/ Refund(t)
        \/ Requote("taskRefund", t, 0)
        \/ \E q \in Amounts : Requote("recalculate", t, q)

LSpec == LInit /\ [][LNext]_lvars
================================================================================
