------------------------ MODULE SettlementJournal_proofs ------------------------
(***************************************************************************)
(* Proofs about SettlementJournal: its inductive invariant JCore, the       *)
(* invariants it implies, and that the journal implements BillingLedger.   *)
(***************************************************************************)
EXTENDS SettlementJournal, TLAPS

\* Keys are determined by their task and their operation; the row and the
\* receipt of a key are records.
LEMMA KeyFacts ==
    /\ \A t \in Tasks, k \in Kinds :
          Key(k, t) \in Keys /\ Key(k, t).task = t /\ Key(k, t).kind = k
    /\ \A key \in Keys : key.task \in Tasks /\ key.kind \in Kinds
                         /\ key = Key(key.kind, key.task)
BY DEF Keys, Key, Kinds

\* Tasks is not empty, so the idle key is a key.
LEMMA IdleKeyIsKey == IdleKey \in Keys
<1>1. PICK t \in Tasks : TRUE BY ConstantsAssumption
<1>2. Key("settle", t) \in Keys BY <1>1, KeyFacts DEF Kinds
<1>3. \E key \in Keys : TRUE BY <1>2
<1> QED BY <1>3 DEF IdleKey

\* No row exists at the start.
LEMMA NoRowIsRow == NoRow \in Rows /\ NoRow.state = "none" /\ 0 \in Quotas
BY ConstantsAssumption DEF NoRow, Rows, Quotas

\* Every initial state satisfies the inductive invariant.
LEMMA InitJInv == JInit => JInv
<1> SUFFICES ASSUME JInit PROVE JInv OBVIOUS
<1> USE NoRowIsRow, IdleKeyIsKey
<1>1. JTypeOK
  BY DEF JInit, JTypeOK, InitialQuota, NoReceipt, Receipts, Quotas, PCs
<1>2. RowFacts /\ SessionOnce /\ PendingNotPosted
  BY DEF JInit, RowFacts, SessionOnce, PendingNotPosted
<1>3. ReceiptGuards
  BY DEF JInit, ReceiptGuards, NoReceipt
<1>4. LogBeforeDone /\ LogNotLost
  BY DEF JInit, LogBeforeDone, LogNotLost
<1>5. Reconciled
  <2> SUFFICES ASSUME NEW t \in Tasks
               PROVE  net[t] = quota[t] + Outstanding(t)
    BY DEF Reconciled
  <2>1. reserved[t] \in Int /\ InitialQuota(t) \in Int
    BY DEF JInit, InitialQuota, Quotas
  <2>2. Outstanding(t) = reserved[t] - InitialQuota(t)
    BY <2>1 DEF JInit, Outstanding
  <2>3. net[t] = reserved[t] /\ quota[t] = InitialQuota(t)
    BY DEF JInit
  <2> QED BY <2>1, <2>2, <2>3
<1> QED BY <1>1, <1>2, <1>3, <1>4, <1>5 DEF JInv, JCore
--------------------------------------------------------------------------------
(* Steps that change only the workers' control state. *)

\* Moving a worker, with the tables unchanged, keeps the invariant, provided it
\* reaches "mark" with its log written.
LEMMA ControlStep ==
    ASSUME JCore,
           pc' \in [Workers -> PCs], cur' \in [Workers -> Keys],
           \A w \in Workers : pc'[w] = "mark" => cur'[w] \in logged,
           opened \subseteq opened', opened' \subseteq Keys,
           UNCHANGED <<reserved, charge, net, quota, row, receipt, logged, posted>>
    PROVE  JCore'
<1>1. JTypeOK' BY DEF JCore, JTypeOK
<1>2. RowFacts' /\ SessionOnce' /\ PendingNotPosted' /\ ReceiptGuards'
  BY DEF JCore, RowFacts, SessionOnce, PendingNotPosted, ReceiptGuards
<1>3. LogBeforeDone' /\ LogNotLost'
  BY DEF JCore, LogBeforeDone, LogNotLost, Pending
<1> QED BY <1>1, <1>2, <1>3 DEF JCore

\* So does a step of somebody who leaves the journal alone.
LEMMA StutterStep ==
    ASSUME JCore,
           UNCHANGED <<reserved, charge, net, quota, row, receipt, logged, posted, opened, pc, cur>>
    PROVE  JCore'
<1>1. \A w \in Workers : pc[w] = "mark" => cur[w] \in logged
  BY DEF JCore, LogBeforeDone
<1>2. pc \in [Workers -> PCs] /\ cur \in [Workers -> Keys] /\ opened \subseteq Keys
  BY DEF JCore, JTypeOK
<1> QED BY <1>1, <1>2, ControlStep

\* Applying again, being refused, failing, crashing, returning and picking a
\* row in the sweep move nothing but the worker.
LEMMA ControlActions ==
    ASSUME JCore, NEW w \in Workers,
           \/ ApplyAgain(w) \/ ApplyRefused(w) \/ StepFails(w) \/ Crash(w) \/ Return(w)
           \/ \E key \in Keys : SweepPick(w, key)
    PROVE  JCore'
<1> USE IdleKeyIsKey
<1>1. UNCHANGED <<reserved, charge, net, quota, row, receipt, logged, posted, opened>>
  BY DEF ApplyAgain, ApplyRefused, StepFails, Crash, Return, SweepPick
<1>2. pc' \in [Workers -> PCs] /\ cur' \in [Workers -> Keys]
  BY DEF JCore, JTypeOK, PCs, ApplyAgain, ApplyRefused, StepFails, Crash, Return, SweepPick, AfterApplied
<1>3. \A v \in Workers : pc'[v] = "mark" => pc[v] = "mark" /\ cur'[v] = cur[v]
  BY DEF JCore, JTypeOK, ApplyAgain, ApplyRefused, StepFails, Crash, Return, SweepPick, AfterApplied
<1>4. \A v \in Workers : pc'[v] = "mark" => cur'[v] \in logged
  BY <1>3 DEF JCore, LogBeforeDone
<1>5. opened' = opened /\ opened \subseteq Keys BY <1>1 DEF JCore, JTypeOK
<1> QED BY <1>1, <1>2, <1>4, <1>5, ControlStep
--------------------------------------------------------------------------------
(* EnsureTaskSettlementJournal *)

\* What a session's or a task's caller may put into a fact: the right-hand
\* side of RowFacts, for the fact of operation key.
GoodFact(key, fact) ==
    /\ fact \in Rows
    /\ fact.state = "pending"
    /\ key.kind = "settle" =>
          /\ fact.expected = reserved[key.task]
          /\ fact.final = charge[key.task]
          /\ fact.entity <=> key.task \in Enhanced
    /\ key.kind = "refund" =>
          fact.expected = reserved[key.task] /\ fact.final = 0 /\ ~fact.entity
    /\ key.kind \notin SessionKinds => fact.entity /\ fact.confirm
    /\ key.kind = "taskRefund" => fact.final = 0
    /\ key.kind # "refund" => ~fact.logDone

\* Ensure stores the given fact or finds an equal one; either way the row is
\* well formed, and it is pending only if no receipt covers it.
LEMMA EnsuredRowFacts ==
    ASSUME JCore, NEW key \in Keys, NEW fact, GoodFact(key, fact)
    PROVE  LET r == EnsuredRow(key, fact)
           IN  /\ r \in Rows
               /\ r.state \in {"pending", "applied"}
               /\ row[key].state # "none" =>
                     /\ r.expected = row[key].expected /\ r.final = row[key].final
                     /\ r.entity = row[key].entity /\ r.confirm = row[key].confirm
                     /\ r.logDone = row[key].logDone
               /\ row[key].state = "none" =>
                     /\ r.expected = fact.expected /\ r.final = fact.final
                     /\ r.entity = fact.entity /\ r.confirm = fact.confirm
                     /\ r.logDone = fact.logDone
               /\ row[key].state = "applied" => r.state = "applied"
               /\ r.state = "pending" => ~HasReceipt(key, r)
<1>1. row[key] \in Rows BY DEF JCore, JTypeOK
<1> QED BY <1>1 DEF GoodFact, EnsuredRow, Stored, Rows, HasReceipt

\* The transaction that persists a fact keeps the invariant.
LEMMA EnsureStep ==
    ASSUME JCore, NEW w \in Workers, NEW key \in Keys, NEW fact,
           GoodFact(key, fact), Ensure(w, key, fact),
           opened' \subseteq Keys, opened \subseteq opened',
           key.kind \in SessionKinds => key \in opened' /\ key \notin opened
    PROVE  JCore'
<1> DEFINE r == EnsuredRow(key, fact)
           t == key.task
<1> USE KeyFacts
<1>1. /\ r \in Rows
      /\ r.state \in {"pending", "applied"}
      /\ row[key].state # "none" =>
            /\ r.expected = row[key].expected /\ r.final = row[key].final
            /\ r.entity = row[key].entity /\ r.confirm = row[key].confirm
            /\ r.logDone = row[key].logDone
      /\ row[key].state = "none" =>
            /\ r.expected = fact.expected /\ r.final = fact.final
            /\ r.entity = fact.entity /\ r.confirm = fact.confirm
            /\ r.logDone = fact.logDone
      /\ row[key].state = "applied" => r.state = "applied"
      /\ r.state = "pending" => ~HasReceipt(key, r)
  BY EnsuredRowFacts
<1> HIDE DEF r
<1>2. row' = [row EXCEPT ![key] = r] /\ UNCHANGED <<reserved, charge, net, quota, logged, posted>>
  BY DEF Ensure, r
<1>3. /\ receipt' = IF r.confirm
                    THEN [receipt EXCEPT ![t] = Confirmed(t, r.final, key.kind, r.state = "applied")]
                    ELSE receipt
      /\ r.confirm => ConfirmAllowed(t, r.final, key.kind)
  <2>1. r.confirm = Stored(key, fact).confirm /\ r.final = Stored(key, fact).final
    <3>1. row[key] \in Rows BY DEF JCore, JTypeOK
    <3> QED BY <3>1 DEF r, EnsuredRow, Stored, GoodFact, Rows
  <2> QED BY <2>1 DEF Ensure, EnsureOk, r
<1>4. /\ pc' = [pc EXCEPT ![w] = IF r.state = "applied" THEN AfterApplied(r) ELSE "apply"]
      /\ cur' = [cur EXCEPT ![w] = key]
  BY DEF Ensure, r
<1>5. row[key] \in Rows /\ row \in [Keys -> Rows] /\ receipt \in [Tasks -> Receipts] /\ t \in Tasks
  BY DEF JCore, JTypeOK
<1>6. JTypeOK'
  <2>1. receipt' \in [Tasks -> Receipts]
    BY <1>1, <1>3, <1>5 DEF Confirmed, Receipts, Rows, Kinds
  <2>2. pc' \in [Workers -> PCs] /\ cur' \in [Workers -> Keys]
    BY <1>4 DEF JCore, JTypeOK, PCs, AfterApplied
  <2> QED BY <1>1, <1>2, <2>1, <2>2 DEF JCore, JTypeOK
<1>7. RowFacts'
  BY <1>1, <1>2, <1>5 DEF JCore, RowFacts, GoodFact
<1>8. SessionOnce'
  BY <1>2, <1>5 DEF JCore, SessionOnce
<1>9. r.state = "pending" => key \notin posted
  <2>1. CASE row[key].state # "none"
    BY <1>1, <1>5, <2>1 DEF JCore, PendingNotPosted, Rows
  <2>2. CASE row[key].state = "none" /\ key.kind \in SessionKinds
    BY <2>2 DEF JCore, SessionOnce
  <2>3. CASE row[key].state = "none" /\ key.kind \notin SessionKinds
    <3> SUFFICES ASSUME r.state = "pending", key \in posted PROVE FALSE OBVIOUS
    <3>1. r.entity /\ r.confirm /\ ~HasReceipt(key, r) /\ ConfirmAllowed(t, r.final, key.kind)
      BY <1>1, <1>3, <2>3 DEF GoodFact
    <3>2. key.kind = "taskRefund" => r.final = 0
      BY <1>1, <2>3 DEF GoodFact
    <3>3. CASE receipt[t].source = key.kind /\ receipt[t].applied
      BY <3>1, <3>2, <3>3, <1>5 DEF JCore, ReceiptGuards, HasReceipt, ConfirmAllowed, Kinds
    <3>4. CASE receipt[t].source = "taskRefund" /\ key.kind # "taskRefund"
      BY <3>1, <3>4 DEF ConfirmAllowed
    <3> QED BY <2>3, <3>3, <3>4 DEF JCore, ReceiptGuards
  <2> QED BY <2>1, <2>2, <2>3
<1>10. PendingNotPosted'
  BY <1>2, <1>5, <1>9 DEF JCore, PendingNotPosted
<1>11. /\ \A s \in Tasks \ {t} : receipt'[s] = receipt[s]
       /\ \/ receipt'[t] = receipt[t]
          \/ /\ receipt'[t].source = key.kind
             /\ receipt'[t].quota = r.final
             /\ receipt[t].source = "none" \/ key.kind = "taskRefund"
  BY <1>3, <1>5 DEF Confirmed, ConfirmAllowed, Receipts
<1>12. r.confirm => receipt'[t].source = key.kind
  BY <1>3, <1>5 DEF Confirmed, Receipts
<1>13. ReceiptGuards'
  <2>1. ASSUME NEW s \in Tasks, receipt'[s].source = "taskRefund"
        PROVE  receipt'[s].quota = 0
    <3>1. CASE receipt'[s] = receipt[s]
      BY <2>1, <3>1 DEF JCore, ReceiptGuards
    <3>2. CASE s = t /\ receipt'[t] # receipt[t]
      BY <2>1, <3>2, <1>1, <1>5, <1>11 DEF JCore, RowFacts, GoodFact
    <3> QED BY <3>1, <3>2, <1>11
  <2>2. ASSUME NEW k \in Keys, k.kind \notin SessionKinds
        PROVE  /\ row'[k].state = "pending" =>
                     \/ receipt'[k.task].source = k.kind
                     \/ receipt'[k.task].source = "taskRefund"
               /\ k \in posted =>
                     \/ receipt'[k.task].source = k.kind /\ receipt'[k.task].applied
                     \/ receipt'[k.task].source = "taskRefund" /\ k.kind # "taskRefund"
    <3>1. CASE k = key
      <4>1. row'[k] = r /\ r.confirm
        BY <1>1, <1>2, <1>5, <2>2, <3>1 DEF JCore, RowFacts, GoodFact
      <4>2. k \in posted => receipt'[t] = receipt[t]
        BY <2>2, <3>1, <4>1, <1>1, <1>3, <1>5 DEF JCore, ReceiptGuards, RowFacts, GoodFact, Confirmed, ConfirmAllowed, SessionKinds, Kinds
      <4> QED BY <2>2, <3>1, <4>1, <4>2, <1>12 DEF JCore, ReceiptGuards
    <3>2. CASE k # key /\ (k.task # t \/ receipt'[t] = receipt[t])
      BY <2>2, <3>2, <1>2, <1>5, <1>11 DEF JCore, ReceiptGuards
    <3>3. CASE k # key /\ k.task = t /\ receipt'[t] # receipt[t]
      <4>1. k.kind # key.kind BY <3>3
      <4>2. row'[k] = row[k] BY <3>3, <1>2, <1>5
      <4> QED BY <2>2, <3>3, <4>1, <4>2, <1>11 DEF JCore, ReceiptGuards, SessionKinds, Kinds
    <3> QED BY <3>1, <3>2, <3>3
  <2>3. posted' = posted BY <1>2
  <2> QED BY <2>1, <2>2, <2>3 DEF ReceiptGuards
<1>14. LogBeforeDone'
  BY <1>1, <1>2, <1>4, <1>5 DEF JCore, JTypeOK, LogBeforeDone, AfterApplied, GoodFact
<1>15. LogNotLost'
  <2> SUFFICES ASSUME NEW k \in posted, k.kind # "refund", k \notin logged
               PROVE  Pending(k)'
    BY <1>2 DEF LogNotLost
  <2>1. k \in Keys /\ Pending(k) BY DEF JCore, JTypeOK, LogNotLost
  <2>2. CASE k # key
    BY <2>1, <2>2, <1>2, <1>5 DEF Pending
  <2>3. CASE k = key
    <3>1. row[key].state = "applied" /\ ~row[key].logDone
      BY <2>1, <2>3 DEF Pending, JCore, PendingNotPosted
    <3> QED BY <2>3, <3>1, <1>1, <1>2, <1>5 DEF Pending
  <2> QED BY <2>2, <2>3
<1> QED BY <1>6, <1>7, <1>8, <1>10, <1>13, <1>14, <1>15 DEF JCore
--------------------------------------------------------------------------------
(* Submitting an operation *)

\* The facts that sessions and tasks submit are good facts.
LEMMA SubmittedFacts ==
    ASSUME JCore, NEW t \in Tasks
    PROVE  /\ \A c \in BOOLEAN : GoodFact(Key("settle", t), SettleFact(t, c))
           /\ GoodFact(Key("refund", t), RefundFact(t))
           /\ \A q, a \in Quotas : GoodFact(Key("recalculate", t), RecalculateFact(q, a))
           /\ \A q \in Quotas : GoodFact(Key("taskRefund", t), TaskRefundFact(q))
<1>1. reserved[t] \in Quotas /\ charge[t] \in Quotas /\ 0 \in Quotas
  BY NoRowIsRow DEF JCore, JTypeOK
<1> USE <1>1 DEF GoodFact, Fact, Rows, Key, SessionKinds
<1>2. ASSUME NEW c \in BOOLEAN PROVE GoodFact(Key("settle", t), SettleFact(t, c))
  <2>1. ASSUME NEW e \in BOOLEAN, NEW d \in BOOLEAN, e <=> t \in Enhanced
        PROVE  GoodFact(Key("settle", t), Fact(reserved[t], charge[t], e, d, TRUE))
    BY <2>1
  <2> DEFINE e == t \in Enhanced
             d == c /\ t \notin Enhanced
  <2>2. e \in BOOLEAN /\ d \in BOOLEAN /\ (e <=> t \in Enhanced)
    OBVIOUS
  <2>3. SettleFact(t, c) = Fact(reserved[t], charge[t], e, d, TRUE)
    BY Zenon DEF SettleFact
  <2> HIDE DEF e, d, GoodFact, Fact
  <2>4. GoodFact(Key("settle", t), Fact(reserved[t], charge[t], e, d, TRUE))
    BY <2>1, <2>2
  <2> QED BY <2>3, <2>4
<1>3. GoodFact(Key("refund", t), RefundFact(t))
  BY DEF RefundFact
<1>4. ASSUME NEW q \in Quotas, NEW a \in Quotas
      PROVE  GoodFact(Key("recalculate", t), RecalculateFact(q, a))
  BY DEF RecalculateFact
<1>5. ASSUME NEW q \in Quotas PROVE GoodFact(Key("taskRefund", t), TaskRefundFact(q))
  BY DEF TaskRefundFact
<1> QED BY <1>2, <1>3, <1>4, <1>5

\* A refused or failed Ensure changes nothing but the worker.
LEMMA EnsureFailsStep ==
    ASSUME JCore, NEW w \in Workers, NEW key \in Keys, NEW fact,
           EnsureFails(w, key, fact), opened \subseteq opened', opened' \subseteq Keys
    PROVE  JCore'
<1>1. pc' \in [Workers -> PCs] /\ cur' \in [Workers -> Keys]
  BY DEF EnsureFails, JCore, JTypeOK, PCs
<1>2. \A v \in Workers : pc'[v] = "mark" => cur'[v] \in logged
  BY DEF EnsureFails, JCore, JTypeOK, LogBeforeDone
<1>3. UNCHANGED <<reserved, charge, net, quota, row, receipt, logged, posted>>
  BY DEF EnsureFails
<1> QED BY <1>1, <1>2, <1>3, ControlStep

\* Submitting any operation keeps the invariant.
LEMMA SubmitStep ==
    ASSUME JCore, NEW w \in Workers, Submit(w)
    PROVE  JCore'
<1>1. ASSUME NEW key \in Keys, NEW fact, GoodFact(key, fact), SessionSubmit(w, key, fact)
      PROVE  JCore'
  <2>1. opened' \subseteq Keys /\ opened \subseteq opened' /\ key \in opened' /\ key \notin opened
    BY <1>1 DEF SessionSubmit, JCore, JTypeOK
  <2> QED BY <1>1, <2>1, EnsureStep, EnsureFailsStep DEF SessionSubmit
<1>2. ASSUME NEW key \in Keys, NEW fact, GoodFact(key, fact), TaskSubmit(w, key, fact),
             key.kind \notin SessionKinds
      PROVE  JCore'
  <2>1. opened' \subseteq Keys /\ opened \subseteq opened'
    BY <1>2 DEF TaskSubmit, JCore, JTypeOK
  <2> QED BY <1>2, <2>1, EnsureStep, EnsureFailsStep DEF TaskSubmit
<1>3. PICK t \in Tasks :
        \/ \E c \in BOOLEAN : SessionSubmit(w, Key("settle", t), SettleFact(t, c))
        \/ SessionSubmit(w, Key("refund", t), RefundFact(t))
        \/ \E q, a \in Quotas : TaskSubmit(w, Key("recalculate", t), RecalculateFact(q, a))
        \/ \E q \in Quotas : TaskSubmit(w, Key("taskRefund", t), TaskRefundFact(q))
  BY DEF Submit
<1>4. \A k \in Kinds : Key(k, t) \in Keys /\ Key(k, t).kind = k
  BY KeyFacts
<1>5. CASE \E c \in BOOLEAN : SessionSubmit(w, Key("settle", t), SettleFact(t, c))
  BY <1>1, <1>4, <1>5, SubmittedFacts DEF Kinds
<1>6. CASE SessionSubmit(w, Key("refund", t), RefundFact(t))
  BY <1>1, <1>4, <1>6, SubmittedFacts DEF Kinds
<1>7. CASE \E q, a \in Quotas : TaskSubmit(w, Key("recalculate", t), RecalculateFact(q, a))
  BY <1>2, <1>4, <1>7, SubmittedFacts DEF Kinds, SessionKinds
<1>8. CASE \E q \in Quotas : TaskSubmit(w, Key("taskRefund", t), TaskRefundFact(q))
  BY <1>2, <1>4, <1>8, SubmittedFacts DEF Kinds, SessionKinds
<1> QED BY <1>3, <1>5, <1>6, <1>7, <1>8
--------------------------------------------------------------------------------
(* The steps of a journal's executor *)

\* What the money transaction does, by operation: it either finds the entity at
\* its target and moves nothing, or it moves net, quota and posted as one
\* operation of the ledger that has not happened before.
LEMMA ApplyNowMoves ==
    ASSUME JCore, NEW w \in Workers, ApplyNow(w)
    PROVE  LET key == cur[w]
               t   == key.task
               r   == row[key]
           IN  /\ key \in Keys /\ t \in Tasks /\ r \in Rows /\ key \notin posted
               /\ \/ UNCHANGED <<net, quota, posted>>
                  \/ /\ posted' = posted \cup {key}
                     /\ net' = [net EXCEPT ![t] = @ + r.final - r.expected]
                     /\ \/ /\ ~r.entity
                           /\ key.kind \in SessionKinds
                           /\ quota' = quota
                        \/ /\ r.entity
                           /\ quota[t] = EntityExpected(key, r)
                           /\ quota' = [quota EXCEPT ![t] = r.final]
<1> DEFINE key == cur[w]
           t   == key.task
           r   == row[key]
<1>1. key \in Keys /\ t \in Tasks /\ r \in Rows
  BY KeyFacts DEF JCore, JTypeOK
<1>2. r.state = "pending" /\ ~EntityConflict(key)
  BY DEF ApplyNow
<1>3. key \notin posted
  BY <1>1, <1>2 DEF JCore, PendingNotPosted
<1>4. CASE AtTarget(key)
  BY <1>1, <1>3, <1>4 DEF ApplyNow
<1>5. CASE ~AtTarget(key)
  <2>1. /\ posted' = posted \cup {key}
        /\ net' = [net EXCEPT ![t] = @ + r.final - r.expected]
        /\ quota' = IF r.entity THEN [quota EXCEPT ![t] = r.final] ELSE quota
    BY <1>5 DEF ApplyNow
  <2>2. r.entity => quota[t] = EntityExpected(key, r)
    BY <1>2, <1>5 DEF AtTarget, EntityConflict
  <2>3. ~r.entity => key.kind \in SessionKinds
    BY <1>1, <1>2 DEF JCore, RowFacts
  <2> QED BY <1>1, <1>3, <2>1, <2>2, <2>3
<1> QED BY <1>4, <1>5

\* The money transaction keeps the rest of the invariant.
LEMMA ApplyNowStep ==
    ASSUME JCore, NEW w \in Workers, ApplyNow(w)
    PROVE  JCore'
<1> DEFINE key == cur[w]
           t   == key.task
           r   == row[key]
<1>1. /\ key \in Keys /\ t \in Tasks /\ r \in Rows /\ key \notin posted
      /\ \/ UNCHANGED <<net, quota, posted>>
         \/ /\ posted' = posted \cup {key}
            /\ net' = [net EXCEPT ![t] = @ + r.final - r.expected]
            /\ quota' = quota \/ quota' = [quota EXCEPT ![t] = r.final]
  BY ApplyNowMoves
<1>2. /\ r.state = "pending"
      /\ row' = [row EXCEPT ![key].state = "applied"]
      /\ receipt' = MarkReceipt(key, r)
      /\ pc' = [pc EXCEPT ![w] = AfterApplied(r)]
      /\ UNCHANGED <<reserved, charge, logged, opened, cur>>
  BY DEF ApplyNow
<1>3. posted \subseteq posted' /\ posted' \subseteq posted \cup {key}
  BY <1>1
<1>4. /\ \A k \in Keys \ {key} : row'[k] = row[k]
      /\ row'[key] = [r EXCEPT !.state = "applied"]
  BY <1>1, <1>2 DEF JCore, JTypeOK
<1>5. /\ row'[key].state = "applied" /\ row'[key].expected = r.expected
      /\ row'[key].final = r.final /\ row'[key].entity = r.entity
      /\ row'[key].confirm = r.confirm /\ row'[key].logDone = r.logDone
  BY <1>1, <1>4 DEF Rows
<1>6. /\ receipt \in [Tasks -> Receipts]
      /\ \/ receipt' = receipt /\ ~(r.confirm /\ receipt[t].source = key.kind)
         \/ receipt' = [receipt EXCEPT ![t] = [receipt[t] EXCEPT !.applied = TRUE]]
  BY <1>1, <1>2 DEF JCore, JTypeOK, MarkReceipt
<1>7. receipt' \in [Tasks -> Receipts]
  <2>0. t \in Tasks /\ receipt[t] \in Receipts BY <1>1, <1>6
  <2>1. t \in Tasks /\ [receipt[t] EXCEPT !.applied = TRUE] \in Receipts
    BY <2>0 DEF Receipts
  <2> QED BY <1>6, <2>1
<1>8. \A s \in Tasks : /\ receipt'[s].source = receipt[s].source
                       /\ receipt'[s].quota = receipt[s].quota
  BY <1>1, <1>6 DEF Receipts
<1>9. /\ \A s \in Tasks : receipt[s].applied => receipt'[s].applied
      /\ r.confirm /\ receipt[t].source = key.kind => receipt'[t].applied
  BY <1>1, <1>6 DEF Receipts
<1>10. JTypeOK'
  <2>1. row' \in [Keys -> Rows]
    BY <1>1, <1>2 DEF JCore, JTypeOK, Rows
  <2>2. net' \in [Tasks -> Int] /\ quota' \in [Tasks -> Quotas]
    BY <1>1 DEF JCore, JTypeOK, Rows, Quotas
  <2>3. pc' \in [Workers -> PCs]
    BY <1>2 DEF JCore, JTypeOK, PCs, AfterApplied
  <2> QED BY <1>1, <1>2, <1>3, <1>7, <2>1, <2>2, <2>3 DEF JCore, JTypeOK
<1>11. RowFacts'
  BY <1>1, <1>2, <1>4, <1>5 DEF JCore, RowFacts
<1>12. SessionOnce' /\ PendingNotPosted'
  BY <1>1, <1>2, <1>3, <1>4, <1>5 DEF JCore, SessionOnce, PendingNotPosted
<1>13. ReceiptGuards'
  <2>1. \A s \in Tasks : receipt'[s].source = "taskRefund" => receipt'[s].quota = 0
    BY <1>8 DEF JCore, ReceiptGuards
  <2>2. ASSUME NEW k \in Keys, k.kind \notin SessionKinds
        PROVE  /\ row'[k].state = "pending" =>
                     \/ receipt'[k.task].source = k.kind
                     \/ receipt'[k.task].source = "taskRefund"
               /\ k \in posted' =>
                     \/ receipt'[k.task].source = k.kind /\ receipt'[k.task].applied
                     \/ receipt'[k.task].source = "taskRefund" /\ k.kind # "taskRefund"
    <3>1. CASE k = key
      <4>1. r.confirm
        BY <1>1, <1>2, <2>2, <3>1 DEF JCore, RowFacts
      <4>2. receipt[t].source = key.kind \/ receipt[t].source = "taskRefund"
        BY <1>1, <1>2, <2>2, <3>1 DEF JCore, ReceiptGuards
      <4>3. receipt'[t].source = receipt[t].source
        BY <1>1, <1>8
      <4>4. receipt[t].source = key.kind => receipt'[t].applied
        BY <1>9, <4>1
      <4>5. row'[k].state # "pending"
        BY <1>5, <3>1
      <4> QED BY <3>1, <4>2, <4>3, <4>4, <4>5
    <3>2. CASE k # key
      <4>1. k.task \in Tasks /\ row'[k] = row[k] /\ (k \in posted' => k \in posted)
        BY <1>3, <1>4, <3>2, KeyFacts
      <4>2. /\ receipt'[k.task].source = receipt[k.task].source
            /\ receipt[k.task].applied => receipt'[k.task].applied
        BY <1>8, <1>9, <4>1
      <4>3. /\ row[k].state = "pending" =>
                  \/ receipt[k.task].source = k.kind
                  \/ receipt[k.task].source = "taskRefund"
            /\ k \in posted =>
                  \/ receipt[k.task].source = k.kind /\ receipt[k.task].applied
                  \/ receipt[k.task].source = "taskRefund" /\ k.kind # "taskRefund"
        BY <2>2 DEF JCore, ReceiptGuards
      <4> QED BY <4>1, <4>2, <4>3
    <3> QED BY <3>1, <3>2
  <2> QED BY <2>1, <2>2 DEF ReceiptGuards
<1>14. LogBeforeDone'
  BY <1>1, <1>2, <1>4, <1>5 DEF JCore, JTypeOK, LogBeforeDone, AfterApplied
<1>15. LogNotLost'
  <2> SUFFICES ASSUME NEW k \in posted', k.kind # "refund", k \notin logged
               PROVE  Pending(k)'
    BY <1>2 DEF LogNotLost
  <2>1. CASE k = key
    BY <1>1, <1>2, <1>5, <2>1 DEF Pending, JCore, LogBeforeDone
  <2>2. CASE k # key
    BY <1>3, <1>4, <2>2 DEF Pending, JCore, JTypeOK, LogNotLost
  <2> QED BY <2>1, <2>2
<1> QED BY <1>10, <1>11, <1>12, <1>13, <1>14, <1>15 DEF JCore

\* Writing the log, marking it done and deleting the completed row keep the
\* invariant.
LEMMA OutboxStep ==
    ASSUME JCore, NEW w \in Workers, WriteLog(w) \/ MarkLogDone(w) \/ DeleteRow(w)
    PROVE  JCore'
<1> DEFINE key == cur[w]
<1>1. key \in Keys /\ row \in [Keys -> Rows] /\ row[key] \in Rows
  BY DEF JCore, JTypeOK
<1>2. UNCHANGED <<reserved, charge, net, quota, receipt, posted, opened, cur>>
  BY DEF WriteLog, MarkLogDone, DeleteRow
<1>3. pc' \in [Workers -> PCs]
  BY DEF JCore, JTypeOK, PCs, WriteLog, MarkLogDone, DeleteRow
<1>5. /\ logged \subseteq logged' /\ logged' \subseteq Keys
      /\ row' \in [Keys -> Rows]
      /\ \A k \in Keys \ {key} : row'[k] = row[k]
      /\ \/ row'[key].state = "none" /\ row[key].state = "applied" /\ row[key].logDone
         \/ /\ row'[key].state = row[key].state
            /\ row'[key].expected = row[key].expected /\ row'[key].final = row[key].final
            /\ row'[key].entity = row[key].entity /\ row'[key].confirm = row[key].confirm
            /\ \/ row'[key].logDone = row[key].logDone
               \/ row[key].state = "applied" /\ key \in logged
  <2>1. CASE WriteLog(w)
    BY <1>1, <2>1 DEF WriteLog, JCore, JTypeOK
  <2>2. CASE MarkLogDone(w)
    <3>1. key \in logged BY <2>2 DEF MarkLogDone, JCore, LogBeforeDone
    <3>2. CASE row[key].state = "applied"
      <4>1. row' = [row EXCEPT ![key].logDone = TRUE] /\ logged' = logged
        BY <2>2, <3>2 DEF MarkLogDone
      <4>2. row'[key] = [row[key] EXCEPT !.logDone = TRUE] /\ row' \in [Keys -> Rows]
        BY <1>1, <4>1 DEF Rows
      <4> QED BY <1>1, <3>1, <3>2, <4>1, <4>2 DEF Rows, JCore, JTypeOK
    <3>3. CASE row[key].state # "applied"
      BY <1>1, <2>2, <3>3 DEF MarkLogDone, JCore, JTypeOK
    <3> QED BY <3>2, <3>3
  <2>3. CASE DeleteRow(w)
    BY <1>1, <2>3, NoRowIsRow DEF DeleteRow, JCore, JTypeOK
  <2> QED BY <2>1, <2>2, <2>3
<1>6. JTypeOK'
  BY <1>2, <1>3, <1>5 DEF JCore, JTypeOK
<1>7. RowFacts' /\ SessionOnce' /\ PendingNotPosted'
  BY <1>1, <1>2, <1>5 DEF JCore, RowFacts, SessionOnce, PendingNotPosted
<1>8. ReceiptGuards'
  BY <1>1, <1>2, <1>5 DEF JCore, ReceiptGuards
<1>9. LogBeforeDone'
  <2>1. \A k \in Keys : row'[k].state # "none" /\ row'[k].logDone => k.kind = "refund" \/ k \in logged'
    BY <1>1, <1>5 DEF JCore, LogBeforeDone
  <2>2. \A v \in Workers : pc'[v] = "mark" => cur[v] \in logged'
    BY <1>5 DEF JCore, JTypeOK, LogBeforeDone, WriteLog, MarkLogDone, DeleteRow
  <2> QED BY <1>2, <2>1, <2>2 DEF LogBeforeDone
<1>10. LogNotLost'
  <2> SUFFICES ASSUME NEW k \in posted, k.kind # "refund", k \notin logged'
               PROVE  Pending(k)'
    BY <1>2 DEF LogNotLost
  <2>1. k \in Keys /\ k \notin logged /\ Pending(k)
    BY <1>5 DEF JCore, JTypeOK, LogNotLost
  <2>2. CASE k = key
    BY <1>1, <1>5, <2>1, <2>2 DEF Pending, JCore, LogBeforeDone
  <2>3. CASE k # key
    BY <1>5, <2>1, <2>3 DEF Pending
  <2> QED BY <2>2, <2>3
<1> QED BY <1>6, <1>7, <1>8, <1>9, <1>10 DEF JCore

\* Confirming an expense without moving anything keeps the invariant.
LEMMA ConfirmStep ==
    ASSUME JCore, ConfirmOnly
    PROVE  JCore'
<1>1. PICK t \in Tasks, q \in Quotas, k \in {"taskRefund", "recalculate"} :
        /\ k = "taskRefund" => q = 0
        /\ ConfirmExpense(Key(k, t), q)
  BY NoRowIsRow DEF ConfirmOnly
<1>2. /\ Key(k, t).task = t /\ Key(k, t).kind = k /\ receipt \in [Tasks -> Receipts]
      /\ k \in Kinds
  BY KeyFacts DEF Kinds, JCore, JTypeOK
<1>3. /\ ConfirmAllowed(t, q, k)
      /\ receipt' = [receipt EXCEPT ![t] = Confirmed(t, q, k, TRUE)]
      /\ UNCHANGED <<reserved, charge, net, quota, row, logged, posted, opened, pc, cur>>
  BY <1>1, <1>2 DEF ConfirmExpense, ConfirmOnly
<1>4. receipt' \in [Tasks -> Receipts]
  BY <1>1, <1>2, <1>3 DEF Confirmed, Receipts
<1>5. /\ \A s \in Tasks \ {t} : receipt'[s] = receipt[s]
      /\ \/ receipt'[t] = receipt[t]
         \/ /\ receipt'[t].source = k /\ receipt'[t].quota = q
            /\ receipt[t].source = "none" \/ (k = "taskRefund" /\ receipt[t].source # "taskRefund")
  <2>1. receipt[t].source = "taskRefund" => receipt[t].quota = 0
    BY DEF JCore, ReceiptGuards
  <2> QED BY <1>1, <1>2, <1>3, <2>1 DEF Confirmed, ConfirmAllowed, Receipts
<1>6. ReceiptGuards'
  <2>1. ASSUME NEW s \in Tasks, receipt'[s].source = "taskRefund"
        PROVE  receipt'[s].quota = 0
    BY <1>1, <1>5, <2>1 DEF JCore, ReceiptGuards
  <2>2. ASSUME NEW key \in Keys, key.kind \notin SessionKinds
        PROVE  /\ row[key].state = "pending" =>
                     \/ receipt'[key.task].source = key.kind
                     \/ receipt'[key.task].source = "taskRefund"
               /\ key \in posted =>
                     \/ receipt'[key.task].source = key.kind /\ receipt'[key.task].applied
                     \/ receipt'[key.task].source = "taskRefund" /\ key.kind # "taskRefund"
    <3>1. CASE receipt'[key.task] = receipt[key.task]
      BY <2>2, <3>1 DEF JCore, ReceiptGuards
    <3>2. CASE key.task = t /\ receipt'[t] # receipt[t]
      BY <1>5, <2>2, <3>2, KeyFacts DEF JCore, ReceiptGuards, SessionKinds, Kinds
    <3> QED BY <1>5, <3>1, <3>2, KeyFacts
  <2> QED BY <1>3, <2>1, <2>2 DEF ReceiptGuards
<1>7. JTypeOK' BY <1>3, <1>4 DEF JCore, JTypeOK
<1>8. RowFacts' /\ SessionOnce' /\ PendingNotPosted'
  BY <1>3 DEF JCore, RowFacts, SessionOnce, PendingNotPosted
<1>9. LogBeforeDone' /\ LogNotLost'
  BY <1>3 DEF JCore, LogBeforeDone, LogNotLost, Pending
<1> QED BY <1>6, <1>7, <1>8, <1>9 DEF JCore
--------------------------------------------------------------------------------
(* The steps together *)

\* JCore is inductive.
LEMMA NextJCore == JCore /\ [JNext]_jvars => JCore'
<1> SUFFICES ASSUME JCore, [JNext]_jvars PROVE JCore' OBVIOUS
<1>1. CASE ConfirmOnly BY <1>1, ConfirmStep
<1>2. ASSUME NEW w \in Workers, Submit(w) PROVE JCore'
  BY <1>2, SubmitStep
<1>3. ASSUME NEW w \in Workers, JournalStep(w) PROVE JCore'
  BY <1>3, ApplyNowStep, OutboxStep, ControlActions DEF JournalStep
<1>4. ASSUME NEW w \in Workers,
             \/ StepFails(w) \/ Crash(w) \/ Return(w)
             \/ \E key \in Keys : SweepPick(w, key)
      PROVE  JCore'
  BY <1>4, ControlActions
<1>5. CASE UNCHANGED jvars
  BY <1>5, StutterStep DEF jvars
<1> QED BY <1>1, <1>2, <1>3, <1>4, <1>5 DEF JNext

\* Any journal step but the money transaction leaves the ledger alone.
LEMMA QuietSteps ==
    ASSUME [JNext]_jvars, ~ \E w \in Workers : ApplyNow(w)
    PROVE  UNCHANGED Ledger!lvars
<1>1. CASE UNCHANGED jvars BY <1>1 DEF jvars, Ledger!lvars
<1>2. CASE ConfirmOnly BY <1>2 DEF ConfirmOnly, ConfirmExpense, Ledger!lvars
<1>3. ASSUME NEW w \in Workers, Submit(w) PROVE UNCHANGED Ledger!lvars
  BY <1>3 DEF Submit, SessionSubmit, TaskSubmit, Ensure, EnsureFails, Ledger!lvars
<1>4. ASSUME NEW w \in Workers, JournalStep(w) PROVE UNCHANGED Ledger!lvars
  BY <1>4 DEF JournalStep, ApplyAgain, ApplyRefused, WriteLog, MarkLogDone, DeleteRow, Ledger!lvars
<1>5. ASSUME NEW w \in Workers,
             \/ StepFails(w) \/ Crash(w) \/ Return(w)
             \/ \E key \in Keys : SweepPick(w, key)
      PROVE  UNCHANGED Ledger!lvars
  BY <1>5 DEF StepFails, Crash, Return, SweepPick, Ledger!lvars
<1> QED BY <1>1, <1>2, <1>3, <1>4, <1>5 DEF JNext

\* Where nobody moves balances, quota or postings, they stay reconciled.
LEMMA QuietReconciled ==
    ASSUME Reconciled, UNCHANGED Ledger!lvars
    PROVE  Reconciled'
BY DEF Reconciled, Outstanding, InitialQuota, Ledger!lvars

\* The money transaction keeps balances and quota columns reconciled.
LEMMA ApplyNowReconciled ==
    ASSUME JInv, NEW w \in Workers, ApplyNow(w)
    PROVE  Reconciled'
<1> DEFINE key == cur[w]
           t   == key.task
           r   == row[key]
<1>1. /\ key \in Keys /\ t \in Tasks /\ r \in Rows /\ key \notin posted
      /\ \/ UNCHANGED <<net, quota, posted>>
         \/ /\ posted' = posted \cup {key}
            /\ net' = [net EXCEPT ![t] = @ + r.final - r.expected]
            /\ \/ ~r.entity /\ key.kind \in SessionKinds /\ quota' = quota
               \/ /\ r.entity
                  /\ quota[t] = EntityExpected(key, r)
                  /\ quota' = [quota EXCEPT ![t] = r.final]
  BY ApplyNowMoves DEF JInv
<1>2. UNCHANGED <<reserved, charge>> BY DEF ApplyNow
<1>3. CASE UNCHANGED <<net, quota, posted>>
  BY <1>2, <1>3 DEF JInv, JCore, Reconciled, Outstanding, InitialQuota
<1>4. CASE /\ posted' = posted \cup {key}
           /\ net' = [net EXCEPT ![t] = @ + r.final - r.expected]
           /\ \/ ~r.entity /\ key.kind \in SessionKinds /\ quota' = quota
              \/ /\ r.entity
                 /\ quota[t] = EntityExpected(key, r)
                 /\ quota' = [quota EXCEPT ![t] = r.final]
  <2> SUFFICES ASSUME NEW s \in Tasks PROVE net'[s] = quota'[s] + Outstanding(s)'
    BY DEF Reconciled
  <2>1. /\ net[s] \in Int /\ quota[s] \in Int /\ reserved[s] \in Int /\ charge[s] \in Int
        /\ r.final \in Int /\ r.expected \in Int /\ InitialQuota(s) \in Int
    BY <1>1 DEF JInv, JCore, JTypeOK, Quotas, Rows, InitialQuota
  <2>2. net[s] = quota[s] + Outstanding(s) /\ Outstanding(s) \in Int
    BY <2>1 DEF JInv, JCore, Reconciled, Outstanding
  <2>3. InitialQuota(s)' = InitialQuota(s) BY <1>2 DEF InitialQuota
  <2>4. CASE s # t
    <3>1. \A k \in Kinds : Key(k, s) \in posted' <=> Key(k, s) \in posted
      BY <1>1, <1>4, <2>4, KeyFacts
    <3>2. Outstanding(s)' = Outstanding(s)
      BY <1>2, <2>3, <3>1 DEF Outstanding, Kinds
    <3>3. net'[s] = net[s] /\ quota'[s] = quota[s]
      BY <1>1, <1>4, <2>4 DEF JInv, JCore, JTypeOK
    <3> QED BY <2>2, <3>2, <3>3
  <2>5. CASE s = t
    <3>1. net'[s] = net[s] + r.final - r.expected
      BY <1>1, <1>4, <2>5 DEF JInv, JCore, JTypeOK
    <3>2. r.state = "pending" BY DEF ApplyNow
    <3>3. \A k \in Kinds : Key(k, s) \in posted' <=> Key(k, s) \in posted \/ k = key.kind
      BY <1>1, <1>4, <2>5, KeyFacts
    <3>4. Key(key.kind, s) \notin posted BY <1>1, <2>5, KeyFacts
    <3>5. CASE key.kind = "settle"
      <4>1. /\ r.expected = reserved[s] /\ r.final = charge[s]
            /\ r.entity <=> s \in Enhanced
        BY <1>1, <2>5, <3>2, <3>5 DEF JInv, JCore, RowFacts
      <4>2. Outstanding(s)' = Outstanding(s) - (reserved[s] - InitialQuota(s))
        BY <1>2, <2>1, <2>3, <3>3, <3>4, <3>5 DEF Outstanding, Kinds
      <4>3. quota'[s] = quota[s] + charge[s] - InitialQuota(s)
        BY <1>1, <1>4, <2>1, <2>5, <3>5, <4>1 DEF JInv, JCore, JTypeOK, EntityExpected, InitialQuota
      <4> QED BY <2>1, <2>2, <3>1, <4>1, <4>2, <4>3
    <3>6. CASE key.kind = "refund"
      <4>1. r.expected = reserved[s] /\ r.final = 0 /\ ~r.entity
        BY <1>1, <2>5, <3>2, <3>6 DEF JInv, JCore, RowFacts
      <4>2. Outstanding(s)' = Outstanding(s) - reserved[s]
        BY <1>2, <2>1, <2>3, <3>3, <3>4, <3>6 DEF Outstanding, Kinds
      <4> QED BY <1>4, <2>1, <2>2, <3>1, <4>1, <4>2
    <3>7. CASE key.kind \notin SessionKinds
      <4>1. r.entity BY <1>1, <3>2, <3>7 DEF JInv, JCore, RowFacts
      <4>2. quota[s] = r.expected /\ quota'[s] = r.final
        BY <1>1, <1>4, <2>5, <3>7, <4>1 DEF JInv, JCore, JTypeOK, EntityExpected, SessionKinds
      <4>3. Outstanding(s)' = Outstanding(s)
        BY <1>2, <2>3, <3>3, <3>7 DEF Outstanding, Kinds, SessionKinds
      <4> QED BY <2>1, <2>2, <3>1, <4>2, <4>3
    <3> QED BY <3>5, <3>6, <3>7 DEF SessionKinds
  <2> QED BY <2>4, <2>5
<1> QED BY <1>1, <1>3, <1>4

\* JInv is inductive.
LEMMA NextJInv == JInv /\ [JNext]_jvars => JInv'
<1> SUFFICES ASSUME JInv, [JNext]_jvars PROVE JInv' OBVIOUS
<1>1. JCore' BY NextJCore DEF JInv
<1>2. CASE \E w \in Workers : ApplyNow(w)
  BY <1>1, <1>2, ApplyNowReconciled DEF JInv
<1>3. CASE ~ \E w \in Workers : ApplyNow(w)
  BY <1>1, <1>3, QuietSteps, QuietReconciled DEF JInv
<1> QED BY <1>2, <1>3
--------------------------------------------------------------------------------
(* The theorems *)

\* Every reachable state satisfies the inductive invariant.
THEOREM JInvCorrect == JSpec => []JInv
BY InitJInv, NextJInv, PTL DEF JSpec

\* Type correctness, for any number of tasks, workers and any bound on amounts.
THEOREM JTypeCorrect == JSpec => []JTypeOK
<1>1. JInv => JTypeOK BY DEF JInv, JCore
<1> QED BY <1>1, JInvCorrect, PTL

\* Balances and quota columns reconcile in every reachable state, whatever
\* stale facts are replayed and whichever worker crashes.
THEOREM ReconciledCorrect == JSpec => []Reconciled
<1>1. JInv => Reconciled BY DEF JInv
<1> QED BY <1>1, JInvCorrect, PTL

\* No log of an operation that moved the balances is ever lost.
THEOREM LogNotLostCorrect == JSpec => []LogNotLost
<1>1. JInv => LogNotLost BY DEF JInv, JCore
<1> QED BY <1>1, JInvCorrect, PTL
--------------------------------------------------------------------------------
(* Refinement *)

\* The money transaction is one ledger operation, or moves nothing.
LEMMA ApplyNowRefines ==
    ASSUME JCore, NEW w \in Workers, ApplyNow(w)
    PROVE  [Ledger!LNext]_(Ledger!lvars)
<1> DEFINE key == cur[w]
           t   == key.task
           r   == row[key]
<1>1. /\ key \in Keys /\ t \in Tasks /\ r \in Rows /\ key \notin posted
      /\ \/ UNCHANGED <<net, quota, posted>>
         \/ /\ posted' = posted \cup {key}
            /\ net' = [net EXCEPT ![t] = @ + r.final - r.expected]
            /\ \/ ~r.entity /\ key.kind \in SessionKinds /\ quota' = quota
               \/ /\ r.entity
                  /\ quota[t] = EntityExpected(key, r)
                  /\ quota' = [quota EXCEPT ![t] = r.final]
  BY ApplyNowMoves
<1>2. UNCHANGED <<reserved, charge>> /\ r.state = "pending" BY DEF ApplyNow
<1>3. CASE UNCHANGED <<net, quota, posted>>
  BY <1>2, <1>3 DEF Ledger!lvars
<1>4. CASE ~ UNCHANGED <<net, quota, posted>>
  <2>1. /\ net \in [Tasks -> Int] /\ net[t] \in Int /\ quota[t] \in Int
        /\ reserved[t] \in Int /\ charge[t] \in Int
        /\ r.final \in Quotas /\ r.final \in Int /\ r.expected \in Int
    BY <1>1 DEF JCore, JTypeOK, Quotas, Rows
  <2>2. key = Key(key.kind, t) /\ key.kind \in Kinds BY <1>1, KeyFacts
  <2>3. Ledger!Once(key.kind, t)
    BY <1>1, <1>2, <1>4, <2>2 DEF Ledger!Once, Ledger!Op, Key
  <2>4. net' = [net EXCEPT ![t] = net[t] + (r.final - r.expected)]
    BY <1>1, <1>4, <2>1
  <2>5. CASE key.kind = "settle"
    <3>1. r.expected = reserved[t] /\ r.final = charge[t] /\ (r.entity <=> t \in Enhanced)
      BY <1>1, <1>2, <2>5 DEF JCore, RowFacts
    <3>2. Ledger!Move(t, charge[t] - reserved[t])
      BY <2>4, <3>1 DEF Ledger!Move
    <3>3. IF t \in Enhanced
          THEN quota[t] = 0 /\ quota' = [quota EXCEPT ![t] = charge[t]]
          ELSE UNCHANGED quota
      BY <1>1, <1>4, <2>5, <3>1 DEF EntityExpected
    <3>4. Ledger!Settle(t)
      BY <2>3, <2>5, <3>2, <3>3 DEF Ledger!Settle
    <3> QED BY <1>1, <3>4 DEF Ledger!LNext
  <2>6. CASE key.kind = "refund"
    <3>1. r.expected = reserved[t] /\ r.final = 0 /\ ~r.entity
      BY <1>1, <1>2, <2>6 DEF JCore, RowFacts
    <3>2. Ledger!Refund(t)
      BY <1>1, <1>4, <2>3, <2>4, <2>6, <3>1 DEF Ledger!Refund, Ledger!Move
    <3> QED BY <1>1, <3>2 DEF Ledger!LNext
  <2>7. CASE key.kind \notin SessionKinds
    <3>1. r.entity /\ (key.kind = "taskRefund" => r.final = 0)
      BY <1>1, <1>2, <2>7 DEF JCore, RowFacts
    <3>2. quota[t] = r.expected /\ quota' = [quota EXCEPT ![t] = r.final]
      BY <1>1, <1>4, <2>7, <3>1 DEF EntityExpected, SessionKinds
    <3>3. Ledger!Requote(key.kind, t, r.final)
      BY <2>3, <2>4, <3>2 DEF Ledger!Requote, Ledger!Move
    <3>4. key.kind = "taskRefund" \/ key.kind = "recalculate"
      BY <2>2, <2>7 DEF SessionKinds, Kinds
    <3>5. CASE key.kind = "taskRefund"
      BY <1>1, <3>1, <3>3, <3>5 DEF Ledger!LNext
    <3>6. CASE key.kind = "recalculate"
      <4>1. r.final \in Ledger!Amounts BY <2>1 DEF Quotas, Ledger!Amounts
      <4> QED BY <1>1, <3>3, <3>6, <4>1 DEF Ledger!LNext
    <3> QED BY <3>4, <3>5, <3>6
  <2> QED BY <2>5, <2>6, <2>7 DEF SessionKinds
<1> QED BY <1>3, <1>4

\* The journal implements the ledger: for any tasks, workers and amounts, the
\* balances move by whole operations, each at most once, with the quota column.
THEOREM LedgerRefinement == JSpec => ImplementsLedger
<1>1. JInit => Ledger!LInit
  BY DEF JInit, InitialQuota, Quotas, Ledger!LInit, Ledger!StartQuota, Ledger!Amounts
<1>2. JCore /\ [JNext]_jvars => [Ledger!LNext]_(Ledger!lvars)
  <2> SUFFICES ASSUME JCore, [JNext]_jvars PROVE [Ledger!LNext]_(Ledger!lvars)
    OBVIOUS
  <2>1. CASE \E w \in Workers : ApplyNow(w) BY <2>1, ApplyNowRefines
  <2>2. CASE ~ \E w \in Workers : ApplyNow(w) BY <2>2, QuietSteps
  <2> QED BY <2>1, <2>2
<1>3. JInv => JCore BY DEF JInv
<1> QED BY <1>1, <1>2, <1>3, JInvCorrect, PTL DEF JSpec, ImplementsLedger, Ledger!LSpec
================================================================================
