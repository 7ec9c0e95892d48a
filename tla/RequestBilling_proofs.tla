-------------------------- MODULE RequestBilling_proofs --------------------------
(***************************************************************************)
(* Proofs about RequestBilling, for any number of requests, sweeps and     *)
(* fees, any preferences and any balances.  RInv is inductive; the journal *)
(* part of it is kept by the lemmas of SettlementJournal_proofs.           *)
(***************************************************************************)
EXTENDS RequestBilling, SettlementJournal_proofs

\* Requests are tasks and workers; their keys are keys.
LEMMA RequestFacts ==
    /\ \A r \in Requests : r \in Tasks /\ r \in Workers /\ Owner[r] = r
    /\ \A t \in Tasks : Owner[t] \in Requests
    /\ \A t \in Tasks, k \in SessionKinds : Key(k, t) \in Keys
    /\ MaxQuota \in Nat /\ 0 \in Quotas /\ 1 \in Quotas
BY RequestConstants, ConstantsAssumption, KeyFacts DEF SessionKinds, Kinds, Quotas

\* What a preference tries is a source or nothing.
LEMMA TryingIsSource == \A r \in Requests : Trying(r) \in Sources \cup {"none"}
<1> SUFFICES ASSUME NEW r \in Requests PROVE Trying(r) \in Sources \cup {"none"}
  OBVIOUS
<1>1. Preference[r] \in {"wallet_only", "subscription_only", "wallet_first", "subscription_first"}
  BY RequestConstants DEF Preferences
<1>2. \A p \in {"wallet_only", "subscription_only", "wallet_first", "subscription_first"}, i \in {1, 2} :
         Preferences[p][i] \in Sources \cup {"none"}
  BY DEF Preferences, Sources
<1> QED BY <1>1, <1>2 DEF Trying

\* Every initial state satisfies the inductive invariant.
LEMMA InitRInv == RInit => RInv
<1> SUFFICES ASSUME RInit PROVE RInv OBVIOUS
<1> USE NoRowIsRow, IdleKeyIsKey, RequestFacts, RequestConstants
<1>1. JTypeOK
  BY DEF RInit, JTypeOK, NoReceipt, Receipts, Quotas, PCs
<1>2. RowFacts /\ SessionOnce /\ PendingNotPosted
  BY DEF RInit, RowFacts, SessionOnce, PendingNotPosted
<1>3. ReceiptGuards
  BY DEF RInit, ReceiptGuards, NoReceipt
<1>4. LogBeforeDone /\ LogNotLost
  BY DEF RInit, LogBeforeDone, LogNotLost
<1>5. Reconciled
  <2> SUFFICES ASSUME NEW t \in Tasks PROVE net[t] = quota[t] + Outstanding(t)
    BY DEF Reconciled
  <2>1. reserved[t] = 0 /\ net[t] = 0 /\ charge[t] \in Int /\ quota[t] = charge[t] /\ posted = {}
    BY DEF RInit, Quotas
  <2>2. Outstanding(t) = (0 - charge[t]) - 0
    BY <2>1 DEF Outstanding, InitialQuota
  <2> QED BY <2>1, <2>2
<1>6. quota = charge /\ SessionRowsOnly /\ FeesOneShot
  BY DEF RInit, SessionRowsOnly, FeesOneShot
<1>7. Lifecycle
  BY DEF RInit, Lifecycle, LifecycleOf, Quotas
<1>8. RTypeOK
  BY <1>1 DEF RInit, RTypeOK, Places, Quotas
<1>9. TokenFollowsFunding /\ OnlyUseOverdraws
  BY DEF RInit, TokenFollowsFunding, OnlyUseOverdraws
<1> QED BY <1>1, <1>2, <1>3, <1>4, <1>5, <1>6, <1>7, <1>8, <1>9 DEF RInv, JCore
--------------------------------------------------------------------------------
(* Admission and reservation *)

\* What Admit and Reserve have in common: a is taken from s and added to the
\* reservation of a request that has submitted nothing yet.
Reservation(r, s, a, debt) ==
    /\ a \in Nat /\ reserved[r] + a \in Quotas
    /\ s \in Sources \cup {"none"} /\ source[r] \in {"none", s}
    /\ s = "none" => reserved[r] + a = 0
    /\ at[r] \in {"first", "second", "open"}
    /\ at[r] = "open" => source[r] = s
    /\ Take(r, s, a, debt)
    /\ reserved' = [reserved EXCEPT ![r] = @ + a]
    /\ source' = [source EXCEPT ![r] = s]
    /\ at' = [at EXCEPT ![r] = "open"]
    /\ trusted' \in [Requests -> BOOLEAN]
    /\ extraReserved' \in [Requests -> Quotas]
    /\ extraReserved[r] <= extraReserved'[r] /\ extraReserved'[r] <= reserved[r] + a
    /\ \A x \in Requests \ {r} : extraReserved'[x] = extraReserved[x]
    /\ debt /\ a > 0 => r \notin Image /\ extraReserved'[r] > 0
    /\ Quiet

\* Admit makes the first reservation of a request.
LEMMA AdmitReserves ==
    ASSUME RInv, NEW r \in Requests, NEW q \in Quotas, NEW trust \in BOOLEAN, Admit(r, q, trust)
    PROVE  \E a \in Nat : Reservation(r, Trying(r), a, FALSE)
<1> DEFINE s == Trying(r)
<1>1. s \in Sources \cup {"none"} BY TryingIsSource
<1>2. (IF trust THEN 0 ELSE PreConsumed(s, q)) \in Quotas
  BY RequestFacts DEF PreConsumed, Quotas
<1>3. PICK a \in Quotas :
         /\ at[r] \in {"first", "second"} /\ Take(r, s, a, FALSE)
         /\ reserved' = [reserved EXCEPT ![r] = a]
         /\ source' = [source EXCEPT ![r] = s]
         /\ trusted' = [trusted EXCEPT ![r] = trust]
         /\ at' = [at EXCEPT ![r] = "open"]
         /\ Quiet /\ extraReserved' = extraReserved
  BY <1>2 DEF Admit, Goto
<1> HIDE DEF s
<1>4. /\ source[r] = "none" /\ reserved[r] = 0 /\ extraReserved[r] <= 0
      /\ reserved \in [Tasks -> Quotas] /\ trusted \in [Requests -> BOOLEAN]
      /\ extraReserved \in [Requests -> Quotas] /\ r \in Tasks
  BY <1>3, RequestFacts DEF RInv, Lifecycle, LifecycleOf, RTypeOK, JTypeOK
<1>5. s = "none" => a = 0
  BY <1>3 DEF Take, FundingAllows
<1>6. a \in Nat /\ 0 + a = a BY RequestFacts DEF Quotas
<1>7. reserved' = [reserved EXCEPT ![r] = @ + a]
  BY <1>3, <1>4, <1>6
<1>8. extraReserved[r] \in Nat BY <1>4 DEF Quotas
<1>9. trusted' \in [Requests -> BOOLEAN] BY <1>3, <1>4
<1>10. /\ extraReserved' \in [Requests -> Quotas]
       /\ extraReserved[r] <= extraReserved'[r] /\ extraReserved'[r] <= reserved[r] + a
       /\ \A x \in Requests \ {r} : extraReserved'[x] = extraReserved[x]
  BY <1>3, <1>4, <1>6, <1>8
<1>11. reserved[r] + a \in Quotas /\ (s = "none" => reserved[r] + a = 0)
  BY <1>4, <1>5, <1>6
<1>12. Reservation(r, s, a, FALSE)
  BY <1>1, <1>3, <1>4, <1>6, <1>7, <1>9, <1>10, <1>11 DEF Reservation
<1> QED BY <1>6, <1>12 DEF s

\* Reserve makes the later ones.
LEMMA ReserveReserves ==
    ASSUME RInv, NEW r \in Requests, NEW q \in Quotas, Reserve(r, q)
    PROVE  \E a \in Nat : Reservation(r, source[r], a, r \notin Image)
<1> DEFINE s == source[r]
           a == q - reserved[r]
<1>1. /\ reserved \in [Tasks -> Quotas] /\ trusted \in [Requests -> BOOLEAN]
      /\ extraReserved \in [Requests -> Quotas] /\ at \in [Requests -> Places]
      /\ source \in [Requests -> Sources \cup {"none"}]
      /\ extraReserved[r] <= reserved[r] /\ r \in Tasks
  BY RequestFacts DEF RInv, Lifecycle, LifecycleOf, RTypeOK, JTypeOK
<1>2. /\ at[r] = "open" /\ source[r] # "none" /\ a > 0
      /\ Take(r, s, a, r \notin Image)
      /\ reserved' = [reserved EXCEPT ![r] = q]
      /\ extraReserved' = [extraReserved EXCEPT ![r] = @ + a]
      /\ trusted' = [trusted EXCEPT ![r] = FALSE]
      /\ Quiet /\ UNCHANGED <<at, source>>
  BY DEF Reserve
<1>3. a \in Nat /\ reserved[r] + a = q /\ reserved[r] \in Quotas /\ extraReserved[r] \in Quotas
  BY <1>1, <1>2, RequestFacts DEF Quotas
<1>4. extraReserved[r] + a \in Quotas /\ extraReserved[r] + a <= reserved[r] + a
      /\ extraReserved[r] <= extraReserved[r] + a /\ extraReserved[r] + a > 0
  BY <1>1, <1>2, <1>3, RequestFacts DEF Quotas
<1>5. /\ extraReserved' \in [Requests -> Quotas] /\ extraReserved'[r] = extraReserved[r] + a
      /\ \A x \in Requests \ {r} : extraReserved'[x] = extraReserved[x]
  BY <1>1, <1>2, <1>4
<1>6. /\ reserved' = [reserved EXCEPT ![r] = @ + a]
      /\ source' = [source EXCEPT ![r] = s]
      /\ at' = [at EXCEPT ![r] = "open"]
      /\ trusted' \in [Requests -> BOOLEAN]
  BY <1>1, <1>2, <1>3
<1>7. s \in Sources /\ s # "none" BY <1>1, <1>2
<1> QED BY <1>2, <1>3, <1>4, <1>5, <1>6, <1>7 DEF Reservation

\* The history of debits keeps its type.
LEMMA NoteTyped ==
    ASSUME NEW t \in Tasks, NEW s, NEW d \in Int, taken \in [Tasks -> [Sources -> Int]], Note(t, s, d)
    PROVE  taken' \in [Tasks -> [Sources -> Int]]
<1>1. taken' = [taken EXCEPT ![t] = [x \in Sources |-> taken[t][x] + (IF x = s THEN d ELSE 0)]]
  BY DEF Note
<1>2. \A x \in Sources : taken[t][x] + (IF x = s THEN d ELSE 0) \in Int
  OBVIOUS
<1>3. [x \in Sources |-> taken[t][x] + (IF x = s THEN d ELSE 0)] \in [Sources -> Int]
  BY <1>2
<1> QED BY <1>1, <1>3

\* One transaction on the balances keeps their ranges, and a debit that may not
\* incur debt leaves nothing negative.
LEMMA TakeMoves ==
    ASSUME RTypeOK, NEW r \in Requests, NEW s \in Sources \cup {"none"}, NEW a \in Nat,
           NEW debt \in BOOLEAN, Take(r, s, a, debt)
    PROVE  /\ wallet' \in -WalletLimit .. WalletLimit /\ used' \in 0 .. Total /\ token' \in Int
           /\ tokenNet' \in [Tasks -> Int] /\ net' \in [Tasks -> Int]
           /\ net'[r] = net[r] + a
           /\ r \notin Playground => tokenNet'[r] = tokenNet[r] + a
           /\ r \in Playground => tokenNet' = tokenNet
           /\ \A t \in Tasks \ {r} : net'[t] = net[t] /\ tokenNet'[t] = tokenNet[t]
           /\ wallet' < 0 => wallet' = wallet \/ (debt /\ a > 0)
           /\ token' < 0 /\ ~Unlimited => token' = token
           /\ taken' \in [Tasks -> [Sources -> Int]]
<1>1. /\ r \in Tasks /\ Owner[r] = r /\ net \in [Tasks -> Int] /\ tokenNet \in [Tasks -> Int]
      /\ wallet \in Int /\ wallet >= -WalletLimit /\ wallet <= WalletLimit
      /\ used \in Nat /\ used <= Total /\ token \in Int /\ Total \in Nat /\ WalletLimit \in Nat
  BY RequestFacts, RequestConstants DEF RTypeOK, JTypeOK
<1>2. /\ FundingAllows(s, a, debt) /\ TokenAllows(r, a)
      /\ wallet' = IF s = "wallet" THEN wallet - a ELSE wallet
      /\ used' = IF s = "subscription" THEN used + a ELSE used
      /\ MoveToken(r, a) /\ Note(r, s, a)
      /\ net' = [net EXCEPT ![r] = @ + a]
  BY DEF Take
<1>3. /\ net' \in [Tasks -> Int] /\ net'[r] = net[r] + a
      /\ \A t \in Tasks \ {r} : net'[t] = net[t]
  BY <1>1, <1>2
<1>5. /\ token' \in Int /\ tokenNet' \in [Tasks -> Int]
      /\ r \notin Playground => tokenNet'[r] = tokenNet[r] + a
      /\ r \in Playground => tokenNet' = tokenNet
      /\ \A t \in Tasks \ {r} : tokenNet'[t] = tokenNet[t]
  BY <1>1, <1>2 DEF MoveToken
<1>6. wallet' \in -WalletLimit .. WalletLimit /\ used' \in 0 .. Total
  BY <1>1, <1>2 DEF FundingAllows, WalletAllows, Sources
<1>7. wallet' < 0 => wallet' = wallet \/ (debt /\ a > 0)
  <2>1. CASE a = 0 BY <1>1, <1>2, <2>1
  <2>2. CASE a > 0 /\ debt BY <2>2
  <2>3. CASE a > 0 /\ ~debt
    <3>1. s = "wallet" => wallet >= a BY <2>3, <1>2 DEF FundingAllows
    <3> QED BY <3>1, <1>1, <1>2
  <2> QED BY <2>1, <2>2, <2>3
<1>8. token' < 0 /\ ~Unlimited => token' = token
  BY <1>1, <1>2 DEF TokenAllows, MoveToken
<1>9. taken' \in [Tasks -> [Sources -> Int]]
  BY <1>1, <1>2, NoteTyped DEF RTypeOK
<1> QED BY <1>2, <1>3, <1>5, <1>6, <1>7, <1>8, <1>9

\* A larger reservation of a request without a row keeps the journal's
\* invariant: no row names it yet.
LEMMA MoreReserved ==
    ASSUME JCore, NEW r \in Tasks, reserved' \in [Tasks -> Quotas], net' \in [Tasks -> Int],
           \A t \in Tasks \ {r} : reserved'[t] = reserved[t],
           \A k \in SessionKinds : Key(k, r) \notin opened,
           UNCHANGED <<charge, quota, row, receipt, logged, posted, opened, pc, cur>>
    PROVE  JCore'
<1>1. JTypeOK' BY DEF JCore, JTypeOK
<1>2. SessionOnce' /\ PendingNotPosted' /\ ReceiptGuards'
  BY DEF JCore, SessionOnce, PendingNotPosted, ReceiptGuards
<1>3. LogBeforeDone' /\ LogNotLost'
  BY DEF JCore, LogBeforeDone, LogNotLost, Pending
<1>4. RowFacts'
  <2> SUFFICES ASSUME NEW key \in Keys, row[key].state # "none",
                      key.kind \in SessionKinds
               PROVE  reserved'[key.task] = reserved[key.task]
    BY DEF RowFacts, JCore, SessionKinds
  <2>1. key \in opened BY DEF JCore, SessionOnce
  <2>2. key.task \in Tasks /\ key = Key(key.kind, key.task) BY KeyFacts
  <2> QED BY <2>1, <2>2
<1> QED BY <1>1, <1>2, <1>3, <1>4 DEF JCore

\* What has overdrawn the wallet or the token stays what it was.
LEMMA OverdrawKept ==
    ASSUME RTypeOK, OnlyUseOverdraws, UNCHANGED charge, posted \subseteq posted',
           \A t \in Tasks : Key("settle", t) \in posted => reserved'[t] = reserved[t],
           \A r \in Requests : direct[r] > 0 => direct'[r] > 0,
           \A r \in Requests : extraReserved[r] > 0 => extraReserved'[r] > 0,
           wallet' < 0 => \/ wallet < 0
                          \/ \E t \in Tasks : UsedMore(t)'
                          \/ \E r \in Requests : direct'[r] > 0 \/ (extraReserved'[r] > 0 /\ r \notin Image),
           token' < 0 /\ ~Unlimited => \/ token < 0
                                       \/ \E t \in Tasks : UsedMore(t)'
                                       \/ \E r \in Requests : direct'[r] > 0
    PROVE  OnlyUseOverdraws'
<1>1. \A t \in Tasks : UsedMore(t) => UsedMore(t)' BY DEF UsedMore
<1> QED BY <1>1 DEF OnlyUseOverdraws

\* A reservation keeps the inductive invariant.
LEMMA ReservationStep ==
    ASSUME RInv, NEW r \in Requests, NEW s, NEW a, NEW debt \in BOOLEAN, Reservation(r, s, a, debt)
    PROVE  RInv'
<1>1. /\ a \in Nat /\ reserved[r] + a \in Quotas
      /\ s \in Sources \cup {"none"} /\ source[r] \in {"none", s}
      /\ s = "none" => reserved[r] + a = 0
      /\ at[r] \in {"first", "second", "open"}
      /\ Take(r, s, a, debt)
      /\ reserved' = [reserved EXCEPT ![r] = @ + a]
      /\ source' = [source EXCEPT ![r] = s]
      /\ at' = [at EXCEPT ![r] = "open"]
      /\ trusted' \in [Requests -> BOOLEAN]
      /\ extraReserved' \in [Requests -> Quotas]
      /\ extraReserved[r] <= extraReserved'[r] /\ extraReserved'[r] <= reserved[r] + a
      /\ \A x \in Requests \ {r} : extraReserved'[x] = extraReserved[x]
      /\ debt /\ a > 0 => r \notin Image /\ extraReserved'[r] > 0
      /\ UNCHANGED <<charge, quota, row, receipt, logged, posted, opened, pc, cur, direct, tokenDirect>>
      /\ UNCHANGED <<rowSource, unwritten>>
  BY DEF Reservation, Quiet, turns, written
<1>2. /\ RTypeOK /\ JCore /\ r \in Tasks /\ Owner[r] = r
      /\ reserved \in [Tasks -> Quotas] /\ at \in [Requests -> Places]
      /\ source \in [Requests -> Sources \cup {"none"}]
      /\ extraReserved \in [Requests -> Quotas]
  BY RequestFacts DEF RInv, RTypeOK, JTypeOK
<1>3. /\ wallet' \in -WalletLimit .. WalletLimit /\ used' \in 0 .. Total /\ token' \in Int
      /\ tokenNet' \in [Tasks -> Int] /\ net' \in [Tasks -> Int]
      /\ net'[r] = net[r] + a
      /\ r \notin Playground => tokenNet'[r] = tokenNet[r] + a
      /\ r \in Playground => tokenNet' = tokenNet
      /\ \A t \in Tasks \ {r} : net'[t] = net[t] /\ tokenNet'[t] = tokenNet[t]
      /\ wallet' < 0 => wallet' = wallet \/ (debt /\ a > 0)
      /\ token' < 0 /\ ~Unlimited => token' = token
  <2>1. RTypeOK /\ a \in Nat /\ s \in Sources \cup {"none"} /\ Take(r, s, a, debt) BY <1>1, <1>2
  <2> QED BY <2>1, TakeMoves
<1>14. taken' \in [Tasks -> [Sources -> Int]]
  <2>1. RTypeOK /\ a \in Nat /\ s \in Sources \cup {"none"} /\ Take(r, s, a, debt) BY <1>1, <1>2
  <2> QED BY <2>1, TakeMoves
<1>4. /\ reserved' \in [Tasks -> Quotas] /\ reserved'[r] = reserved[r] + a
      /\ \A t \in Tasks \ {r} : reserved'[t] = reserved[t]
  BY <1>1, <1>2
<1>5. \A k \in SessionKinds : Key(k, r) \notin opened /\ Key(k, r) \notin posted
  <2>1. \A k \in SessionKinds : Key(k, r) \notin opened
    BY <1>1 DEF RInv, Lifecycle, LifecycleOf, SessionKinds
  <2>2. \A k \in SessionKinds : Key(k, r) \in Keys /\ Key(k, r).kind = k
    BY <1>2, KeyFacts DEF SessionKinds, Kinds
  <2> QED BY <1>2, <2>1, <2>2 DEF JCore, SessionOnce
<1>6. JCore' BY <1>1, <1>2, <1>3, <1>4, <1>5, MoreReserved
<1>7. RTypeOK'
  <2>1. JTypeOK' BY <1>6 DEF JCore
  <2>2. at' \in [Requests -> Places] /\ source' \in [Requests -> Sources \cup {"none"}]
    BY <1>1, <1>2 DEF Places
  <2> QED BY <1>1, <1>2, <1>3, <1>14, <2>1, <2>2 DEF RTypeOK
<1>8. Reconciled'
  <2> SUFFICES ASSUME NEW t \in Tasks PROVE net'[t] = quota'[t] + Outstanding(t)'
    BY DEF Reconciled
  <2>1. net[t] = quota[t] + Outstanding(t) BY DEF RInv, Reconciled
  <2>2. CASE t # r
    BY <2>1, <2>2, <1>1, <1>3, <1>4 DEF Outstanding, InitialQuota
  <2>3. CASE t = r
    <3>1. Key("settle", r) \notin posted /\ Key("refund", r) \notin posted
      BY <1>5 DEF SessionKinds
    <3>2. /\ Outstanding(r) = (reserved[r] - InitialQuota(r)) - 0
          /\ Outstanding(r)' = (reserved'[r] - InitialQuota(r)) - 0
      BY <3>1, <1>1 DEF Outstanding, InitialQuota
    <3>3. InitialQuota(r) \in Int /\ reserved[r] \in Int /\ net[r] \in Int /\ quota[r] \in Int
      BY <1>2, RequestFacts DEF JCore, JTypeOK, InitialQuota, Quotas
    <3> QED BY <3>2, <3>3, <2>1, <2>3, <1>1, <1>3, <1>4
  <2> QED BY <2>2, <2>3
<1>9. quota' = charge' /\ SessionRowsOnly'
  BY <1>1 DEF RInv, SessionRowsOnly
<1>10. FeesOneShot'
  BY <1>1, <1>4 DEF RInv, FeesOneShot
<1>11. Lifecycle'
  <2> SUFFICES ASSUME NEW x \in Requests PROVE LifecycleOf(x)'
    BY DEF Lifecycle
  <2>1. LifecycleOf(x) BY DEF RInv, Lifecycle
  <2>2. CASE x # r
    <3>1. /\ at'[x] = at[x] /\ source'[x] = source[x] /\ extraReserved'[x] = extraReserved[x]
          /\ reserved'[x] = reserved[x] /\ pc' = pc /\ opened' = opened
      BY <2>2, <1>1, <1>2, <1>4, RequestFacts
    <3> QED BY <2>1, <3>1 DEF LifecycleOf
  <2>3. CASE x = r
    <3>1. /\ at'[x] = "open" /\ source'[x] = s /\ extraReserved'[x] <= reserved'[x]
          /\ reserved'[x] = reserved[x] + a /\ pc' = pc /\ opened' = opened
      BY <2>3, <1>1, <1>2, <1>4
    <3>2. /\ pc[x] = "idle" /\ Key("settle", x) \notin opened /\ Key("refund", x) \notin opened
      BY <2>1, <2>3, <1>1, <1>5 DEF LifecycleOf, SessionKinds
    <3> QED BY <3>1, <3>2, <2>3, <1>1 DEF LifecycleOf
  <2> QED BY <2>2, <2>3
<1>12. TokenFollowsFunding'
  <2> SUFFICES ASSUME NEW t \in Tasks
               PROVE  tokenNet'[t] = IF Owner[t] \in Playground THEN 0 ELSE net'[t]
    BY DEF TokenFollowsFunding
  <2>1. tokenNet[t] = IF Owner[t] \in Playground THEN 0 ELSE net[t]
    BY DEF RInv, TokenFollowsFunding
  <2> QED BY <2>1, <1>2, <1>3
<1>13. OnlyUseOverdraws'
  <2>1. \A t \in Tasks : Key("settle", t) \in posted => reserved'[t] = reserved[t]
    BY <1>4, <1>5 DEF SessionKinds
  <2>2. \A x \in Requests : extraReserved[x] > 0 => extraReserved'[x] > 0
    BY <1>1, <1>2 DEF Quotas
  <2>3. wallet' < 0 => wallet < 0 \/ (extraReserved'[r] > 0 /\ r \notin Image)
    BY <1>1, <1>3
  <2> QED BY <2>1, <2>2, <2>3, <1>1, <1>3, OverdrawKept DEF RInv
<1> QED BY <1>6, <1>7, <1>8, <1>9, <1>10, <1>11, <1>12, <1>13 DEF RInv
--------------------------------------------------------------------------------
(* Steps that move no money *)

\* What such a step has left to show.
LEMMA NoMoneyStep ==
    ASSUME RInv, JCore', at' \in [Requests -> Places], SessionRowsOnly', FeesOneShot', Lifecycle',
           rowSource' \in [Keys -> Sources \cup {"none"}], unwritten' \subseteq opened',
           UNCHANGED <<reserved, charge, net, quota, posted, session, balances, turns>>
    PROVE  RInv'
<1>1. UNCHANGED <<reserved, charge, net, quota, posted, source, trusted, extraReserved,
                  wallet, used, token, tokenNet, taken, direct, tokenDirect>>
  BY DEF session, balances, turns
<1>2. RTypeOK' BY <1>1 DEF RInv, RTypeOK, JCore
<1>3. Reconciled' /\ quota' = charge'
  BY <1>1 DEF RInv, Reconciled, Outstanding, InitialQuota
<1>4. TokenFollowsFunding' BY <1>1 DEF RInv, TokenFollowsFunding
<1>5. OnlyUseOverdraws' BY <1>1 DEF RInv, OnlyUseOverdraws, UsedMore
<1> QED BY <1>2, <1>3, <1>4, <1>5 DEF RInv

\* Only the goroutine of one request moves, to p.
LEMMA PlaceStep ==
    ASSUME RInv, NEW r \in Requests, NEW p \in Places, Goto(r, p), LifecycleOf(r)',
           Quiet, UNCHANGED <<reserved, net, session, balances>>
    PROVE  RInv'
<1>1. /\ at' = [at EXCEPT ![r] = p] /\ at \in [Requests -> Places]
      /\ UNCHANGED <<reserved, charge, net, quota, row, receipt, logged, posted, opened, pc, cur>>
      /\ UNCHANGED <<session, balances, turns>> /\ UNCHANGED <<source, trusted, extraReserved>>
      /\ UNCHANGED <<rowSource, unwritten>>
  BY DEF Goto, Quiet, RInv, RTypeOK, session, written
<1>2. at' \in [Requests -> Places] /\ \A x \in Requests \ {r} : at'[x] = at[x]
  BY <1>1
<1>3. JCore' BY <1>1, StutterStep DEF RInv
<1>4. SessionRowsOnly' /\ FeesOneShot'
  BY <1>1 DEF RInv, SessionRowsOnly, FeesOneShot
<1>5. Lifecycle'
  <2> SUFFICES ASSUME NEW x \in Requests, x # r PROVE LifecycleOf(x)'
    BY DEF Lifecycle
  <2>1. LifecycleOf(x) /\ at'[x] = at[x] BY <1>2 DEF RInv, Lifecycle
  <2> QED BY <1>1, <2>1 DEF LifecycleOf
<1>6. rowSource' \in [Keys -> Sources \cup {"none"}] /\ unwritten' \subseteq opened'
  BY <1>1 DEF RInv, RTypeOK
<1> QED BY <1>1, <1>2, <1>3, <1>4, <1>5, <1>6, NoMoneyStep

\* The steps of a request between its transactions keep the invariant.
LEMMA RequestMoves ==
    ASSUME RInv, NEW r \in Requests,
           \/ AdmitRefused(r) \/ FreeModel(r) \/ NoLongerFree(r)
           \/ Fail(r) \/ NoRefund(r) \/ NoFee(r)
    PROVE  RInv'
<1>1. LifecycleOf(r) /\ at \in [Requests -> Places] /\ reserved[r] \in Nat
  BY RequestFacts DEF RInv, Lifecycle, RTypeOK, JTypeOK, Quotas
<1>2. Quiet /\ UNCHANGED <<reserved, net, session, balances>>
  BY DEF AdmitRefused, FreeModel, NoLongerFree, Fail, NoRefund, NoFee
<1>3. UNCHANGED <<reserved, opened, pc, source, extraReserved>>
  BY <1>2 DEF Quiet, session
<1>4. PICK p \in Places :
         /\ Goto(r, p)
         /\ \/ at[r] \in {"first", "second"} /\ p \in {"second", "done"}
            \/ at[r] = "first" /\ p = "open"
            \/ at[r] = "open" /\ source[r] = "none" /\ p = "first"
            \/ at[r] = "open" /\ p = "failing"
            \/ at[r] = "failing" /\ ~NeedsRefund(r) /\ p = "fee"
            \/ at[r] = "fee" /\ p = "done"
  BY DEF AdmitRefused, FreeModel, NoLongerFree, Fail, NoRefund, NoFee, Places
<1>5. at'[r] = p BY <1>1, <1>4 DEF Goto
<1>6. ~NeedsRefund(r) => reserved[r] = 0 BY <1>1 DEF NeedsRefund, LifecycleOf
<1>7. LifecycleOf(r)' BY <1>1, <1>3, <1>4, <1>5, <1>6 DEF LifecycleOf
<1> QED BY <1>2, <1>4, <1>7, PlaceStep

\* Submitting an operation changes one row, and the request's own worker.
LEMMA SubmittedEffect ==
    ASSUME RInv, NEW r \in Requests, NEW key \in Keys, NEW fact, NEW p \in Places,
           key.kind \in SessionKinds, GoodFact(key, fact), Submitted(r, key, fact, p)
    PROVE  /\ JCore' /\ SessionRowsOnly'
           /\ key \notin opened /\ opened' = opened \cup {key}
           /\ at' \in [Requests -> Places] /\ at'[r] = p
           /\ \A x \in Requests \ {r} : at'[x] = at[x] /\ pc'[x] = pc[x]
           /\ rowSource' \in [Keys -> Sources \cup {"none"}] /\ unwritten' \subseteq opened'
           /\ UNCHANGED <<reserved, charge, net, quota, posted, session, balances, turns>>
<1>1. /\ JCore /\ r \in Workers /\ row \in [Keys -> Rows] /\ pc \in [Workers -> PCs]
      /\ opened \subseteq Keys /\ at \in [Requests -> Places]
  BY RequestFacts DEF RInv, JCore, JTypeOK, RTypeOK
<1>2. /\ key \notin opened /\ opened' = opened \cup {key}
      /\ Ensure(r, key, fact) \/ EnsureFails(r, key, fact)
      /\ at' = [at EXCEPT ![r] = p]
      /\ \/ unwritten' = unwritten \cup {key} /\ rowSource' = rowSource
         \/ rowSource' = [rowSource EXCEPT ![key] = Funding(key.task)] /\ unwritten' = unwritten
      /\ UNCHANGED <<session, balances, turns>>
  BY DEF Submitted, SessionSubmit, Goto
<1>3. JCore' BY <1>1, <1>2, EnsureStep, EnsureFailsStep
<1>4. /\ UNCHANGED <<reserved, charge, net, quota, posted>>
      /\ \A k \in Keys \ {key} : row'[k] = row[k]
      /\ \A w \in Workers \ {r} : pc'[w] = pc[w]
  BY <1>1, <1>2 DEF Ensure, EnsureFails
<1>5. SessionRowsOnly'
  BY <1>4 DEF RInv, SessionRowsOnly
<1>6. Funding(key.task) \in Sources
  <2>1. key.task \in Tasks BY KeyFacts
  <2>2. Owner[key.task] \in Requests BY <2>1, RequestFacts
  <2> QED BY <2>2 DEF Funding, RInv, RTypeOK, Sources
<1>7. rowSource' \in [Keys -> Sources \cup {"none"}] /\ unwritten' \subseteq opened'
  BY <1>2, <1>6 DEF RInv, RTypeOK
<1> QED BY <1>1, <1>2, <1>3, <1>4, <1>5, <1>7, RequestFacts

\* A request submits its settlement, its refund or a fee.
LEMMA SubmissionStep ==
    ASSUME RInv, NEW r \in Requests,
           Settle(r) \/ Refund(r) \/ \E t \in Tasks \ Requests : ChargeFee(r, t)
    PROVE  RInv'
<1> USE RequestFacts, KeyFacts DEF SessionKinds, Kinds
<1>1. LifecycleOf(r) /\ r \in Tasks /\ FeesOneShot BY DEF RInv, Lifecycle
<1>0. PICK t \in Tasks, k \in SessionKinds, p \in Places : \E fact :
         /\ GoodFact(Key(k, t), fact) /\ Submitted(r, Key(k, t), fact, p)
         /\ \/ at[r] = "open" /\ t = r /\ k = "settle" /\ p = "settling"
            \/ at[r] = "failing" /\ t = r /\ k = "refund" /\ p = "refunding"
            \/ at[r] = "fee" /\ t \notin Requests /\ k = "settle" /\ p = "charging"
  <2>1. CASE Settle(r)
    <3>1. GoodFact(Key("settle", r), SettleFact(r, FALSE))
      BY SubmittedFacts DEF RInv
    <3> QED BY <2>1, <3>1 DEF Settle, Places
  <2>2. CASE Refund(r)
    <3>1. GoodFact(Key("refund", r), RefundFact(r))
      BY SubmittedFacts DEF RInv
    <3> QED BY <2>2, <3>1 DEF Refund, Places
  <2>3. CASE \E t \in Tasks \ Requests : ChargeFee(r, t)
    <3>1. PICK t \in Tasks \ Requests : ChargeFee(r, t) BY <2>3
    <3>2. GoodFact(Key("settle", t), SettleFact(t, FALSE))
      BY SubmittedFacts DEF RInv
    <3> QED BY <3>1, <3>2 DEF ChargeFee, Places
  <2> QED BY <2>1, <2>2, <2>3
<1>2. PICK fact :
         /\ GoodFact(Key(k, t), fact) /\ Submitted(r, Key(k, t), fact, p)
         /\ \/ at[r] = "open" /\ t = r /\ k = "settle" /\ p = "settling"
            \/ at[r] = "failing" /\ t = r /\ k = "refund" /\ p = "refunding"
            \/ at[r] = "fee" /\ t \notin Requests /\ k = "settle" /\ p = "charging"
  BY <1>0
<1> DEFINE key == Key(k, t)
<1>3. key \in Keys /\ key.kind = k /\ key.task = t OBVIOUS
<1>4. /\ JCore' /\ SessionRowsOnly'
      /\ key \notin opened /\ opened' = opened \cup {key}
      /\ at' \in [Requests -> Places] /\ at'[r] = p
      /\ \A x \in Requests \ {r} : at'[x] = at[x] /\ pc'[x] = pc[x]
      /\ rowSource' \in [Keys -> Sources \cup {"none"}] /\ unwritten' \subseteq opened'
      /\ UNCHANGED <<reserved, charge, net, quota, posted, session, balances, turns>>
  BY <1>2, <1>3, SubmittedEffect
<1>5. UNCHANGED <<source, extraReserved, reserved>> BY <1>4 DEF session
<1>6. \A x \in Tasks, j \in SessionKinds : Key(j, x) = key => x = t /\ j = k
  BY <1>3
<1>7. FeesOneShot'
  BY <1>1, <1>2, <1>4, <1>6 DEF FeesOneShot
<1>8. Lifecycle'
  <2> SUFFICES ASSUME NEW x \in Requests PROVE LifecycleOf(x)'
    BY DEF Lifecycle
  <2>1. LifecycleOf(x) BY DEF RInv, Lifecycle
  <2>2. CASE x # r
    <3>1. x # t BY <1>2, <2>2
    <3>2. \A j \in SessionKinds : Key(j, x) \in opened' <=> Key(j, x) \in opened
      BY <1>4, <1>6, <3>1
    <3> QED BY <2>1, <2>2, <3>2, <1>4, <1>5 DEF LifecycleOf
  <2>3. CASE x = r
    <3>1. /\ Key("settle", r) \in opened' <=> Key("settle", r) \in opened \/ (t = r /\ k = "settle")
          /\ Key("refund", r) \in opened' <=> Key("refund", r) \in opened \/ (t = r /\ k = "refund")
      BY <1>4, <1>6
    <3> QED BY <2>3, <3>1, <1>1, <1>2, <1>4, <1>5 DEF LifecycleOf
  <2> QED BY <2>2, <2>3
<1> QED BY <1>4, <1>7, <1>8, NoMoneyStep

\* Executing, failing, returning, sweeping and dying: no row appears, and a
\* request's worker only moves while the request waits for it.
LEMMA WorkerStep ==
    ASSUME RInv, JCore', at' \in [Requests -> Places], Lifecycle', opened' = opened,
           \A key \in Keys : row[key].state = "none" => row'[key].state = "none",
           UNCHANGED <<reserved, charge, net, quota, posted, session, balances, turns, written>>
    PROVE  RInv'
<1>1. SessionRowsOnly' BY DEF RInv, SessionRowsOnly
<1>2. FeesOneShot' BY DEF RInv, FeesOneShot
<1>3. rowSource' \in [Keys -> Sources \cup {"none"}] /\ unwritten' \subseteq opened'
  BY DEF RInv, RTypeOK, written
<1> QED BY <1>1, <1>2, <1>3, NoMoneyStep

\* A step of a worker that leaves every request where it is and idle workers
\* of requests idle keeps Lifecycle.
LEMMA LifecycleKept ==
    ASSUME RInv, UNCHANGED <<reserved, opened, at, session>>,
           \A x \in Requests : pc[x] = "idle" => pc'[x] = "idle"
    PROVE  Lifecycle'
<1> SUFFICES ASSUME NEW x \in Requests PROVE LifecycleOf(x)'
  BY DEF Lifecycle
<1>1. LifecycleOf(x) BY DEF RInv, Lifecycle
<1>2. UNCHANGED <<source, extraReserved>> BY DEF session
<1> QED BY <1>1, <1>2 DEF LifecycleOf

\* The journal's steps that move no balance keep the invariant.
LEMMA CarryStep ==
    ASSUME RInv, NEW w \in Workers, Carry(w)
    PROVE  RInv'
<1>1. /\ ApplyAgain(w) \/ ApplyRefused(w) \/ WriteLog(w) \/ MarkLogDone(w) \/ DeleteRow(w) \/ StepFails(w)
      /\ UNCHANGED <<at, session, balances, turns, written>>
  BY DEF Carry
<1>2. JCore /\ row \in [Keys -> Rows] /\ pc \in [Workers -> PCs] /\ cur[w] \in Keys /\ at \in [Requests -> Places]
  BY DEF RInv, JCore, JTypeOK, RTypeOK
<1>3. JCore' BY <1>1, <1>2, ControlActions, OutboxStep
<1>4. /\ UNCHANGED <<reserved, charge, net, quota, posted, opened>>
      /\ pc[w] # "idle" /\ \A v \in Workers \ {w} : pc'[v] = pc[v]
  BY <1>1, <1>2 DEF ApplyAgain, ApplyRefused, WriteLog, MarkLogDone, DeleteRow, StepFails
<1>5. \A key \in Keys : row[key].state = "none" => row'[key].state = "none"
  BY <1>1, <1>2, NoRowIsRow DEF ApplyAgain, ApplyRefused, WriteLog, MarkLogDone, DeleteRow, StepFails, Rows
<1>6. \A x \in Requests : pc[x] = "idle" => pc'[x] = "idle"
  BY <1>4, RequestFacts
<1>7. Lifecycle' BY <1>1, <1>4, <1>6, LifecycleKept
<1> QED BY <1>1, <1>2, <1>3, <1>4, <1>5, <1>7, WorkerStep

\* A sweep that picks a row or crashes keeps the invariant.
LEMMA SweepStep ==
    ASSUME RInv, NEW w \in Workers, Sweep(w)
    PROVE  RInv'
<1>1. /\ w \notin Requests
      /\ Crash(w) \/ \E key \in Keys : SweepPick(w, key)
      /\ UNCHANGED <<at, session, balances, turns, written>>
  BY DEF Sweep
<1>2. JCore /\ pc \in [Workers -> PCs] /\ at \in [Requests -> Places]
  BY DEF RInv, JCore, JTypeOK, RTypeOK
<1>3. JCore' BY <1>1, <1>2, ControlActions
<1>4. /\ UNCHANGED <<reserved, charge, net, quota, row, posted, opened>>
      /\ \A v \in Workers \ {w} : pc'[v] = pc[v]
  BY <1>1, <1>2 DEF Crash, SweepPick
<1>5. \A x \in Requests : pc[x] = "idle" => pc'[x] = "idle"
  BY <1>1, <1>4, RequestFacts DEF Sweep
<1>6. Lifecycle' BY <1>1, <1>4, <1>5, LifecycleKept
<1> QED BY <1>1, <1>2, <1>3, <1>4, <1>6, WorkerStep

\* The request goes on after its journal operation, or its process dies.
LEMMA ReturnOrDieStep ==
    ASSUME RInv, NEW w \in Workers, Returned(w) \/ (w \in Requests /\ Die(w))
    PROVE  RInv'
<1> USE RequestFacts, IdleKeyIsKey
<1>1. /\ JCore /\ pc \in [Workers -> PCs] /\ cur \in [Workers -> Keys] /\ opened \subseteq Keys
      /\ at \in [Requests -> Places]
  BY DEF RInv, JCore, JTypeOK, RTypeOK
<1>2. /\ UNCHANGED <<reserved, charge, net, quota, row, receipt, logged, posted, opened>>
      /\ UNCHANGED <<session, balances, turns, written>> /\ UNCHANGED <<source, extraReserved>>
      /\ pc' = [pc EXCEPT ![w] = "idle"] /\ cur' = [cur EXCEPT ![w] = IdleKey]
  BY DEF Returned, Return, Die, session
<1>3. pc' \in [Workers -> PCs] /\ cur' \in [Workers -> Keys]
      /\ \A v \in Workers : pc'[v] = "mark" => pc[v] = "mark" /\ cur'[v] = cur[v]
  BY <1>1, <1>2 DEF PCs
<1>4. \A v \in Workers : pc'[v] = "mark" => cur'[v] \in logged
  BY <1>1, <1>3 DEF JCore, LogBeforeDone
<1>5. JCore' BY <1>1, <1>2, <1>3, <1>4, ControlStep
<1>6. /\ at' \in [Requests -> Places]
      /\ \A x \in Requests \ {w} : at'[x] = at[x]
      /\ w \in Requests => \/ at'[w] = "dead"
                           \/ pc[w] # "idle" /\ at[w] = "refunding" /\ at'[w] = "fee"
                           \/ pc[w] # "idle" /\ at[w] # "refunding" /\ at'[w] = "done"
  BY <1>1 DEF Returned, Return, Die, Goto, Places
<1>7. Lifecycle'
  <2> SUFFICES ASSUME NEW x \in Requests PROVE LifecycleOf(x)'
    BY DEF Lifecycle
  <2>1. LifecycleOf(x) BY DEF RInv, Lifecycle
  <2>2. CASE x # w
    <3>1. pc'[x] = pc[x] /\ at'[x] = at[x] BY <2>2, <1>1, <1>2, <1>6
    <3> QED BY <2>1, <3>1, <1>2 DEF LifecycleOf
  <2>3. CASE x = w
    <3>1. pc'[x] = "idle" BY <2>3, <1>1, <1>2
    <3> QED BY <2>1, <2>3, <3>1, <1>2, <1>6 DEF LifecycleOf, SessionKinds
  <2> QED BY <2>2, <2>3
<1> QED BY <1>2, <1>5, <1>6, <1>7, WorkerStep
--------------------------------------------------------------------------------
(* The money transaction *)

\* A transaction of the journal settles or refunds one task, for the first
\* time, and moves the funding source and the token by the same amount.
LEMMA PostEffect ==
    ASSUME RInv, NEW w \in Workers, Post(w)
    PROVE  \E t \in Tasks, k \in SessionKinds, d \in Int :
              /\ d = IF k = "settle" THEN charge[t] - reserved[t] ELSE 0 - reserved[t]
              /\ Key(k, t) \in opened /\ Key(k, t) \notin posted
              /\ row[Key(k, t)].state = "pending"
              /\ \A x \in Keys \ {Key(k, t)} : row'[x] = row[x]
              /\ posted' = posted \cup {Key(k, t)}
              /\ net' = [net EXCEPT ![t] = @ + d]
              /\ MoveToken(t, d)
              /\ \/ /\ rowSource[Key(k, t)] = "wallet" /\ WalletAllows(d)
                    /\ wallet' = wallet - d /\ used' = used
                 \/ /\ rowSource[Key(k, t)] # "wallet" /\ UsedAfter(d) <= Total
                    /\ used' = UsedAfter(d) /\ wallet' = wallet
              /\ pc[w] # "idle" /\ \A v \in Workers \ {w} : pc'[v] = pc[v]
              /\ \A x \in Keys : row[x].state = "none" => row'[x].state = "none"
              /\ Note(t, rowSource[Key(k, t)], d)
              /\ UNCHANGED <<reserved, charge, quota, opened, at, session, turns, written>>
<1> DEFINE key == cur[w]
           t   == key.task
           k   == key.kind
           r   == row[key]
<1>1. /\ JCore /\ row \in [Keys -> Rows] /\ key \in Keys /\ pc \in [Workers -> PCs]
      /\ SessionRowsOnly /\ ApplyNow(w)
  BY DEF RInv, JCore, JTypeOK, Post
<1>2. r.state = "pending" /\ pc[w] = "apply" BY <1>1 DEF ApplyNow
<1>3. t \in Tasks /\ k \in SessionKinds /\ key = Key(k, t)
  BY <1>1, <1>2, KeyFacts DEF SessionRowsOnly
<1>4. /\ r.expected = reserved[t]
      /\ r.final = IF k = "settle" THEN charge[t] ELSE 0
      /\ ~r.entity
  BY <1>1, <1>2, <1>3, RequestConstants DEF JCore, RowFacts, SessionKinds
<1>5. key \in opened /\ key \notin posted
  BY <1>1, <1>2, <1>3 DEF JCore, SessionOnce, PendingNotPosted
<1>6. /\ posted' = posted \cup {key}
      /\ net' = [net EXCEPT ![t] = @ + r.final - r.expected]
      /\ row' = [row EXCEPT ![key].state = "applied"]
      /\ pc' = [pc EXCEPT ![w] = AfterApplied(r)]
      /\ UNCHANGED <<reserved, charge, quota, opened>>
  BY <1>1, <1>4 DEF ApplyNow, AtTarget
<1>7. /\ MoveToken(t, r.final - r.expected)
      /\ \/ /\ rowSource[Key(k, t)] = "wallet" /\ WalletAllows(r.final - r.expected)
            /\ wallet' = wallet - (r.final - r.expected) /\ used' = used
         \/ /\ rowSource[Key(k, t)] # "wallet" /\ UsedAfter(r.final - r.expected) <= Total
            /\ used' = UsedAfter(r.final - r.expected) /\ wallet' = wallet
      /\ Note(t, rowSource[key], r.final - r.expected)
      /\ UNCHANGED <<at, session, turns, written>>
  BY <1>3 DEF Post
<1>8. \A v \in Workers \ {w} : pc'[v] = pc[v] BY <1>1, <1>6
<1>9. \A x \in Keys : row[x].state = "none" => row'[x].state = "none"
  BY <1>1, <1>2, <1>6 DEF Rows
<1>16. \A x \in Keys \ {key} : row'[x] = row[x] BY <1>1, <1>6
<1>10. PICK d : d = r.final - r.expected OBVIOUS
<1>11. d = IF k = "settle" THEN charge[t] - reserved[t] ELSE 0 - reserved[t]
  BY <1>4, <1>10
<1>12. net[t] \in Int /\ r.final \in Int /\ r.expected \in Int
  BY <1>1, <1>3 DEF JCore, JTypeOK, Rows, Quotas
<1>13. net' = [net EXCEPT ![t] = @ + d]
  BY <1>6, <1>10, <1>12
<1>14. /\ MoveToken(t, d)
       /\ \/ /\ rowSource[Key(k, t)] = "wallet" /\ WalletAllows(d)
             /\ wallet' = wallet - d /\ used' = used
          \/ /\ rowSource[Key(k, t)] # "wallet" /\ UsedAfter(d) <= Total
             /\ used' = UsedAfter(d) /\ wallet' = wallet
       /\ Note(t, rowSource[key], d)
       /\ UNCHANGED <<at, session, turns, written>>
  BY <1>3, <1>7, <1>10
<1>15. pc[w] # "idle" /\ d \in Int BY <1>2, <1>10, <1>12
<1>17. row[key].state = "pending" BY <1>2
<1> HIDE DEF key, t, k, r
<1> QED BY <1>3, <1>5, <1>6, <1>8, <1>9, <1>11, <1>13, <1>14, <1>15, <1>16, <1>17

\* The money transaction keeps the inductive invariant.
LEMMA PostStep ==
    ASSUME RInv, NEW w \in Workers, Post(w)
    PROVE  RInv'
<1>1. PICK t \in Tasks, k \in SessionKinds, d \in Int :
         /\ d = IF k = "settle" THEN charge[t] - reserved[t] ELSE 0 - reserved[t]
         /\ Key(k, t) \in opened /\ Key(k, t) \notin posted
         /\ posted' = posted \cup {Key(k, t)}
         /\ net' = [net EXCEPT ![t] = @ + d]
         /\ MoveToken(t, d)
         /\ \/ /\ rowSource[Key(k, t)] = "wallet" /\ WalletAllows(d)
               /\ wallet' = wallet - d /\ used' = used
            \/ /\ rowSource[Key(k, t)] # "wallet" /\ UsedAfter(d) <= Total
               /\ used' = UsedAfter(d) /\ wallet' = wallet
         /\ pc[w] # "idle" /\ \A v \in Workers \ {w} : pc'[v] = pc[v]
         /\ \A x \in Keys : row[x].state = "none" => row'[x].state = "none"
         /\ Note(t, rowSource[Key(k, t)], d)
         /\ UNCHANGED <<reserved, charge, quota, opened, at, session, turns, written>>
  BY PostEffect
<1>2. UNCHANGED <<source, trusted, extraReserved, direct, tokenDirect, rowSource, unwritten>>
  BY <1>1 DEF session, turns, written
<1>3. /\ RTypeOK /\ JCore /\ reserved[t] \in Nat /\ charge[t] \in Nat
      /\ net \in [Tasks -> Int] /\ tokenNet \in [Tasks -> Int]
      /\ wallet \in Int /\ wallet >= -WalletLimit /\ wallet <= WalletLimit
      /\ used \in Nat /\ used <= Total /\ token \in Int /\ Total \in Nat /\ WalletLimit \in Nat
      /\ d \in Int
  <2>1. /\ RTypeOK /\ JCore /\ reserved[t] \in Nat /\ charge[t] \in Nat
        /\ net \in [Tasks -> Int] /\ tokenNet \in [Tasks -> Int]
        /\ wallet \in Int /\ wallet >= -WalletLimit /\ wallet <= WalletLimit
        /\ used \in Nat /\ used <= Total /\ token \in Int /\ Total \in Nat /\ WalletLimit \in Nat
    BY RequestConstants, RequestFacts DEF RInv, RTypeOK, JTypeOK, Quotas
  <2> QED BY <2>1, <1>1
<1>4. /\ net'[t] = net[t] + d /\ net' \in [Tasks -> Int]
      /\ \A u \in Tasks \ {t} : net'[u] = net[u]
  BY <1>1, <1>3
<1>5. /\ token' \in Int /\ tokenNet' \in [Tasks -> Int]
      /\ Owner[t] \notin Playground => tokenNet'[t] = tokenNet[t] + d /\ token' = token - d
      /\ Owner[t] \in Playground => tokenNet' = tokenNet /\ token' = token
      /\ \A u \in Tasks \ {t} : tokenNet'[u] = tokenNet[u]
  BY <1>1, <1>3 DEF MoveToken
<1>6. wallet' \in -WalletLimit .. WalletLimit /\ used' \in 0 .. Total
  BY <1>1, <1>3 DEF WalletAllows, UsedAfter
<1>7. JCore' BY <1>3, ApplyNowStep DEF Post
<1>8. Reconciled' BY ApplyNowReconciled DEF Post, RInv, JInv
<1>9. RTypeOK'
  <2>1. taken' \in [Tasks -> [Sources -> Int]] BY <1>1, <1>3, NoteTyped DEF RTypeOK
  <2> QED BY <1>1, <1>2, <1>3, <1>5, <1>6, <1>7, <2>1 DEF RTypeOK, JCore
<1>10. quota' = charge' /\ FeesOneShot'
  BY <1>1 DEF RInv, FeesOneShot
<1>11. SessionRowsOnly'
  <2>1. Key(k, t).kind \in SessionKinds BY KeyFacts DEF SessionKinds, Kinds
  <2> QED BY <2>1, <1>1 DEF RInv, SessionRowsOnly
<1>12. Lifecycle'
  <2>1. \A x \in Requests : pc[x] = "idle" => pc'[x] = "idle"
    BY <1>1, RequestFacts
  <2> QED BY <2>1, <1>1, LifecycleKept
<1>13. TokenFollowsFunding'
  <2> SUFFICES ASSUME NEW u \in Tasks
               PROVE  tokenNet'[u] = IF Owner[u] \in Playground THEN 0 ELSE net'[u]
    BY DEF TokenFollowsFunding
  <2>1. tokenNet[u] = IF Owner[u] \in Playground THEN 0 ELSE net[u]
    BY DEF RInv, TokenFollowsFunding
  <2> QED BY <2>1, <1>3, <1>4, <1>5
<1>14. OnlyUseOverdraws'
  <2>1. d > 0 => UsedMore(t)'
    <3>1. d > 0 => k = "settle" /\ charge[t] > reserved[t]
      BY <1>1, <1>3 DEF SessionKinds
    <3> QED BY <3>1, <1>1 DEF UsedMore
  <2>2. wallet' < 0 => wallet < 0 \/ d > 0
    BY <1>1, <1>3
  <2>3. token' < 0 => token < 0 \/ d > 0
    BY <1>3, <1>5
  <2> QED BY <2>1, <2>2, <2>3, <1>1, <1>2, OverdrawKept DEF RInv
<1> QED BY <1>7, <1>8, <1>9, <1>10, <1>11, <1>12, <1>13, <1>14 DEF RInv
--------------------------------------------------------------------------------
(* Realtime turns and the period's reset *)

\* They move balances beside the journal and the sessions.
LEMMA BesideStep ==
    ASSUME RInv, \/ ResetPeriod
                 \/ \E r \in Requests, q \in Quotas : Turn(r, q) \/ TurnToken(r, q)
    PROVE  RInv'
<1>1. /\ UNCHANGED <<jvars, at, session, tokenNet>>
      /\ UNCHANGED <<reserved, charge, net, quota, row, receipt, logged, posted, opened, pc, cur>>
      /\ UNCHANGED <<source, trusted, extraReserved, rowSource, unwritten>>
  BY DEF ResetPeriod, Turn, TurnToken, jvars, session, written
<1>2. /\ RTypeOK /\ JCore /\ charge \in [Tasks -> Quotas] /\ direct \in [Requests -> Quotas]
      /\ tokenDirect \in [Requests -> Quotas]
      /\ wallet \in Int /\ wallet >= -WalletLimit /\ wallet <= WalletLimit
      /\ used \in Nat /\ used <= Total /\ token \in Int /\ Total \in Nat /\ WalletLimit \in Nat
  BY RequestConstants DEF RInv, RTypeOK, JTypeOK
<1>3. JCore' BY <1>1, <1>2, StutterStep
<1>4. /\ Reconciled' /\ quota' = charge' /\ SessionRowsOnly' /\ FeesOneShot' /\ TokenFollowsFunding'
  BY <1>1 DEF RInv, Reconciled, Outstanding, InitialQuota, SessionRowsOnly, FeesOneShot, TokenFollowsFunding
<1>5. Lifecycle' BY <1>1, LifecycleKept
<1>6. /\ wallet' \in -WalletLimit .. WalletLimit /\ used' \in 0 .. Total /\ token' \in Int
      /\ direct' \in [Requests -> Quotas] /\ tokenDirect' \in [Requests -> Quotas]
      /\ \A x \in Requests : direct[x] > 0 => direct'[x] > 0
      /\ wallet' < 0 => wallet < 0 \/ \E x \in Requests : direct'[x] > 0
      /\ token' < 0 => token < 0 \/ \E x \in Requests : direct'[x] > 0
  <2>1. CASE ResetPeriod
    BY <1>2, <2>1 DEF ResetPeriod, turns
  <2>2. ASSUME NEW r \in Requests, NEW q \in Quotas, Turn(r, q) PROVE <1>6
    <3>1. /\ q > 0 /\ direct[r] + q <= charge[r] /\ FundingAllows(Funding(r), q, TRUE)
          /\ wallet' = IF Funding(r) = "wallet" THEN wallet - q ELSE wallet
          /\ used' = IF Funding(r) = "subscription" THEN used + q ELSE used
          /\ direct' = [direct EXCEPT ![r] = @ + q]
          /\ UNCHANGED <<token, tokenDirect>>
      BY <2>2 DEF Turn
    <3>2. q \in Nat /\ direct[r] \in Nat /\ charge[r] \in Quotas /\ direct[r] + q \in Quotas /\ direct[r] + q > 0
      BY <1>2, <3>1, RequestFacts DEF Quotas
    <3>3. direct' \in [Requests -> Quotas] /\ direct'[r] > 0
          /\ \A x \in Requests \ {r} : direct'[x] = direct[x]
      BY <1>2, <3>1, <3>2
    <3>4. wallet' \in -WalletLimit .. WalletLimit /\ used' \in 0 .. Total
      BY <1>2, <3>1, <3>2 DEF FundingAllows, WalletAllows
    <3> QED BY <1>2, <3>1, <3>3, <3>4
  <2>3. ASSUME NEW r \in Requests, NEW q \in Quotas, TurnToken(r, q) PROVE <1>6
    <3>1. /\ q > 0 /\ tokenDirect[r] + q <= direct[r]
          /\ token' = token - q
          /\ tokenDirect' = [tokenDirect EXCEPT ![r] = @ + q]
          /\ UNCHANGED <<wallet, used, direct>>
      BY <2>3 DEF TurnToken
    <3>2. q \in Nat /\ tokenDirect[r] \in Nat /\ direct[r] \in Quotas /\ tokenDirect[r] + q \in Quotas /\ direct[r] > 0
      BY <1>2, <3>1, RequestFacts DEF Quotas
    <3> QED BY <1>2, <3>1, <3>2
  <2> QED BY <2>1, <2>2, <2>3
<1>9. taken' \in [Tasks -> [Sources -> Int]]
  <2>1. taken \in [Tasks -> [Sources -> Int]] BY <1>2 DEF RTypeOK
  <2>2. ASSUME NEW r \in Requests, NEW q \in Quotas, Turn(r, q) PROVE <1>9
    <3>1. r \in Tasks /\ q \in Int /\ Note(r, Funding(r), q)
      BY <2>2, RequestFacts DEF Turn, Quotas
    <3> QED BY <2>1, <3>1, NoteTyped
  <2>3. CASE taken' = taken BY <2>1, <2>3
  <2> QED BY <2>2, <2>3 DEF ResetPeriod, TurnToken
<1>7. RTypeOK' BY <1>1, <1>2, <1>3, <1>6, <1>9 DEF RTypeOK, JCore
<1>8. OnlyUseOverdraws' BY <1>1, <1>6, OverdrawKept DEF RInv
<1> QED BY <1>3, <1>4, <1>5, <1>7, <1>8 DEF RInv
--------------------------------------------------------------------------------
(* The theorems *)

\* Every step keeps the inductive invariant.
LEMMA NextRInv == RInv /\ [RNext]_rvars => RInv'
<1> SUFFICES ASSUME RInv, [RNext]_rvars PROVE RInv' OBVIOUS
<1>1. ASSUME NEW r \in Requests, NEW q \in Quotas, NEW trust \in BOOLEAN, Admit(r, q, trust)
      PROVE  RInv'
  BY <1>1, AdmitReserves, ReservationStep
<1>2. ASSUME NEW r \in Requests, NEW q \in Quotas, Reserve(r, q) PROVE RInv'
  <2>1. (r \notin Image) \in BOOLEAN OBVIOUS
  <2> QED BY <1>2, <2>1, ReserveReserves, ReservationStep
<1>3. ASSUME NEW r \in Requests,
             \/ AdmitRefused(r) \/ FreeModel(r) \/ NoLongerFree(r)
             \/ Fail(r) \/ NoRefund(r) \/ NoFee(r)
      PROVE  RInv'
  BY <1>3, RequestMoves
<1>4. ASSUME NEW r \in Requests,
             Settle(r) \/ Refund(r) \/ \E t \in Tasks \ Requests : ChargeFee(r, t)
      PROVE  RInv'
  BY <1>4, SubmissionStep
<1>5. ASSUME NEW r \in Requests, Die(r) PROVE RInv'
  BY <1>5, RequestFacts, ReturnOrDieStep
<1>6. ASSUME NEW w \in Workers, Post(w) \/ Carry(w) \/ Returned(w) \/ Sweep(w) PROVE RInv'
  BY <1>6, PostStep, CarryStep, ReturnOrDieStep, SweepStep
<1>7. CASE \/ ResetPeriod
           \/ \E r \in Requests, q \in Quotas : Turn(r, q) \/ TurnToken(r, q)
  BY <1>7, BesideStep
<1>8. CASE UNCHANGED rvars
  <2>1. /\ UNCHANGED <<reserved, charge, net, quota, row, receipt, logged, posted, opened, pc, cur>>
        /\ UNCHANGED <<at, session, balances, turns, written>>
    BY <1>8 DEF rvars, jvars
  <2>2. JCore' /\ Lifecycle'
    BY <2>1, StutterStep, LifecycleKept DEF RInv
  <2>3. at \in [Requests -> Places] BY DEF RInv, RTypeOK
  <2> QED BY <2>1, <2>2, <2>3, WorkerStep
<1> QED BY <1>1, <1>2, <1>3, <1>4, <1>5, <1>6, <1>7, <1>8 DEF RNext

\* Every reachable state satisfies the inductive invariant.
THEOREM RInvCorrect == RSpec => []RInv
BY InitRInv, NextRInv, PTL DEF RSpec

\* Type correctness; the wallet stays in its range and the subscription between
\* nothing and its total.
THEOREM RTypeCorrect == RSpec => []RTypeOK
<1>1. RInv => RTypeOK BY DEF RInv
<1> QED BY <1>1, RInvCorrect, PTL

\* The token is always debited by what the funding source is.
THEOREM TokenFollowsFundingCorrect == RSpec => []TokenFollowsFunding
<1>1. RInv => TokenFollowsFunding BY DEF RInv
<1> QED BY <1>1, RInvCorrect, PTL

\* Admission and the reservations of image requests never overdraw, however
\* many requests race for the last quota.
THEOREM OnlyUseOverdrawsCorrect == RSpec => []OnlyUseOverdraws
<1>1. RInv => OnlyUseOverdraws BY DEF RInv
<1> QED BY <1>1, RInvCorrect, PTL

\* What the balances hold for a task: its reservation until an operation is
\* applied, then its charge or nothing.
LEMMA NetFacts ==
    ASSUME RInv, NEW t \in Tasks
    PROVE  /\ net[t] \in Int /\ charge[t] \in Nat /\ reserved[t] \in Nat
           /\ ~(Key("settle", t) \in posted /\ Key("refund", t) \in posted)
           /\ ~(Key("settle", t) \in opened /\ Key("refund", t) \in opened)
           /\ \A k \in SessionKinds : Key(k, t) \in posted => Key(k, t) \in opened
           /\ net[t] = IF Key("settle", t) \in posted THEN charge[t]
                       ELSE IF Key("refund", t) \in posted THEN 0 ELSE reserved[t]
<1>1. /\ net[t] \in Int /\ charge[t] \in Nat /\ reserved[t] \in Nat
      /\ quota[t] = charge[t] /\ net[t] = quota[t] + Outstanding(t)
  BY DEF RInv, RTypeOK, JTypeOK, Quotas, Reconciled
<1>2. \A k \in SessionKinds : Key(k, t) \in posted => Key(k, t) \in opened
  BY KeyFacts DEF RInv, JCore, SessionOnce, SessionKinds, Kinds
<1>3. ~(Key("settle", t) \in opened /\ Key("refund", t) \in opened)
  BY DEF RInv, FeesOneShot, Lifecycle, LifecycleOf
<1>4. ~(Key("settle", t) \in posted /\ Key("refund", t) \in posted)
  BY <1>2, <1>3 DEF SessionKinds
<1>5. InitialQuota(t) = charge[t] BY RequestConstants DEF InitialQuota
<1>6. net[t] = IF Key("settle", t) \in posted THEN charge[t]
               ELSE IF Key("refund", t) \in posted THEN 0 ELSE reserved[t]
  BY <1>1, <1>4, <1>5 DEF Outstanding
<1> QED BY <1>1, <1>2, <1>3, <1>4, <1>6

--------------------------------------------------------------------------------
(* Rows and sources: the second part of the invariant *)

\* Every initial state satisfies it.
LEMMA InitSInv == RInit => SInv
<1> SUFFICES ASSUME RInit PROVE SInv OBVIOUS
<1>1. RowsKept /\ SourceFirst BY RequestFacts DEF RInit, RowsKept, SourceFirst
<1>2. \A key \in Keys : row[key].state = "none" BY DEF RInit, NoRow
<1>3. ASSUME NEW t \in Tasks PROVE Booked(t) = 0
  <2>1. net[t] = 0 /\ (t \in Requests => direct[t] = 0) BY DEF RInit
  <2> QED BY <2>1 DEF Booked
<1>4. SourceKept BY <1>2, <1>3 DEF RInit, SourceKept
<1> QED BY <1>1, <1>4 DEF SInv

\* A step that takes nothing, submits nothing, applies nothing and deletes only
\* applied rows.
LEMMA SourceUnmoved ==
    ASSUME SInv, opened \subseteq Keys,
           \A r \in Requests : at'[r] \in {"first", "second"} =>
               at[r] \in {"first", "second"} \/ direct[r] = 0,
           \A r \in Requests : at[r] \in {"charging", "done", "dead"} =>
               at'[r] \in {"charging", "done", "dead"},
           \A key \in Keys : row[key].state # "applied" => row'[key].state = row[key].state,
           UNCHANGED <<source, net, direct, taken, rowSource, unwritten, opened, posted>>
    PROVE  SInv'
<1>1. RowsKept' BY DEF SInv, RowsKept
<1>2. SourceFirst' BY RequestFacts DEF SInv, SourceFirst
<1>3. \A t \in Tasks : Booked(t)' = Booked(t) /\ Funding(t)' = Funding(t)
  BY DEF Booked, Funding
<1>4. \A key \in Keys : row'[key].state # "none" => rowSource'[key] = Funding(key.task)'
  BY <1>3, KeyFacts DEF SInv, SourceKept
<1>5. SourceKept' BY <1>3, <1>4 DEF SInv, SourceKept
<1> QED BY <1>1, <1>2, <1>5 DEF SInv

\* The journal's steps that move no balance touch only rows that are applied.
LEMMA CarryKeepsRows ==
    ASSUME RInv, NEW w \in Workers, Carry(w)
    PROVE  \A key \in Keys : row[key].state # "applied" => row'[key].state = row[key].state
<1>1. row \in [Keys -> Rows] /\ cur[w] \in Keys BY DEF RInv, RTypeOK, JTypeOK
<1>2. ApplyAgain(w) \/ ApplyRefused(w) \/ WriteLog(w) \/ MarkLogDone(w) \/ DeleteRow(w) \/ StepFails(w)
  BY DEF Carry
<1> QED BY <1>1, <1>2 DEF ApplyAgain, ApplyRefused, WriteLog, MarkLogDone, DeleteRow, StepFails, Rows

\* Steps of requests, workers and the clock that move nothing of it.
LEMMA OtherStepsKeepSources ==
    ASSUME RInv, SInv,
           \/ \E r \in Requests :
                 \/ AdmitRefused(r) \/ FreeModel(r) \/ NoLongerFree(r)
                 \/ Fail(r) \/ NoRefund(r) \/ NoFee(r) \/ Die(r)
                 \/ \E q \in Quotas : TurnToken(r, q)
           \/ \E w \in Workers : Carry(w) \/ Returned(w) \/ Sweep(w)
           \/ ResetPeriod \/ UNCHANGED rvars
    PROVE  SInv'
<1>1. /\ at \in [Requests -> Places] /\ opened \subseteq Keys
      /\ \A r \in Requests : at[r] \notin {"refunding", "charging", "settling"} => pc[r] = "idle"
  BY DEF RInv, RTypeOK, JTypeOK, Lifecycle, LifecycleOf
<1>2. ASSUME NEW r \in Requests,
             \/ AdmitRefused(r) \/ FreeModel(r) \/ NoLongerFree(r)
             \/ Fail(r) \/ NoRefund(r) \/ NoFee(r) \/ Die(r)
             \/ \E q \in Quotas : TurnToken(r, q)
      PROVE  SInv'
  <2>1. UNCHANGED <<source, net, direct, taken, rowSource, unwritten, opened, posted, row>>
    BY <1>2 DEF AdmitRefused, FreeModel, NoLongerFree, Fail, NoRefund, NoFee, Die, TurnToken,
                Quiet, jvars, session, balances, turns, written
  <2>2. \A x \in Requests \ {r} : at'[x] = at[x]
    BY <1>1, <1>2 DEF AdmitRefused, FreeModel, NoLongerFree, Fail, NoRefund, NoFee, Die, TurnToken, Goto
  <2>3. /\ at'[r] \in {"first", "second"} => at[r] \in {"first", "second"} \/ direct[r] = 0
        /\ at[r] \in {"charging", "done", "dead"} => at'[r] \in {"charging", "done", "dead"}
    BY <1>1, <1>2 DEF AdmitRefused, FreeModel, NoLongerFree, Fail, NoRefund, NoFee, Die, TurnToken, Goto
  <2> QED BY <1>1, <2>1, <2>2, <2>3, SourceUnmoved
<1>3. ASSUME NEW w \in Workers, Carry(w) PROVE SInv'
  <2>1. UNCHANGED <<source, net, direct, taken, rowSource, unwritten, opened, posted, at>>
    BY <1>3 DEF Carry, ApplyAgain, ApplyRefused, WriteLog, MarkLogDone, DeleteRow, StepFails,
                session, balances, turns, written
  <2> QED BY <1>1, <1>3, <2>1, CarryKeepsRows, SourceUnmoved
<1>4. ASSUME NEW w \in Workers, Returned(w) PROVE SInv'
  <2>1. UNCHANGED <<source, net, direct, taken, rowSource, unwritten, opened, posted, row>>
    BY <1>4 DEF Returned, Return, session, balances, turns, written
  <2>2. /\ \A x \in Requests \ {w} : at'[x] = at[x]
        /\ w \in Requests => at'[w] \in {"fee", "done"} /\ pc[w] # "idle"
        /\ w \in Requests /\ at[w] # "refunding" => at'[w] = "done"
    BY <1>1, <1>4 DEF Returned, Return, Goto
  <2>3. \A x \in Requests : at[x] \in {"charging", "done", "dead"} =>
           at'[x] \in {"charging", "done", "dead"}
    BY <2>2
  <2>4. \A x \in Requests : at'[x] \in {"first", "second"} => at[x] \in {"first", "second"}
    BY <2>2
  <2> QED BY <1>1, <2>1, <2>3, <2>4, SourceUnmoved
<1>5. CASE (\E w \in Workers : Sweep(w)) \/ ResetPeriod \/ UNCHANGED rvars
  <2>1. UNCHANGED <<source, net, direct, taken, rowSource, unwritten, opened, posted, row, at>>
    BY <1>5 DEF Sweep, Crash, SweepPick, ResetPeriod, rvars, jvars, session, balances, turns, written
  <2> QED BY <1>1, <2>1, SourceUnmoved
<1> QED BY <1>2, <1>3, <1>4, <1>5

\* A row names an operation that was submitted: the settlement or the refund of
\* a request, or the settlement of a fee.
LEMMA RowsSubmitted ==
    ASSUME RInv, NEW key \in Keys, row[key].state # "none"
    PROVE  /\ key \in opened /\ key.kind \in SessionKinds /\ key = Key(key.kind, key.task)
           /\ key.task \in Tasks
           /\ key.task \notin Requests => key.kind = "settle"
<1>1. key.task \in Tasks /\ key = Key(key.kind, key.task) BY KeyFacts
<1>2. key.kind \in SessionKinds BY DEF RInv, SessionRowsOnly
<1>3. key \in opened BY <1>2 DEF RInv, JCore, SessionOnce
<1> QED BY <1>1, <1>2, <1>3 DEF RInv, FeesOneShot, SessionKinds

\* A reservation, by which a session gets its source, takes from that source
\* what it books.
LEMMA ReservationKeepsSource ==
    ASSUME RInv, SInv, NEW r \in Requests, NEW s, NEW a, NEW debt \in BOOLEAN,
           Reservation(r, s, a, debt)
    PROVE  SInv'
<1>1. /\ a \in Nat /\ s \in Sources \cup {"none"} /\ source[r] \in {"none", s}
      /\ s = "none" => reserved[r] + a = 0
      /\ at[r] \in {"first", "second", "open"} /\ (at[r] = "open" => source[r] = s)
      /\ net' = [net EXCEPT ![r] = @ + a] /\ Note(r, s, a)
      /\ source' = [source EXCEPT ![r] = s]
      /\ at' = [at EXCEPT ![r] = "open"]
      /\ UNCHANGED <<direct, rowSource, unwritten, opened, posted, row>>
  BY DEF Reservation, Quiet, Take, turns, written
<1>2. /\ r \in Tasks /\ Owner[r] = r /\ at \in [Requests -> Places] /\ opened \subseteq Keys
      /\ source \in [Requests -> Sources \cup {"none"}] /\ net \in [Tasks -> Int]
      /\ direct \in [Requests -> Int] /\ taken \in [Tasks -> [Sources -> Int]]
      /\ reserved[r] \in Nat
  BY RequestFacts DEF RInv, RTypeOK, JTypeOK, Quotas
<1>3. \A k \in SessionKinds : Key(k, r) \notin opened
  BY <1>1 DEF RInv, Lifecycle, LifecycleOf, SessionKinds
<1>4. \A t \in Tasks \ Requests : Owner[t] = r => \A k \in SessionKinds : Key(k, t) \notin opened
  BY <1>1 DEF SInv, SourceFirst, RInv, FeesOneShot, SessionKinds
<1>5. RowsKept' BY <1>1 DEF SInv, RowsKept
<1>6. SourceFirst'
  BY <1>1, <1>2, RequestFacts DEF SInv, SourceFirst
<1>7. \A t \in Tasks : Owner[t] # r => Funding(t)' = Funding(t)
  BY <1>1, <1>2, RequestFacts DEF Funding
<1>8. \A key \in Keys : row'[key].state # "none" => rowSource'[key] = Funding(key.task)'
  <2> SUFFICES ASSUME NEW key \in Keys, row[key].state # "none"
               PROVE  rowSource[key] = Funding(key.task)'
    BY <1>1
  <2>1. /\ key \in opened /\ key.kind \in SessionKinds /\ key = Key(key.kind, key.task)
        /\ key.task \in Tasks
    BY RowsSubmitted
  <2>2. key.task \in Requests => key.task # r BY <1>3, <2>1
  <2>3. key.task \in Requests => Owner[key.task] = key.task BY RequestFacts
  <2>4. Owner[key.task] # r BY <1>4, <2>1, <2>2, <2>3
  <2> QED BY <1>7, <2>1, <2>4 DEF SInv, SourceKept
<1>9. \A t \in Tasks : Owner[t] = r /\ (t # r \/ source[r] # s) => Booked(t) = 0
  <2> SUFFICES ASSUME NEW t \in Tasks, Owner[t] = r, t # r \/ source[r] # s PROVE Booked(t) = 0
    OBVIOUS
  <2>1. \A k \in SessionKinds : Key(k, t) \notin opened
    BY <1>3, <1>4, RequestFacts
  <2>2. net[t] = reserved[t] BY <2>1, NetFacts DEF SessionKinds
  <2>3. CASE t # r
    <3>1. t \notin Requests BY <2>3, RequestFacts
    <3> QED BY <2>2, <3>1, <1>2 DEF Booked, RInv, FeesOneShot
  <2>4. CASE t = r /\ source[r] # s
    <3>1. reserved[r] = 0 BY <1>1, <2>4 DEF RInv, Lifecycle, LifecycleOf
    <3>2. direct[r] = 0 BY <1>1, <2>4 DEF SInv, SourceFirst
    <3> QED BY <2>2, <2>4, <3>1, <3>2, <1>2 DEF Booked
  <2> QED BY <2>3, <2>4
<1>10. /\ Booked(r)' = Booked(r) + a /\ Booked(r) \in Int
       /\ \A t \in Tasks \ {r} : Booked(t)' = Booked(t)
  BY <1>1, <1>2 DEF Booked
<1>11. /\ \A t \in Tasks \ {r}, x \in Sources : taken'[t][x] = taken[t][x]
       /\ \A x \in Sources : taken'[r][x] = taken[r][x] + (IF x = s THEN a ELSE 0)
  BY <1>1, <1>2 DEF Note
<1>12. \A t \in Tasks, x \in Sources : taken[t][x] = IF x = Funding(t) THEN Booked(t) ELSE 0
  BY DEF SInv, SourceKept
<1>13. ASSUME NEW t \in Tasks, NEW x \in Sources
       PROVE  taken'[t][x] = IF x = Funding(t)' THEN Booked(t)' ELSE 0
  <2>1. CASE Owner[t] # r
    <3>1. t # r BY <1>2, <2>1
    <3> QED BY <3>1, <2>1, <1>7, <1>10, <1>11, <1>12
  <2>2. CASE Owner[t] = r /\ t # r
    <3>1. Booked(t)' = 0 /\ taken'[t][x] = 0
      BY <2>2, <1>9, <1>10, <1>11, <1>12
    <3> QED BY <3>1
  <2>3. CASE t = r
    <3>1. Funding(r)' = IF s = "none" THEN "wallet" ELSE s
      BY <1>1, <1>2 DEF Funding
    <3>2. CASE source[r] # s
      <4>1. Booked(r) = 0 /\ taken[r][x] = 0 BY <2>3, <3>2, <1>2, <1>9, <1>12
      <4>2. s # "none" BY <1>1, <3>2
      <4> QED BY <2>3, <3>1, <4>1, <4>2, <1>1, <1>10, <1>11
    <3>3. CASE source[r] = s
      <4>1. Funding(r) = IF s = "none" THEN "wallet" ELSE s BY <3>3, <1>2 DEF Funding
      <4>2. s = "none" => a = 0 BY <1>1, <1>2
      <4>3. taken[r][x] = IF x = Funding(r) THEN Booked(r) ELSE 0 BY <1>2, <1>12
      <4>4. x # "none" BY DEF Sources
      <4> QED BY <2>3, <3>1, <4>1, <4>2, <4>3, <4>4, <1>1, <1>10, <1>11
    <3> QED BY <3>2, <3>3
  <2> QED BY <2>1, <2>2, <2>3
<1>14. SourceKept' BY <1>8, <1>13 DEF SourceKept
<1> QED BY <1>5, <1>6, <1>14 DEF SInv

\* A submitted row is pending and has the source of its session, or nothing is
\* written.
LEMMA SubmissionKeepsSource ==
    ASSUME RInv, SInv, NEW r \in Requests,
           Settle(r) \/ Refund(r) \/ \E t \in Tasks \ Requests : ChargeFee(r, t)
    PROVE  SInv'
<1> USE RequestFacts, KeyFacts DEF SessionKinds, Kinds
<1>1. PICK t \in Tasks, k \in SessionKinds, p \in Places : \E fact :
         /\ fact.state = "pending" /\ ~fact.entity /\ ~fact.confirm
         /\ Submitted(r, Key(k, t), fact, p)
         /\ \/ at[r] = "open" /\ t = r /\ p = "settling"
            \/ at[r] = "failing" /\ t = r /\ p = "refunding"
            \/ at[r] = "fee" /\ t \notin Requests /\ Owner[t] = r /\ k = "settle" /\ p = "charging"
  <2>1. \A u \in Tasks : LET f == SettleFact(u, FALSE) IN f.state = "pending" /\ ~f.entity /\ ~f.confirm
    BY RequestConstants DEF SettleFact, Fact
  <2>2. \A u \in Tasks : LET f == RefundFact(u) IN f.state = "pending" /\ ~f.entity /\ ~f.confirm
    BY DEF RefundFact, Fact
  <2>3. CASE Settle(r) BY <2>1, <2>3 DEF Settle, Places
  <2>4. CASE Refund(r) BY <2>2, <2>4 DEF Refund, Places
  <2>5. CASE \E t \in Tasks \ Requests : ChargeFee(r, t)
    BY <2>1, <2>5 DEF ChargeFee, Places
  <2> QED BY <2>3, <2>4, <2>5
<1>2. PICK fact :
         /\ fact.state = "pending" /\ ~fact.entity /\ ~fact.confirm
         /\ Submitted(r, Key(k, t), fact, p)
         /\ \/ at[r] = "open" /\ t = r /\ p = "settling"
            \/ at[r] = "failing" /\ t = r /\ p = "refunding"
            \/ at[r] = "fee" /\ t \notin Requests /\ Owner[t] = r /\ k = "settle" /\ p = "charging"
  BY <1>1
<1> DEFINE key == Key(k, t)
<1>3. key \in Keys /\ key.kind = k /\ key.task = t OBVIOUS
<1>4. /\ key \notin opened /\ opened' = opened \cup {key}
      /\ Ensure(r, key, fact) \/ EnsureFails(r, key, fact)
      /\ \/ row'[key].state = "none" /\ unwritten' = unwritten \cup {key} /\ rowSource' = rowSource
         \/ /\ row'[key].state # "none"
            /\ rowSource' = [rowSource EXCEPT ![key] = Funding(t)] /\ unwritten' = unwritten
      /\ at' = [at EXCEPT ![r] = p]
      /\ UNCHANGED <<session, balances, turns>>
  BY <1>2, <1>3 DEF Submitted, SessionSubmit, Goto
<1>5. /\ row \in [Keys -> Rows] /\ opened \subseteq Keys /\ at \in [Requests -> Places]
      /\ rowSource \in [Keys -> Sources \cup {"none"}]
      /\ row[key].state = "none"
  BY <1>3, <1>4 DEF RInv, RTypeOK, JTypeOK, JCore, SessionOnce
<1>6. /\ UNCHANGED <<source, net, direct, taken, posted>>
      /\ \A x \in Keys \ {key} : row'[x] = row[x]
      /\ row'[key].state \in {"none", "pending"}
  <2>1. UNCHANGED <<source, direct, taken>> BY <1>4 DEF session, balances, turns
  <2>2. CASE EnsureFails(r, key, fact) BY <2>1, <2>2, <1>5 DEF EnsureFails
  <2>3. CASE Ensure(r, key, fact)
    <3>1. Stored(key, fact) = fact BY <1>5 DEF Stored
    <3>2. ~HasReceipt(key, fact) BY <1>2 DEF HasReceipt
    <3>3. EnsuredRow(key, fact) = fact BY <3>1, <3>2 DEF EnsuredRow
    <3>4. row' = [row EXCEPT ![key] = fact] /\ UNCHANGED <<net, posted>>
      BY <2>3, <3>3 DEF Ensure
    <3> QED BY <1>2, <1>3, <1>5, <2>1, <3>4
  <2> QED BY <1>4, <2>2, <2>3
<1> HIDE DEF key
<1>7. RowsKept'
  <2> SUFFICES ASSUME NEW x \in opened'
               PROVE  x \in posted' \/ row'[x].state = "pending" \/ x \in unwritten'
    BY DEF RowsKept
  <2>1. CASE x = key BY <2>1, <1>4, <1>6
  <2>2. CASE x # key
    <3>1. x \in opened /\ x \in Keys BY <2>2, <1>4, <1>5
    <3> QED BY <2>2, <3>1, <1>4, <1>6 DEF SInv, RowsKept
  <2> QED BY <2>1, <2>2
<1>8. SourceFirst'
  <2>1. ASSUME NEW x \in Requests, at'[x] \in {"first", "second"} PROVE direct'[x] = 0
    <3>1. x # r BY <2>1, <1>2, <1>4, <1>5
    <3> QED BY <2>1, <3>1, <1>4, <1>5, <1>6 DEF SInv, SourceFirst
  <2>2. ASSUME NEW u \in Tasks \ Requests, Key("settle", u) \in opened'
        PROVE  at'[Owner[u]] \in {"charging", "done", "dead"}
    <3>1. CASE Key("settle", u) = key
      <4>1. u = t BY <3>1, <1>3
      <4> QED BY <4>1, <1>2, <1>4, <1>5
    <3>2. CASE Key("settle", u) # key
      <4>1. at[Owner[u]] \in {"charging", "done", "dead"}
        BY <2>2, <3>2, <1>4 DEF SInv, SourceFirst
      <4>2. Owner[u] # r BY <4>1, <1>2
      <4> QED BY <4>1, <4>2, <1>4, <1>5
    <3> QED BY <3>1, <3>2
  <2> QED BY <2>1, <2>2 DEF SourceFirst
<1>9. \A u \in Tasks : Booked(u)' = Booked(u) /\ Funding(u)' = Funding(u)
  BY <1>6 DEF Booked, Funding
<1>10. \A x \in Keys : row'[x].state # "none" => rowSource'[x] = Funding(x.task)'
  <2> SUFFICES ASSUME NEW x \in Keys, row'[x].state # "none"
               PROVE  rowSource'[x] = Funding(x.task)'
    OBVIOUS
  <2>0. x.task \in Tasks OBVIOUS
  <2>1. CASE x = key
    <3>1. rowSource'[key] = Funding(t) BY <2>1, <1>3, <1>4, <1>5
    <3> QED BY <2>0, <2>1, <3>1, <1>3, <1>9
  <2>2. CASE x # key
    <3>1. rowSource'[x] = rowSource[x] BY <2>2, <1>3, <1>4, <1>5
    <3>2. row[x].state # "none" BY <2>2, <1>6
    <3> QED BY <2>0, <3>1, <3>2, <1>9 DEF SInv, SourceKept
  <2> QED BY <2>1, <2>2
<1>11. SourceKept' BY <1>6, <1>9, <1>10 DEF SInv, SourceKept
<1> QED BY <1>7, <1>8, <1>11 DEF SInv

\* Booking d on t and noting it for the source of t keep the two in agreement.
LEMMA TakenFollows ==
    ASSUME taken \in [Tasks -> [Sources -> Int]], NEW t \in Tasks, NEW d \in Int,
           Note(t, Funding(t), d), Booked(t) \in Int, Booked(t)' = Booked(t) + d,
           \A u \in Tasks \ {t} : Booked(u)' = Booked(u),
           \A u \in Tasks : Funding(u)' = Funding(u),
           \A u \in Tasks, s \in Sources : taken[u][s] = IF s = Funding(u) THEN Booked(u) ELSE 0
    PROVE  \A u \in Tasks, s \in Sources : taken'[u][s] = IF s = Funding(u)' THEN Booked(u)' ELSE 0
<1>1. /\ \A u \in Tasks \ {t}, x \in Sources : taken'[u][x] = taken[u][x]
      /\ \A x \in Sources : taken'[t][x] = taken[t][x] + (IF x = Funding(t) THEN d ELSE 0)
  BY DEF Note
<1>2. ASSUME NEW u \in Tasks \ {t}, NEW x \in Sources
      PROVE  taken'[u][x] = IF x = Funding(u)' THEN Booked(u)' ELSE 0
  BY <1>1
<1>3. ASSUME NEW x \in Sources
      PROVE  taken'[t][x] = IF x = Funding(t)' THEN Booked(t)' ELSE 0
  BY <1>1
<1> QED BY <1>2, <1>3

\* The money transaction moves the source that the row names, which is the
\* session's.
LEMMA PostKeepsSource ==
    ASSUME RInv, SInv, NEW w \in Workers, Post(w)
    PROVE  SInv'
<1>1. PICK t \in Tasks, k \in SessionKinds, d \in Int :
         /\ Key(k, t) \in opened /\ row[Key(k, t)].state = "pending"
         /\ \A x \in Keys \ {Key(k, t)} : row'[x] = row[x]
         /\ posted' = posted \cup {Key(k, t)}
         /\ net' = [net EXCEPT ![t] = @ + d]
         /\ Note(t, rowSource[Key(k, t)], d)
         /\ UNCHANGED <<opened, at, session, turns, written>>
  BY PostEffect
<1>2. UNCHANGED <<source, direct, rowSource, unwritten>> BY <1>1 DEF session, turns, written
<1>3. /\ net \in [Tasks -> Int] /\ direct \in [Requests -> Int] /\ opened \subseteq Keys
      /\ taken \in [Tasks -> [Sources -> Int]]
  BY DEF RInv, RTypeOK, JTypeOK, Quotas
<1>4. Key(k, t) \in Keys /\ Key(k, t).task = t BY KeyFacts DEF SessionKinds, Kinds
<1>5. RowsKept' BY <1>1, <1>2, <1>3 DEF SInv, RowsKept
<1>6. SourceFirst' BY <1>1, <1>2 DEF SInv, SourceFirst
<1>7. \A u \in Tasks : Funding(u)' = Funding(u) BY <1>2 DEF Funding
<1>8. \A x \in Keys : row'[x].state # "none" => rowSource'[x] = Funding(x.task)'
  BY <1>1, <1>2, <1>7, KeyFacts DEF SInv, SourceKept
<1>9. rowSource[Key(k, t)] = Funding(t)
  BY <1>1, <1>4 DEF SInv, SourceKept
<1>10. /\ Booked(t)' = Booked(t) + d /\ Booked(t) \in Int
       /\ \A u \in Tasks \ {t} : Booked(u)' = Booked(u)
  BY <1>1, <1>2, <1>3 DEF Booked
<1>11. SourceKept' BY <1>1, <1>3, <1>7, <1>8, <1>9, <1>10, TakenFollows DEF SInv, SourceKept
<1> QED BY <1>5, <1>6, <1>11 DEF SInv

\* A realtime turn is taken from the source of the session.
LEMMA TurnKeepsSource ==
    ASSUME RInv, SInv, NEW r \in Requests, NEW q \in Quotas, Turn(r, q)
    PROVE  SInv'
<1>1. /\ MayTurn(r) /\ Note(r, Funding(r), q)
      /\ direct' = [direct EXCEPT ![r] = @ + q]
      /\ UNCHANGED <<net, row, posted, opened, at, source, rowSource, unwritten>>
  BY DEF Turn, jvars, session, written
<1>2. /\ net \in [Tasks -> Int] /\ direct \in [Requests -> Int] /\ q \in Int /\ r \in Tasks
      /\ taken \in [Tasks -> [Sources -> Int]] /\ LifecycleOf(r)
  BY RequestFacts DEF RInv, RTypeOK, JTypeOK, Quotas, Lifecycle
<1>3. RowsKept' BY <1>1 DEF SInv, RowsKept
<1>4. at[r] \notin {"first", "second"} BY <1>1, <1>2 DEF MayTurn, LifecycleOf
<1>5. SourceFirst' BY <1>1, <1>2, <1>4 DEF SInv, SourceFirst
<1>6. \A u \in Tasks : Funding(u)' = Funding(u) BY <1>1 DEF Funding
<1>7. \A x \in Keys : row'[x].state # "none" => rowSource'[x] = Funding(x.task)'
  BY <1>1, <1>6, KeyFacts DEF SInv, SourceKept
<1>8. /\ Booked(r)' = Booked(r) + q /\ Booked(r) \in Int
      /\ \A u \in Tasks \ {r} : Booked(u)' = Booked(u)
  BY <1>1, <1>2 DEF Booked
<1>9. SourceKept' BY <1>1, <1>2, <1>6, <1>7, <1>8, TakenFollows DEF SInv, SourceKept
<1> QED BY <1>3, <1>5, <1>9 DEF SInv

\* Every step keeps it.
LEMMA NextSInv == RInv /\ SInv /\ [RNext]_rvars => SInv'
<1> SUFFICES ASSUME RInv, SInv, [RNext]_rvars PROVE SInv' OBVIOUS
<1>1. ASSUME NEW r \in Requests, NEW q \in Quotas, NEW trust \in BOOLEAN, Admit(r, q, trust)
      PROVE  SInv'
  BY <1>1, AdmitReserves, ReservationKeepsSource
<1>2. ASSUME NEW r \in Requests, NEW q \in Quotas, Reserve(r, q) PROVE SInv'
  <2>1. (r \notin Image) \in BOOLEAN OBVIOUS
  <2> QED BY <1>2, <2>1, ReserveReserves, ReservationKeepsSource
<1>3. ASSUME NEW r \in Requests,
             Settle(r) \/ Refund(r) \/ \E t \in Tasks \ Requests : ChargeFee(r, t)
      PROVE  SInv'
  BY <1>3, SubmissionKeepsSource
<1>4. ASSUME NEW w \in Workers, Post(w) PROVE SInv' BY <1>4, PostKeepsSource
<1>5. ASSUME NEW r \in Requests, NEW q \in Quotas, Turn(r, q) PROVE SInv' BY <1>5, TurnKeepsSource
<1> QED BY <1>1, <1>2, <1>3, <1>4, <1>5, OtherStepsKeepSources DEF RNext

\* Every reachable state has a row, or a refused insert, for each submitted
\* operation, and rows and debits that agree with the session's source.
THEOREM SInvCorrect == RSpec => []SInv
BY InitSInv, NextSInv, RInvCorrect, PTL DEF RSpec

\* Whatever is taken for a request or its fee is taken from one source and given
\* back to it, whichever preference, fallback, crash or sweep there was.
THEOREM OneSourceCorrect == RSpec => []OneSource
<1>1. ASSUME RInv, SInv PROVE OneSource
  <2> SUFFICES ASSUME NEW t \in Tasks
               PROVE  \E s \in Sources :
                         taken[t][s] >= 0 /\ \A x \in Sources \ {s} : taken[t][x] = 0
    BY DEF OneSource
  <2>1. Funding(t) \in Sources
    BY <1>1, RequestFacts DEF Funding, RInv, RTypeOK, Sources
  <2>2. net[t] >= 0 /\ net[t] \in Int BY <1>1, NetFacts
  <2>3. Booked(t) >= 0 BY <1>1, <2>2 DEF Booked, RInv, RTypeOK, Quotas
  <2>4. /\ taken[t][Funding(t)] = Booked(t)
        /\ \A x \in Sources \ {Funding(t)} : taken[t][x] = 0
    BY <1>1, <2>1 DEF SInv, SourceKept
  <2> QED BY <2>1, <2>3, <2>4
<1>2. RInv /\ SInv => OneSource BY <1>1
<1> QED BY <1>2, RInvCorrect, SInvCorrect, PTL

\* A request that ran to its end and still holds quota was settled, or has a row
\* that recovery will apply, or its row was refused by the database.
THEOREM NothingStrandedCorrect == RSpec => []NothingStranded
<1>1. ASSUME RInv, SInv PROVE NothingStranded
  <2> SUFFICES ASSUME NEW r \in Requests, at[r] = "done", net[r] # 0
               PROVE  \E k \in SessionKinds :
                         \/ Key(k, r) \in posted \/ row[Key(k, r)].state = "pending"
                         \/ Key(k, r) \in unwritten
    BY DEF NothingStranded
  <2>1. reserved[r] = 0 \/ \E k \in SessionKinds : Key(k, r) \in opened
    BY <1>1 DEF RInv, Lifecycle, LifecycleOf
  <2>2. /\ \A k \in SessionKinds : Key(k, r) \in posted => Key(k, r) \in opened
        /\ net[r] = IF Key("settle", r) \in posted THEN charge[r]
                    ELSE IF Key("refund", r) \in posted THEN 0 ELSE reserved[r]
    BY <1>1, RequestFacts, NetFacts
  <2>3. \E k \in SessionKinds : Key(k, r) \in opened BY <2>1, <2>2 DEF SessionKinds
  <2> QED BY <1>1, <2>3 DEF SInv, RowsKept
<1>2. RInv /\ SInv => NothingStranded BY <1>1
<1> QED BY <1>2, RInvCorrect, SInvCorrect, PTL
--------------------------------------------------------------------------------
(* Requests implement RequestCharge *)

\* The abstract phases.
Phase == [t \in Tasks |-> PhaseOf(t)]

\* A key names one task and one kind.
LEMMA KeyInjective ==
    \A t \in Tasks, u \in Tasks, k \in SessionKinds, j \in SessionKinds :
        Key(k, t) = Key(j, u) => k = j /\ t = u
BY DEF Key

\* A step that submits and applies nothing leaves the phases as they are.
LEMMA PhaseKept ==
    ASSUME UNCHANGED <<posted, opened>>
    PROVE  Phase' = Phase
<1>1. \A t \in Tasks : PhaseOf(t)' = PhaseOf(t) BY DEF PhaseOf
<1> QED BY <1>1 DEF Phase

\* What a task has submitted and what has been applied to it is its phase.
LEMMA PhaseFacts ==
    ASSUME RInv, NEW t \in Tasks
    PROVE  /\ PhaseOf(t) = "open" <=>
                 \A k \in SessionKinds : Key(k, t) \notin opened
           /\ Key("settle", t) \in opened /\ Key("settle", t) \notin posted =>
                 PhaseOf(t) = "settling"
           /\ Key("refund", t) \in opened /\ Key("refund", t) \notin posted =>
                 PhaseOf(t) = "returning"
<1>1. /\ ~(Key("settle", t) \in posted /\ Key("refund", t) \in posted)
      /\ ~(Key("settle", t) \in opened /\ Key("refund", t) \in opened)
      /\ Key("settle", t) \in posted => Key("settle", t) \in opened
      /\ Key("refund", t) \in posted => Key("refund", t) \in opened
  BY NetFacts DEF SessionKinds
<1>2. PhaseOf(t) = "open" <=>
         \A k \in SessionKinds : Key(k, t) \notin opened
  BY <1>1 DEF PhaseOf, SessionKinds
<1>3. ASSUME Key("settle", t) \in opened, Key("settle", t) \notin posted
      PROVE  PhaseOf(t) = "settling"
  BY <1>1, <1>3 DEF PhaseOf
<1>4. ASSUME Key("refund", t) \in opened, Key("refund", t) \notin posted
      PROVE  PhaseOf(t) = "returning"
  BY <1>1, <1>4 DEF PhaseOf
<1> QED BY <1>2, <1>3, <1>4

\* Steps that move nothing that RequestCharge sees.
LEMMA ChargeStutter ==
    ASSUME UNCHANGED <<charge, net, posted, opened>>
    PROVE  UNCHANGED Charges!cvars
<1>1. Phase' = Phase BY PhaseKept
<1> QED BY <1>1 DEF Charges!cvars, Phase

\* A reservation is a Hold, or nothing when nothing is reserved.
LEMMA ReservationHolds ==
    ASSUME RInv, NEW r \in Requests, NEW s, NEW a, NEW debt \in BOOLEAN, Reservation(r, s, a, debt)
    PROVE  Charges!Hold(r) \/ UNCHANGED Charges!cvars
<1>1. /\ a \in Nat /\ at[r] \in {"first", "second", "open"}
      /\ net' = [net EXCEPT ![r] = @ + a]
      /\ UNCHANGED <<charge, posted, opened>>
  BY DEF Reservation, Take, Quiet
<1>2. /\ r \in Tasks /\ net \in [Tasks -> Int] /\ LifecycleOf(r)
  BY RequestFacts DEF RInv, RTypeOK, JTypeOK, Lifecycle
<1>3. Phase' = Phase BY <1>1, PhaseKept
<1>4. CASE a = 0
  <2>1. net' = net BY <1>1, <1>2, <1>4
  <2> QED BY <1>1, <2>1, ChargeStutter
<1>5. CASE a > 0
  <2>1. \A k \in SessionKinds : Key(k, r) \notin opened
    BY <1>1, <1>2 DEF LifecycleOf, SessionKinds
  <2>2. Phase[r] = "open" BY <1>2, <2>1, PhaseFacts DEF Phase
  <2>3. net'[r] > net[r] /\ net' = [net EXCEPT ![r] = net'[r]]
    BY <1>1, <1>2, <1>5
  <2> QED BY <1>1, <1>3, <2>2, <2>3 DEF Charges!Hold, Phase
<1> QED BY <1>1, <1>4, <1>5

\* Submitting an operation of a task that has submitted none is a Close.
LEMMA SubmissionCloses ==
    ASSUME RInv, NEW t \in Tasks, NEW k \in SessionKinds,
           Key(k, t) \notin opened, opened' = opened \cup {Key(k, t)},
           \A j \in SessionKinds : Key(j, t) \notin opened,
           UNCHANGED <<charge, net, posted>>
    PROVE  Charges!Close(t)
<1>1. PhaseOf(t) = "open" BY PhaseFacts
<1>2. \A j \in SessionKinds : Key(j, t) \notin posted BY NetFacts
<1>3. PhaseOf(t)' = IF k = "settle" THEN "settling" ELSE "returning"
  BY <1>2, KeyInjective DEF PhaseOf, SessionKinds
<1>4. \A u \in Tasks \ {t} : PhaseOf(u)' = PhaseOf(u)
  <2> SUFFICES ASSUME NEW u \in Tasks \ {t} PROVE PhaseOf(u)' = PhaseOf(u) OBVIOUS
  <2>1. \A j \in SessionKinds : Key(j, u) \in opened' <=> Key(j, u) \in opened
    BY KeyInjective
  <2> QED BY <2>1 DEF PhaseOf, SessionKinds
<1>5. Phase' = [Phase EXCEPT ![t] = PhaseOf(t)'] BY <1>4 DEF Phase
<1>6. PhaseOf(t)' \in {"settling", "returning"} BY <1>3
<1>7. Phase' \in {[Phase EXCEPT ![t] = p] : p \in {"settling", "returning"}} BY <1>5, <1>6
<1>8. Phase[t] = "open" BY <1>1 DEF Phase
<1> QED BY <1>7, <1>8 DEF Charges!Close, Phase

\* A settlement, a refund or a fee is submitted once, and for a task that has
\* submitted nothing.
LEMMA RequestCloses ==
    ASSUME RInv, NEW r \in Requests,
           Settle(r) \/ Refund(r) \/ \E t \in Tasks \ Requests : ChargeFee(r, t)
    PROVE  Charges!CNext
<1>1. r \in Tasks /\ LifecycleOf(r) BY RequestFacts DEF RInv, Lifecycle
<1>2. "settle" \in SessionKinds /\ "refund" \in SessionKinds BY DEF SessionKinds
<1>3. CASE Settle(r)
  <2>1. /\ Key("settle", r) \notin opened /\ opened' = opened \cup {Key("settle", r)}
        /\ UNCHANGED <<charge, net, posted>> /\ at[r] = "open"
    BY <1>3 DEF Settle, Submitted, SessionSubmit, Ensure, EnsureFails
  <2>2. \A j \in SessionKinds : Key(j, r) \notin opened
    BY <1>1, <2>1 DEF LifecycleOf, SessionKinds
  <2>3. Charges!Close(r) BY <1>1, <1>2, <2>1, <2>2, SubmissionCloses
  <2> QED BY <1>1, <2>3 DEF Charges!CNext
<1>4. CASE Refund(r)
  <2>1. /\ Key("refund", r) \notin opened /\ opened' = opened \cup {Key("refund", r)}
        /\ UNCHANGED <<charge, net, posted>> /\ at[r] = "failing"
    BY <1>4 DEF Refund, Submitted, SessionSubmit, Ensure, EnsureFails
  <2>2. \A j \in SessionKinds : Key(j, r) \notin opened
    BY <1>1, <2>1 DEF LifecycleOf, SessionKinds
  <2>3. Charges!Close(r) BY <1>1, <1>2, <2>1, <2>2, SubmissionCloses
  <2> QED BY <1>1, <2>3 DEF Charges!CNext
<1>5. ASSUME NEW t \in Tasks \ Requests, ChargeFee(r, t) PROVE Charges!CNext
  <2>1. /\ Key("settle", t) \notin opened /\ opened' = opened \cup {Key("settle", t)}
        /\ UNCHANGED <<charge, net, posted>>
    BY <1>5 DEF ChargeFee, Submitted, SessionSubmit, Ensure, EnsureFails
  <2>2. \A j \in SessionKinds : Key(j, t) \notin opened
    BY <2>1 DEF RInv, FeesOneShot, SessionKinds
  <2>3. Charges!Close(t) BY <1>2, <2>1, <2>2, SubmissionCloses
  <2> QED BY <2>3 DEF Charges!CNext
<1> QED BY <1>3, <1>4, <1>5

\* The transaction that applies a row charges the task what its log shows, or
\* gives back all that is held for it.
LEMMA PostCharges ==
    ASSUME RInv, NEW w \in Workers, Post(w)
    PROVE  Charges!CNext
<1>1. PICK t \in Tasks, k \in SessionKinds, d \in Int :
         /\ Key(k, t) \in opened /\ Key(k, t) \notin posted
         /\ posted' = posted \cup {Key(k, t)}
         /\ d = IF k = "settle" THEN charge[t] - reserved[t] ELSE 0 - reserved[t]
         /\ net' = [net EXCEPT ![t] = @ + d]
         /\ UNCHANGED <<charge, opened>>
  BY PostEffect
<1>2. /\ net \in [Tasks -> Int] /\ charge[t] \in Int /\ reserved[t] \in Int
      /\ Key(k, t) \in opened
      /\ \A j \in SessionKinds : Key(j, t) \in posted => Key(j, t) \in opened
      /\ ~(Key("settle", t) \in opened /\ Key("refund", t) \in opened)
  BY <1>1, NetFacts DEF RInv, RTypeOK, JTypeOK
<1>3. \A j \in SessionKinds : Key(j, t) \notin posted
  BY <1>1, <1>2 DEF SessionKinds
<1>4. \A u \in Tasks \ {t} : PhaseOf(u)' = PhaseOf(u)
  <2> SUFFICES ASSUME NEW u \in Tasks \ {t} PROVE PhaseOf(u)' = PhaseOf(u) OBVIOUS
  <2>1. \A j \in SessionKinds : Key(j, u) \in posted' <=> Key(j, u) \in posted
    BY <1>1, KeyInjective
  <2> QED BY <1>1, <2>1 DEF PhaseOf, SessionKinds
<1>5. Phase' = [Phase EXCEPT ![t] = PhaseOf(t)'] BY <1>4 DEF Phase
<1>6. net[t] = reserved[t] BY <1>3, NetFacts DEF SessionKinds
<1>7. net' = [net EXCEPT ![t] = IF k = "settle" THEN charge[t] ELSE 0]
  <2>1. net[t] + d = IF k = "settle" THEN charge[t] ELSE 0 BY <1>1, <1>2, <1>6
  <2>2. net' = [net EXCEPT ![t] = net[t] + d] BY <1>1
  <2> QED BY <2>1, <2>2
<1>8. CASE k = "settle"
  <2>1. Phase[t] = "settling" BY <1>1, <1>8, PhaseFacts DEF Phase
  <2>2. PhaseOf(t)' = "settled" BY <1>1, <1>8 DEF PhaseOf
  <2>3. Charges!Charge(t) BY <1>1, <1>5, <1>7, <1>8, <2>1, <2>2 DEF Charges!Charge, Phase
  <2> QED BY <2>3 DEF Charges!CNext
<1>9. CASE k = "refund"
  <2>1. Phase[t] = "returning" BY <1>1, <1>9, PhaseFacts DEF Phase
  <2>2. Key("settle", t) \notin posted' /\ Key("refund", t) \in posted'
    BY <1>1, <1>3, <1>9 DEF SessionKinds, Key
  <2>3. PhaseOf(t)' = "returned" BY <2>2 DEF PhaseOf
  <2>4. Charges!GiveBack(t) BY <1>1, <1>5, <1>7, <1>9, <2>1, <2>3 DEF Charges!GiveBack, Phase
  <2> QED BY <2>4 DEF Charges!CNext
<1> QED BY <1>8, <1>9 DEF SessionKinds

\* Sessions and the journal implement RequestCharge: every request is settled
\* for exactly what its log shows or gets everything back.
THEOREM RequestChargeRefinement == RSpec => ImplementsRequestCharge
<1>1. RInit => Charges!CInit
  <2> SUFFICES ASSUME RInit PROVE Charges!CInit OBVIOUS
  <2>1. charge \in [Tasks -> Nat] BY ConstantsAssumption DEF RInit, Quotas
  <2>2. net = [t \in Tasks |-> 0] BY DEF RInit
  <2>3. \A t \in Tasks : PhaseOf(t) = "open" BY DEF RInit, PhaseOf
  <2>4. [t \in Tasks |-> PhaseOf(t)] = [t \in Tasks |-> "open"] BY <2>3
  <2> QED BY <2>1, <2>2, <2>4 DEF Charges!CInit
<1>2. ASSUME RInv, [RNext]_rvars PROVE Charges!CNext \/ UNCHANGED Charges!cvars
  <2>1. ASSUME NEW r \in Requests, NEW s, NEW a, NEW debt \in BOOLEAN, Reservation(r, s, a, debt)
        PROVE  Charges!CNext \/ UNCHANGED Charges!cvars
    <3>1. r \in Tasks BY RequestFacts
    <3> QED BY <1>2, <2>1, <3>1, ReservationHolds DEF Charges!CNext
  <2>2. ASSUME NEW r \in Requests, NEW q \in Quotas, NEW trust \in BOOLEAN, Admit(r, q, trust)
        PROVE  Charges!CNext \/ UNCHANGED Charges!cvars
    BY <1>2, <2>1, <2>2, AdmitReserves
  <2>3. ASSUME NEW r \in Requests, NEW q \in Quotas, Reserve(r, q)
        PROVE  Charges!CNext \/ UNCHANGED Charges!cvars
    <3>1. (r \notin Image) \in BOOLEAN OBVIOUS
    <3> QED BY <1>2, <2>1, <2>3, <3>1, ReserveReserves
  <2>4. ASSUME NEW r \in Requests,
               Settle(r) \/ Refund(r) \/ \E t \in Tasks \ Requests : ChargeFee(r, t)
        PROVE  Charges!CNext
    BY <1>2, <2>4, RequestCloses
  <2>5. ASSUME NEW w \in Workers, Post(w) PROVE Charges!CNext
    BY <1>2, <2>5, PostCharges
  <2>6. ASSUME NEW r \in Requests,
               \/ AdmitRefused(r) \/ FreeModel(r) \/ NoLongerFree(r)
               \/ Fail(r) \/ NoRefund(r) \/ NoFee(r) \/ Die(r)
               \/ \E q \in Quotas : Turn(r, q) \/ TurnToken(r, q)
        PROVE  UNCHANGED Charges!cvars
    <3>1. UNCHANGED <<charge, net, posted, opened>>
      BY <2>6 DEF AdmitRefused, FreeModel, NoLongerFree, Fail, NoRefund, NoFee, Die, Turn, TurnToken,
                  Quiet, jvars
    <3> QED BY <3>1, ChargeStutter
  <2>7. ASSUME NEW w \in Workers, Carry(w) \/ Returned(w) \/ Sweep(w)
        PROVE  UNCHANGED Charges!cvars
    <3>1. UNCHANGED <<charge, net, posted, opened>>
      BY <2>7 DEF Carry, Returned, Sweep, ApplyAgain, ApplyRefused, WriteLog, MarkLogDone, DeleteRow,
                  StepFails, Return, Crash, SweepPick
    <3> QED BY <3>1, ChargeStutter
  <2>8. CASE ResetPeriod \/ UNCHANGED rvars
    <3>1. UNCHANGED <<charge, net, posted, opened>>
      BY <2>8 DEF ResetPeriod, rvars, jvars
    <3> QED BY <3>1, ChargeStutter
  <2> QED BY <1>2, <2>2, <2>3, <2>4, <2>5, <2>6, <2>7, <2>8 DEF RNext
<1>3. RInv /\ [RNext]_rvars => [Charges!CNext]_(Charges!cvars) BY <1>2
<1> QED BY <1>1, <1>3, RInvCorrect, PTL DEF RSpec, ImplementsRequestCharge, Charges!CSpec
--------------------------------------------------------------------------------
(* Without realtime requests the log shows what was charged *)

\* Only realtime turns take quota outside the journal.
DirectIsRealtime == \A r \in Requests \ Realtime : direct[r] = 0

\* Outside realtime connections, a settled request or fee has been charged
\* exactly what its consume log shows, whichever workers fail or crash.
THEOREM LogShowsChargeWithoutRealtime ==
    RSpec => [](Realtime = {} => LogShowsCharge)
<1>1. RInit => DirectIsRealtime BY DEF RInit, DirectIsRealtime
<1>2. ASSUME RInv, DirectIsRealtime, [RNext]_rvars PROVE DirectIsRealtime'
  <2>1. ASSUME NEW r \in Requests, NEW q \in Quotas, Turn(r, q) PROVE DirectIsRealtime'
    <3>1. direct \in [Requests -> Quotas] BY <1>2 DEF RInv, RTypeOK
    <3>2. r \in Realtime /\ direct' = [direct EXCEPT ![r] = @ + q] BY <2>1 DEF Turn
    <3> QED BY <1>2, <3>1, <3>2 DEF DirectIsRealtime
  <2>2. CASE UNCHANGED direct BY <1>2, <2>2 DEF DirectIsRealtime
  <2>3. ASSUME NEW r \in Requests, NEW q \in Quotas, NEW trust \in BOOLEAN,
               \/ Admit(r, q, trust) \/ Reserve(r, q) \/ TurnToken(r, q)
               \/ AdmitRefused(r) \/ FreeModel(r) \/ NoLongerFree(r)
               \/ Fail(r) \/ NoRefund(r) \/ NoFee(r) \/ Die(r)
        PROVE  UNCHANGED direct
    BY <2>3 DEF Admit, Reserve, TurnToken, AdmitRefused, FreeModel, NoLongerFree, Fail, NoRefund,
                NoFee, Die, Quiet, turns
  <2>4. ASSUME NEW r \in Requests,
               Settle(r) \/ Refund(r) \/ \E t \in Tasks \ Requests : ChargeFee(r, t)
        PROVE  UNCHANGED direct
    BY <2>4 DEF Settle, Refund, ChargeFee, Submitted, turns
  <2>5. ASSUME NEW w \in Workers, Post(w) \/ Carry(w) \/ Returned(w) \/ Sweep(w)
        PROVE  UNCHANGED direct
    BY <2>5 DEF Post, Carry, Returned, Sweep, turns
  <2>6. CASE ResetPeriod \/ UNCHANGED rvars
    <3>1. UNCHANGED direct BY <2>6 DEF ResetPeriod, rvars, turns
    <3> QED BY <3>1, <2>2
  <2>7. TRUE \in BOOLEAN /\ 0 \in Quotas BY ConstantsAssumption DEF Quotas
  <2> QED BY <1>2, <2>1, <2>2, <2>3, <2>4, <2>5, <2>6, <2>7 DEF RNext
<1>3. ASSUME RInv, DirectIsRealtime, Realtime = {} PROVE LogShowsCharge
  <2> SUFFICES ASSUME NEW t \in Tasks, Key("settle", t) \in posted PROVE Booked(t) = charge[t]
    BY DEF LogShowsCharge
  <2>1. net[t] = charge[t] /\ net[t] \in Int BY <1>3, NetFacts
  <2>2. t \in Requests => direct[t] = 0 BY <1>3 DEF DirectIsRealtime
  <2> QED BY <2>1, <2>2 DEF Booked
<1>4. RInv /\ DirectIsRealtime /\ [RNext]_rvars => DirectIsRealtime' BY <1>2
<1>5. RInv /\ DirectIsRealtime => (Realtime = {} => LogShowsCharge) BY <1>3
<1> QED BY <1>1, <1>4, <1>5, RInvCorrect, PTL DEF RSpec
================================================================================
