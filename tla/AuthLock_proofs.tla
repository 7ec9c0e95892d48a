---------------------------- MODULE AuthLock_proofs ----------------------------
(***************************************************************************)
(* What the Web Lock does for the refresh cookie: it is never more than    *)
(* one generation behind the server, only a refresh abandoned halfway can  *)
(* look like a stolen token, and tabs do not force each other out.         *)
(***************************************************************************)
EXTENDS AuthSession_proofs

\* A refresh, before and after a step that neither serves it nor lets its answer
\* reach the cookie: it is over or waits for the lock, or is the same, or failed.
CalmRun(p, q, failed) ==
    \/ q.at \notin {"req", "rsp"}
    \/ q.at = p.at /\ q.kind = p.kind /\ q.ck = p.ck /\ q.ans = p.ans
    \/ p.at \in {"req", "rsp"} /\ q.at = "rsp" /\ q.ans.jar # "set" /\ q.ans.kind # "denied" /\ failed

\* A user operation, before and after a step: unanswered; the same; answered
\* without a cookie; or a sign-in that opened a session.
CalmOp(p, q) ==
    \/ q.at # "rsp"
    \/ p.at = "rsp" /\ q.kind = p.kind /\ q.again = p.again /\ q.sid = p.sid /\ q.av = p.av /\ q.ans = p.ans
    \/ q.ans.jar # "set" /\ ~(q.kind = "api" /\ q.again /\ q.ans.kind = "denied")
    \/ /\ q.ans.jar # "set"
       /\ row'[q.sid].st # "active" \/ q.av # av'
    \/ /\ q.ans.jar = "set" /\ q.kind = "login" /\ q.ans.tok.sid \in Sids
       /\ row[q.ans.tok.sid].st = "none"

\* The token of an answer that arrives was issued by the server.
LEMMA AnswerKnown ==
    ASSUME ACore, NEW u \in Tabs
    PROVE  /\ tab[u].run.at = "rsp" /\ tab[u].run.ans.tok.sid # NoSid => row[tab[u].run.ans.tok.sid].st # "none"
           /\ tab[u].op.at = "rsp" /\ tab[u].op.ans.tok.sid # NoSid => row[tab[u].op.ans.tok.sid].st # "none"
           /\ tab[u].run.ck.sid # NoSid => row[tab[u].run.ck.sid].st # "none"
           /\ tab[u].run \in Requests /\ tab[u].op \in Requests
           /\ RefreshedTo(u) => tab[u].run.ans.tok.sid \in Sids
           /\ SignedInTo(u) => tab[u].op.ans.tok.sid \in Sids /\ tab[u].op.ans.tok.gen = 0
<1>1. TabGood(tab[u], left[u]) /\ tab[u] \in TabStates BY ACoreFacts
<1>2. tab[u].run \in Requests /\ tab[u].op \in Requests BY <1>1, TabTypes
<1>3. RefreshedTo(u) => tab[u].run.ans.tok.sid # NoSid BY <1>1 DEF TabGood, RunShape, RefreshedTo
<1>4. SignedInTo(u) => tab[u].op.ans.tok.sid # NoSid /\ tab[u].op.ans.tok.gen = 0 BY <1>1 DEF TabGood, OpShape, SignedInTo
<1>5. tab[u].run.ans.tok.sid \in Sids \cup {NoSid} /\ tab[u].op.ans.tok.sid \in Sids \cup {NoSid}
  BY <1>2, RequestTypes
<1> QED BY <1>1, <1>2, <1>3, <1>4, <1>5 DEF TabGood, ReqKnown, Known, Issued

\* A step that serves no refresh and lets no new token reach the cookie.
CalmFrame(t) ==
    /\ \A s \in Sids : /\ Moves(row[s], row'[s]) /\ row'[s].gen = row[s].gen
                       /\ row'[s].st = "reused" => row[s].st = "reused"
    /\ av <= av' /\ faults <= faults' /\ (lost => lost')
    /\ cookie' = cookie \/ cookie' = NoCookie
    /\ \A u \in Tabs \ {t} : tab'[u] = tab[u] /\ (u \in lock => u \in lock')
    /\ t \in Tabs => /\ CalmRun(tab[t].run, tab'[t].run, faults' # 0)
                     /\ tab'[t].run.at \in {"req", "rsp"} /\ t \in lock => t \in lock'
                     /\ ~lost' /\ RefreshedTo(t) => tab'[t].run.at = "rsp" /\ tab'[t].run.ans = tab[t].run.ans
                     /\ CalmOp(tab[t].op, tab'[t].op)
    /\ \A q \in orphans' : \/ q \in orphans
                           \/ q.kind # "refresh"
                           \/ lost' /\ t \in Tabs /\ q = tab[t].run

\* Where the answers on their way come from.
LEMMA CalmAnswers ==
    ASSUME ACore, NEW t, CalmFrame(t), NEW u \in Tabs
    PROVE  /\ RefreshedTo(u)' => RefreshedTo(u) /\ tab'[u].run.ans = tab[u].run.ans
           /\ SignedInTo(u)' => \/ SignedInTo(u) /\ tab'[u].op.ans = tab[u].op.ans
                                \/ u = t /\ tab'[u].op.ans.tok.sid \in Sids /\ row[tab'[u].op.ans.tok.sid].st = "none"
<1>1. CASE u # t BY <1>1 DEF CalmFrame, RefreshedTo, SignedInTo
<1>2. CASE u = t BY <1>2 DEF CalmFrame, RefreshedTo, SignedInTo, CalmRun, CalmOp
<1> QED BY <1>1, <1>2

\* Such a step keeps the refreshes serialized.
LEMMA CalmSerialized ==
    ASSUME ACore, ACore', HasLocks, Serialized, NEW t, CalmFrame(t)
    PROVE  Serialized'
<1>1. TypeOK /\ TypeOK' /\ Known(cookie.sid, 0) BY ACoreFacts DEF ACore
<1>2. \A s \in Sids : row'[s].gen = row[s].gen BY DEF CalmFrame
<1>3. ASSUME NEW k \in Tokens, NearHead(k) PROVE NearHead(k)'
  <2>1. k.sid # NoSid => k.sid \in Sids BY DEF Tokens
  <2> QED BY <1>2, <1>3, <2>1 DEF NearHead
<1>4. \A u \in Tabs : tab'[u].run.at \in {"req", "rsp"} => u \in lock'
  BY DEF Serialized, CalmFrame, CalmRun
<1>5. NearHead(cookie)'
  <2>1. CASE cookie' = cookie
    <3>1. PICK k \in Tokens : k = cookie BY <1>1 DEF TypeOK
    <3>2. NearHead(k)' BY <1>3, <3>1 DEF Serialized
    <3> QED BY <2>1, <3>1, <3>2 DEF NearHead
  <2>2. CASE cookie' = NoCookie BY <2>2 DEF NearHead, NoCookie, Token
  <2> QED BY <2>1, <2>2 DEF CalmFrame
<1>6. ASSUME NEW u \in Tabs, RefreshedTo(u)' PROVE NearHead(tab[u].run.ans.tok)'
  <2>1. RefreshedTo(u) /\ tab'[u].run.ans = tab[u].run.ans BY <1>6, CalmAnswers
  <2>2. PICK k \in Tokens : k = tab[u].run.ans.tok BY AnswerKnown, RequestTypes
  <2>3. NearHead(k)' BY <1>3, <2>1, <2>2 DEF Serialized
  <2> QED BY <2>1, <2>2, <2>3 DEF NearHead
<1>7. ASSUME NEW q \in Requests, BehindCookie(q), Known(q.ck.sid, 0) PROVE BehindCookie(q)'
  <2> SUFFICES ASSUME q.kind = "refresh", q.at = "req", q.ck.sid # NoSid
               PROVE  /\ q.ck.gen <= row'[q.ck.sid].gen
                      /\ cookie'.sid = q.ck.sid => q.ck.gen <= cookie'.gen
                      /\ \A u \in Tabs : RefreshedTo(u)' /\ tab'[u].run.ans.tok.sid = q.ck.sid =>
                                         q.ck.gen <= tab'[u].run.ans.tok.gen
                      /\ \A u \in Tabs : SignedInTo(u)' => tab'[u].op.ans.tok.sid # q.ck.sid
    BY DEF BehindCookie
  <2>1. q.ck.sid \in Sids /\ row[q.ck.sid].st # "none" BY <1>7, RequestTypes DEF Known, Issued
  <2>2. q.ck.gen <= row'[q.ck.sid].gen BY <1>2, <1>7, <2>1 DEF BehindCookie
  <2>3. cookie'.sid = q.ck.sid => q.ck.gen <= cookie'.gen
    BY <1>7 DEF BehindCookie, CalmFrame, NoCookie, Token
  <2>4. \A u \in Tabs : RefreshedTo(u)' /\ tab'[u].run.ans.tok.sid = q.ck.sid => q.ck.gen <= tab'[u].run.ans.tok.gen
    BY <1>7, CalmAnswers DEF BehindCookie
  <2>5. \A u \in Tabs : SignedInTo(u)' => tab'[u].op.ans.tok.sid # q.ck.sid
    BY <1>7, <2>1, CalmAnswers DEF BehindCookie
  <2> QED BY <2>2, <2>3, <2>4, <2>5
<1>8. ASSUME NEW u \in Tabs PROVE BehindCookie(tab[u].run)'
  <2>1. CASE tab'[u].run.at # "req" BY <2>1 DEF BehindCookie
  <2>2. CASE tab'[u].run.at = "req"
    <3>1. tab[u].run.at = "req" /\ tab'[u].run.kind = tab[u].run.kind /\ tab'[u].run.ck = tab[u].run.ck
      BY <2>2 DEF CalmFrame, CalmRun
    <3>2. PICK q \in Requests : q = tab[u].run BY AnswerKnown
    <3>3. Known(q.ck.sid, 0) BY <1>8, <3>2, ACoreFacts DEF TabGood, ReqKnown
    <3>4. BehindCookie(q)' BY <1>7, <1>8, <3>2, <3>3 DEF Serialized
    <3> QED BY <2>2, <3>1, <3>2, <3>4 DEF BehindCookie
  <2> QED BY <2>1, <2>2
<1>9. ASSUME NEW q \in orphans' PROVE BehindCookie(q)'
  <2>1. CASE q \in orphans
    <3>1. OrphanGood(q) BY <2>1, ACoreFacts
    <3> QED BY <1>7, <2>1, <3>1 DEF OrphanGood, ReqKnown, Serialized
  <2>2. CASE q.kind # "refresh" BY <2>2 DEF BehindCookie
  <2>3. CASE t \in Tabs /\ q = tab[t].run
    <3>1. q \in Requests /\ Known(q.ck.sid, 0) /\ BehindCookie(q)
      BY <2>3, AnswerKnown, ACoreFacts DEF TabGood, ReqKnown, Serialized
    <3> QED BY <1>7, <3>1
  <2> QED BY <1>9, <2>1, <2>2, <2>3 DEF CalmFrame
<1>10. ASSUME NEW u \in Tabs, SignedInTo(u)'
       PROVE  LET s == tab'[u].op.ans.tok.sid
              IN  /\ row'[s].gen = 0 /\ cookie'.sid # s
                  /\ \A w \in Tabs : RefreshedTo(w)' => tab'[w].run.ans.tok.sid # s
                  /\ \A w \in Tabs \ {u} : SignedInTo(w)' => tab'[w].op.ans.tok.sid # s
  <2> DEFINE s == tab'[u].op.ans.tok.sid
  <2>1. \A w \in Tabs : RefreshedTo(w)' => RefreshedTo(w) /\ tab'[w].run.ans = tab[w].run.ans BY CalmAnswers
  <2>2. \A w \in Tabs : SignedInTo(w)' =>
            \/ SignedInTo(w) /\ tab'[w].op.ans = tab[w].op.ans
            \/ w = t /\ tab'[w].op.ans.tok.sid \in Sids /\ row[tab'[w].op.ans.tok.sid].st = "none"
    BY CalmAnswers
  <2>3. \A w \in Tabs : /\ RefreshedTo(w) => tab[w].run.ans.tok.sid \in Sids /\ row[tab[w].run.ans.tok.sid].st # "none"
                        /\ SignedInTo(w) => tab[w].op.ans.tok.sid \in Sids /\ row[tab[w].op.ans.tok.sid].st # "none"
    BY AnswerKnown, SidFacts DEF RefreshedTo, SignedInTo
  <2>4. CASE SignedInTo(u) /\ tab'[u].op.ans = tab[u].op.ans
    <3>1. s \in Sids /\ s = tab[u].op.ans.tok.sid /\ row[s].st # "none" BY <1>10, <2>3, <2>4
    <3>2. /\ row[s].gen = 0 /\ cookie.sid # s
          /\ \A w \in Tabs : RefreshedTo(w) => tab[w].run.ans.tok.sid # s
          /\ \A w \in Tabs \ {u} : SignedInTo(w) => tab[w].op.ans.tok.sid # s
      BY <1>10, <2>4, <3>1 DEF Serialized
    <3>3. cookie'.sid # s BY <3>1, <3>2, SidFacts DEF CalmFrame, NoCookie, Token
    <3> HIDE DEF s
    <3>4. \A w \in Tabs : RefreshedTo(w)' => tab'[w].run.ans.tok.sid # s BY <2>1, <3>2
    <3>5. \A w \in Tabs \ {u} : SignedInTo(w)' => tab'[w].op.ans.tok.sid # s BY <2>2, <3>1, <3>2
    <3> QED BY <1>2, <3>1, <3>2, <3>3, <3>4, <3>5 DEF s
  <2>5. CASE u = t /\ s \in Sids /\ row[s].st = "none"
    <3>1. row[s].gen = 0 BY <2>5, ACoreFacts DEF Issued
    <3>2. cookie.sid # s BY <1>1, <2>5, SidFacts DEF Known, Issued
    <3>3. cookie'.sid # s BY <2>5, <3>2, SidFacts DEF CalmFrame, NoCookie, Token
    <3> HIDE DEF s
    <3>4. \A w \in Tabs : RefreshedTo(w)' => tab'[w].run.ans.tok.sid # s BY <2>1, <2>3, <2>5
    <3>5. \A w \in Tabs \ {u} : SignedInTo(w)' => tab'[w].op.ans.tok.sid # s BY <2>2, <2>3, <2>5
    <3> QED BY <1>2, <2>5, <3>1, <3>3, <3>4, <3>5 DEF s
  <2> QED BY <1>10, <2>2, <2>4, <2>5
<1> QED BY <1>4, <1>5, <1>6, <1>8, <1>9, <1>10 DEF Serialized

\* A session that the server refuses stays refused.
LEMMA StaysRefused ==
    ASSUME row \in [Sids -> Rows], row' \in [Sids -> Rows], \A s \in Sids : Moves(row[s], row'[s]),
           NEW s \in Sids, row[s].st # "none", ~Active(s)
    PROVE  ~Active(s)'
BY DEF Active, Moves, Rows

\* What a request of a tab says of its session is known.
LEMMA TabKnown ==
    ASSUME ACore, NEW u \in Tabs
    PROVE  /\ tab[u].op.sid # NoSid => /\ tab[u].op.sid \in Sids /\ row[tab[u].op.sid].st # "none"
                                       /\ tab[u].op.av <= row[tab[u].op.sid].av /\ row[tab[u].op.sid].av <= av
           /\ tab[u].run.ck.sid # NoSid => tab[u].run.ck.sid \in Sids /\ row[tab[u].run.ck.sid].st # "none"
           /\ tab[u].op.kind = "api" /\ tab[u].op.again => tab[u].op.sid # NoSid /\ tab[u].op.live
           /\ tab[u].op.av \in Nat /\ av \in Nat /\ tab[u].run.ck \in Tokens
<1>1. TabGood(tab[u], left[u]) /\ tab[u] \in TabStates /\ TypeOK /\ \A s \in Sids : row[s].av <= av BY ACoreFacts
<1>2. tab[u].run \in Requests /\ tab[u].op \in Requests BY <1>1, TabTypes
<1>3. tab[u].op.sid \in Sids \cup {NoSid} /\ tab[u].run.ck.sid \in Sids \cup {NoSid} /\ tab[u].op.av \in Nat
      /\ tab[u].run.ck \in Tokens
  BY <1>2, RequestTypes
<1> QED BY <1>1, <1>3 DEF TabGood, ReqKnown, Known, Issued, OpShape, TypeOK

\* The verdict on a retried request that was answered before stays true.
LEMMA VerdictKept ==
    ASSUME ACore, ACore', NEW u \in Tabs, av <= av', \A s \in Sids : Moves(row[s], row'[s]),
           NEW q, q = tab[u].op, q.sid # NoSid, ~Active(q.sid) \/ q.av # av
    PROVE  ~Active(q.sid)' \/ q.av # av'
<1>1. q.sid \in Sids /\ row[q.sid].st # "none" /\ q.av <= av /\ q.av \in Nat /\ av \in Nat
  <2>1. row[q.sid].av \in Nat
    BY TabKnown DEF ACore, TypeOK, Rows
  <2> QED BY <2>1, TabKnown
<1>2. row \in [Sids -> Rows] /\ row' \in [Sids -> Rows] /\ av' \in Nat BY DEF ACore, TypeOK
<1>3. CASE ~Active(q.sid) BY <1>1, <1>2, <1>3, StaysRefused
<1>4. CASE q.av # av BY <1>1, <1>2, <1>4
<1> QED BY <1>3, <1>4

\* A calm step without a loss leaves the cookie, or the answer on its way to it,
\* at the head, and the verdicts true.
LEMMA CalmHead ==
    ASSUME ACore, ACore', HasLocks, Serialized, AtHead, Verdicts, ~lost', NEW t, CalmFrame(t)
    PROVE  AtHead' /\ Verdicts'
<1>1. /\ row \in [Sids -> Rows] /\ row' \in [Sids -> Rows] /\ cookie \in Tokens
      /\ av \in Nat /\ av' \in Nat /\ faults \in Nat /\ faults' \in Nat
  BY DEF ACore, TypeOK
<1>2. \A s \in Sids : row'[s].gen = row[s].gen /\ Moves(row[s], row'[s]) BY DEF CalmFrame
<1>3. \A s \in Sids : row'[s].st # "reused" BY DEF CalmFrame, AtHead
<1>4. \A q \in orphans' : q.kind # "refresh" BY DEF CalmFrame, AtHead
<1>5. ASSUME NEW u \in Tabs, tab'[u].run.at = "req", tab'[u].run.ck.sid # NoSid
      PROVE  row'[tab'[u].run.ck.sid].gen = tab'[u].run.ck.gen
  <2>1. tab[u].run.at = "req" /\ tab'[u].run.ck = tab[u].run.ck BY <1>5 DEF CalmFrame, CalmRun
  <2>2. tab[u].run.ck.sid \in Sids BY <1>5, <2>1, TabKnown
  <2> QED BY <1>2, <1>5, <2>1, <2>2 DEF AtHead
<1>6. ASSUME NEW u \in Tabs, RefreshedTo(u)' PROVE row'[tab'[u].run.ans.tok.sid].gen = tab'[u].run.ans.tok.gen
  <2>1. RefreshedTo(u) /\ tab'[u].run.ans = tab[u].run.ans BY <1>6, CalmAnswers
  <2>2. tab[u].run.ans.tok.sid \in Sids BY <2>1, AnswerKnown
  <2> QED BY <1>2, <2>1, <2>2 DEF AtHead
<1>7. ASSUME cookie'.sid # NoSid
      PROVE  \/ row'[cookie'.sid].gen = cookie'.gen
             \/ \E u \in Tabs : RefreshedTo(u)' /\ tab'[u].run.ans.tok.sid = cookie'.sid
  <2>1. cookie' = cookie BY <1>7 DEF CalmFrame, NoCookie, Token
  <2>2. cookie.sid \in Sids BY <1>1, <1>7, <2>1 DEF Tokens
  <2>3. CASE row[cookie.sid].gen = cookie.gen BY <1>2, <2>1, <2>2, <2>3
  <2>4. CASE \E u \in Tabs : RefreshedTo(u) /\ tab[u].run.ans.tok.sid = cookie.sid
    <3>1. PICK u \in Tabs : RefreshedTo(u) /\ tab[u].run.ans.tok.sid = cookie.sid BY <2>4
    <3>2. RefreshedTo(u)' /\ tab'[u].run.ans = tab[u].run.ans
      BY <3>1 DEF CalmFrame, RefreshedTo
    <3> QED BY <2>1, <3>1, <3>2
  <2> QED BY <1>7, <2>1, <2>3, <2>4 DEF AtHead
<1>8. AtHead' BY <1>3, <1>4, <1>5, <1>6, <1>7 DEF AtHead
<1>9. ASSUME NEW u \in Tabs, tab'[u].run.at = "rsp"
      PROVE  /\ tab'[u].run.ans.kind = "denied" /\ tab'[u].run.ck.sid # NoSid => row'[tab'[u].run.ck.sid].st # "active"
             /\ faults' = 0 => tab'[u].run.ans.kind \in {"ok", "denied", "mismatch"}
  <2>1. CASE tab[u].run.at = "rsp" /\ tab'[u].run.ck = tab[u].run.ck /\ tab'[u].run.ans = tab[u].run.ans
    <3>1. tab[u].run.ans.kind = "denied" /\ tab[u].run.ck.sid # NoSid =>
             /\ tab[u].run.ck.sid \in Sids /\ row[tab[u].run.ck.sid].st # "none"
             /\ row[tab[u].run.ck.sid].st # "active"
      BY <1>9, <2>1, TabKnown DEF Verdicts, Active
    <3>2. faults' = 0 => faults = 0 BY <1>1 DEF CalmFrame
    <3> QED BY <1>1, <1>2, <1>9, <2>1, <3>1, <3>2 DEF Verdicts, Moves, Rows
  <2>2. CASE u = t /\ tab'[u].run.ans.kind # "denied" /\ faults' # 0 BY <2>2
  <2> QED BY <1>9, <2>1, <2>2 DEF CalmFrame, CalmRun
<1>10. ASSUME NEW u \in Tabs, tab'[u].op.kind = "api", tab'[u].op.again, tab'[u].op.at = "rsp",
              tab'[u].op.ans.kind = "denied"
       PROVE  row'[tab'[u].op.sid].st # "active" \/ tab'[u].op.av # av'
  <2>1. CASE tab[u].op.at = "rsp" /\ tab'[u].op.kind = tab[u].op.kind /\ tab'[u].op.again = tab[u].op.again
             /\ tab'[u].op.sid = tab[u].op.sid /\ tab'[u].op.av = tab[u].op.av /\ tab'[u].op.ans = tab[u].op.ans
    <3>1. PICK q : q = tab[u].op OBVIOUS
    <3>2. q.sid # NoSid /\ (~Active(q.sid) \/ q.av # av) BY <1>10, <2>1, <3>1, TabKnown DEF Verdicts
    <3>3. ~Active(q.sid)' \/ q.av # av' BY <1>2, <1>10, <3>1, <3>2, VerdictKept DEF CalmFrame
    <3> QED BY <2>1, <3>1, <3>3 DEF Active
  <2>2. CASE u = t /\ (row'[tab'[u].op.sid].st # "active" \/ tab'[u].op.av # av') BY <2>2
  <2>3. CASE u = t /\ tab'[u].op.kind = "login" BY <1>10, <2>3
  <2>4. u # t => tab'[u] = tab[u] BY DEF CalmFrame
  <2>5. u = t => CalmOp(tab[t].op, tab'[t].op) BY <1>10 DEF CalmFrame
  <2> QED BY <1>10, <2>1, <2>2, <2>3, <2>4, <2>5 DEF CalmOp, Active
<1>11. Verdicts' BY <1>9, <1>10 DEF Verdicts, Active
<1> QED BY <1>8, <1>11

\* A calm step keeps CalmInv.
LEMMA CalmStep ==
    ASSUME CalmInv, ACore', NEW t, HasLocks => CalmFrame(t)
    PROVE  CalmInv'
<1>1. CASE HasLocks
  <2>1. ACore /\ Serialized BY <1>1 DEF CalmInv, CookieInv
  <2>2. Serialized' BY <1>1, <2>1, CalmSerialized
  <2>3. ~lost' => AtHead' /\ Verdicts'
    <3> SUFFICES ASSUME ~lost' PROVE AtHead' /\ Verdicts' OBVIOUS
    <3>1. ~lost BY <1>1 DEF CalmFrame
    <3>2. AtHead /\ Verdicts BY <1>1, <3>1 DEF CalmInv
    <3> QED BY <1>1, <2>1, <3>2, CalmHead
  <2> QED BY <2>2, <2>3 DEF CalmInv, CookieInv
<1>2. CASE ~HasLocks BY <1>2 DEF CalmInv, CookieInv
<1> QED BY <1>1, <1>2, AuthConstants

--------------------------------------------------------------------------------
(* The calm steps *)

\* A request that stays as it is.
LEMMA SameCalm == \A p, failed : CalmRun(p, p, failed) /\ CalmOp(p, p)
BY DEF CalmRun, CalmOp

\* A step that changes no tab and serves no refresh.
LEMMA ServerCalm ==
    ASSUME CalmInv, ACore', UNCHANGED <<tab, cookie, lock>>, av <= av', faults <= faults', lost' = lost,
           \A s \in Sids : /\ Moves(row[s], row'[s]) /\ row'[s].gen = row[s].gen
                           /\ row'[s].st = "reused" => row[s].st = "reused",
           \A q \in orphans' : q \in orphans \/ q.kind # "refresh"
    PROVE  CalmInv'
<1>1. PICK t : t = 0 OBVIOUS
<1>2. CalmFrame(t) BY SameCalm DEF CalmFrame, RefreshedTo
<1> QED BY <1>2, CalmStep

\* A step of one tab that touches neither the server nor the cookie.
LEMMA TabCalm ==
    ASSUME CalmInv, ACore', UNCHANGED <<row, av>>, NEW t \in Tabs, NEW x, tab' = [tab EXCEPT ![t] = x],
           cookie' = cookie \/ cookie' = NoCookie,
           faults' \in {faults, faults + 1}, lost => lost',
           HasLocks => CalmRun(tab[t].run, x.run, faults' # 0), CalmOp(tab[t].op, x.op),
           ~lost' /\ RefreshedTo(t) => x.run.at = "rsp" /\ x.run.ans = tab[t].run.ans,
           lock' = lock \/ (lock' = lock \ {t} /\ x.run.at \notin {"req", "rsp"}),
           \A q \in orphans' : \/ q \in orphans \/ q.kind # "refresh"
                               \/ lost' /\ q = tab[t].run
    PROVE  CalmInv'
<1>1. /\ row \in [Sids -> Rows] /\ av \in Nat /\ faults \in Nat /\ tab \in [Tabs -> TabStates]
  BY DEF CalmInv, CookieInv, ACore, TypeOK
<1>2. \A s \in Sids : /\ Moves(row[s], row'[s]) /\ row'[s].gen = row[s].gen
                      /\ row'[s].st = "reused" => row[s].st = "reused"
  BY <1>1 DEF Moves, Rows
<1>3. tab'[t] = x /\ \A u \in Tabs \ {t} : tab'[u] = tab[u] /\ (u \in lock => u \in lock') BY <1>1
<1>4. av <= av' /\ faults <= faults' BY <1>1
<1>5. HasLocks => CalmFrame(t) BY <1>2, <1>3, <1>4 DEF CalmFrame
<1> QED BY <1>5, CalmStep

\* Serving anything but a refresh.
LEMMA ServeRows ==
    ASSUME ACore, NEW q, Servable(q), q.kind # "refresh", row' = Serve(q).row, av' = Serve(q).av
    PROVE  /\ av <= av'
           /\ \A s \in Sids : /\ Moves(row[s], row'[s]) /\ row'[s].gen = row[s].gen
                              /\ row'[s].st = "reused" => row[s].st = "reused"
<1>1. row \in [Sids -> Rows] /\ av \in Nat /\ (\A s \in Sids : row[s].av <= av) BY ACoreFacts DEF TypeOK
<1> DEFINE e == Serve(q)
<1>2. /\ av <= e.av
      /\ \A s \in Sids : /\ Moves(row[s], e.row[s])
                         /\ q.kind # "refresh" => e.row[s].gen = row[s].gen
                         /\ e.row[s].st = "reused" /\ q.kind # "refresh" => row[s].st = "reused"
  BY <1>1, ServeFacts
<1> HIDE DEF e
<1> QED BY <1>2 DEF e

\* The server serves a user operation.
LEMMA ServeOpCalm ==
    ASSUME CalmInv, ACore', NEW t \in Tabs, ServeOp(t)
    PROVE  CalmInv'
<1>0. ACore BY DEF CalmInv, CookieInv
<1>1. PICK r, L, q : r = tab[t] /\ L = left[t] /\ q = tab[t].op OBVIOUS
<1>2. TabGood(r, L) /\ r \in TabStates /\ TypeOK /\ q \in Requests BY <1>0, <1>1, ACoreFacts, TabTypes
<1>3. Pending(q) /\ q.kind \in {"login", "logout", "api", "secure"} /\ (q.at = "bumped" => q.kind = "secure")
  BY <1>1, <1>2 DEF ServeOp, TabGood, OpShape, Pending
<1>4. Servable(q) BY <1>1, <1>2, <1>3 DEF Servable, TabGood
<1>5. row \in [Sids -> Rows] /\ av \in Nat /\ (\A s \in Sids : row[s].av <= av) BY <1>0, ACoreFacts DEF TypeOK
<1>6. PICK p : p = Answered(q) OBVIOUS
<1> DEFINE x == [r EXCEPT !.op = p]
<1>7. /\ row' = Serve(q).row /\ av' = Serve(q).av /\ tab' = [tab EXCEPT ![t] = x]
      /\ UNCHANGED <<cookie, chan, lock, orphans, left, lost, runs, ops, faults>>
  BY <1>1, <1>6 DEF ServeOp, Set
<1>8. /\ av <= av'
      /\ \A s \in Sids : /\ Moves(row[s], row'[s]) /\ row'[s].gen = row[s].gen
                         /\ row'[s].st = "reused" => row[s].st = "reused"
  BY <1>0, <1>3, <1>4, <1>7, ServeRows
<1>9. /\ p.kind = q.kind /\ p.again = q.again /\ p.sid = q.sid /\ p.av = q.av /\ p.live = q.live
      /\ p.at = "rsp" => p.ans = Serve(q).ans
      /\ p.at \in {"rsp", "bumped"}
  BY <1>4, <1>5, <1>6, AnsweredFacts
<1>10. x.run = tab[t].run /\ x.op = p BY <1>1, <1>2 DEF TabStates
<1> HIDE DEF x
<1>11. CalmOp(q, p)
  <2>1. CASE q.kind = "login"
    <3> DEFINE e == ServeLogin
    <3>1. Serve(q) = e BY <2>1 DEF Serve
    <3>2. \/ e.ans.kind = "refused" /\ e.ans.jar = "keep"
          \/ \E s \in Sids : row[s].st = "none" /\ e.ans.jar = "set" /\ e.ans.tok = Token(s, 0)
      BY <1>5, LoginServed
    <3> HIDE DEF e
    <3>3. CASE e.ans.jar = "keep" BY <1>9, <2>1, <3>1, <3>3 DEF CalmOp
    <3>4. CASE \E s \in Sids : row[s].st = "none" /\ e.ans.jar = "set" /\ e.ans.tok = Token(s, 0)
      <4>1. PICK s \in Sids : row[s].st = "none" /\ e.ans.jar = "set" /\ e.ans.tok = Token(s, 0) BY <3>4
      <4>2. e.ans.tok.sid = s BY <4>1 DEF Token
      <4> QED BY <1>9, <2>1, <3>1, <4>1, <4>2 DEF CalmOp
    <3> QED BY <3>2, <3>3, <3>4
  <2>2. CASE q.kind = "logout" \/ q.kind = "secure"
    <3>1. Serve(q).ans.jar # "set" BY <1>4, <1>5, <2>2, ServeFacts
    <3> QED BY <1>9, <2>2, <3>1 DEF CalmOp
  <2>3. CASE q.kind = "api"
    <3> DEFINE e == ServeApi(q)
    <3>1. Serve(q) = e BY <2>3 DEF Serve
    <3>2. e.av = av /\ e.row = row /\ e.ans.jar = "keep" /\ (e.ans.kind = "denied" <=> ~TokenAccepted(q))
      BY ApiServed
    <3> HIDE DEF e
    <3>3. ASSUME q.again, ~TokenAccepted(q) PROVE row'[q.sid].st # "active" \/ q.av # av'
      <4>1. q.sid \in Sids /\ q.live /\ q.av <= row[q.sid].av /\ row[q.sid].av <= av /\ q.av \in Nat /\ q.sid # NoSid
        BY <1>0, <1>1, <2>3, <3>3, TabKnown
      <4>2. row[q.sid].av \in Nat BY <1>5, <4>1 DEF Rows
      <4>3. row[q.sid].st # "active" \/ row[q.sid].av # q.av \/ av # q.av BY <3>3, <4>1 DEF TokenAccepted, Active
      <4> QED BY <1>5, <1>7, <3>1, <3>2, <4>1, <4>2, <4>3
    <3> QED BY <1>9, <2>3, <3>1, <3>2, <3>3 DEF CalmOp
  <2> QED BY <1>3, <2>1, <2>2, <2>3
<1>12. tab'[t] = x /\ \A u \in Tabs \ {t} : tab'[u] = tab[u] BY <1>2, <1>7 DEF TypeOK
<1>13. faults <= faults' BY <1>2, <1>7 DEF TypeOK
<1>14. CalmFrame(t)
  BY <1>1, <1>7, <1>8, <1>10, <1>11, <1>12, <1>13, SameCalm DEF CalmFrame, RefreshedTo
<1> QED BY <1>14, CalmStep

\* The requests of pages that are gone, but no refresh.
LEMMA OrphanCalm ==
    ASSUME CalmInv, ACore', NEW q \in orphans,
           DropOrphan(q) \/ (ServeOrphan(q) /\ q.kind # "refresh")
    PROVE  CalmInv'
<1>1. ACore BY DEF CalmInv, CookieInv
<1>2. OrphanGood(q) /\ TypeOK BY <1>1, ACoreFacts
<1>3. faults \in Nat /\ av \in Nat /\ row \in [Sids -> Rows] BY <1>2 DEF TypeOK
<1>4. CASE DropOrphan(q)
  BY <1>3, <1>4, ServerCalm DEF DropOrphan, Moves, Rows
<1>5. CASE ServeOrphan(q) /\ q.kind # "refresh"
  <2>1. Servable(q) BY <1>2 DEF Servable, OrphanGood, ReqKnown
  <2>2. PICK p : p = Answered(q) OBVIOUS
  <2>3. p.kind = q.kind BY <1>1, <1>3, <2>1, <2>2, AnsweredFacts, ACoreFacts
  <2>4. /\ row' = Serve(q).row /\ av' = Serve(q).av
        /\ orphans' = (orphans \ {q}) \cup {z \in {p} : Pending(z)}
        /\ UNCHANGED <<cookie, tab, chan, lock, left, lost, runs, ops, faults>>
    BY <1>5, <2>2 DEF ServeOrphan
  <2>5. /\ av <= av'
        /\ \A s \in Sids : /\ Moves(row[s], row'[s]) /\ row'[s].gen = row[s].gen
                           /\ row'[s].st = "reused" => row[s].st = "reused"
    BY <1>1, <1>5, <2>1, <2>4, ServeRows
  <2>6. \A z \in orphans' : z \in orphans \/ z.kind # "refresh" BY <1>5, <2>3, <2>4
  <2> QED BY <1>3, <2>4, <2>5, <2>6, ServerCalm
<1> QED BY <1>4, <1>5

\* Rows that change outside of any request.
LEMMA RowCalm ==
    ASSUME CalmInv, ACore', NEW s \in Sids, GraceEnds(s) \/ RevokeElsewhere(s)
    PROVE  CalmInv'
<1>1. ACore /\ TypeOK BY DEF CalmInv, CookieInv, ACore
<1>2. /\ UNCHANGED <<av, cookie, tab, chan, lock, orphans, left, lost, runs, faults>>
      /\ \/ row' = [row EXCEPT ![s].grace = FALSE]
         \/ row' = [row EXCEPT ![s].st = "revoked"] /\ row[s].st = "active"
  BY <1>1 DEF GraceEnds, RevokeElsewhere, TypeOK, Active
<1>3. \A x \in Sids : /\ row'[x].gen = row[x].gen /\ row'[x].av = row[x].av
                      /\ row'[x].st = row[x].st \/ (row[x].st = "active" /\ row'[x].st = "revoked")
  <2>1. row \in [Sids -> Rows] BY <1>1 DEF TypeOK
  <2>2. CASE row' = [row EXCEPT ![s].grace = FALSE] BY <2>1, <2>2 DEF Rows
  <2>3. CASE row' = [row EXCEPT ![s].st = "revoked"] /\ row[s].st = "active" BY <2>1, <2>3 DEF Rows
  <2> QED BY <1>2, <2>2, <2>3
<1>4. \A x \in Sids : /\ Moves(row[x], row'[x]) /\ row'[x].gen = row[x].gen
                      /\ row'[x].st = "reused" => row[x].st = "reused"
  BY <1>1, <1>3 DEF Moves, TypeOK, Rows
<1> QED BY <1>1, <1>2, <1>4, ServerCalm DEF TypeOK

\* A tab that starts a refresh, or joins one, only waits for the lock.
LEMMA RefreshCalm ==
    ASSUME HasLocks, NEW r \in TabStates, cookie \in Tokens, NEW failed
    PROVE  /\ CalmRun(r.run, Refresh(r).run, failed) /\ Refresh(r).op = r.op
           /\ r.run.at # "none" => Refresh(r).run = r.run
<1> DEFINE x == Refresh(r)
<1>1. /\ x.op = r.op
      /\ \/ r.run.at # "none" /\ x.run = r.run
         \/ r.run.at = "none" /\ x.run.at = "lock"
  BY RefreshFacts
<1> HIDE DEF x
<1>2. CalmRun(r.run, x.run, failed) BY <1>1 DEF CalmRun
<1> QED BY <1>1, <1>2 DEF x

\* resolveAuthentication.
LEMMA NavigateCalm ==
    ASSUME CalmInv, ACore', NEW t \in Tabs, Navigate(t)
    PROVE  CalmInv'
<1> DEFINE r == [tab[t] EXCEPT !.boot = "checking"]
           x == Refresh(r)
<1>1. TypeOK /\ tab[t] \in TabStates BY DEF CalmInv, CookieInv, ACore, TypeOK
<1>2. r \in TabStates /\ r.run = tab[t].run /\ r.op = tab[t].op BY <1>1 DEF TabStates
<1>3. /\ tab' = [tab EXCEPT ![t] = x]
      /\ UNCHANGED <<row, av, cookie, lock, orphans, lost, faults>>
  BY DEF Navigate, Set
<1> HIDE DEF r
<1>4. /\ HasLocks => CalmRun(r.run, x.run, faults' # 0)
      /\ x.op = r.op /\ (r.run.at # "none" => x.run = r.run)
  <2>1. x.op = r.op /\ (r.run.at # "none" => x.run = r.run) BY <1>1, <1>2, RefreshFacts DEF TypeOK
  <2>2. HasLocks => CalmRun(r.run, x.run, faults' # 0) BY <1>1, <1>2, RefreshCalm DEF TypeOK
  <2> QED BY <2>1, <2>2
<1> HIDE DEF x
<1>5. HasLocks => CalmRun(tab[t].run, x.run, faults' # 0) BY <1>2, <1>4
<1>6. CalmOp(tab[t].op, x.op) BY <1>2, <1>4, SameCalm
<1>7. RefreshedTo(t) => x.run.at = "rsp" /\ x.run.ans = tab[t].run.ans BY <1>2, <1>4 DEF RefreshedTo
<1> QED BY <1>3, <1>5, <1>6, <1>7, TabCalm

\* A user operation is sent.
LEMMA SubmitCalm ==
    ASSUME CalmInv, ACore', NEW t \in Tabs, NEW k, Submit(t, k)
    PROVE  CalmInv'
<1> DEFINE q == Sending(tab[t], cookie, k, FALSE)
           x == [tab[t] EXCEPT !.op = q]
<1>1. TypeOK /\ tab[t] \in TabStates BY DEF CalmInv, CookieInv, ACore, TypeOK
<1>2. q.at = "req" BY NoReqFacts DEF Sending, Requests
<1>3. tab' = [tab EXCEPT ![t] = x] /\ UNCHANGED <<row, av, cookie, lock, orphans, lost, faults>>
  BY DEF Submit, Set
<1> HIDE DEF q
<1>4. x.run = tab[t].run /\ x.op = q BY <1>1 DEF TabStates
<1> HIDE DEF x
<1>5. CalmOp(tab[t].op, x.op) BY <1>2, <1>4 DEF CalmOp
<1>6. CalmRun(tab[t].run, x.run, faults' # 0) BY <1>4, SameCalm
<1> QED BY <1>3, <1>4, <1>5, <1>6, TabCalm DEF RefreshedTo

\* A tab waits for a refresh with an operation that awaits it.
LEMMA JoinedCalm ==
    ASSUME CalmInv, ACore', NEW t \in Tabs, NEW q \in Requests, q.at = "joined",
           tab' = [tab EXCEPT ![t] = Refresh([tab[t] EXCEPT !.op = q])],
           cookie' = cookie \/ cookie' = NoCookie,
           UNCHANGED <<row, av, lock, orphans, lost, faults>>
    PROVE  CalmInv'
<1> DEFINE r == [tab[t] EXCEPT !.op = q]
           x == Refresh(r)
<1>1. TypeOK /\ tab[t] \in TabStates BY DEF CalmInv, CookieInv, ACore, TypeOK
<1>2. r \in TabStates /\ r.run = tab[t].run /\ r.op = q BY <1>1 DEF TabStates
<1> HIDE DEF r
<1>3. x.op = r.op /\ (r.run.at # "none" => x.run = r.run) BY <1>1, <1>2, RefreshFacts DEF TypeOK
<1>4. HasLocks => CalmRun(r.run, x.run, faults' # 0) BY <1>1, <1>2, RefreshCalm DEF TypeOK
<1>5. tab' = [tab EXCEPT ![t] = x] BY DEF r
<1> HIDE DEF x
<1>6. HasLocks => CalmRun(tab[t].run, x.run, faults' # 0) BY <1>2, <1>4
<1>7. CalmOp(tab[t].op, x.op) BY <1>2, <1>3 DEF CalmOp
<1>8. RefreshedTo(t) => x.run.at = "rsp" /\ x.run.ans = tab[t].run.ans BY <1>2, <1>3 DEF RefreshedTo
<1> QED BY <1>5, <1>6, <1>7, <1>8, TabCalm

\* A security change waits for a refresh.
LEMMA SubmitSecureExpiredCalm ==
    ASSUME CalmInv, ACore', NEW t \in Tabs, SubmitSecureExpired(t)
    PROVE  CalmInv'
<1> DEFINE q == [NoReq EXCEPT !.kind = "secure", !.at = "joined"]
<1>1. q \in Requests /\ q.at = "joined" BY NoReqFacts DEF Requests
<1>2. /\ tab' = [tab EXCEPT ![t] = Refresh([tab[t] EXCEPT !.op = q])]
      /\ UNCHANGED <<row, av, cookie, lock, orphans, lost, faults>>
  BY DEF SubmitSecureExpired, Set
<1> HIDE DEF q
<1> QED BY <1>1, <1>2, JoinedCalm

\* A refused operation awaits a refresh.
LEMMA JoinCalm ==
    ASSUME CalmInv, ACore', NEW t \in Tabs, Join(t), cookie' = cookie \/ cookie' = NoCookie,
           UNCHANGED <<row, av, lock, orphans, lost, faults>>
    PROVE  CalmInv'
<1> DEFINE q == [tab[t].op EXCEPT !.at = "joined"]
<1>1. tab[t] \in TabStates /\ tab[t].op \in Requests BY TabTypes DEF CalmInv, CookieInv, ACore, TypeOK
<1>2. q \in Requests /\ q.at = "joined" BY <1>1, MovedFacts
<1>3. [tab[t] EXCEPT !.op.at = "joined"] = [tab[t] EXCEPT !.op = q] BY <1>1 DEF TabStates
<1>4. tab' = [tab EXCEPT ![t] = Refresh([tab[t] EXCEPT !.op = q])] BY <1>3 DEF Join, Set
<1> HIDE DEF q
<1> QED BY <1>2, <1>4, JoinedCalm

\* The refresh of a tab is at most superseded, and its operation moves on.
LEMMA MovedCalm ==
    ASSUME CalmInv, ACore', NEW t \in Tabs, NEW x, tab' = [tab EXCEPT ![t] = x],
           x.run = tab[t].run \/ x.run = [tab[t].run EXCEPT !.current = FALSE],
           x.op = tab[t].op \/ x.op.at # "rsp",
           cookie' = cookie \/ cookie' = NoCookie,
           UNCHANGED <<row, av, lock, orphans, lost, faults>>
    PROVE  CalmInv'
<1>1. tab[t] \in TabStates /\ tab[t].run \in Requests BY TabTypes DEF CalmInv, CookieInv, ACore, TypeOK
<1> DEFINE p == [tab[t].run EXCEPT !.current = FALSE]
<1>2. p.at = tab[t].run.at /\ p.kind = tab[t].run.kind /\ p.ck = tab[t].run.ck /\ p.ans = tab[t].run.ans
  BY <1>1, SupersededFacts
<1> HIDE DEF p
<1>3. /\ x.run.at = tab[t].run.at /\ x.run.kind = tab[t].run.kind /\ x.run.ck = tab[t].run.ck
      /\ x.run.ans = tab[t].run.ans
  BY <1>2 DEF p
<1>4. CalmRun(tab[t].run, x.run, faults' # 0) BY <1>3 DEF CalmRun
<1>5. CalmOp(tab[t].op, x.op) BY SameCalm DEF CalmOp
<1> QED BY <1>3, <1>4, <1>5, TabCalm DEF RefreshedTo

\* A user operation ends, with or without a new token for the tab.
LEMMA EndedMoves ==
    ASSUME NEW r \in TabStates, NEW a \in Answers, NEW w \in BOOLEAN
    PROVE  LET x == Ended(IF w THEN Bundle(r, a) ELSE r)
           IN  /\ x.run = r.run \/ x.run = [r.run EXCEPT !.current = FALSE]
               /\ x.op.at = "none"
<1> DEFINE b == Bundle(r, a)
<1>1. b \in TabStates /\ b.run = [r.run EXCEPT !.current = FALSE] BY BundleFacts
<1> HIDE DEF b
<1>2. \A z \in TabStates : Ended(z).run = z.run /\ Ended(z).op.at = "none" BY NoReqFacts DEF Ended, TabStates
<1> QED BY <1>1, <1>2 DEF b

\* applyAuthRotation.
LEMMA SecureReturnsCalm ==
    ASSUME CalmInv, ACore', NEW t \in Tabs, SecureReturns(t)
    PROVE  CalmInv'
<1> DEFINE r == tab[t]
           a == r.op.ans
           w == a.kind = "ok" /\ r.mem = a.tok.sid
           x == Ended(IF w THEN Bundle(r, a) ELSE r)
<1>1. r \in TabStates /\ a \in Answers BY TabTypes, RequestTypes DEF CalmInv, CookieInv, ACore, TypeOK
<1>2. tab' = [tab EXCEPT ![t] = x] /\ UNCHANGED <<row, av, cookie, lock, orphans, lost, faults>>
  BY DEF SecureReturns, Set
<1>3. (x.run = r.run \/ x.run = [r.run EXCEPT !.current = FALSE]) /\ x.op.at = "none"
  BY <1>1, EndedMoves
<1> HIDE DEF x
<1> QED BY <1>2, <1>3, MovedCalm

\* The response interceptor of http-client.ts.
LEMMA ApiReturnsCalm ==
    ASSUME CalmInv, ACore', NEW t \in Tabs, ApiReturns(t)
    PROVE  CalmInv'
<1>1. tab[t] \in TabStates /\ tab[t].op \in Requests BY TabTypes DEF CalmInv, CookieInv, ACore, TypeOK
<1>2. UNCHANGED <<row, av, cookie, lock, orphans, lost, faults>> BY DEF ApiReturns
<1>3. CASE Join(t) BY <1>2, <1>3, JoinCalm
<1>4. CASE Set(t, Ended(tab[t]))
  <2> DEFINE x == Ended(tab[t])
  <2>1. x.run = tab[t].run /\ x.op.at = "none" BY <1>1, NoReqFacts DEF Ended, TabStates
  <2>2. tab' = [tab EXCEPT ![t] = x] BY <1>4 DEF Set
  <2> HIDE DEF x
  <2> QED BY <1>2, <2>1, <2>2, MovedCalm
<1>5. CASE Set(t, [Cleared(tab[t]) EXCEPT !.op.at = "leave"])
  <2> DEFINE c == Cleared(tab[t])
             x == [c EXCEPT !.op.at = "leave"]
  <2>1. c \in TabStates /\ c.op = tab[t].op /\ c.run = [tab[t].run EXCEPT !.current = FALSE] BY <1>1, ClearedFacts
  <2>2. tab' = [tab EXCEPT ![t] = x] BY <1>5 DEF Set
  <2> HIDE DEF c
  <2>3. x.run = c.run /\ x.op.at = "leave" BY <1>1, <2>1 DEF TabStates, Requests
  <2> HIDE DEF x
  <2> QED BY <1>2, <2>1, <2>2, <2>3, MovedCalm
<1> QED BY <1>3, <1>4, <1>5 DEF ApiReturns

\* executeLogout.
LEMMA LogoutReturnsCalm ==
    ASSUME CalmInv, ACore', NEW t \in Tabs, LogoutReturns(t)
    PROVE  CalmInv'
<1>0. ACore BY DEF CalmInv, CookieInv
<1>1. tab[t] \in TabStates /\ TabGood(tab[t], left[t]) /\ TypeOK BY <1>0, ACoreFacts
<1>2. UNCHANGED <<row, av, lock, orphans, lost, faults>> /\ cookie' = Jar(tab[t].op.ans)
  BY DEF LogoutReturns, SetCookie
<1>3. cookie' = cookie \/ cookie' = NoCookie
  <2>1. tab[t].op.ans.jar # "set" BY <1>1 DEF LogoutReturns, TabGood, OpShape
  <2> QED BY <1>2, <2>1 DEF Jar
<1>4. CASE Join(t) BY <1>2, <1>3, <1>4, JoinCalm
<1>5. CASE Set(t, Ended(tab[t]))
  <2> DEFINE x == Ended(tab[t])
  <2>1. x.run = tab[t].run /\ x.op.at = "none" BY <1>1, NoReqFacts DEF Ended, TabStates
  <2>2. tab' = [tab EXCEPT ![t] = x] BY <1>5 DEF Set
  <2> HIDE DEF x
  <2> QED BY <1>2, <1>3, <2>1, <2>2, MovedCalm
<1>6. CASE Set(t, Ended(Cleared(tab[t])))
  <2> DEFINE c == Cleared(tab[t])
             x == Ended(c)
  <2>1. c \in TabStates /\ c.op = tab[t].op /\ c.run = [tab[t].run EXCEPT !.current = FALSE] BY <1>1, ClearedFacts
  <2>2. tab' = [tab EXCEPT ![t] = x] BY <1>6 DEF Set
  <2> HIDE DEF c
  <2>3. x.run = c.run /\ x.op.at = "none" BY <2>1, NoReqFacts DEF Ended, TabStates
  <2> HIDE DEF x
  <2> QED BY <1>2, <1>3, <2>1, <2>2, <2>3, MovedCalm
<1> QED BY <1>4, <1>5, <1>6 DEF LogoutReturns

\* The access token expires.
LEMMA ExpireTokenCalm ==
    ASSUME CalmInv, ACore', NEW t \in Tabs, ExpireToken(t)
    PROVE  CalmInv'
<1> DEFINE x == [tab[t] EXCEPT !.live = FALSE]
<1>1. tab[t] \in TabStates BY DEF CalmInv, CookieInv, ACore, TypeOK
<1>2. x.run = tab[t].run /\ x.op = tab[t].op BY <1>1 DEF TabStates
<1>3. tab' = [tab EXCEPT ![t] = x] /\ UNCHANGED <<row, av, cookie, lock, orphans, lost, faults>>
  BY DEF ExpireToken, Set
<1> HIDE DEF x
<1> QED BY <1>2, <1>3, MovedCalm

\* Another tab signed out.
LEMMA OnSignedOutCalm ==
    ASSUME CalmInv, ACore', NEW t \in Tabs, OnSignedOut(t)
    PROVE  CalmInv'
<1> DEFINE c == Cleared(tab[t])
           x == IF Head(chan[t]).sid = tab[t].mem THEN c ELSE tab[t]
<1>1. tab[t] \in TabStates BY DEF CalmInv, CookieInv, ACore, TypeOK
<1>2. c.op = tab[t].op /\ c.run = [tab[t].run EXCEPT !.current = FALSE] BY <1>1, ClearedFacts
<1>3. tab' = [tab EXCEPT ![t] = x] /\ UNCHANGED <<row, av, cookie, lock, orphans, lost, faults>>
  BY DEF OnSignedOut, Set
<1> HIDE DEF c
<1>4. x.op = tab[t].op /\ (x.run = tab[t].run \/ x.run = [tab[t].run EXCEPT !.current = FALSE]) BY <1>2
<1> HIDE DEF x
<1> QED BY <1>3, <1>4, MovedCalm

\* A page is replaced.
LEMMA UnloadCalm ==
    ASSUME CalmInv, ACore', NEW t \in Tabs, Unload(t), UNCHANGED <<row, av, cookie>>, faults' \in {faults, faults + 1}
    PROVE  CalmInv'
<1>0. ACore BY DEF CalmInv, CookieInv
<1>1. tab[t] \in TabStates /\ TabGood(tab[t], left[t]) /\ TypeOK BY <1>0, ACoreFacts
<1>2. /\ tab' = [tab EXCEPT ![t] = FreshTab] /\ lock' = lock \ {t}
      /\ orphans' = orphans \cup {q \in {tab[t].run, tab[t].op} : Pending(q)}
      /\ lost' = (lost \/ tab[t].run.at \in {"req", "rsp"})
  BY DEF Unload, Set
<1>3. FreshTab.run.at = "none" /\ FreshTab.op.at = "none" BY FreshFacts, NoReqFacts
<1>4. CalmRun(tab[t].run, FreshTab.run, faults' # 0) /\ CalmOp(tab[t].op, FreshTab.op)
  BY <1>3 DEF CalmRun, CalmOp
<1>5. ASSUME NEW q \in orphans' PROVE q \in orphans \/ q.kind # "refresh" \/ (lost' /\ q = tab[t].run)
  <2>1. CASE q = tab[t].run /\ Pending(q)
    <3>1. q.at \in {"req", "rsp"} BY <1>1, <2>1 DEF Pending, TabGood, RunShape
    <3> QED BY <1>2, <2>1, <3>1
  <2>2. CASE q = tab[t].op /\ Pending(q) BY <1>1, <2>2 DEF Pending, TabGood, OpShape
  <2> QED BY <1>2, <1>5, <2>1, <2>2
<1>6. ~lost' /\ RefreshedTo(t) => FreshTab.run.at = "rsp" /\ FreshTab.run.ans = tab[t].run.ans
  BY <1>2 DEF RefreshedTo
<1>7. lost => lost' BY <1>2
<1>8. PICK x : x = FreshTab OBVIOUS
<1> QED BY <1>2, <1>3, <1>4, <1>5, <1>6, <1>7, <1>8, TabCalm

\* Events are delivered, discarded or lost, and pages are replaced.
LEMMA EventCalm ==
    ASSUME CalmInv, ACore', NEW t \in Tabs, OnAuthenticated(t) \/ Leave(t) \/ Reload(t) \/ StaleEvent(t)
    PROVE  CalmInv'
<1>1. TypeOK BY DEF CalmInv, CookieInv, ACore
<1>2. /\ UNCHANGED <<row, av, cookie>> /\ faults' \in {faults, faults + 1}
      /\ Unload(t) \/ UNCHANGED <<tab, lock, orphans, lost>>
  BY <1>1 DEF OnAuthenticated, Leave, Reload, StaleEvent, Fault, TypeOK
<1>3. CASE Unload(t) BY <1>2, <1>3, UnloadCalm
<1>4. CASE UNCHANGED <<tab, lock, orphans, lost>>
  <2>1. \A s \in Sids : Moves(row[s], row'[s]) BY <1>1, <1>2 DEF Moves, TypeOK, Rows
  <2>2. av <= av' /\ faults <= faults' BY <1>1, <1>2 DEF TypeOK
  <2> QED BY <1>2, <1>4, <2>1, <2>2, ServerCalm
<1> QED BY <1>2, <1>3, <1>4

\* A refresh is lost or refused.
LEMMA FailRunCalm ==
    ASSUME CalmInv, ACore', NEW t \in Tabs, NEW k \in {"down", "refused"}, FailRun(t, k)
    PROVE  CalmInv'
<1> DEFINE a == Failure(k)
           q == [tab[t].run EXCEPT !.at = "rsp", !.ans = a]
           x == [tab[t] EXCEPT !.run.at = "rsp", !.run.ans = a]
<1>1. tab[t] \in TabStates /\ tab[t].run \in Requests /\ TypeOK BY TabTypes DEF CalmInv, CookieInv, ACore, TypeOK
<1>2. a \in Answers /\ a.kind = k /\ a.jar = "keep" BY AnswerFacts
<1>3. /\ tab' = [tab EXCEPT ![t] = x] /\ lost' = (lost \/ tab[t].run.at = "rsp") /\ faults' = faults + 1
      /\ tab[t].run.at \in {"req", "rsp"}
      /\ UNCHANGED <<row, av, cookie, lock, orphans>>
  BY DEF FailRun, Set, Fault
<1> HIDE DEF a
<1>4. x.op = tab[t].op /\ x.run = q BY <1>1 DEF TabStates, Requests
<1>5. q.at = "rsp" /\ q.ans = a BY <1>1 DEF Requests
<1> HIDE DEF x, q
<1>6. CalmRun(tab[t].run, x.run, faults' # 0)
  <2>1. faults' # 0 BY <1>1, <1>3 DEF TypeOK
  <2> QED BY <1>2, <1>3, <1>4, <1>5, <2>1 DEF CalmRun
<1>7. ~lost' => ~RefreshedTo(t) BY <1>3 DEF RefreshedTo
<1>8. CalmOp(tab[t].op, x.op) BY <1>4, SameCalm
<1> QED BY <1>3, <1>6, <1>7, <1>8, TabCalm

\* An operation is lost.
LEMMA FailOpCalm ==
    ASSUME CalmInv, ACore', NEW t \in Tabs, FailOp(t)
    PROVE  CalmInv'
<1> DEFINE a == Failure("down")
           q == [tab[t].op EXCEPT !.at = "rsp", !.ans = a]
           x == [tab[t] EXCEPT !.op.at = "rsp", !.op.ans = a]
<1>1. tab[t] \in TabStates /\ tab[t].op \in Requests /\ TypeOK BY TabTypes DEF CalmInv, CookieInv, ACore, TypeOK
<1>2. a \in Answers /\ a.kind = "down" /\ a.jar = "keep" BY AnswerFacts
<1>3. /\ tab' = [tab EXCEPT ![t] = x] /\ faults' = faults + 1
      /\ UNCHANGED <<row, av, cookie, lock, orphans, lost>>
  BY DEF FailOp, Set, Fault
<1> HIDE DEF a
<1>4. x.run = tab[t].run /\ x.op = q BY <1>1 DEF TabStates, Requests
<1>5. q.at = "rsp" /\ q.ans = a BY <1>1 DEF Requests
<1> HIDE DEF x, q
<1>6. CalmOp(tab[t].op, x.op) BY <1>2, <1>4, <1>5 DEF CalmOp
<1>7. CalmRun(tab[t].run, x.run, faults' # 0) BY <1>4, SameCalm
<1> QED BY <1>3, <1>4, <1>6, <1>7, TabCalm DEF RefreshedTo

\* Whoever awaited the refresh goes on.
LEMMA SettledOp ==
    ASSUME NEW r \in TabStates, NEW ck \in Tokens, OpShape(r), NEW outcome
    PROVE  LET x == Continue([r EXCEPT !.run = NoReq], ck, outcome)
           IN  x.run.at = "none" /\ (x.op = r.op \/ x.op.at # "rsp")
<1> DEFINE z == [r EXCEPT !.run = NoReq]
           x == Continue(z, ck, outcome)
           q == Sending(z, ck, z.op.kind, TRUE)
           p == [z.op EXCEPT !.at = "leave"]
<1>1. z \in TabStates /\ z.run = NoReq /\ z.op = r.op /\ z.mem = r.mem /\ z.live = r.live /\ z.boot = r.boot
  BY NoReqFacts DEF TabStates
<1> HIDE DEF z
<1>2. OpShape(z) BY <1>1, NoReqFacts DEF OpShape
<1>a. /\ x \in TabStates /\ x.mem = z.mem /\ x.av = z.av /\ x.live = z.live /\ x.boot = z.boot
      /\ x.run = z.run
      /\ \/ z.op.at # "joined" /\ x.op = z.op
         \/ /\ z.op.at = "joined" /\ x.op = Sending(z, ck, z.op.kind, TRUE)
            /\ outcome = "authenticated" \/ z.op.kind = "secure"
         \/ /\ z.op.at = "joined" /\ x.op = [z.op EXCEPT !.at = "leave"]
            /\ outcome \in {"anonymous", "outOfSync"}
         \/ z.op.at = "joined" /\ x.op = NoReq
  BY <1>1, <1>2, ContinueFacts
<1>3. /\ x.run = z.run
      /\ \/ z.op.at # "joined" /\ x.op = z.op
         \/ z.op.at = "joined" /\ x.op = q
         \/ z.op.at = "joined" /\ x.op = p
         \/ z.op.at = "joined" /\ x.op = NoReq
  BY <1>a
<1>4. z.op.at = "joined" => q.at = "req" BY NoReqFacts DEF Sending, Requests
<1>5. p.at = "leave" BY <1>1, TabTypes, MovedFacts
<1> HIDE DEF x, p, q
<1> QED BY <1>1, <1>3, <1>4, <1>5, NoReqFacts DEF x, z

\* A refresh settles and its answer brings no new token.
LEMMA SettledCalm ==
    ASSUME CalmInv, ACore', NEW t \in Tabs, NEW r \in TabStates, NEW ck \in Tokens, OpShape(r), NEW outcome,
           r.op = tab[t].op, ~RefreshedTo(t),
           tab' = [tab EXCEPT ![t] = Continue([r EXCEPT !.run = NoReq], ck, outcome)], lock' = lock \ {t},
           cookie' = cookie \/ cookie' = NoCookie,
           UNCHANGED <<row, av, orphans, lost, faults>>
    PROVE  CalmInv'
<1> DEFINE x == Continue([r EXCEPT !.run = NoReq], ck, outcome)
<1>1. x.run.at = "none" /\ (x.op = r.op \/ x.op.at # "rsp") BY SettledOp
<1>2. tab' = [tab EXCEPT ![t] = x] OBVIOUS
<1> HIDE DEF x
<1>3. CalmRun(tab[t].run, x.run, faults' # 0) BY <1>1 DEF CalmRun
<1>4. CalmOp(tab[t].op, x.op) BY <1>1, SameCalm DEF CalmOp
<1> QED BY <1>1, <1>2, <1>3, <1>4, TabCalm

--------------------------------------------------------------------------------
(* The steps that the lock serializes *)

\* Whoever holds the lock refreshes alone.
LEMMA Alone ==
    ASSUME TypeOK, Serialized, NEW t \in Tabs, t \in lock \/ lock = {}
    PROVE  \A u \in Tabs \ {t} : tab[u].run.at \notin {"req", "rsp"} /\ ~RefreshedTo(u)
BY DEF TypeOK, Serialized, RefreshedTo

\* A refresh is sent, with the cookie of the moment.
LEMMA SentCalm ==
    ASSUME CalmInv, ACore', HasLocks, NEW t \in Tabs, t \in lock \/ lock = {}, ~RefreshedTo(t),
           NEW x, tab' = [tab EXCEPT ![t] = x], t \in lock',
           x.run.at = "req", x.run.kind = "refresh", x.run.ck = cookie, x.op = tab[t].op,
           UNCHANGED <<row, av, orphans, lost, faults>>, cookie' = cookie \/ cookie' = NoCookie
    PROVE  CalmInv'
<1>1. ACore /\ Serialized /\ TypeOK BY DEF CalmInv, CookieInv, ACore
<1>2. \A u \in Tabs \ {t} : tab[u].run.at \notin {"req", "rsp"} /\ ~RefreshedTo(u) BY <1>1, Alone
<1>3. tab'[t] = x /\ \A u \in Tabs \ {t} : tab'[u] = tab[u] BY <1>1 DEF TypeOK
<1>4. \A u \in Tabs : ~RefreshedTo(u) /\ ~RefreshedTo(u)' BY <1>2, <1>3 DEF RefreshedTo
<1>5. \A u \in Tabs : tab'[u].op = tab[u].op BY <1>3
<1>6. \A u \in Tabs : SignedInTo(u)' <=> SignedInTo(u) BY <1>5 DEF SignedInTo
<1>7. Serialized'
  <2>1. \A u \in Tabs : tab'[u].run.at \in {"req", "rsp"} => u \in lock' BY <1>2, <1>3
  <2>2. NearHead(cookie)' BY <1>1 DEF Serialized, NearHead, NoCookie, Token
  <2>3. BehindCookie(tab[t].run)'
    <3>1. cookie \in Tokens BY <1>1 DEF TypeOK
    <3>2. cookie.sid # NoSid => cookie.gen <= row[cookie.sid].gen BY <1>1 DEF Serialized, NearHead
    <3>3. \A u \in Tabs : SignedInTo(u)' => tab'[u].op.ans.tok.sid # cookie.sid
      BY <1>1, <1>5, <1>6 DEF Serialized
    <3> QED BY <1>3, <1>4, <3>1, <3>2, <3>3 DEF BehindCookie, Tokens, NoCookie, Token
  <2>4. \A u \in Tabs : BehindCookie(tab[u].run)'
    <3>1. \A u \in Tabs \ {t} : BehindCookie(tab[u].run)' BY <1>2, <1>3 DEF BehindCookie
    <3> QED BY <2>3, <3>1
  <2>5. ASSUME NEW q \in orphans' PROVE BehindCookie(q)'
    BY <1>1, <1>4, <1>5, <1>6, <2>5 DEF Serialized, BehindCookie, NoCookie, Token
  <2>6. ASSUME NEW u \in Tabs, SignedInTo(u)'
        PROVE  LET s == tab'[u].op.ans.tok.sid
               IN  /\ row'[s].gen = 0 /\ cookie'.sid # s
                   /\ \A w \in Tabs : RefreshedTo(w)' => tab'[w].run.ans.tok.sid # s
                   /\ \A w \in Tabs \ {u} : SignedInTo(w)' => tab'[w].op.ans.tok.sid # s
    <3>1. tab[u].op.ans.tok.sid # NoSid BY <1>1, <1>6, <2>6, AnswerKnown, SidFacts
    <3> QED BY <1>1, <1>4, <1>5, <1>6, <2>6, <3>1 DEF Serialized, NoCookie, Token
  <2> QED BY <1>4, <2>1, <2>2, <2>4, <2>5, <2>6 DEF Serialized
<1>8. ASSUME ~lost PROVE AtHead' /\ Verdicts'
  <2>1. AtHead /\ Verdicts BY <1>8 DEF CalmInv
  <2>2. cookie.sid # NoSid => row[cookie.sid].gen = cookie.gen BY <1>4, <2>1 DEF AtHead
  <2>3. AtHead' BY <1>2, <1>3, <1>4, <2>1, <2>2 DEF AtHead, NoCookie, Token
  <2>4. \A u \in Tabs : tab'[u].run.at # "rsp" BY <1>2, <1>3
  <2>5. Verdicts' BY <1>5, <2>1, <2>4 DEF Verdicts, Active
  <2> QED BY <2>3, <2>5
<1> QED BY <1>7, <1>8 DEF CalmInv, CookieInv

\* The lock callback.
LEMMA GrantLockCalm ==
    ASSUME CalmInv, ACore', NEW t \in Tabs, GrantLock(t)
    PROVE  CalmInv'
<1>0. ACore BY DEF CalmInv, CookieInv
<1>1. tab[t] \in TabStates /\ TabGood(tab[t], left[t]) /\ TypeOK /\ cookie \in Tokens
  BY <1>0, ACoreFacts DEF TypeOK
<1>2. UNCHANGED <<row, av, cookie, orphans, lost, faults>> /\ tab[t].run.at = "lock" /\ lock = {} BY DEF GrantLock
<1>3. ~RefreshedTo(t) BY <1>2 DEF RefreshedTo
<1>4. CASE ~tab[t].run.current
  <2>1. /\ tab' = [tab EXCEPT ![t] = Continue([tab[t] EXCEPT !.run = NoReq], cookie, "transient")]
        /\ lock' = lock \ {t}
    BY <1>4 DEF GrantLock, Settle, Set
  <2>2. PICK r \in TabStates : r = tab[t] BY <1>1
  <2>3. OpShape(r) BY <1>1, <2>2 DEF TabGood
  <2> QED BY <1>1, <1>2, <1>3, <2>1, <2>2, <2>3, SettledCalm
<1>5. CASE tab[t].run.current
  <2> DEFINE q == Sending(tab[t], cookie, "refresh", FALSE)
             x == [tab[t] EXCEPT !.run = q]
  <2>1. q.at = "req" /\ q.kind = "refresh" /\ q.ck = cookie BY NoReqFacts DEF Sending, Requests
  <2>2. tab' = [tab EXCEPT ![t] = x] /\ t \in lock' BY <1>5 DEF GrantLock, Set
  <2> HIDE DEF q
  <2>3. x.run = q /\ x.op = tab[t].op BY <1>1 DEF TabStates
  <2> HIDE DEF x
  <2>4. CASE HasLocks BY <1>2, <1>3, <2>1, <2>2, <2>3, <2>4, SentCalm
  <2>5. CASE ~HasLocks BY <2>5 DEF CalmInv, CookieInv
  <2> QED BY <2>4, <2>5
<1> QED BY <1>4, <1>5

\* The answer of a refresh becomes the cookie.
LEMMA ArrivedCalm ==
    ASSUME CalmInv, ACore', HasLocks, NEW t \in Tabs, RefreshedTo(t), NEW x, tab' = [tab EXCEPT ![t] = x],
           x.run.at = "none", x.op = tab[t].op \/ x.op.at # "rsp",
           cookie' = tab[t].run.ans.tok, UNCHANGED <<row, av, orphans, lost, faults>>
    PROVE  CalmInv'
<1>1. ACore /\ Serialized /\ TypeOK /\ t \in lock BY DEF CalmInv, CookieInv, ACore, Serialized, RefreshedTo
<1>2. \A u \in Tabs \ {t} : tab[u].run.at \notin {"req", "rsp"} /\ ~RefreshedTo(u) BY <1>1, Alone
<1>3. tab'[t] = x /\ \A u \in Tabs \ {t} : tab'[u] = tab[u] BY <1>1 DEF TypeOK
<1>4. \A u \in Tabs : ~RefreshedTo(u)' /\ tab'[u].run.at \notin {"req", "rsp"} BY <1>2, <1>3 DEF RefreshedTo
<1>5. \A u \in Tabs : SignedInTo(u)' => SignedInTo(u) /\ tab'[u].op = tab[u].op BY <1>3 DEF SignedInTo
<1>6. Serialized'
  <2>1. NearHead(cookie)' BY <1>1 DEF Serialized, NearHead
  <2>2. \A u \in Tabs : BehindCookie(tab[u].run)' BY <1>4 DEF BehindCookie
  <2>3. ASSUME NEW q \in orphans' PROVE BehindCookie(q)'
    BY <1>1, <1>4, <1>5, <2>3 DEF Serialized, BehindCookie
  <2>4. ASSUME NEW u \in Tabs, SignedInTo(u)'
        PROVE  LET s == tab'[u].op.ans.tok.sid
               IN  /\ row'[s].gen = 0 /\ cookie'.sid # s
                   /\ \A w \in Tabs : RefreshedTo(w)' => tab'[w].run.ans.tok.sid # s
                   /\ \A w \in Tabs \ {u} : SignedInTo(w)' => tab'[w].op.ans.tok.sid # s
    BY <1>1, <1>4, <1>5, <2>4 DEF Serialized
  <2> QED BY <1>4, <2>1, <2>2, <2>3, <2>4 DEF Serialized
<1>7. ASSUME ~lost PROVE AtHead' /\ Verdicts'
  <2>1. AtHead /\ Verdicts BY <1>7 DEF CalmInv
  <2>2. AtHead' BY <1>4, <2>1 DEF AtHead
  <2>3. \A u \in Tabs : tab'[u].op.at = "rsp" => tab'[u].op = tab[u].op BY <1>3
  <2>4. Verdicts' BY <1>4, <2>1, <2>3 DEF Verdicts, Active
  <2> QED BY <2>2, <2>4
<1> QED BY <1>6, <1>7 DEF CalmInv, CookieInv

\* A refresh settles, whatever its answer.
LEMMA AnyCalm ==
    ASSUME CalmInv, ACore', NEW t \in Tabs, tab[t].run.at = "rsp", NEW r \in TabStates, OpShape(r),
           r.op = tab[t].op, cookie' = Jar(tab[t].run.ans), NEW outcome,
           tab' = [tab EXCEPT ![t] = Continue([r EXCEPT !.run = NoReq], Jar(tab[t].run.ans), outcome)],
           lock' = lock \ {t}, UNCHANGED <<row, av, orphans, lost, faults>>
    PROVE  CalmInv'
<1>0. ACore BY DEF CalmInv, CookieInv
<1>1. TabGood(tab[t], left[t]) /\ tab[t] \in TabStates /\ TypeOK /\ Known(cookie.sid, 0) BY <1>0, ACoreFacts
<1>2. PICK a : a = tab[t].run.ans OBVIOUS
<1>3. a \in Answers /\ Known(a.tok.sid, a.av)
  BY <1>1, <1>2, TabTypes, RequestTypes DEF TabGood, ReqKnown
<1>4. PICK ck : ck = Jar(a) OBVIOUS
<1>5. ck \in Tokens /\ (a.jar = "set" => ck = a.tok) /\ (a.jar # "set" => ck \in {cookie, NoCookie})
  BY <1>1, <1>3, <1>4, JarFacts DEF TypeOK, Answers
<1>6. cookie' = ck /\ tab' = [tab EXCEPT ![t] = Continue([r EXCEPT !.run = NoReq], ck, outcome)] BY <1>2, <1>4
<1>7. CASE a.jar # "set"
  <2>1. ~RefreshedTo(t) BY <1>2, <1>7 DEF RefreshedTo
  <2>2. cookie' = cookie \/ cookie' = NoCookie BY <1>5, <1>6, <1>7
  <2> QED BY <1>5, <1>6, <2>1, <2>2, SettledCalm
<1>8. CASE a.jar = "set" /\ HasLocks
  <2> DEFINE x == Continue([r EXCEPT !.run = NoReq], ck, outcome)
  <2>1. x.run.at = "none" /\ (x.op = r.op \/ x.op.at # "rsp") BY <1>5, SettledOp
  <2>2. tab' = [tab EXCEPT ![t] = x] BY <1>6
  <2> HIDE DEF x
  <2>3. RefreshedTo(t) BY <1>2, <1>8 DEF RefreshedTo
  <2>4. cookie' = tab[t].run.ans.tok BY <1>2, <1>5, <1>6, <1>8
  <2>5. x.op = tab[t].op \/ x.op.at # "rsp" BY <2>1
  <2> QED BY <1>8, <2>1, <2>2, <2>3, <2>4, <2>5, ArrivedCalm
<1>9. CASE ~HasLocks BY <1>9 DEF CalmInv, CookieInv
<1> QED BY <1>7, <1>8, <1>9, AuthConstants

\* createRefreshRunner after the response.
LEMMA RefreshReturnsCalm ==
    ASSUME CalmInv, ACore', NEW t \in Tabs, RefreshReturns(t)
    PROVE  CalmInv'
<1>0. ACore BY DEF CalmInv, CookieInv
<1> DEFINE r == tab[t]
           a == r.run.ans
<1>1. TabGood(r, left[t]) /\ r \in TabStates /\ TypeOK /\ Known(cookie.sid, 0) BY <1>0, ACoreFacts
<1>2. r.run.at = "rsp" /\ cookie' = Jar(a) BY DEF RefreshReturns, SetCookie
<1>3. a \in Answers /\ r.run \in Requests BY <1>1, TabTypes, RequestTypes
<1>4. UNCHANGED <<row, av, orphans, lost, faults>> BY DEF RefreshReturns
<1>5. OpShape(r) /\ ~(r.op.kind = "api" /\ r.op.again) /\ r.op.at # "leave"
  BY <1>1, <1>2 DEF TabGood, OpShape
<1>6. ASSUME NEW z \in TabStates, z.op = r.op, NEW outcome, Settle(t, z, Jar(a), outcome) PROVE CalmInv'
  <2>1. OpShape(z) BY <1>5, <1>6 DEF OpShape
  <2>2. /\ tab' = [tab EXCEPT ![t] = Continue([z EXCEPT !.run = NoReq], Jar(a), outcome)]
        /\ lock' = lock \ {t}
    BY <1>6 DEF Settle, Set
  <2> QED BY <1>2, <1>4, <1>6, <2>1, <2>2, AnyCalm
<1>7. CASE a.kind = "mismatch" /\ Set(t, [Forgotten(r, "idle") EXCEPT
                                           !.run = Sending(Forgotten(r, "idle"), cookie, "refresh", TRUE)])
           /\ UNCHANGED lock
  <2> DEFINE f == Forgotten(r, "idle")
             q == Sending(f, cookie, "refresh", TRUE)
             x == [f EXCEPT !.run = q]
  <2>1. tab' = [tab EXCEPT ![t] = x] /\ lock' = lock BY <1>7 DEF Set
  <2>2. f \in TabStates /\ f.op = r.op BY <1>1, ForgottenFacts
  <2>3. q.kind = "refresh" /\ q.at = "req" /\ q.ck = cookie BY NoReqFacts DEF Sending, Requests
  <2> HIDE DEF f, q
  <2>4. x.run = q /\ x.op = r.op BY <2>2 DEF TabStates
  <2> HIDE DEF x
  <2>5. a.jar # "set" BY <1>1, <1>2, <1>7 DEF TabGood, RunShape
  <2>6. ~RefreshedTo(t) BY <2>5 DEF RefreshedTo
  <2>7. CASE HasLocks
    <3>0. cookie' = cookie \/ cookie' = NoCookie BY <1>2, <2>5 DEF Jar
    <3>1. t \in lock BY <1>2, <2>7 DEF CalmInv, CookieInv, Serialized
    <3> QED BY <1>4, <2>1, <2>3, <2>4, <2>6, <2>7, <3>0, <3>1, SentCalm
  <2>8. CASE ~HasLocks BY <2>8 DEF CalmInv, CookieInv
  <2> QED BY <2>7, <2>8, AuthConstants
<1> DEFINE i == [r EXCEPT !.boot = "idle"]
<1>8. i \in TabStates /\ i.op = r.op BY <1>1 DEF TabStates
<1>9. Bundle(r, a) \in TabStates /\ Bundle(r, a).op = r.op BY <1>1, <1>3, BundleFacts
<1>10. Cleared(r) \in TabStates /\ Cleared(r).op = r.op BY <1>1, ClearedFacts
<1> HIDE DEF i
<1> QED BY <1>1, <1>6, <1>7, <1>8, <1>9, <1>10 DEF RefreshReturns, i

\* The cookie of a new session arrives.
LEMMA SignedInCalm ==
    ASSUME CalmInv, ACore', HasLocks, NEW t \in Tabs, SignedInTo(t), NEW x, tab' = [tab EXCEPT ![t] = x],
           x.run.at = tab[t].run.at, x.run.kind = tab[t].run.kind, x.run.ck = tab[t].run.ck,
           x.run.ans = tab[t].run.ans, x.op.at = "none",
           cookie' = tab[t].op.ans.tok, UNCHANGED <<row, av, lock, orphans, lost, faults>>
    PROVE  CalmInv'
<1>1. ACore /\ Serialized /\ TypeOK BY DEF CalmInv, CookieInv, ACore
<1>2. PICK s : s = tab[t].op.ans.tok.sid OBVIOUS
<1>3. s \in Sids /\ cookie'.sid = s /\ cookie'.gen = 0 BY <1>1, <1>2, AnswerKnown
<1>4. /\ row[s].gen = 0
      /\ \A u \in Tabs : RefreshedTo(u) => tab[u].run.ans.tok.sid # s
      /\ \A u \in Tabs \ {t} : SignedInTo(u) => tab[u].op.ans.tok.sid # s
  BY <1>1, <1>2 DEF Serialized
<1>5. tab'[t] = x /\ \A u \in Tabs \ {t} : tab'[u] = tab[u] BY <1>1 DEF TypeOK
<1>6. \A u \in Tabs : /\ tab'[u].run.at = tab[u].run.at /\ tab'[u].run.kind = tab[u].run.kind
                      /\ tab'[u].run.ck = tab[u].run.ck /\ tab'[u].run.ans = tab[u].run.ans
  BY <1>5
<1>7. \A u \in Tabs : RefreshedTo(u)' <=> RefreshedTo(u) BY <1>6 DEF RefreshedTo
<1>8. \A u \in Tabs : SignedInTo(u)' => u # t /\ SignedInTo(u) /\ tab'[u].op = tab[u].op BY <1>5 DEF SignedInTo
<1>9. Serialized'
  <2>1. NearHead(cookie)' BY <1>3, <1>4 DEF NearHead
  <2>2. ASSUME NEW q, BehindCookie(q) PROVE BehindCookie(q)'
    <3> SUFFICES ASSUME q.kind = "refresh", q.at = "req", q.ck.sid # NoSid
                 PROVE  /\ q.ck.gen <= row[q.ck.sid].gen
                        /\ cookie'.sid # q.ck.sid
                        /\ \A u \in Tabs : RefreshedTo(u)' /\ tab'[u].run.ans.tok.sid = q.ck.sid =>
                                           q.ck.gen <= tab'[u].run.ans.tok.gen
                        /\ \A u \in Tabs : SignedInTo(u)' => tab'[u].op.ans.tok.sid # q.ck.sid
      BY DEF BehindCookie
    <3>1. cookie'.sid # q.ck.sid BY <1>2, <1>3, <2>2 DEF BehindCookie
    <3> QED BY <1>6, <1>7, <1>8, <2>2, <3>1 DEF BehindCookie
  <2>3. ASSUME NEW u \in Tabs PROVE BehindCookie(tab[u].run)'
    <3>1. PICK q : q = tab[u].run OBVIOUS
    <3>2. BehindCookie(q)' BY <1>1, <2>2, <2>3, <3>1 DEF Serialized
    <3> QED BY <1>6, <2>3, <3>1, <3>2 DEF BehindCookie
  <2>4. \A q \in orphans' : BehindCookie(q)' BY <1>1, <2>2 DEF Serialized
  <2>5. ASSUME NEW u \in Tabs, SignedInTo(u)'
        PROVE  LET z == tab'[u].op.ans.tok.sid
               IN  /\ row'[z].gen = 0 /\ cookie'.sid # z
                   /\ \A w \in Tabs : RefreshedTo(w)' => tab'[w].run.ans.tok.sid # z
                   /\ \A w \in Tabs \ {u} : SignedInTo(w)' => tab'[w].op.ans.tok.sid # z
    BY <1>1, <1>3, <1>4, <1>6, <1>7, <1>8, <2>5 DEF Serialized
  <2>6. \A u \in Tabs : RefreshedTo(u)' => NearHead(tab[u].run.ans.tok)'
    BY <1>1, <1>6, <1>7 DEF Serialized, NearHead
  <2>7. \A u \in Tabs : tab'[u].run.at \in {"req", "rsp"} => u \in lock' BY <1>1, <1>6 DEF Serialized
  <2> QED BY <2>1, <2>3, <2>4, <2>5, <2>6, <2>7 DEF Serialized
<1>10. ASSUME ~lost PROVE AtHead' /\ Verdicts'
  <2>1. AtHead /\ Verdicts BY <1>10 DEF CalmInv
  <2>2. AtHead' BY <1>3, <1>4, <1>6, <1>7, <2>1 DEF AtHead
  <2>3. \A u \in Tabs : tab'[u].op.at = "rsp" => tab'[u].op = tab[u].op BY <1>5
  <2>4. Verdicts' BY <1>6, <2>1, <2>3 DEF Verdicts, Active
  <2> QED BY <2>2, <2>4
<1> QED BY <1>9, <1>10 DEF CalmInv, CookieInv

\* handleLoginSuccess.
LEMMA LoginReturnsCalm ==
    ASSUME CalmInv, ACore', NEW t \in Tabs, LoginReturns(t)
    PROVE  CalmInv'
<1>0. ACore BY DEF CalmInv, CookieInv
<1> DEFINE r == tab[t]
           a == r.op.ans
           w == a.kind = "ok" /\ r.mem = r.op.sid
           x == Ended(IF w THEN Bundle(r, a) ELSE r)
<1>1. r \in TabStates /\ a \in Answers /\ r.run \in Requests
  BY <1>0, TabTypes, RequestTypes DEF ACore, TypeOK
<1>2. /\ tab' = [tab EXCEPT ![t] = x] /\ UNCHANGED <<row, av, lock, orphans, lost, faults>>
      /\ cookie' = Jar(a) /\ r.op.at = "rsp"
  BY DEF LoginReturns, Set, SetCookie
<1>3. (x.run = r.run \/ x.run = [r.run EXCEPT !.current = FALSE]) /\ x.op.at = "none"
  BY <1>1, EndedMoves
<1> HIDE DEF x
<1>4. CASE a.jar # "set"
  <2>1. cookie' = cookie \/ cookie' = NoCookie BY <1>2, <1>4 DEF Jar
  <2> QED BY <1>2, <1>3, <2>1, MovedCalm
<1>5. CASE a.jar = "set" /\ HasLocks
  <2>1. SignedInTo(t) /\ cookie' = tab[t].op.ans.tok BY <1>2, <1>5 DEF SignedInTo, Jar
  <2> DEFINE p == [r.run EXCEPT !.current = FALSE]
  <2>2. p.at = r.run.at /\ p.kind = r.run.kind /\ p.ck = r.run.ck /\ p.ans = r.run.ans BY <1>1, SupersededFacts
  <2> HIDE DEF p
  <2>3. x.run.at = r.run.at /\ x.run.kind = r.run.kind /\ x.run.ck = r.run.ck /\ x.run.ans = r.run.ans
    BY <1>3, <2>2 DEF p
  <2> QED BY <1>2, <1>3, <1>5, <2>1, <2>3, SignedInCalm
<1>6. CASE ~HasLocks BY <1>6 DEF CalmInv, CookieInv
<1> QED BY <1>4, <1>5, <1>6, AuthConstants

\* What serving a refresh does to the rows.
Turned(q) ==
    /\ \A s \in Sids \ {q.ck.sid} : row'[s] = row[s]
    /\ q.ck.sid # NoSid =>
          \/ row'[q.ck.sid].gen = row[q.ck.sid].gen
          \/ q.ck.gen = row[q.ck.sid].gen /\ row'[q.ck.sid].gen = row[q.ck.sid].gen + 1

\* The server turns the secret of a session past no token that a tab may still get.
LEMMA TurnedNear ==
    ASSUME row \in [Sids -> Rows], row' \in [Sids -> Rows], NEW q \in Requests, Turned(q),
           NEW k \in Tokens, NearHead(k), q.ck.sid # NoSid /\ k.sid = q.ck.sid => q.ck.gen <= k.gen
    PROVE  NearHead(k)'
<1>1. CASE k.sid = NoSid BY <1>1 DEF NearHead
<1>2. CASE k.sid # NoSid /\ k.sid # q.ck.sid
  <2>1. k.sid \in Sids BY <1>2 DEF Tokens
  <2> QED BY <1>2, <2>1 DEF NearHead, Turned
<1>3. CASE k.sid # NoSid /\ k.sid = q.ck.sid
  <2>1. k.sid \in Sids /\ q.ck.gen \in Nat /\ k.gen \in Nat BY <1>3, RequestTypes DEF Tokens
  <2>2. row[k.sid].gen \in Nat /\ row'[k.sid].gen \in Nat BY <2>1 DEF Rows
  <2> QED BY <1>3, <2>1, <2>2 DEF NearHead, Turned
<1> QED BY <1>1, <1>2, <1>3

\* No secret is turned back.
LEMMA TurnedGrows ==
    ASSUME row \in [Sids -> Rows], row' \in [Sids -> Rows], NEW q \in Requests, Turned(q), NEW s \in Sids
    PROVE  /\ row[s].gen <= row'[s].gen /\ row[s].gen \in Nat /\ row'[s].gen \in Nat
           /\ s # q.ck.sid => row'[s].gen = row[s].gen
<1>1. row[s].gen \in Nat /\ row'[s].gen \in Nat BY DEF Rows
<1>2. CASE s # q.ck.sid BY <1>1, <1>2 DEF Turned
<1>3. CASE s = q.ck.sid BY <1>1, <1>3, SidFacts DEF Turned
<1> QED BY <1>1, <1>2, <1>3

\* The server serves the refresh of a page that is gone.
LEMMA OrphanRefreshCalm ==
    ASSUME CalmInv, ACore', NEW q \in orphans, ServeOrphan(q), q.kind = "refresh"
    PROVE  CalmInv'
<1>0. ACore BY DEF CalmInv, CookieInv
<1>1. CASE ~HasLocks BY <1>1 DEF CalmInv, CookieInv
<1>2. CASE HasLocks
  <2>1. Serialized /\ lost BY <1>2 DEF CalmInv, CookieInv, AtHead
  <2>2. OrphanGood(q) /\ TypeOK /\ q \in Requests BY <1>0, ACoreFacts DEF OrphanGood
  <2>3. q.at = "req" /\ BehindCookie(q) BY <2>1, <2>2 DEF OrphanGood, Serialized
  <2>4. Servable(q) BY <2>2 DEF Servable, OrphanGood, ReqKnown
  <2>5. /\ row \in [Sids -> Rows] /\ row' \in [Sids -> Rows] /\ av \in Nat /\ (\A s \in Sids : row[s].av <= av)
        /\ cookie \in Tokens
    BY <1>0, ACoreFacts DEF TypeOK, ACore
  <2>6. /\ row' = Serve(q).row /\ UNCHANGED <<cookie, tab, lock, lost, faults>>
        /\ orphans' = (orphans \ {q}) \cup {p \in {Answered(q)} : Pending(p)}
    BY DEF ServeOrphan
  <2>7. \A z \in orphans' : z \in orphans
    <3> DEFINE p == Answered(q)
    <3>1. \/ p.at = "bumped" /\ Serve(q).ans = NoAnswer
          \/ p.at = "rsp"
      BY <2>4, <2>5, AnsweredFacts
    <3>2. Serve(q).ans # NoAnswer BY <2>4, <2>5, ServeFacts
    <3> HIDE DEF p
    <3>3. ~Pending(p) BY <3>1, <3>2 DEF Pending
    <3> QED BY <2>6, <3>3 DEF p
  <2>8. Turned(q)
    <3> DEFINE e == ServeRefresh(q)
               s == q.ck.sid
    <3>1. Serve(q) = e BY DEF Serve
    <3>2. /\ \A x \in Sids \ {s} : e.row[x] = row[x]
          /\ s # NoSid => \/ e.row[s].gen = row[s].gen
                          \/ q.ck.gen = row[s].gen /\ e.row[s].gen = row[s].gen + 1
      BY <2>2, <2>5, RefreshServed
    <3> HIDE DEF e
    <3> QED BY <2>6, <3>1, <3>2 DEF Turned
  <2>9. \A u \in Tabs : (RefreshedTo(u)' <=> RefreshedTo(u)) /\ (SignedInTo(u)' <=> SignedInTo(u)) /\ tab'[u] = tab[u]
    BY <2>6 DEF RefreshedTo, SignedInTo
  <2>10. NearHead(cookie)'
    <3>1. PICK k \in Tokens : k = cookie BY <2>5
    <3>2. NearHead(k) /\ (q.ck.sid # NoSid /\ k.sid = q.ck.sid => q.ck.gen <= k.gen)
      BY <2>1, <2>3, <3>1 DEF Serialized, BehindCookie
    <3>3. NearHead(k)' BY <2>2, <2>5, <2>8, <3>2, TurnedNear
    <3> QED BY <2>6, <3>1, <3>3 DEF NearHead
  <2>11. ASSUME NEW u \in Tabs, RefreshedTo(u)' PROVE NearHead(tab[u].run.ans.tok)'
    <3>1. PICK k \in Tokens : k = tab[u].run.ans.tok BY <1>0, AnswerKnown, RequestTypes
    <3>2. NearHead(k) /\ (q.ck.sid # NoSid /\ k.sid = q.ck.sid => q.ck.gen <= k.gen)
      BY <2>1, <2>3, <2>9, <2>11, <3>1 DEF Serialized, BehindCookie
    <3>3. NearHead(k)' BY <2>2, <2>5, <2>8, <3>2, TurnedNear
    <3> QED BY <2>9, <3>1, <3>3 DEF NearHead
  <2>12. ASSUME NEW p \in Requests, BehindCookie(p) PROVE BehindCookie(p)'
    <3>1. p.ck.sid \in Sids \cup {NoSid} /\ p.ck.gen \in Nat BY RequestTypes
    <3>2. p.ck.sid # NoSid => /\ row[p.ck.sid].gen <= row'[p.ck.sid].gen
                              /\ row[p.ck.sid].gen \in Nat /\ row'[p.ck.sid].gen \in Nat
      BY <2>2, <2>5, <2>8, <3>1, TurnedGrows
    <3> QED BY <2>6, <2>9, <2>12, <3>1, <3>2 DEF BehindCookie
  <2>13. ASSUME NEW u \in Tabs PROVE BehindCookie(tab[u].run)'
    <3>1. PICK p \in Requests : p = tab[u].run BY <1>0, AnswerKnown
    <3>2. BehindCookie(p)' BY <2>1, <2>12, <2>13, <3>1 DEF Serialized
    <3> QED BY <2>9, <2>13, <3>1, <3>2 DEF BehindCookie
  <2>14. ASSUME NEW p \in orphans' PROVE BehindCookie(p)'
    BY <2>1, <2>2, <2>7, <2>12, <2>14 DEF Serialized, TypeOK
  <2>15. ASSUME NEW u \in Tabs, SignedInTo(u)'
         PROVE  LET z == tab'[u].op.ans.tok.sid
                IN  /\ row'[z].gen = 0 /\ cookie'.sid # z
                    /\ \A w \in Tabs : RefreshedTo(w)' => tab'[w].run.ans.tok.sid # z
                    /\ \A w \in Tabs \ {u} : SignedInTo(w)' => tab'[w].op.ans.tok.sid # z
    <3>1. PICK z : z = tab[u].op.ans.tok.sid OBVIOUS
    <3>2. z \in Sids BY <1>0, <2>9, <2>15, <3>1, AnswerKnown
    <3>3. z # q.ck.sid BY <2>3, <2>9, <2>15, <3>1, <3>2, SidFacts DEF BehindCookie
    <3>4. row'[z].gen = row[z].gen BY <2>2, <2>5, <2>8, <3>2, <3>3, TurnedGrows
    <3> QED BY <2>1, <2>6, <2>9, <2>15, <3>1, <3>4 DEF Serialized
  <2>16. \A u \in Tabs : tab'[u].run.at \in {"req", "rsp"} => u \in lock' BY <2>1, <2>6 DEF Serialized
  <2>17. Serialized' BY <2>10, <2>11, <2>13, <2>14, <2>15, <2>16 DEF Serialized
  <2> QED BY <2>1, <2>6, <2>17 DEF CalmInv, CookieInv
<1> QED BY <1>1, <1>2, AuthConstants

\* What the server answers to the refresh of a tab.
LEMMA RunServed ==
    ASSUME ACore, NEW t \in Tabs, ServeRun(t)
    PROVE  \E q \in Requests, p \in Requests, x \in TabStates :
              /\ q = tab[t].run /\ q.at = "req" /\ q.kind = "refresh"
              /\ tab' = [tab EXCEPT ![t] = x] /\ x.run = p /\ x.op = tab[t].op
              /\ p.at = "rsp" /\ p.ck = q.ck /\ Turned(q)
              /\ \A s \in Sids : Moves(row[s], row'[s])
              /\ p.ans.kind \in {"ok", "mismatch", "denied"}
              /\ p.ans.jar = "set" =>
                    q.ck.sid # NoSid /\ p.ans.tok.sid = q.ck.sid /\ p.ans.tok.gen = row'[q.ck.sid].gen
              /\ p.ans.kind = "denied" /\ q.ck.sid # NoSid =>
                    row'[q.ck.sid].st # "active" \/ q.ck.gen + 1 < row[q.ck.sid].gen
              /\ q.ck.sid # NoSid =>
                    /\ row'[q.ck.sid].gen # row[q.ck.sid].gen => p.ans.jar = "set"
                    /\ row'[q.ck.sid].st = "reused" =>
                          row[q.ck.sid].st = "reused" \/ q.ck.gen # row[q.ck.sid].gen
              /\ UNCHANGED <<av, cookie, lock, orphans, lost, faults>>
<1>1. PICK r, q : r = tab[t] /\ q = tab[t].run OBVIOUS
<1>2. TabGood(r, left[t]) /\ r \in TabStates /\ TypeOK /\ q \in Requests BY <1>1, ACoreFacts, TabTypes
<1>3. q.at = "req" /\ q.kind = "refresh" BY <1>1, <1>2 DEF ServeRun, TabGood, RunShape
<1>4. Servable(q) BY <1>1, <1>2, <1>3 DEF Servable, TabGood, Pending
<1>5. row \in [Sids -> Rows] /\ av \in Nat /\ (\A s \in Sids : row[s].av <= av) BY ACoreFacts DEF TypeOK
<1>6. PICK p : p = Answered(q) OBVIOUS
<1> DEFINE x == [r EXCEPT !.run = p]
<1>7. /\ row' = Serve(q).row /\ tab' = [tab EXCEPT ![t] = x]
      /\ UNCHANGED <<av, cookie, lock, orphans, lost, faults>>
  BY <1>1, <1>6 DEF ServeRun, Set
<1>8. /\ \A s \in Sids : Moves(row[s], Serve(q).row[s])
      /\ Serve(q).ans # NoAnswer
  BY <1>3, <1>4, <1>5, ServeFacts
<1>9. p \in Requests /\ p.ck = q.ck /\ p.at = "rsp" /\ p.ans = Serve(q).ans
  BY <1>4, <1>5, <1>6, <1>8, AnsweredFacts
<1>10. x \in TabStates /\ x.run = p /\ x.op = tab[t].op BY <1>1, <1>2, <1>9 DEF TabStates
<1> HIDE DEF x
<1> DEFINE e == ServeRefresh(q)
           s == q.ck.sid
<1>11. Serve(q) = e BY <1>3 DEF Serve
<1>12. /\ e.ans.kind \in {"ok", "mismatch", "denied"}
       /\ e.ans.kind = "ok" <=> e.ans.jar = "set"
       /\ e.ans.kind = "ok" => s # NoSid /\ e.ans.tok = Token(s, e.row[s].gen)
       /\ e.ans.kind = "denied" /\ s # NoSid => e.row[s].st # "active" \/ q.ck.gen + 1 < row[s].gen
       /\ \A y \in Sids \ {s} : e.row[y] = row[y]
       /\ s # NoSid => /\ \/ e.row[s].st = row[s].st
                          \/ row[s].st = "active" /\ e.row[s].st = "revoked"
                          \/ row[s].st = "active" /\ e.row[s].st = "reused" /\ q.ck.gen # row[s].gen
                       /\ \/ e.row[s].gen = row[s].gen
                          \/ q.ck.gen = row[s].gen /\ e.row[s].gen = row[s].gen + 1 /\ e.ans.kind = "ok"
  BY <1>2, <1>5, RefreshServed
<1> HIDE DEF e
<1>13. Turned(q) BY <1>7, <1>11, <1>12 DEF Turned
<1>14. p.ans.jar = "set" => s # NoSid /\ p.ans.tok.sid = s /\ p.ans.tok.gen = row'[s].gen
  BY <1>7, <1>9, <1>11, <1>12 DEF Token
<1>15. /\ p.ans.kind \in {"ok", "mismatch", "denied"}
       /\ p.ans.kind = "denied" /\ s # NoSid => row'[s].st # "active" \/ q.ck.gen + 1 < row[s].gen
       /\ s # NoSid => /\ row'[s].gen # row[s].gen => p.ans.jar = "set"
                       /\ row'[s].st = "reused" => row[s].st = "reused" \/ q.ck.gen # row[s].gen
       /\ \A y \in Sids : Moves(row[y], row'[y])
  BY <1>7, <1>8, <1>9, <1>11, <1>12
<1> QED BY <1>1, <1>2, <1>3, <1>7, <1>9, <1>10, <1>13, <1>14, <1>15

\* RotateUserSessionRefresh, for a tab that holds the lock.
LEMMA ServeRunCalm ==
    ASSUME CalmInv, ACore', NEW t \in Tabs, ServeRun(t)
    PROVE  CalmInv'
<1>0. ACore /\ TypeOK BY DEF CalmInv, CookieInv, ACore
<1>1. CASE ~HasLocks BY <1>1 DEF CalmInv, CookieInv
<1>2. CASE HasLocks
  <2>1. PICK q \in Requests, p \in Requests, x \in TabStates :
              /\ q = tab[t].run /\ q.at = "req" /\ q.kind = "refresh"
              /\ tab' = [tab EXCEPT ![t] = x] /\ x.run = p /\ x.op = tab[t].op
              /\ p.at = "rsp" /\ p.ck = q.ck /\ Turned(q)
              /\ \A s \in Sids : Moves(row[s], row'[s])
              /\ p.ans.kind \in {"ok", "mismatch", "denied"}
              /\ p.ans.jar = "set" =>
                    q.ck.sid # NoSid /\ p.ans.tok.sid = q.ck.sid /\ p.ans.tok.gen = row'[q.ck.sid].gen
              /\ p.ans.kind = "denied" /\ q.ck.sid # NoSid =>
                    row'[q.ck.sid].st # "active" \/ q.ck.gen + 1 < row[q.ck.sid].gen
              /\ q.ck.sid # NoSid =>
                    /\ row'[q.ck.sid].gen # row[q.ck.sid].gen => p.ans.jar = "set"
                    /\ row'[q.ck.sid].st = "reused" =>
                          row[q.ck.sid].st = "reused" \/ q.ck.gen # row[q.ck.sid].gen
              /\ UNCHANGED <<av, cookie, lock, orphans, lost, faults>>
    BY <1>0, RunServed
  <2>2. Serialized /\ t \in lock /\ BehindCookie(q) BY <1>2, <2>1 DEF CalmInv, CookieInv, Serialized
  <2>3. \A u \in Tabs \ {t} : tab[u].run.at \notin {"req", "rsp"} /\ ~RefreshedTo(u) BY <1>0, <2>2, Alone
  <2>4. tab'[t] = x /\ \A u \in Tabs \ {t} : tab'[u] = tab[u] BY <1>0, <2>1 DEF TypeOK
  <2>5. row \in [Sids -> Rows] /\ row' \in [Sids -> Rows] /\ cookie \in Tokens /\ q.ck.sid \in Sids \cup {NoSid}
        /\ q.ck.gen \in Nat
    BY <1>0, RequestTypes DEF TypeOK, ACore
  <2>6. \A u \in Tabs : tab'[u].op = tab[u].op BY <2>1, <2>4
  <2>7. \A u \in Tabs : SignedInTo(u)' <=> SignedInTo(u) BY <2>6 DEF SignedInTo
  <2>8. \A u \in Tabs : ~RefreshedTo(u) BY <2>1, <2>3 DEF RefreshedTo
  <2>9. \A u \in Tabs : RefreshedTo(u)' => /\ u = t /\ tab'[u].run = p /\ p.ans.jar = "set"
    BY <2>1, <2>3, <2>4 DEF RefreshedTo
  <2>10. NearHead(cookie)'
    <3>1. PICK k \in Tokens : k = cookie BY <2>5
    <3>2. NearHead(k) /\ (q.ck.sid # NoSid /\ k.sid = q.ck.sid => q.ck.gen <= k.gen)
      BY <2>1, <2>2, <3>1 DEF Serialized, BehindCookie
    <3>3. NearHead(k)' BY <2>1, <2>5, <3>2, TurnedNear
    <3> QED BY <2>1, <3>1, <3>3 DEF NearHead
  <2>11. ASSUME NEW u \in Tabs, RefreshedTo(u)' PROVE NearHead(tab[u].run.ans.tok)'
    <3>1. tab'[u].run.ans.tok.sid = q.ck.sid /\ tab'[u].run.ans.tok.gen = row'[q.ck.sid].gen /\ q.ck.sid \in Sids
      BY <2>1, <2>5, <2>9, <2>11
    <3>2. row'[q.ck.sid].gen \in Nat BY <2>5, <3>1 DEF Rows
    <3> QED BY <3>1, <3>2 DEF NearHead
  <2>12. \A u \in Tabs : BehindCookie(tab[u].run)' BY <2>1, <2>3, <2>4 DEF BehindCookie
  <2>13. ASSUME NEW z \in orphans' PROVE BehindCookie(z)'
    <3>1. z \in Requests /\ BehindCookie(z) BY <1>0, <2>1, <2>2, <2>13 DEF TypeOK, Serialized
    <3>2. z.ck.sid \in Sids \cup {NoSid} /\ z.ck.gen \in Nat BY <3>1, RequestTypes
    <3>3. z.ck.sid # NoSid => /\ row[z.ck.sid].gen <= row'[z.ck.sid].gen
                              /\ row[z.ck.sid].gen \in Nat /\ row'[z.ck.sid].gen \in Nat
      BY <2>1, <2>5, <3>2, TurnedGrows
    <3>4. z.kind = "refresh" /\ z.at = "req" /\ z.ck.sid # NoSid => z.ck.gen <= row'[z.ck.sid].gen
      BY <3>1, <3>2, <3>3 DEF BehindCookie
    <3>5. \A u \in Tabs : RefreshedTo(u)' => tab'[u].run.ans.tok.sid = q.ck.sid /\ tab'[u].run.ans.tok.gen = row'[q.ck.sid].gen
      BY <2>1, <2>9
    <3> QED BY <2>1, <2>6, <2>7, <3>1, <3>4, <3>5 DEF BehindCookie
  <2>14. ASSUME NEW u \in Tabs, SignedInTo(u)'
         PROVE  LET z == tab'[u].op.ans.tok.sid
                IN  /\ row'[z].gen = 0 /\ cookie'.sid # z
                    /\ \A w \in Tabs : RefreshedTo(w)' => tab'[w].run.ans.tok.sid # z
                    /\ \A w \in Tabs \ {u} : SignedInTo(w)' => tab'[w].op.ans.tok.sid # z
    <3>1. PICK z : z = tab[u].op.ans.tok.sid OBVIOUS
    <3>2. z \in Sids BY <1>0, <2>7, <2>14, <3>1, AnswerKnown
    <3>3. z # q.ck.sid BY <2>1, <2>2, <2>7, <2>14, <3>1, <3>2, SidFacts DEF BehindCookie
    <3>4. row'[z].gen = row[z].gen BY <2>1, <2>5, <3>2, <3>3, TurnedGrows
    <3>5. \A w \in Tabs : RefreshedTo(w)' => tab'[w].run.ans.tok.sid # z BY <2>1, <2>9, <3>3
    <3>6. /\ row[z].gen = 0 /\ cookie.sid # z
          /\ \A w \in Tabs \ {u} : SignedInTo(w) => tab[w].op.ans.tok.sid # z
      BY <2>2, <2>7, <2>14, <3>1 DEF Serialized
    <3>7. cookie' = cookie BY <2>1
    <3> QED BY <2>6, <2>7, <2>14, <3>1, <3>4, <3>5, <3>6, <3>7
  <2>15. \A u \in Tabs : tab'[u].run.at \in {"req", "rsp"} => u \in lock' BY <2>1, <2>2, <2>3, <2>4
  <2>16. Serialized' BY <2>10, <2>11, <2>12, <2>13, <2>14, <2>15 DEF Serialized
  <2>17. ASSUME ~lost PROVE AtHead' /\ Verdicts'
    <3>1. AtHead /\ Verdicts BY <1>2, <2>17 DEF CalmInv
    <3>2. q.ck.sid # NoSid => row[q.ck.sid].gen = q.ck.gen BY <2>1, <3>1 DEF AtHead
    <3>3. ASSUME NEW s \in Sids PROVE row'[s].st # "reused"
      <4>1. row[s].st # "reused" BY <3>1, <3>3 DEF AtHead
      <4>2. CASE s # q.ck.sid BY <2>1, <3>3, <4>1, <4>2 DEF Turned
      <4>3. CASE s = q.ck.sid BY <2>1, <3>2, <3>3, <4>1, <4>3, SidFacts
      <4> QED BY <4>2, <4>3
    <3>4. ASSUME cookie.sid # NoSid
          PROVE  \/ row'[cookie.sid].gen = cookie.gen
                 \/ \E u \in Tabs : RefreshedTo(u)' /\ tab'[u].run.ans.tok.sid = cookie.sid
      <4>1. row[cookie.sid].gen = cookie.gen /\ cookie.sid \in Sids BY <2>5, <2>8, <3>1, <3>4 DEF AtHead, Tokens
      <4>2. CASE row'[cookie.sid].gen = row[cookie.sid].gen BY <4>1, <4>2
      <4>3. CASE row'[cookie.sid].gen # row[cookie.sid].gen
        <5>1. cookie.sid = q.ck.sid BY <2>1, <4>1, <4>3 DEF Turned
        <5>2. p.ans.jar = "set" /\ p.ans.tok.sid = cookie.sid BY <2>1, <3>4, <4>3, <5>1
        <5>3. RefreshedTo(t)' /\ tab'[t].run = p BY <2>1, <2>4, <5>2 DEF RefreshedTo
        <5> QED BY <5>2, <5>3
      <4> QED BY <4>2, <4>3
    <3>5. \A u \in Tabs : tab'[u].run.at # "req" BY <2>1, <2>3, <2>4
    <3>6. \A u \in Tabs : RefreshedTo(u)' => row'[tab'[u].run.ans.tok.sid].gen = tab'[u].run.ans.tok.gen
      BY <2>1, <2>9
    <3>7. AtHead' BY <2>1, <3>1, <3>3, <3>4, <3>5, <3>6 DEF AtHead
    <3>8. ASSUME NEW u \in Tabs, tab'[u].run.at = "rsp"
          PROVE  /\ tab'[u].run.ans.kind = "denied" /\ tab'[u].run.ck.sid # NoSid =>
                       row'[tab'[u].run.ck.sid].st # "active"
                 /\ faults' = 0 => tab'[u].run.ans.kind \in {"ok", "denied", "mismatch"}
      <4>1. u = t /\ tab'[u].run = p BY <2>1, <2>3, <2>4, <3>8
      <4>2. q.ck.sid # NoSid => ~(q.ck.gen + 1 < row[q.ck.sid].gen) BY <2>5, <3>2
      <4> QED BY <2>1, <4>1, <4>2
    <3>9. ASSUME NEW u \in Tabs, tab'[u].op.kind = "api", tab'[u].op.again, tab'[u].op.at = "rsp",
                 tab'[u].op.ans.kind = "denied"
          PROVE  row'[tab'[u].op.sid].st # "active" \/ tab'[u].op.av # av'
      <4>1. PICK z : z = tab[u].op OBVIOUS
      <4>2. tab'[u].op = z BY <2>6, <3>9, <4>1
      <4>3. z.sid # NoSid /\ (~Active(z.sid) \/ z.av # av) BY <1>0, <3>1, <3>9, <4>1, <4>2, TabKnown DEF Verdicts
      <4>4. av <= av' BY <1>0, <2>1 DEF TypeOK
      <4>5. ~Active(z.sid)' \/ z.av # av' BY <1>0, <2>1, <3>9, <4>1, <4>3, <4>4, VerdictKept
      <4> QED BY <4>2, <4>5 DEF Active
    <3>10. Verdicts' BY <3>8, <3>9 DEF Verdicts, Active
    <3> QED BY <3>7, <3>10
  <2> QED BY <2>1, <2>16, <2>17 DEF CalmInv, CookieInv
<1> QED BY <1>1, <1>2, AuthConstants

--------------------------------------------------------------------------------
(* The theorems *)

\* The browser just opened.
LEMMA InitCalm == Init => CalmInv
<1> SUFFICES ASSUME Init PROVE CalmInv
  OBVIOUS
<1>1. ACore BY InitACore
<1>2. PICK s \in {NoSid, 1} :
          /\ row = [x \in Sids |-> [st |-> IF x = s THEN "active" ELSE "none",
                                   gen |-> 0, grace |-> FALSE, av |-> 1]]
          /\ cookie = Token(s, 0)
  BY DEF Init
<1>3. \A x \in Sids : row[x].gen = 0 /\ row[x].st # "reused" BY <1>2
<1>4. cookie.gen = 0 /\ cookie.sid \in Sids \cup {NoSid} BY <1>2, SidFacts DEF Token
<1>5. orphans = {} /\ faults = 0 /\ \A t \in Tabs : tab[t].run = NoReq /\ tab[t].op = NoReq
  <2>1. \A t \in Tabs : tab[t] = FreshTab BY DEF Init
  <2> QED BY <2>1, FreshFacts DEF Init
<1>6. \A t \in Tabs : tab[t].run.at = "none" /\ tab[t].op.at = "none" /\ ~RefreshedTo(t) /\ ~SignedInTo(t)
  BY <1>5, NoReqFacts DEF RefreshedTo, SignedInTo
<1>7. Serialized BY <1>3, <1>4, <1>5, <1>6 DEF Serialized, NearHead, BehindCookie
<1>8. AtHead BY <1>3, <1>4, <1>5, <1>6 DEF AtHead
<1>9. Verdicts BY <1>6 DEF Verdicts
<1> QED BY <1>1, <1>7, <1>8, <1>9 DEF CalmInv, CookieInv

\* CalmInv is inductive.
LEMMA NextCalm ==
    ASSUME CalmInv, [Next]_vars
    PROVE  CalmInv'
<1>1. ACore BY DEF CalmInv, CookieInv
<1>2. ACore' BY <1>1, NextACore
<1>3. CASE UNCHANGED vars
  <2>1. TypeOK /\ UNCHANGED <<row, av, cookie, tab, lock, orphans, lost, faults>> BY <1>1, <1>3 DEF vars, ACore
  <2>2. \A s \in Sids : Moves(row[s], row'[s]) BY <2>1 DEF Moves, TypeOK, Rows
  <2>3. av <= av' /\ faults <= faults' BY <2>1 DEF TypeOK
  <2> QED BY <1>2, <2>1, <2>2, <2>3, ServerCalm
<1>4. ASSUME NEW t \in Tabs, SubmitLogin(t) \/ SubmitLogout(t) \/ SubmitApi(t) \/ SubmitSecure(t)
      PROVE  CalmInv'
  BY <1>2, <1>4, SubmitCalm DEF SubmitLogin, SubmitLogout, SubmitApi, SubmitSecure
<1>5. ASSUME NEW t \in Tabs, FailRun(t, "down") \/ FailRun(t, "refused")
      PROVE  CalmInv'
  BY <1>2, <1>5, FailRunCalm
<1>6. ASSUME NEW q \in orphans, ServeOrphan(q) \/ DropOrphan(q)
      PROVE  CalmInv'
  BY <1>2, <1>6, OrphanCalm, OrphanRefreshCalm
<1> QED BY <1>2, <1>3, <1>4, <1>5, <1>6, ServeRunCalm, ServeOpCalm, NavigateCalm, GrantLockCalm, RefreshReturnsCalm,
           SubmitSecureExpiredCalm, LoginReturnsCalm, LogoutReturnsCalm, ApiReturnsCalm, SecureReturnsCalm,
           ExpireTokenCalm, OnSignedOutCalm, EventCalm, FailOpCalm, RowCalm DEF Next

\* The Web Lock keeps the refreshes serialized and, as long as none is lost, the
\* cookie at the server's head.
THEOREM CalmCorrect == Spec => []CalmInv
<1>1. CalmInv /\ [Next]_vars => CalmInv' BY NextCalm
<1> QED BY <1>1, InitCalm, PTL DEF Spec

\* With Web Locks the cookie is never more than one generation behind the server,
\* for any number of tabs, refreshes, operations, losses and reloads.
THEOREM CookieNearHeadCorrect == Spec => []CookieNearHead
<1>1. CalmInv => CookieNearHead
  BY DEF CalmInv, CookieInv, Serialized, NearHead, CookieNearHead
<1> QED BY <1>1, CalmCorrect, PTL

\* With Web Locks and no refresh abandoned halfway, no session is taken for stolen,
\* whatever the tabs do.
THEOREM OnlyLossRevokesCorrect == Spec => []OnlyLossRevokes
<1>1. CalmInv => OnlyLossRevokes BY DEF CalmInv, AtHead, OnlyLossRevokes
<1> QED BY <1>1, CalmCorrect, PTL

--------------------------------------------------------------------------------
(* A tab that drops its session *)

\* Every tab has the session that it had.
SameMem == \A u \in Tabs : tab'[u].mem = tab[u].mem

\* One tab changes, but not its session.
LEMMA OneSameMem ==
    ASSUME tab \in [Tabs -> TabStates], NEW t \in Tabs, NEW x, tab' = [tab EXCEPT ![t] = x], x.mem = tab[t].mem
    PROVE  SameMem
BY DEF SameMem

\* Most steps leave every tab its session.
LEMMA KeepsMem ==
    ASSUME ACore, NEW t \in Tabs,
           \/ ServeRun(t) \/ ServeOp(t) \/ Navigate(t) \/ GrantLock(t) \/ SubmitSecureExpired(t)
           \/ \E k : Submit(t, k)
           \/ ExpireToken(t) \/ StaleEvent(t) \/ FailOp(t) \/ \E k : FailRun(t, k)
    PROVE  SameMem
<1>1. tab[t] \in TabStates /\ TypeOK /\ TabGood(tab[t], left[t]) BY ACoreFacts
<1>2. tab \in [Tabs -> TabStates] /\ cookie \in Tokens BY <1>1 DEF TypeOK
<1>3. ASSUME NEW x, tab' = [tab EXCEPT ![t] = x], x.mem = tab[t].mem PROVE SameMem
  BY <1>2, <1>3, OneSameMem
<1>4. CASE ServeRun(t)
  <2> DEFINE x == [tab[t] EXCEPT !.run = Answered(tab[t].run)]
  <2>1. x.mem = tab[t].mem BY <1>1 DEF TabStates
  <2> QED BY <1>3, <1>4, <2>1 DEF ServeRun, Set
<1>5. CASE ServeOp(t)
  <2> DEFINE x == [tab[t] EXCEPT !.op = Answered(tab[t].op)]
  <2>1. x.mem = tab[t].mem BY <1>1 DEF TabStates
  <2> QED BY <1>3, <1>5, <2>1 DEF ServeOp, Set
<1>6. ASSUME NEW r \in TabStates, r.mem = tab[t].mem, tab' = [tab EXCEPT ![t] = Refresh(r)] PROVE SameMem
  <2> DEFINE x == Refresh(r)
  <2>1. x.mem = r.mem BY <1>2, <1>6, RefreshFacts
  <2>2. tab' = [tab EXCEPT ![t] = x] BY <1>6
  <2> HIDE DEF x
  <2> QED BY <1>3, <1>6, <2>1, <2>2
<1>7. CASE Navigate(t)
  <2> DEFINE r == [tab[t] EXCEPT !.boot = "checking"]
  <2>1. r \in TabStates /\ r.mem = tab[t].mem BY <1>1 DEF TabStates
  <2>2. tab' = [tab EXCEPT ![t] = Refresh(r)] BY <1>7 DEF Navigate, Set
  <2> HIDE DEF r
  <2> QED BY <1>6, <2>1, <2>2
<1>8. CASE SubmitSecureExpired(t)
  <2> DEFINE q == [NoReq EXCEPT !.kind = "secure", !.at = "joined"]
             r == [tab[t] EXCEPT !.op = q]
  <2>1. q \in Requests BY NoReqFacts DEF Requests
  <2>2. tab' = [tab EXCEPT ![t] = Refresh(r)] BY <1>8 DEF SubmitSecureExpired, Set
  <2> HIDE DEF q
  <2>3. r \in TabStates /\ r.mem = tab[t].mem BY <1>1, <2>1 DEF TabStates
  <2> HIDE DEF r
  <2> QED BY <1>6, <2>2, <2>3
<1>9. CASE \E k : Submit(t, k)
  <2>1. PICK k : Submit(t, k) BY <1>9
  <2> DEFINE x == [tab[t] EXCEPT !.op = Sending(tab[t], cookie, k, FALSE)]
  <2>2. x.mem = tab[t].mem BY <1>1 DEF TabStates
  <2> QED BY <1>3, <2>1, <2>2 DEF Submit, Set
<1>10. CASE GrantLock(t)
  <2>1. CASE tab[t].run.current
    <3> DEFINE x == [tab[t] EXCEPT !.run = Sending(tab[t], cookie, "refresh", FALSE)]
    <3>1. x.mem = tab[t].mem BY <1>1 DEF TabStates
    <3> QED BY <1>3, <1>10, <2>1, <3>1 DEF GrantLock, Set
  <2>2. CASE ~tab[t].run.current
    <3> DEFINE z == [tab[t] EXCEPT !.run = NoReq]
               x == Continue(z, cookie, "transient")
    <3>1. z \in TabStates /\ z.mem = tab[t].mem /\ z.op = tab[t].op /\ z.run.at = "none" /\ z.live = tab[t].live
          /\ z.boot = tab[t].boot
      BY <1>1, NoReqFacts DEF TabStates
    <3>2. tab' = [tab EXCEPT ![t] = x] BY <1>10, <2>2 DEF GrantLock, Settle, Set
    <3> HIDE DEF z
    <3>3. OpShape(z) BY <1>1, <3>1 DEF TabGood, OpShape
    <3>4. x.mem = z.mem BY <1>2, <3>1, <3>3, ContinueFacts
    <3> HIDE DEF x
    <3> QED BY <1>3, <3>1, <3>2, <3>4
  <2> QED BY <2>1, <2>2
<1>11. CASE ExpireToken(t)
  <2> DEFINE x == [tab[t] EXCEPT !.live = FALSE]
  <2>1. x.mem = tab[t].mem BY <1>1 DEF TabStates
  <2> QED BY <1>3, <1>11, <2>1 DEF ExpireToken, Set
<1>12. CASE StaleEvent(t) BY <1>12 DEF StaleEvent, SameMem
<1>13. CASE FailOp(t)
  <2> DEFINE x == [tab[t] EXCEPT !.op.at = "rsp", !.op.ans = Failure("down")]
  <2>1. x.mem = tab[t].mem BY <1>1 DEF TabStates
  <2> QED BY <1>3, <1>13, <2>1 DEF FailOp, Set
<1>14. CASE \E k : FailRun(t, k)
  <2>1. PICK k : FailRun(t, k) BY <1>14
  <2> DEFINE x == [tab[t] EXCEPT !.run.at = "rsp", !.run.ans = Failure(k)]
  <2>2. x.mem = tab[t].mem BY <1>1 DEF TabStates
  <2> QED BY <1>3, <2>1, <2>2 DEF FailRun, Set
<1> QED BY <1>4, <1>5, <1>7, <1>8, <1>9, <1>10, <1>11, <1>12, <1>13, <1>14

\* A page that ends an operation with a token keeps its session, or had none.
LEMMA EndedMem ==
    ASSUME ACore, NEW t \in Tabs, LoginReturns(t) \/ SecureReturns(t), tab[t].mem # NoSid
    PROVE  SameMem
<1> DEFINE r == tab[t]
           a == r.op.ans
<1>1. r \in TabStates /\ TypeOK /\ TabGood(r, left[t]) /\ a \in Answers BY ACoreFacts, TabTypes, RequestTypes
<1>2. tab \in [Tabs -> TabStates] BY <1>1 DEF TypeOK
<1>3. \A z \in TabStates : Ended(z).mem = z.mem BY DEF Ended, TabStates
<1>4. Bundle(r, a) \in TabStates /\ Bundle(r, a).mem = a.tok.sid BY <1>1, BundleFacts
<1>5. CASE LoginReturns(t)
  <2>1. r.mem # r.op.sid BY <1>1, <1>5 DEF LoginReturns, TabGood, OpShape
  <2>2. tab' = [tab EXCEPT ![t] = Ended(r)] BY <1>5, <2>1 DEF LoginReturns, Set
  <2> QED BY <1>1, <1>2, <1>3, <2>2, OneSameMem
<1>6. CASE SecureReturns(t)
  <2> DEFINE x == Ended(IF a.kind = "ok" /\ r.mem = a.tok.sid THEN Bundle(r, a) ELSE r)
  <2>1. x.mem = r.mem BY <1>1, <1>3, <1>4
  <2>2. tab' = [tab EXCEPT ![t] = x] BY <1>6 DEF SecureReturns, Set
  <2> HIDE DEF x
  <2> QED BY <1>2, <2>1, <2>2, OneSameMem
<1> QED BY <1>5, <1>6

\* A refresh that makes a tab drop its session: the cookie it carried was of
\* another session, or the server no longer honours this one.
LEMMA RefreshDrops ==
    ASSUME CalmInv, HasLocks, ~lost, NEW t \in Tabs, RefreshReturns(t), faults' = 0,
           tab[t].mem # NoSid, tab'[t].mem = NoSid
    PROVE  tab[t].run.at = "rsp" /\ (tab[t].run.ck.sid # tab[t].mem \/ ~Active(tab[t].mem))
<1>0. ACore /\ Verdicts BY DEF CalmInv, CookieInv
<1> DEFINE r == tab[t]
           a == r.run.ans
<1>1. TabGood(r, left[t]) /\ r \in TabStates /\ TypeOK /\ Known(cookie.sid, 0) BY <1>0, ACoreFacts
<1>2. r.run.at = "rsp" /\ faults = 0 /\ tab \in [Tabs -> TabStates] BY <1>1 DEF RefreshReturns, TypeOK
<1>3. a \in Answers /\ Known(a.tok.sid, a.av) BY <1>1, <1>2, TabTypes, RequestTypes DEF TabGood, ReqKnown
<1>4. Jar(a) \in Tokens BY <1>1, <1>3, JarFacts DEF TypeOK
<1>5. OpShape(r) /\ ~(r.op.kind = "api" /\ r.op.again) /\ r.op.at # "leave"
  BY <1>1, <1>2 DEF TabGood, OpShape
<1>6. ASSUME NEW z \in TabStates, z.op = r.op, z.mem # NoSid, NEW outcome, Settle(t, z, Jar(a), outcome) PROVE FALSE
  <2> DEFINE y == [z EXCEPT !.run = NoReq]
             x == Continue(y, Jar(a), outcome)
  <2>1. y \in TabStates /\ y.mem = z.mem /\ y.op = z.op BY <1>6, NoReqFacts DEF TabStates
  <2>2. tab' = [tab EXCEPT ![t] = x] BY <1>6 DEF Settle, Set
  <2> HIDE DEF y
  <2>3. OpShape(y) BY <1>5, <1>6, <2>1 DEF OpShape
  <2>4. x.mem = y.mem BY <1>4, <2>1, <2>3, ContinueFacts
  <2> HIDE DEF x
  <2> QED BY <1>2, <1>6, <2>1, <2>2, <2>4
<1>7. r.run.current /\ a.kind \notin {"ok", "down"}
  <2>1. r.run.current BY <1>1, <1>6 DEF RefreshReturns
  <2> DEFINE i == [r EXCEPT !.boot = "idle"]
             b == Bundle(r, a)
  <2>2. i \in TabStates /\ i.op = r.op /\ i.mem = r.mem BY <1>1 DEF TabStates
  <2>3. b \in TabStates /\ b.op = r.op /\ b.mem = a.tok.sid BY <1>1, <1>3, BundleFacts
  <2>4. a.kind = "ok" => a.tok.sid # NoSid BY <1>1, <1>2 DEF TabGood, RunShape
  <2>5. a.kind = "ok" => Settle(t, b, Jar(a), "authenticated") BY <2>1 DEF RefreshReturns
  <2>6. a.kind = "down" => Settle(t, i, Jar(a), "transient") BY <2>1 DEF RefreshReturns
  <2> HIDE DEF i, b
  <2> QED BY <1>6, <2>1, <2>2, <2>3, <2>4, <2>5, <2>6
<1>8. r.mem = r.run.sid /\ (a.kind = "mismatch" => r.run.sid # r.run.ck.sid)
  BY <1>1, <1>2, <1>7 DEF TabGood, RunShape
<1>9. a.kind \in {"denied", "mismatch"} /\ (a.kind = "denied" /\ r.run.ck.sid # NoSid => ~Active(r.run.ck.sid))
  BY <1>0, <1>2, <1>7 DEF Verdicts
<1> QED BY <1>2, <1>8, <1>9

\* A retried request that makes a tab drop its session was refused for good.
LEMMA ApiDrops ==
    ASSUME CalmInv, HasLocks, ~lost, NEW t \in Tabs, ApiReturns(t), tab[t].mem # NoSid, tab'[t].mem = NoSid
    PROVE  tab[t].op.again /\ (~Active(tab[t].mem) \/ tab[t].op.av # av)
<1>0. ACore /\ Verdicts BY DEF CalmInv, CookieInv
<1> DEFINE r == tab[t]
<1>1. TabGood(r, left[t]) /\ r \in TabStates /\ TypeOK BY <1>0, ACoreFacts
<1>2. tab \in [Tabs -> TabStates] /\ r.op \in Requests BY <1>1, TabTypes DEF TypeOK
<1>3. ~SameMem BY DEF SameMem
<1>4. r.op.ans.kind = "denied"
  <2>1. Ended(r).mem = r.mem BY <1>1 DEF Ended, TabStates
  <2>2. ~Set(t, Ended(r)) BY <1>2, <1>3, <2>1, OneSameMem DEF Set
  <2> QED BY <2>2 DEF ApiReturns
<1>5. r.op.again
  <2> DEFINE q == [r.op EXCEPT !.at = "joined"]
             z == [r EXCEPT !.op = q]
             x == Refresh(z)
  <2>1. q \in Requests BY <1>2, MovedFacts
  <2>2. [r EXCEPT !.op.at = "joined"] = z BY <1>1 DEF TabStates
  <2> HIDE DEF q
  <2>3. z \in TabStates /\ z.mem = r.mem BY <1>1, <2>1 DEF TabStates
  <2>4. Join(t) => tab' = [tab EXCEPT ![t] = x] BY <2>2 DEF Join, Set
  <2> HIDE DEF z
  <2>5. x.mem = r.mem BY <1>1, <2>3, RefreshFacts DEF TypeOK
  <2> HIDE DEF x
  <2>6. ~Join(t) BY <1>2, <1>3, <2>4, <2>5, OneSameMem
  <2> QED BY <1>4, <2>6 DEF ApiReturns
<1>6. r.mem = r.op.sid /\ r.op.kind = "api" /\ r.op.at = "rsp" BY <1>1, <1>5 DEF ApiReturns, TabGood, OpShape
<1> QED BY <1>0, <1>4, <1>5, <1>6 DEF Verdicts

\* The body of NotForcedOut.
StaysIn ==
    \A t \in Tabs :
        LET s == tab[t].mem
        IN  (HasLocks /\ faults' = 0 /\ ~lost /\ chan[t] = <<>> /\ tab[t].op.kind # "logout"
               /\ s # NoSid /\ tab'[t].mem = NoSid) =>
               \/ ~Active(s) \/ row[s].av # av
               \/ cookie.sid # s
               \/ tab[t].run.at = "rsp" /\ tab[t].run.ck.sid # s
               \/ tab[t].op.again /\ tab[t].op.av # av

\* A step of one tab leaves the others their state.
LEMMA OthersSame ==
    ASSUME tab \in [Tabs -> TabStates], NEW t \in Tabs,
           \/ RefreshReturns(t) \/ LogoutReturns(t) \/ ApiReturns(t) \/ OnAuthenticated(t) \/ OnSignedOut(t)
           \/ Leave(t) \/ Reload(t)
    PROVE  \A u \in Tabs \ {t} : tab'[u] = tab[u]
BY DEF RefreshReturns, LogoutReturns, ApiReturns, OnAuthenticated, OnSignedOut, Leave, Reload, Unload,
       Settle, Set, Join

\* Several tabs never force each other out: with Web Locks and nothing lost, a tab
\* drops its session only when the server no longer honours it, the cookie is of
\* another session, or a security change has outdated the token of a retry.
THEOREM NotForcedOutCorrect == Spec => NotForcedOut
<1>1. ASSUME CalmInv, [Next]_vars PROVE [StaysIn]_vars
  <2>0. ACore /\ TypeOK BY <1>1 DEF CalmInv, CookieInv, ACore
  <2>1. CASE UNCHANGED vars BY <2>1
  <2> SUFFICES ASSUME Next, NEW t \in Tabs, HasLocks, faults' = 0, ~lost, chan[t] = <<>>,
                      tab[t].op.kind # "logout", tab[t].mem # NoSid, tab'[t].mem = NoSid
               PROVE  \/ ~Active(tab[t].mem)
                      \/ tab[t].run.at = "rsp" /\ tab[t].run.ck.sid # tab[t].mem
                      \/ tab[t].op.again /\ tab[t].op.av # av
    BY <1>1, <2>1 DEF StaysIn
  <2>2. ~SameMem BY DEF SameMem
  <2>3. tab \in [Tabs -> TabStates] /\ faults \in Nat BY <2>0 DEF TypeOK
  <2>4. PICK u \in Tabs : \/ RefreshReturns(u) \/ LogoutReturns(u) \/ ApiReturns(u) \/ OnAuthenticated(u)
                          \/ OnSignedOut(u) \/ Leave(u) \/ Reload(u)
                          \/ LoginReturns(u) \/ SecureReturns(u)
    <3>1. ASSUME NEW u \in Tabs, SubmitLogin(u) \/ SubmitLogout(u) \/ SubmitApi(u) \/ SubmitSecure(u)
          PROVE  FALSE
      BY <2>0, <2>2, <3>1, KeepsMem DEF SubmitLogin, SubmitLogout, SubmitApi, SubmitSecure
    <3>2. ASSUME NEW u \in Tabs, FailRun(u, "down") \/ FailRun(u, "refused") PROVE FALSE
      BY <2>0, <2>2, <3>2, KeepsMem
    <3>3. ASSUME UNCHANGED tab PROVE FALSE BY <2>2, <3>3 DEF SameMem
    <3>4. ASSUME NEW u \in Tabs,
                 \/ ServeRun(u) \/ ServeOp(u) \/ Navigate(u) \/ GrantLock(u) \/ SubmitSecureExpired(u)
                 \/ ExpireToken(u) \/ StaleEvent(u) \/ FailOp(u)
          PROVE  FALSE
      BY <2>0, <2>2, <3>4, KeepsMem
    <3>5. ASSUME NEW q \in orphans, ServeOrphan(q) \/ DropOrphan(q) PROVE FALSE
      BY <3>3, <3>5 DEF ServeOrphan, DropOrphan
    <3>6. ASSUME NEW s \in Sids, GraceEnds(s) \/ RevokeElsewhere(s) PROVE FALSE
      BY <3>3, <3>6 DEF GraceEnds, RevokeElsewhere
    <3> QED BY <3>1, <3>2, <3>4, <3>5, <3>6 DEF Next
  <2>5. CASE LoginReturns(u) \/ SecureReturns(u)
    <3>1. \A w \in Tabs \ {u} : tab'[w] = tab[w] BY <2>3, <2>5 DEF LoginReturns, SecureReturns, Set
    <3>2. u = t BY <3>1
    <3> QED BY <2>0, <2>2, <2>5, <3>2, EndedMem
  <2>6. CASE ~(LoginReturns(u) \/ SecureReturns(u))
    <3>1. u = t BY <2>3, <2>4, <2>6, OthersSame
    <3>2. CASE RefreshReturns(t) BY <1>1, <3>2, RefreshDrops
    <3>3. CASE ApiReturns(t) BY <1>1, <3>3, ApiDrops
    <3>4. CASE LogoutReturns(t) BY <3>4 DEF LogoutReturns
    <3>5. CASE OnAuthenticated(t) \/ OnSignedOut(t) BY <3>5 DEF OnAuthenticated, OnSignedOut
    <3>6. CASE Leave(t)
      <4>1. OpShape(tab[t]) BY <2>0 DEF ACore
      <4> QED BY <3>6, <4>1 DEF Leave, OpShape
    <3>7. CASE Reload(t) BY <2>3, <3>7 DEF Reload, Fault
    <3> QED BY <2>4, <2>6, <3>1, <3>2, <3>3, <3>4, <3>5, <3>6, <3>7
  <2> QED BY <2>5, <2>6
<1> QED BY <1>1, CalmCorrect, PTL DEF Spec, NotForcedOut, StaysIn
================================================================================
