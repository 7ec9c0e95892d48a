--------------------------- MODULE AuthSession_proofs ---------------------------
(***************************************************************************)
(* Login sessions, for any number of tabs, sessions, refreshes, operations *)
(* and faults: types, the promise of BrowserSession, and what the Web Lock *)
(* does for the refresh cookie.                                            *)
(***************************************************************************)
EXTENDS AuthSession, TLAPS

\* No session has the name of none.
LEMMA SidFacts == NoSid \notin Sids /\ 1 \in Sids /\ NoCookie \in Tokens
BY AuthConstants DEF NoSid, Sids, NoCookie, Token, Tokens

\* Answers and empty requests have their types.
LEMMA AnswerFacts ==
    /\ NoAnswer \in Answers /\ NoAnswer.kind = "none" /\ NoAnswer.jar = "keep" /\ NoAnswer.tok.sid = NoSid
    /\ \A k \in {"mismatch", "denied", "down", "refused"} :
          /\ Failure(k) \in Answers /\ Failure(k).kind = k /\ Failure(k).jar = "keep"
          /\ Failure(k).tok.sid = NoSid
BY SidFacts DEF NoAnswer, Failure, Answer, Answers, NoCookie, Token

\* The same for NoReq.
LEMMA NoReqFacts ==
    /\ NoReq \in Requests /\ NoReq.kind = "none" /\ NoReq.at = "none" /\ NoReq.current = TRUE
    /\ NoReq.again = FALSE /\ NoReq.sid = NoSid /\ NoReq.ck = NoCookie /\ NoReq.av = 0
    /\ NoReq.ans = NoAnswer
BY SidFacts, AnswerFacts DEF NoReq, Requests

\* A page just loaded.
LEMMA FreshFacts ==
    /\ FreshTab \in TabStates /\ FreshTab.mem = NoSid /\ FreshTab.run = NoReq /\ FreshTab.op = NoReq
    /\ FreshTab.boot = "idle" /\ FreshTab.av = 0
BY NoReqFacts DEF FreshTab, TabStates

\* The fields of a request.
LEMMA RequestTypes ==
    ASSUME NEW q \in Requests
    PROVE  /\ q.ck \in Tokens /\ q.sid \in Sids \cup {NoSid} /\ q.av \in Nat /\ q.ans \in Answers
           /\ q.live \in BOOLEAN /\ q.current \in BOOLEAN /\ q.again \in BOOLEAN
           /\ q.ans.tok \in Tokens /\ q.ans.av \in Nat
           /\ q.ck.sid \in Sids \cup {NoSid} /\ q.ck.gen \in Nat
           /\ q.ans.tok.sid \in Sids \cup {NoSid} /\ q.ans.tok.gen \in Nat
BY DEF Requests, Answers, Tokens

\* The fields of a tab.
LEMMA TabTypes ==
    ASSUME NEW r \in TabStates
    PROVE  /\ r.run \in Requests /\ r.op \in Requests /\ r.mem \in Sids \cup {NoSid} /\ r.av \in Nat
           /\ r.live \in BOOLEAN
BY DEF TabStates

\* A request that is superseded, or moves on, is otherwise the same.
LEMMA SupersededFacts ==
    ASSUME NEW q \in Requests
    PROVE  LET p == [q EXCEPT !.current = FALSE]
           IN  /\ p \in Requests /\ p.current = FALSE /\ p.kind = q.kind /\ p.at = q.at
               /\ p.again = q.again /\ p.ck = q.ck /\ p.sid = q.sid /\ p.av = q.av
               /\ p.live = q.live /\ p.ans = q.ans
BY DEF Requests

\* The same for a request that goes to another step.
LEMMA MovedFacts ==
    ASSUME NEW q \in Requests,
           NEW a \in {"none", "lock", "joined", "req", "bumped", "rsp", "leave"}
    PROVE  LET p == [q EXCEPT !.at = a]
           IN  /\ p \in Requests /\ p.current = q.current /\ p.kind = q.kind /\ p.at = a
               /\ p.again = q.again /\ p.ck = q.ck /\ p.sid = q.sid /\ p.av = q.av
               /\ p.live = q.live /\ p.ans = q.ans
BY DEF Requests

\* And for one that is answered.
LEMMA RepliedFacts ==
    ASSUME NEW q \in Requests, NEW a \in Answers
    PROVE  LET p == [q EXCEPT !.at = "rsp", !.ans = a]
           IN  /\ p \in Requests /\ p.current = q.current /\ p.kind = q.kind /\ p.at = "rsp"
               /\ p.again = q.again /\ p.ck = q.ck /\ p.sid = q.sid /\ p.av = q.av
               /\ p.live = q.live /\ p.ans = a
BY DEF Requests

\* applyAuthBundle.
LEMMA BundleFacts ==
    ASSUME NEW r \in TabStates, NEW a \in Answers
    PROVE  LET b == Bundle(r, a)
           IN  /\ b \in TabStates /\ b.mem = a.tok.sid /\ b.av = a.av /\ b.live = TRUE
               /\ b.boot = "complete" /\ b.op = r.op /\ b.run = [r.run EXCEPT !.current = FALSE]
<1>1. [r.run EXCEPT !.current = FALSE] \in Requests /\ a.tok.sid \in Sids \cup {NoSid} /\ a.av \in Nat
  BY TabTypes, SupersededFacts DEF Answers, Tokens
<1>2. Bundle(r, a) = [r EXCEPT !.mem = a.tok.sid, !.av = a.av, !.live = TRUE, !.boot = "complete",
                              !.run = [r.run EXCEPT !.current = FALSE]]
  BY DEF Bundle, TabStates
<1> QED BY <1>1, <1>2 DEF TabStates

\* reset.
LEMMA ForgottenFacts ==
    ASSUME NEW r \in TabStates, NEW b \in {"idle", "checking", "complete"}
    PROVE  LET f == Forgotten(r, b)
           IN  /\ f \in TabStates /\ f.mem = NoSid /\ f.av = 0 /\ f.live = FALSE
               /\ f.boot = b /\ f.op = r.op /\ f.run = r.run
BY DEF Forgotten, TabStates

\* clearAuthentication.
LEMMA ClearedFacts ==
    ASSUME NEW r \in TabStates
    PROVE  LET c == Cleared(r)
           IN  /\ c \in TabStates /\ c.mem = NoSid /\ c.av = 0 /\ c.live = FALSE
               /\ c.boot = "complete" /\ c.op = r.op /\ c.run = [r.run EXCEPT !.current = FALSE]
<1> DEFINE f == Forgotten(r, "complete")
<1>1. /\ f \in TabStates /\ f.mem = NoSid /\ f.av = 0 /\ f.live = FALSE
      /\ f.boot = "complete" /\ f.op = r.op /\ f.run = r.run
  BY ForgottenFacts
<1>2. [r.run EXCEPT !.current = FALSE] \in Requests BY TabTypes, SupersededFacts
<1>3. Cleared(r) = [f EXCEPT !.run = [r.run EXCEPT !.current = FALSE]]
  BY <1>1 DEF Cleared, TabStates
<1> HIDE DEF f
<1> QED BY <1>1, <1>2, <1>3 DEF TabStates

\* A request that is sent now.
LEMMA SendingFacts ==
    ASSUME NEW r \in TabStates, NEW ck \in Tokens,
           NEW k \in {"refresh", "login", "logout", "api", "secure"}, NEW again \in BOOLEAN
    PROVE  LET q == Sending(r, ck, k, again)
           IN  /\ q \in Requests /\ q.kind = k /\ q.at = "req" /\ q.again = again /\ q.current = TRUE
               /\ q.ck = ck /\ q.sid = r.mem /\ q.av = r.av /\ q.live = r.live /\ q.ans = NoAnswer
BY TabTypes, NoReqFacts DEF Sending, Requests


\* refreshAuthentication starts a refresh unless one is in flight.
LEMMA RefreshFacts ==
    ASSUME NEW r \in TabStates, cookie \in Tokens
    PROVE  LET x == Refresh(r)
           IN  /\ x \in TabStates /\ x.mem = r.mem /\ x.av = r.av /\ x.live = r.live /\ x.boot = r.boot
               /\ x.op = r.op /\ x.run.at # "none"
               /\ \/ r.run.at # "none" /\ x.run = r.run
                  \/ r.run.at = "none" /\ ~HasLocks /\ x.run = Sending(r, cookie, "refresh", FALSE)
                  \/ /\ r.run.at = "none" /\ HasLocks /\ x.run.at = "lock" /\ x.run.kind = "refresh"
                     /\ x.run.current = TRUE /\ x.run.ck = NoCookie /\ x.run.sid = NoSid
                     /\ x.run.ans = NoAnswer
<1> DEFINE w == [NoReq EXCEPT !.kind = "refresh", !.at = "lock"]
<1>1. /\ w \in Requests /\ w.at = "lock" /\ w.kind = "refresh" /\ w.current = TRUE /\ w.ck = NoCookie
      /\ w.sid = NoSid /\ w.ans = NoAnswer
  BY NoReqFacts DEF Requests
<1> DEFINE q == Sending(r, cookie, "refresh", FALSE)
<1>2. q \in Requests /\ q.at = "req" BY TabTypes, NoReqFacts DEF Sending, Requests
<1> HIDE DEF w, q
<1>3. Refresh(r) = IF r.run.at # "none" THEN r ELSE IF HasLocks THEN [r EXCEPT !.run = w] ELSE [r EXCEPT !.run = q]
  BY DEF Refresh, w, q
<1> QED BY <1>1, <1>2, <1>3 DEF TabStates, q

\* The caller of a refresh that has settled.
LEMMA ContinueFacts ==
    ASSUME NEW r \in TabStates, NEW ck \in Tokens, OpShape(r), NEW outcome
    PROVE  LET x == Continue(r, ck, outcome)
           IN  /\ x \in TabStates /\ x.mem = r.mem /\ x.av = r.av /\ x.live = r.live /\ x.boot = r.boot
               /\ x.run = r.run
               /\ \/ r.op.at # "joined" /\ x.op = r.op
                  \/ /\ r.op.at = "joined" /\ x.op = Sending(r, ck, r.op.kind, TRUE)
                     /\ outcome = "authenticated" \/ r.op.kind = "secure"
                  \/ /\ r.op.at = "joined" /\ x.op = [r.op EXCEPT !.at = "leave"]
                     /\ outcome \in {"anonymous", "outOfSync"}
                  \/ r.op.at = "joined" /\ x.op = NoReq
<1> DEFINE q == Sending(r, ck, r.op.kind, TRUE)
           p == [r.op EXCEPT !.at = "leave"]
<1>1. r.op.at = "joined" => q \in Requests BY TabTypes, NoReqFacts DEF OpShape, Sending, Requests
<1>2. p \in Requests BY TabTypes, MovedFacts
<1>3. NoReq \in Requests BY NoReqFacts
<1>4. [r EXCEPT !.op.at = "leave"] = [r EXCEPT !.op = p] BY DEF TabStates
<1> HIDE DEF q, p
<1>5. Continue(r, ck, outcome) = IF r.op.at # "joined" THEN r
                             ELSE IF outcome = "authenticated" \/ (r.op.kind = "secure" /\ r.live)
                                  THEN [r EXCEPT !.op = q]
                             ELSE IF r.op.kind = "api" /\ outcome \in {"anonymous", "outOfSync"}
                                  THEN [r EXCEPT !.op = p]
                             ELSE [r EXCEPT !.op = NoReq]
  BY <1>4 DEF Continue, q
<1> QED BY <1>1, <1>2, <1>3, <1>5 DEF TabStates, q, p
--------------------------------------------------------------------------------
(* The server *)

\* What may happen to the row of a session.
Moves(a, b) ==
    /\ a.st # "none" => b.st # "none"
    /\ a.st \in {"revoked", "reused"} => b.st = a.st
    /\ a.av <= b.av /\ a.gen <= b.gen

\* RotateUserSessionRefresh, of the row.
LEMMA TurnedFacts ==
    ASSUME NEW x \in Rows
    PROVE  LET y == [x EXCEPT !.gen = x.gen + 1, !.grace = TRUE]
           IN  y \in Rows /\ y.st = x.st /\ y.gen = x.gen + 1 /\ y.av = x.av
<1> DEFINE g == x.gen + 1
           y == [x EXCEPT !.gen = g, !.grace = TRUE]
<1>1. g \in Nat /\ x.gen \in Nat BY DEF Rows
<1> HIDE DEF g
<1>2. y.st = x.st /\ y.gen = g /\ y.av = x.av BY DEF Rows
<1>3. y \in Rows BY <1>1 DEF Rows
<1> QED BY <1>2, <1>3 DEF g

\* RefreshLoginSession.
LEMMA RefreshServed ==
    ASSUME row \in [Sids -> Rows], av \in Nat, NEW q \in Requests
    PROVE  LET e == ServeRefresh(q)
               s == q.ck.sid
           IN  /\ e.av = av /\ e.row \in [Sids -> Rows] /\ e.ans \in Answers
               /\ e.ans.kind \in {"ok", "mismatch", "denied"}
               /\ e.ans.kind = "ok" <=> e.ans.jar = "set"
               /\ e.ans.kind = "ok" =>
                     /\ s # NoSid /\ e.ans.tok = Token(s, e.row[s].gen) /\ e.ans.av = e.row[s].av
                     /\ q.sid \in {NoSid, s} /\ row[s].st = "active" /\ e.row[s].st = "active"
               /\ e.ans.kind # "ok" => e.ans.tok.sid = NoSid
               /\ e.ans.kind = "mismatch" => q.sid # s /\ e.row = row
               /\ e.ans.kind = "denied" /\ s # NoSid =>
                     e.row[s].st # "active" \/ q.ck.gen + 1 < row[s].gen
               /\ \A x \in Sids \ {s} : e.row[x] = row[x]
               /\ s # NoSid =>
                     /\ e.row[s].av = row[s].av
                     /\ \/ e.row[s].st = row[s].st
                        \/ row[s].st = "active" /\ e.row[s].st = "revoked"
                        \/ row[s].st = "active" /\ e.row[s].st = "reused" /\ q.ck.gen # row[s].gen
                     /\ \/ e.row[s].gen = row[s].gen
                        \/ q.ck.gen = row[s].gen /\ e.row[s].gen = row[s].gen + 1 /\ e.ans.kind = "ok"
<1> DEFINE s == q.ck.sid
           gone == Answer("denied", "clear", NoCookie, 0)
           no == Effect(row, av, gone)
           dead(why) == Effect([row EXCEPT ![s].st = why], av, gone)
           turned == [row EXCEPT ![s].gen = @ + 1, ![s].grace = TRUE]
           ok(rw) == Effect(rw, av, Answer("ok", "set", Token(s, rw[s].gen), rw[s].av))
<1>1. s \in Sids \cup {NoSid} /\ q.ck.gen \in Nat BY RequestTypes
<1>2. gone \in Answers /\ gone.kind = "denied" /\ gone.jar = "clear" /\ gone.tok.sid = NoSid
  BY SidFacts DEF Answer, Answers, NoCookie, Token
<1>3. ASSUME s # NoSid PROVE s \in Sids /\ row[s] \in Rows BY <1>1, <1>3
<1>4. ASSUME s # NoSid, NEW why \in {"revoked", "reused"}
      PROVE  /\ [row EXCEPT ![s].st = why] \in [Sids -> Rows]
             /\ [row EXCEPT ![s].st = why][s].st = why
             /\ [row EXCEPT ![s].st = why][s].gen = row[s].gen /\ [row EXCEPT ![s].st = why][s].av = row[s].av
             /\ \A x \in Sids \ {s} : [row EXCEPT ![s].st = why][x] = row[x]
  BY <1>3, <1>4 DEF Rows
<1>5. ASSUME s # NoSid
      PROVE  /\ turned \in [Sids -> Rows] /\ turned[s].st = row[s].st
             /\ turned[s].gen = row[s].gen + 1 /\ turned[s].av = row[s].av
             /\ \A x \in Sids \ {s} : turned[x] = row[x]
  <2> DEFINE new == [row[s] EXCEPT !.gen = row[s].gen + 1, !.grace = TRUE]
  <2>1. new \in Rows /\ new.st = row[s].st /\ new.gen = row[s].gen + 1 /\ new.av = row[s].av
    BY <1>3, <1>5, TurnedFacts
  <2>2. turned = [row EXCEPT ![s] = new] BY <1>3, <1>5 DEF Rows
  <2> HIDE DEF new, turned
  <2> QED BY <1>3, <1>5, <2>1, <2>2
<1>6. ASSUME s # NoSid, NEW rw \in [Sids -> Rows]
      PROVE  LET a == Answer("ok", "set", Token(s, rw[s].gen), rw[s].av)
             IN  a \in Answers /\ a.kind = "ok" /\ a.jar = "set" /\ a.tok = Token(s, rw[s].gen) /\ a.av = rw[s].av
  BY <1>3, <1>6 DEF Answer, Answers, Token, Tokens, Rows
<1> HIDE DEF gone
<1>7. ServeRefresh(q) = IF s = NoSid THEN no
        ELSE IF q.sid \notin {NoSid, s} THEN Effect(row, av, Failure("mismatch"))
        ELSE IF ~Active(s) THEN no
        ELSE IF row[s].av # av THEN dead("revoked")
        ELSE IF Rotates(q) THEN ok(turned)
        ELSE IF q.ck.gen + 1 < row[s].gen THEN no
        ELSE IF row[s].grace THEN ok(row)
        ELSE dead("reused")
  BY DEF ServeRefresh, gone
<1>8. CASE ServeRefresh(q) = no /\ (s = NoSid \/ ~Active(s) \/ q.ck.gen + 1 < row[s].gen)
  BY <1>2, <1>8 DEF Effect, Active
<1>9. CASE ServeRefresh(q) = Effect(row, av, Failure("mismatch")) /\ q.sid # s
  BY <1>9, AnswerFacts DEF Effect
<1>10. CASE s # NoSid /\ Active(s) /\ ServeRefresh(q) = dead("revoked")
  BY <1>2, <1>4, <1>10 DEF Effect, Active
<1>11. CASE s # NoSid /\ Active(s) /\ ServeRefresh(q) = dead("reused") /\ ~Rotates(q)
  BY <1>2, <1>4, <1>11 DEF Effect, Active, Rotates
<1>12. CASE s # NoSid /\ Active(s) /\ ServeRefresh(q) = ok(turned) /\ Rotates(q) /\ q.sid \in {NoSid, s}
  <2> DEFINE a == Answer("ok", "set", Token(s, turned[s].gen), turned[s].av)
  <2>1. turned \in [Sids -> Rows] BY <1>5, <1>12
  <2>2. /\ ServeRefresh(q).row = turned /\ ServeRefresh(q).av = av /\ ServeRefresh(q).ans = a
    BY <1>12 DEF Effect
  <2>3. /\ a \in Answers /\ a.kind = "ok" /\ a.jar = "set"
        /\ a.tok = Token(s, turned[s].gen) /\ a.av = turned[s].av
    BY <1>6, <1>12, <2>1
  <2>4. row[s].st = "active" /\ q.ck.gen = row[s].gen BY <1>12 DEF Active, Rotates
  <2> HIDE DEF turned, a
  <2> QED BY <1>3, <1>5, <1>12, <2>1, <2>2, <2>3, <2>4
<1>13. CASE s # NoSid /\ Active(s) /\ ServeRefresh(q) = ok(row) /\ q.sid \in {NoSid, s}
  <2> DEFINE a == Answer("ok", "set", Token(s, row[s].gen), row[s].av)
  <2>1. /\ ServeRefresh(q).row = row /\ ServeRefresh(q).av = av /\ ServeRefresh(q).ans = a
    BY <1>13 DEF Effect
  <2>2. /\ a \in Answers /\ a.kind = "ok" /\ a.jar = "set"
        /\ a.tok = Token(s, row[s].gen) /\ a.av = row[s].av
    BY <1>6, <1>13
  <2>3. row[s].st = "active" BY <1>13 DEF Active
  <2> HIDE DEF a
  <2> QED BY <1>3, <1>13, <2>1, <2>2, <2>3
<1> QED BY <1>7, <1>8, <1>9, <1>10, <1>11, <1>12, <1>13


\* createLoginSession.
LEMMA LoginServed ==
    ASSUME row \in [Sids -> Rows], av \in Nat, \A s \in Sids : row[s].av <= av
    PROVE  LET e == ServeLogin
           IN  /\ e.av = av /\ e.row \in [Sids -> Rows] /\ e.ans \in Answers
               /\ \/ e.row = row /\ e.ans.kind = "refused" /\ e.ans.jar = "keep" /\ e.ans.tok.sid = NoSid
                  \/ \E s \in Sids :
                        /\ row[s].st = "none" /\ e.row[s].st = "active"
                        /\ e.row[s].gen = row[s].gen /\ e.row[s].av = av
                        /\ \A x \in Sids \ {s} : e.row[x] = row[x]
                        /\ e.ans.kind = "ok" /\ e.ans.jar = "set" /\ e.ans.tok = Token(s, 0) /\ e.ans.av = av
<1> DEFINE unused == {s \in Sids : row[s].st = "none"}
           s == CHOOSE m \in unused : TRUE
           a == Answer("ok", "set", Token(s, 0), av)
           rw == [row EXCEPT ![s] = [@ EXCEPT !.st = "active", !.av = av]]
<1>1. ServeLogin = IF unused = {} THEN Effect(row, av, Failure("refused")) ELSE Effect(rw, av, a)
  BY DEF ServeLogin
<1>2. CASE unused = {}
  BY <1>1, <1>2, AnswerFacts DEF Effect
<1>3. CASE unused # {}
  <2>1. s \in Sids /\ row[s].st = "none" /\ row[s] \in Rows BY <1>3
  <2> HIDE DEF s
  <2>2. a \in Answers /\ a.kind = "ok" /\ a.jar = "set" /\ a.tok = Token(s, 0) /\ a.av = av
    BY <2>1 DEF Answer, Answers, Token, Tokens
  <2>3. /\ rw \in [Sids -> Rows] /\ rw[s].st = "active" /\ rw[s].gen = row[s].gen /\ rw[s].av = av
        /\ \A x \in Sids \ {s} : rw[x] = row[x]
    BY <2>1 DEF Rows
  <2> HIDE DEF a, rw
  <2> QED BY <1>1, <1>3, <2>1, <2>2, <2>3 DEF Effect
<1> QED BY <1>2, <1>3

\* AuthLogout.
LEMMA LogoutServed ==
    ASSUME row \in [Sids -> Rows], av \in Nat, NEW q \in Requests
    PROVE  LET e == ServeLogout(q)
           IN  /\ e.av = av /\ e.row \in [Sids -> Rows] /\ e.ans \in Answers
               /\ e.ans.kind \in {"ok", "mismatch"} /\ e.ans.jar # "set" /\ e.ans.tok.sid = NoSid
               /\ \A x \in Sids : /\ e.row[x].gen = row[x].gen /\ e.row[x].av = row[x].av
                                  /\ \/ e.row[x].st = row[x].st
                                     \/ row[x].st = "active" /\ e.row[x].st = "revoked"
<1> DEFINE revoke(x) == [row EXCEPT ![x].st = IF @ = "active" THEN "revoked" ELSE @]
           Good(rw) == /\ rw \in [Sids -> Rows]
                       /\ \A x \in Sids : /\ rw[x].gen = row[x].gen /\ rw[x].av = row[x].av
                                          /\ \/ rw[x].st = row[x].st
                                             \/ row[x].st = "active" /\ rw[x].st = "revoked"
           done(rw, jar) == Effect(rw, av, Answer("ok", jar, NoCookie, 0))
<1>1. ASSUME NEW y PROVE Good(revoke(y))
  <2>1. CASE y \in Sids BY <2>1 DEF Rows
  <2>2. CASE y \notin Sids BY <2>2
  <2> QED BY <2>1, <2>2
<1>2. Good(row) BY DEF Rows
<1>3. ASSUME NEW jar \in {"keep", "clear"}
      PROVE  LET a == Answer("ok", jar, NoCookie, 0)
             IN  a \in Answers /\ a.kind = "ok" /\ a.jar # "set" /\ a.tok.sid = NoSid
  BY <1>3, SidFacts DEF Answer, Answers, NoCookie, Token
<1> HIDE DEF revoke
<1>4. \/ ServeLogout(q) = Effect(row, av, Failure("mismatch"))
      \/ \E jar \in {"keep", "clear"} :
            ServeLogout(q) = done(row, jar) \/ \E y : ServeLogout(q) = done(revoke(y), jar)
  BY DEF ServeLogout, revoke
<1>5. CASE ServeLogout(q) = Effect(row, av, Failure("mismatch"))
  BY <1>2, <1>5, AnswerFacts DEF Effect
<1>6. ASSUME NEW jar \in {"keep", "clear"}, NEW rw, Good(rw), ServeLogout(q) = done(rw, jar)
      PROVE  LET e == ServeLogout(q)
             IN  /\ e.av = av /\ Good(e.row) /\ e.ans \in Answers
                 /\ e.ans.kind \in {"ok", "mismatch"} /\ e.ans.jar # "set" /\ e.ans.tok.sid = NoSid
  BY <1>3, <1>6 DEF Effect
<1> QED BY <1>1, <1>2, <1>4, <1>5, <1>6

\* ValidateLoginSession.
LEMMA ApiServed ==
    ASSUME NEW q
    PROVE  LET e == ServeApi(q)
           IN  /\ e.av = av /\ e.row = row /\ e.ans \in Answers /\ e.ans.kind \in {"ok", "denied"}
               /\ e.ans.jar = "keep" /\ e.ans.tok.sid = NoSid
               /\ e.ans.kind = "denied" <=> ~TokenAccepted(q)
<1> DEFINE a == Answer("ok", "keep", NoCookie, 0)
<1>1. a \in Answers /\ a.kind = "ok" /\ a.jar = "keep" /\ a.tok.sid = NoSid
  BY SidFacts DEF Answer, Answers, NoCookie, Token
<1> HIDE DEF a
<1>2. ServeApi(q) = Effect(row, av, IF TokenAccepted(q) THEN a ELSE Failure("denied")) BY DEF ServeApi, a
<1> QED BY <1>1, <1>2, AnswerFacts DEF Effect

\* advanceCurrentSessionToVersion.
LEMMA AdvanceServed ==
    ASSUME row \in [Sids -> Rows], av \in Nat, NEW q \in Requests, q.sid # NoSid
    PROVE  LET e == AdvanceSession(q)
           IN  /\ e.av = av /\ e.row \in [Sids -> Rows] /\ e.ans \in Answers
               /\ e.ans.jar = "keep" /\ e.ans.kind \in {"ok", "denied"}
               /\ \/ e.row = row /\ e.ans.tok.sid = NoSid
                  \/ e.ans.tok.sid = q.sid /\ e.ans.av = q.av + 1 /\ e.row[q.sid].av = q.av + 1 /\ row[q.sid].st = "active"
               /\ \A x \in Sids : /\ e.row[x].gen = row[x].gen
                                  /\ \/ e.row[x].av = row[x].av
                                     \/ x = q.sid /\ row[x].av = q.av /\ e.row[x].av = q.av + 1
                                  /\ \/ e.row[x].st = row[x].st
                                     \/ row[x].st = "active" /\ e.row[x].st = "revoked"
<1> DEFINE rw == [s \in Sids |->
                    IF s = q.sid THEN [row[s] EXCEPT !.av = q.av + 1]
                    ELSE [row[s] EXCEPT !.st = IF @ = "active" THEN "revoked" ELSE @]]
           a == Answer("ok", "keep", Token(q.sid, 0), q.av + 1)
<1>1. q.sid \in Sids /\ q.av \in Nat BY RequestTypes
<1>2. a \in Answers /\ a.kind = "ok" /\ a.jar = "keep" /\ a.tok.sid = q.sid /\ a.av = q.av + 1
  BY <1>1 DEF Answer, Answers, Token, Tokens
<1>3. \A x \in Sids : /\ rw[x] \in Rows /\ rw[x].gen = row[x].gen
                      /\ x = q.sid => rw[x].av = q.av + 1 /\ rw[x].st = row[x].st
                      /\ x # q.sid => /\ rw[x].av = row[x].av
                                      /\ \/ rw[x].st = row[x].st
                                         \/ row[x].st = "active" /\ rw[x].st = "revoked"
  BY <1>1 DEF Rows
<1>4. rw \in [Sids -> Rows] BY <1>3
<1> HIDE DEF a, rw
<1>5. AdvanceSession(q) = IF Active(q.sid) /\ row[q.sid].av = q.av THEN Effect(rw, av, a)
                          ELSE Effect(row, av, Failure("denied"))
  BY DEF AdvanceSession, rw, a
<1>6. CASE Active(q.sid) /\ row[q.sid].av = q.av
  BY <1>1, <1>2, <1>3, <1>4, <1>5, <1>6 DEF Effect, Active
<1>7. CASE ~(Active(q.sid) /\ row[q.sid].av = q.av)
  BY <1>5, <1>7, AnswerFacts DEF Effect
<1> QED BY <1>6, <1>7


\* A request that the server may have to serve.
Servable(q) ==
    /\ q \in Requests /\ Pending(q) /\ ReqKnown(q) /\ q.kind # "none"
    /\ q.at = "bumped" => q.kind = "secure"

\* What serving a request does to sessions, whatever the request is.
LEMMA ServeFacts ==
    ASSUME row \in [Sids -> Rows], av \in Nat, \A s \in Sids : row[s].av <= av, NEW q, Servable(q)
    PROVE  LET e == Serve(q)
           IN  /\ e.row \in [Sids -> Rows] /\ e.av \in Nat /\ e.ans \in Answers /\ av <= e.av
               /\ \A s \in Sids : /\ Moves(row[s], e.row[s]) /\ e.row[s].av <= e.av
                                  /\ e.row[s].st = "none" => e.row[s].gen = row[s].gen
                                  /\ q.kind # "refresh" => e.row[s].gen = row[s].gen
                                  /\ e.row[s].st = "reused" /\ q.kind # "refresh" => row[s].st = "reused"
               /\ e.ans.tok.sid # NoSid =>
                     e.row[e.ans.tok.sid].st # "none" /\ e.ans.av <= e.row[e.ans.tok.sid].av
               /\ e.ans = NoAnswer => q.kind = "secure" /\ q.sid # NoSid /\ q.av < e.av
               /\ q.kind # "secure" => e.av = av
               /\ e.ans.jar = "set" => q.kind \in {"refresh", "login"}
               /\ \/ \A s \in Sids : row[s].st = "none" => e.row[s].st = "none"
                  \/ q.kind = "login" /\ \E s \in Sids : /\ row[s].st = "none" /\ e.row[s].st = "active"
                                                        /\ \A x \in Sids \ {s} : e.row[x] = row[x]
<1> USE DEF Servable
<1>1. /\ q.sid \in Sids \cup {NoSid} /\ q.ck.sid \in Sids \cup {NoSid} /\ q.av \in Nat /\ NoSid \notin Sids
      /\ q.kind \in {"refresh", "login", "logout", "api", "secure"}
  BY RequestTypes, SidFacts DEF Requests
<1>2. \A s \in Sids : row[s] \in Rows /\ row[s].av \in Nat /\ row[s].gen \in Nat BY DEF Rows
<1>3. CASE q.kind = "refresh"
  <2> DEFINE e == ServeRefresh(q)
             s == q.ck.sid
  <2>1. /\ e.av = av /\ e.row \in [Sids -> Rows] /\ e.ans \in Answers
        /\ e.ans.kind # "none"
        /\ e.ans.kind = "ok" => s # NoSid /\ e.ans.tok = Token(s, e.row[s].gen) /\ e.ans.av = e.row[s].av
                                /\ e.row[s].st = "active"
        /\ e.ans.kind # "ok" => e.ans.tok.sid = NoSid
        /\ \A x \in Sids \ {s} : e.row[x] = row[x]
        /\ s # NoSid =>
              /\ e.row[s].av = row[s].av
              /\ \/ e.row[s].st = row[s].st
                 \/ row[s].st = "active" /\ e.row[s].st \in {"revoked", "reused"}
              /\ e.row[s].gen = row[s].gen \/ e.row[s].gen = row[s].gen + 1
    BY RefreshServed
  <2>2. s # NoSid => row[s].st # "none" BY DEF ReqKnown, Known, Issued
  <2>3. Serve(q) = e BY <1>3 DEF Serve
  <2>4. e.ans # NoAnswer BY <2>1, AnswerFacts
  <2>5. e.ans.tok.sid # NoSid => e.ans.tok.sid = s /\ s \in Sids /\ e.ans.av = e.row[s].av /\ e.row[s].st = "active"
    BY <1>1, <2>1 DEF Token
  <2> HIDE DEF e
  <2>6. \A x \in Sids : Moves(row[x], e.row[x]) /\ e.row[x].av <= e.av /\ (e.row[x].st = "none" => e.row[x].gen = row[x].gen)
    BY <1>1, <1>2, <2>1, <2>2 DEF Moves
  <2>7. e.ans.av <= e.ans.av BY <2>1 DEF Answers
  <2>8. \A x \in Sids : row[x].st = "none" => e.row[x].st = "none" BY <1>1, <2>1, <2>2
  <2> QED BY <1>3, <2>1, <2>3, <2>4, <2>5, <2>6, <2>7, <2>8
<1>4. CASE q.kind = "login"
  <2> DEFINE e == ServeLogin
  <2>1. /\ e.av = av /\ e.row \in [Sids -> Rows] /\ e.ans \in Answers
        /\ \/ e.row = row /\ e.ans.kind = "refused" /\ e.ans.jar = "keep" /\ e.ans.tok.sid = NoSid
           \/ \E s \in Sids :
                 /\ row[s].st = "none" /\ e.row[s].st = "active"
                 /\ e.row[s].gen = row[s].gen /\ e.row[s].av = av
                 /\ \A x \in Sids \ {s} : e.row[x] = row[x]
                 /\ e.ans.kind = "ok" /\ e.ans.jar = "set" /\ e.ans.tok = Token(s, 0) /\ e.ans.av = av
    BY LoginServed
  <2>2. Serve(q) = e BY <1>4 DEF Serve
  <2> HIDE DEF e
  <2>3. e.ans # NoAnswer BY <2>1, AnswerFacts
  <2>4. CASE e.row = row /\ e.ans.tok.sid = NoSid /\ e.ans.jar = "keep"
    BY <1>2, <1>4, <2>1, <2>2, <2>3, <2>4 DEF Moves
  <2>5. CASE \E s \in Sids :
                 /\ row[s].st = "none" /\ e.row[s].st = "active"
                 /\ e.row[s].gen = row[s].gen /\ e.row[s].av = av
                 /\ \A x \in Sids \ {s} : e.row[x] = row[x]
                 /\ e.ans.tok = Token(s, 0) /\ e.ans.av = av
    BY <1>2, <1>4, <2>1, <2>2, <2>3, <2>5 DEF Moves, Token
  <2> QED BY <2>1, <2>4, <2>5
<1>5. CASE q.kind = "logout"
  <2> DEFINE e == ServeLogout(q)
  <2>1. /\ e.av = av /\ e.row \in [Sids -> Rows] /\ e.ans \in Answers
        /\ e.ans.kind \in {"ok", "mismatch"} /\ e.ans.jar # "set" /\ e.ans.tok.sid = NoSid
        /\ \A x \in Sids : /\ e.row[x].gen = row[x].gen /\ e.row[x].av = row[x].av
                           /\ \/ e.row[x].st = row[x].st
                              \/ row[x].st = "active" /\ e.row[x].st = "revoked"
    BY LogoutServed
  <2>2. Serve(q) = e BY <1>5 DEF Serve
  <2> HIDE DEF e
  <2> QED BY <1>2, <1>5, <2>1, <2>2, AnswerFacts DEF Moves
<1>6. CASE q.kind = "api" \/ (q.kind = "secure" /\ q.at # "bumped" /\ ~TokenAccepted(q))
  <2> DEFINE e == ServeApi(q)
  <2>1. /\ e.av = av /\ e.row = row /\ e.ans \in Answers /\ e.ans.kind \in {"ok", "denied"}
        /\ e.ans.jar = "keep" /\ e.ans.tok.sid = NoSid
    BY ApiServed
  <2>2. Serve(q) = e BY <1>6 DEF Serve
  <2> HIDE DEF e
  <2> QED BY <1>2, <1>6, <2>1, <2>2, AnswerFacts DEF Moves
<1>7. CASE q.kind = "secure" /\ q.at = "bumped"
  <2> DEFINE e == AdvanceSession(q)
  <2>0. q.sid # NoSid /\ q.av < av BY <1>7 DEF ReqKnown
  <2>1. /\ e.av = av /\ e.row \in [Sids -> Rows] /\ e.ans \in Answers
        /\ e.ans.jar = "keep" /\ e.ans.kind \in {"ok", "denied"}
        /\ \/ e.row = row /\ e.ans.tok.sid = NoSid
           \/ e.ans.tok.sid = q.sid /\ e.ans.av = q.av + 1 /\ e.row[q.sid].av = q.av + 1 /\ row[q.sid].st = "active"
        /\ \A x \in Sids : /\ e.row[x].gen = row[x].gen
                           /\ \/ e.row[x].av = row[x].av
                              \/ x = q.sid /\ row[x].av = q.av /\ e.row[x].av = q.av + 1
                           /\ \/ e.row[x].st = row[x].st
                              \/ row[x].st = "active" /\ e.row[x].st = "revoked"
    BY <2>0, AdvanceServed
  <2>2. Serve(q) = e BY <1>7 DEF Serve
  <2> HIDE DEF e
  <2>3. \A x \in Sids : Moves(row[x], e.row[x]) /\ e.row[x].av <= e.av
    BY <1>1, <1>2, <2>0, <2>1 DEF Moves
  <2>4. e.ans # NoAnswer BY <2>1, AnswerFacts
  <2>5. e.ans.tok.sid # NoSid => e.row[e.ans.tok.sid].st # "none" /\ e.ans.av <= e.row[e.ans.tok.sid].av
    BY <1>1, <2>0, <2>1
  <2> QED BY <1>7, <2>1, <2>2, <2>3, <2>4, <2>5
<1>8. CASE q.kind = "secure" /\ q.at # "bumped" /\ TokenAccepted(q)
  <2>1. Serve(q) = BumpAuthVersion BY <1>8 DEF Serve
  <2>2. /\ Serve(q).row = row /\ Serve(q).av = av + 1 /\ Serve(q).ans = NoAnswer
    BY <2>1 DEF BumpAuthVersion, Effect
  <2>3. q.sid # NoSid /\ q.av = av BY <1>8 DEF TokenAccepted
  <2> QED BY <1>2, <1>8, <2>2, <2>3, AnswerFacts DEF Moves
<1> QED BY <1>1, <1>3, <1>4, <1>5, <1>6, <1>7, <1>8

\* The request after that.
LEMMA AnsweredFacts ==
    ASSUME row \in [Sids -> Rows], av \in Nat, \A s \in Sids : row[s].av <= av, NEW q, Servable(q)
    PROVE  LET p == Answered(q)
           IN  /\ p \in Requests /\ p.current = q.current /\ p.kind = q.kind /\ p.again = q.again
               /\ p.ck = q.ck /\ p.sid = q.sid /\ p.av = q.av /\ p.live = q.live
               /\ \/ p.at = "bumped" /\ Serve(q).ans = NoAnswer
                  \/ p.at = "rsp" /\ p.ans = Serve(q).ans /\ Serve(q).ans # NoAnswer
<1> DEFINE a == Serve(q).ans
<1>1. a \in Answers BY ServeFacts
<1>2. q \in Requests BY DEF Servable
<1>3. Answered(q) = IF a = NoAnswer THEN [q EXCEPT !.at = "bumped"] ELSE [q EXCEPT !.at = "rsp", !.ans = a]
  BY DEF Answered
<1> DEFINE b == [q EXCEPT !.at = "bumped"]
           d == [q EXCEPT !.at = "rsp", !.ans = a]
<1>4. /\ b \in Requests /\ b.current = q.current /\ b.kind = q.kind /\ b.at = "bumped"
      /\ b.again = q.again /\ b.ck = q.ck /\ b.sid = q.sid /\ b.av = q.av /\ b.live = q.live
  BY <1>2, MovedFacts
<1>5. /\ d \in Requests /\ d.current = q.current /\ d.kind = q.kind /\ d.at = "rsp" /\ d.ans = a
      /\ d.again = q.again /\ d.ck = q.ck /\ d.sid = q.sid /\ d.av = q.av /\ d.live = q.live
  BY <1>1, <1>2, RepliedFacts
<1> HIDE DEF b, d
<1>6. CASE a = NoAnswer
  <2>1. Answered(q) = b BY <1>3, <1>6 DEF b
  <2> QED BY <1>4, <1>6, <2>1
<1>7. CASE a # NoAnswer
  <2>1. Answered(q) = d BY <1>3, <1>7 DEF d
  <2> QED BY <1>5, <1>7, <2>1
<1> QED BY <1>6, <1>7

--------------------------------------------------------------------------------
(* Whatever the browser can do *)

\* What ACore says of one tab that has signed out of the sessions in L.
TabGood(r, L) ==
    /\ r \in TabStates /\ RunShape(r) /\ OpShape(r)
    /\ Known(r.mem, r.av) /\ ReqKnown(r.run) /\ ReqKnown(r.op)
    /\ r.run.at = "rsp" /\ r.run.current /\ r.run.ans.kind = "ok" => r.run.ans.tok.sid \notin L
    /\ r.op.at = "rsp" /\ r.op.ans.jar = "set" => r.op.ans.tok.sid \notin L

\* ... and of one request whose page is gone.
OrphanGood(q) ==
    /\ q \in Requests /\ ReqKnown(q) /\ Pending(q)
    /\ q.kind # "none" /\ (q.kind = "refresh" => q.at = "req")

\* What the server knows it does not forget.
LEMMA KnownGrows ==
    ASSUME row \in [Sids -> Rows], row' \in [Sids -> Rows], av \in Nat, av' \in Nat, av <= av',
           \A s \in Sids : Moves(row[s], row'[s]),
           NEW q \in Requests, ReqKnown(q)
    PROVE  ReqKnown(q)'
<1>1. \A s \in Sids : row[s].av \in Nat /\ row'[s].av \in Nat BY DEF Rows
<1>2. ASSUME NEW s \in Sids \cup {NoSid}, NEW v \in Nat, Known(s, v) PROVE Known(s, v)'
  BY <1>1, <1>2 DEF Known, Issued, Moves
<1>3. /\ q.sid \in Sids \cup {NoSid} /\ q.ck.sid \in Sids \cup {NoSid}
      /\ q.ans.tok.sid \in Sids \cup {NoSid} /\ q.ans.av \in Nat /\ q.av \in Nat
  BY RequestTypes
<1>4. Known(q.sid, q.av)' BY <1>2, <1>3 DEF ReqKnown
<1>5. Known(q.ck.sid, 0)' BY <1>2, <1>3 DEF ReqKnown
<1>6. q.at = "rsp" => Known(q.ans.tok.sid, q.ans.av)' BY <1>2, <1>3 DEF ReqKnown
<1> QED BY <1>3, <1>4, <1>5, <1>6 DEF ReqKnown

\* The same for a tab.
LEMMA TabGoodGrows ==
    ASSUME row \in [Sids -> Rows], row' \in [Sids -> Rows], av \in Nat, av' \in Nat, av <= av',
           \A s \in Sids : Moves(row[s], row'[s]),
           NEW r, NEW L, TabGood(r, L)
    PROVE  TabGood(r, L)'
<1>1. r \in TabStates /\ r.run \in Requests /\ r.op \in Requests /\ r.mem \in Sids \cup {NoSid} /\ r.av \in Nat
  BY TabTypes DEF TabGood
<1>2. ReqKnown(r.run)' BY <1>1, KnownGrows DEF TabGood
<1>3. ReqKnown(r.op)' BY <1>1, KnownGrows DEF TabGood
<1>4. Known(r.mem, r.av)' BY <1>1 DEF TabGood, Known, Issued, Moves, Rows
<1>5. RunShape(r)' /\ OpShape(r)' BY DEF TabGood, RunShape, OpShape
<1> QED BY <1>1, <1>2, <1>3, <1>4, <1>5 DEF TabGood

\* ACore, tab by tab.
LEMMA ACoreFacts ==
    ASSUME ACore
    PROVE  /\ TypeOK
           /\ \A t \in Tabs : tab[t] \in TabStates /\ TabGood(tab[t], left[t])
           /\ \A q \in orphans : OrphanGood(q)
           /\ \A s \in Sids : row[s].av <= av /\ (Issued(s) \/ row[s].gen = 0)
           /\ Known(cookie.sid, 0)
           /\ \A t \in Tabs : left[t] \subseteq Sids /\ \A s \in left[t] : row[s].st \in {"revoked", "reused"}
<1>1. ASSUME NEW t \in Tabs PROVE TabGood(tab[t], left[t])
  BY <1>1 DEF ACore, TypeOK, TokensKnown, LeftIsRevoked, TabGood
<1>2. ASSUME NEW q \in orphans PROVE OrphanGood(q)
  BY <1>2 DEF ACore, TypeOK, TokensKnown, OrphanGood
<1> QED BY <1>1, <1>2 DEF ACore, TypeOK, TokensKnown, LeftIsRevoked

\* A step that changes some tabs, to good ones, and lets the sessions grow.
LEMMA AStep ==
    ASSUME ACore,
           row' \in [Sids -> Rows], av' \in Nat, av <= av', cookie' \in Tokens, Known(cookie.sid, 0)',
           \A s \in Sids : /\ Moves(row[s], row'[s]) /\ row'[s].av <= av'
                           /\ row'[s].st = "none" => row'[s].gen = row[s].gen,
           tab' \in [Tabs -> TabStates], left' \in [Tabs -> SUBSET Sids],
           \A t \in Tabs : \/ tab'[t] = tab[t] /\ left'[t] = left[t]
                           \/ /\ TabGood(tab[t], left[t])'
                              /\ \A s \in left'[t] : row'[s].st \in {"revoked", "reused"},
           \A q \in orphans' : q \in orphans \/ OrphanGood(q)',
           chan' \in [Tabs -> Seq(Events)], lock' \subseteq Tabs, \A t, u \in lock' : t = u,
           lost' \in BOOLEAN, runs' \in Nat, ops' \in Nat, faults' \in Nat
    PROVE  ACore'
<1>1. /\ row \in [Sids -> Rows] /\ av \in Nat BY DEF ACore, TypeOK
<1>2. ASSUME NEW t \in Tabs PROVE TabGood(tab[t], left[t])' /\ \A s \in left'[t] : row'[s].st \in {"revoked", "reused"}
  <2>1. CASE TabGood(tab[t], left[t])' /\ \A s \in left'[t] : row'[s].st \in {"revoked", "reused"} BY <2>1
  <2>2. CASE tab'[t] = tab[t] /\ left'[t] = left[t]
    <3>1. PICK r, L : r = tab[t] /\ L = left[t] OBVIOUS
    <3>2. TabGood(r, L) BY <1>2, <3>1, ACoreFacts
    <3>3. TabGood(r, L)' BY <1>1, <3>2, TabGoodGrows
    <3>a. tab'[t] = r /\ left'[t] = L BY <2>2, <3>1
    <3>b. RunShape(tab[t])' /\ OpShape(tab[t])' BY <3>a, <3>3, ZenonT(40) DEF TabGood, RunShape, OpShape
    <3>c. ReqKnown(tab[t].run)' /\ ReqKnown(tab[t].op)' BY <3>a, <3>3, ZenonT(40) DEF TabGood, ReqKnown, Known, Issued
    <3>d. Known(tab[t].mem, tab[t].av)' BY <3>a, <3>3, ZenonT(40) DEF TabGood, Known, Issued
    <3>4. TabGood(tab[t], left[t])' BY <3>a, <3>3, <3>b, <3>c, <3>d DEF TabGood
    <3>5. \A s \in left[t] : s \in Sids /\ row[s].st \in {"revoked", "reused"} BY <1>2, ACoreFacts
    <3> QED BY <2>2, <3>4, <3>5 DEF Moves
  <2> QED BY <1>2, <2>1, <2>2
<1>3. ASSUME NEW q \in orphans' PROVE OrphanGood(q)'
  <2>1. CASE q \in orphans
    <3>1. OrphanGood(q) BY <2>1, ACoreFacts
    <3>2. ReqKnown(q)' BY <1>1, <3>1, KnownGrows DEF OrphanGood
    <3> QED BY <3>1, <3>2 DEF OrphanGood, Pending
  <2> QED BY <1>3, <2>1
<1>4. \A s \in Sids : row'[s].av <= av' /\ (Issued(s)' \/ row'[s].gen = 0)
  BY DEF ACore, TokensKnown, Issued, Moves
<1>5. TypeOK' BY <1>3 DEF TypeOK, OrphanGood
<1>6. TokensKnown' BY <1>2, <1>3, <1>4 DEF TokensKnown, TabGood, OrphanGood
<1>7. LeftIsRevoked' BY <1>2 DEF LeftIsRevoked, TabGood
<1>8. \A t \in Tabs : RunShape(tab[t])' /\ OpShape(tab[t])' BY <1>2 DEF TabGood
<1> QED BY <1>5, <1>6, <1>7, <1>8 DEF ACore

\* What a step of the browser may do to the session that a tab shows and to the
\* sessions it has signed out of.
MemStep(r, L, r2, L2) ==
    \/ L2 = L /\ r2.mem \in {r.mem, NoSid}
    \/ L2 = L /\ r.mem = NoSid /\ r2.mem \in Sids \ L /\ Issued(r2.mem)
    \/ r2.mem = NoSid /\ \E s \in Sids : row[s].st \in {"revoked", "reused"} /\ L2 = L \cup {s}

\* Such a step is a step of BrowserSession, or none.
LEMMA TabRefines ==
    ASSUME TypeOK, row' = row,
           NEW t \in Tabs, NEW r2 \in TabStates, NEW L2,
           tab' = [tab EXCEPT ![t] = r2], left' = [left EXCEPT ![t] = L2],
           MemStep(tab[t], left[t], r2, L2)
    PROVE  [Abstract!BNext]_(Abstract!bvars)
<1> DEFINE view == [u \in Tabs |-> tab[u].mem]
           issued == {s \in Sids : row[s].st # "none"}
           revoked == {s \in Sids : row[s].st \in {"revoked", "reused"}}
<1>1. issued' = issued /\ revoked' = revoked OBVIOUS
<1>2. view' = [view EXCEPT ![t] = r2.mem] BY DEF TypeOK
<1>3. view[t] = tab[t].mem /\ left[t] = left[t] /\ left \in [Tabs -> SUBSET Sids] BY DEF TypeOK
<1>4. CASE L2 = left[t] /\ r2.mem = tab[t].mem
  <2>1. view' = view BY <1>2, <1>3, <1>4
  <2>2. left' = left BY <1>3, <1>4
  <2> QED BY <1>1, <2>1, <2>2 DEF Abstract!bvars
<1>5. CASE L2 = left[t] /\ r2.mem = NoSid
  <2>1. left' = left BY <1>3, <1>5
  <2>2. view' = [view EXCEPT ![t] = NoSid] BY <1>2, <1>5
  <2>3. Abstract!Forget(t) BY <1>1, <2>1, <2>2 DEF Abstract!Forget
  <2> QED BY <2>3 DEF Abstract!BNext
<1>6. CASE L2 = left[t] /\ tab[t].mem = NoSid /\ r2.mem \in Sids \ left[t] /\ Issued(r2.mem)
  <2>1. left' = left BY <1>3, <1>6
  <2>2. r2.mem \in issued BY <1>6 DEF Issued
  <2>3. Abstract!Show(t, r2.mem) BY <1>1, <1>2, <1>3, <1>6, <2>1, <2>2 DEF Abstract!Show
  <2> QED BY <1>6, <2>3 DEF Abstract!BNext
<1>7. CASE r2.mem = NoSid /\ \E s \in Sids : row[s].st \in {"revoked", "reused"} /\ L2 = left[t] \cup {s}
  <2>1. PICK s \in Sids : row[s].st \in {"revoked", "reused"} /\ L2 = left[t] \cup {s} BY <1>7
  <2>2. view' = [view EXCEPT ![t] = NoSid] BY <1>2, <1>7
  <2>3. left' = [left EXCEPT ![t] = @ \cup {s}] BY <2>1
  <2>4. s \in revoked BY <2>1
  <2>5. Abstract!SignOut(t, s) BY <1>1, <2>2, <2>3, <2>4 DEF Abstract!SignOut
  <2> QED BY <2>5 DEF Abstract!BNext
<1> QED BY <1>4, <1>5, <1>6, <1>7 DEF MemStep

\* A step of the browser that takes one tab to a good state.
LEMMA TabStep ==
    ASSUME ACore, row' = row, av' = av,
           NEW t \in Tabs, NEW r2, NEW L2 \in SUBSET Sids,
           tab' = [tab EXCEPT ![t] = r2], left' = [left EXCEPT ![t] = L2],
           TabGood(r2, L2), \A s \in L2 : row[s].st \in {"revoked", "reused"},
           MemStep(tab[t], left[t], r2, L2),
           cookie' \in Tokens, cookie'.sid # NoSid => Issued(cookie'.sid),
           \A q \in orphans' : q \in orphans \/ (q \in {tab[t].run, tab[t].op} /\ Pending(q)),
           chan' \in [Tabs -> Seq(Events)], lock' \subseteq Tabs, \A u, w \in lock' : u = w,
           lost' \in BOOLEAN, runs' \in Nat, ops' \in Nat, faults' \in Nat
    PROVE  ACore' /\ [Abstract!BNext]_(Abstract!bvars)
<1>1. /\ row \in [Sids -> Rows] /\ av \in Nat /\ tab \in [Tabs -> TabStates] /\ left \in [Tabs -> SUBSET Sids]
      /\ r2 \in TabStates /\ TypeOK
  BY DEF ACore, TypeOK, TabGood
<1>2. \A s \in Sids : /\ Moves(row[s], row'[s]) /\ row'[s].av <= av'
                      /\ row'[s].st = "none" => row'[s].gen = row[s].gen
  BY <1>1, ACoreFacts DEF Moves, Rows
<1>3. tab' \in [Tabs -> TabStates] /\ left' \in [Tabs -> SUBSET Sids] BY <1>1
<1>4. Known(cookie.sid, 0)'
  <2>1. cookie'.sid # NoSid => cookie'.sid \in Sids BY DEF Tokens
  <2> QED BY <1>1, <2>1 DEF Known, Issued, Rows
<1>5. ASSUME NEW u \in Tabs
      PROVE  \/ tab'[u] = tab[u] /\ left'[u] = left[u]
             \/ /\ TabGood(tab[u], left[u])'
                /\ \A s \in left'[u] : row'[s].st \in {"revoked", "reused"}
  <2>1. CASE u # t BY <1>1, <1>5, <2>1
  <2>2. CASE u = t
    <3>1. tab'[u] = r2 /\ left'[u] = L2 BY <1>1, <2>2
    <3>2. RunShape(tab[u])' /\ OpShape(tab[u])' BY <3>1, ZenonT(40) DEF TabGood, RunShape, OpShape
    <3>3. ReqKnown(tab[u].run)' /\ ReqKnown(tab[u].op)' BY <3>1, ZenonT(40) DEF TabGood, ReqKnown, Known, Issued
    <3>4. Known(tab[u].mem, tab[u].av)' BY <3>1, ZenonT(40) DEF TabGood, Known, Issued
    <3>5. TabGood(tab[u], left[u])' BY <3>1, <3>2, <3>3, <3>4 DEF TabGood
    <3> QED BY <3>1, <3>5
  <2> QED BY <2>1, <2>2
<1>6. ASSUME NEW q \in orphans' PROVE q \in orphans \/ OrphanGood(q)'
  <2>1. CASE q = tab[t].run /\ Pending(q)
    <3>1. TabGood(tab[t], left[t]) BY ACoreFacts
    <3>2. ReqKnown(q) /\ q \in Requests BY <2>1, <3>1, TabTypes DEF TabGood
    <3>3. q.kind # "none" /\ q.at = "req" BY <2>1, <3>1 DEF TabGood, RunShape, Pending
    <3> QED BY <2>1, <3>2, <3>3 DEF OrphanGood, ReqKnown, Known, Issued, Pending
  <2>2. CASE q = tab[t].op /\ Pending(q)
    <3>1. TabGood(tab[t], left[t]) BY ACoreFacts
    <3>2. ReqKnown(q) /\ q \in Requests BY <2>2, <3>1, TabTypes DEF TabGood
    <3>3. q.kind \notin {"none", "refresh"} BY <2>2, <3>1 DEF TabGood, OpShape, Pending
    <3> QED BY <2>2, <3>2, <3>3 DEF OrphanGood, ReqKnown, Known, Issued, Pending
  <2> QED BY <1>6, <2>1, <2>2
<1>7. ACore' BY <1>1, <1>2, <1>3, <1>4, <1>5, <1>6, AStep
<1>8. [Abstract!BNext]_(Abstract!bvars) BY <1>1, TabRefines
<1> QED BY <1>7, <1>8

\* What a request sent now carries is known to the server.
LEMMA SentKnown ==
    ASSUME NEW r \in TabStates, NEW ck \in Tokens, Known(ck.sid, 0), Known(r.mem, r.av),
           NEW k \in {"refresh", "login", "logout", "api", "secure"}, NEW again \in BOOLEAN
    PROVE  ReqKnown(Sending(r, ck, k, again))
<1> DEFINE q == Sending(r, ck, k, again)
<1>1. q.at = "req" /\ q.ck = ck /\ q.sid = r.mem /\ q.av = r.av BY NoReqFacts DEF Sending, Requests
<1> HIDE DEF q
<1>2. ReqKnown(q) BY <1>1 DEF ReqKnown
<1> QED BY <1>2 DEF q

\* No request carries nothing.
LEMMA NoReqKnown == ReqKnown(NoReq)
BY NoReqFacts DEF ReqKnown, Known, NoCookie, Token

\* A refresh settles: its tab, cleared or not, goes on without it.
LEMMA SettledGood ==
    ASSUME NEW ck \in Tokens, Known(ck.sid, 0),
           NEW r \in TabStates, NEW L, OpShape(r), r.run.at # "none",
           Known(r.mem, r.av), ReqKnown(r.op),
           r.op.at = "rsp" /\ r.op.ans.jar = "set" => r.op.ans.tok.sid \notin L,
           NEW outcome,
           outcome = "authenticated" => r.mem # NoSid /\ r.live /\ r.boot = "complete",
           outcome \in {"anonymous", "outOfSync"} => r.mem = NoSid /\ r.boot = "complete"
    PROVE  LET x == Continue([r EXCEPT !.run = NoReq], ck, outcome)
           IN  TabGood(x, L) /\ x.mem = r.mem
<1> DEFINE r1 == [r EXCEPT !.run = NoReq]
           x == Continue(r1, ck, outcome)
           q == Sending(r1, ck, r1.op.kind, TRUE)
           p == [r1.op EXCEPT !.at = "leave"]
<1>1. /\ r1 \in TabStates /\ r1.run = NoReq /\ r1.op = r.op /\ r1.mem = r.mem /\ r1.av = r.av
      /\ r1.live = r.live /\ r1.boot = r.boot
  BY NoReqFacts DEF TabStates
<1> HIDE DEF r1
<1>2. OpShape(r1) BY <1>1, NoReqFacts DEF OpShape
<1>3. /\ x \in TabStates /\ x.mem = r.mem /\ x.av = r.av /\ x.live = r.live /\ x.boot = r.boot
      /\ x.run = NoReq
      /\ \/ r.op.at # "joined" /\ x.op = r.op
         \/ r.op.at = "joined" /\ x.op = q /\ (outcome = "authenticated" \/ r.op.kind = "secure")
         \/ r.op.at = "joined" /\ x.op = p /\ outcome \in {"anonymous", "outOfSync"}
         \/ r.op.at = "joined" /\ x.op = NoReq
  <2>1. /\ x \in TabStates /\ x.mem = r1.mem /\ x.av = r1.av /\ x.live = r1.live /\ x.boot = r1.boot
        /\ x.run = r1.run
        /\ \/ r1.op.at # "joined" /\ x.op = r1.op
           \/ r1.op.at = "joined" /\ x.op = q /\ (outcome = "authenticated" \/ r1.op.kind = "secure")
           \/ r1.op.at = "joined" /\ x.op = p /\ outcome \in {"anonymous", "outOfSync"}
           \/ r1.op.at = "joined" /\ x.op = NoReq
    BY <1>1, <1>2, ContinueFacts
  <2> HIDE DEF x, q, p
  <2> QED BY <1>1, <2>1
<1>4. r.op.at = "joined" =>
        /\ r.op.kind \in {"logout", "api", "secure"} /\ (r.op.kind = "api" => ~r.op.again)
        /\ q.kind = r.op.kind /\ q.at = "req" /\ q.again = TRUE /\ q.sid = r.mem /\ q.live = r.live
        /\ q.ans = NoAnswer /\ ReqKnown(q)
  <2> SUFFICES ASSUME r.op.at = "joined"
               PROVE  /\ r.op.kind \in {"logout", "api", "secure"} /\ (r.op.kind = "api" => ~r.op.again)
                      /\ q.kind = r.op.kind /\ q.at = "req" /\ q.again = TRUE /\ q.sid = r.mem
                      /\ q.live = r.live /\ q.ans = NoAnswer /\ ReqKnown(q)
    OBVIOUS
  <2>1. r.op.kind \in {"logout", "api", "secure"} /\ (r.op.kind = "api" => ~r.op.again) BY DEF OpShape
  <2>2. r1.op.kind \in {"refresh", "login", "logout", "api", "secure"} BY <1>1, <2>1
  <2>3. /\ q.kind = r1.op.kind /\ q.at = "req" /\ q.again = TRUE /\ q.sid = r1.mem /\ q.live = r1.live
        /\ q.ans = NoAnswer
    BY NoReqFacts DEF Sending, Requests
  <2>4. ReqKnown(q) BY <1>1, <2>2, SentKnown
  <2> HIDE DEF q
  <2> QED BY <1>1, <2>1, <2>3, <2>4
<1>5. p.kind = r.op.kind /\ p.at = "leave" /\ p.again = r.op.again /\ p.sid = r.op.sid /\ p.ck = r.op.ck
      /\ p.av = r.op.av /\ p.ans = r.op.ans
  BY <1>1, TabTypes, MovedFacts
<1> HIDE DEF x, q, p
<1>6. RunShape(x) /\ ReqKnown(x.run) /\ x.run.at = "none" BY <1>3, NoReqFacts, NoReqKnown DEF RunShape
<1>7. OpShape(x) /\ ReqKnown(x.op) /\ (x.op.at = "rsp" /\ x.op.ans.jar = "set" => x.op.ans.tok.sid \notin L)
  <2>1. CASE r.op.at # "joined" /\ x.op = r.op
    BY <1>1, <1>2, <1>3, <2>1, NoReqFacts DEF OpShape
  <2>2. CASE r.op.at = "joined" /\ x.op = q /\ (outcome = "authenticated" \/ r.op.kind = "secure")
    BY <1>3, <1>4, <1>6, <2>2 DEF OpShape
  <2>3. CASE r.op.at = "joined" /\ x.op = p /\ outcome \in {"anonymous", "outOfSync"}
    BY <1>3, <1>4, <1>5, <1>6, <2>3 DEF OpShape, ReqKnown
  <2>4. CASE x.op = NoReq
    BY <2>4, NoReqFacts, NoReqKnown DEF OpShape
  <2> QED BY <1>3, <2>1, <2>2, <2>3, <2>4
<1>8. TabGood(x, L) /\ x.mem = r.mem BY <1>3, <1>6, <1>7 DEF TabGood
<1> QED BY <1>8 DEF x, r1

\* A tab that starts a refresh, or joins the one in flight.
LEMMA RefreshGood ==
    ASSUME cookie \in Tokens, Known(cookie.sid, 0), NEW r, NEW L, TabGood(r, L),
           ~(r.op.kind = "api" /\ r.op.again), r.op.at # "leave"
    PROVE  TabGood(Refresh(r), L) /\ Refresh(r).mem = r.mem
<1> DEFINE x == Refresh(r)
           q == Sending(r, cookie, "refresh", FALSE)
<1>1. r \in TabStates /\ Known(r.mem, r.av) BY DEF TabGood
<1>2. /\ x \in TabStates /\ x.mem = r.mem /\ x.av = r.av /\ x.live = r.live /\ x.boot = r.boot
      /\ x.op = r.op
      /\ \/ x.run = r.run
         \/ x.run = q
         \/ /\ x.run.at = "lock" /\ x.run.kind = "refresh" /\ x.run.ck = NoCookie /\ x.run.sid = NoSid
  BY <1>1, RefreshFacts
<1>3. q.kind = "refresh" /\ q.at = "req" /\ q.sid = r.mem BY <1>1, NoReqFacts DEF Sending, Requests
<1>7. ReqKnown(q) BY <1>1, SentKnown
<1> HIDE DEF x, q
<1>4. OpShape(x) BY <1>2 DEF TabGood, OpShape
<1>5. RunShape(x) /\ ReqKnown(x.run)
      /\ (x.run.at = "rsp" /\ x.run.current /\ x.run.ans.kind = "ok" => x.run.ans.tok.sid \notin L)
  <2>1. CASE x.run = r.run BY <1>2, <2>1 DEF TabGood, RunShape
  <2>2. CASE x.run = q BY <1>2, <1>3, <1>7, <2>2 DEF RunShape
  <2>3. CASE x.run.at = "lock" /\ x.run.kind = "refresh" /\ x.run.ck = NoCookie /\ x.run.sid = NoSid
    BY <2>3, SidFacts DEF RunShape, ReqKnown, Known, NoCookie, Token
  <2> QED BY <1>2, <2>1, <2>2, <2>3
<1>6. TabGood(x, L) BY <1>2, <1>4, <1>5 DEF TabGood
<1> QED BY <1>2, <1>6 DEF x

\* A tab whose operation is replaced.
LEMMA OpGood ==
    ASSUME NEW r, NEW L, TabGood(r, L), NEW q \in Requests, NEW x, x = [r EXCEPT !.op = q], OpShape(x), ReqKnown(q),
           q.at = "rsp" /\ q.ans.jar = "set" => q.ans.tok.sid \notin L
    PROVE  TabGood(x, L) /\ x.mem = r.mem
<1>1. r \in TabStates BY DEF TabGood
<1>2. x \in TabStates /\ x.mem = r.mem /\ x.av = r.av /\ x.run = r.run /\ x.op = q BY <1>1 DEF TabStates
<1>3. RunShape(x) BY <1>2 DEF TabGood, RunShape
<1> QED BY <1>2, <1>3 DEF TabGood

\* A tab whose operation is over.
LEMMA EndedGood ==
    ASSUME NEW r, NEW L, TabGood(r, L)
    PROVE  TabGood(Ended(r), L) /\ Ended(r).mem = r.mem /\ Ended(r).run = r.run
<1> DEFINE x == Ended(r)
<1>1. r \in TabStates BY DEF TabGood
<1>2. x = [r EXCEPT !.op = NoReq] /\ x.op = NoReq /\ x.run = r.run BY <1>1 DEF Ended, TabStates
<1> HIDE DEF x
<1>3. OpShape(x) BY <1>2, NoReqFacts DEF OpShape
<1> QED BY <1>1, <1>2, <1>3, OpGood, NoReqFacts, NoReqKnown DEF x

\* A tab that forgets its session.
LEMMA ClearedGood ==
    ASSUME NEW r, NEW L, NEW L2, TabGood(r, L),
           r.op.at = "rsp" /\ r.op.ans.jar = "set" => r.op.ans.tok.sid \notin L2
    PROVE  TabGood(Cleared(r), L2) /\ Cleared(r).mem = NoSid
<1> DEFINE x == Cleared(r)
           p == [r.run EXCEPT !.current = FALSE]
<1>1. r \in TabStates /\ r.run \in Requests BY TabTypes DEF TabGood
<1>2. /\ x \in TabStates /\ x.mem = NoSid /\ x.boot = "complete" /\ x.op = r.op /\ x.run = p
  BY <1>1, ClearedFacts
<1>3. /\ p.kind = r.run.kind /\ p.at = r.run.at /\ p.ck = r.run.ck /\ p.sid = r.run.sid /\ p.av = r.run.av
      /\ p.ans = r.run.ans /\ p.current = FALSE
  BY <1>1, SupersededFacts
<1> HIDE DEF x, p
<1>4. RunShape(x) BY <1>2, <1>3 DEF TabGood, RunShape
<1>5. OpShape(x) BY <1>2, <1>3 DEF TabGood, OpShape
<1>6. ReqKnown(x.run) BY <1>2, <1>3 DEF TabGood, ReqKnown
<1>7. Known(x.mem, x.av) BY <1>2 DEF Known
<1>8. TabGood(x, L2) BY <1>2, <1>3, <1>4, <1>5, <1>6, <1>7 DEF TabGood
<1> QED BY <1>2, <1>8 DEF x

\* A tab that takes the session of an answer, its operation over.
LEMMA BundleGood ==
    ASSUME NEW r, NEW L, TabGood(r, L), NEW a \in Answers, Known(a.tok.sid, a.av)
    PROVE  LET x == Ended(Bundle(r, a)) IN TabGood(x, L) /\ x.mem = a.tok.sid
<1> DEFINE b == Bundle(r, a)
           x == Ended(b)
           p == [r.run EXCEPT !.current = FALSE]
<1>1. r \in TabStates /\ r.run \in Requests BY TabTypes DEF TabGood
<1>2. b \in TabStates /\ b.mem = a.tok.sid /\ b.av = a.av /\ b.run = p BY <1>1, BundleFacts
<1>3. /\ p.kind = r.run.kind /\ p.at = r.run.at /\ p.ck = r.run.ck /\ p.sid = r.run.sid /\ p.av = r.run.av
      /\ p.ans = r.run.ans /\ p.current = FALSE
  BY <1>1, SupersededFacts
<1> HIDE DEF b, p
<1>4. x \in TabStates /\ x.mem = a.tok.sid /\ x.av = a.av /\ x.run = p /\ x.op = NoReq
  BY <1>2, NoReqFacts DEF Ended, TabStates
<1> HIDE DEF x
<1>5. RunShape(x) BY <1>3, <1>4 DEF TabGood, RunShape
<1>6. OpShape(x) BY <1>4, NoReqFacts DEF OpShape
<1>7. ReqKnown(x.run) BY <1>3, <1>4 DEF TabGood, ReqKnown
<1>8. TabGood(x, L) BY <1>3, <1>4, <1>5, <1>6, <1>7, NoReqFacts, NoReqKnown DEF TabGood
<1> QED BY <1>4, <1>8 DEF x, b

\* The cookie after an answer.
LEMMA JarFacts ==
    ASSUME row \in [Sids -> Rows], cookie \in Tokens, Known(cookie.sid, 0), NEW a \in Answers, Known(a.tok.sid, a.av)
    PROVE  /\ Jar(a) \in Tokens /\ Known(Jar(a).sid, 0) /\ (Jar(a).sid # NoSid => Issued(Jar(a).sid))
           /\ a.jar = "set" => Jar(a) = a.tok
           /\ a.jar = "clear" => Jar(a) = NoCookie
           /\ a.jar = "keep" => Jar(a) = cookie
<1>1. a.tok \in Tokens /\ a.jar \in {"keep", "set", "clear"} BY DEF Answers
<1>2. CASE a.jar = "set"
  <2>1. Jar(a) = a.tok BY <1>2 DEF Jar
  <2>2. Known(a.tok.sid, 0) /\ (a.tok.sid # NoSid => Issued(a.tok.sid)) BY <1>1 DEF Known, Rows, Tokens
  <2> QED BY <1>1, <1>2, <2>1, <2>2
<1>3. CASE a.jar = "clear"
  <2>1. Jar(a) = NoCookie BY <1>3 DEF Jar
  <2> QED BY <1>3, <2>1, SidFacts DEF Known, NoCookie, Token
<1>4. CASE a.jar = "keep"
  <2>1. Jar(a) = cookie BY <1>4 DEF Jar
  <2> QED BY <1>4, <2>1 DEF Known
<1> QED BY <1>1, <1>2, <1>3, <1>4

\* The events after a publication.
LEMMA PublishTypes ==
    ASSUME chan \in [Tabs -> Seq(Events)], NEW t, NEW k \in {"authenticated", "signed_out"},
           NEW s \in Sids \cup {NoSid}, Publish(t, k, s)
    PROVE  chan' \in [Tabs -> Seq(Events)]
<1> DEFINE e == [kind |-> k, sid |-> s]
<1>1. s # NoSid => e \in Events BY DEF Events
<1> HIDE DEF e
<1>2. chan' = [u \in Tabs |-> IF u = t \/ s = NoSid THEN chan[u] ELSE Append(chan[u], e)] BY DEF Publish, e
<1> QED BY <1>1, <1>2

\* A step of the browser that signs nobody out and abandons no request.
LEMMA QuietStep ==
    ASSUME ACore, UNCHANGED <<row, av, left, orphans, lost>>,
           NEW t \in Tabs, NEW r2, tab' = [tab EXCEPT ![t] = r2], TabGood(r2, left[t]),
           \/ r2.mem \in {tab[t].mem, NoSid}
           \/ tab[t].mem = NoSid /\ r2.mem \notin left[t],
           cookie' \in Tokens, cookie'.sid # NoSid => Issued(cookie'.sid),
           chan' \in [Tabs -> Seq(Events)], lock' \subseteq Tabs, \A u, w \in lock' : u = w,
           runs' \in Nat, ops' \in Nat, faults' \in Nat
    PROVE  ACore' /\ [Abstract!BNext]_(Abstract!bvars)
<1>1. /\ left \in [Tabs -> SUBSET Sids] /\ left[t] \in SUBSET Sids /\ lost' \in BOOLEAN
      /\ \A s \in left[t] : row[s].st \in {"revoked", "reused"}
  BY ACoreFacts DEF TypeOK
<1>2. left' = [left EXCEPT ![t] = left[t]] BY <1>1
<1>3. r2.mem \in Sids \cup {NoSid} /\ (r2.mem # NoSid => Issued(r2.mem))
  BY TabTypes DEF TabGood, Known
<1>4. MemStep(tab[t], left[t], r2, left[t]) BY <1>3 DEF MemStep
<1>5. PICK L : L = left[t] OBVIOUS
<1> QED BY <1>1, <1>2, <1>4, <1>5, TabStep

--------------------------------------------------------------------------------
(* One lemma for every step of the browser *)

\* resolveAuthentication.
LEMMA NavigateCore ==
    ASSUME ACore, NEW t \in Tabs, Navigate(t)
    PROVE  ACore' /\ [Abstract!BNext]_(Abstract!bvars)
<1> DEFINE r == [tab[t] EXCEPT !.boot = "checking"]
           x == Refresh(r)
<1>1. TabGood(tab[t], left[t]) /\ tab[t] \in TabStates /\ TypeOK /\ Known(cookie.sid, 0) BY ACoreFacts
<1>2. /\ r \in TabStates /\ r.mem = tab[t].mem /\ r.av = tab[t].av /\ r.run = tab[t].run /\ r.op = tab[t].op
      /\ r.boot = "checking" /\ r.live = tab[t].live
  BY <1>1 DEF TabStates
<1>3. ~(tab[t].op.kind = "api" /\ tab[t].op.again) /\ tab[t].op.at # "leave"
  BY <1>1 DEF Navigate, TabGood, OpShape
<1> HIDE DEF r
<1>4. TabGood(r, left[t]) BY <1>1, <1>2, <1>3 DEF TabGood, RunShape, OpShape
<1>5. TabGood(x, left[t]) /\ x.mem = tab[t].mem BY <1>1, <1>2, <1>3, <1>4, RefreshGood DEF TypeOK
<1>6. tab' = [tab EXCEPT ![t] = x] BY DEF Navigate, Set, r
<1> HIDE DEF x
<1>7. UNCHANGED <<row, av, left, orphans, lost, cookie, chan, lock, ops, faults>> /\ runs' \in Nat
  BY <1>1 DEF Navigate, MayRefresh, TypeOK
<1>8. cookie.sid # NoSid => Issued(cookie.sid) BY <1>1 DEF Known
<1> QED BY <1>1, <1>5, <1>6, <1>7, <1>8, QuietStep DEF TypeOK

\* The lock callback.
LEMMA GrantLockCore ==
    ASSUME ACore, NEW t \in Tabs, GrantLock(t)
    PROVE  ACore' /\ [Abstract!BNext]_(Abstract!bvars)
<1>1. TabGood(tab[t], left[t]) /\ tab[t] \in TabStates /\ TypeOK /\ Known(cookie.sid, 0) BY ACoreFacts
<1>2. UNCHANGED <<row, av, left, orphans, lost, cookie, chan, runs, ops, faults>> BY DEF GrantLock
<1>3. cookie.sid # NoSid => Issued(cookie.sid) BY <1>1 DEF Known
<1>4. tab[t].run.at = "lock" /\ lock = {} BY DEF GrantLock
<1>5. CASE tab[t].run.current
  <2> DEFINE q == Sending(tab[t], cookie, "refresh", FALSE)
             x == [tab[t] EXCEPT !.run = q]
  <2>1. q \in Requests /\ q.kind = "refresh" /\ q.at = "req" /\ q.sid = tab[t].mem
    BY <1>1, TabTypes, NoReqFacts DEF Sending, Requests, TypeOK
  <2>2. ReqKnown(q) BY <1>1, SentKnown DEF TypeOK, TabGood
  <2>3. tab' = [tab EXCEPT ![t] = x] /\ lock' = lock \cup {t} BY <1>5 DEF GrantLock, Set
  <2> HIDE DEF q
  <2>4. /\ x \in TabStates /\ x.mem = tab[t].mem /\ x.av = tab[t].av /\ x.run = q /\ x.op = tab[t].op
        /\ x.boot = tab[t].boot /\ x.live = tab[t].live
    BY <1>1, <2>1 DEF TabStates
  <2> HIDE DEF x
  <2>5. RunShape(x) BY <2>1, <2>4 DEF RunShape
  <2>6. OpShape(x) BY <1>1, <1>4, <2>1, <2>4 DEF TabGood, OpShape
  <2>7. TabGood(x, left[t]) BY <1>1, <2>1, <2>2, <2>4, <2>5, <2>6 DEF TabGood
  <2>8. lock' \subseteq Tabs /\ \A u, w \in lock' : u = w BY <1>4, <2>3
  <2> QED BY <1>1, <1>2, <1>3, <2>3, <2>4, <2>7, <2>8, QuietStep DEF TypeOK
<1>6. CASE ~tab[t].run.current
  <2> DEFINE x == Continue([tab[t] EXCEPT !.run = NoReq], cookie, "transient")
  <2>1. tab' = [tab EXCEPT ![t] = x] /\ lock' = lock \ {t} BY <1>6 DEF GrantLock, Settle, Set
  <2>2. TabGood(x, left[t]) /\ x.mem = tab[t].mem
    <3> DEFINE r == tab[t]
    <3>1. /\ r \in TabStates /\ OpShape(r) /\ r.run.at # "none" /\ Known(r.mem, r.av) /\ ReqKnown(r.op)
          /\ r.op.at = "rsp" /\ r.op.ans.jar = "set" => r.op.ans.tok.sid \notin left[t]
      BY <1>1, <1>4 DEF TabGood
    <3>2. x = Continue([r EXCEPT !.run = NoReq], cookie, "transient") OBVIOUS
    <3>3. cookie \in Tokens BY <1>1 DEF TypeOK
    <3> HIDE DEF x, r
    <3>4. TabGood(x, left[t]) /\ x.mem = r.mem BY <1>1, <3>1, <3>2, <3>3, SettledGood
    <3> QED BY <3>4 DEF r
  <2> HIDE DEF x
  <2>3. lock' \subseteq Tabs /\ \A u, w \in lock' : u = w BY <1>4, <2>1
  <2> QED BY <1>1, <1>2, <1>3, <2>1, <2>2, <2>3, QuietStep DEF TypeOK
<1> QED BY <1>5, <1>6

\* A user operation is sent.
LEMMA SubmitCore ==
    ASSUME ACore, NEW t \in Tabs, NEW k \in {"login", "logout", "api", "secure"}, Submit(t, k),
           k = "login" => tab[t].mem = NoSid
    PROVE  ACore' /\ [Abstract!BNext]_(Abstract!bvars)
<1> DEFINE q == Sending(tab[t], cookie, k, FALSE)
           x == [tab[t] EXCEPT !.op = q]
<1>1. TabGood(tab[t], left[t]) /\ tab[t] \in TabStates /\ TypeOK /\ Known(cookie.sid, 0) BY ACoreFacts
<1>2. UNCHANGED <<row, av, left, orphans, lost, cookie, chan, lock, runs, faults>> /\ ops' \in Nat
  BY <1>1 DEF Submit, TypeOK
<1>3. cookie.sid # NoSid => Issued(cookie.sid) BY <1>1 DEF Known
<1>4. q \in Requests /\ q.kind = k /\ q.at = "req" /\ q.again = FALSE /\ q.sid = tab[t].mem
  BY <1>1, TabTypes, NoReqFacts DEF Sending, Requests, TypeOK
<1>5. ReqKnown(q) BY <1>1, SentKnown DEF TypeOK, TabGood
<1>6. tab' = [tab EXCEPT ![t] = x] BY DEF Submit, Set
<1> HIDE DEF q
<1>7. x.op = q BY <1>1 DEF TabStates
<1>8. OpShape(x) BY <1>4, <1>7 DEF OpShape
<1>9. TabGood(x, left[t]) /\ x.mem = tab[t].mem BY <1>1, <1>4, <1>5, <1>8, OpGood
<1> HIDE DEF x
<1> QED BY <1>1, <1>2, <1>3, <1>6, <1>9, QuietStep DEF TypeOK

\* A security change waits for a refresh.
LEMMA SubmitSecureExpiredCore ==
    ASSUME ACore, NEW t \in Tabs, SubmitSecureExpired(t)
    PROVE  ACore' /\ [Abstract!BNext]_(Abstract!bvars)
<1> DEFINE q == [NoReq EXCEPT !.kind = "secure", !.at = "joined"]
           r == [tab[t] EXCEPT !.op = q]
           x == Refresh(r)
<1>1. TabGood(tab[t], left[t]) /\ tab[t] \in TabStates /\ TypeOK /\ Known(cookie.sid, 0) BY ACoreFacts
<1>2. UNCHANGED <<row, av, left, orphans, lost, cookie, chan, lock, faults>> /\ ops' \in Nat /\ runs' \in Nat
  BY <1>1 DEF SubmitSecureExpired, MayRefresh, TypeOK
<1>3. cookie.sid # NoSid => Issued(cookie.sid) BY <1>1 DEF Known
<1>4. /\ q \in Requests /\ q.kind = "secure" /\ q.at = "joined" /\ q.again = FALSE /\ q.sid = NoSid
      /\ q.ck = NoCookie
  BY NoReqFacts DEF Requests
<1>5. ReqKnown(q) BY <1>4, SidFacts DEF ReqKnown, Known, NoCookie, Token
<1>6. tab' = [tab EXCEPT ![t] = x] BY DEF SubmitSecureExpired, Set
<1> HIDE DEF q
<1>7. r.op = q BY <1>1 DEF TabStates
<1>8. OpShape(r) BY <1>4, <1>7 DEF OpShape
<1>9. TabGood(r, left[t]) /\ r.mem = tab[t].mem BY <1>1, <1>4, <1>5, <1>8, OpGood
<1> HIDE DEF r
<1>10. TabGood(x, left[t]) /\ x.mem = tab[t].mem BY <1>1, <1>4, <1>7, <1>9, RefreshGood DEF TypeOK
<1> HIDE DEF x
<1> QED BY <1>1, <1>2, <1>3, <1>6, <1>10, QuietStep DEF TypeOK

\* An operation that was refused awaits a refresh.
LEMMA JoinGood ==
    ASSUME ACore, NEW t \in Tabs, Join(t), tab[t].op.kind \in {"logout", "api"}, ~tab[t].op.again
    PROVE  \E x : tab' = [tab EXCEPT ![t] = x] /\ TabGood(x, left[t]) /\ x.mem = tab[t].mem /\ runs' \in Nat
                  /\ x = Refresh([tab[t] EXCEPT !.op.at = "joined"])
<1> DEFINE q == [tab[t].op EXCEPT !.at = "joined"]
           r == [tab[t] EXCEPT !.op = q]
           x == Refresh(r)
<1>1. TabGood(tab[t], left[t]) /\ tab[t] \in TabStates /\ TypeOK /\ Known(cookie.sid, 0) BY ACoreFacts
<1>2. tab[t].op \in Requests BY <1>1, TabTypes
<1>3. /\ q \in Requests /\ q.kind = tab[t].op.kind /\ q.at = "joined" /\ q.again = tab[t].op.again
      /\ q.sid = tab[t].op.sid /\ q.ck = tab[t].op.ck /\ q.av = tab[t].op.av
  BY <1>2, MovedFacts
<1>4. [tab[t] EXCEPT !.op.at = "joined"] = r BY <1>1 DEF TabStates
<1>5. tab' = [tab EXCEPT ![t] = x] BY <1>4 DEF Join, Set
<1>6. runs' \in Nat BY <1>1 DEF Join, MayRefresh, TypeOK
<1> HIDE DEF q
<1>7. ReqKnown(q) BY <1>1, <1>3 DEF TabGood, ReqKnown
<1>8. r.op = q BY <1>1 DEF TabStates
<1>9. OpShape(r) BY <1>3, <1>8 DEF OpShape
<1>10. TabGood(r, left[t]) /\ r.mem = tab[t].mem BY <1>1, <1>3, <1>7, <1>9, OpGood
<1> HIDE DEF r
<1>11. TabGood(x, left[t]) /\ x.mem = tab[t].mem BY <1>1, <1>3, <1>8, <1>10, RefreshGood DEF TypeOK
<1> HIDE DEF x
<1> QED BY <1>4, <1>5, <1>6, <1>11 DEF x

\* A refresh settles.
LEMMA SettleStep ==
    ASSUME ACore, UNCHANGED <<row, av, left, orphans, lost, runs, ops, faults>>,
           NEW t \in Tabs, NEW r \in TabStates, NEW ck \in Tokens, NEW outcome,
           tab' = [tab EXCEPT ![t] = Continue([r EXCEPT !.run = NoReq], ck, outcome)], lock' = lock \ {t},
           cookie' = ck, Known(ck.sid, 0), chan' \in [Tabs -> Seq(Events)],
           OpShape(r), r.run.at # "none", Known(r.mem, r.av), r.op = tab[t].op,
           outcome = "authenticated" => r.mem # NoSid /\ r.live /\ r.boot = "complete",
           outcome \in {"anonymous", "outOfSync"} => r.mem = NoSid /\ r.boot = "complete",
           \/ r.mem \in {tab[t].mem, NoSid}
           \/ tab[t].mem = NoSid /\ r.mem \notin left[t]
    PROVE  ACore' /\ [Abstract!BNext]_(Abstract!bvars)
<1> DEFINE x == Continue([r EXCEPT !.run = NoReq], ck, outcome)
<1>1. TabGood(tab[t], left[t]) /\ TypeOK BY ACoreFacts
<1>2. ReqKnown(r.op) /\ (r.op.at = "rsp" /\ r.op.ans.jar = "set" => r.op.ans.tok.sid \notin left[t])
  BY <1>1 DEF TabGood
<1>3. TabGood(x, left[t]) /\ x.mem = r.mem BY <1>2, SettledGood
<1> HIDE DEF x
<1>4. lock' \subseteq Tabs /\ \A u, w \in lock' : u = w BY <1>1 DEF TypeOK
<1>5. tab' = [tab EXCEPT ![t] = x] BY DEF x
<1>6. cookie' \in Tokens /\ (cookie'.sid # NoSid => Issued(cookie'.sid)) BY DEF Known
<1>7. runs' \in Nat /\ ops' \in Nat /\ faults' \in Nat BY <1>1 DEF TypeOK
<1>8. UNCHANGED <<row, av, left, orphans, lost>> OBVIOUS
<1> QED BY <1>3, <1>4, <1>5, <1>6, <1>7, <1>8, QuietStep

\* createRefreshRunner after the response.
LEMMA RefreshReturnsCore ==
    ASSUME ACore, NEW t \in Tabs, RefreshReturns(t)
    PROVE  ACore' /\ [Abstract!BNext]_(Abstract!bvars)
<1> DEFINE r == tab[t]
           a == r.run.ans
           ck == Jar(a)
<1>1. TabGood(r, left[t]) /\ r \in TabStates /\ TypeOK /\ Known(cookie.sid, 0) BY ACoreFacts
<1>2. r.run.at = "rsp" /\ cookie' = ck BY DEF RefreshReturns, SetCookie
<1>3. a \in Answers /\ Known(a.tok.sid, a.av) /\ r.run \in Requests
  BY <1>1, <1>2, TabTypes, RequestTypes DEF TabGood, ReqKnown
<1>4. ck \in Tokens /\ Known(ck.sid, 0) /\ (ck.sid # NoSid => Issued(ck.sid)) /\ (a.jar = "keep" => ck = cookie)
  BY <1>1, <1>3, JarFacts DEF TypeOK
<1>5. UNCHANGED <<row, av, left, orphans, lost, runs, ops, faults>> BY DEF RefreshReturns
<1>6. OpShape(r) /\ Known(r.mem, r.av) /\ ~(r.op.kind = "api" /\ r.op.again) /\ r.op.at # "leave"
  BY <1>1, <1>2 DEF TabGood, OpShape
<1>7. chan \in [Tabs -> Seq(Events)] BY <1>1 DEF TypeOK
<1> HIDE DEF ck
<1>8. CASE ~r.run.current
  <2>1. /\ tab' = [tab EXCEPT ![t] = Continue([r EXCEPT !.run = NoReq], ck, "transient")]
        /\ lock' = lock \ {t} /\ chan' = chan
    BY <1>8 DEF RefreshReturns, Settle, Set, ck
  <2> HIDE DEF a
  <2>2. r.run.at # "none" /\ r.op = tab[t].op /\ r.mem = tab[t].mem BY <1>2
  <2> HIDE DEF r
  <2> QED BY <1>1, <1>2, <1>4, <1>5, <1>6, <1>7, <2>1, <2>2, SettleStep
<1>9. CASE r.run.current /\ a.kind = "ok"
  <2> DEFINE b == Bundle(r, a)
  <2>1. /\ tab' = [tab EXCEPT ![t] = Continue([b EXCEPT !.run = NoReq], ck, "authenticated")]
        /\ lock' = lock \ {t} /\ chan' = chan
    BY <1>9 DEF RefreshReturns, Settle, Set, ck
  <2>2. /\ b \in TabStates /\ b.mem = a.tok.sid /\ b.av = a.av /\ b.live = TRUE /\ b.boot = "complete"
        /\ b.op = r.op /\ b.run = [r.run EXCEPT !.current = FALSE]
    BY <1>1, <1>3, BundleFacts
  <2>3. b.run.at = "rsp" BY <1>2, <1>3, <2>2, SupersededFacts
  <2>4. a.tok.sid # NoSid /\ a.tok.sid \notin left[t] /\ r.mem \in {NoSid, a.tok.sid}
    BY <1>1, <1>2, <1>9 DEF TabGood, RunShape
  <2> HIDE DEF b
  <2>5. OpShape(b) BY <1>6, <2>2, <2>3 DEF OpShape
  <2>6. Known(b.mem, b.av) BY <1>3, <2>2
  <2>7. b.op = tab[t].op /\ (b.mem \in {tab[t].mem, NoSid} \/ (tab[t].mem = NoSid /\ b.mem \notin left[t]))
    BY <2>2, <2>4
  <2>8. b.mem # NoSid BY <2>2, <2>4
  <2> HIDE DEF a, r
  <2> QED BY <1>2, <1>4, <1>5, <1>7, <2>1, <2>2, <2>3, <2>5, <2>6, <2>7, <2>8, SettleStep
<1>10. CASE r.run.current /\ a.kind = "mismatch" /\ ~r.run.again
  <2> DEFINE f == Forgotten(r, "idle")
             q == Sending(f, cookie, "refresh", TRUE)
             x == [f EXCEPT !.run = q]
  <2>1. tab' = [tab EXCEPT ![t] = x] /\ UNCHANGED <<lock, chan>>
    BY <1>10 DEF RefreshReturns, Set
  <2>2. f \in TabStates /\ f.mem = NoSid /\ f.av = 0 /\ f.op = r.op /\ f.run = r.run BY <1>1, ForgottenFacts
  <2>3. q \in Requests /\ q.kind = "refresh" /\ q.at = "req" /\ q.sid = f.mem
    BY <1>1, <2>2, TabTypes, NoReqFacts DEF Sending, Requests, TypeOK
  <2>4. ReqKnown(q)
    <3>1. Known(f.mem, f.av) BY <2>2 DEF Known
    <3> HIDE DEF f
    <3> QED BY <1>1, <2>2, <3>1, SentKnown DEF TypeOK
  <2> HIDE DEF q, f
  <2>5. x \in TabStates /\ x.mem = NoSid /\ x.av = 0 /\ x.run = q /\ x.op = r.op
    BY <2>2, <2>3 DEF TabStates
  <2> HIDE DEF x
  <2>6. RunShape(x) BY <2>2, <2>3, <2>5 DEF RunShape
  <2>7. OpShape(x) BY <1>6, <2>5 DEF OpShape
  <2>8. Known(x.mem, x.av) BY <2>5 DEF Known
  <2>9. TabGood(x, left[t]) BY <1>1, <2>3, <2>4, <2>5, <2>6, <2>7, <2>8 DEF TabGood
  <2>10. cookie' \in Tokens /\ (cookie'.sid # NoSid => Issued(cookie'.sid)) BY <1>2, <1>4
  <2> HIDE DEF a, r
  <2> QED BY <1>1, <1>5, <2>1, <2>5, <2>9, <2>10, QuietStep DEF TypeOK
<1>11. ASSUME NEW outcome \in {"anonymous", "outOfSync"},
              tab' = [tab EXCEPT ![t] = Continue([Cleared(r) EXCEPT !.run = NoReq], ck, outcome)],
              lock' = lock \ {t}, chan' \in [Tabs -> Seq(Events)]
       PROVE  ACore' /\ [Abstract!BNext]_(Abstract!bvars)
  <2> DEFINE c == Cleared(r)
  <2>1. tab' = [tab EXCEPT ![t] = Continue([c EXCEPT !.run = NoReq], ck, outcome)] BY <1>11
  <2>2. /\ c \in TabStates /\ c.mem = NoSid /\ c.boot = "complete"
        /\ c.op = r.op /\ c.run = [r.run EXCEPT !.current = FALSE]
    BY <1>1, ClearedFacts
  <2>3. c.run.at = "rsp" BY <1>2, <1>3, <2>2, SupersededFacts
  <2> HIDE DEF c
  <2>4. OpShape(c) BY <1>6, <2>2, <2>3 DEF OpShape
  <2>5. Known(c.mem, c.av) BY <2>2 DEF Known
  <2>6. outcome # "authenticated" BY <1>11
  <2>7. c.op = tab[t].op BY <2>2
  <2> HIDE DEF a, r
  <2> QED BY <1>2, <1>4, <1>5, <1>11, <2>1, <2>2, <2>3, <2>4, <2>5, <2>6, <2>7, SettleStep
<1>12. CASE r.run.current /\ a.kind = "denied"
  <2>1. r.mem \in Sids \cup {NoSid} BY <1>1, TabTypes
  <2>2. Publish(t, "signed_out", r.mem) BY <1>12 DEF RefreshReturns
  <2>3. chan' \in [Tabs -> Seq(Events)] BY <1>7, <2>1, <2>2, PublishTypes
  <2> QED BY <1>11, <1>12, <2>3 DEF RefreshReturns, Settle, Set, ck
<1>13. CASE r.run.current /\ (a.kind = "refused" \/ (a.kind = "mismatch" /\ r.run.again))
  BY <1>7, <1>11, <1>13 DEF RefreshReturns, Settle, Set, ck
<1>14. CASE r.run.current /\ a.kind = "down"
  <2> DEFINE b == [r EXCEPT !.boot = "idle"]
  <2>1. /\ tab' = [tab EXCEPT ![t] = Continue([b EXCEPT !.run = NoReq], ck, "transient")]
        /\ lock' = lock \ {t} /\ chan' = chan
    BY <1>14 DEF RefreshReturns, Settle, Set, ck
  <2>2. b \in TabStates /\ b.mem = r.mem /\ b.av = r.av /\ b.op = r.op /\ b.run = r.run BY <1>1 DEF TabStates
  <2> HIDE DEF b
  <2>3. OpShape(b) BY <1>2, <1>6, <2>2 DEF OpShape
  <2>4. Known(b.mem, b.av) /\ b.run.at # "none" BY <1>2, <1>6, <2>2
  <2>5. b.op = tab[t].op /\ b.mem = tab[t].mem BY <2>2
  <2> HIDE DEF a, r
  <2> QED BY <1>2, <1>4, <1>5, <1>7, <2>1, <2>2, <2>3, <2>4, <2>5, SettleStep
<1> QED BY <1>8, <1>9, <1>10, <1>12, <1>13, <1>14 DEF RefreshReturns

\* handleLoginSuccess.
LEMMA LoginReturnsCore ==
    ASSUME ACore, NEW t \in Tabs, LoginReturns(t)
    PROVE  ACore' /\ [Abstract!BNext]_(Abstract!bvars)
<1> DEFINE r == tab[t]
           a == r.op.ans
           wanted == a.kind = "ok" /\ r.mem = r.op.sid
           x == Ended(IF wanted THEN Bundle(r, a) ELSE r)
<1>1. TabGood(r, left[t]) /\ r \in TabStates /\ TypeOK /\ Known(cookie.sid, 0) BY ACoreFacts
<1>2. /\ r.op.at = "rsp" /\ r.op.kind = "login" /\ cookie' = Jar(a)
      /\ tab' = [tab EXCEPT ![t] = x]
      /\ Publish(t, "authenticated", IF wanted THEN a.tok.sid ELSE NoSid)
      /\ UNCHANGED <<row, av, lock, orphans, left, lost, runs, ops, faults>>
  BY DEF LoginReturns, Set, SetCookie
<1>3. a \in Answers /\ Known(a.tok.sid, a.av) /\ a.tok.sid \in Sids \cup {NoSid}
  BY <1>1, <1>2, TabTypes, RequestTypes DEF TabGood, ReqKnown
<1>4. Jar(a) \in Tokens /\ (Jar(a).sid # NoSid => Issued(Jar(a).sid))
  BY <1>1, <1>3, JarFacts DEF TypeOK
<1>5. chan' \in [Tabs -> Seq(Events)] BY <1>1, <1>2, <1>3, PublishTypes DEF TypeOK
<1>6. TabGood(x, left[t]) /\ (x.mem = r.mem \/ (r.mem = NoSid /\ x.mem \notin left[t]))
  <2>1. CASE ~wanted BY <1>1, <2>1, EndedGood
  <2>2. CASE wanted
    <3>1. r.mem = NoSid /\ a.tok.sid \notin left[t] BY <1>1, <1>2, <2>2 DEF TabGood, OpShape
    <3>2. TabGood(Ended(Bundle(r, a)), left[t]) /\ Ended(Bundle(r, a)).mem = a.tok.sid BY <1>1, <1>3, BundleGood
    <3>3. x = Ended(Bundle(r, a)) BY <2>2
    <3> QED BY <3>1, <3>2, <3>3
  <2> QED BY <2>1, <2>2
<1> HIDE DEF x, wanted, a
<1> QED BY <1>1, <1>2, <1>4, <1>5, <1>6, QuietStep DEF TypeOK

\* applyAuthRotation.
LEMMA SecureReturnsCore ==
    ASSUME ACore, NEW t \in Tabs, SecureReturns(t)
    PROVE  ACore' /\ [Abstract!BNext]_(Abstract!bvars)
<1> DEFINE r == tab[t]
           a == r.op.ans
           wanted == a.kind = "ok" /\ r.mem = a.tok.sid
           x == Ended(IF wanted THEN Bundle(r, a) ELSE r)
<1>1. TabGood(r, left[t]) /\ r \in TabStates /\ TypeOK /\ Known(cookie.sid, 0) BY ACoreFacts
<1>2. /\ r.op.at = "rsp" /\ tab' = [tab EXCEPT ![t] = x]
      /\ UNCHANGED <<row, av, cookie, chan, lock, orphans, left, lost, runs, ops, faults>>
  BY DEF SecureReturns, Set
<1>3. a \in Answers /\ Known(a.tok.sid, a.av)
  BY <1>1, <1>2, TabTypes, RequestTypes DEF TabGood, ReqKnown
<1>4. cookie.sid # NoSid => Issued(cookie.sid) BY <1>1 DEF Known
<1>5. TabGood(x, left[t]) /\ x.mem = r.mem
  <2>1. CASE ~wanted BY <1>1, <2>1, EndedGood
  <2>2. CASE wanted
    <3>1. TabGood(Ended(Bundle(r, a)), left[t]) /\ Ended(Bundle(r, a)).mem = a.tok.sid BY <1>1, <1>3, BundleGood
    <3> QED BY <2>2, <3>1
  <2> QED BY <2>1, <2>2
<1> HIDE DEF x, wanted, a
<1> QED BY <1>1, <1>2, <1>4, <1>5, QuietStep DEF TypeOK

\* executeLogout.
LEMMA LogoutReturnsCore ==
    ASSUME ACore, NEW t \in Tabs, LogoutReturns(t)
    PROVE  ACore' /\ [Abstract!BNext]_(Abstract!bvars)
<1> DEFINE r == tab[t]
           a == r.op.ans
<1>1. TabGood(r, left[t]) /\ r \in TabStates /\ TypeOK /\ Known(cookie.sid, 0) BY ACoreFacts
<1>2. /\ r.op.at = "rsp" /\ r.op.kind = "logout" /\ cookie' = Jar(a)
      /\ UNCHANGED <<row, av, lock, orphans, lost, ops, faults>>
  BY DEF LogoutReturns, SetCookie
<1>3. a \in Answers /\ Known(a.tok.sid, a.av) /\ r.mem \in Sids \cup {NoSid} /\ r.op.sid \in Sids \cup {NoSid}
      /\ Known(r.op.sid, r.op.av)
  BY <1>1, <1>2, TabTypes, RequestTypes DEF TabGood, ReqKnown
<1>4. Jar(a) \in Tokens /\ (Jar(a).sid # NoSid => Issued(Jar(a).sid))
  BY <1>1, <1>3, JarFacts DEF TypeOK
<1>5. CASE a.kind = "ok"
  <2> DEFINE gone == IF r.op.sid # NoSid /\ ~Active(r.op.sid) THEN {r.op.sid} ELSE {}
             c == Cleared(r)
             x == Ended(c)
             L2 == left[t] \cup gone
  <2>1. /\ tab' = [tab EXCEPT ![t] = x] /\ left' = [left EXCEPT ![t] = L2]
        /\ Publish(t, "signed_out", r.mem) /\ runs' = runs
    BY <1>5 DEF LogoutReturns, Set
  <2>2. chan' \in [Tabs -> Seq(Events)] BY <1>1, <1>3, <2>1, PublishTypes DEF TypeOK
  <2>3. r.op.ans.jar # "set" BY <1>1, <1>2 DEF TabGood, OpShape
  <2>4. TabGood(c, L2) /\ c.mem = NoSid BY <1>1, <2>3, ClearedGood
  <2>5. TabGood(x, L2) /\ x.mem = NoSid BY <2>4, EndedGood
  <2>6. \A s \in gone : s \in Sids /\ row[s].st \in {"revoked", "reused"}
    BY <1>1, <1>3 DEF Known, Issued, Active, TypeOK, Rows
  <2>7. left[t] \subseteq Sids /\ \A s \in left[t] : row[s].st \in {"revoked", "reused"} BY ACoreFacts
  <2>8. L2 = left[t] \/ \E s \in Sids : row[s].st \in {"revoked", "reused"} /\ L2 = left[t] \cup {s}
    BY <2>6
  <2> HIDE DEF gone, c, x
  <2>9. L2 \in SUBSET Sids /\ \A s \in L2 : row[s].st \in {"revoked", "reused"} BY <2>6, <2>7
  <2> HIDE DEF L2
  <2>10. MemStep(tab[t], left[t], x, L2) BY <2>5, <2>8 DEF MemStep
  <2>11. /\ cookie' \in Tokens /\ (cookie'.sid # NoSid => Issued(cookie'.sid))
         /\ lock' \subseteq Tabs /\ (\A u, w \in lock' : u = w) /\ lost' \in BOOLEAN /\ runs' \in Nat
         /\ ops' \in Nat /\ faults' \in Nat /\ row' = row /\ av' = av /\ orphans' = orphans
    BY <1>1, <1>2, <1>4, <2>1 DEF TypeOK
  <2> HIDE DEF a, r
  <2> QED BY <2>1, <2>2, <2>5, <2>9, <2>10, <2>11, TabStep
<1>6. CASE a.kind = "mismatch" /\ ~r.op.again
  <2>1. Join(t) /\ UNCHANGED <<chan, left>> BY <1>6 DEF LogoutReturns
  <2>2. PICK x : tab' = [tab EXCEPT ![t] = x] /\ TabGood(x, left[t]) /\ x.mem = tab[t].mem /\ runs' \in Nat
    BY <1>2, <1>6, <2>1, JoinGood
  <2> HIDE DEF a
  <2> QED BY <1>1, <1>2, <1>4, <2>1, <2>2, QuietStep DEF TypeOK
<1>7. CASE a.kind # "ok" /\ ~(a.kind = "mismatch" /\ ~r.op.again)
  <2>1. tab' = [tab EXCEPT ![t] = Ended(r)] /\ UNCHANGED <<chan, left, runs>> BY <1>7 DEF LogoutReturns, Set
  <2>2. TabGood(Ended(r), left[t]) /\ Ended(r).mem = r.mem BY <1>1, EndedGood
  <2> HIDE DEF a
  <2> QED BY <1>1, <1>2, <1>4, <2>1, <2>2, QuietStep DEF TypeOK
<1> QED BY <1>5, <1>6, <1>7 DEF LogoutReturns

\* The response interceptor of http-client.ts.
LEMMA ApiReturnsCore ==
    ASSUME ACore, NEW t \in Tabs, ApiReturns(t)
    PROVE  ACore' /\ [Abstract!BNext]_(Abstract!bvars)
<1> DEFINE r == tab[t]
<1>1. TabGood(r, left[t]) /\ r \in TabStates /\ TypeOK /\ Known(cookie.sid, 0) BY ACoreFacts
<1>2. /\ r.op.at = "rsp" /\ r.op.kind = "api"
      /\ UNCHANGED <<row, av, cookie, chan, lock, orphans, left, lost, ops, faults>>
  BY DEF ApiReturns
<1>3. cookie.sid # NoSid => Issued(cookie.sid) BY <1>1 DEF Known
<1>4. CASE r.op.ans.kind # "denied"
  <2>1. tab' = [tab EXCEPT ![t] = Ended(r)] /\ runs' = runs BY <1>4 DEF ApiReturns, Set
  <2>2. TabGood(Ended(r), left[t]) /\ Ended(r).mem = r.mem BY <1>1, EndedGood
  <2> QED BY <1>1, <1>2, <1>3, <2>1, <2>2, QuietStep DEF TypeOK
<1>5. CASE r.op.ans.kind = "denied" /\ ~r.op.again
  <2>1. Join(t) BY <1>5 DEF ApiReturns
  <2>2. PICK x : tab' = [tab EXCEPT ![t] = x] /\ TabGood(x, left[t]) /\ x.mem = tab[t].mem /\ runs' \in Nat
    BY <1>2, <1>5, <2>1, JoinGood
  <2> QED BY <1>1, <1>2, <1>3, <2>2, QuietStep DEF TypeOK
<1>6. CASE r.op.ans.kind = "denied" /\ r.op.again
  <2> DEFINE c == Cleared(r)
             q == [c.op EXCEPT !.at = "leave"]
             x == [c EXCEPT !.op = q]
  <2>1. r.run.at = "none" /\ r.op.ans.jar # "set" BY <1>1, <1>2, <1>6 DEF TabGood, OpShape
  <2>2. TabGood(c, left[t]) /\ c.mem = NoSid BY <1>1, <2>1, ClearedGood
  <2>3. c \in TabStates /\ c.op = r.op /\ c.run = [r.run EXCEPT !.current = FALSE] /\ c.boot = "complete"
    BY <1>1, ClearedFacts
  <2>4. r.run \in Requests /\ r.op \in Requests BY <1>1, TabTypes
  <2>5. c.run.at = "none" BY <2>1, <2>3, <2>4, SupersededFacts
  <2> HIDE DEF c
  <2>6. /\ q \in Requests /\ q.kind = "api" /\ q.at = "leave" /\ q.again = r.op.again /\ q.sid = r.op.sid
        /\ q.live = r.op.live /\ q.ck = r.op.ck /\ q.av = r.op.av
    <3>1. c.op \in Requests BY <2>3, <2>4
    <3>2. /\ q \in Requests /\ q.kind = c.op.kind /\ q.at = "leave" /\ q.again = c.op.again
          /\ q.sid = c.op.sid /\ q.live = c.op.live /\ q.ck = c.op.ck /\ q.av = c.op.av
      BY <3>1, MovedFacts
    <3> HIDE DEF q
    <3> QED BY <1>2, <2>3, <3>2
  <2>7. x = [c EXCEPT !.op.at = "leave"] BY <2>3 DEF TabStates
  <2>8. tab' = [tab EXCEPT ![t] = x] /\ runs' = runs BY <1>6, <2>7 DEF ApiReturns, Set, c
  <2> HIDE DEF q
  <2>9. x.op = q /\ x.mem = NoSid /\ x.run = c.run /\ x.boot = "complete" BY <2>2, <2>3 DEF TabStates
  <2>10. r.op.sid # NoSid /\ r.op.live BY <1>1, <1>2, <1>6 DEF TabGood, OpShape
  <2>11. OpShape(x) BY <2>5, <2>6, <2>9, <2>10 DEF OpShape
  <2>12. ReqKnown(q) BY <1>1, <2>6 DEF TabGood, ReqKnown
  <2>13. TabGood(x, left[t]) BY <2>2, <2>6, <2>11, <2>12, OpGood
  <2> HIDE DEF x
  <2> QED BY <1>1, <1>2, <1>3, <2>8, <2>9, <2>13, QuietStep DEF TypeOK
<1> QED BY <1>4, <1>5, <1>6 DEF ApiReturns

\* The access token expires.
LEMMA ExpireTokenCore ==
    ASSUME ACore, NEW t \in Tabs, ExpireToken(t)
    PROVE  ACore' /\ [Abstract!BNext]_(Abstract!bvars)
<1> DEFINE x == [tab[t] EXCEPT !.live = FALSE]
<1>1. TabGood(tab[t], left[t]) /\ tab[t] \in TabStates /\ TypeOK /\ Known(cookie.sid, 0) BY ACoreFacts
<1>2. /\ tab' = [tab EXCEPT ![t] = x] /\ ~tab[t].op.again
      /\ UNCHANGED <<row, av, cookie, chan, lock, orphans, left, lost, runs, ops, faults>>
  BY DEF ExpireToken, Set
<1>3. /\ x \in TabStates /\ x.mem = tab[t].mem /\ x.av = tab[t].av /\ x.run = tab[t].run /\ x.op = tab[t].op
      /\ x.boot = tab[t].boot
  BY <1>1 DEF TabStates
<1>4. cookie.sid # NoSid => Issued(cookie.sid) BY <1>1 DEF Known
<1> HIDE DEF x
<1>5. TabGood(x, left[t]) BY <1>1, <1>2, <1>3 DEF TabGood, RunShape, OpShape
<1> QED BY <1>1, <1>2, <1>3, <1>4, <1>5, QuietStep DEF TypeOK

\* A page just loaded is good.
LEMMA FreshGood == \A L : TabGood(FreshTab, L)
<1>1. RunShape(FreshTab) BY FreshFacts, NoReqFacts DEF RunShape
<1>2. OpShape(FreshTab) BY FreshFacts, NoReqFacts DEF OpShape
<1>3. Known(FreshTab.mem, FreshTab.av) BY FreshFacts DEF Known
<1> QED BY <1>1, <1>2, <1>3, FreshFacts, NoReqFacts, NoReqKnown DEF TabGood

\* A page is replaced.
LEMMA UnloadCore ==
    ASSUME ACore, NEW t \in Tabs, Unload(t), UNCHANGED <<row, av, cookie, left, runs, ops>>,
           chan' = [chan EXCEPT ![t] = <<>>], faults' \in Nat
    PROVE  ACore' /\ [Abstract!BNext]_(Abstract!bvars)
<1>1. TypeOK /\ Known(cookie.sid, 0) BY ACoreFacts
<1>2. /\ tab' = [tab EXCEPT ![t] = FreshTab] /\ lock' = lock \ {t}
      /\ orphans' = orphans \cup {q \in {tab[t].run, tab[t].op} : Pending(q)}
      /\ lost' = (lost \/ tab[t].run.at \in {"req", "rsp"})
  BY DEF Unload, Set
<1>3. PICK L2 : L2 = left[t] OBVIOUS
<1>4. L2 \in SUBSET Sids /\ left' = [left EXCEPT ![t] = L2] /\ \A s \in L2 : row[s].st \in {"revoked", "reused"}
  BY <1>1, <1>3, ACoreFacts DEF TypeOK
<1>5. TabGood(FreshTab, L2) BY FreshGood
<1>6. MemStep(tab[t], left[t], FreshTab, L2) BY <1>3, FreshFacts DEF MemStep
<1>7. chan' \in [Tabs -> Seq(Events)]
  <2>1. <<>> \in Seq(Events) OBVIOUS
  <2> QED BY <1>1, <2>1 DEF TypeOK
<1>8. /\ cookie' \in Tokens /\ (cookie'.sid # NoSid => Issued(cookie'.sid))
      /\ lock' \subseteq Tabs /\ (\A u, w \in lock' : u = w) /\ lost' \in BOOLEAN /\ runs' \in Nat
      /\ ops' \in Nat /\ row' = row /\ av' = av
  BY <1>1, <1>2 DEF TypeOK, Known
<1>9. \A q \in orphans' : q \in orphans \/ (q \in {tab[t].run, tab[t].op} /\ Pending(q)) BY <1>2
<1> QED BY <1>2, <1>4, <1>5, <1>6, <1>7, <1>8, <1>9, TabStep

\* A step that only delivers, discards or loses events.
LEMMA EventStep ==
    ASSUME ACore, UNCHANGED <<row, av, cookie, tab, lock, orphans, left, lost>>,
           chan' \in [Tabs -> Seq(Events)], runs' \in Nat, ops' \in Nat, faults' \in Nat
    PROVE  ACore' /\ [Abstract!BNext]_(Abstract!bvars)
<1>1. ACore'
  <2>1. TypeOK /\ Known(cookie.sid, 0) /\ \A s \in Sids : row[s].av <= av BY ACoreFacts
  <2>2. Known(cookie.sid, 0)' BY <2>1 DEF Known, Issued
  <2>3. \A s \in Sids : /\ Moves(row[s], row'[s]) /\ row'[s].av <= av'
                        /\ row'[s].st = "none" => row'[s].gen = row[s].gen
    BY <2>1 DEF TypeOK, Moves, Rows
  <2> QED BY <2>1, <2>2, <2>3, AStep DEF TypeOK
<1>2. UNCHANGED Abstract!bvars BY DEF Abstract!bvars
<1> QED BY <1>1, <1>2

\* The listener of routes/__root.tsx.
LEMMA OnAuthenticatedCore ==
    ASSUME ACore, NEW t \in Tabs, OnAuthenticated(t)
    PROVE  ACore' /\ [Abstract!BNext]_(Abstract!bvars)
<1>1. TypeOK BY ACoreFacts
<1>2. UNCHANGED <<row, av, cookie, left, runs, ops, faults>> /\ runs' \in Nat /\ ops' \in Nat /\ faults' \in Nat
  BY <1>1 DEF OnAuthenticated, TypeOK
<1>3. CASE chan' = [chan EXCEPT ![t] = Tail(@)] /\ UNCHANGED <<tab, lock, orphans, lost>>
  <2>1. chan[t] \in Seq(Events) /\ chan[t] # <<>> BY <1>1 DEF TypeOK, OnAuthenticated
  <2>2. chan' \in [Tabs -> Seq(Events)] BY <1>1, <1>3, <2>1 DEF TypeOK
  <2> QED BY <1>2, <1>3, <2>2, EventStep
<1>4. CASE Unload(t) /\ chan' = [chan EXCEPT ![t] = <<>>]
  BY <1>2, <1>4, UnloadCore
<1> QED BY <1>3, <1>4 DEF OnAuthenticated

\* ... or signed out.
LEMMA OnSignedOutCore ==
    ASSUME ACore, NEW t \in Tabs, OnSignedOut(t)
    PROVE  ACore' /\ [Abstract!BNext]_(Abstract!bvars)
<1> DEFINE x == IF Head(chan[t]).sid = tab[t].mem THEN Cleared(tab[t]) ELSE tab[t]
<1>1. TabGood(tab[t], left[t]) /\ tab[t] \in TabStates /\ TypeOK /\ Known(cookie.sid, 0) BY ACoreFacts
<1>2. /\ tab' = [tab EXCEPT ![t] = x] /\ chan' = [chan EXCEPT ![t] = Tail(@)] /\ chan[t] # <<>>
      /\ UNCHANGED <<row, av, cookie, lock, orphans, left, lost, runs, ops, faults>>
  BY DEF OnSignedOut, Set
<1>3. chan' \in [Tabs -> Seq(Events)]
  <2>1. chan[t] \in Seq(Events) BY <1>1 DEF TypeOK
  <2> QED BY <1>1, <1>2, <2>1 DEF TypeOK
<1>4. TabGood(x, left[t]) /\ x.mem \in {tab[t].mem, NoSid}
  <2>1. TabGood(Cleared(tab[t]), left[t]) /\ Cleared(tab[t]).mem = NoSid BY <1>1, ClearedGood DEF TabGood
  <2> QED BY <1>1, <2>1
<1>5. cookie.sid # NoSid => Issued(cookie.sid) BY <1>1 DEF Known
<1> HIDE DEF x
<1> QED BY <1>1, <1>2, <1>3, <1>4, <1>5, QuietStep DEF TypeOK

\* redirectToSignIn, reloads and stale events.
LEMMA LeaveCore ==
    ASSUME ACore, NEW t \in Tabs, Leave(t) \/ Reload(t) \/ StaleEvent(t)
    PROVE  ACore' /\ [Abstract!BNext]_(Abstract!bvars)
<1>1. TypeOK BY ACoreFacts
<1>2. CASE Leave(t)
  BY <1>1, <1>2, UnloadCore DEF Leave, TypeOK
<1>3. CASE Reload(t)
  <2>1. faults' \in Nat BY <1>1, <1>3 DEF Reload, Fault, TypeOK
  <2> QED BY <1>3, <2>1, UnloadCore DEF Reload
<1>4. CASE StaleEvent(t)
  <2>1. chan[t] \in Seq(Events) /\ chan[t] # <<>> BY <1>1, <1>4 DEF TypeOK, StaleEvent
  <2>2. chan' \in [Tabs -> Seq(Events)] BY <1>1, <1>4, <2>1 DEF TypeOK, StaleEvent
  <2> QED BY <1>1, <1>4, <2>2, EventStep DEF StaleEvent, Fault, TypeOK
<1> QED BY <1>2, <1>3, <1>4

\* A refresh is lost or refused.
LEMMA FailRunCore ==
    ASSUME ACore, NEW t \in Tabs, NEW k \in {"down", "refused"}, FailRun(t, k)
    PROVE  ACore' /\ [Abstract!BNext]_(Abstract!bvars)
<1> DEFINE r == tab[t]
           a == Failure(k)
           q == [r.run EXCEPT !.at = "rsp", !.ans = a]
           x == [r EXCEPT !.run = q]
<1>1. TabGood(r, left[t]) /\ r \in TabStates /\ TypeOK /\ Known(cookie.sid, 0) BY ACoreFacts
<1>2. r.run \in Requests /\ r.run.at \in {"req", "rsp"} BY <1>1, TabTypes DEF FailRun
<1>3. a \in Answers /\ a.kind = k /\ a.jar = "keep" /\ a.tok.sid = NoSid BY AnswerFacts
<1> HIDE DEF a
<1>4. /\ q \in Requests /\ q.current = r.run.current /\ q.kind = r.run.kind /\ q.at = "rsp" /\ q.ck = r.run.ck
      /\ q.sid = r.run.sid /\ q.av = r.run.av /\ q.ans = a
  <2> HIDE DEF r
  <2> QED BY <1>2, <1>3 DEF Requests
<1>5. x = [r EXCEPT !.run.at = "rsp", !.run.ans = a] BY <1>1, <1>2 DEF TabStates, Requests
<1>6. /\ tab' = [tab EXCEPT ![t] = x] /\ lost' = (lost \/ r.run.at = "rsp") /\ faults' \in Nat
      /\ UNCHANGED <<row, av, cookie, chan, lock, orphans, left, runs, ops>>
  <2> HIDE DEF x
  <2>1. faults' \in Nat BY <1>1 DEF FailRun, Fault, TypeOK
  <2> QED BY <1>5, <2>1 DEF FailRun, Set, a
<1> HIDE DEF q
<1>7. x \in TabStates /\ x.mem = r.mem /\ x.av = r.av /\ x.run = q /\ x.op = r.op /\ x.boot = r.boot
      /\ x.live = r.live
  BY <1>1, <1>4 DEF TabStates
<1> HIDE DEF x
<1>8. RunShape(x) BY <1>1, <1>2, <1>3, <1>4, <1>7 DEF TabGood, RunShape
<1>9. OpShape(x) BY <1>1, <1>2, <1>4, <1>7 DEF TabGood, OpShape
<1>10. ReqKnown(q) BY <1>1, <1>3, <1>4 DEF TabGood, ReqKnown, Known
<1>11. TabGood(x, left[t]) BY <1>1, <1>3, <1>4, <1>7, <1>8, <1>9, <1>10 DEF TabGood
<1>12. PICK L2 : L2 = left[t] OBVIOUS
<1>13. L2 \in SUBSET Sids /\ left' = [left EXCEPT ![t] = L2] /\ \A s \in L2 : row[s].st \in {"revoked", "reused"}
  BY <1>1, <1>6, <1>12, ACoreFacts DEF TypeOK
<1>14. MemStep(tab[t], left[t], x, L2) BY <1>7, <1>12 DEF MemStep
<1>15. /\ cookie' \in Tokens /\ (cookie'.sid # NoSid => Issued(cookie'.sid)) /\ chan' \in [Tabs -> Seq(Events)]
      /\ lock' \subseteq Tabs /\ (\A u, w \in lock' : u = w) /\ lost' \in BOOLEAN /\ runs' \in Nat
      /\ ops' \in Nat /\ row' = row /\ av' = av /\ orphans' = orphans
  BY <1>1, <1>6 DEF TypeOK, Known
<1>16. TabGood(x, L2) BY <1>11, <1>12
<1> HIDE DEF r
<1> QED BY <1>6, <1>13, <1>14, <1>15, <1>16, TabStep

\* An operation is lost.
LEMMA FailOpCore ==
    ASSUME ACore, NEW t \in Tabs, FailOp(t)
    PROVE  ACore' /\ [Abstract!BNext]_(Abstract!bvars)
<1> DEFINE r == tab[t]
           a == Failure("down")
           q == [r.op EXCEPT !.at = "rsp", !.ans = a]
           x == [r EXCEPT !.op = q]
<1>1. TabGood(r, left[t]) /\ r \in TabStates /\ TypeOK /\ Known(cookie.sid, 0) BY ACoreFacts
<1>2. r.op \in Requests /\ r.op.at \in {"req", "rsp"} BY <1>1, TabTypes DEF FailOp
<1>3. a \in Answers /\ a.kind = "down" /\ a.jar = "keep" /\ a.tok.sid = NoSid BY AnswerFacts
<1> HIDE DEF a
<1>4. /\ q \in Requests /\ q.again = r.op.again /\ q.kind = r.op.kind /\ q.at = "rsp" /\ q.ck = r.op.ck
      /\ q.sid = r.op.sid /\ q.av = r.op.av /\ q.live = r.op.live /\ q.ans = a
  <2> HIDE DEF r
  <2> QED BY <1>2, <1>3 DEF Requests
<1>5. x = [r EXCEPT !.op.at = "rsp", !.op.ans = a] BY <1>1, <1>2 DEF TabStates, Requests
<1>6. /\ tab' = [tab EXCEPT ![t] = x] /\ faults' \in Nat
      /\ UNCHANGED <<row, av, cookie, chan, lock, orphans, left, lost, runs, ops>>
  <2> HIDE DEF x
  <2>1. faults' \in Nat BY <1>1 DEF FailOp, Fault, TypeOK
  <2> QED BY <1>5, <2>1 DEF FailOp, Set, a
<1> HIDE DEF q
<1>7. x.run = r.run /\ x.op = q /\ x.mem = r.mem /\ x.boot = r.boot /\ x.live = r.live
  BY <1>1, <1>4 DEF TabStates
<1>8. OpShape(x) BY <1>1, <1>2, <1>3, <1>4, <1>7 DEF TabGood, OpShape
<1>9. ReqKnown(q) BY <1>1, <1>3, <1>4 DEF TabGood, ReqKnown, Known
<1>10. TabGood(x, left[t]) BY <1>1, <1>3, <1>4, <1>8, <1>9, OpGood
<1>11. cookie.sid # NoSid => Issued(cookie.sid) BY <1>1 DEF Known
<1> HIDE DEF x
<1> QED BY <1>1, <1>6, <1>7, <1>10, <1>11, QuietStep DEF TypeOK

--------------------------------------------------------------------------------
(* The steps of the server *)

\* A step of the server opens one session, or revokes some, or does neither.
LEMMA ServerRefines ==
    ASSUME row \in [Sids -> Rows], row' \in [Sids -> Rows], tab \in [Tabs -> TabStates], tab' \in [Tabs -> TabStates],
           left' = left, \A t \in Tabs : tab'[t].mem = tab[t].mem,
           \A s \in Sids : Moves(row[s], row'[s]),
           \/ \A s \in Sids : row[s].st = "none" => row'[s].st = "none"
           \/ \E s \in Sids : /\ row[s].st = "none" /\ row'[s].st = "active"
                              /\ \A x \in Sids \ {s} : row'[x] = row[x]
    PROVE  [Abstract!BNext]_(Abstract!bvars)
<1> DEFINE view == [u \in Tabs |-> tab[u].mem]
           issued == {s \in Sids : row[s].st # "none"}
           revoked == {s \in Sids : row[s].st \in {"revoked", "reused"}}
<1>1. view' = view OBVIOUS
<1>2. CASE \A s \in Sids : row[s].st = "none" => row'[s].st = "none"
  <2>1. issued' = issued BY <1>2 DEF Moves
  <2>0. PICK S : S = {s \in Sids : row'[s].st \in {"revoked", "reused"}} OBVIOUS
  <2>2. S \subseteq issued BY <1>2, <2>0
  <2>3. revoked' = revoked \cup S BY <2>0 DEF Moves
  <2>4. Abstract!Revoke(S) BY <1>1, <2>1, <2>2, <2>3 DEF Abstract!Revoke
  <2>5. S \in SUBSET Sids BY <2>0
  <2> QED BY <2>4, <2>5 DEF Abstract!BNext
<1>3. CASE \E s \in Sids : /\ row[s].st = "none" /\ row'[s].st = "active"
                           /\ \A x \in Sids \ {s} : row'[x] = row[x]
  <2>1. PICK s \in Sids : /\ row[s].st = "none" /\ row'[s].st = "active"
                          /\ \A x \in Sids \ {s} : row'[x] = row[x]
    BY <1>3
  <2>2. issued' = issued \cup {s} BY <2>1
  <2>3. revoked' = revoked BY <2>1
  <2>4. s \in Sids \ issued BY <2>1
  <2>5. Abstract!Open(s) BY <1>1, <2>2, <2>3, <2>4 DEF Abstract!Open
  <2> QED BY <2>5 DEF Abstract!BNext
<1> QED BY <1>2, <1>3

\* What is the same in ACore for every request that is served.
LEMMA ServeCommon ==
    ASSUME ACore, NEW q, Servable(q), row' = Serve(q).row, av' = Serve(q).av,
           UNCHANGED <<cookie, chan, lock, left, lost, runs, ops, faults>>
    PROVE  /\ row' \in [Sids -> Rows] /\ av' \in Nat /\ av <= av' /\ cookie' \in Tokens /\ Known(cookie.sid, 0)'
           /\ \A s \in Sids : /\ Moves(row[s], row'[s]) /\ row'[s].av <= av'
                              /\ row'[s].st = "none" => row'[s].gen = row[s].gen
           /\ \/ \A s \in Sids : row[s].st = "none" => row'[s].st = "none"
              \/ \E s \in Sids : /\ row[s].st = "none" /\ row'[s].st = "active"
                                 /\ \A x \in Sids \ {s} : row'[x] = row[x]
           /\ left' \in [Tabs -> SUBSET Sids]
           /\ chan' \in [Tabs -> Seq(Events)] /\ lock' \subseteq Tabs /\ (\A t, u \in lock' : t = u)
           /\ lost' \in BOOLEAN /\ runs' \in Nat /\ ops' \in Nat /\ faults' \in Nat
           /\ Answered(q) \in Requests
           /\ Answered(q).at = "bumped" => q.kind = "secure"
           /\ q.kind # "refresh" \/ Answered(q).at = "rsp"
           /\ ReqKnown(q)' /\ Answered(q).kind = q.kind /\ Answered(q).at \in {"bumped", "rsp"}
           /\ Answered(q).ck = q.ck /\ Answered(q).sid = q.sid /\ Answered(q).av = q.av
           /\ Answered(q).at = "bumped" => q.sid # NoSid /\ q.av < av'
           /\ Answered(q).at = "rsp" => /\ Answered(q).ans = Serve(q).ans
                                        /\ Serve(q).ans.tok.sid # NoSid =>
                                              /\ row'[Serve(q).ans.tok.sid].st # "none"
                                              /\ Serve(q).ans.av <= row'[Serve(q).ans.tok.sid].av
<1>1. TypeOK /\ Known(cookie.sid, 0) /\ (\A s \in Sids : row[s].av <= av) BY ACoreFacts
<1>2. row \in [Sids -> Rows] /\ av \in Nat /\ cookie \in Tokens BY <1>1 DEF TypeOK
<1> DEFINE e == Serve(q)
           p == Answered(q)
<1>3. /\ e.row \in [Sids -> Rows] /\ e.av \in Nat /\ e.ans \in Answers /\ av <= e.av
      /\ \A s \in Sids : /\ Moves(row[s], e.row[s]) /\ e.row[s].av <= e.av
                         /\ e.row[s].st = "none" => e.row[s].gen = row[s].gen
      /\ e.ans.tok.sid # NoSid =>
            e.row[e.ans.tok.sid].st # "none" /\ e.ans.av <= e.row[e.ans.tok.sid].av
      /\ e.ans = NoAnswer => q.kind = "secure" /\ q.sid # NoSid /\ q.av < e.av
      /\ \/ \A s \in Sids : row[s].st = "none" => e.row[s].st = "none"
         \/ q.kind = "login" /\ \E s \in Sids : /\ row[s].st = "none" /\ e.row[s].st = "active"
                                               /\ \A x \in Sids \ {s} : e.row[x] = row[x]
  BY <1>1, <1>2, ServeFacts
<1>4. /\ p \in Requests /\ p.kind = q.kind /\ p.ck = q.ck /\ p.sid = q.sid /\ p.av = q.av
      /\ \/ p.at = "bumped" /\ e.ans = NoAnswer
         \/ p.at = "rsp" /\ p.ans = e.ans /\ e.ans # NoAnswer
  BY <1>1, <1>2, AnsweredFacts
<1> HIDE DEF e, p
<1>5. row' = e.row /\ av' = e.av BY DEF e
<1>6. Known(cookie.sid, 0)' BY <1>1, <1>2, <1>3, <1>5 DEF Known, Issued, Moves, Tokens, Rows
<1>7. q \in Requests /\ ReqKnown(q) BY DEF Servable
<1>8. ReqKnown(q)' BY <1>2, <1>3, <1>5, <1>7, KnownGrows
<1>9. /\ left' \in [Tabs -> SUBSET Sids]
      /\ chan' \in [Tabs -> Seq(Events)] /\ lock' \subseteq Tabs /\ (\A t, u \in lock' : t = u)
      /\ lost' \in BOOLEAN /\ runs' \in Nat /\ ops' \in Nat /\ faults' \in Nat
  BY <1>1 DEF TypeOK
<1> QED BY <1>2, <1>3, <1>4, <1>5, <1>6, <1>8, <1>9 DEF e, p

\* The server serves a refresh.
LEMMA ServeRunCore ==
    ASSUME ACore, NEW t \in Tabs, ServeRun(t)
    PROVE  ACore' /\ [Abstract!BNext]_(Abstract!bvars)
<1>1. PICK r, L, q : r = tab[t] /\ L = left[t] /\ q = tab[t].run OBVIOUS
<1>2. TabGood(r, L) /\ r \in TabStates /\ TypeOK /\ q \in Requests BY <1>1, ACoreFacts, TabTypes
<1>3. q.at = "req" /\ q.kind = "refresh" BY <1>1, <1>2 DEF ServeRun, TabGood, RunShape
<1>4. Servable(q) BY <1>1, <1>2, <1>3 DEF Servable, TabGood, Pending
<1>5. row \in [Sids -> Rows] /\ av \in Nat /\ (\A s \in Sids : row[s].av <= av) BY ACoreFacts DEF TypeOK
<1>6. PICK p : p = Answered(q) OBVIOUS
<1> DEFINE x == [r EXCEPT !.run = p]
<1>7. /\ row' = Serve(q).row /\ av' = av /\ tab' = [tab EXCEPT ![t] = x]
      /\ UNCHANGED <<cookie, chan, lock, orphans, left, lost, runs, ops, faults>>
  BY <1>1, <1>6 DEF ServeRun, Set
<1>8. Serve(q).av = av BY <1>3, <1>4, <1>5, ServeFacts
<1>9. /\ row' \in [Sids -> Rows] /\ av' \in Nat /\ av <= av' /\ cookie' \in Tokens /\ Known(cookie.sid, 0)'
      /\ \A s \in Sids : /\ Moves(row[s], row'[s]) /\ row'[s].av <= av'
                         /\ row'[s].st = "none" => row'[s].gen = row[s].gen
      /\ \/ \A s \in Sids : row[s].st = "none" => row'[s].st = "none"
         \/ \E s \in Sids : /\ row[s].st = "none" /\ row'[s].st = "active"
                            /\ \A y \in Sids \ {s} : row'[y] = row[y]
      /\ left' \in [Tabs -> SUBSET Sids]
      /\ chan' \in [Tabs -> Seq(Events)] /\ lock' \subseteq Tabs /\ (\A u, w \in lock' : u = w)
      /\ lost' \in BOOLEAN /\ runs' \in Nat /\ ops' \in Nat /\ faults' \in Nat
  BY <1>4, <1>7, <1>8, ServeCommon
<1>10. /\ p \in Requests /\ p.at = "rsp" /\ p.kind = "refresh" /\ p.ck = q.ck /\ p.sid = q.sid /\ p.av = q.av
       /\ p.ans = Serve(q).ans
       /\ p.ans.tok.sid # NoSid => row'[p.ans.tok.sid].st # "none" /\ p.ans.av <= row'[p.ans.tok.sid].av
  BY <1>3, <1>4, <1>6, <1>7, <1>8, ServeCommon
<1>11. ReqKnown(q)' BY <1>4, <1>7, <1>8, ServeCommon
<1>12. p.current = q.current BY <1>4, <1>5, <1>6, AnsweredFacts
<1>13. /\ p.ans.kind = "ok" <=> p.ans.jar = "set"
       /\ p.ans.kind = "ok" => /\ q.ck.sid # NoSid /\ p.ans.tok.sid = q.ck.sid /\ q.sid \in {NoSid, q.ck.sid}
                               /\ row[q.ck.sid].st = "active"
       /\ p.ans.kind = "mismatch" => q.sid # q.ck.sid
  <2> DEFINE e == ServeRefresh(q)
  <2>1. Serve(q) = e BY <1>3 DEF Serve
  <2>2. /\ e.ans.kind = "ok" <=> e.ans.jar = "set"
        /\ e.ans.kind = "ok" => /\ q.ck.sid # NoSid /\ e.ans.tok = Token(q.ck.sid, e.row[q.ck.sid].gen)
                                /\ q.sid \in {NoSid, q.ck.sid} /\ row[q.ck.sid].st = "active"
        /\ e.ans.kind = "mismatch" => q.sid # q.ck.sid
    BY <1>2, <1>5, RefreshServed
  <2> HIDE DEF e
  <2> QED BY <1>10, <2>1, <2>2 DEF Token
<1>14. /\ x \in TabStates /\ x.mem = r.mem /\ x.av = r.av /\ x.run = p /\ x.op = r.op /\ x.boot = r.boot
       /\ x.live = r.live
  BY <1>2, <1>10 DEF TabStates
<1>15. r.run = q BY <1>1
<1> HIDE DEF x
<1>16. tab'[t] = x /\ left'[t] = L /\ tab' \in [Tabs -> TabStates] /\ tab \in [Tabs -> TabStates]
  BY <1>1, <1>2, <1>7, <1>14 DEF TypeOK
<1>17. TabGood(r, L)' BY <1>2, <1>5, <1>9, TabGoodGrows
<1>18. RunShape(x) BY <1>2, <1>3, <1>10, <1>12, <1>13, <1>14, <1>15 DEF TabGood, RunShape
<1>19. OpShape(x) BY <1>2, <1>3, <1>10, <1>14, <1>15 DEF TabGood, OpShape
<1>20. ReqKnown(p)' BY <1>10, <1>11 DEF ReqKnown, Known, Issued
<1>21. p.ans.kind = "ok" => p.ans.tok.sid \notin L
  <2>1. \A s \in L : row[s].st \in {"revoked", "reused"} BY <1>1, ACoreFacts
  <2> QED BY <1>13, <2>1
<1>22. TabGood(tab[t], left[t])'
  <2>1. RunShape(tab[t])' /\ OpShape(tab[t])' BY <1>16, <1>18, <1>19, ZenonT(40) DEF RunShape, OpShape
  <2>2. ReqKnown(tab[t].run)' /\ ReqKnown(tab[t].op)' /\ Known(tab[t].mem, tab[t].av)'
    BY <1>14, <1>16, <1>17, <1>20, ZenonT(40) DEF TabGood, ReqKnown, Known, Issued
  <2>3. /\ tab'[t].op.at = "rsp" /\ tab'[t].op.ans.jar = "set" => tab'[t].op.ans.tok.sid \notin left'[t]
        /\ tab'[t].run.at = "rsp" /\ tab'[t].run.current /\ tab'[t].run.ans.kind = "ok" =>
              tab'[t].run.ans.tok.sid \notin left'[t]
    BY <1>2, <1>14, <1>16, <1>21 DEF TabGood
  <2> QED BY <1>14, <1>16, <2>1, <2>2, <2>3 DEF TabGood
<1>23. \A u \in Tabs : \/ tab'[u] = tab[u] /\ left'[u] = left[u]
                       \/ /\ TabGood(tab[u], left[u])'
                          /\ \A s \in left'[u] : row'[s].st \in {"revoked", "reused"}
  <2>1. \A s \in left[t] : s \in Sids /\ row[s].st \in {"revoked", "reused"} BY ACoreFacts
  <2>2. \A s \in left'[t] : row'[s].st \in {"revoked", "reused"} BY <1>1, <1>9, <1>16, <2>1 DEF Moves
  <2>3. \A u \in Tabs \ {t} : tab'[u] = tab[u] /\ left'[u] = left[u] BY <1>7, <1>16
  <2> QED BY <1>22, <2>2, <2>3
<1>24. \A u \in Tabs : tab'[u].mem = tab[u].mem BY <1>1, <1>7, <1>14, <1>16
<1>25. ACore' BY <1>7, <1>9, <1>16, <1>23, AStep
<1>26. [Abstract!BNext]_(Abstract!bvars) BY <1>5, <1>7, <1>9, <1>16, <1>24, ServerRefines
<1> QED BY <1>25, <1>26

\* The server serves a user operation.
LEMMA ServeOpCore ==
    ASSUME ACore, NEW t \in Tabs, ServeOp(t)
    PROVE  ACore' /\ [Abstract!BNext]_(Abstract!bvars)
<1>1. PICK r, L, q : r = tab[t] /\ L = left[t] /\ q = tab[t].op OBVIOUS
<1>2. TabGood(r, L) /\ r \in TabStates /\ TypeOK /\ q \in Requests BY <1>1, ACoreFacts, TabTypes
<1>3. Pending(q) /\ q.kind \in {"login", "logout", "api", "secure"} /\ (q.at = "bumped" => q.kind = "secure")
  BY <1>1, <1>2 DEF ServeOp, TabGood, OpShape, Pending
<1>4. Servable(q) BY <1>1, <1>2, <1>3 DEF Servable, TabGood
<1>5. row \in [Sids -> Rows] /\ av \in Nat /\ (\A s \in Sids : row[s].av <= av) BY ACoreFacts DEF TypeOK
<1>6. PICK p : p = Answered(q) OBVIOUS
<1> DEFINE x == [r EXCEPT !.op = p]
<1>7. /\ row' = Serve(q).row /\ av' = Serve(q).av /\ tab' = [tab EXCEPT ![t] = x]
      /\ UNCHANGED <<cookie, chan, lock, orphans, left, lost, runs, ops, faults>>
  BY <1>1, <1>6 DEF ServeOp, Set
<1>9. /\ row' \in [Sids -> Rows] /\ av' \in Nat /\ av <= av' /\ cookie' \in Tokens /\ Known(cookie.sid, 0)'
      /\ \A s \in Sids : /\ Moves(row[s], row'[s]) /\ row'[s].av <= av'
                         /\ row'[s].st = "none" => row'[s].gen = row[s].gen
      /\ \/ \A s \in Sids : row[s].st = "none" => row'[s].st = "none"
         \/ \E s \in Sids : /\ row[s].st = "none" /\ row'[s].st = "active"
                            /\ \A y \in Sids \ {s} : row'[y] = row[y]
      /\ left' \in [Tabs -> SUBSET Sids]
      /\ chan' \in [Tabs -> Seq(Events)] /\ lock' \subseteq Tabs /\ (\A u, w \in lock' : u = w)
      /\ lost' \in BOOLEAN /\ runs' \in Nat /\ ops' \in Nat /\ faults' \in Nat
  BY <1>4, <1>7, ServeCommon
<1>10. /\ p \in Requests /\ p.at \in {"bumped", "rsp"} /\ p.kind = q.kind /\ p.ck = q.ck /\ p.sid = q.sid /\ p.av = q.av
       /\ p.at = "bumped" => q.kind = "secure" /\ q.sid # NoSid /\ q.av < av'
       /\ p.at = "rsp" =>
            /\ p.ans = Serve(q).ans
            /\ p.ans.tok.sid # NoSid => row'[p.ans.tok.sid].st # "none" /\ p.ans.av <= row'[p.ans.tok.sid].av
  BY <1>4, <1>6, <1>7, ServeCommon
<1>11. ReqKnown(q)' BY <1>4, <1>7, ServeCommon
<1>12. p.again = q.again /\ p.live = q.live BY <1>4, <1>5, <1>6, AnsweredFacts
<1>13. p.at = "rsp" =>
          /\ p.ans.jar = "set" => /\ p.kind = "login" /\ p.ans.kind = "ok"
                                  /\ row[p.ans.tok.sid].st = "none" /\ p.ans.tok.sid \in Sids
          /\ p.kind = "login" /\ p.ans.kind = "ok" =>
                p.ans.jar = "set" /\ p.ans.tok.sid # NoSid /\ p.ans.tok.gen = 0
  <2>1. CASE q.kind = "login"
    <3> DEFINE e == ServeLogin
    <3>1. Serve(q) = e BY <2>1 DEF Serve
    <3>2. \/ e.ans.kind = "refused" /\ e.ans.jar = "keep"
          \/ \E s \in Sids : row[s].st = "none" /\ e.ans.kind = "ok" /\ e.ans.jar = "set" /\ e.ans.tok = Token(s, 0)
      BY <1>5, LoginServed
    <3> HIDE DEF e
    <3>3. CASE e.ans.kind = "refused" /\ e.ans.jar = "keep" BY <1>10, <3>1, <3>3
    <3>4. CASE \E s \in Sids : row[s].st = "none" /\ e.ans.kind = "ok" /\ e.ans.jar = "set" /\ e.ans.tok = Token(s, 0)
      <4>1. PICK s \in Sids : row[s].st = "none" /\ e.ans.kind = "ok" /\ e.ans.jar = "set" /\ e.ans.tok = Token(s, 0)
        BY <3>4
      <4>2. e.ans.tok.sid = s /\ e.ans.tok.gen = 0 BY <4>1 DEF Token
      <4>3. s # NoSid BY SidFacts
      <4> QED BY <1>10, <2>1, <3>1, <4>1, <4>2, <4>3
    <3> QED BY <3>2, <3>3, <3>4
  <2>2. CASE q.kind # "login"
    <3>1. Serve(q).ans.jar # "set" BY <1>3, <1>4, <1>5, <2>2, ServeFacts
    <3> QED BY <1>10, <2>2, <3>1
  <2> QED BY <2>1, <2>2
<1>14. /\ x \in TabStates /\ x.mem = r.mem /\ x.av = r.av /\ x.run = r.run /\ x.op = p /\ x.boot = r.boot
       /\ x.live = r.live
  BY <1>2, <1>10 DEF TabStates
<1>15. r.op = q BY <1>1
<1> HIDE DEF x
<1>16. tab'[t] = x /\ left'[t] = L /\ tab' \in [Tabs -> TabStates] /\ tab \in [Tabs -> TabStates]
  BY <1>1, <1>2, <1>7, <1>14 DEF TypeOK
<1>17. TabGood(r, L)' BY <1>2, <1>5, <1>9, TabGoodGrows
<1>18. RunShape(x) BY <1>2, <1>14 DEF TabGood, RunShape
<1>19. OpShape(x)
  BY <1>2, <1>3, <1>10, <1>12, <1>13, <1>14, <1>15 DEF TabGood, OpShape, Pending
<1>20. ReqKnown(p)' BY <1>10, <1>11 DEF ReqKnown, Known, Issued
<1>21. p.at = "rsp" /\ p.ans.jar = "set" => p.ans.tok.sid \notin L
  <2>1. \A s \in L : row[s].st \in {"revoked", "reused"} BY <1>1, ACoreFacts
  <2> QED BY <1>13, <2>1
<1>22. TabGood(tab[t], left[t])'
  <2>1. RunShape(tab[t])' /\ OpShape(tab[t])' BY <1>16, <1>18, <1>19, ZenonT(40) DEF RunShape, OpShape
  <2>2. ReqKnown(tab[t].run)' /\ ReqKnown(tab[t].op)' /\ Known(tab[t].mem, tab[t].av)'
    BY <1>14, <1>16, <1>17, <1>20, ZenonT(40) DEF TabGood, ReqKnown, Known, Issued
  <2>3. /\ tab'[t].op.at = "rsp" /\ tab'[t].op.ans.jar = "set" => tab'[t].op.ans.tok.sid \notin left'[t]
        /\ tab'[t].run.at = "rsp" /\ tab'[t].run.current /\ tab'[t].run.ans.kind = "ok" =>
              tab'[t].run.ans.tok.sid \notin left'[t]
    BY <1>2, <1>14, <1>16, <1>21 DEF TabGood
  <2> QED BY <1>14, <1>16, <2>1, <2>2, <2>3 DEF TabGood
<1>23. \A u \in Tabs : \/ tab'[u] = tab[u] /\ left'[u] = left[u]
                       \/ /\ TabGood(tab[u], left[u])'
                          /\ \A s \in left'[u] : row'[s].st \in {"revoked", "reused"}
  <2>1. \A s \in left[t] : s \in Sids /\ row[s].st \in {"revoked", "reused"} BY ACoreFacts
  <2>2. \A s \in left'[t] : row'[s].st \in {"revoked", "reused"} BY <1>1, <1>9, <1>16, <2>1 DEF Moves
  <2>3. \A u \in Tabs \ {t} : tab'[u] = tab[u] /\ left'[u] = left[u] BY <1>7, <1>16
  <2> QED BY <1>22, <2>2, <2>3
<1>24. \A u \in Tabs : tab'[u].mem = tab[u].mem BY <1>1, <1>7, <1>14, <1>16
<1>25. ACore' BY <1>7, <1>9, <1>16, <1>23, AStep
<1>26. [Abstract!BNext]_(Abstract!bvars) BY <1>5, <1>7, <1>9, <1>16, <1>24, ServerRefines
<1> QED BY <1>25, <1>26

\* The server serves the request of a page that is gone.
LEMMA ServeOrphanCore ==
    ASSUME ACore, NEW q \in orphans, ServeOrphan(q)
    PROVE  ACore' /\ [Abstract!BNext]_(Abstract!bvars)
<1>1. OrphanGood(q) /\ TypeOK BY ACoreFacts
<1>2. Servable(q) BY <1>1 DEF Servable, OrphanGood, ReqKnown
<1>3. PICK p : p = Answered(q) OBVIOUS
<1>4. /\ row' = Serve(q).row /\ av' = Serve(q).av
      /\ orphans' = (orphans \ {q}) \cup {z \in {p} : Pending(z)}
      /\ UNCHANGED <<cookie, tab, chan, lock, left, lost, runs, ops, faults>>
  BY <1>3 DEF ServeOrphan
<1>5. /\ row' \in [Sids -> Rows] /\ av' \in Nat /\ av <= av' /\ cookie' \in Tokens /\ Known(cookie.sid, 0)'
      /\ \A s \in Sids : /\ Moves(row[s], row'[s]) /\ row'[s].av <= av'
                         /\ row'[s].st = "none" => row'[s].gen = row[s].gen
      /\ \/ \A s \in Sids : row[s].st = "none" => row'[s].st = "none"
         \/ \E s \in Sids : /\ row[s].st = "none" /\ row'[s].st = "active"
                            /\ \A y \in Sids \ {s} : row'[y] = row[y]
      /\ left' \in [Tabs -> SUBSET Sids]
      /\ chan' \in [Tabs -> Seq(Events)] /\ lock' \subseteq Tabs /\ (\A u, w \in lock' : u = w)
      /\ lost' \in BOOLEAN /\ runs' \in Nat /\ ops' \in Nat /\ faults' \in Nat
  BY <1>2, <1>4, ServeCommon
<1>6. /\ p \in Requests /\ p.kind = q.kind /\ p.ck = q.ck /\ p.sid = q.sid /\ p.av = q.av
      /\ p.at = "bumped" => q.kind = "secure" /\ q.sid # NoSid /\ q.av < av'
      /\ p.at \in {"bumped", "rsp"}
  BY <1>2, <1>3, <1>4, ServeCommon
<1>7. ReqKnown(q)' BY <1>2, <1>4, ServeCommon
<1>8. Pending(p) => OrphanGood(p)'
  BY <1>6, <1>7 DEF OrphanGood, ReqKnown, Known, Issued, Pending
<1>9. \A z \in orphans' : z \in orphans \/ OrphanGood(z)' BY <1>4, <1>8
<1>10. row \in [Sids -> Rows] /\ tab \in [Tabs -> TabStates] BY <1>1 DEF TypeOK
<1>11. ACore' BY <1>4, <1>5, <1>9, <1>10, AStep
<1>12. [Abstract!BNext]_(Abstract!bvars) BY <1>4, <1>5, <1>10, ServerRefines
<1> QED BY <1>11, <1>12

\* The request of a page that is gone is lost.
LEMMA DropOrphanCore ==
    ASSUME ACore, NEW q \in orphans, DropOrphan(q)
    PROVE  ACore' /\ [Abstract!BNext]_(Abstract!bvars)
<1>1. TypeOK /\ Known(cookie.sid, 0) /\ \A s \in Sids : row[s].av <= av BY ACoreFacts
<1>2. /\ orphans' = orphans \ {q}
      /\ UNCHANGED <<row, av, cookie, tab, chan, lock, left, lost, runs, ops, faults>>
  BY DEF DropOrphan
<1>3. Known(cookie.sid, 0)' BY <1>1, <1>2 DEF Known, Issued
<1>4. \A s \in Sids : /\ Moves(row[s], row'[s]) /\ row'[s].av <= av'
                      /\ row'[s].st = "none" => row'[s].gen = row[s].gen
  BY <1>1, <1>2 DEF TypeOK, Moves, Rows
<1>5. ACore' BY <1>1, <1>2, <1>3, <1>4, AStep DEF TypeOK
<1>6. UNCHANGED Abstract!bvars BY <1>2 DEF Abstract!bvars
<1> QED BY <1>5, <1>6

\* A row changes outside of any request of this browser.
LEMMA RowCore ==
    ASSUME ACore, NEW s \in Sids, GraceEnds(s) \/ RevokeElsewhere(s)
    PROVE  ACore' /\ [Abstract!BNext]_(Abstract!bvars)
<1>1. TypeOK /\ Known(cookie.sid, 0) /\ \A x \in Sids : row[x].av <= av BY ACoreFacts
<1>2. /\ UNCHANGED <<av, cookie, tab, chan, lock, orphans, left, lost, runs, faults>> /\ ops' \in Nat
      /\ \/ row' = [row EXCEPT ![s].grace = FALSE]
         \/ row' = [row EXCEPT ![s].st = "revoked"] /\ row[s].st = "active"
  BY <1>1 DEF GraceEnds, RevokeElsewhere, TypeOK, Active
<1>3. /\ row' \in [Sids -> Rows]
      /\ \A x \in Sids : /\ row'[x].gen = row[x].gen /\ row'[x].av = row[x].av
                         /\ row'[x].st = row[x].st \/ (row[x].st = "active" /\ row'[x].st = "revoked")
  <2>1. row \in [Sids -> Rows] BY <1>1 DEF TypeOK
  <2>2. CASE row' = [row EXCEPT ![s].grace = FALSE] BY <2>1, <2>2 DEF Rows
  <2>3. CASE row' = [row EXCEPT ![s].st = "revoked"] /\ row[s].st = "active" BY <2>1, <2>3 DEF Rows
  <2> QED BY <1>2, <2>2, <2>3
<1>4. \A x \in Sids : /\ Moves(row[x], row'[x]) /\ row'[x].av <= av'
                      /\ row'[x].st = "none" => row'[x].gen = row[x].gen
                      /\ row[x].st = "none" => row'[x].st = "none"
  BY <1>1, <1>2, <1>3 DEF TypeOK, Moves, Rows
<1>5. Known(cookie.sid, 0)' BY <1>1, <1>2, <1>3, <1>4 DEF Known, Issued, Moves, TypeOK, Tokens
<1>6. ACore' BY <1>1, <1>2, <1>3, <1>4, <1>5, AStep DEF TypeOK
<1>7. [Abstract!BNext]_(Abstract!bvars) BY <1>1, <1>2, <1>3, <1>4, ServerRefines DEF TypeOK
<1> QED BY <1>6, <1>7

\* The browser just opened.
LEMMA InitACore == Init => ACore /\ Abstract!BInit
<1> SUFFICES ASSUME Init PROVE ACore /\ Abstract!BInit
  OBVIOUS
<1>1. PICK s \in {NoSid, 1} :
          /\ row = [x \in Sids |-> [st |-> IF x = s THEN "active" ELSE "none",
                                   gen |-> 0, grace |-> FALSE, av |-> 1]]
          /\ cookie = Token(s, 0)
  BY DEF Init
<1>2. s \in Sids \cup {NoSid} BY SidFacts
<1>3. /\ row \in [Sids -> Rows]
      /\ \A x \in Sids : row[x].av = 1 /\ row[x].gen = 0 /\ row[x].st = IF x = s THEN "active" ELSE "none"
  BY <1>1 DEF Rows
<1>4. cookie \in Tokens /\ cookie.sid = s BY <1>1, <1>2 DEF Token, Tokens
<1>5. Known(cookie.sid, 0) BY <1>2, <1>3, <1>4 DEF Known, Issued
<1>6. av = 1 /\ tab = [t \in Tabs |-> FreshTab] /\ lock = {} /\ orphans = {} /\ left = [t \in Tabs |-> {}]
      /\ chan = [t \in Tabs |-> <<>>] /\ lost = FALSE /\ runs = 0 /\ ops = 0 /\ faults = 0
  BY DEF Init
<1>7. TypeOK
  <2>1. chan \in [Tabs -> Seq(Events)] BY <1>6
  <2> QED BY <1>3, <1>4, <1>6, <2>1, FreshFacts DEF TypeOK
<1>8. \A t \in Tabs : tab[t] = FreshTab /\ left[t] = {} BY <1>6
<1>9. TabGood(FreshTab, {}) BY FreshGood
<1>10. TokensKnown BY <1>3, <1>5, <1>6, <1>8, <1>9 DEF TokensKnown, TabGood
<1>11. LeftIsRevoked BY <1>8, FreshFacts, NoReqFacts DEF LeftIsRevoked
<1>12. ACore BY <1>7, <1>8, <1>9, <1>10, <1>11 DEF ACore, TabGood
<1>13. Abstract!BInit
  <2>1. [t \in Tabs |-> tab[t].mem] = [t \in Tabs |-> NoSid] BY <1>8, FreshFacts
  <2>2. {x \in Sids : row[x].st \in {"revoked", "reused"}} = {} BY <1>3
  <2> QED BY <1>6, <2>1, <2>2 DEF Abstract!BInit
<1> QED BY <1>12, <1>13


\* ACore is inductive, and its steps are steps of BrowserSession.
LEMMA NextACore ==
    ASSUME ACore, [Next]_vars
    PROVE  ACore' /\ [Abstract!BNext]_(Abstract!bvars)
<1>1. CASE UNCHANGED vars
  BY <1>1, EventStep DEF vars, ACore, TypeOK
<1>2. ASSUME NEW t \in Tabs, SubmitLogin(t) \/ SubmitLogout(t) \/ SubmitApi(t) \/ SubmitSecure(t)
      PROVE  ACore' /\ [Abstract!BNext]_(Abstract!bvars)
  BY <1>2, SubmitCore DEF SubmitLogin, SubmitLogout, SubmitApi, SubmitSecure
<1>3. ASSUME NEW t \in Tabs, FailRun(t, "down") \/ FailRun(t, "refused")
      PROVE  ACore' /\ [Abstract!BNext]_(Abstract!bvars)
  BY <1>3, FailRunCore
<1> QED BY <1>1, <1>2, <1>3, ServeRunCore, ServeOpCore, NavigateCore, GrantLockCore, RefreshReturnsCore,
           SubmitSecureExpiredCore, LoginReturnsCore, LogoutReturnsCore, ApiReturnsCore, SecureReturnsCore,
           ExpireTokenCore, OnAuthenticatedCore, OnSignedOutCore, LeaveCore, FailOpCore,
           ServeOrphanCore, DropOrphanCore, RowCore DEF Next

\* Whatever the browser does, ACore holds.
THEOREM ACoreCorrect == Spec => []ACore
<1>1. Init => ACore BY InitACore
<1>2. ACore /\ [Next]_vars => ACore' BY NextACore
<1> QED BY <1>1, <1>2, PTL DEF Spec

\* Types, and one holder of the Web Lock, for any number of tabs, sessions,
\* refreshes, operations and faults, with and without Web Locks.
THEOREM AuthTypeCorrect == Spec => []TypeOK
<1>1. ACore => TypeOK BY DEF ACore
<1> QED BY <1>1, ACoreCorrect, PTL

\* The tabs, the cookie and the server implement BrowserSession: a tab never
\* shows again a session that its sign-out revoked, and goes from one session to
\* another only through the signed-out state.
THEOREM BrowserSessionRefinement == Spec => ImplementsBrowserSession
<1>1. Init => Abstract!BInit BY InitACore
<1>2. ACore /\ [Next]_vars => [Abstract!BNext]_(Abstract!bvars) BY NextACore
<1> QED BY <1>1, <1>2, ACoreCorrect, PTL DEF Spec, ImplementsBrowserSession, Abstract!BSpec
================================================================================
