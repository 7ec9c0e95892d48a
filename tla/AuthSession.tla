------------------------------ MODULE AuthSession ------------------------------
(***************************************************************************)
(* Login sessions of the web console: the tabs of one browser (web/src/    *)
(* lib/auth-session.ts, lib/http-client.ts, lib/auth-session-sync.ts,      *)
(* stores/auth-store.ts) against the server that issues and rotates        *)
(* refresh tokens (service/auth_session.go, model/user_session.go).        *)
(*                                                                         *)
(* A tab keeps its session in memory only.  The refresh cookie is shared   *)
(* by all tabs: a request carries the cookie of the moment it is sent, and *)
(* a response rewrites it at the moment it arrives, whether or not the     *)
(* script still wants the answer.                                          *)
(*                                                                         *)
(* Abstractions.  A refresh secret is its generation: deriveNextRefresh-   *)
(* Secret is deterministic, so generation g has the one successor g + 1,   *)
(* AUTH_REFRESH_RACE is never answered and its delayed retries are left    *)
(* out.  authEpoch is the flag run.current of the refresh in flight.  A    *)
(* session's version advances exactly when its user_auth_version does, so  *)
(* av stands for both.  All sessions are of one user.  Redis is off: every *)
(* session read is the database row.  The session hint only lets a public  *)
(* page skip a refresh.  A tab has one user operation under way at a time, *)
(* besides its refresh.  Whether an access token has expired is judged     *)
(* when it is sent.  The statements of one refresh are one step, and so    *)
(* are the advance of a session and the revocation of the others.  The     *)
(* server's database does not fail: the code answers 401 and clears the    *)
(* cookie when it cannot read the session of a refresh, and 500 when the   *)
(* session is revoked between its check and its rotation.                  *)
(***************************************************************************)
EXTENDS Naturals, Sequences

CONSTANTS Tabs,
          MaxSids,     \* sessions the account limits let the server open
          HasLocks,    \* navigator.locks exists (secure context)
          MaxRuns,     \* bound on refreshes started
          MaxOps,      \* bound on user operations
          MaxFaults    \* bound on lost messages, odd answers and reloads

ASSUME AuthConstants ==
    /\ MaxSids \in Nat \ {0} /\ MaxRuns \in Nat /\ MaxOps \in Nat /\ MaxFaults \in Nat
    /\ HasLocks \in BOOLEAN

VARIABLES
    row,      \* [Sids -> user_sessions row]
    av,       \* users.auth_version
    cookie,   \* the refresh cookie of the browser
    tab,      \* [Tabs -> what the page's script holds]
    chan,     \* [Tabs -> session events not yet delivered]
    lock,     \* tabs holding the Web Lock "new-api:auth-refresh"
    orphans,  \* requests sent by pages that are gone
    left,     \* [Tabs -> sessions the tab has signed out of] (history)
    lost,     \* a refresh was abandoned between its request and its answer (history)
    runs, ops, faults

vars == <<row, av, cookie, tab, chan, lock, orphans, left, lost, runs, ops, faults>>

Sids  == 1 .. MaxSids
NoSid == 0
Token(s, g) == [sid |-> s, gen |-> g]
NoCookie    == Token(NoSid, 0)

\* kind: "ok"; 409 "mismatch"; 401 "denied"; no answer, 5xx or 429 "down"; any
\* other refusal "refused".  jar: what Set-Cookie does.
Answer(k, jar, tok, v) == [kind |-> k, jar |-> jar, tok |-> tok, av |-> v]
NoAnswer == Answer("none", "keep", NoCookie, 0)
Failure(k) == Answer(k, "keep", NoCookie, 0)

\* A request: the cookie, the session header and the access token it carries.
\* at: "none"; "lock" (a refresh waiting for the Web Lock); "joined" (an
\* operation awaiting a refresh); "req" sent; "bumped" half served; "rsp"
\* answered; "leave" (the page is about to be replaced).
NoReq == [kind |-> "none", at |-> "none", again |-> FALSE, current |-> TRUE,
          ck |-> NoCookie, sid |-> NoSid, av |-> 0, live |-> FALSE, ans |-> NoAnswer]

\* auth-store.ts; av and live are the version and the clock validity of the
\* access token.
FreshTab == [mem |-> NoSid, av |-> 0, live |-> FALSE, boot |-> "idle",
             run |-> NoReq, op |-> NoReq]

Active(s) == row[s].st = "active"

\* The browser was closed with session 1 open, or is new.
Init ==
    /\ \E s \in {NoSid, 1} :
          /\ row = [x \in Sids |-> [st |-> IF x = s THEN "active" ELSE "none",
                                   gen |-> 0, grace |-> FALSE, av |-> 1]]
          /\ cookie = Token(s, 0)
    /\ av = 1
    /\ tab = [t \in Tabs |-> FreshTab]
    /\ chan = [t \in Tabs |-> <<>>]
    /\ lock = {}
    /\ orphans = {}
    /\ left = [t \in Tabs |-> {}]
    /\ lost = FALSE
    /\ runs = 0 /\ ops = 0 /\ faults = 0
--------------------------------------------------------------------------------
(* What the script does to its own state. *)

\* applyAuthBundle: a new epoch supersedes the refresh in flight.
Bundle(r, a) ==
    [r EXCEPT !.mem = a.tok.sid, !.av = a.av, !.live = TRUE, !.boot = "complete",
              !.run.current = FALSE]

\* reset
Forgotten(r, b) == [r EXCEPT !.mem = NoSid, !.av = 0, !.live = FALSE, !.boot = b]

Cleared_KeepsEpoch(r) == Forgotten(r, "complete")

\* clearAuthentication
Cleared(r) == [Forgotten(r, "complete") EXCEPT !.run.current = FALSE]

\* publishAuthSessionEvent: to every other tab.
Publish(t, k, s) ==
    chan' = [u \in Tabs |-> IF u = t \/ s = NoSid THEN chan[u]
                            ELSE Append(chan[u], [kind |-> k, sid |-> s])]

\* A request sent now, with the cookie, the session and the token of this moment.
Sending(r, ck, k, again) ==
    [NoReq EXCEPT !.kind = k, !.at = "req", !.again = again, !.ck = ck,
                  !.sid = r.mem, !.av = r.av, !.live = r.live]

Refresh_NoLock(r) ==
    IF r.run.at # "none" THEN r ELSE [r EXCEPT !.run = Sending(r, cookie, "refresh", FALSE)]

\* refreshAuthentication: one refresh per page; later callers join it.
Refresh(r) ==
    IF r.run.at # "none" THEN r
    ELSE IF HasLocks THEN [r EXCEPT !.run = [NoReq EXCEPT !.kind = "refresh", !.at = "lock"]]
    ELSE [r EXCEPT !.run = Sending(r, cookie, "refresh", FALSE)]

MayRefresh(t) ==
    /\ tab[t].run.at = "none" => runs < MaxRuns
    /\ runs' = IF tab[t].run.at = "none" THEN runs + 1 ELSE runs

Set(t, r) == tab' = [tab EXCEPT ![t] = r]

\* The continuation of the caller that awaits the refresh: the 401 handler of
\* http-client.ts, executeLogout, getFreshAuthHeaders.
Continue(r, ck, outcome) ==
    IF r.op.at # "joined" THEN r
    ELSE IF outcome = "authenticated" \/ (r.op.kind = "secure" /\ r.live)
         THEN [r EXCEPT !.op = Sending(r, ck, r.op.kind, TRUE)]
    ELSE IF r.op.kind = "api" /\ outcome \in {"anonymous", "outOfSync"}
         THEN [r EXCEPT !.op.at = "leave"]
    ELSE [r EXCEPT !.op = NoReq]

Settle_KeepsLock(t, r, ck, outcome) ==
    /\ Set(t, Continue([r EXCEPT !.run = NoReq], ck, outcome))
    /\ UNCHANGED lock

\* The refresh promise settles and the Web Lock is released.
Settle(t, r, ck, outcome) ==
    /\ Set(t, Continue([r EXCEPT !.run = NoReq], ck, outcome))
    /\ lock' = lock \ {t}
--------------------------------------------------------------------------------
(* The server.  Each operator gives the session table, the user's version  *)
(* and the answer after serving request q.                                 *)

Effect(rw, v, a) == [row |-> rw, av |-> v, ans |-> a]

Rotates_Unguarded(q) == q.ck.gen = row[q.ck.sid].gen \/ row[q.ck.sid].grace

\* The compare-and-swap on refresh_hash: only the newest secret rotates.
Rotates(q) == q.ck.gen = row[q.ck.sid].gen

\* RefreshAuth, RefreshLoginSession, RotateUserSessionRefresh.
ServeRefresh(q) ==
    LET s == q.ck.sid
        dead(why) == Effect([row EXCEPT ![s].st = why], av,
                            Answer("denied", "clear", NoCookie, 0))
        ok(rw) == Effect(rw, av, Answer("ok", "set", Token(s, rw[s].gen), rw[s].av))
        no == Effect(row, av, Answer("denied", "clear", NoCookie, 0))
    IN  IF s = NoSid THEN no
        ELSE IF q.sid \notin {NoSid, s} THEN Effect(row, av, Failure("mismatch"))
        ELSE IF ~Active(s) THEN no
        ELSE IF row[s].av # av THEN dead("revoked")
        ELSE IF Rotates(q) THEN ok([row EXCEPT ![s].gen = @ + 1, ![s].grace = TRUE])
        ELSE IF q.ck.gen + 1 < row[s].gen THEN no
        ELSE IF row[s].grace THEN ok(row)
        ELSE dead("reused")

\* createLoginSession; the account limits refuse the session after the last.
ServeLogin ==
    LET unused == {s \in Sids : row[s].st = "none"}
        s == CHOOSE m \in unused : TRUE
    IN  IF unused = {} THEN Effect(row, av, Failure("refused"))
        ELSE Effect([row EXCEPT ![s] = [@ EXCEPT !.st = "active", !.av = av]], av,
                    Answer("ok", "set", Token(s, 0), av))

\* AuthLogout: the access token names the session, or else the cookie must
\* prove it (RevokeUserSessionByRefreshHash).
ServeLogout(q) ==
    LET s == q.ck.sid
        revoke(x) == [row EXCEPT ![x].st = IF @ = "active" THEN "revoked" ELSE @]
        done(rw, jar) == Effect(rw, av, Answer("ok", jar, NoCookie, 0))
        known == \/ q.ck.gen = row[s].gen
                 \/ q.ck.gen + 1 = row[s].gen /\ row[s].grace
    IN  IF s # NoSid /\ q.sid # NoSid /\ q.sid # s THEN Effect(row, av, Failure("mismatch"))
        ELSE IF q.live THEN done(revoke(q.sid), IF s = q.sid THEN "clear" ELSE "keep")
        ELSE IF s = NoSid THEN done(row, "clear")
        ELSE done(IF known THEN revoke(s) ELSE row, "clear")

\* ValidateLoginSession, on every request with an access token.
TokenAccepted(q) ==
    q.live /\ q.sid # NoSid /\ Active(q.sid) /\ row[q.sid].av = q.av /\ av = q.av

ServeApi(q) ==
    Effect(row, av, IF TokenAccepted(q) THEN Answer("ok", "keep", NoCookie, 0)
                                        ELSE Failure("denied"))

\* BumpUserAuthVersion, committed on its own ...
BumpAuthVersion == Effect(row, av + 1, NoAnswer)

\* ... before AdvanceUserSessionAuthVersion and RevokeOtherUserSessions.
AdvanceSession(q) ==
    LET advanced == [s \in Sids |->
            IF s = q.sid THEN [row[s] EXCEPT !.av = q.av + 1]
            ELSE [row[s] EXCEPT !.st = IF @ = "active" THEN "revoked" ELSE @]]
    IN  IF Active(q.sid) /\ row[q.sid].av = q.av
        THEN Effect(advanced, av, Answer("ok", "keep", Token(q.sid, 0), q.av + 1))
        ELSE Effect(row, av, Failure("denied"))

Serve(q) ==
    CASE q.kind = "refresh" -> ServeRefresh(q)
      [] q.kind = "login"   -> ServeLogin
      [] q.kind = "logout"  -> ServeLogout(q)
      [] q.kind = "api"     -> ServeApi(q)
      [] q.kind = "secure"  -> IF q.at = "bumped" THEN AdvanceSession(q)
                               ELSE IF TokenAccepted(q) THEN BumpAuthVersion
                               ELSE ServeApi(q)

Pending(q) == q.at \in {"req", "bumped"}

\* The request after that: half served, or answered.
Answered(q) ==
    IF Serve(q).ans = NoAnswer THEN [q EXCEPT !.at = "bumped"]
    ELSE [q EXCEPT !.at = "rsp", !.ans = Serve(q).ans]

\* The cookie once an answer has arrived, which is what the script sends next.
Jar(a) == CASE a.jar = "set" -> a.tok [] a.jar = "clear" -> NoCookie [] OTHER -> cookie

SetCookie(a) == cookie' = Jar(a)

ServeRun(t) ==
    LET q == tab[t].run
    IN  /\ q.at = "req"
        /\ row' = Serve(q).row
        /\ Set(t, [tab[t] EXCEPT !.run = Answered(q)])
        /\ UNCHANGED <<av, cookie, chan, lock, orphans, left, lost, runs, ops, faults>>

ServeOp(t) ==
    LET q == tab[t].op
    IN  /\ Pending(q)
        /\ row' = Serve(q).row /\ av' = Serve(q).av
        /\ Set(t, [tab[t] EXCEPT !.op = Answered(q)])
        /\ UNCHANGED <<cookie, chan, lock, orphans, left, lost, runs, ops, faults>>

\* The server serves a request whose page is gone; nobody reads the answer.
ServeOrphan(q) ==
    /\ q \in orphans
    /\ row' = Serve(q).row /\ av' = Serve(q).av
    /\ orphans' = (orphans \ {q}) \cup {p \in {Answered(q)} : Pending(p)}
    /\ UNCHANGED <<cookie, tab, chan, lock, left, lost, runs, ops, faults>>

\* The request of a page that is gone never gets there.
DropOrphan(q) ==
    /\ q \in orphans
    /\ orphans' = orphans \ {q}
    /\ UNCHANGED <<row, av, cookie, tab, chan, lock, left, lost, runs, ops, faults>>

Fault == faults < MaxFaults /\ faults' = faults + 1

\* RefreshReplayWindow (30 s) runs out.
GraceEnds(s) ==
    /\ row[s].grace
    /\ row' = [row EXCEPT ![s].grace = FALSE]
    /\ UNCHANGED <<av, cookie, tab, chan, lock, orphans, left, lost, runs, ops, faults>>

\* The session expires, or is revoked from another device (RevokeUserSession).
RevokeElsewhere(s) ==
    /\ Active(s) /\ ops < MaxOps
    /\ row' = [row EXCEPT ![s].st = "revoked"]
    /\ ops' = ops + 1
    /\ UNCHANGED <<av, cookie, tab, chan, lock, orphans, left, lost, runs, faults>>
--------------------------------------------------------------------------------
(* The refresh of a tab. *)

\* resolveAuthentication, on a navigation.  With a valid session it only marks the
\* bootstrap complete, which decides nothing until the session is dropped, and
\* dropping it marks the bootstrap anew.
Navigate(t) ==
    /\ ~(tab[t].mem # NoSid /\ tab[t].live)
    /\ ~(tab[t].boot = "complete" /\ tab[t].mem = NoSid)
    /\ tab[t].boot = "checking" => tab[t].run.at = "none"
    /\ MayRefresh(t)
    /\ Set(t, Refresh([tab[t] EXCEPT !.boot = "checking"]))
    /\ UNCHANGED <<row, av, cookie, chan, lock, orphans, left, lost, ops, faults>>

GrantLock_Shared(t) ==
    /\ tab[t].run.at = "lock"
    /\ Set(t, [tab[t] EXCEPT !.run = Sending(tab[t], cookie, "refresh", FALSE)])
    /\ lock' = lock \cup {t}
    /\ UNCHANGED <<row, av, cookie, chan, orphans, left, lost, runs, ops, faults>>

\* The lock callback: createRefreshRunner's first test of isCurrent.
GrantLock(t) ==
    LET r == tab[t]
    IN  /\ r.run.at = "lock" /\ lock = {}
        /\ IF r.run.current
           THEN /\ Set(t, [r EXCEPT !.run = Sending(r, cookie, "refresh", FALSE)])
                /\ lock' = lock \cup {t}
           ELSE Settle(t, r, cookie, "transient")
        /\ UNCHANGED <<row, av, cookie, chan, orphans, left, lost, runs, ops, faults>>

\* createRefreshRunner after the response.
RefreshReturns(t) ==
    LET r == tab[t]
        a == r.run.ans
        retry == a.kind = "mismatch" /\ ~r.run.again
        idle == Forgotten(r, "idle")
    IN  /\ r.run.at = "rsp"
        /\ SetCookie(a)
        /\ \/ /\ ~r.run.current
              /\ Settle(t, r, Jar(a), "transient") /\ UNCHANGED chan
           \/ /\ r.run.current /\ a.kind = "ok"
              /\ Settle(t, Bundle(r, a), Jar(a), "authenticated") /\ UNCHANGED chan
           \/ /\ r.run.current /\ retry
              /\ Set(t, [idle EXCEPT !.run = Sending(idle, cookie, "refresh", TRUE)])
              /\ UNCHANGED <<lock, chan>>
           \/ /\ r.run.current /\ a.kind = "denied"
              /\ Settle(t, Cleared(r), Jar(a), "anonymous") /\ Publish(t, "signed_out", r.mem)
           \/ /\ r.run.current /\ a.kind = "down"
              /\ Settle(t, [r EXCEPT !.boot = "idle"], Jar(a), "transient") /\ UNCHANGED chan
           \/ /\ r.run.current /\ (a.kind = "refused" \/ (a.kind = "mismatch" /\ ~retry))
              /\ Settle(t, Cleared(r), Jar(a), "outOfSync") /\ UNCHANGED chan
        /\ UNCHANGED <<row, av, orphans, left, lost, runs, ops, faults>>
--------------------------------------------------------------------------------
(* The user's operations. *)

Submit(t, k) ==
    /\ tab[t].op.at = "none" /\ ops < MaxOps
    /\ ops' = ops + 1
    /\ Set(t, [tab[t] EXCEPT !.op = Sending(tab[t], cookie, k, FALSE)])
    /\ UNCHANGED <<row, av, cookie, chan, lock, orphans, left, lost, runs, faults>>

\* The sign-in page is shown once its guard has resolved authentication.
SubmitLogin(t) == tab[t].mem = NoSid /\ tab[t].boot # "checking" /\ Submit(t, "login")

SubmitLogout(t) == tab[t].mem # NoSid /\ Submit(t, "logout")

SubmitApi(t) == tab[t].mem # NoSid /\ Submit(t, "api")

\* A request with a security proof is sent only with a fresh token.
SubmitSecure(t) == tab[t].mem # NoSid /\ tab[t].live /\ Submit(t, "secure")

SubmitSecureExpired(t) ==
    /\ tab[t].mem # NoSid /\ ~tab[t].live
    /\ tab[t].op.at = "none" /\ ops < MaxOps /\ ops' = ops + 1
    /\ MayRefresh(t)
    /\ Set(t, Refresh([tab[t] EXCEPT !.op = [NoReq EXCEPT !.kind = "secure", !.at = "joined"]]))
    /\ UNCHANGED <<row, av, cookie, chan, lock, orphans, left, lost, faults>>

Ended(r) == [r EXCEPT !.op = NoReq]

Join_ClearsFirst(t) ==
    /\ MayRefresh(t)
    /\ Set(t, Refresh([Forgotten(tab[t], "idle") EXCEPT !.op.at = "joined"]))

\* Await the refresh in flight, or a new one.
Join(t) ==
    /\ MayRefresh(t)
    /\ Set(t, Refresh([tab[t] EXCEPT !.op.at = "joined"]))

\* handleLoginSuccess: only while the page still has no session.
LoginReturns(t) ==
    LET r == tab[t]
        wanted == r.op.ans.kind = "ok" /\ r.mem = r.op.sid
    IN  /\ r.op.kind = "login" /\ r.op.at = "rsp"
        /\ SetCookie(r.op.ans)
        /\ Set(t, Ended(IF wanted THEN Bundle(r, r.op.ans) ELSE r))
        /\ Publish(t, "authenticated", IF wanted THEN r.op.ans.tok.sid ELSE NoSid)
        /\ UNCHANGED <<row, av, lock, orphans, left, lost, runs, ops, faults>>

\* executeLogout and SignOutDialog.
LogoutReturns(t) ==
    LET r == tab[t]
        ok == r.op.ans.kind = "ok"
        recover == r.op.ans.kind = "mismatch" /\ ~r.op.again
        gone == IF ok /\ r.op.sid # NoSid /\ ~Active(r.op.sid) THEN {r.op.sid} ELSE {}
    IN  /\ r.op.kind = "logout" /\ r.op.at = "rsp"
        /\ SetCookie(r.op.ans)
        /\ \/ /\ ok
              /\ Set(t, Ended(Cleared(r))) /\ Publish(t, "signed_out", r.mem)
              /\ left' = [left EXCEPT ![t] = @ \cup gone]
              /\ UNCHANGED runs
           \/ /\ recover
              /\ Join(t) /\ UNCHANGED <<chan, left>>
           \/ /\ ~ok /\ ~recover
              /\ Set(t, Ended(r)) /\ UNCHANGED <<chan, left, runs>>
        /\ UNCHANGED <<row, av, lock, orphans, lost, ops, faults>>

\* The response interceptor of http-client.ts.
ApiReturns(t) ==
    LET r == tab[t]
        denied == r.op.ans.kind = "denied"
    IN  /\ r.op.kind = "api" /\ r.op.at = "rsp"
        /\ \/ /\ ~denied
              /\ Set(t, Ended(r)) /\ UNCHANGED runs
           \/ /\ denied /\ ~r.op.again
              /\ Join(t)
           \/ /\ denied /\ r.op.again
              /\ Set(t, [Cleared(r) EXCEPT !.op.at = "leave"]) /\ UNCHANGED runs
        /\ UNCHANGED <<row, av, cookie, chan, lock, orphans, left, lost, ops, faults>>

\* applyAuthRotation: only for the session the tab still has.
SecureReturns(t) ==
    LET r == tab[t]
        a == r.op.ans
    IN  /\ r.op.kind = "secure" /\ r.op.at = "rsp"
        /\ Set(t, Ended(IF a.kind = "ok" /\ r.mem = a.tok.sid THEN Bundle(r, a) ELSE r))
        /\ UNCHANGED <<row, av, cookie, chan, lock, orphans, left, lost, runs, ops, faults>>

\* The access token's 15 minutes run out, not within the round trip of a retry.
ExpireToken(t) ==
    /\ tab[t].live /\ ~tab[t].op.again
    /\ Set(t, [tab[t] EXCEPT !.live = FALSE])
    /\ UNCHANGED <<row, av, cookie, chan, lock, orphans, left, lost, runs, ops, faults>>
--------------------------------------------------------------------------------
(* Other tabs, page loads and the network. *)

\* The page is replaced: its script, its undelivered events and its Web Lock go;
\* requests already sent may still be served.
Unload(t) ==
    /\ Set(t, FreshTab)
    /\ lock' = lock \ {t}
    /\ orphans' = orphans \cup {q \in {tab[t].run, tab[t].op} : Pending(q)}
    /\ lost' = (lost \/ tab[t].run.at \in {"req", "rsp"})

\* The listener of routes/__root.tsx: another tab signed in ...
OnAuthenticated(t) ==
    /\ chan[t] # <<>> /\ Head(chan[t]).kind = "authenticated"
    /\ \/ /\ Head(chan[t]).sid = tab[t].mem
          /\ chan' = [chan EXCEPT ![t] = Tail(@)]
          /\ UNCHANGED <<tab, lock, orphans, lost>>
       \/ /\ Head(chan[t]).sid # tab[t].mem
          /\ Unload(t)
          /\ chan' = [chan EXCEPT ![t] = <<>>]
    /\ UNCHANGED <<row, av, cookie, left, runs, ops, faults>>

\* ... or signed out.
OnSignedOut(t) ==
    /\ chan[t] # <<>> /\ Head(chan[t]).kind = "signed_out"
    /\ Set(t, IF Head(chan[t]).sid = tab[t].mem THEN Cleared(tab[t]) ELSE tab[t])
    /\ chan' = [chan EXCEPT ![t] = Tail(@)]
    /\ UNCHANGED <<row, av, cookie, lock, orphans, left, lost, runs, ops, faults>>

\* redirectToSignIn
Leave(t) ==
    /\ tab[t].op.at = "leave"
    /\ Unload(t)
    /\ chan' = [chan EXCEPT ![t] = <<>>]
    /\ UNCHANGED <<row, av, cookie, left, runs, ops, faults>>

Reload(t) ==
    /\ Fault
    /\ Unload(t)
    /\ chan' = [chan EXCEPT ![t] = <<>>]
    /\ UNCHANGED <<row, av, cookie, left, runs, ops>>

\* An event reaches the tab after 60 s and is discarded.
StaleEvent(t) ==
    /\ Fault
    /\ chan[t] # <<>>
    /\ chan' = [chan EXCEPT ![t] = Tail(@)]
    /\ UNCHANGED <<row, av, cookie, tab, lock, orphans, left, lost, runs, ops>>

\* A refresh is lost on its way there or back, or refused by a middleware.  One
\* that is served after its page gave it up is among the orphans of Unload.
FailRun(t, k) ==
    /\ Fault
    /\ tab[t].run.at \in (IF k = "down" THEN {"req", "rsp"} ELSE {"req"})
    /\ Set(t, [tab[t] EXCEPT !.run.at = "rsp", !.run.ans = Failure(k)])
    /\ lost' = (lost \/ tab[t].run.at = "rsp")
    /\ UNCHANGED <<row, av, cookie, chan, lock, orphans, left, runs, ops>>

FailOp(t) ==
    /\ Fault
    /\ tab[t].op.at \in {"req", "rsp"}
    /\ Set(t, [tab[t] EXCEPT !.op.at = "rsp", !.op.ans = Failure("down")])
    /\ UNCHANGED <<row, av, cookie, chan, lock, orphans, left, lost, runs, ops>>

Next ==
    \/ \E t \in Tabs :
          \/ ServeRun(t) \/ ServeOp(t)
          \/ Navigate(t) \/ GrantLock(t) \/ RefreshReturns(t)
          \/ SubmitLogin(t) \/ SubmitLogout(t) \/ SubmitApi(t)
          \/ SubmitSecure(t) \/ SubmitSecureExpired(t)
          \/ LoginReturns(t) \/ LogoutReturns(t) \/ ApiReturns(t) \/ SecureReturns(t)
          \/ ExpireToken(t) \/ OnAuthenticated(t) \/ OnSignedOut(t) \/ Leave(t)
          \/ Reload(t) \/ StaleEvent(t) \/ FailOp(t)
          \/ FailRun(t, "down") \/ FailRun(t, "refused")
    \/ \E q \in orphans : ServeOrphan(q) \/ DropOrphan(q)
    \/ \E s \in Sids : GraceEnds(s) \/ RevokeElsewhere(s)

Spec == Init /\ [][Next]_vars

\* The server answers, the browser delivers and the script runs on.
Fairness ==
    \A t \in Tabs :
        /\ WF_vars(ServeRun(t)) /\ WF_vars(RefreshReturns(t))
        /\ SF_vars(GrantLock(t))

FairSpec == Spec /\ Fairness
--------------------------------------------------------------------------------
(* Properties. *)

Rows     == [st : {"none", "active", "revoked", "reused"}, gen : Nat, grace : BOOLEAN, av : Nat]
Tokens   == [sid : Sids \cup {NoSid}, gen : Nat]
Answers  == [kind : {"none", "ok", "mismatch", "denied", "down", "refused"},
             jar : {"keep", "set", "clear"}, tok : Tokens, av : Nat]
Requests == [kind : {"none", "refresh", "login", "logout", "api", "secure"},
             at : {"none", "lock", "joined", "req", "bumped", "rsp", "leave"},
             again : BOOLEAN, current : BOOLEAN, ck : Tokens, sid : Sids \cup {NoSid},
             av : Nat, live : BOOLEAN, ans : Answers]
TabStates == [mem : Sids \cup {NoSid}, av : Nat, live : BOOLEAN,
              boot : {"idle", "checking", "complete"}, run : Requests, op : Requests]
Events   == [kind : {"authenticated", "signed_out"}, sid : Sids]

\* Types; the Web Lock is held by one tab at a time.
TypeOK ==
    /\ row \in [Sids -> Rows]
    /\ av \in Nat
    /\ cookie \in Tokens
    /\ tab \in [Tabs -> TabStates]
    /\ chan \in [Tabs -> Seq(Events)]
    /\ lock \subseteq Tabs /\ \A t, u \in lock : t = u
    /\ orphans \subseteq Requests
    /\ left \in [Tabs -> SUBSET Sids]
    /\ lost \in BOOLEAN
    /\ runs \in Nat /\ ops \in Nat /\ faults \in Nat

\* With Web Locks the cookie is never more than one generation behind the
\* server, whatever is lost and whoever reloads: the deterministic successor
\* lets any tab repair it (RotateUserSessionRefresh, deriveNextRefreshSecret).
CookieNearHead ==
    HasLocks /\ cookie.sid # NoSid => row[cookie.sid].gen <= cookie.gen + 1

\* With Web Locks and no refresh abandoned halfway, no order of refreshes, sign-ins, sign-outs
\* and security changes in the tabs is mistaken for a stolen refresh token.
OnlyLossRevokes ==
    HasLocks /\ ~lost => \A s \in Sids : row[s].st # "reused"

Abstract == INSTANCE BrowserSession
    WITH Sids <- Sids, NoSid <- NoSid,
         view <- [t \in Tabs |-> tab[t].mem],
         issued <- {s \in Sids : row[s].st # "none"},
         revoked <- {s \in Sids : row[s].st \in {"revoked", "reused"}},
         left <- left

\* The tabs, the cookie and the server implement the promise of BrowserSession.
ImplementsBrowserSession == Abstract!BSpec

\* Several tabs never force each other out (docs/authentication.md:68): with Web
\* Locks and nothing lost, a tab that no other tab tells to leave and that does
\* not sign out drops its session only when the server no longer honours it, the
\* browser's cookie belongs to another, or a security change in another tab has
\* outdated the token it had just refreshed for a retry.
NotForcedOut ==
    [][\A t \in Tabs :
         LET s == tab[t].mem
         IN  (HasLocks /\ faults' = 0 /\ ~lost /\ chan[t] = <<>> /\ tab[t].op.kind # "logout"
               /\ s # NoSid /\ tab'[t].mem = NoSid) =>
               \/ ~Active(s) \/ row[s].av # av
               \/ cookie.sid # s
               \/ tab[t].run.at = "rsp" /\ tab[t].run.ck.sid # s
               \/ tab[t].op.again /\ tab[t].op.av # av]_vars

\* Every refresh settles and gives the Web Lock back: nobody waits forever.
RefreshEnds == \A t \in Tabs : tab[t].run.at # "none" ~> tab[t].run.at = "none"

\* docs/authentication.md:61, of logout: "revoke the current login session and
\* clear the cookie".
LogoutRevokes ==
    [][\A t \in Tabs : LET q == tab[t].op IN
         q.kind = "logout" /\ q.at = "rsp" /\ q.ans.kind = "ok" => ~Active(q.sid)]_vars

\* service/auth_session.go:178: a security change "preserves only the current
\* browser session", whatever the other tabs refresh meanwhile.
SecurityChangeKeepsSession ==
    \A t \in Tabs : LET q == tab[t].op IN
        q.kind = "secure" /\ q.at = "bumped" /\ ops = 1 => Active(q.sid)
--------------------------------------------------------------------------------
(* The inductive invariants that the proofs rest on. *)

Issued(s) == row[s].st # "none"

\* A session that the server opened, and a version that it has had.
Known(s, v) == s # NoSid => Issued(s) /\ v <= row[s].av

\* The steps of a tab's refresh.  As long as the refresh is current, the tab has
\* the session it had when the request was sent.
RunShape(r) ==
    LET q == r.run
    IN  /\ q.at \in {"none", "lock", "req", "rsp"}
        /\ q.at # "none" => q.kind = "refresh"
        /\ q.at \in {"req", "rsp"} /\ q.current => r.mem = q.sid
        /\ q.at = "rsp" =>
              /\ q.ans.kind = "ok" <=> q.ans.jar = "set"
              /\ q.ans.kind = "ok" =>
                    q.ck.sid # NoSid /\ q.ans.tok.sid = q.ck.sid /\ q.sid \in {NoSid, q.ck.sid}
              /\ q.ans.kind = "mismatch" => q.sid # q.ck.sid

\* The steps of a tab's user operation.  An API request that is sent again runs
\* alone, with the session the tab has.
OpShape(r) ==
    LET q == r.op
    IN  /\ q.at \in {"none", "joined", "req", "bumped", "rsp", "leave"}
        /\ q.at # "none" => q.kind \in {"login", "logout", "api", "secure"}
        /\ q.at = "none" => ~q.again
        /\ q.at = "bumped" => q.kind = "secure"
        /\ q.at = "joined" => q.kind # "login"
        /\ q.kind = "login" => q.sid = NoSid
        /\ q.at = "rsp" =>
              /\ q.ans.jar = "set" => q.kind = "login" /\ q.ans.kind = "ok"
              /\ q.kind = "login" /\ q.ans.kind = "ok" =>
                    q.ans.jar = "set" /\ q.ans.tok.sid # NoSid /\ q.ans.tok.gen = 0
        /\ q.kind = "api" /\ q.again =>
              /\ q.sid # NoSid /\ q.live
              /\ r.run.at = "none" /\ r.boot = "complete"
              /\ r.mem = NoSid \/ (r.mem = q.sid /\ r.live)
        /\ q.at = "leave" => r.mem = NoSid /\ r.run.at = "none" /\ r.boot = "complete"

\* What a request carries, and its answer, comes from the server.
ReqKnown(q) ==
    /\ Known(q.sid, q.av) /\ Known(q.ck.sid, 0)
    /\ q.at = "bumped" => q.kind = "secure" /\ q.sid # NoSid /\ q.av < av
    /\ q.at = "rsp" => Known(q.ans.tok.sid, q.ans.av)

TokensKnown ==
    /\ \A s \in Sids : row[s].av <= av /\ (Issued(s) \/ row[s].gen = 0)
    /\ Known(cookie.sid, 0)
    /\ \A t \in Tabs : /\ Known(tab[t].mem, tab[t].av)
                       /\ ReqKnown(tab[t].run) /\ ReqKnown(tab[t].op)
    /\ \A q \in orphans : /\ ReqKnown(q) /\ Pending(q)
                          /\ q.kind # "none" /\ (q.kind = "refresh" => q.at = "req")

\* A session that a tab signed out of is revoked, and no answer that the tab
\* still wants brings it back.
LeftIsRevoked ==
    \A t \in Tabs :
        /\ \A s \in left[t] : row[s].st \in {"revoked", "reused"}
        /\ tab[t].run.at = "rsp" /\ tab[t].run.current /\ tab[t].run.ans.kind = "ok" =>
              tab[t].run.ans.tok.sid \notin left[t]
        /\ tab[t].op.at = "rsp" /\ tab[t].op.ans.jar = "set" =>
              tab[t].op.ans.tok.sid \notin left[t]

\* Whatever the browser can do.
ACore ==
    /\ TypeOK /\ TokensKnown /\ LeftIsRevoked
    /\ \A t \in Tabs : RunShape(tab[t]) /\ OpShape(tab[t])

\* Answers on their way to the cookie: of a refresh, and of a sign-in.
RefreshedTo(t) == tab[t].run.at = "rsp" /\ tab[t].run.ans.jar = "set"
SignedInTo(t)  == tab[t].op.at = "rsp" /\ tab[t].op.ans.jar = "set"

\* A token of generation g that may still become the cookie is at most one
\* generation behind the server.
NearHead(tok) == tok.sid # NoSid => tok.gen <= row[tok.sid].gen /\ row[tok.sid].gen <= tok.gen + 1

\* A refresh that is not yet served cannot rotate past the cookie, nor past an
\* answer that is on its way; a new session is known to its sign-in alone.
BehindCookie(q) ==
    q.kind = "refresh" /\ q.at = "req" /\ q.ck.sid # NoSid =>
        /\ q.ck.gen <= row[q.ck.sid].gen
        /\ cookie.sid = q.ck.sid => q.ck.gen <= cookie.gen
        /\ \A u \in Tabs : RefreshedTo(u) /\ tab[u].run.ans.tok.sid = q.ck.sid =>
                           q.ck.gen <= tab[u].run.ans.tok.gen
        /\ \A u \in Tabs : SignedInTo(u) => tab[u].op.ans.tok.sid # q.ck.sid

\* The Web Lock serializes the refreshes of the tabs.
Serialized ==
    /\ \A t \in Tabs : tab[t].run.at \in {"req", "rsp"} => t \in lock
    /\ NearHead(cookie)
    /\ \A t \in Tabs : RefreshedTo(t) => NearHead(tab[t].run.ans.tok)
    /\ \A t \in Tabs : BehindCookie(tab[t].run)
    /\ \A q \in orphans : BehindCookie(q)
    /\ \A t \in Tabs : SignedInTo(t) =>
          LET s == tab[t].op.ans.tok.sid
          IN  /\ row[s].gen = 0 /\ cookie.sid # s
              /\ \A u \in Tabs : RefreshedTo(u) => tab[u].run.ans.tok.sid # s
              /\ \A u \in Tabs \ {t} : SignedInTo(u) => tab[u].op.ans.tok.sid # s

CookieInv == ACore /\ (HasLocks => Serialized)

\* Without losses the cookie, or the answer on its way to it, is the server's head.
AtHead ==
    /\ \A s \in Sids : row[s].st # "reused"
    /\ \A q \in orphans : q.kind # "refresh"
    /\ \A t \in Tabs : LET q == tab[t].run IN
          q.at = "req" /\ q.ck.sid # NoSid => row[q.ck.sid].gen = q.ck.gen
    /\ \A t \in Tabs : RefreshedTo(t) => LET k == tab[t].run.ans.tok IN row[k.sid].gen = k.gen
    /\ cookie.sid # NoSid =>
          \/ row[cookie.sid].gen = cookie.gen
          \/ \E t \in Tabs : RefreshedTo(t) /\ tab[t].run.ans.tok.sid = cookie.sid

\* The verdicts on their way to a tab are still true when they arrive.
Verdicts ==
    \A t \in Tabs :
        /\ LET q == tab[t].run IN q.at = "rsp" =>
              /\ q.ans.kind = "denied" /\ q.ck.sid # NoSid => ~Active(q.ck.sid)
              /\ faults = 0 => q.ans.kind \in {"ok", "denied", "mismatch"}
        /\ LET q == tab[t].op IN
              q.kind = "api" /\ q.again /\ q.at = "rsp" /\ q.ans.kind = "denied" =>
                  ~Active(q.sid) \/ q.av # av

CalmInv == CookieInv /\ (HasLocks /\ ~lost => AtHead /\ Verdicts)
================================================================================
