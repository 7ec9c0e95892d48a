----------------------------- MODULE BrowserSession -----------------------------
(***************************************************************************)
(* What the console promises of login sessions, with no cookies, no        *)
(* refreshes and no messages: every session is opened once and revoked at  *)
(* most once, a tab goes from one session to another only through the      *)
(* signed-out state, and a tab whose sign-out revoked a session never      *)
(* shows that session again (docs/authentication.md; lib/                  *)
(* auth-session.test.ts, "a refresh response cannot restore credentials    *)
(* after a newer auth operation").                                         *)
(***************************************************************************)
CONSTANTS Tabs,      \* tabs of one browser profile
          Sids,      \* login sessions
          NoSid      \* a tab without a session

VARIABLES view,      \* [Tabs -> the session the tab shows]
          issued,    \* sessions the server has opened
          revoked,   \* sessions the server has revoked
          left       \* [Tabs -> sessions the tab has signed out of]

bvars == <<view, issued, revoked, left>>

BInit ==
    /\ view = [t \in Tabs |-> NoSid]
    /\ issued \in SUBSET Sids
    /\ revoked = {}
    /\ left = [t \in Tabs |-> {}]

Open(s) ==
    /\ s \in Sids \ issued
    /\ issued' = issued \cup {s}
    /\ UNCHANGED <<view, revoked, left>>

\* One request may revoke several sessions.
Revoke(S) ==
    /\ S \subseteq issued
    /\ revoked' = revoked \cup S
    /\ UNCHANGED <<view, issued, left>>

Show(t, s) ==
    /\ view[t] = NoSid
    /\ s \in issued \ left[t]
    /\ view' = [view EXCEPT ![t] = s]
    /\ UNCHANGED <<issued, revoked, left>>

\* The tab forgets its session: a reload, or a verdict of the server.
Forget(t) ==
    /\ view' = [view EXCEPT ![t] = NoSid]
    /\ UNCHANGED <<issued, revoked, left>>

SignOut(t, s) ==
    /\ s \in revoked
    /\ view' = [view EXCEPT ![t] = NoSid]
    /\ left' = [left EXCEPT ![t] = @ \cup {s}]
    /\ UNCHANGED <<issued, revoked>>

BNext ==
    \/ \E s \in Sids : Open(s)
    \/ \E S \in SUBSET Sids : Revoke(S)
    \/ \E t \in Tabs : Forget(t) \/ \E s \in Sids : SignOut(t, s) \/ Show(t, s)

BSpec == BInit /\ [][BNext]_bvars
================================================================================
