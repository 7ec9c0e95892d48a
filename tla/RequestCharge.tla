----------------------------- MODULE RequestCharge -----------------------------
(***************************************************************************)
(* What billing promises the user who pays for a request, with no balances,*)
(* no rows, no workers and no failures: while the request runs, amounts are*)
(* held for it; then it is either settled, and what has been taken is the  *)
(* charge its log shows, or returned, and nothing has been taken.  Once one*)
(* of the two has begun nothing more is held and the other never happens   *)
(* (service/billing_session.go, comment on BillingSession).                *)
(***************************************************************************)
EXTENDS Integers

CONSTANTS Tasks       \* billed requests and one-shot fees

VARIABLES charge,     \* [Tasks -> the amount its log shows]
          held,       \* [Tasks -> taken from the funding source so far]
          phase       \* [Tasks -> how far the task's billing is]

cvars == <<charge, held, phase>>

CInit ==
    /\ charge \in [Tasks -> Nat]
    /\ held = [t \in Tasks |-> 0]
    /\ phase = [t \in Tasks |-> "open"]

\* A reservation, at admission or before a retry.
Hold(t) ==
    /\ phase[t] = "open"
    /\ held' = [held EXCEPT ![t] = held'[t]] /\ held'[t] > held[t]
    /\ UNCHANGED <<charge, phase>>

\* The request ends, one way or the other.
Close(t) ==
    /\ phase[t] = "open"
    /\ phase' \in {[phase EXCEPT ![t] = p] : p \in {"settling", "returning"}}
    /\ UNCHANGED <<charge, held>>

Charge(t) ==
    /\ phase[t] = "settling"
    /\ held' = [held EXCEPT ![t] = charge[t]]
    /\ phase' = [phase EXCEPT ![t] = "settled"]
    /\ UNCHANGED charge

GiveBack(t) ==
    /\ phase[t] = "returning"
    /\ held' = [held EXCEPT ![t] = 0]
    /\ phase' = [phase EXCEPT ![t] = "returned"]
    /\ UNCHANGED charge

CNext == \E t \in Tasks : Hold(t) \/ Close(t) \/ Charge(t) \/ GiveBack(t)

CSpec == CInit /\ [][CNext]_cvars
================================================================================
