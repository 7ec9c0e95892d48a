--------------------------- MODULE MCRequestBilling ---------------------------
EXTENDS RequestBilling, TLC

\* Two requests of one user; the first may end in a violation fee.
TwoOwners == "r1" :> "r1" @@ "r2" :> "r2" @@ "f1" :> "r1"
TwoPreferences == "r1" :> "subscription_first" @@ "r2" :> "wallet_first"

\* The bound of the run: the second request and the fee have a charge, only the
\* first request dies, its fee comes after the end of the second, and the
\* recovery sweep begins when both have ended.
RecoveryLast ==
    /\ charge["f1"] > 0 /\ charge["r2"] > 0
    /\ at["r2"] # "dead"
    /\ at["r1"] = "charging" => at["r2"] = "done"
    /\ pc["sweep"] # "idle" => at["r1"] \in {"done", "dead"} /\ at["r2"] = "done"
================================================================================
