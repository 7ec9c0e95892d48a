----------------------------- MODULE MCTaskBilling -----------------------------
(* Small instances of TaskBilling for TLC. *)
EXTENDS TaskBilling, TLC

WorkerSymmetry == Permutations(Workers)
================================================================================
