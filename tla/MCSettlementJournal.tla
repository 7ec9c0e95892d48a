-------------------------- MODULE MCSettlementJournal --------------------------
(* Small instances of SettlementJournal for TLC. *)
EXTENDS SettlementJournal, TLC

WorkerSymmetry == Permutations(Workers)
================================================================================
