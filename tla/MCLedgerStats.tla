---------------------------- MODULE MCLedgerStats ----------------------------
(* Instances of LedgerStats for TLC. *)
EXTENDS LedgerStats, TLC

CONSTANTS f1, b1

(* Ledgers 1 and 2, below the start of the follow worker. *)
FirstBelow == b1 :> 1
LastBelow == b1 :> 2

(* Ledger 3 alone, ahead of a worker that starts at ledger 1. *)
FirstAhead == b1 :> 3
LastAhead == b1 :> 3

ConcurrencyTwo == b1 :> 2

MCRow == 1..MaxTip
MCRowsOf == [l \in 1..MaxTip |-> IF l = 4 THEN {} ELSE {l}]
=============================================================================
