------------------------------ MODULE MCIndexer ------------------------------
(* Instances of Indexer for TLC. *)
EXTENDS Indexer, TLC

CONSTANTS f1, b1, b2

(* Two runs of one range, batches of two and of one, below the start. *)
FirstBelow == b1 :> 1 @@ b2 :> 1
LastBelow == b1 :> 3 @@ b2 :> 3
ConcurrencyTwoOne == b1 :> 2 @@ b2 :> 1

(* Ledger l has the invocation l, ledger 2 is quiet. *)
MCRow == 1..MaxTip
MCRowsOf == [l \in 1..MaxTip |-> IF l % 4 = 2 THEN {} ELSE {l}]
=============================================================================
