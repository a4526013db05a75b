------------------------------ MODULE MCTxPage ------------------------------
(* Instances of TxPage for TLC. *)
EXTENDS TxPage
=============================================================================
