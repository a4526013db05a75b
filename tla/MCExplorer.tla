----------------------------- MODULE MCExplorer -----------------------------
(* Four ledgers: one already pruned, one past the load cap of 2 pages of 2,  *)
(* one of exactly a page, and one still to close.  Three contracts.           *)
EXTENDS Explorer

Tx(n, label, fails) == [ops |-> n, label |-> label, failed |-> fails]

MCContent ==
  << <<Tx(1, "pay", FALSE)>>,
     <<Tx(1, "pay", FALSE), Tx(2, "swap", FALSE), Tx(1, "swap", TRUE), Tx(1, "pay", FALSE)>>,
     <<Tx(2, "swap", FALSE)>>,
     <<Tx(1, "pay", FALSE)>> >>

(* One contract is upgraded in the last ledger to code without an interface, *)
(* one wraps an asset and is deployed there, one stays with the first code.  *)
Live(c1, c2, c3, wasms) ==
  [instances |-> [c \in {"c1", "c2", "c3"} |->
                   IF c = "c1" THEN c1 ELSE IF c = "c2" THEN c2 ELSE c3],
   codes |-> wasms]

MCChain ==
  << Live("absent", "absent", "absent", {}), Live("absent", "absent", "absent", {}),
     Live("h1", "absent", "h1", {"h1"}), Live("h2", "stellarAsset", "h1", {"h1", "h2"}) >>

=============================================================================
