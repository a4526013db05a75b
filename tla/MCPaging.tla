------------------------------ MODULE MCPaging ------------------------------
(* Instances of Paging for TLC. *)
EXTENDS Paging

Row(l, h, f) == [ledger |-> l, hash |-> h, fn |-> f]

(* A dense ledger with both functions, a rare function far below it. *)
MCHistory ==
  {Row(2, 1, "work"), Row(3, 1, "plant"), Row(6, 1, "work"), Row(6, 2, "plant"),
   Row(6, 3, "work"), Row(6, 4, "work"), Row(8, 2, "plant")}

MCTimeBounds == {[from |-> 0, to |-> 99], [from |-> 3, to |-> 6]}
=============================================================================
