----------------------------- MODULE MCHistory -----------------------------
(* Instances of History for TLC: two accounts and two contracts. *)
EXTENDS History

MCPage == {"a1", "a2", "c1", "c2"}
MCKindOf == [p \in MCPage |-> IF p \in {"a1", "a2"} THEN "account" ELSE "contract"]

(* Five operations, two and a half pages of them; a page and no more; one.   *)
(* Of the first contract the filter lets three through, with others above,   *)
(* between and below them, so that a search may stop with a page, with a     *)
(* part of one or with nothing.                                              *)
MCFirst == [p \in MCPage |-> CASE p = "a1" -> {1, 2, 4, 5, 6} [] p = "a2" -> {3, 6}
                               [] p = "c1" -> {1, 2, 4, 5, 6} [] p = "c2" -> {3}]
Even == {2, 4, 6}
=============================================================================
