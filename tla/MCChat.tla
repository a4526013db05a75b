------------------------------- MODULE MCChat -------------------------------
(* Instances of Chat for TLC: an account and a contract. *)
EXTENDS Chat

MCPage == {"a1", "c1"}
MCKindOf == [p \in MCPage |-> IF p = "a1" THEN "account" ELSE "contract"]
=============================================================================
