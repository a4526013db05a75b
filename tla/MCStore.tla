------------------------------- MODULE MCStore -------------------------------
(* Instances of Store for TLC. *)
EXTENDS Store, TLC

CONSTANTS p1, p2, c1, c2, fn, ad, t1, t2, t3

MCKey == {c1, c2, fn, ad}
MCKindOf == c1 :> 1 @@ c2 :> 1 @@ fn :> 2 @@ ad :> 3

(* Three invocations of two contracts, the same function and address. *)
MCUses == t1 :> <<c1, fn, ad>> @@ t2 :> <<c2, fn, ad>> @@ t3 :> <<c1, fn, ad>>
MCTxsOf == 1 :> {t1} @@ 2 :> {t2} @@ 3 :> {t3}

Stretch(lo, hi) == [from |-> lo, to |-> hi]

(* Batches that share a ledger and all keys; the second process replays    *)
(* its last ledger.                                                        *)
Overlapping == p1 :> <<Stretch(1, 2)>> @@ p2 :> <<Stretch(2, 3), Stretch(3, 3)>>

(* A deadlock over the contracts takes four ids and its victim's retry two; *)
(* with the last two the stretch survives one more deadlock or failure, and *)
(* the retry after that finds none left.                                    *)
SomeIds == <<8, 9, 9>>
=============================================================================
