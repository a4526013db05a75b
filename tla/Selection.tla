----------------------------- MODULE Selection -----------------------------
(* Parts and orders of lists, as the explorer's frontend takes them with    *)
(* Array.prototype.filter and Array.prototype.sort.  They are given here by *)
(* the places their entries come from, which is what proofs about them need.*)
EXTENDS Naturals, Sequences, FiniteSets

\* The numbers of a finite set, from the least up.
Ascending(numbers) ==
    [k \in 1 .. Cardinality(numbers) |->
        CHOOSE n \in numbers : Cardinality({m \in numbers : m <= n}) = k]

\* filter: the entries at these places, in the order of the list.
Picked(list, places) ==
    [k \in 1 .. Cardinality(places) |-> list[Ascending(places)[k]]]

\* sort: by a number each entry has, entries of one number as they were.
SortedBy(list, key) ==
    LET first(i, j) == key[i] < key[j] \/ (key[i] = key[j] /\ i <= j)
    IN  [k \in DOMAIN list |->
            list[CHOOSE i \in DOMAIN list :
                    Cardinality({j \in DOMAIN list : first(j, i)}) = k]]
=============================================================================
