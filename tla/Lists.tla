------------------------------- MODULE Lists --------------------------------
(* The filters of the code (retain, filter, filter_map).                   *)
EXTENDS Integers, Sequences, FiniteSets

(* Which of the places kept a place is, counting from 1.                   *)
Rank(k, kept) == Cardinality({j \in kept : j <= k})

(* The items of a list at the places kept, in order.                       *)
KeepAt(list, kept) ==
  [n \in 1 .. Cardinality(kept) |-> list[CHOOSE k \in kept : Rank(k, kept) = n]]
=============================================================================
