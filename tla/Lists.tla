-------------------------------- MODULE Lists --------------------------------
(***************************************************************************)
(* Sets and lists put in order, and parts of a list.                       *)
(***************************************************************************)
EXTENDS Integers, Sequences, FiniteSets

(* A set sorted by a total order.                                          *)
InOrder(S, Before(_, _)) ==
  [i \in 1 .. Cardinality(S) |->
     CHOOSE x \in S : Cardinality({y \in S : Before(y, x)}) = i - 1]

(* A list sorted by a weak order: a stable sort.                           *)
Sorted(s, Before(_, _)) ==
  LET Ahead(i, j) == Before(s[i], s[j]) \/ (~ Before(s[j], s[i]) /\ i < j)
      order == InOrder(DOMAIN s, Ahead)
  IN [k \in DOMAIN order |-> s[order[k]]]

(* The elements of a list at some of its positions.                        *)
Sublist(s, D) == LET kept == InOrder(D, <) IN [k \in DOMAIN kept |-> s[kept[k]]]

(* The elements of a list that are in a set, in the order of the list.     *)
Pick(s, S) == Sublist(s, {i \in DOMAIN s : s[i] \in S})
=============================================================================
