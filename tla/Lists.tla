-------------------------------- MODULE Lists --------------------------------
(***************************************************************************)
(* What a comprehension with a condition does to a list: it takes some of  *)
(* the entries and leaves them in their order, or takes the first one.     *)
(***************************************************************************)
EXTENDS Naturals, FiniteSets

\* The numbers of a finite set, in ascending order.
InOrder(S) ==
  [n \in 1 .. Cardinality(S) |-> CHOOSE i \in S : Cardinality({j \in S : j <= i}) = n]

\* The first of some positions.
Earliest(S) == CHOOSE i \in S : \A j \in S : i <= j

\* The entries of a list that are at the positions of a set.
Only(list, S) == [n \in 1 .. Cardinality(S) |-> list[InOrder(S)[n]]]
==============================================================================
