------------------------------ MODULE Filtering ------------------------------
(***************************************************************************)
(* A list comprehension with a condition, as the services write it: what   *)
(* is left of a sequence at the places kept, in its order.  SelectSeq says *)
(* the same by recursion; this says which place every element comes from.  *)
(***************************************************************************)
EXTENDS Naturals, Sequences, FiniteSets

\* How many of the places kept are not beyond i, and the n-th of them.
Rank(kept, i)  == Cardinality({j \in kept : j <= i})
Place(kept, n) == CHOOSE i \in kept : Rank(kept, i) = n

Picked(seq, kept) == [n \in 1 .. Cardinality(kept) |-> seq[Place(kept, n)]]

=============================================================================
