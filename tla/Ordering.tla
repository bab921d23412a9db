------------------------------ MODULE Ordering ------------------------------
(***************************************************************************)
(* Sorting and selecting, as sorted and list comprehensions of Python do:  *)
(* the order is given as a set of pairs.                                   *)
(***************************************************************************)
EXTENDS Naturals, Sequences, FiniteSets

(* The elements of S in the order of a relation that is total on S. *)
InOrder(S, before) ==
  [n \in 1..Cardinality(S) |->
     CHOOSE x \in S : Cardinality({y \in S : <<y, x>> \in before}) = n - 1]

(* What is left of s when only the places in I are kept. *)
Kept(s, I) ==
  LET places == InOrder(I, {p \in I \X I : p[1] < p[2]}) IN [n \in DOMAIN places |-> s[places[n]]]
=============================================================================
