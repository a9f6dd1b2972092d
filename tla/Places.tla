------------------------------- MODULE Places -------------------------------
(***************************************************************************)
(* What is left of a sequence at some of its places, in the same order.    *)
(* It says what SelectSeq and FoldLeft would compute step by step, in a    *)
(* form that one can reason about.                                         *)
(***************************************************************************)
EXTENDS Integers, Sequences, FiniteSets

\* How many of the places come no later than i.
Rank(places, i) == Cardinality({j \in places : j <= i})

\* The elements of a sequence at these places.
Picked(s, places) ==
  [n \in 1 .. Cardinality(places) |-> s[CHOOSE i \in places : Rank(places, i) = n]]

=============================================================================
