------------------------------ MODULE Ordering ------------------------------
(***************************************************************************)
(* What ORDER BY returns: the rows of a finite set in the order of a       *)
(* relation that is total on them, as a sequence.                          *)
(***************************************************************************)
EXTENDS Integers, FiniteSets

\* How many rows come before x.
Rank(x, S, R) == Cardinality({y \in S : <<y, x>> \in R})

\* The i-th row is the one that i - 1 rows come before.
InOrder(S, R) == [i \in 1..Cardinality(S) |-> CHOOSE x \in S : Rank(x, S, R) = i - 1]
=============================================================================
