------------------------------ MODULE Positions ------------------------------
(***************************************************************************)
(* Parts of a sequence, by the positions they have in it.                  *)
(***************************************************************************)
EXTENDS Integers, FiniteSets

(* The k-th smallest of a set of numbers.                                  *)
Nth(S, k) == CHOOSE i \in S : Cardinality({j \in S : j < i}) = k - 1

(* What is left of a sequence when only the positions in S are kept.       *)
Keep(s, S) == [k \in 1..Cardinality(S) |-> s[Nth(S, k)]]
==============================================================================
