------------------------------- MODULE Totals -------------------------------
(***************************************************************************)
(* The sum of a function whose values are natural numbers, as the size of  *)
(* the disjoint union of the intervals 1 .. f[x]: what a sum is without    *)
(* recursion, so that it can be reasoned about for any finite domain.      *)
(***************************************************************************)
EXTENDS Integers, FiniteSets

Total(f) == Cardinality(UNION {{x} \X (1 .. f[x]) : x \in DOMAIN f})
=============================================================================
