------------------------------- MODULE Sums --------------------------------
(* Sums of numbers over finite sets.                                       *)
EXTENDS Integers, FiniteSets, FiniteSetsExt

(* The sum of f[x] for the members x of S.                                 *)
SumOf(f, S) == MapThenSumSet(LAMBDA x : f[x], S)
=============================================================================
