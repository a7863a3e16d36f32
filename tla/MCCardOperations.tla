-------------------------- MODULE MCCardOperations --------------------------
(* A small instance of CardOperations for TLC.                             *)
EXTENDS CardOperations, TLC

CONSTANTS s1, s2, x1, x2, c1, c2

MCSymmetry == Permutations(Sessions) \cup Permutations(Ext)
=============================================================================
