------------------------ MODULE MCOperationScenarios ------------------------
(* A small instance of OperationScenarios for TLC.                         *)
EXTENDS OperationScenarios

CONSTANTS s1, s2, r1, r2, v1, v2, o1, o2, k1, k2, d1, d2
=============================================================================
