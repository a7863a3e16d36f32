-------------------------- MODULE MCPartnerPayouts --------------------------
(* A small instance of PartnerPayouts for TLC.                             *)
EXTENDS PartnerPayouts, TLC

CONSTANTS s1, s2, o1, m1, p1, p2, a1

MCSymmetry == Permutations(Sessions) \cup Permutations(Payouts)
=============================================================================
