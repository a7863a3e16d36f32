-------------------------- MODULE MCInvoiceFinance --------------------------
(* Small instances of InvoiceFinance for TLC.                              *)
EXTENDS InvoiceFinance, TLC

CONSTANTS s1, s2, i1, i2, k1, k2, sla

MCSymmetry == Permutations({s1, s2}) \cup Permutations({k1, k2})
=============================================================================
