-------------------------- MODULE MCInternalLedger --------------------------
(* Small instances of InternalLedger for TLC.                              *)
EXTENDS InternalLedger, TLC

CONSTANTS s1, s2, t1, t2, k1, k2, c1

(* An invoice without VAT, its credit note and an invoice whose            *)
(* total_with_tax does not equal net + VAT (unbalanced).                   *)
MCBatches ==
    {InvoiceIssuedBatch(c1, 2, 0, 2, "RUB"),
     CreditNoteAppliedBatch(c1, 2, "RUB"),
     InvoiceIssuedBatch(c1, 1, 1, 1, "RUB")}
=============================================================================
