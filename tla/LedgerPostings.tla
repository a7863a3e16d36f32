--------------------------- MODULE LedgerPostings ---------------------------
(***************************************************************************)
(* The double-entry lines of the internal ledger                           *)
(* (app/services/internal_ledger.py): what a posting line is, when a batch *)
(* of lines is acceptable, and the batches the posting helpers of          *)
(* InternalLedgerService build.  Idempotency keys, metadata and timestamps *)
(* of a batch are left to the module that uses it.                         *)
(***************************************************************************)
EXTENDS Integers, Sequences, FiniteSets, FiniteSetsExt

CONSTANT NoClient    \* client_id = None: an account of the platform itself

(* InternalLedgerLine. *)
Line(type, client, dir, amount, currency) ==
    [type |-> type, client |-> client, dir |-> dir,
     amount |-> amount, currency |-> currency]

DirectionSum(b, dir) ==
    MapThenSumSet(LAMBDA i : IF b[i].dir = dir THEN b[i].amount ELSE 0,
                  DOMAIN b)

DebitSum(b)  == DirectionSum(b, "DEBIT")
CreditSum(b) == DirectionSum(b, "CREDIT")

(* Every entry of the batch is in this currency. *)
BatchCurrency(b) == b[1].currency

(* The ValueErrors of post_transaction: no entries, mixed currencies, an   *)
(* unbalanced batch.                                                       *)
ValidBatch(b) ==
    /\ b # <<>>
    /\ \A i \in DOMAIN b : b[i].currency = BatchCurrency(b)
    /\ DebitSum(b) = CreditSum(b)

(* post_invoice_issued: withTax is invoice.total_with_tax, whose zero      *)
(* stands for "not set"; the VAT line exists only when there is VAT.       *)
InvoiceIssuedBatch(client, net, tax, withTax, cur) ==
    LET due == IF withTax # 0 THEN withTax ELSE net + tax
    IN  <<Line("CLIENT_AR", client, "DEBIT", due, cur),
          Line("PLATFORM_REVENUE", NoClient, "CREDIT", net, cur)>>
        \o IF tax # 0
           THEN <<Line("TAX_VAT", NoClient, "CREDIT", tax, cur)>>
           ELSE <<>>

(* post_fuel_settlement *)
FuelSettlementBatch(client, amount, cur) ==
    <<Line("CLIENT_AR", client, "DEBIT", amount, cur),
      Line("PROVIDER_PAYABLE", NoClient, "CREDIT", amount, cur)>>

(* post_fuel_reversal *)
FuelReversalBatch(client, amount, cur) ==
    <<Line("PROVIDER_PAYABLE", NoClient, "DEBIT", amount, cur),
      Line("CLIENT_AR", client, "CREDIT", amount, cur)>>

(* post_payment_applied *)
PaymentAppliedBatch(client, amount, cur) ==
    <<Line("CLIENT_CASH", client, "DEBIT", amount, cur),
      Line("CLIENT_AR", client, "CREDIT", amount, cur)>>

(* post_credit_note_applied *)
CreditNoteAppliedBatch(client, amount, cur) ==
    <<Line("PLATFORM_REVENUE", NoClient, "DEBIT", amount, cur),
      Line("CLIENT_AR", client, "CREDIT", amount, cur)>>

(* post_refund_applied *)
RefundAppliedBatch(client, amount, cur) ==
    <<Line("CLIENT_AR", client, "DEBIT", amount, cur),
      Line("CLIENT_CASH", client, "CREDIT", amount, cur)>>
=============================================================================
