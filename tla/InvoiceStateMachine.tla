------------------------ MODULE InvoiceStateMachine ------------------------
(***************************************************************************)
(* The life cycle of an invoice: app/services/invoice_state_machine.py and *)
(* the arithmetic checks of app/services/finance_invariants/rules.py.      *)
(*                                                                         *)
(* An invoice v is the part of its row the state machine reads and writes. *)
(* An amount of 0 stands for an argument that is None.  CREDITED has no    *)
(* transition into it and is left out.                                     *)
(***************************************************************************)
EXTENDS Integers

CONSTANT Total    \* total_with_tax, the same for every invoice

Status == {"DRAFT", "ISSUED", "SENT", "PARTIALLY_PAID", "PAID", "OVERDUE",
           "CANCELLED"}

(* pdf_status: NONE, GENERATING and FAILED count as QUEUED.                *)
PdfStatus == {"QUEUED", "READY"}

Invoice == [status : Status, pdf : PdfStatus, paid : Int, credited : Int,
            refunded : Int, due : Int]

AllowedTransitions(status) ==
    CASE status = "DRAFT"          -> {"ISSUED"}
      [] status = "ISSUED"         -> {"SENT", "CANCELLED"}
      [] status = "SENT"           -> {"PARTIALLY_PAID", "PAID", "CANCELLED",
                                       "OVERDUE"}
      [] status = "PARTIALLY_PAID" -> {"PAID", "SENT"}
      [] status = "PAID"           -> {"PARTIALLY_PAID", "SENT"}
      [] status = "OVERDUE"        -> {"PARTIALLY_PAID", "PAID"}
      [] status = "CANCELLED"      -> {}

ValidateAllowed(v, to) == to = v.status \/ to \in AllowedTransitions(v.status)

(* _apply_amounts: the amounts of an operation are added to the invoice,   *)
(* which is refused if the due amount becomes negative.                    *)
ApplyAmounts(v, payment, credit, refund) ==
    [v EXCEPT
        !.paid     = @ + payment,
        !.credited = @ + credit,
        !.refunded = @ + refund,
        !.due      = Total - (v.paid + payment) - (v.credited + credit)
                           + (v.refunded + refund)]

AmountsAllowed(w) == w.paid >= 0 /\ w.credited >= 0 /\ w.refunded >= 0 /\ w.due >= 0

(* Mutant: an invoice with payments may be cancelled.                      *)
ConstraintsWithoutCancel(w, to, payment, credit, refund) ==
    /\ to = "SENT" => w.pdf = "READY"
    /\ to = "PARTIALLY_PAID" =>
          /\ w.paid > 0 \/ credit > 0
          /\ payment > 0 \/ refund > 0 \/ credit > 0
    /\ to = "PAID" => w.due = 0
    /\ to = "OVERDUE" => w.due > 0

(* _validate_constraints, on the invoice w with its new amounts.           *)
ValidateConstraints(w, to, payment, credit, refund) ==
    /\ to = "CANCELLED" => w.paid = 0 /\ w.credited = 0 /\ w.refunded = 0
    /\ to = "SENT" => w.pdf = "READY"
    /\ to = "PARTIALLY_PAID" =>
          /\ w.paid > 0 \/ credit > 0
          /\ payment > 0 \/ refund > 0 \/ credit > 0
    /\ to = "PAID" => w.due = 0
    /\ to = "OVERDUE" => w.due > 0

CanTransition(v, to, payment, credit, refund) ==
    LET w == ApplyAmounts(v, payment, credit, refund)
    IN  /\ payment >= 0 /\ credit >= 0 /\ refund >= 0
        /\ ValidateAllowed(v, to)
        /\ AmountsAllowed(w)
        /\ ValidateConstraints(w, to, payment, credit, refund)

Transition(v, to, payment, credit, refund) ==
    [ApplyAmounts(v, payment, credit, refund) EXCEPT !.status = to]

-----------------------------------------------------------------------------
(* finance_invariants/rules.py *)

ValidateInvoice(v) ==
    /\ v.due = Total - v.paid - v.credited + v.refunded
    /\ v.due >= 0 /\ v.paid >= 0 /\ v.refunded >= 0 /\ v.credited >= 0

ValidatePaymentApplication(v, amount) ==
    /\ amount >= 0
    /\ amount <= v.due
    /\ v.status # "CANCELLED"

ValidateRefund(v, amount) ==
    /\ amount >= 0
    /\ amount <= v.paid - v.refunded

Magnitude(n) == IF n < 0 THEN -n ELSE n

(* What settlement allocations must add up to.                             *)
NetCoverage(v) == v.paid - v.refunded - v.credited

ValidateSettlementTotal(allocated, v) ==
    /\ allocated = NetCoverage(v)
    /\ Magnitude(allocated) <= Total

-----------------------------------------------------------------------------
(* The transitions FinanceService asks for.                                *)

(* apply_payment: PAID when the amount covers what is outstanding.         *)
PaymentTarget(v, amount) ==
    IF amount >= Total - v.paid - v.credited + v.refunded
    THEN "PAID" ELSE "PARTIALLY_PAID"

CanPay(v, amount) ==
    /\ v.status \in {"SENT", "PARTIALLY_PAID", "OVERDUE"}
    /\ CanTransition(v, PaymentTarget(v, amount), amount, 0, 0)

Pay(v, amount) == Transition(v, PaymentTarget(v, amount), amount, 0, 0)

(* create_credit_note: from SENT in two transitions, otherwise in one.     *)
CreditTarget(v, amount) ==
    IF Total - v.paid - (v.credited + amount) + v.refunded <= 0
    THEN "PAID" ELSE "PARTIALLY_PAID"

CanCredit(v, amount) ==
    \/ /\ v.status = "SENT"
       /\ CanTransition(v, "PARTIALLY_PAID", 0, amount, 0)
       /\ LET w == Transition(v, "PARTIALLY_PAID", 0, amount, 0)
          IN  w.due <= 0 => CanTransition(w, "PAID", 0, 0, 0)
    \/ /\ v.status = "PARTIALLY_PAID"
       /\ CanTransition(v, CreditTarget(v, amount), 0, amount, 0)

Credit(v, amount) == Transition(v, CreditTarget(v, amount), 0, amount, 0)

(* create_refund: SENT again when nothing of the payments is left.         *)
RefundTarget(v, amount) ==
    IF v.paid - (v.refunded + amount) <= 0 THEN "SENT" ELSE "PARTIALLY_PAID"

CanRefund(v, amount) ==
    /\ v.status \in {"PAID", "PARTIALLY_PAID"}
    /\ CanTransition(v, RefundTarget(v, amount), 0, 0, amount)

Refund(v, amount) == Transition(v, RefundTarget(v, amount), 0, 0, amount)
=============================================================================
