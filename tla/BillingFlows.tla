---------------------------- MODULE BillingFlows ----------------------------
(***************************************************************************)
(* Invoices of the billing flows, their payments, refunds and payment      *)
(* intakes: issue_invoice, capture_payment and refund_payment of           *)
(* app/services/billing_service.py, the endpoints that commit them, and    *)
(* the submission, approval and rejection of intakes.                      *)
(*                                                                         *)
(* A command runs in one READ COMMITTED transaction.  It loads the invoice *)
(* without a lock, posts to the internal ledger of its tenant, locks the   *)
(* case of the invoice to append a case event, inserts its row, sums the   *)
(* rows of the invoice and stores what differs from the invoice it loaded. *)
(* The tenant is the caller's, not the invoice's: two commands on one      *)
(* invoice may post to the chains of two tenants.                          *)
(*                                                                         *)
(* A repeated command whose key is found, a refused argument and an        *)
(* unknown invoice or payment change nothing.                              *)
(***************************************************************************)
EXTENDS Sums

CONSTANTS Sessions,
          Tenants,
          Invoices,      \* an invoice is named by its idempotency key
          CaptureKeys,   \* idempotency keys of payments captured directly
          RefundKeys,    \* idempotency keys of refunds
          Intakes,       \* ids of payment intakes; bound: intakes submitted
          OrgTenant,     \* org_id of the intakes
          Amounts,       \* of payments and refunds
          Total,         \* amount_total of an invoice
          MaxCommands,   \* bound: invoices issued, payments, refunds and approvals begun
          NoRef

ASSUME FlowAmounts ==
    /\ Amounts \subseteq Nat \ {0} /\ Total \in Nat \ {0}
    /\ MaxCommands \in Nat /\ OrgTenant \in Tenants

(* The key of an approved intake is its id behind a prefix of its own.     *)
ASSUME KeysAreApart == CaptureKeys \cap Intakes = {}

VARIABLES
    invoices,      \* invoices[i]: amount_paid and status
    payments,      \* billing_payments
    refunds,       \* billing_refunds
    intakes,       \* intakes[n]: billing_payment_intakes
    ledger,        \* ledger[t]: the postings of tenant t
    subscription,  \* status of the client's subscription
    cmd,           \* cmd[s]: the command s runs
    begun,         \* number of bounded commands begun
    missed         \* history: invoices whose last store left a stale column

rows == <<invoices, payments, refunds, intakes, ledger, subscription>>
vars == <<rows, cmd, begun, missed>>

NoInvoice == [paid |-> 0, status |-> "NONE"]
NoIntake == [status |-> "NONE", invoice |-> NoRef, amount |-> 0]
Idle == [pc |-> "idle", op |-> "none", tenant |-> NoRef, key |-> NoRef, ref |-> NoRef,
         invoice |-> NoRef, intake |-> NoRef, amount |-> 0, seen |-> NoInvoice,
         due |-> 0, base |-> 0, posted |-> FALSE, new |-> NoInvoice]

Init ==
    /\ invoices = [i \in Invoices |-> NoInvoice]
    /\ payments = {} /\ refunds = {}
    /\ intakes = [n \in Intakes |-> NoIntake]
    /\ ledger = [t \in Tenants |-> {}]
    /\ subscription = "SUSPENDED"  \* as dunning leaves it
    /\ cmd = [s \in Sessions |-> Idle]
    /\ begun = 0
    /\ missed = {}

-----------------------------------------------------------------------------
PaymentKeys == {p.key : p \in payments}

AmountsOf(set) == SumOf([r \in set |-> r.amount], set)
PaidTotal(i) == AmountsOf({p \in payments : p.invoice = i})
RefundsOf(i) == {r \in refunds : \E p \in payments : p.key = r.payment /\ p.invoice = i}

(* What the rows of the tables say an invoice has been paid.               *)
Net(i) == PaidTotal(i) - AmountsOf(RefundsOf(i))

StatusOf(paid) ==
    IF paid <= 0 THEN "ISSUED" ELSE IF paid < Total THEN "PARTIALLY_PAID" ELSE "PAID"

-----------------------------------------------------------------------------
(* Beginning of a command: the lookup of its key and the rows it loads.    *)

Begin(s, c) ==
    /\ cmd[s] = Idle
    /\ begun < MaxCommands
    /\ begun' = begun + 1
    /\ cmd' = [cmd EXCEPT ![s] = c]
    /\ UNCHANGED <<rows, missed>>

IssueInvoice(s, t, i) ==
    /\ invoices[i] = NoInvoice
    /\ Begin(s, [Idle EXCEPT !.pc = "sequence", !.op = "issue", !.tenant = t, !.key = i,
                             !.invoice = i, !.amount = Total])

CapturePayment(s, t, i, k, a) ==
    /\ k \notin PaymentKeys
    /\ invoices[i] # NoInvoice
    /\ Begin(s, [Idle EXCEPT !.pc = "sequence", !.op = "capture", !.tenant = t, !.key = k,
                             !.invoice = i, !.amount = a, !.seen = invoices[i]])

RefundPayment(s, t, p, k, a) ==
    /\ \A r \in refunds : r.key # k
    /\ Begin(s, [Idle EXCEPT !.pc = "sequence", !.op = "refund", !.tenant = t, !.key = k,
                             !.ref = p.key, !.invoice = p.invoice, !.amount = a,
                             !.seen = invoices[p.invoice]])

-----------------------------------------------------------------------------
(* Payment intakes.                                                        *)

Due(i) == Total - invoices[i].paid

Open(n) == intakes[n].status = "SUBMITTED"

(* _submit_payment_intake_for_invoice of the portal: what is due, and      *)
(* nothing else.  The intakes of the invoice are read before the insert.   *)
SubmitIntake(s, n, i) ==
    /\ intakes[n] = NoIntake
    /\ \A t \in Sessions : cmd[t].intake # n
    /\ invoices[i] # NoInvoice /\ Due(i) > 0
    /\ \A m \in Intakes : intakes[m].invoice = i => ~Open(m)
    /\ cmd[s] = Idle
    /\ cmd' = [cmd EXCEPT ![s] = [Idle EXCEPT !.pc = "insert", !.op = "submit",
                                     !.intake = n, !.invoice = i, !.amount = Due(i)]]
    /\ UNCHANGED <<rows, begun, missed>>

InsertIntake(s) ==
    /\ cmd[s].pc = "insert"
    /\ intakes' = [intakes EXCEPT ![cmd[s].intake] =
                      [status |-> "SUBMITTED", invoice |-> cmd[s].invoice,
                       amount |-> cmd[s].amount]]
    /\ cmd' = [cmd EXCEPT ![s] = Idle]
    /\ UNCHANGED <<invoices, payments, refunds, ledger, subscription, begun, missed>>

Approvable(n) == intakes[n].status \notin {"NONE", "APPROVED"}

ApproveIntake(s, n) ==
    /\ Approvable(n)
    /\ Begin(s, [Idle EXCEPT !.pc = "review", !.op = "approve", !.tenant = OrgTenant,
                             !.key = n, !.intake = n, !.invoice = intakes[n].invoice,
                             !.amount = intakes[n].amount])

(* The UPDATE of review_payment_intake locks the row of the intake.        *)
IntakeLocked(n) == \E t \in Sessions : cmd[t].op = "approve" /\ cmd[t].intake = n
                                          /\ cmd[t].pc \notin {"idle", "review"}

ReviewIntake(s) ==
    /\ cmd[s].pc = "review"
    /\ ~IntakeLocked(cmd[s].intake)
    /\ cmd' = [cmd EXCEPT ![s].pc = "due"]
    /\ UNCHANGED <<rows, begun, missed>>

RejectIntake(s, n) ==
    /\ cmd[s] = Idle
    /\ intakes[n] # NoIntake /\ ~IntakeLocked(n)
    /\ intakes' = [intakes EXCEPT ![n].status = "REJECTED"]
    /\ UNCHANGED <<invoices, payments, refunds, ledger, subscription, cmd, begun, missed>>

(* Mutant: an intake is compared with the total, not with what is due.     *)
CoversTotal(c) == c.amount <= Total

Coverable(c) == Due(c.invoice) > 0 /\ c.amount <= Due(c.invoice)

CheckDue(s) ==
    /\ cmd[s].pc = "due"
    /\ Coverable(cmd[s])
    /\ cmd' = [cmd EXCEPT ![s].pc = "load", ![s].due = Due(cmd[s].invoice)]
    /\ UNCHANGED <<rows, begun, missed>>

(* 409: the session is closed without a commit.                            *)
RefuseDue(s) ==
    /\ cmd[s].pc = "due"
    /\ ~Coverable(cmd[s])
    /\ cmd' = [cmd EXCEPT ![s] = Idle]
    /\ UNCHANGED <<rows, begun, missed>>

(* capture_payment for the intake.  An intake approved before has its      *)
(* payment already: it is approved again after one more look at the        *)
(* invoice, and nothing is captured.                                       *)
LoadForIntake(s) ==
    /\ cmd[s].pc = "load"
    /\ cmd' = [cmd EXCEPT ![s].seen = invoices[cmd[s].invoice],
                  ![s].pc = IF cmd[s].intake \in PaymentKeys THEN "approved" ELSE "sequence"]
    /\ UNCHANGED <<rows, begun, missed>>

CommitApproval(s) ==
    /\ cmd[s].pc = "approved"
    /\ intakes' = [intakes EXCEPT ![cmd[s].intake].status = "APPROVED"]
    /\ subscription' = IF cmd[s].seen.status = "PAID" THEN "ACTIVE" ELSE subscription
    /\ cmd' = [cmd EXCEPT ![s] = Idle]
    /\ UNCHANGED <<invoices, payments, refunds, ledger, begun, missed>>

-----------------------------------------------------------------------------
(* post_transaction of the internal ledger (module InternalLedger).        *)

Kind(c) == IF c.op = "approve" THEN "capture" ELSE c.op
Posting(c) == [kind |-> Kind(c), key |-> c.key, amount |-> c.amount, invoice |-> c.invoice]
SameKey(x, c) == x.kind = Kind(c) /\ x.key = c.key
InLedger(c) == \E t \in Tenants : \E x \in ledger[t] : SameKey(x, c)

(* The key of the posting is looked up, then the sequence number is read.  *)
NextBatchSequence(s) ==
    /\ cmd[s].pc = "sequence"
    /\ cmd' = [cmd EXCEPT ![s].pc = IF InLedger(cmd[s]) THEN "case" ELSE "post",
                          ![s].base = Cardinality(ledger[cmd[s].tenant])]
    /\ UNCHANGED <<rows, begun, missed>>

(* An uncommitted header with the same sequence number or the same key     *)
(* makes the INSERT wait.                                                  *)
Blocks(t, s) ==
    /\ t # s /\ cmd[t].posted
    /\ \/ cmd[t].tenant = cmd[s].tenant /\ cmd[t].base = cmd[s].base
       \/ SameKey(Posting(cmd[t]), cmd[s])

SequenceTaken(s) == Cardinality(ledger[cmd[s].tenant]) # cmd[s].base

(* A clash rolls the savepoint back; the header found under the key is     *)
(* returned as if it were the command's own, else the error is raised.     *)
InsertHeader(s) ==
    /\ cmd[s].pc = "post"
    /\ \A t \in Sessions : ~Blocks(t, s)
    /\ InLedger(cmd[s]) \/ ~SequenceTaken(s)
    /\ cmd' = [cmd EXCEPT ![s].pc = "case", ![s].posted = ~InLedger(cmd[s])]
    /\ UNCHANGED <<rows, begun, missed>>

(* Mutant: the insert is retried with the sequence number that was read.   *)
InsertHeaderRetries(s) ==
    /\ cmd[s].pc = "post"
    /\ \A t \in Sessions : ~Blocks(t, s)
    /\ SequenceTaken(s) /\ ~InLedger(cmd[s])
    /\ UNCHANGED vars

InsertHeaderRaises(s) ==
    /\ cmd[s].pc = "post"
    /\ \A t \in Sessions : ~Blocks(t, s)
    /\ SequenceTaken(s) /\ ~InLedger(cmd[s])
    /\ cmd' = [cmd EXCEPT ![s] = Idle]
    /\ UNCHANGED <<rows, begun, missed>>

-----------------------------------------------------------------------------
(* The case event, the row and the invoice.                                *)

(* Mutant: the case is read without FOR UPDATE.                            *)
NeverLocked(i) == FALSE

CaseLocked(i) == \E t \in Sessions : cmd[t].invoice = i /\ cmd[t].pc \in {"row", "commit"}

LockCase(s) ==
    /\ cmd[s].pc = "case"
    /\ ~CaseLocked(cmd[s].invoice)
    /\ cmd' = [cmd EXCEPT ![s].pc = "row"]
    /\ UNCHANGED <<rows, begun, missed>>

NetWith(c) == Net(c.invoice) + (IF c.op = "refund" THEN -c.amount ELSE c.amount)

RowExists(c) ==
    CASE c.op = "issue"  -> invoices[c.invoice] # NoInvoice
      [] c.op = "refund" -> \E r \in refunds : r.key = c.key
      [] OTHER           -> c.key \in PaymentKeys

(* The row is inserted and the invoice recomputed: _update_invoice_status. *)
InsertRow(s) ==
    /\ cmd[s].pc = "row"
    /\ ~RowExists(cmd[s])
    /\ LET net == IF cmd[s].op = "issue" THEN 0 ELSE NetWith(cmd[s])
       IN cmd' = [cmd EXCEPT ![s].pc = "commit",
                             ![s].new = [paid |-> net, status |-> StatusOf(net)]]
    /\ UNCHANGED <<rows, begun, missed>>

(* The key was taken since it was looked up: IntegrityError, rolled back.  *)
InsertRowRaises(s) ==
    /\ cmd[s].pc = "row"
    /\ RowExists(cmd[s])
    /\ cmd' = [cmd EXCEPT ![s] = Idle]
    /\ UNCHANGED <<rows, begun, missed>>

(* The mapper writes the columns that differ from what was loaded.         *)
Stored(c) ==
    [paid   |-> IF c.new.paid = c.seen.paid THEN invoices[c.invoice].paid ELSE c.new.paid,
     status |-> IF c.new.status = c.seen.status THEN invoices[c.invoice].status
                                                ELSE c.new.status]

RefundStatus(total, amount) ==
    IF total >= amount THEN "REFUNDED_FULL" ELSE "REFUNDED_PARTIAL"

RefundedWith(c) == c.amount + AmountsOf({r \in refunds : r.payment = c.ref})

NewPayments(c) ==
    CASE c.op = "refund" -> {IF p.key # c.ref THEN p
                             ELSE [p EXCEPT !.status = RefundStatus(RefundedWith(c), p.amount)]
                                : p \in payments}
      [] c.op = "issue"  -> payments
      [] OTHER -> payments \cup {[key |-> c.key, invoice |-> c.invoice,
                                  amount |-> c.amount, status |-> "CAPTURED"]}

NewRefunds(c) ==
    IF c.op = "refund"
    THEN refunds \cup {[key |-> c.key, payment |-> c.ref, amount |-> c.amount]}
    ELSE refunds

(* payment_clears_invoice                                                  *)
Clears(c) == c.seen.paid + c.amount >= Total

(* An approval reads the stored invoice once more.                         *)
Reactivates(c) ==
    \/ c.op \in {"capture", "approve"} /\ (c.new.status = "PAID" \/ Clears(c))
    \/ c.op = "approve" /\ Stored(c).status = "PAID"

Commit(s) ==
    LET c == cmd[s] IN
    /\ c.pc = "commit"
    /\ invoices' = [invoices EXCEPT ![c.invoice] = Stored(c)]
    /\ payments' = NewPayments(c)
    /\ refunds' = NewRefunds(c)
    /\ intakes' = IF c.op = "approve"
                  THEN [intakes EXCEPT ![c.intake].status = "APPROVED"] ELSE intakes
    /\ ledger' = IF c.posted THEN [ledger EXCEPT ![c.tenant] = @ \cup {Posting(c)}]
                 ELSE ledger
    /\ subscription' = IF Reactivates(c) THEN "ACTIVE" ELSE subscription
    /\ missed' = IF Stored(c) = c.new THEN missed \ {c.invoice} ELSE missed \cup {c.invoice}
    /\ cmd' = [cmd EXCEPT ![s] = Idle]
    /\ UNCHANGED begun

(* The process dies or the connection is lost: the transaction is gone.    *)
Abort(s) ==
    /\ cmd[s] # Idle
    /\ cmd' = [cmd EXCEPT ![s] = Idle]
    /\ UNCHANGED <<rows, begun, missed>>

-----------------------------------------------------------------------------
Step(s) ==
    \/ InsertIntake(s) \/ ReviewIntake(s) \/ CheckDue(s) \/ RefuseDue(s)
    \/ LoadForIntake(s) \/ CommitApproval(s)
    \/ NextBatchSequence(s) \/ InsertHeader(s) \/ InsertHeaderRaises(s)
    \/ LockCase(s) \/ InsertRow(s) \/ InsertRowRaises(s) \/ Commit(s)

Call(s) ==
    \/ \E t \in Tenants, i \in Invoices :
          \/ IssueInvoice(s, t, i)
          \/ \E k \in CaptureKeys, a \in Amounts : CapturePayment(s, t, i, k, a)
    \/ \E t \in Tenants, p \in payments, k \in RefundKeys, a \in Amounts :
          RefundPayment(s, t, p, k, a)
    \/ \E n \in Intakes :
          \/ ApproveIntake(s, n) \/ RejectIntake(s, n)
          \/ \E i \in Invoices : SubmitIntake(s, n, i)

Next == \E s \in Sessions : Call(s) \/ Step(s) \/ Abort(s)

Spec == Init /\ [][Next]_vars

(* A session's statements go on; PostgreSQL wakes the waiter of a lock     *)
(* that is released.                                                       *)
FairSpec == Spec /\ \A s \in Sessions : WF_vars(Step(s))

-----------------------------------------------------------------------------
Statuses == {"ISSUED", "PARTIALLY_PAID", "PAID"}
InvoiceRow == [paid : Int, status : Statuses \cup {"NONE"}]
Keys == CaptureKeys \cup Intakes
Places == {"idle", "insert", "review", "due", "load", "approved", "sequence", "post",
           "case", "row", "commit"}
Ops == {"none", "issue", "capture", "refund", "approve", "submit"}
Command == [pc : Places, op : Ops, tenant : Tenants \cup {NoRef},
            key : Invoices \cup Keys \cup RefundKeys \cup {NoRef},
            ref : Keys \cup {NoRef}, invoice : Invoices \cup {NoRef},
            intake : Intakes \cup {NoRef}, amount : Nat, seen : InvoiceRow, due : Int,
            base : Nat, posted : BOOLEAN, new : InvoiceRow]

(* The tables and the commands hold what their columns and fields may.     *)
TypeOK ==
    /\ invoices \in [Invoices -> InvoiceRow]
    /\ payments \subseteq [key : Keys, invoice : Invoices, amount : Nat \ {0},
                           status : {"CAPTURED", "REFUNDED_PARTIAL", "REFUNDED_FULL"}]
    /\ refunds \subseteq [key : RefundKeys, payment : Keys, amount : Nat \ {0}]
    /\ intakes \in [Intakes -> [status : {"NONE", "SUBMITTED", "APPROVED", "REJECTED"},
                                invoice : Invoices \cup {NoRef}, amount : Nat]]
    /\ subscription \in {"ACTIVE", "SUSPENDED"}
    /\ cmd \in [Sessions -> Command]
    /\ begun \in 0..MaxCommands

(* amount_paid and status of an invoice are what its payments and refunds  *)
(* add up to, whoever captures and refunds at the same time, unless the    *)
(* last command stored nothing because its result was what it had loaded.  *)
InvoiceMatchesPayments ==
    \A i \in Invoices :
        invoices[i] # NoInvoice /\ i \notin missed =>
            invoices[i] = [paid |-> Net(i), status |-> StatusOf(Net(i))]

Debit(x) == IF x.kind = "capture" THEN -x.amount ELSE x.amount
Entries == UNION {{t} \X ledger[t] : t \in Tenants}
Receivable(i) ==
    SumOf([e \in Entries |-> Debit(e[2])], {e \in Entries : e[2].invoice = i})

(* The receivable of an invoice in the chains of all tenants is what its   *)
(* rows leave open: no command posts without its row, none posts twice,    *)
(* and a posting found under the key never stands for a second row.        *)
ReceivableMatchesRows ==
    \A i \in Invoices :
        Receivable(i) = IF invoices[i] = NoInvoice THEN 0 ELSE Total - Net(i)

(* The status of a payment is the one its refunds add up to, although      *)
(* refunds of one payment may run at the same time.                        *)
PaymentStatusMatches ==
    \A p \in payments :
        LET total == AmountsOf({r \in refunds : r.payment = p.key})
        IN p.status = IF total = 0 THEN "CAPTURED"
                      ELSE IF total >= p.amount THEN "REFUNDED_FULL" ELSE "REFUNDED_PARTIAL"

(* An approved intake has been captured for its invoice, in full: the      *)
(* review never outlives a capture that was refused, raised or died.       *)
ApprovedIsCaptured ==
    \A n \in Intakes : intakes[n].status = "APPROVED" =>
        \E p \in payments : /\ p.key = n /\ p.invoice = intakes[n].invoice
                            /\ p.amount = intakes[n].amount

(* Invoices, payments, refunds, intakes and the ledger tell the same story.*)
BillingBooksMatch ==
    /\ TypeOK /\ InvoiceMatchesPayments /\ ReceivableMatchesRows
    /\ PaymentStatusMatches /\ ApprovedIsCaptured

(* What a command that reactivates has loaded is not what the rows say, or *)
(* is so again although the invoice itself has kept a column of before.    *)
LoadedStale(c) ==
    \/ c.pc = "commit" /\ (c.seen.paid # Net(c.invoice) \/ c.invoice \in missed)
    \/ c.pc = "approved" /\ c.seen # [paid   |-> Net(c.invoice),
                                      status |-> StatusOf(Net(c.invoice))]

(* reactivate_subscription_storage: the subscription is reactivated only   *)
(* when the rows cover an invoice in full, unless the invoice was paid or  *)
(* refunded since the command that reactivates it loaded it.               *)
ReactivatedWhenCovered ==
    [][subscription # subscription' =>
          \/ \E i \in Invoices : Net(i)' >= Total
          \/ \E s \in Sessions : LoadedStale(cmd[s])]_vars

(* An approval overpays an invoice only if a payment was committed between *)
(* the check of what is due and the insert.                                *)
ApprovalNeverOverpays ==
    [][\A s \in Sessions, i \in Invoices :
          /\ cmd[s].op = "approve" /\ cmd[s].pc = "commit" /\ cmd[s].invoice = i
          /\ cmd'[s] = Idle /\ payments' # payments
          => \/ Net(i)' <= Total
             \/ cmd[s].due # Total - Net(i)]_vars

(* Every command ends: the locks of an intake, of the sequence number, of  *)
(* a key and of a case are never waited for in a circle.                   *)
CommandEnds == \A s \in Sessions : cmd[s] # Idle ~> cmd[s] = Idle

(* What was decided on an invoice read without a lock is right when it is  *)
(* committed, unless the invoice was paid or refunded in between.          *)
DecisionsAreCovered == ReactivatedWhenCovered /\ ApprovalNeverOverpays
=============================================================================
