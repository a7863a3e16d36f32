--------------------------- MODULE InvoiceFinance ---------------------------
(***************************************************************************)
(* Payments, credit notes and refunds of issued invoices: FinanceService   *)
(* (app/services/finance.py), the settlement allocations it books and the  *)
(* billing periods it books them in, used by concurrent database sessions. *)
(*                                                                         *)
(* A session runs one operation inside a PostgreSQL READ COMMITTED         *)
(* transaction.  It holds the invoice row FOR UPDATE from _lock_invoice to *)
(* the end of the transaction; nothing locks the idempotency lookups       *)
(* before that, nor the billing periods.  One currency, one provider and   *)
(* one calendar day are modelled.  The id of a payment or note is modelled *)
(* by its unique idempotency key, which for a refund is its external       *)
(* reference.                                                              *)
(***************************************************************************)
EXTENDS InvoiceStateMachine, FiniteSets, FiniteSetsExt

CONSTANTS Sessions,
          Invoices,
          Amounts,      \* amounts callers ask for (the schemas say gt=0)
          Keys,         \* idempotency keys and external references
          SlaKeys,      \* keys of the credit notes of SLA penalties
          AdminAmounts, \* amounts of the admin transition, 0 = none
          Preloads,     \* may the session have loaded the invoice before?
          Closing,      \* periods of the day that are closed meanwhile
          NoRequest,    \* the request of a session that has none
          NoCopy        \* the invoice a session has not loaded

ASSUME AmountsArePositive ==
    /\ Total \in Nat \ {0}
    /\ Amounts \subseteq Nat \ {0}
    /\ AdminAmounts \subseteq Nat
    /\ Preloads \subseteq BOOLEAN
    /\ Closing \subseteq {"DAILY", "ADHOC"}

VARIABLES
    invoice,    \* invoice[i]: the committed row of invoices
    payments,   \* committed invoice_payments
    notes,      \* committed credit_notes (credit notes and refunds)
    allocs,     \* committed invoice_settlement_allocations
    events,     \* keys of the committed money_flow_events of payments
    ledger,     \* what the internal ledger has committed postings for
    period,     \* status of the day's DAILY and ADHOC billing periods
    charge,     \* status of the billing period the invoices belong to
    pc,         \* pc[s]: the next step of s
    req,        \* req[s]: the operation s runs
    copy,       \* copy[s]: the invoice object in the identity map of s
    mine,       \* mine[s]: rows s has flushed and not committed
    slot        \* slot[s]: result of resolve_settlement_period

tables == <<invoice, payments, notes, allocs, events, ledger, period, charge>>
vars   == <<invoice, payments, notes, allocs, events, ledger, period, charge,
            pc, req, copy, mine, slot>>

Kinds == {"PAYMENT", "CREDIT_NOTE", "REFUND"}
Slots == {"DAILY", "ADHOC"}
PeriodStatus == {"OPEN", "FINALIZED", "LOCKED"}

Request == [kind : Kinds, invoice : Invoices, amount : Amounts, key : Keys]

NoRows == [payments |-> {}, notes |-> {}, allocs |-> {}, events |-> {},
           ledger |-> {}, periods |-> {}]
NoSlot == [name |-> "NONE", new |-> FALSE]

NewInvoice == [status |-> "DRAFT", pdf |-> "QUEUED", paid |-> 0,
               credited |-> 0, refunded |-> 0, due |-> Total]

Init ==
    /\ invoice = [i \in Invoices |-> NewInvoice]
    /\ payments = {} /\ notes = {} /\ allocs = {} /\ events = {} /\ ledger = {}
    /\ period = [p \in Slots |-> "ABSENT"]
    /\ charge = "OPEN"
    /\ pc   = [s \in Sessions |-> "idle"]
    /\ req  = [s \in Sessions |-> NoRequest]
    /\ copy = [s \in Sessions |-> NoCopy]
    /\ mine = [s \in Sessions |-> NoRows]
    /\ slot = [s \in Sessions |-> NoSlot]

-----------------------------------------------------------------------------
(* Sessions.                                                               *)

Goto(s, step) == pc' = [pc EXCEPT ![s] = step]

(* The session is over.                                                    *)
End(s) ==
    /\ Goto(s, "idle")
    /\ req'  = [req EXCEPT ![s] = NoRequest]
    /\ copy' = [copy EXCEPT ![s] = NoCopy]
    /\ mine' = [mine EXCEPT ![s] = NoRows]
    /\ slot' = [slot EXCEPT ![s] = NoSlot]

(* The transaction rolls back.                                             *)
Abort(s) == End(s) /\ UNCHANGED tables

(* Mutant: the lock is gone before the transaction commits.                *)
HoldsUntilReply(s, i) ==
    /\ pc[s] \in {"insert", "period", "allocate"}
    /\ req[s].invoice = i

(* s holds the row of invoice i FOR UPDATE.                                *)
Holds(s, i) ==
    /\ pc[s] \in {"insert", "period", "allocate", "reply"}
    /\ req[s].invoice = i

Free(i) == \A s \in Sessions : ~Holds(s, i)

(* SELECT ... FOR UPDATE without populate_existing: an invoice object the  *)
(* session has loaded before keeps its attributes.  old is what was        *)
(* loaded, new what the operation has made of it.                          *)
Load(s) ==
    IF copy[s] = NoCopy
    THEN [old |-> invoice[req[s].invoice], new |-> invoice[req[s].invoice]]
    ELSE copy[s]

PaymentsWith(k) == {p \in payments : p.key = k}
NotesWith(k)    == {n \in notes : n.key = k}
RefundsWith(k)  == {n \in NotesWith(k) : n.external}

SameRequest(row, r) == row.invoice = r.invoice /\ row.amount = r.amount

-----------------------------------------------------------------------------
(* The beginning of an operation: the replay lookups before the lock.      *)

Begin(s, r, step) ==
    /\ req' = [req EXCEPT ![s] = r]
    /\ Goto(s, step)
    /\ \E preload \in Preloads :
          copy' = [copy EXCEPT ![s] =
                     IF preload
                     THEN [old |-> invoice[r.invoice], new |-> invoice[r.invoice]]
                     ELSE NoCopy]
    /\ UNCHANGED <<tables, mine, slot>>

(* apply_payment: no money flow event has the key.                         *)
ApplyPayment(s, r) ==
    /\ pc[s] = "idle"
    /\ r.kind = "PAYMENT"
    /\ r.key \notin events
    /\ Begin(s, r, "resolve")

(* _replay_from_money_flow_event: the payment of the event is the answer.  *)
ReplayFromMoneyFlowEvent(s, r) ==
    /\ pc[s] = "idle"
    /\ r.kind = "PAYMENT"
    /\ r.key \in events
    /\ \E p \in PaymentsWith(r.key) : SameRequest(p, r)
    /\ UNCHANGED vars

(* _resolve_existing_payment before the lock: another session may have     *)
(* committed the payment since the event was looked up.                    *)
ResolveExistingPayment(s) ==
    /\ pc[s] = "resolve"
    /\ \/ PaymentsWith(req[s].key) = {} /\ Goto(s, "lock")
       \/ /\ \E p \in PaymentsWith(req[s].key) : SameRequest(p, req[s])
          /\ Goto(s, "relock")
    /\ UNCHANGED <<tables, req, copy, mine, slot>>

(* PaymentReferenceConflict or PaymentIdempotencyConflict.                 *)
ResolveConflict(s) ==
    /\ pc[s] = "resolve"
    /\ \E p \in PaymentsWith(req[s].key) : ~SameRequest(p, req[s])
    /\ Abort(s)

(* create_credit_note: a known key is replayed, whatever its invoice and   *)
(* its amount.                                                             *)
CreateCreditNote(s, r) ==
    /\ pc[s] = "idle"
    /\ r.kind = "CREDIT_NOTE"
    /\ Begin(s, r, IF NotesWith(r.key) = {} THEN "lock" ELSE "relock")

(* create_refund: a known reference is replayed for its invoice only.      *)
CreateRefund(s, r) ==
    /\ pc[s] = "idle"
    /\ r.kind = "REFUND"
    /\ \A n \in RefundsWith(r.key) : n.invoice = r.invoice
    /\ Begin(s, r, IF RefundsWith(r.key) = {} THEN "lock" ELSE "relock")

-----------------------------------------------------------------------------
(* Under the lock.                                                         *)

(* _require_settlement_period *)
SettlementAllowed == charge \in {"FINALIZED", "LOCKED"}

(* check_invoice, check_payment_application and check_refund.              *)
Fits(r, v) ==
    /\ ValidateInvoice(v)
    /\ r.kind = "PAYMENT" => ValidatePaymentApplication(v, r.amount)
    /\ r.kind = "REFUND" => /\ ValidateRefund(v, r.amount)
                            /\ v.status \in {"PAID", "PARTIALLY_PAID"}

Checked(r, v) == Fits(r, v) /\ SettlementAllowed

(* The payment another session has committed while this one was waiting.   *)
ExistingUnderLock(r) == IF r.kind = "PAYMENT" THEN PaymentsWith(r.key) ELSE {}

LockInvoice(s) ==
    /\ pc[s] = "lock"
    /\ Free(req[s].invoice)
    /\ copy' = [copy EXCEPT ![s] = Load(s)]
    /\ IF ExistingUnderLock(req[s]) = {}
       THEN Checked(req[s], Load(s).new) /\ Goto(s, "insert")
       ELSE /\ \A p \in ExistingUnderLock(req[s]) : SameRequest(p, req[s])
            /\ Goto(s, "period")
    /\ UNCHANGED <<tables, req, mine, slot>>

(* A check fails, a policy or a decision denies, or the key is in use.     *)
LockRefused(s) ==
    /\ pc[s] = "lock"
    /\ Free(req[s].invoice)
    /\ \/ ExistingUnderLock(req[s]) = {} /\ ~Checked(req[s], Load(s).new)
       \/ \E p \in ExistingUnderLock(req[s]) : ~SameRequest(p, req[s])
    /\ Abort(s)

(* The invoice is locked for a replay.                                     *)
LockForReplay(s) ==
    /\ pc[s] = "relock"
    /\ Free(req[s].invoice)
    /\ copy' = [copy EXCEPT ![s] = Load(s)]
    /\ Goto(s, "period")
    /\ UNCHANGED <<tables, req, mine, slot>>

-----------------------------------------------------------------------------
(* The row of the operation and the transition of the invoice.             *)

Applied(r, v) ==
    CASE r.kind = "PAYMENT"     -> Pay(v, r.amount)
      [] r.kind = "CREDIT_NOTE" -> Credit(v, r.amount)
      [] r.kind = "REFUND"      -> Refund(v, r.amount)

(* The transition is allowed, and check_invoice passes after it.           *)
CanApply(r, v) ==
    /\ \/ r.kind = "PAYMENT" /\ CanPay(v, r.amount)
       \/ r.kind = "CREDIT_NOTE" /\ CanCredit(v, r.amount)
       \/ r.kind = "REFUND" /\ CanRefund(v, r.amount)
    /\ ValidateInvoice(Applied(r, v))

(* Mutant: credit_notes and invoice_payments have no unique key.           *)
KeyNeverTaken(r) == FALSE

(* The unique idempotency keys of invoice_payments and of credit_notes.    *)
KeyTaken(r) ==
    IF r.kind = "PAYMENT" THEN PaymentsWith(r.key) # {} ELSE NotesWith(r.key) # {}

KeyPending(s) ==
    \E t \in Sessions \ {s} :
        \E row \in IF req[s].kind = "PAYMENT" THEN mine[t].payments
                                              ELSE mine[t].notes :
            row.key = req[s].key

(* The flushed rows m with the row of request r.  A payment also writes    *)
(* its ledger posting and its money flow event here.                       *)
WithRow(r, m) ==
    IF r.kind = "PAYMENT"
    THEN [m EXCEPT
            !.payments = @ \cup {[key |-> r.key, invoice |-> r.invoice,
                                  amount |-> r.amount]},
            !.events   = @ \cup {r.key},
            !.ledger   = @ \cup {<<"PAYMENT", r.key>>}]
    ELSE [m EXCEPT
            !.notes = @ \cup {[key |-> r.key, invoice |-> r.invoice,
                               amount |-> r.amount, external |-> r.kind = "REFUND"]}]

InsertRow(s) ==
    /\ pc[s] = "insert"
    /\ ~KeyTaken(req[s]) /\ ~KeyPending(s)
    /\ CanApply(req[s], copy[s].new)
    /\ copy' = [copy EXCEPT ![s].new = Applied(req[s], @)]
    /\ mine' = [mine EXCEPT ![s] = WithRow(req[s], @)]
    /\ Goto(s, "period")
    /\ UNCHANGED <<tables, req, slot>>

(* InvalidTransitionError, InvoiceInvariantError, or the key belongs to a  *)
(* row of another request.                                                 *)
InsertRefused(s) ==
    /\ pc[s] = "insert"
    /\ ~KeyPending(s)
    /\ \/ ~KeyTaken(req[s]) /\ ~CanApply(req[s], copy[s].new)
       \/ KeyTaken(req[s]) /\ (req[s].kind # "REFUND" \/ RefundsWith(req[s].key) = {})
    /\ Abort(s)

(* create_refund after an IntegrityError: the transaction rolls back, the  *)
(* lock with it, and the refund that won is replayed.                      *)
InsertReplayed(s) ==
    /\ pc[s] = "insert"
    /\ req[s].kind = "REFUND"
    /\ RefundsWith(req[s].key) # {}
    /\ copy' = [copy EXCEPT ![s] = NoCopy]
    /\ Goto(s, "relock")
    /\ UNCHANGED <<tables, req, mine, slot>>

-----------------------------------------------------------------------------
(* Settlement allocations.                                                 *)

(* resolve_settlement_period: the DAILY period of the day, or its ADHOC    *)
(* period when the day is closed; created when it does not exist.          *)
ResolveSettlementPeriod(s) ==
    /\ pc[s] = "period"
    /\ LET name == IF period["DAILY"] \in {"FINALIZED", "LOCKED"}
                   THEN "ADHOC" ELSE "DAILY"
       IN  slot' = [slot EXCEPT ![s] =
                      IF period[name] = "LOCKED" THEN NoSlot
                      ELSE [name |-> name, new |-> period[name] = "ABSENT"]]
    /\ Goto(s, "allocate")
    /\ UNCHANGED <<tables, req, copy, mine>>

Signed(a) == IF a.type = "PAYMENT" THEN a.amount ELSE -a.amount

AllocNet(S) == MapThenSumSet(Signed, S)

AllocsOf(i, S) == {a \in S : a.invoice = i}

Allocation(s, type, src, amount) ==
    [invoice |-> req[s].invoice, type |-> type, src |-> src, amount |-> amount,
     period |-> slot[s].name]

(* The row the operation is about, its own or the one it replays.          *)
RowAmounts(s) ==
    {row.amount : row \in
        IF req[s].kind = "PAYMENT"
        THEN {p \in payments \cup mine[s].payments : p.key = req[s].key}
        ELSE {n \in notes \cup mine[s].notes : n.key = req[s].key}}

(* _ensure_settlement_allocation for that row: nothing if it is there.     *)
OwnAllocation(s, seen) ==
    IF \E a \in seen : a.type = req[s].kind /\ a.src = req[s].key
    THEN {}
    ELSE {Allocation(s, req[s].kind, req[s].key, amount) : amount \in RowAmounts(s)}

(* Mutant: the allocation of a refund does not count for its note.         *)
UnallocatedOrRefunded(s, seen) ==
    LET i == req[s].invoice
        covered(type, k) == \E a \in seen : a.type = type /\ a.src = k
    IN  {Allocation(s, "PAYMENT", p.key, p.amount) :
            p \in {p \in payments \cup mine[s].payments :
                      p.invoice = i /\ ~covered("PAYMENT", p.key)}}
        \cup
        {Allocation(s, "CREDIT_NOTE", n.key, n.amount) :
            n \in {n \in notes \cup mine[s].notes :
                      n.invoice = i /\ ~covered("CREDIT_NOTE", n.key)}}

(* reconcile_invoice_allocations: rows of the invoice without allocation.  *)
Unallocated(s, seen) ==
    LET i == req[s].invoice
        covered(types, k) == \E a \in seen : a.type \in types /\ a.src = k
    IN  {Allocation(s, "PAYMENT", p.key, p.amount) :
            p \in {p \in payments \cup mine[s].payments :
                      p.invoice = i /\ ~covered({"PAYMENT"}, p.key)}}
        \cup
        {Allocation(s, IF <<"REFUND", n.key>> \in ledger \cup mine[s].ledger
                       THEN "REFUND" ELSE "CREDIT_NOTE", n.key, n.amount) :
            n \in {n \in notes \cup mine[s].notes :
                      n.invoice = i /\ ~covered({"CREDIT_NOTE", "REFUND"}, n.key)}}

(* ... and one adjustment for what is still missing.                       *)
Adjustment(s, seen) ==
    LET gap == NetCoverage(copy[s].new) - AllocNet(seen)
    IN  IF gap = 0 THEN {}
        ELSE {Allocation(s, IF gap < 0 THEN "REFUND" ELSE "PAYMENT",
                         <<"adjustment", Cardinality(seen)>>, Magnitude(gap))}

(* Every allocation is checked when it is added: with it the allocations   *)
(* match the coverage of the invoice (check_settlement_allocation).        *)
TotalHolds(s, seen) == ValidateSettlementTotal(AllocNet(seen), copy[s].new)

(* Two rows without allocation cannot both pass: amounts are positive.     *)
Bookable(s, seen, new) ==
    \/ new = {}
    \/ Cardinality(new) = 1 /\ TotalHolds(s, seen \cup new)

(* A payment that has its allocation and its posting is left alone.        *)
PaymentAlreadyApplied(s, seen) ==
    /\ req[s].kind = "PAYMENT"
    /\ \E a \in seen : a.type = "PAYMENT" /\ a.src = req[s].key
    /\ <<"PAYMENT", req[s].key>> \in ledger

Seen(s)       == AllocsOf(req[s].invoice, allocs \cup mine[s].allocs)
Own(s)        == OwnAllocation(s, Seen(s))
Backfill(s)   == Unallocated(s, Seen(s) \cup Own(s))
Adjusted(s)   == Adjustment(s, Seen(s) \cup Own(s) \cup Backfill(s))
NewAllocs(s)  == Own(s) \cup Backfill(s) \cup Adjusted(s)

(* Each addition passes the check when its turn comes.                     *)
Books(s) ==
    /\ Bookable(s, Seen(s), Own(s))
    /\ Bookable(s, Seen(s) \cup Own(s), Backfill(s))
    /\ Bookable(s, Seen(s) \cup Own(s) \cup Backfill(s), Adjusted(s))

(* INSERT of the billing period: unique on type and bounds.                *)
PeriodTaken(s)   == slot[s].new /\ period[slot[s].name] # "ABSENT"
PeriodPending(s) ==
    slot[s].new /\ \E t \in Sessions \ {s} : slot[s].name \in mine[t].periods

(* Mutant: a credit note is posted but not allocated.                      *)
AllocateAllButCreditNotes(s) ==
    /\ pc[s] = "allocate"
    /\ ~PaymentAlreadyApplied(s, Seen(s))
    /\ mine' = [mine EXCEPT ![s] =
         [@ EXCEPT !.allocs = @ \cup IF req[s].kind = "CREDIT_NOTE"
                                      THEN {} ELSE NewAllocs(s),
                   !.ledger = @ \cup {<<req[s].kind, req[s].key>>}]]
    /\ Goto(s, "reply")
    /\ UNCHANGED <<tables, req, copy, slot>>

(* The flushed rows m with the new allocations, their billing period if it *)
(* is new, and the posting.                                                *)
WithAllocs(s, m) ==
    [m EXCEPT !.allocs  = @ \cup NewAllocs(s),
              !.periods = IF NewAllocs(s) # {} /\ slot[s].new
                          THEN @ \cup {slot[s].name} ELSE @,
              !.ledger  = @ \cup {<<req[s].kind, req[s].key>>}]

Allocate(s) ==
    /\ pc[s] = "allocate"
    /\ ~PaymentAlreadyApplied(s, Seen(s))
    /\ NewAllocs(s) # {} =>
          slot[s] # NoSlot /\ ~PeriodTaken(s) /\ ~PeriodPending(s)
    /\ Books(s)
    /\ mine' = [mine EXCEPT ![s] = WithAllocs(s, @)]
    /\ Goto(s, "reply")
    /\ UNCHANGED <<tables, req, copy, slot>>

(* Mutant: the lost race for the period is not an error.                   *)
AllocateWaitsForPeriod(s) ==
    /\ pc[s] = "allocate"
    /\ ~PaymentAlreadyApplied(s, Seen(s))
    /\ ~Books(s) \/ (NewAllocs(s) # {} /\ slot[s] = NoSlot)
    /\ Abort(s)

(* A settlement invariant is violated, the period is locked or another     *)
(* session has created it in the meantime.                                 *)
AllocateRefused(s) ==
    /\ pc[s] = "allocate"
    /\ ~PaymentAlreadyApplied(s, Seen(s))
    /\ \/ ~Books(s)
       \/ NewAllocs(s) # {} /\ (slot[s] = NoSlot \/ PeriodTaken(s))
    /\ Abort(s)

(* _payment_already_applied: the replay has nothing to do.                 *)
AlreadyApplied(s) ==
    /\ pc[s] = "allocate"
    /\ PaymentAlreadyApplied(s, Seen(s))
    /\ Goto(s, "reply")
    /\ UNCHANGED <<tables, req, copy, mine, slot>>

-----------------------------------------------------------------------------
(* The end of the transaction.                                             *)

(* An UPDATE writes the columns that differ from what was loaded.          *)
Written(s) ==
    LET c == copy[s] IN
    [f \in DOMAIN c.new |-> IF c.new[f] # c.old[f] THEN c.new[f]
                            ELSE invoice[req[s].invoice][f]]

(* The caller commits and answers.                                         *)
Commit(s) ==
    /\ pc[s] = "reply"
    /\ invoice'  = [invoice EXCEPT ![req[s].invoice] = Written(s)]
    /\ payments' = payments \cup mine[s].payments
    /\ notes'    = notes \cup mine[s].notes
    /\ allocs'   = allocs \cup mine[s].allocs
    /\ events'   = events \cup mine[s].events
    /\ ledger'   = ledger \cup mine[s].ledger
    /\ period'   = [p \in Slots |-> IF p \in mine[s].periods THEN "OPEN" ELSE period[p]]
    /\ End(s)
    /\ UNCHANGED charge

(* The handlers of the HTTP API answer and close the session, which rolls  *)
(* the transaction back.                                                   *)
RespondAndClose(s) ==
    /\ pc[s] = "reply"
    /\ Abort(s)

(* The caller fails, its process crashes or the connection is lost.        *)
Fail(s) ==
    /\ pc[s] # "idle"
    /\ Abort(s)

-----------------------------------------------------------------------------
(* Other writers of the same rows; each commits at once.                   *)

Locals == <<pc, req, copy, mine, slot>>

(* admin_transition_invoice and admin_update_invoice_status.               *)
AdminTransition(i, to, payment, credit) ==
    /\ Free(i)
    /\ charge # "LOCKED"
    /\ to # invoice[i].status \/ payment # 0 \/ credit # 0
    /\ CanTransition(invoice[i], to, payment, credit, 0)
    /\ invoice' = [invoice EXCEPT ![i] = Transition(@, to, payment, credit, 0)]
    /\ UNCHANGED <<payments, notes, allocs, events, ledger, period, charge, Locals>>

(* The admin queues the rendering of the PDF; the task has rendered it.    *)
QueuePdf(i) ==
    /\ Free(i)
    /\ invoice' = [invoice EXCEPT ![i].pdf = "QUEUED"]
    /\ UNCHANGED <<payments, notes, allocs, events, ledger, period, charge, Locals>>

GeneratePdf(i) ==
    /\ Free(i)
    /\ invoice' = [invoice EXCEPT ![i].pdf = "READY"]
    /\ UNCHANGED <<payments, notes, allocs, events, ledger, period, charge, Locals>>

(* _maybe_create_credit_note of an SLA penalty.  The foreign key of the    *)
(* new row waits for the invoice row.                                      *)
SlaCreditNote(i, k, amount) ==
    /\ Free(i)
    /\ invoice[i].status \in {"SENT", "PARTIALLY_PAID"}
    /\ NotesWith(k) = {}
    /\ notes' = notes \cup {[key |-> k, invoice |-> i, amount |-> amount,
                             external |-> FALSE]}
    /\ UNCHANGED <<invoice, payments, allocs, events, ledger, period, charge, Locals>>

(* BillingPeriodService.finalize and .lock for a period of the day.        *)
FinalizePeriod(p) ==
    /\ period[p] \in {"ABSENT", "OPEN"}
    /\ \A s \in Sessions : p \notin mine[s].periods
    /\ period' = [period EXCEPT ![p] = "FINALIZED"]
    /\ UNCHANGED <<invoice, payments, notes, allocs, events, ledger, charge, Locals>>

LockPeriod(p) ==
    /\ period[p] = "FINALIZED"
    /\ period' = [period EXCEPT ![p] = "LOCKED"]
    /\ UNCHANGED <<invoice, payments, notes, allocs, events, ledger, charge, Locals>>

(* The same for the billing period of the invoices.                        *)
CloseChargePeriod ==
    /\ \/ charge = "OPEN" /\ charge' = "FINALIZED"
       \/ charge = "FINALIZED" /\ charge' = "LOCKED"
    /\ UNCHANGED <<invoice, payments, notes, allocs, events, ledger, period, Locals>>

-----------------------------------------------------------------------------
Start(s, r) ==
    \/ ApplyPayment(s, r) \/ ReplayFromMoneyFlowEvent(s, r)
    \/ CreateCreditNote(s, r) \/ CreateRefund(s, r)

Step(s) ==
    \/ ResolveExistingPayment(s) \/ ResolveConflict(s)
    \/ LockInvoice(s) \/ LockRefused(s) \/ LockForReplay(s)
    \/ InsertRow(s) \/ InsertRefused(s) \/ InsertReplayed(s)
    \/ ResolveSettlementPeriod(s)
    \/ Allocate(s) \/ AllocateRefused(s) \/ AlreadyApplied(s)
    \/ Commit(s) \/ RespondAndClose(s)

Environment ==
    \/ \E i \in Invoices, to \in Status, payment, credit \in AdminAmounts :
          AdminTransition(i, to, payment, credit)
    \/ \E i \in Invoices : QueuePdf(i) \/ GeneratePdf(i)
    \/ \E i \in Invoices, k \in SlaKeys, amount \in Amounts : SlaCreditNote(i, k, amount)
    \/ \E p \in Closing : FinalizePeriod(p) \/ LockPeriod(p)
    \/ CloseChargePeriod

Next ==
    \/ \E s \in Sessions : (\E r \in Request : Start(s, r)) \/ Step(s) \/ Fail(s)
    \/ Environment

Spec == Init /\ [][Next]_vars

(* A handler that has started goes on, and PostgreSQL grants a row lock to *)
(* the sessions that wait for it in turn.                                  *)
Fairness ==
    \A s \in Sessions :
        /\ WF_vars(Step(s))
        /\ SF_vars(LockInvoice(s) \/ LockRefused(s) \/ LockForReplay(s))

FairSpec == Spec /\ Fairness

-----------------------------------------------------------------------------
(* Properties.                                                             *)

Steps == {"idle", "resolve", "lock", "relock", "insert", "period", "allocate",
          "reply"}

Copy == [old : Invoice, new : Invoice]

(* Rows and session state have their types.                                *)
TypeOK ==
    /\ invoice \in [Invoices -> Invoice]
    /\ payments \subseteq [key : Keys, invoice : Invoices, amount : Amounts]
    /\ notes \subseteq [key : Keys \cup SlaKeys, invoice : Invoices,
                        amount : Amounts, external : BOOLEAN]
    /\ events \subseteq Keys
    /\ period \in [Slots -> PeriodStatus \cup {"ABSENT"}]
    /\ charge \in PeriodStatus
    /\ pc \in [Sessions -> Steps]
    /\ req \in [Sessions -> Request \cup {NoRequest}]
    /\ copy \in [Sessions -> Copy \cup {NoCopy}]
    /\ \A s \in Sessions : slot[s].name \in Slots \cup {"NONE"}

(* The matrix of docs/finance/financial_invariants.md: what is due is what *)
(* payments, credits and refunds leave, and it is never negative.          *)
InvoiceBalanced == \A i \in Invoices : ValidateInvoice(invoice[i])

(* The status an invoice has come to by any sequence of payments, credit   *)
(* notes, refunds and admin transitions never contradicts its amounts:     *)
(* PAID owes nothing, OVERDUE owes something, a cancelled invoice has seen *)
(* no money, and no more is refunded than was paid.                        *)
StatusMatchesMoney ==
    \A i \in Invoices :
        LET v == invoice[i] IN
        /\ v.status = "PAID" => v.due = 0
        /\ v.status = "OVERDUE" => v.due > 0
        /\ v.status \in {"DRAFT", "ISSUED", "CANCELLED"} =>
              v.paid = 0 /\ v.credited = 0 /\ v.refunded = 0
        /\ v.status = "PARTIALLY_PAID" => v.paid > 0 \/ v.credited > 0
        /\ v.refunded <= v.paid

(* How the row v of an invoice may become w.                               *)
ByOperation(v, w) ==
    \E r \in Request : Fits(r, v) /\ CanApply(r, v) /\ w = Applied(r, v)

ByAdmin(v, w) ==
    \E to \in Status, payment, credit \in AdminAmounts :
        /\ CanTransition(v, to, payment, credit, 0)
        /\ w = Transition(v, to, payment, credit, 0)

ByPdf(v, w) == \E pdf \in PdfStatus : w = [v EXCEPT !.pdf = pdf]

(* No update is lost between the read of an invoice and the write of its   *)
(* amounts and status: every committed change is one payment, credit note, *)
(* refund or manual transition of the row as it was committed before.      *)
NoUpdateIsLost ==
    [][\A i \in Invoices :
          LET v == invoice[i]
              w == invoice'[i]
          IN  v = w \/ ByOperation(v, w) \/ ByAdmin(v, w) \/ ByPdf(v, w)]_vars

AmountOf(S) == MapThenSumSet(LAMBDA row : row.amount, S)

(* No payment, credit note or refund is lost or counted twice: the amounts *)
(* of an invoice are the sums of its rows.                                 *)
AmountsAreSums ==
    \A i \in Invoices :
        LET of(S) == {row \in S : row.invoice = i} IN
        /\ invoice[i].paid = AmountOf(of(payments))
        /\ invoice[i].credited = AmountOf({n \in of(notes) : ~n.external})
        /\ invoice[i].refunded = AmountOf({n \in of(notes) : n.external})

(* alloc_net == paid_total - refund_total - credited_total: financial      *)
(* invariants "must stay true after money moves".                          *)
AllocationsMatchCoverage ==
    \A i \in Invoices : AllocNet(AllocsOf(i, allocs)) = NetCoverage(invoice[i])

(* A key pays once: two payments never share it, whatever is retried.      *)
(* Every payment and every note the service made is posted to the ledger   *)
(* and allocated once, a payment also has its money flow event, and        *)
(* nothing is posted or allocated without its row.  Amounts are the sums   *)
(* of their rows, allocations cover them and everything has its type.      *)
BooksAgree ==
    /\ TypeOK /\ AmountsAreSums /\ AllocationsMatchCoverage
    /\ \A p \in payments : /\ PaymentsWith(p.key) = {p}
                            /\ p.key \in events
                            /\ <<"PAYMENT", p.key>> \in ledger
    /\ \A n \in notes : n.key \notin SlaKeys =>
          <<IF n.external THEN "REFUND" ELSE "CREDIT_NOTE", n.key>> \in ledger
    /\ \A row \in payments \cup {n \in notes : n.key \notin SlaKeys} :
          Cardinality({a \in allocs : /\ a.src = row.key
                                      /\ (a.type = "PAYMENT") = (row \in payments)}) = 1
    /\ \A a \in allocs : a.src \in Keys =>
          \E row \in IF a.type = "PAYMENT" THEN payments ELSE notes :
             row.key = a.src /\ row.invoice = a.invoice /\ row.amount = a.amount

(* Whoever has changed the invoice before, a transaction that commits an   *)
(* allocation leaves the allocations of the invoice equal to its coverage. *)
AllocatingRestoresCoverage ==
    [][\A i \in Invoices :
          AllocsOf(i, allocs)' # AllocsOf(i, allocs) =>
             AllocNet(AllocsOf(i, allocs'))  = NetCoverage(invoice'[i])]_vars

(* An operation whose answer says that the payment was created has stored  *)
(* it.                                                                     *)
Answers(s) == RespondAndClose(s) \/ Commit(s)

AnsweredIsStored ==
    [][\A s \in Sessions : Answers(s) =>
          \E row \in payments' \cup notes' : row.key = req[s].key]_vars

(* Every operation ends: no session waits for ever for an invoice, a key   *)
(* or a billing period another session is creating.                        *)
OperationEnds == \A s \in Sessions : pc[s] # "idle" ~> pc[s] = "idle"

(* Reconciliation backfills the missing allocations of an invoice: unless  *)
(* an SLA penalty has credited it behind the back of the finance service,  *)
(* it never refuses an operation the checks before it have let through.    *)
ReconciliationNeverRefuses ==
    \A s \in Sessions :
        /\ pc[s] = "allocate"
        /\ \A n \in notes : n.invoice = req[s].invoice => n.key \notin SlaKeys
        /\ Bookable(s, Seen(s), Own(s))
        => Books(s)
=============================================================================
