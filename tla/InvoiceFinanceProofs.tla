------------------------ MODULE InvoiceFinanceProofs ------------------------
(***************************************************************************)
(* Proofs about InvoiceFinance for any number of sessions, invoices, keys  *)
(* and amounts: what FOR UPDATE is worth to an operation that has not      *)
(* loaded the invoice before (LockInv), and what follows for the amounts,  *)
(* for the allocations of an invoice (CoverInv), for the books (BooksInv)  *)
(* and for reconciliation (NumberInv).                                     *)
(***************************************************************************)
EXTENDS InvoiceFinance, SumsProofs

(* The steps of a session that holds its invoice.                          *)
Holding == {"insert", "period", "allocate", "reply"}

(* What the invoice object of s may be while s holds the row v.            *)
Faithful(s, v) ==
    /\ copy[s].old = v
    /\ copy[s].new \in Invoice
    /\ \/ copy[s].new = v
       \/ /\ Fits(req[s], v) /\ CanApply(req[s], v)
          /\ copy[s].new = Applied(req[s], v)
    /\ pc[s] = "insert" => copy[s].new = v /\ Fits(req[s], v)

(* The part of the types that the lock argument needs.                     *)
SessionTypes ==
    /\ invoice \in [Invoices -> Invoice]
    /\ pc \in [Sessions -> Steps]
    /\ DOMAIN req = Sessions
    /\ \A s \in Sessions : pc[s] # "idle" => req[s] \in Request
    /\ DOMAIN copy = Sessions

(* A session loads the invoice when it has locked it, not before.          *)
LoadedUnderLock == \A s \in Sessions : pc[s] \notin Holding => copy[s] = NoCopy

(* One session at a time holds an invoice, and what it has loaded is still *)
(* what is committed.                                                      *)
LocksProtect ==
    /\ \A s, t \in Sessions, i \in Invoices : Holds(s, i) /\ Holds(t, i) => s = t
    /\ \A s \in Sessions, i \in Invoices : Holds(s, i) => Faithful(s, invoice[i])

LockInv == SessionTypes /\ LoadedUnderLock /\ LocksProtect

-----------------------------------------------------------------------------
(* Facts about the operators of the state machine.                         *)

(* The assumption on the constants, element by element.                    *)
LEMMA AmountFacts ==
    /\ Total \in Nat /\ Total > 0
    /\ \A a \in Amounts : a \in Nat /\ a > 0
    /\ \A a \in AdminAmounts : a \in Nat
  <1>1. Total \in Nat \ {0} /\ Amounts \subseteq Nat \ {0} /\ AdminAmounts \subseteq Nat
    BY AmountsArePositive, Zenon
  <1> QED
    BY <1>1

(* A transition, field by field.                                           *)
LEMMA TransitionFields ==
    ASSUME NEW v \in Invoice, NEW to \in Status,
           NEW a \in Int, NEW b \in Int, NEW c \in Int
    PROVE  Transition(v, to, a, b, c) =
             [status |-> to, pdf |-> v.pdf, paid |-> v.paid + a,
              credited |-> v.credited + b, refunded |-> v.refunded + c,
              due |-> Total - (v.paid + a) - (v.credited + b) + (v.refunded + c)]
  <1> DEFINE w == ApplyAmounts(v, a, b, c)
  <1>1. DOMAIN v = {"status", "pdf", "paid", "credited", "refunded", "due"}
    BY DEF Invoice
  <1>2. DOMAIN w = DOMAIN v
    BY DEF ApplyAmounts
  <1>3. /\ w.status = v.status /\ w.pdf = v.pdf /\ w.paid = v.paid + a
        /\ w.credited = v.credited + b /\ w.refunded = v.refunded + c
        /\ w.due = Total - (v.paid + a) - (v.credited + b) + (v.refunded + c)
    BY <1>1 DEF ApplyAmounts
  <1>4. w = [f \in DOMAIN w |-> w[f]]
    BY DEF ApplyAmounts
  <1> HIDE DEF w
  <1>5. [w EXCEPT !.status = to] =
          [status |-> to, pdf |-> w.pdf, paid |-> w.paid, credited |-> w.credited,
           refunded |-> w.refunded, due |-> w.due]
    BY <1>1, <1>2, <1>4
  <1> QED
    BY <1>3, <1>5 DEF Transition, w

(* A transition keeps the type of an invoice ...                           *)
LEMMA TransitionType ==
    ASSUME NEW v \in Invoice, NEW to \in Status,
           NEW a \in Int, NEW b \in Int, NEW c \in Int
    PROVE  Transition(v, to, a, b, c) \in Invoice
  <1>1. Total \in Int
    BY AmountFacts
  <1>2. /\ v.pdf \in PdfStatus /\ v.paid + a \in Int /\ v.credited + b \in Int
        /\ v.refunded + c \in Int
        /\ Total - (v.paid + a) - (v.credited + b) + (v.refunded + c) \in Int
    BY <1>1 DEF Invoice
  <1> QED
    BY <1>2, TransitionFields DEF Invoice

(* ... and so does a payment, a credit note or a refund.                   *)
LEMMA AppliedType ==
    ASSUME NEW v \in Invoice, NEW r \in Request
    PROVE  Applied(r, v) \in Invoice
  <1>1. r.amount \in Int /\ r.kind \in Kinds
    BY AmountFacts DEF Request
  <1>2. /\ PaymentTarget(v, r.amount) \in Status
        /\ CreditTarget(v, r.amount) \in Status
        /\ RefundTarget(v, r.amount) \in Status
    BY DEF PaymentTarget, CreditTarget, RefundTarget, Status
  <1>3. /\ Pay(v, r.amount) \in Invoice
        /\ Credit(v, r.amount) \in Invoice
        /\ Refund(v, r.amount) \in Invoice
    BY <1>1, <1>2, TransitionType DEF Pay, Credit, Refund
  <1> QED
    BY <1>1, <1>3 DEF Applied, Kinds

(* What a session writes is its copy, as long as the row is what it loaded.*)
LEMMA WrittenIsNew ==
    ASSUME NEW s \in Sessions, copy[s].new \in Invoice,
           copy[s].old = invoice[req[s].invoice]
    PROVE  Written(s) = copy[s].new
  <1> DEFINE c == copy[s]
  <1>1. \A f \in DOMAIN c.new :
          (IF c.new[f] # c.old[f] THEN c.new[f] ELSE invoice[req[s].invoice][f]) = c.new[f]
    OBVIOUS
  <1>2. Written(s) = [f \in DOMAIN c.new |-> c.new[f]]
    BY <1>1 DEF Written
  <1>3. c.new = [f \in DOMAIN c.new |-> c.new[f]]
    BY DEF Invoice
  <1> QED
    BY <1>2, <1>3

-----------------------------------------------------------------------------
(* The steps of a session: s goes to step x with request q and copy c.     *)
Moves(s, x, q, c) ==
    /\ pc' = [pc EXCEPT ![s] = x]
    /\ DOMAIN req' = Sessions /\ DOMAIN copy' = Sessions
    /\ \A t \in Sessions : /\ req'[t] = IF t = s THEN q ELSE req[t]
                           /\ copy'[t] = IF t = s THEN c ELSE copy[t]

(* Leaving the lock, or going on without it.  Only an invoice that nobody  *)
(* else holds may be written.                                              *)
LEMMA LeaveInv ==
    ASSUME LockInv, NEW s \in Sessions, NEW x \in Steps \ Holding, NEW q,
           x # "idle" => q \in Request,
           Moves(s, x, q, NoCopy),
           invoice' \in [Invoices -> Invoice],
           \A i \in Invoices : invoice'[i] # invoice[i] =>
                 \A t \in Sessions \ {s} : ~Holds(t, i)
    PROVE  LockInv'
  <1> USE DEF LockInv
  <1>1. pc'[s] = x /\ \A t \in Sessions \ {s} : pc'[t] = pc[t]
    BY DEF Moves, SessionTypes
  <1>2. SessionTypes'
    BY <1>1 DEF SessionTypes, Moves
  <1>3. LoadedUnderLock'
    BY <1>1 DEF LoadedUnderLock, Moves
  <1>4. \A t \in Sessions, i \in Invoices :
           Holds(t, i)' => t # s /\ Holds(t, i)
    BY <1>1 DEF Holds, Moves, Holding
  <1>5. \A t \in Sessions \ {s} : copy'[t] = copy[t] /\ req'[t] = req[t] /\ pc'[t] = pc[t]
    BY <1>1 DEF Moves
  <1>6. LocksProtect'
    <2>1. ASSUME NEW t \in Sessions, NEW i \in Invoices, Holds(t, i)'
          PROVE  Faithful(t, invoice[i])'
      <3>1. t # s /\ Holds(t, i) /\ Faithful(t, invoice[i])
        BY <1>4, <2>1 DEF LocksProtect
      <3>2. invoice'[i] = invoice[i]
        BY <3>1
      <3> QED
        BY <1>5, <3>1, <3>2 DEF Faithful
    <2> QED
      BY <1>4, <2>1 DEF LocksProtect
  <1> QED
    BY <1>2, <1>3, <1>6

(* Taking the lock, or going on under it.                                  *)
LEMMA HoldInv ==
    ASSUME LockInv, NEW s \in Sessions, NEW x \in Holding, NEW c,
           pc[s] # "idle",
           pc[s] \in Holding \/ Free(req[s].invoice),
           Moves(s, x, req[s], c),
           invoice' = invoice,
           Faithful(s, invoice[req[s].invoice])'
    PROVE  LockInv'
  <1> USE DEF LockInv
  <1>1. pc'[s] = x /\ \A t \in Sessions \ {s} : pc'[t] = pc[t]
    BY DEF Moves, SessionTypes
  <1>2. SessionTypes'
    BY <1>1 DEF SessionTypes, Moves, Holding, Steps
  <1>3. LoadedUnderLock'
    BY <1>1 DEF LoadedUnderLock, Moves
  <1>4. \A t \in Sessions : req'[t] = req[t]
    BY DEF Moves
  <1>5. \A t \in Sessions \ {s}, i \in Invoices : Holds(t, i)' <=> Holds(t, i)
    BY <1>1, <1>4 DEF Holds
  <1>6. \A t \in Sessions \ {s} : ~Holds(t, req[s].invoice)
    BY DEF LocksProtect, Free, Holds, Holding, SessionTypes, Request
  <1>7. \A i \in Invoices : Holds(s, i)' => i = req[s].invoice
    BY <1>4 DEF Holds
  <1>8. LocksProtect'
    <2>1. ASSUME NEW t \in Sessions, NEW i \in Invoices, Holds(t, i)'
          PROVE  Faithful(t, invoice[i])'
      <3>1. CASE t = s
        BY <1>4, <1>7, <2>1, <3>1
      <3>2. CASE t # s
        <4>1. Faithful(t, invoice[i])
          BY <1>5, <2>1, <3>2 DEF LocksProtect
        <4>2. copy'[t] = copy[t] /\ req'[t] = req[t] /\ pc'[t] = pc[t]
          BY <1>1, <3>2 DEF Moves
        <4> QED
          BY <4>1, <4>2 DEF Faithful
      <3> QED
        BY <3>1, <3>2
    <2>2. ASSUME NEW t \in Sessions, NEW u \in Sessions, NEW i \in Invoices,
                 Holds(t, i)', Holds(u, i)'
          PROVE  t = u
      BY <1>5, <1>6, <1>7, <2>2 DEF LocksProtect
    <2> QED
      BY <2>1, <2>2 DEF LocksProtect
  <1> QED
    BY <1>2, <1>3, <1>8

(* Other writers: they wait for the lock of the invoice.                   *)
LEMMA OthersInv ==
    ASSUME LockInv, UNCHANGED <<pc, req, copy>>,
           invoice' \in [Invoices -> Invoice],
           \A i \in Invoices : invoice'[i] # invoice[i] => Free(i)
    PROVE  LockInv'
  <1> USE DEF LockInv
  <1>1. SessionTypes' /\ LoadedUnderLock'
    BY DEF SessionTypes, LoadedUnderLock
  <1>2. \A t \in Sessions, i \in Invoices : Holds(t, i)' <=> Holds(t, i)
    BY DEF Holds
  <1>3. ASSUME NEW t \in Sessions, NEW i \in Invoices, Holds(t, i)'
        PROVE  Faithful(t, invoice[i])'
    <2>1. Holds(t, i) /\ Faithful(t, invoice[i]) /\ invoice'[i] = invoice[i]
      BY <1>2, <1>3 DEF LocksProtect, Free
    <2> QED
      BY <2>1 DEF Faithful
  <1>4. LocksProtect'
    BY <1>2, <1>3 DEF LocksProtect
  <1> QED
    BY <1>1, <1>4

-----------------------------------------------------------------------------
(* In the initial state nobody holds or has loaded anything.               *)
LEMMA LockInvInit == Init => LockInv
  <1> SUFFICES ASSUME Init PROVE LockInv
    OBVIOUS
  <1>1. NewInvoice \in Invoice
    BY AmountFacts DEF NewInvoice, Invoice, Status, PdfStatus
  <1>2. SessionTypes /\ LoadedUnderLock
    BY <1>1 DEF Init, SessionTypes, LoadedUnderLock, Steps
  <1>3. LocksProtect
    BY DEF Init, LocksProtect, Holds
  <1> QED
    BY <1>2, <1>3 DEF LockInv

(* The transaction is rolled back, whatever it has done.                   *)
LEMMA AbortInv ==
    ASSUME LockInv, NEW s \in Sessions, Abort(s)
    PROVE  LockInv'
  <1>1. Moves(s, "idle", NoRequest, NoCopy)
    BY DEF Abort, End, Goto, Moves, LockInv, SessionTypes
  <1>2. invoice' = invoice /\ invoice' \in [Invoices -> Invoice]
    BY DEF Abort, tables, LockInv, SessionTypes
  <1> QED
    BY <1>1, <1>2, LeaveInv DEF Steps, Holding

(* The lookups before the lock, when nobody has loaded the invoice before. *)
LEMMA StartInv ==
    ASSUME LockInv, Preloads = {FALSE}, NEW s \in Sessions, NEW r \in Request, Start(s, r)
    PROVE  LockInv'
  <1>1. CASE UNCHANGED vars
    <2>1. UNCHANGED <<pc, req, copy, invoice>> /\ invoice' \in [Invoices -> Invoice]
      BY <1>1 DEF vars, LockInv, SessionTypes
    <2> QED
      BY <2>1, OthersInv
  <1>2. ASSUME NEW x \in {"resolve", "lock", "relock"}, Begin(s, r, x)
        PROVE  LockInv'
    <2>1. Moves(s, x, r, NoCopy)
      BY <1>2 DEF Begin, Goto, Moves, LockInv, SessionTypes
    <2>2. invoice' = invoice /\ invoice' \in [Invoices -> Invoice]
      BY <1>2 DEF Begin, tables, LockInv, SessionTypes
    <2> QED
      BY <2>1, <2>2, LeaveInv DEF Steps, Holding
  <1> QED
    BY <1>1, <1>2 DEF Start, ApplyPayment, ReplayFromMoneyFlowEvent, CreateCreditNote,
                      CreateRefund

(* Steps that keep or give back the lock, or have not got it yet.          *)
LEMMA ResolveInv ==
    ASSUME LockInv, NEW s \in Sessions, ResolveExistingPayment(s) \/ InsertReplayed(s)
    PROVE  LockInv'
  <1>1. PICK x \in {"lock", "relock"} : Moves(s, x, req[s], NoCopy)
    BY DEF ResolveExistingPayment, InsertReplayed, Goto, Moves, LockInv, SessionTypes,
           LoadedUnderLock, Holding
  <1>2. pc[s] # "idle" /\ req[s] \in Request
    BY DEF ResolveExistingPayment, InsertReplayed, LockInv, SessionTypes
  <1>3. invoice' = invoice /\ invoice' \in [Invoices -> Invoice]
    BY DEF ResolveExistingPayment, InsertReplayed, tables, LockInv, SessionTypes
  <1> QED
    BY <1>1, <1>2, <1>3, LeaveInv DEF Steps, Holding

(* The lock is granted: the row is loaded as it is committed.              *)
LEMMA LockStepInv ==
    ASSUME LockInv, NEW s \in Sessions, LockInvoice(s) \/ LockForReplay(s)
    PROVE  LockInv'
  <1> DEFINE v == invoice[req[s].invoice]
             c == [old |-> v, new |-> v]
  <1>1. /\ pc[s] \in {"lock", "relock"} /\ req[s] \in Request
        /\ Free(req[s].invoice) /\ copy[s] = NoCopy
    BY DEF LockInvoice, LockForReplay, LockInv, SessionTypes, LoadedUnderLock, Holding
  <1>2. Load(s) = c
    BY <1>1 DEF Load
  <1>3. PICK x \in {"insert", "period"} :
           /\ Moves(s, x, req[s], c)
           /\ x = "insert" => Fits(req[s], v)
    BY <1>2 DEF LockInvoice, LockForReplay, Goto, Moves, LockInv, SessionTypes, Checked
  <1>4. invoice' = invoice
    BY DEF LockInvoice, LockForReplay, tables
  <1>5. v \in Invoice
    BY <1>1 DEF LockInv, SessionTypes, Request
  <1>6. copy'[s] = c /\ req'[s] = req[s] /\ pc'[s] = x
    BY <1>3 DEF Moves, LockInv, SessionTypes
  <1>7. Faithful(s, invoice[req[s].invoice])'
    BY <1>3, <1>4, <1>5, <1>6 DEF Faithful
  <1> QED
    BY <1>1, <1>3, <1>4, <1>7, HoldInv DEF Holding

(* The operation is applied to the copy, once.                             *)
LEMMA InsertInv ==
    ASSUME LockInv, NEW s \in Sessions, InsertRow(s)
    PROVE  LockInv'
  <1> DEFINE v == invoice[req[s].invoice]
             c == [copy[s] EXCEPT !.new = Applied(req[s], @)]
  <1>1. pc[s] = "insert" /\ req[s] \in Request /\ req[s].invoice \in Invoices
    BY DEF InsertRow, LockInv, SessionTypes, Request
  <1>2. Faithful(s, v)
    BY <1>1 DEF LockInv, LocksProtect, Holds
  <1>3. v \in Invoice
    BY <1>1 DEF LockInv, SessionTypes
  <1>4. copy[s].old = v /\ copy[s].new = v /\ Fits(req[s], v) /\ CanApply(req[s], v)
    BY <1>1, <1>2 DEF Faithful, InsertRow
  <1>5. Moves(s, "period", req[s], c)
    BY DEF InsertRow, Goto, Moves, LockInv, SessionTypes
  <1>6. copy'[s] = c /\ req'[s] = req[s] /\ pc'[s] = "period" /\ invoice' = invoice
    BY <1>5 DEF Moves, InsertRow, tables, LockInv, SessionTypes
  <1>7. c.old = v /\ c.new = Applied(req[s], v) /\ c.new \in Invoice
    BY <1>1, <1>3, <1>4, AppliedType
  <1> HIDE DEF c
  <1>8. Faithful(s, invoice[req[s].invoice])'
    BY <1>4, <1>6, <1>7 DEF Faithful
  <1> QED
    BY <1>1, <1>5, <1>6, <1>8, HoldInv DEF Holding

(* Booking allocations does not touch the copy.                            *)
LEMMA BookInv ==
    ASSUME LockInv, NEW s \in Sessions,
           ResolveSettlementPeriod(s) \/ Allocate(s) \/ AlreadyApplied(s)
    PROVE  LockInv'
  <1> DEFINE v == invoice[req[s].invoice]
  <1>1. pc[s] \in {"period", "allocate"} /\ req[s].invoice \in Invoices
    BY DEF ResolveSettlementPeriod, Allocate, AlreadyApplied, LockInv, SessionTypes, Request
  <1>2. Faithful(s, v)
    BY <1>1 DEF LockInv, LocksProtect, Holds
  <1>3. /\ \E x \in {"allocate", "reply"} : Goto(s, x)
        /\ UNCHANGED <<req, copy, invoice>>
    BY DEF ResolveSettlementPeriod, Allocate, AlreadyApplied, tables
  <1>4. PICK x \in {"allocate", "reply"} : Moves(s, x, req[s], copy[s])
    BY <1>3 DEF Goto, Moves, LockInv, SessionTypes
  <1>5. pc'[s] = x
    BY <1>4 DEF Moves, LockInv, SessionTypes
  <1>6. Faithful(s, invoice[req[s].invoice])'
    BY <1>2, <1>3, <1>5 DEF Faithful
  <1> QED
    BY <1>1, <1>3, <1>4, <1>6, HoldInv DEF Holding

(* The commit writes the invoice its session holds.                        *)
LEMMA CommitWrites ==
    ASSUME LockInv, NEW s \in Sessions, Commit(s)
    PROVE  /\ Holds(s, req[s].invoice) /\ req[s] \in Request /\ req[s].invoice \in Invoices
           /\ Faithful(s, invoice[req[s].invoice])
           /\ invoice' = [invoice EXCEPT ![req[s].invoice] = copy[s].new]
  <1>1. pc[s] = "reply" /\ req[s] \in Request /\ req[s].invoice \in Invoices
    BY DEF Commit, LockInv, SessionTypes, Request
  <1>2. Holds(s, req[s].invoice)
    BY <1>1 DEF Holds
  <1>3. Faithful(s, invoice[req[s].invoice])
    BY <1>1, <1>2 DEF LockInv, LocksProtect
  <1>4. Written(s) = copy[s].new
    BY <1>3, WrittenIsNew DEF Faithful
  <1> QED
    BY <1>1, <1>2, <1>3, <1>4 DEF Commit

(* The commit gives the lock back.                                         *)
LEMMA CommitInv ==
    ASSUME LockInv, NEW s \in Sessions, Commit(s)
    PROVE  LockInv'
  <1>1. Moves(s, "idle", NoRequest, NoCopy)
    BY DEF Commit, End, Goto, Moves, LockInv, SessionTypes
  <1>2. invoice' \in [Invoices -> Invoice]
    BY CommitWrites DEF Faithful, LockInv, SessionTypes
  <1>3. \A i \in Invoices : invoice'[i] # invoice[i] =>
           \A t \in Sessions \ {s} : ~Holds(t, i)
    BY CommitWrites DEF LockInv, SessionTypes, LocksProtect
  <1> QED
    BY <1>1, <1>2, <1>3, LeaveInv DEF Steps, Holding

-----------------------------------------------------------------------------
(* A writer that is no session of the service changes an invoice that is   *)
(* free, by a manual transition or the rendering of its PDF.               *)
LEMMA EnvironmentWrites ==
    ASSUME LockInv, Environment
    PROVE  /\ UNCHANGED <<pc, req, copy>>
           /\ invoice' \in [Invoices -> Invoice]
           /\ \A j \in Invoices :
                 invoice'[j] # invoice[j] =>
                    /\ Free(j)
                    /\ ByAdmin(invoice[j], invoice'[j]) \/ ByPdf(invoice[j], invoice'[j])
  <1> DEFINE Goal == /\ UNCHANGED <<pc, req, copy>>
                     /\ invoice' \in [Invoices -> Invoice]
                     /\ \A j \in Invoices :
                           invoice'[j] # invoice[j] =>
                              /\ Free(j)
                              /\ \/ ByAdmin(invoice[j], invoice'[j])
                                 \/ ByPdf(invoice[j], invoice'[j])
  <1>0. invoice \in [Invoices -> Invoice]
    BY DEF LockInv, SessionTypes
  <1>1. ASSUME NEW i \in Invoices, NEW to \in Status, NEW payment \in AdminAmounts,
               NEW credit \in AdminAmounts, AdminTransition(i, to, payment, credit)
        PROVE  Goal
    <2> DEFINE w == Transition(invoice[i], to, payment, credit, 0)
    <2>1. payment \in Int /\ credit \in Int /\ 0 \in Int
      BY AmountFacts
    <2>2. w \in Invoice
      BY <1>0, <2>1, TransitionType
    <2>3. Free(i) /\ CanTransition(invoice[i], to, payment, credit, 0)
      BY <1>1 DEF AdminTransition
    <2>4. ByAdmin(invoice[i], w)
      BY <2>3 DEF ByAdmin
    <2>5. invoice' = [invoice EXCEPT ![i] = w] /\ UNCHANGED <<pc, req, copy>>
      BY <1>1 DEF AdminTransition, Locals
    <2> HIDE DEF w
    <2> QED
      BY <1>0, <2>2, <2>3, <2>4, <2>5
  <1>2. ASSUME NEW i \in Invoices, QueuePdf(i) \/ GeneratePdf(i)
        PROVE  Goal
    <2>1. /\ Free(i) /\ UNCHANGED <<pc, req, copy>>
          /\ \E pdf \in PdfStatus : invoice' = [invoice EXCEPT ![i].pdf = pdf]
      BY <1>2 DEF QueuePdf, GeneratePdf, Locals, PdfStatus
    <2>2. PICK pdf \in PdfStatus : invoice' = [invoice EXCEPT ![i].pdf = pdf]
      BY <2>1
    <2> DEFINE w == [invoice[i] EXCEPT !.pdf = pdf]
    <2>3. w \in Invoice
      BY <1>0 DEF Invoice
    <2>4. ByPdf(invoice[i], w)
      BY DEF ByPdf
    <2>5. invoice' = [invoice EXCEPT ![i] = w]
      BY <2>2
    <2> HIDE DEF w
    <2> QED
      BY <1>0, <2>1, <2>3, <2>4, <2>5
  <1>3. ASSUME UNCHANGED <<invoice, Locals>>
        PROVE  Goal
    BY <1>0, <1>3 DEF Locals
  <1>4. CASE \E i \in Invoices, k \in SlaKeys, amount \in Amounts :
                SlaCreditNote(i, k, amount)
    BY <1>3, <1>4 DEF SlaCreditNote
  <1>5. CASE \E p \in Closing : FinalizePeriod(p) \/ LockPeriod(p)
    BY <1>3, <1>5 DEF FinalizePeriod, LockPeriod
  <1>6. CASE CloseChargePeriod
    BY <1>3, <1>6 DEF CloseChargePeriod
  <1> QED
    BY <1>1, <1>2, <1>4, <1>5, <1>6 DEF Environment

(* Every step keeps the lock invariant.                                    *)
LEMMA LockInvNext ==
    ASSUME Preloads = {FALSE}, LockInv, [Next]_vars
    PROVE  LockInv'
  <1>1. CASE UNCHANGED vars
    <2>1. UNCHANGED <<pc, req, copy, invoice>> /\ invoice' \in [Invoices -> Invoice]
      BY <1>1 DEF vars, LockInv, SessionTypes
    <2> QED
      BY <2>1, OthersInv
  <1>2. ASSUME NEW s \in Sessions, NEW r \in Request, Start(s, r)
        PROVE  LockInv'
    BY <1>2, StartInv
  <1>3. ASSUME NEW s \in Sessions, Step(s)
        PROVE  LockInv'
    <2>1. CASE Abort(s)
      BY <2>1, AbortInv
    <2>2. CASE ResolveExistingPayment(s) \/ InsertReplayed(s)
      BY <2>2, ResolveInv
    <2>3. CASE LockInvoice(s) \/ LockForReplay(s)
      BY <2>3, LockStepInv
    <2>4. CASE InsertRow(s)
      BY <2>4, InsertInv
    <2>5. CASE ResolveSettlementPeriod(s) \/ Allocate(s) \/ AlreadyApplied(s)
      BY <2>5, BookInv
    <2>6. CASE Commit(s)
      BY <2>6, CommitInv
    <2> QED
      BY <1>3, <2>1, <2>2, <2>3, <2>4, <2>5, <2>6
      DEF Step, ResolveConflict, LockRefused, InsertRefused, AllocateRefused,
          RespondAndClose
  <1>4. ASSUME NEW s \in Sessions, Fail(s)
        PROVE  LockInv'
    BY <1>4, AbortInv DEF Fail
  <1>5. CASE Environment
    BY <1>5, EnvironmentWrites, OthersInv
  <1> QED
    BY <1>1, <1>2, <1>3, <1>4, <1>5 DEF Next

(* FOR UPDATE protects what is loaded under it: as long as nobody has      *)
(* loaded the invoice before _lock_invoice, a session that holds an        *)
(* invoice holds it alone, and its copy is the committed row or that row   *)
(* with the one operation of the session applied to it.                    *)
THEOREM LockInvariant ==
    ASSUME Preloads = {FALSE}
    PROVE  Spec => []LockInv
  <1>1. Init => LockInv
    BY LockInvInit
  <1>2. LockInv /\ [Next]_vars => LockInv'
    BY LockInvNext
  <1> QED
    BY <1>1, <1>2, PTL DEF Spec

-----------------------------------------------------------------------------
(* What a step makes of the committed rows.                                *)
LEMMA StepUpdates ==
    ASSUME LockInv, [Next]_vars, NEW i \in Invoices
    PROVE  \/ invoice[i] = invoice'[i]
           \/ ByOperation(invoice[i], invoice'[i])
           \/ ByAdmin(invoice[i], invoice'[i])
           \/ ByPdf(invoice[i], invoice'[i])
  <1>1. CASE UNCHANGED vars
    BY <1>1 DEF vars
  <1>2. ASSUME NEW s \in Sessions, NEW r \in Request, Start(s, r)
        PROVE  invoice' = invoice
    BY <1>2 DEF Start, ApplyPayment, ReplayFromMoneyFlowEvent, CreateCreditNote,
                CreateRefund, Begin, tables, vars
  <1>3. ASSUME NEW s \in Sessions, Step(s), ~Commit(s)
        PROVE  invoice' = invoice
    BY <1>3 DEF Step, ResolveExistingPayment, ResolveConflict, LockInvoice, LockRefused,
                LockForReplay, InsertRow, InsertRefused, InsertReplayed,
                ResolveSettlementPeriod, Allocate, AllocateRefused, AlreadyApplied,
                RespondAndClose, Abort, tables
  <1>4. ASSUME NEW s \in Sessions, Commit(s)
        PROVE  invoice[i] = invoice'[i] \/ ByOperation(invoice[i], invoice'[i])
    <2>1. CASE i # req[s].invoice
      BY <1>4, <2>1, CommitWrites DEF LockInv, SessionTypes
    <2>2. CASE i = req[s].invoice
      <3>1. req[s] \in Request /\ Faithful(s, invoice[i]) /\ invoice'[i] = copy[s].new
        BY <1>4, <2>2, CommitWrites DEF LockInv, SessionTypes
      <3> QED
        BY <3>1 DEF Faithful, ByOperation
    <2> QED
      BY <2>1, <2>2
  <1>5. ASSUME NEW s \in Sessions, Fail(s)
        PROVE  invoice' = invoice
    BY <1>5 DEF Fail, Abort, tables
  <1>6. CASE Environment
    BY <1>6, EnvironmentWrites
  <1> QED
    BY <1>1, <1>2, <1>3, <1>4, <1>5, <1>6 DEF Next

(* apply_payment, create_credit_note and create_refund lose no update for  *)
(* any number of sessions, keys and invoices, provided that the caller has *)
(* not loaded the invoice before _lock_invoice.                            *)
THEOREM UpdatesAreNotLost ==
    ASSUME Preloads = {FALSE}
    PROVE  Spec => NoUpdateIsLost
  <1> DEFINE A == \A i \in Invoices :
                     LET v == invoice[i]
                         w == invoice'[i]
                     IN  v = w \/ ByOperation(v, w) \/ ByAdmin(v, w) \/ ByPdf(v, w)
  <1>1. LockInv /\ [Next]_vars => [A]_vars
    BY StepUpdates
  <1> QED
    BY <1>1, LockInvariant, PTL DEF Spec, NoUpdateIsLost

-----------------------------------------------------------------------------
(* What an operation or a manual transition makes of the amounts.          *)
Result(v, w, to, a, b, c) ==
    /\ w \in Invoice
    /\ w.status = to /\ w.paid = v.paid + a /\ w.credited = v.credited + b
    /\ w.refunded = v.refunded + c
    /\ w.due = Total - w.paid - w.credited + w.refunded

(* The constraints of a transition hold for its result.                    *)
LEMMA TransitionResult ==
    ASSUME NEW v \in Invoice, NEW to \in Status,
           NEW a \in Int, NEW b \in Int, NEW c \in Int,
           CanTransition(v, to, a, b, c)
    PROVE  LET w == Transition(v, to, a, b, c) IN
           /\ Result(v, w, to, a, b, c)
           /\ w.due >= 0 /\ w.paid >= 0 /\ w.credited >= 0 /\ w.refunded >= 0
           /\ to = v.status \/ to \in AllowedTransitions(v.status)
           /\ to = "CANCELLED" => w.paid = 0 /\ w.credited = 0 /\ w.refunded = 0
           /\ to = "PARTIALLY_PAID" => /\ w.paid > 0 \/ b > 0
                                       /\ a > 0 \/ c > 0 \/ b > 0
           /\ to = "PAID" => w.due = 0
           /\ to = "OVERDUE" => w.due > 0
  <1> DEFINE w == Transition(v, to, a, b, c)
             u == ApplyAmounts(v, a, b, c)
  <1>1. Result(v, w, to, a, b, c)
    <2>1. w \in Invoice
      BY TransitionType
    <2> QED
      BY <2>1, TransitionFields DEF Result
  <1>2. /\ u.paid = w.paid /\ u.credited = w.credited /\ u.refunded = w.refunded
        /\ u.due = w.due
    BY DEF Transition, ApplyAmounts, Invoice
  <1>3. /\ AmountsAllowed(u) /\ ValidateAllowed(v, to)
        /\ ValidateConstraints(u, to, a, b, c)
    BY DEF CanTransition
  <1> HIDE DEF w, u
  <1>4. /\ w.due >= 0 /\ w.paid >= 0 /\ w.credited >= 0 /\ w.refunded >= 0
        /\ to = v.status \/ to \in AllowedTransitions(v.status)
        /\ to = "CANCELLED" => w.paid = 0 /\ w.credited = 0 /\ w.refunded = 0
        /\ to = "PARTIALLY_PAID" => /\ w.paid > 0 \/ b > 0
                                    /\ a > 0 \/ c > 0 \/ b > 0
        /\ to = "PAID" => w.due = 0
        /\ to = "OVERDUE" => w.due > 0
    BY <1>2, <1>3 DEF AmountsAllowed, ValidateAllowed, ValidateConstraints
  <1> QED
    BY <1>1, <1>4 DEF w

(* The balance of an invoice survives every way its row may change.        *)
LEMMA ChangeBalanced ==
    ASSUME NEW v \in Invoice, NEW w, ValidateInvoice(v),
           ByOperation(v, w) \/ ByAdmin(v, w) \/ ByPdf(v, w)
    PROVE  ValidateInvoice(w)
  <1>1. CASE ByOperation(v, w)
    BY <1>1 DEF ByOperation, CanApply
  <1>2. CASE ByAdmin(v, w)
    <2>1. PICK to \in Status, payment \in AdminAmounts, credit \in AdminAmounts :
             /\ CanTransition(v, to, payment, credit, 0)
             /\ w = Transition(v, to, payment, credit, 0)
      BY <1>2 DEF ByAdmin
    <2>2. payment \in Int /\ credit \in Int /\ 0 \in Int
      BY AmountFacts
    <2>3. /\ Result(v, w, to, payment, credit, 0)
          /\ w.due >= 0 /\ w.paid >= 0 /\ w.credited >= 0 /\ w.refunded >= 0
      BY <2>1, <2>2, TransitionResult
    <2> QED
      BY <2>3 DEF ValidateInvoice, Result
  <1>3. CASE ByPdf(v, w)
    <2>1. /\ w.due = v.due /\ w.paid = v.paid /\ w.credited = v.credited
          /\ w.refunded = v.refunded
      BY <1>3 DEF ByPdf, Invoice
    <2> QED
      BY <2>1 DEF ValidateInvoice
  <1> QED
    BY <1>1, <1>2, <1>3

(* The matrix of financial_invariants.md holds for the committed rows in   *)
(* every state, for any number of sessions, keys and amounts, provided     *)
(* that nobody has loaded the invoice before _lock_invoice.                *)
THEOREM InvoicesStayBalanced ==
    ASSUME Preloads = {FALSE}
    PROVE  Spec => []InvoiceBalanced
  <1>1. Init => InvoiceBalanced
    <2>1. Total \in Nat
      BY AmountFacts
    <2> QED
      BY <2>1 DEF Init, InvoiceBalanced, NewInvoice, ValidateInvoice
  <1>2. LockInv /\ InvoiceBalanced /\ [Next]_vars => InvoiceBalanced'
    <2> SUFFICES ASSUME LockInv, InvoiceBalanced, [Next]_vars, NEW i \in Invoices
                 PROVE  ValidateInvoice(invoice'[i])
      BY DEF InvoiceBalanced, ValidateInvoice
    <2>1. invoice[i] \in Invoice /\ ValidateInvoice(invoice[i])
      BY DEF LockInv, SessionTypes, InvoiceBalanced
    <2> QED
      BY <2>1, StepUpdates, ChangeBalanced
  <1> QED
    BY <1>1, <1>2, LockInvariant, PTL DEF Spec

-----------------------------------------------------------------------------
(* StatusMatchesMoney for one invoice.                                     *)
StatusFits(v) ==
    /\ v.status = "PAID" => v.due = 0
    /\ v.status = "OVERDUE" => v.due > 0
    /\ v.status \in {"DRAFT", "ISSUED", "CANCELLED"} =>
          v.paid = 0 /\ v.credited = 0 /\ v.refunded = 0
    /\ v.status = "PARTIALLY_PAID" => v.paid > 0 \/ v.credited > 0
    /\ v.refunded <= v.paid

(* A payment: PAID only if it covers all that is due.                      *)
LEMMA PayFits ==
    ASSUME NEW v \in Invoice, NEW a \in Amounts, ValidateInvoice(v), StatusFits(v),
           CanPay(v, a)
    PROVE  StatusFits(Pay(v, a))
  <1> DEFINE to == PaymentTarget(v, a)
             w  == Pay(v, a)
  <1>1. a \in Int /\ a > 0 /\ 0 \in Int
    BY AmountFacts
  <1>2. to \in {"PAID", "PARTIALLY_PAID"} /\ to \in Status
    BY DEF PaymentTarget, Status
  <1>3. /\ Result(v, w, to, a, 0, 0)
        /\ to = "PAID" => w.due = 0
    BY <1>1, <1>2, TransitionResult DEF Pay, CanPay
  <1> HIDE DEF to, w
  <1>4. v.paid \in Int /\ v.refunded \in Int /\ v.paid >= 0 /\ v.refunded <= v.paid
    BY DEF Invoice, ValidateInvoice, StatusFits
  <1>5. w.paid > 0 /\ w.refunded <= w.paid
    BY <1>1, <1>3, <1>4 DEF Result
  <1>6. w.status = to
    BY <1>3 DEF Result
  <1>7. StatusFits(w)
    BY <1>2, <1>3, <1>5, <1>6 DEF StatusFits
  <1> QED
    BY <1>7 DEF w

(* A credit note, in one transition or from SENT in two.                   *)
LEMMA CreditFits ==
    ASSUME NEW v \in Invoice, NEW a \in Amounts, ValidateInvoice(v), StatusFits(v),
           CanCredit(v, a), ValidateInvoice(Credit(v, a))
    PROVE  StatusFits(Credit(v, a))
  <1> DEFINE to == CreditTarget(v, a)
             w  == Credit(v, a)
  <1>1. a \in Int /\ a > 0 /\ 0 \in Int /\ Total \in Int
    BY AmountFacts
  <1>2. to \in {"PAID", "PARTIALLY_PAID"} /\ to \in Status
    BY DEF CreditTarget, Status
  <1>3. /\ w.status = to /\ w.paid = v.paid /\ w.credited = v.credited + a
        /\ w.refunded = v.refunded
        /\ w.due = Total - v.paid - (v.credited + a) + v.refunded
    <2>1. /\ w.status = to /\ w.paid = v.paid + 0 /\ w.credited = v.credited + a
          /\ w.refunded = v.refunded + 0
          /\ w.due = Total - (v.paid + 0) - (v.credited + a) + (v.refunded + 0)
      <3>1. w = [status |-> to, pdf |-> v.pdf, paid |-> v.paid + 0,
                 credited |-> v.credited + a, refunded |-> v.refunded + 0,
                 due |-> Total - (v.paid + 0) - (v.credited + a) + (v.refunded + 0)]
        BY <1>1, <1>2, TransitionFields, Zenon DEF Credit
      <3> HIDE DEF w, to
      <3> QED
        BY <3>1
    <2>2. v.paid \in Int /\ v.credited \in Int /\ v.refunded \in Int
      BY DEF Invoice
    <2> HIDE DEF w, to
    <2> QED
      BY <1>1, <2>1, <2>2
  <1>4. /\ v.paid \in Int /\ v.refunded \in Int /\ v.credited \in Int
        /\ v.credited >= 0 /\ v.refunded <= v.paid
    BY DEF Invoice, ValidateInvoice, StatusFits
  <1>5. to = "PAID" => Total - v.paid - (v.credited + a) + v.refunded <= 0
    BY DEF CreditTarget
  <1>6. w.due >= 0
    BY DEF ValidateInvoice
  <1> HIDE DEF to, w
  <1>7. w.credited > 0 /\ w.refunded <= w.paid /\ (to = "PAID" => w.due = 0)
    BY <1>1, <1>3, <1>4, <1>5, <1>6
  <1>8. StatusFits(w)
    BY <1>2, <1>3, <1>7 DEF StatusFits
  <1> QED
    BY <1>8 DEF w

(* A refund: never more than what was paid, and back to SENT at the most.  *)
LEMMA RefundFits ==
    ASSUME NEW v \in Invoice, NEW a \in Amounts, ValidateInvoice(v), StatusFits(v),
           CanRefund(v, a), ValidateRefund(v, a)
    PROVE  StatusFits(Refund(v, a))
  <1> DEFINE to == RefundTarget(v, a)
             w  == Refund(v, a)
  <1>1. a \in Int /\ a > 0 /\ 0 \in Int
    BY AmountFacts
  <1>2. to \in {"SENT", "PARTIALLY_PAID"} /\ to \in Status
    BY DEF RefundTarget, Status
  <1>3. /\ Result(v, w, to, 0, 0, a)
        /\ to = "PARTIALLY_PAID" => w.paid > 0 \/ 0 > 0
    BY <1>1, <1>2, TransitionResult DEF Refund, CanRefund
  <1> HIDE DEF to, w
  <1>4. v.paid \in Int /\ v.refunded \in Int /\ a <= v.paid - v.refunded
    BY DEF Invoice, ValidateRefund
  <1>5. w.refunded <= w.paid /\ w.status = to
    BY <1>1, <1>3, <1>4 DEF Result
  <1>6. StatusFits(w)
    BY <1>2, <1>3, <1>5 DEF StatusFits
  <1> QED
    BY <1>6 DEF w

(* A manual transition without amounts.                                    *)
LEMMA AdminFits ==
    ASSUME NEW v \in Invoice, NEW to \in Status, ValidateInvoice(v), StatusFits(v),
           CanTransition(v, to, 0, 0, 0)
    PROVE  StatusFits(Transition(v, to, 0, 0, 0))
  <1> DEFINE w == Transition(v, to, 0, 0, 0)
  <1>1. /\ Result(v, w, to, 0, 0, 0)
        /\ to = v.status \/ to \in AllowedTransitions(v.status)
        /\ to = "CANCELLED" => w.paid = 0 /\ w.credited = 0 /\ w.refunded = 0
        /\ to = "PARTIALLY_PAID" => 0 > 0
        /\ to = "PAID" => w.due = 0
        /\ to = "OVERDUE" => w.due > 0
    BY TransitionResult
  <1> HIDE DEF w
  <1>2. to # "PARTIALLY_PAID"
    BY <1>1
  <1>3. /\ w.status = to /\ w.paid = v.paid /\ w.credited = v.credited
        /\ w.refunded = v.refunded
    BY <1>1 DEF Result, Invoice
  <1>4. to \in {"DRAFT", "ISSUED"} => v.status \in {"DRAFT", "ISSUED"}
    BY <1>1 DEF AllowedTransitions, Invoice, Status
  <1>5. StatusFits(w)
    BY <1>1, <1>2, <1>3, <1>4 DEF StatusFits
  <1> QED
    BY <1>5 DEF w

(* The status fits the amounts after every way the row may change.         *)
LEMMA ChangeFits ==
    ASSUME AdminAmounts = {0}, NEW v \in Invoice, NEW w, ValidateInvoice(v), StatusFits(v),
           ByOperation(v, w) \/ ByAdmin(v, w) \/ ByPdf(v, w)
    PROVE  StatusFits(w)
  <1>1. CASE ByOperation(v, w)
    <2>1. PICK r \in Request : Fits(r, v) /\ CanApply(r, v) /\ w = Applied(r, v)
      BY <1>1 DEF ByOperation
    <2>2. r.amount \in Amounts /\ r.kind \in Kinds
      BY DEF Request
    <2>3. CASE r.kind = "PAYMENT"
      BY <2>1, <2>2, <2>3, PayFits DEF CanApply, Applied
    <2>4. CASE r.kind = "CREDIT_NOTE"
      <3>1. CanCredit(v, r.amount) /\ w = Credit(v, r.amount) /\ ValidateInvoice(w)
        BY <2>1, <2>4 DEF CanApply, Applied
      <3> QED
        BY <2>2, <3>1, CreditFits
    <2>5. CASE r.kind = "REFUND"
      <3>1. /\ CanRefund(v, r.amount) /\ w = Refund(v, r.amount)
            /\ ValidateRefund(v, r.amount)
        BY <2>1, <2>5 DEF CanApply, Applied, Fits
      <3> QED
        BY <2>2, <3>1, RefundFits
    <2> QED
      BY <2>2, <2>3, <2>4, <2>5 DEF Kinds
  <1>2. CASE ByAdmin(v, w)
    BY <1>2, AdminFits DEF ByAdmin
  <1>3. CASE ByPdf(v, w)
    <2>1. /\ w.due = v.due /\ w.paid = v.paid /\ w.credited = v.credited
          /\ w.refunded = v.refunded /\ w.status = v.status
      BY <1>3 DEF ByPdf, Invoice
    <2> QED
      BY <2>1 DEF StatusFits
  <1> QED
    BY <1>1, <1>2, <1>3

(* Whatever sequence of payments, credit notes, refunds and manual         *)
(* transitions an invoice has seen, its status agrees with its amounts:    *)
(* for any number of sessions, provided that nobody has loaded the invoice *)
(* before _lock_invoice and manual transitions carry no amounts.           *)
THEOREM StatusAlwaysMatchesMoney ==
    ASSUME Preloads = {FALSE}, AdminAmounts = {0}
    PROVE  Spec => []StatusMatchesMoney
  <1>1. Init => StatusMatchesMoney
    BY DEF Init, StatusMatchesMoney, NewInvoice
  <1>2. /\ LockInv /\ InvoiceBalanced /\ StatusMatchesMoney /\ [Next]_vars
        => StatusMatchesMoney'
    <2> SUFFICES ASSUME LockInv, InvoiceBalanced, StatusMatchesMoney, [Next]_vars,
                        NEW i \in Invoices
                 PROVE  StatusFits(invoice'[i])
      BY DEF StatusMatchesMoney, StatusFits
    <2>1. /\ invoice[i] \in Invoice /\ ValidateInvoice(invoice[i])
          /\ StatusFits(invoice[i])
      BY DEF LockInv, SessionTypes, InvoiceBalanced, StatusMatchesMoney, StatusFits
    <2> QED
      BY <2>1, StepUpdates, ChangeFits
  <1> QED
    BY <1>1, <1>2, LockInvariant, InvoicesStayBalanced, PTL DEF Spec

-----------------------------------------------------------------------------
(* The sums of the model.                                                  *)

SignedOf(S) == [a \in S |-> Signed(a)]
AmountsOf(S) == [row \in S |-> row.amount]

(* g is the recursive function MapThenSumSet chooses for these sums.       *)
IsNet(g, S) ==
    g = [s \in SUBSET S |-> IF s = {} THEN 0 ELSE Signed(Pick(s)) + g[s \ {Pick(s)}]]

IsAmount(g, S) ==
    g = [s \in SUBSET S |-> IF s = {} THEN 0 ELSE Pick(s).amount + g[s \ {Pick(s)}]]

(* AllocNet and AmountOf, folds of a community module, are the sums of     *)
(* module Sums, which the lemmas of SumsProofs are about.                  *)
LEMMA AllocNetIsSum ==
    ASSUME NEW S, IsFiniteSet(S)
    PROVE  AllocNet(S) = SumOf(SignedOf(S), S)
  <1>1. AllocNet(S) = (CHOOSE g : IsNet(g, S))[S]
    BY DEF AllocNet, MapThenSumSet, MapThenFoldSet, IsNet, Pick
  <1>2. \A s \in SUBSET S : s # {} => SignedOf(S)[Pick(s)] = Signed(Pick(s))
    BY PickIsMember DEF SignedOf
  <1>3. ASSUME NEW g
        PROVE  IsNet(g, S) <=> IsSum(g, SignedOf(S), S)
    <2>1. [s \in SUBSET S |-> IF s = {} THEN 0 ELSE Signed(Pick(s)) + g[s \ {Pick(s)}]]
          = [s \in SUBSET S |-> IF s = {} THEN 0 ELSE SignedOf(S)[Pick(s)] + g[s \ {Pick(s)}]]
      BY <1>2
    <2> QED
      BY <2>1 DEF IsNet, IsSum
  <1>4. IsSum(PartialSums(SignedOf(S), S), SignedOf(S), S)
    BY SumOfComputes
  <1>5. IsNet(CHOOSE g : IsNet(g, S), S)
    <2>1. \E g : IsNet(g, S)
      BY <1>3, <1>4
    <2> QED
      BY <2>1
  <1>6. (CHOOSE g : IsNet(g, S))[S] = PartialSums(SignedOf(S), S)[S]
    BY <1>3, <1>4, <1>5, SumIsUnique
  <1> QED
    BY <1>1, <1>6 DEF PartialSums

(* The same for the amounts of rows.                                       *)
LEMMA AmountOfIsSum ==
    ASSUME NEW S, IsFiniteSet(S)
    PROVE  AmountOf(S) = SumOf(AmountsOf(S), S)
  <1>1. AmountOf(S) = (CHOOSE g : IsAmount(g, S))[S]
    BY DEF AmountOf, MapThenSumSet, MapThenFoldSet, IsAmount, Pick
  <1>2. \A s \in SUBSET S : s # {} => AmountsOf(S)[Pick(s)] = Pick(s).amount
    BY PickIsMember DEF AmountsOf
  <1>3. ASSUME NEW g
        PROVE  IsAmount(g, S) <=> IsSum(g, AmountsOf(S), S)
    <2>1. [s \in SUBSET S |-> IF s = {} THEN 0 ELSE Pick(s).amount + g[s \ {Pick(s)}]]
          = [s \in SUBSET S |-> IF s = {} THEN 0 ELSE AmountsOf(S)[Pick(s)] + g[s \ {Pick(s)}]]
      BY <1>2
    <2> QED
      BY <2>1 DEF IsAmount, IsSum
  <1>4. IsSum(PartialSums(AmountsOf(S), S), AmountsOf(S), S)
    BY SumOfComputes
  <1>5. IsAmount(CHOOSE g : IsAmount(g, S), S)
    <2>1. \E g : IsAmount(g, S)
      BY <1>3, <1>4
    <2> QED
      BY <2>1
  <1>6. (CHOOSE g : IsAmount(g, S))[S] = PartialSums(AmountsOf(S), S)[S]
    BY <1>3, <1>4, <1>5, SumIsUnique
  <1> QED
    BY <1>1, <1>6 DEF PartialSums

(* What one more row adds.                                                 *)
LEMMA AllocNetAdd ==
    ASSUME NEW S, IsFiniteSet(S), NEW a, a \notin S, \A x \in S \cup {a} : x.amount \in Int
    PROVE  /\ AllocNet(S) \in Int
           /\ AllocNet(S \cup {a}) = AllocNet(S) + Signed(a)
  <1> DEFINE T == S \cup {a}
  <1>1. IsFiniteSet(T)
    BY FS_AddElement
  <1>2. \A x \in T : Signed(x) \in Int
    BY DEF Signed
  <1>3. \A x \in T : SignedOf(T)[x] = Signed(x) /\ SignedOf(T)[x] \in Int
    BY <1>2 DEF SignedOf
  <1>4. \A x \in S : SignedOf(S)[x] = SignedOf(T)[x]
    BY DEF SignedOf
  <1>5. SumOf(SignedOf(S), S) = SumOf(SignedOf(T), S)
    BY <1>4, SumSame
  <1>6. SumOf(SignedOf(T), S \cup {a}) = SignedOf(T)[a] + SumOf(SignedOf(T), S)
    BY <1>3, SumAdd
  <1>7. SumOf(SignedOf(T), S) \in Int
    BY <1>3, SumType
  <1>8. AllocNet(T) = SumOf(SignedOf(T), T) /\ AllocNet(S) = SumOf(SignedOf(S), S)
    BY <1>1, AllocNetIsSum
  <1>9. SignedOf(T)[a] = Signed(a) /\ Signed(a) \in Int
    BY <1>2, <1>3
  <1> QED
    BY <1>5, <1>6, <1>7, <1>8, <1>9

(* The same for the amounts of rows.                                       *)
LEMMA AmountOfAdd ==
    ASSUME NEW S, IsFiniteSet(S), NEW a, a \notin S, \A x \in S \cup {a} : x.amount \in Int
    PROVE  /\ AmountOf(S) \in Int
           /\ AmountOf(S \cup {a}) = AmountOf(S) + a.amount
  <1> DEFINE T == S \cup {a}
  <1>1. IsFiniteSet(T)
    BY FS_AddElement
  <1>2. \A x \in T : AmountsOf(T)[x] = x.amount /\ AmountsOf(T)[x] \in Int
    BY DEF AmountsOf
  <1>3. \A x \in S : AmountsOf(S)[x] = AmountsOf(T)[x]
    BY DEF AmountsOf
  <1>4. SumOf(AmountsOf(S), S) = SumOf(AmountsOf(T), S)
    BY <1>3, SumSame
  <1>5. SumOf(AmountsOf(T), S \cup {a}) = AmountsOf(T)[a] + SumOf(AmountsOf(T), S)
    BY <1>2, SumAdd
  <1>6. SumOf(AmountsOf(T), S) \in Int
    BY <1>2, SumType
  <1>7. AmountOf(T) = SumOf(AmountsOf(T), T) /\ AmountOf(S) = SumOf(AmountsOf(S), S)
    BY <1>1, AmountOfIsSum
  <1>8. AmountsOf(T)[a] = a.amount /\ a.amount \in Int
    BY <1>2
  <1> QED
    BY <1>4, <1>5, <1>6, <1>7, <1>8

(* Nothing adds up to zero.                                                *)
LEMMA SumsOfNothing == AllocNet({}) = 0 /\ AmountOf({}) = 0
  BY AllocNetIsSum, AmountOfIsSum, SumEmpty, FS_EmptySet

-----------------------------------------------------------------------------
(* Rows and sessions have their types, and there are finitely many rows.   *)

PaymentRow == [key : Keys, invoice : Invoices, amount : Amounts]
NoteRow    == [key : Keys \cup SlaKeys, invoice : Invoices, amount : Amounts,
               external : BOOLEAN]
Numbers    == {"adjustment"} \X Nat
AllocRow   == [invoice : Invoices, type : Kinds, src : Keys \cup SlaKeys \cup Numbers,
               amount : Int, period : Slots \cup {"NONE"}]
Rows       == [payments : SUBSET PaymentRow, notes : SUBSET NoteRow,
               allocs : SUBSET AllocRow, events : SUBSET Keys,
               ledger : SUBSET (Kinds \X Keys), periods : SUBSET Slots]
SlotRow    == {NoSlot} \cup [name : Slots, new : BOOLEAN]

(* Sessions have their types, what they have flushed is finite, and who    *)
(* holds an invoice has loaded it.                                         *)
LocalTypes ==
    /\ pc \in [Sessions -> Steps]
    /\ req \in [Sessions -> Request \cup {NoRequest}]
    /\ copy \in [Sessions -> Copy \cup {NoCopy}]
    /\ mine \in [Sessions -> Rows]
    /\ slot \in [Sessions -> SlotRow]
    /\ \A s \in Sessions : /\ IsFiniteSet(mine[s].payments) /\ IsFiniteSet(mine[s].notes)
                           /\ IsFiniteSet(mine[s].allocs)
                           /\ pc[s] \in Holding => copy[s] \in Copy

(* Tables hold finitely many rows of their types.                          *)
TableTypes ==
    /\ payments \subseteq PaymentRow /\ IsFiniteSet(payments)
    /\ notes \subseteq NoteRow /\ IsFiniteSet(notes)
    /\ allocs \subseteq AllocRow /\ IsFiniteSet(allocs)
    /\ events \subseteq Keys
    /\ period \in [Slots -> PeriodStatus \cup {"ABSENT"}]
    /\ charge \in PeriodStatus

(* Some allocation of S, of one of the types, has the source k.            *)
Covered(S, types, k) == \E a \in S : a.type \in types /\ a.src = k

NoteTypes == {"CREDIT_NOTE", "REFUND"}

(* What a session that is about to answer has allocated.                   *)
ReplyOK(s) ==
    /\ mine[s].allocs # {} => AllocNet(Seen(s)) = NetCoverage(copy[s].new)
    /\ \A p \in mine[s].payments : Covered(Seen(s), {"PAYMENT"}, p.key)
    /\ \A n \in mine[s].notes : Covered(Seen(s), NoteTypes, n.key)

(* What a session has flushed belongs to its request: its row from the     *)
(* insert on, allocations only when they are booked.                       *)
SessionOK(s) ==
    /\ pc[s] \notin {"period", "allocate", "reply"} => mine[s] = NoRows
    /\ pc[s] # "reply" => mine[s].allocs = {}
    /\ \A a \in mine[s].allocs : a.invoice = req[s].invoice
    /\ \A p \in mine[s].payments :
          req[s].kind = "PAYMENT" /\ p.key = req[s].key /\ p.invoice = req[s].invoice
    /\ \A n \in mine[s].notes :
          req[s].kind # "PAYMENT" /\ n.key = req[s].key /\ n.invoice = req[s].invoice
    /\ pc[s] = "reply" => ReplyOK(s)

(* Every committed row has its allocation, but the credit notes of SLA     *)
(* penalties.                                                              *)
TablesOK ==
    /\ \A p \in payments : Covered(AllocsOf(p.invoice, allocs), {"PAYMENT"}, p.key)
    /\ \A n \in notes : n.key \notin SlaKeys =>
                           Covered(AllocsOf(n.invoice, allocs), NoteTypes, n.key)

(* The inductive invariant of CoverageIsRestored, on top of LockInv: an    *)
(* allocation is committed only by the transaction that has checked the    *)
(* sum, and no row is committed without one.                               *)
CoverInv ==
    /\ LocalTypes /\ TableTypes /\ TablesOK
    /\ \A s \in Sessions : SessionOK(s)

-----------------------------------------------------------------------------
(* The row an operation inserts.                                           *)
PaymentOf(r) == [key |-> r.key, invoice |-> r.invoice, amount |-> r.amount]
NoteOf(r)    == [key |-> r.key, invoice |-> r.invoice, amount |-> r.amount,
                 external |-> r.kind = "REFUND"]

(* The session has a new row.                                              *)
Fresh(s) ==
    LET r == req[s] IN
    /\ copy[s].new = Applied(r, copy[s].old)
    /\ ~KeyTaken(r)
    /\ IF r.kind = "PAYMENT"
       THEN /\ mine[s].payments = {PaymentOf(r)} /\ mine[s].notes = {}
            /\ mine[s].events = {r.key} /\ <<"PAYMENT", r.key>> \in mine[s].ledger
       ELSE mine[s].payments = {} /\ mine[s].notes = {NoteOf(r)} /\ mine[s].events = {}
    /\ pc[s] = "reply" =>
          /\ <<r.kind, r.key>> \in mine[s].ledger
          /\ \E a \in mine[s].allocs :
                /\ mine[s].allocs = {a}
                /\ a.type = r.kind /\ a.src = r.key /\ a.amount = r.amount

(* It answers with a row that is committed.                                *)
Replay(s) ==
    /\ copy[s].new = copy[s].old
    /\ mine[s].payments = {} /\ mine[s].notes = {} /\ mine[s].events = {}
    /\ mine[s].allocs = {}

(* Two sessions have not flushed the same key.                             *)
Pending(s, t) ==
    /\ \A p \in mine[s].payments, q \in mine[t].payments : p.key # q.key
    /\ \A p \in mine[s].notes, q \in mine[t].notes : p.key # q.key

IsPayment(a) == a.type = "PAYMENT"

(* Allocations and rows, one to one.                                       *)
AllocsMatchRows ==
    /\ \A a \in allocs :
          /\ a.src \in Keys
          /\ \E row \in IF IsPayment(a) THEN payments ELSE notes :
                row.key = a.src /\ row.invoice = a.invoice /\ row.amount = a.amount
    /\ \A a, b \in allocs : a.src = b.src /\ (IsPayment(a) <=> IsPayment(b)) => a = b

(* Payments have distinct keys, an event and a posting, notes a posting.   *)
RowsAreBooked ==
    /\ \A p, q \in payments : p.key = q.key => p = q
    /\ \A p \in payments : p.key \in events /\ <<"PAYMENT", p.key>> \in ledger
    /\ \A n \in notes :
          <<IF n.external THEN "REFUND" ELSE "CREDIT_NOTE", n.key>> \in ledger

(* The inductive invariant of AllocationsAlwaysMatch and BooksAlwaysAgree, *)
(* on top of LockInv and CoverInv.  Either a session brings a row that     *)
(* nobody else has, the amounts it adds and, when it is about to answer,   *)
(* the one allocation for it; or it brings nothing.                        *)
BooksInv ==
    /\ \A s \in Sessions : pc[s] \in {"period", "allocate", "reply"} => Fresh(s) \/ Replay(s)
    /\ \A s, t \in Sessions : s # t => Pending(s, t)
    /\ AllocsMatchRows /\ RowsAreBooked
    /\ AmountsAreSums /\ AllocationsMatchCoverage
-----------------------------------------------------------------------------
(* An adjustment has the number of allocations before it.                  *)
Numbered(S) == \A a \in S : a.src \notin Keys \cup SlaKeys => a.src[2] < Cardinality(S)

(* The inductive invariant of ReconciliationIsNeverRefused, for what is    *)
(* committed and for what a session is about to commit.                    *)
NumberInv ==
    /\ \A i \in Invoices : Numbered(AllocsOf(i, allocs))
    /\ \A s \in Sessions : pc[s] = "reply" => Numbered(Seen(s))

(* No more is refunded than was paid.                                      *)
RefundsAreCovered == \A i \in Invoices : invoice[i].refunded <= invoice[i].paid

-----------------------------------------------------------------------------
(* The steps of one session.                                               *)
Local(s, x, q, c, m, k) ==
    /\ pc'   = [pc EXCEPT ![s] = x]
    /\ req'  = [req EXCEPT ![s] = q]
    /\ copy' = [copy EXCEPT ![s] = c]
    /\ mine' = [mine EXCEPT ![s] = m]
    /\ slot' = [slot EXCEPT ![s] = k]

(* A step of session s changes its own state, to values of the right       *)
(* types.                                                                  *)
LEMMA LocalFacts ==
    ASSUME LocalTypes, NEW s \in Sessions, NEW x \in Steps, NEW q \in Request \cup {NoRequest},
           NEW c \in Copy \cup {NoCopy}, NEW m \in Rows, NEW k \in SlotRow,
           IsFiniteSet(m.payments), IsFiniteSet(m.notes), IsFiniteSet(m.allocs),
           x \in Holding => c \in Copy,
           Local(s, x, q, c, m, k)
    PROVE  /\ LocalTypes'
           /\ pc'[s] = x /\ req'[s] = q /\ copy'[s] = c /\ mine'[s] = m /\ slot'[s] = k
           /\ \A t \in Sessions \ {s} :
                 /\ pc'[t] = pc[t] /\ req'[t] = req[t] /\ copy'[t] = copy[t]
                 /\ mine'[t] = mine[t] /\ slot'[t] = slot[t]
  <1>1. /\ pc'[s] = x /\ req'[s] = q /\ copy'[s] = c /\ mine'[s] = m /\ slot'[s] = k
        /\ \A t \in Sessions \ {s} :
              /\ pc'[t] = pc[t] /\ req'[t] = req[t] /\ copy'[t] = copy[t]
              /\ mine'[t] = mine[t] /\ slot'[t] = slot[t]
    BY DEF Local, LocalTypes
  <1>2. /\ pc' \in [Sessions -> Steps]
        /\ req' \in [Sessions -> Request \cup {NoRequest}]
        /\ copy' \in [Sessions -> Copy \cup {NoCopy}]
        /\ mine' \in [Sessions -> Rows]
        /\ slot' \in [Sessions -> SlotRow]
    BY DEF Local, LocalTypes
  <1>3. \A t \in Sessions :
           /\ IsFiniteSet(mine'[t].payments) /\ IsFiniteSet(mine'[t].notes)
           /\ IsFiniteSet(mine'[t].allocs)
           /\ pc'[t] \in Holding => copy'[t] \in Copy
    BY <1>1 DEF LocalTypes
  <1> QED
    BY <1>1, <1>2, <1>3 DEF LocalTypes

(* A step of a session that does not touch the tables.                     *)
LEMMA SessionStep ==
    ASSUME CoverInv, NEW s \in Sessions, NEW x \in Steps, NEW q \in Request \cup {NoRequest},
           NEW c \in Copy \cup {NoCopy}, NEW m \in Rows, NEW k \in SlotRow,
           IsFiniteSet(m.payments), IsFiniteSet(m.notes), IsFiniteSet(m.allocs),
           x \in Holding => c \in Copy,
           Local(s, x, q, c, m, k), UNCHANGED tables,
           SessionOK(s)'
    PROVE  CoverInv'
  <1>1. /\ LocalTypes'
        /\ \A t \in Sessions \ {s} :
              /\ pc'[t] = pc[t] /\ req'[t] = req[t] /\ copy'[t] = copy[t]
              /\ mine'[t] = mine[t] /\ slot'[t] = slot[t]
    BY LocalFacts DEF CoverInv
  <1>2. TableTypes' /\ TablesOK'
    BY DEF CoverInv, tables, TableTypes, TablesOK
  <1>3. ASSUME NEW t \in Sessions \ {s}
        PROVE  SessionOK(t)'
    <2>1. SessionOK(t)
      BY DEF CoverInv
    <2>2. allocs' = allocs
      BY DEF tables
    <2>3. Seen(t)' = Seen(t)
      BY <1>1, <2>2 DEF Seen, AllocsOf
    <2>4. pc'[t] = "reply" => ReplyOK(t)'
      <3>1. pc'[t] = "reply" => ReplyOK(t)
        BY <1>1, <2>1 DEF SessionOK
      <3> QED
        BY <1>1, <2>3, <3>1 DEF ReplyOK, Covered
    <2> QED
      BY <1>1, <2>1, <2>4 DEF SessionOK
  <1> QED
    BY <1>1, <1>2, <1>3 DEF CoverInv

(* A session that has flushed nothing has its type.                        *)
LEMMA NoRowsType ==
    /\ NoRows \in Rows /\ NoSlot \in SlotRow
    /\ IsFiniteSet(NoRows.payments) /\ IsFiniteSet(NoRows.notes) /\ IsFiniteSet(NoRows.allocs)
  BY FS_EmptySet DEF NoRows, Rows, NoSlot, SlotRow

(* The rows of the session are left alone, and it is not yet ready.        *)
LEMMA QuietStep ==
    ASSUME CoverInv, NEW s \in Sessions, NEW x \in Steps, x # "reply",
           NEW c \in Copy \cup {NoCopy}, NEW k \in SlotRow, NEW q \in Request \cup {NoRequest},
           q = req[s] \/ mine[s] = NoRows,
           pc[s] # "reply",
           x \in {"period", "allocate"} \/ pc[s] \notin {"period", "allocate"},
           x \in Holding => c \in Copy,
           Local(s, x, q, c, mine[s], k), UNCHANGED tables
    PROVE  CoverInv'
  <1>1. SessionOK(s) /\ LocalTypes
    BY DEF CoverInv
  <1>2. /\ mine[s] \in Rows /\ IsFiniteSet(mine[s].payments) /\ IsFiniteSet(mine[s].notes)
        /\ IsFiniteSet(mine[s].allocs)
    BY <1>1 DEF LocalTypes
  <1>3. pc'[s] = x /\ req'[s] = q /\ mine'[s] = mine[s]
    BY <1>1, <1>2, LocalFacts
  <1>4. SessionOK(s)'
    <2>1. /\ pc'[s] \notin {"period", "allocate", "reply"} => mine'[s] = NoRows
          /\ mine'[s].allocs = {} /\ pc'[s] # "reply"
      BY <1>1, <1>3 DEF SessionOK
    <2>2. /\ \A p \in mine'[s].payments :
               req'[s].kind = "PAYMENT" /\ p.key = req'[s].key /\ p.invoice = req'[s].invoice
          /\ \A n \in mine'[s].notes :
               req'[s].kind # "PAYMENT" /\ n.key = req'[s].key /\ n.invoice = req'[s].invoice
      <3>1. CASE mine[s] = NoRows
        BY <1>3, <3>1 DEF NoRows
      <3>2. CASE q = req[s]
        BY <1>1, <1>3, <3>2 DEF SessionOK
      <3> QED
        BY <3>1, <3>2
    <2> QED
      BY <2>1, <2>2 DEF SessionOK
  <1> QED
    BY <1>2, <1>4, SessionStep

(* The transaction is rolled back.                                         *)
LEMMA AbortCover ==
    ASSUME CoverInv, NEW s \in Sessions, Abort(s)
    PROVE  CoverInv'
  <1>1. Local(s, "idle", NoRequest, NoCopy, NoRows, NoSlot) /\ UNCHANGED tables
    BY DEF Abort, End, Goto, Local
  <1>2. "idle" \in Steps \ Holding /\ LocalTypes
    BY DEF Steps, CoverInv, Holding
  <1>3. pc'[s] = "idle" /\ mine'[s] = NoRows
    BY <1>1, <1>2, NoRowsType, LocalFacts
  <1>4. SessionOK(s)'
    BY <1>3 DEF SessionOK, NoRows
  <1> QED
    BY <1>1, <1>2, <1>4, NoRowsType, SessionStep

(* What LockInv says of the types a step needs.                            *)
LEMMA BusyTypes ==
    ASSUME LockInv, CoverInv, NEW s \in Sessions
    PROVE  /\ req[s] \in Request \cup {NoRequest} /\ copy[s] \in Copy \cup {NoCopy}
           /\ mine[s] \in Rows /\ slot[s] \in SlotRow /\ pc[s] \in Steps
           /\ pc[s] # "idle" => req[s] \in Request
           /\ pc[s] \in {"lock", "relock"} => Load(s) \in Copy
           /\ pc[s] \in Holding => copy[s] \in Copy
           /\ req = [req EXCEPT ![s] = req[s]] /\ copy = [copy EXCEPT ![s] = copy[s]]
           /\ mine = [mine EXCEPT ![s] = mine[s]] /\ slot = [slot EXCEPT ![s] = slot[s]]
  <1>1. /\ req[s] \in Request \cup {NoRequest} /\ copy[s] \in Copy \cup {NoCopy}
        /\ mine[s] \in Rows /\ slot[s] \in SlotRow /\ pc[s] \in Steps
    BY DEF CoverInv, LocalTypes
  <1>2. pc[s] # "idle" => req[s] \in Request
    BY DEF LockInv, SessionTypes
  <1>3. pc[s] # "idle" => invoice[req[s].invoice] \in Invoice
    BY <1>2 DEF LockInv, SessionTypes, Request
  <1>4. pc[s] \in {"lock", "relock"} => Load(s) \in Copy
    BY <1>1, <1>3 DEF Load, Copy, LockInv, LoadedUnderLock, Holding
  <1>5. pc[s] \in Holding => copy[s] \in Copy
    BY DEF CoverInv, LocalTypes
  <1>6. /\ req = [req EXCEPT ![s] = req[s]] /\ copy = [copy EXCEPT ![s] = copy[s]]
        /\ mine = [mine EXCEPT ![s] = mine[s]] /\ slot = [slot EXCEPT ![s] = slot[s]]
    BY DEF CoverInv, LocalTypes
  <1> QED
    BY <1>1, <1>2, <1>4, <1>5, <1>6

(* The beginning of an operation.                                          *)
LEMMA StartCover ==
    ASSUME LockInv, CoverInv, NEW s \in Sessions, NEW r \in Request, Start(s, r), pc[s] = "idle"
    PROVE  CoverInv' \/ UNCHANGED vars
  <1>1. ASSUME NEW x \in {"resolve", "lock", "relock"}, Begin(s, r, x)
        PROVE  CoverInv'
    <2>1. invoice[r.invoice] \in Invoice
      BY DEF LockInv, SessionTypes, Request
    <2>2. PICK preload \in Preloads :
             copy' = [copy EXCEPT ![s] =
                        IF preload
                        THEN [old |-> invoice[r.invoice], new |-> invoice[r.invoice]]
                        ELSE NoCopy]
      BY <1>1 DEF Begin
    <2>3. PICK c : c = IF preload
                       THEN [old |-> invoice[r.invoice], new |-> invoice[r.invoice]]
                       ELSE NoCopy
      OBVIOUS
    <2>4. c \in Copy \cup {NoCopy}
      BY <2>1, <2>3 DEF Copy
    <2>5. Local(s, x, r, c, mine[s], slot[s]) /\ UNCHANGED tables
      BY <1>1, <2>2, <2>3, BusyTypes DEF Begin, Goto, Local
    <2>6. mine[s] = NoRows /\ slot[s] \in SlotRow
      BY BusyTypes DEF CoverInv, SessionOK
    <2>7. x \in Steps \ Holding
      BY DEF Steps, Holding
    <2> QED
      BY <2>4, <2>5, <2>6, <2>7, QuietStep DEF Steps, Holding
  <1> QED
    BY <1>1 DEF Start, ApplyPayment, ReplayFromMoneyFlowEvent, CreateCreditNote, CreateRefund

(* The lookups, the lock and the choice of the period.                     *)
LEMMA LockCover ==
    ASSUME LockInv, CoverInv, NEW s \in Sessions,
           \/ ResolveExistingPayment(s) \/ InsertReplayed(s) \/ LockInvoice(s)
           \/ LockForReplay(s) \/ ResolveSettlementPeriod(s)
    PROVE  CoverInv'
  <1>0. /\ pc[s] \in {"resolve", "insert", "lock", "relock", "period"}
        /\ UNCHANGED <<tables, req, mine>>
    BY DEF ResolveExistingPayment, InsertReplayed, LockInvoice, LockForReplay,
           ResolveSettlementPeriod
  <1>1. req[s] \in Request \cup {NoRequest}
    BY BusyTypes
  <1>2. CASE ResolveExistingPayment(s)
    <2>1. PICK x \in {"lock", "relock"} : pc' = [pc EXCEPT ![s] = x]
      BY <1>2 DEF ResolveExistingPayment, Goto
    <2>2. Local(s, x, req[s], copy[s], mine[s], slot[s])
      BY <1>0, <1>2, <2>1, BusyTypes DEF Local, ResolveExistingPayment
    <2>3. x \in Steps \ Holding /\ pc[s] = "resolve"
      BY <1>2 DEF Steps, Holding, ResolveExistingPayment
    <2> QED
      BY <1>0, <1>1, <2>2, <2>3, BusyTypes, QuietStep DEF Holding
  <1>3. CASE InsertReplayed(s)
    <2>1. Local(s, "relock", req[s], NoCopy, mine[s], slot[s])
      BY <1>0, <1>3, BusyTypes DEF Local, InsertReplayed, Goto
    <2>2. "relock" \in Steps \ Holding /\ pc[s] = "insert"
      BY <1>3 DEF Steps, Holding, InsertReplayed
    <2> QED
      BY <1>0, <1>1, <2>1, <2>2, BusyTypes, QuietStep
  <1>4. CASE LockInvoice(s) \/ LockForReplay(s)
    <2>1. PICK x \in {"insert", "period"} : pc' = [pc EXCEPT ![s] = x]
      BY <1>4 DEF LockInvoice, LockForReplay, Goto
    <2>2. Local(s, x, req[s], Load(s), mine[s], slot[s])
      BY <1>0, <1>4, <2>1, BusyTypes DEF Local, LockInvoice, LockForReplay
    <2>3. x \in Steps /\ pc[s] \in {"lock", "relock"}
      BY <1>4 DEF Steps, LockInvoice, LockForReplay
    <2>4. Load(s) \in Copy
      BY <2>3, BusyTypes
    <2> QED
      BY <1>0, <1>1, <2>2, <2>3, <2>4, BusyTypes, QuietStep
  <1>5. CASE ResolveSettlementPeriod(s)
    <2>1. PICK k \in SlotRow : slot' = [slot EXCEPT ![s] = k]
      <3>1. PICK name \in Slots :
               slot' = [slot EXCEPT ![s] =
                          IF period[name] = "LOCKED" THEN NoSlot
                          ELSE [name |-> name, new |-> period[name] = "ABSENT"]]
        BY <1>5 DEF ResolveSettlementPeriod, Slots
      <3>2. [name |-> name, new |-> period[name] = "ABSENT"] \in SlotRow
        BY DEF SlotRow
      <3> QED
        BY <3>1, <3>2, NoRowsType
    <2>2. Local(s, "allocate", req[s], copy[s], mine[s], k)
      BY <1>0, <1>5, <2>1, BusyTypes DEF Local, ResolveSettlementPeriod, Goto
    <2>3. "allocate" \in Steps /\ pc[s] = "period" /\ pc[s] \in Holding
      BY <1>5 DEF Steps, Holding, ResolveSettlementPeriod
    <2>4. copy[s] \in Copy
      BY <2>3, BusyTypes
    <2> QED
      BY <1>0, <1>1, <2>2, <2>3, <2>4, QuietStep
  <1> QED
    BY <1>2, <1>3, <1>4, <1>5

(* _payment_already_applied: the payment is covered.                       *)
LEMMA AlreadyCover ==
    ASSUME LockInv, CoverInv, NEW s \in Sessions, AlreadyApplied(s)
    PROVE  CoverInv'
  <1>1. /\ pc[s] = "allocate" /\ UNCHANGED <<tables, req, copy, mine, slot>>
        /\ pc' = [pc EXCEPT ![s] = "reply"]
    BY DEF AlreadyApplied, Goto
  <1>2. /\ req[s].kind = "PAYMENT"
        /\ \E a \in Seen(s) : a.type = "PAYMENT" /\ a.src = req[s].key
    BY DEF AlreadyApplied, PaymentAlreadyApplied
  <1>3. Local(s, "reply", req[s], copy[s], mine[s], slot[s]) /\ UNCHANGED tables
    BY <1>1, BusyTypes DEF Local
  <1>4. "reply" \in Steps /\ pc[s] \in Holding /\ pc'[s] = "reply"
    BY <1>1 DEF Steps, Holding, CoverInv, LocalTypes
  <1>5. SessionOK(s)
    BY DEF CoverInv
  <1>6. Seen(s)' = Seen(s)
    BY <1>1 DEF Seen, AllocsOf, tables
  <1>7. ReplyOK(s)'
    BY <1>1, <1>2, <1>5, <1>6 DEF ReplyOK, SessionOK, Covered
  <1>8. SessionOK(s)'
    BY <1>1, <1>4, <1>5, <1>7 DEF SessionOK
  <1>9. /\ copy[s] \in Copy /\ req[s] \in Request \cup {NoRequest} /\ mine[s] \in Rows
        /\ slot[s] \in SlotRow
        /\ IsFiniteSet(mine[s].payments) /\ IsFiniteSet(mine[s].notes)
        /\ IsFiniteSet(mine[s].allocs)
    BY <1>4, BusyTypes DEF CoverInv, LocalTypes
  <1> QED
    BY <1>3, <1>4, <1>8, <1>9, SessionStep

(* The rows a session has after it has inserted the row of its request.    *)
Inserted(r) ==
    IF r.kind = "PAYMENT"
    THEN [payments |-> {PaymentOf(r)}, notes |-> {}, allocs |-> {}, events |-> {r.key},
          ledger |-> {<<"PAYMENT", r.key>>}, periods |-> {}]
    ELSE [payments |-> {}, notes |-> {NoteOf(r)}, allocs |-> {}, events |-> {},
          ledger |-> {}, periods |-> {}]

(* WithRow of nothing flushed, field by field.                             *)
LEMMA NoRowsExcept ==
    ASSUME NEW a, NEW b, NEW c
    PROVE  /\ [NoRows EXCEPT !.payments = a, !.events = b, !.ledger = c] =
                [payments |-> a, notes |-> {}, allocs |-> {}, events |-> b, ledger |-> c,
                 periods |-> {}]
           /\ [NoRows EXCEPT !.notes = a] =
                [payments |-> {}, notes |-> a, allocs |-> {}, events |-> {}, ledger |-> {},
                 periods |-> {}]
  <1> DEFINE v == [NoRows EXCEPT !.payments = a, !.events = b, !.ledger = c]
             w == [NoRows EXCEPT !.notes = a]
             D == {"payments", "notes", "allocs", "events", "ledger", "periods"}
  <1>1. DOMAIN v = D /\ DOMAIN w = D
    BY DEF NoRows
  <1>2. v = [f \in DOMAIN v |-> v[f]] /\ w = [f \in DOMAIN w |-> w[f]]
    BY DEF NoRows
  <1>3. /\ v.payments = a /\ v.notes = {} /\ v.allocs = {} /\ v.events = b /\ v.ledger = c
        /\ v.periods = {}
    BY DEF NoRows
  <1>4. /\ w.payments = {} /\ w.notes = a /\ w.allocs = {} /\ w.events = {} /\ w.ledger = {}
        /\ w.periods = {}
    BY DEF NoRows
  <1> HIDE DEF v, w
  <1>5. v = [payments |-> a, notes |-> {}, allocs |-> {}, events |-> b, ledger |-> c,
             periods |-> {}]
    BY <1>1, <1>2, <1>3
  <1>6. w = [payments |-> {}, notes |-> a, allocs |-> {}, events |-> {}, ledger |-> {},
             periods |-> {}]
    BY <1>1, <1>2, <1>4
  <1> QED
    BY <1>5, <1>6 DEF v, w

(* InsertRow of a session that has flushed nothing yet.                    *)
LEMMA InsertedFacts ==
    ASSUME LockInv, CoverInv, NEW s \in Sessions, InsertRow(s)
    PROVE  /\ Local(s, "period", req[s], [copy[s] EXCEPT !.new = Applied(req[s], @)],
                    Inserted(req[s]), slot[s])
           /\ Inserted(req[s]) \in Rows /\ req[s] \in Request /\ UNCHANGED tables
           /\ [copy[s] EXCEPT !.new = Applied(req[s], @)] \in Copy
  <1>1. PICK r \in Request : r = req[s]
    BY BusyTypes DEF InsertRow
  <1>2. mine[s] = NoRows
    BY DEF CoverInv, SessionOK, InsertRow
  <1>3. mine' = [mine EXCEPT ![s] = Inserted(r)]
    <2>1. mine' = [mine EXCEPT ![s] =
             IF r.kind = "PAYMENT"
             THEN [NoRows EXCEPT !.payments = NoRows.payments \cup {PaymentOf(r)},
                                 !.events   = NoRows.events \cup {r.key},
                                 !.ledger   = NoRows.ledger \cup {<<"PAYMENT", r.key>>}]
             ELSE [NoRows EXCEPT !.notes = NoRows.notes \cup {NoteOf(r)}]]
      <3>1. mine' = [mine EXCEPT ![s] = WithRow(r, NoRows)]
        BY <1>1, <1>2 DEF InsertRow
      <3> QED
        BY <3>1 DEF WithRow, PaymentOf, NoteOf
    <2>2. /\ NoRows.payments \cup {PaymentOf(r)} = {PaymentOf(r)}
          /\ NoRows.events \cup {r.key} = {r.key}
          /\ NoRows.ledger \cup {<<"PAYMENT", r.key>>} = {<<"PAYMENT", r.key>>}
          /\ NoRows.notes \cup {NoteOf(r)} = {NoteOf(r)}
      BY DEF NoRows
    <2>3. PICK a, b, c : a = {PaymentOf(r)} /\ b = {r.key} /\ c = {<<"PAYMENT", r.key>>}
      OBVIOUS
    <2>4. PICK d : d = {NoteOf(r)}
      OBVIOUS
    <2>5. mine' = [mine EXCEPT ![s] =
             IF r.kind = "PAYMENT"
             THEN [NoRows EXCEPT !.payments = a, !.events = b, !.ledger = c]
             ELSE [NoRows EXCEPT !.notes = d]]
      BY <2>1, <2>2, <2>3, <2>4, Zenon
    <2>6. Inserted(r) = IF r.kind = "PAYMENT"
             THEN [NoRows EXCEPT !.payments = a, !.events = b, !.ledger = c]
             ELSE [NoRows EXCEPT !.notes = d]
      BY <2>3, <2>4, NoRowsExcept, Zenon DEF Inserted
    <2> QED
      BY <2>5, <2>6, Zenon
  <1>4. Inserted(r) \in Rows
    <2>1. /\ r.key \in Keys /\ r.invoice \in Invoices /\ r.amount \in Amounts
          /\ PaymentOf(r) \in PaymentRow /\ NoteOf(r) \in NoteRow
      BY DEF Request, PaymentOf, PaymentRow, NoteOf, NoteRow
    <2> QED
      BY <2>1 DEF Inserted, Rows, Kinds
  <1>5. Local(s, "period", r, [copy[s] EXCEPT !.new = Applied(r, @)], Inserted(r), slot[s])
    BY <1>1, <1>3, BusyTypes DEF InsertRow, Local, Goto
  <1>6. [copy[s] EXCEPT !.new = Applied(r, @)] \in Copy
    <2>1. copy[s] \in Copy
      BY BusyTypes DEF InsertRow, Holding
    <2>2. Applied(r, copy[s].new) \in Invoice
      BY <2>1, AppliedType DEF Copy
    <2> QED
      BY <2>1, <2>2 DEF Copy
  <1> QED
    BY <1>1, <1>4, <1>5, <1>6 DEF InsertRow

(* The row of the operation is inserted.                                   *)
LEMMA InsertCover ==
    ASSUME LockInv, CoverInv, NEW s \in Sessions, InsertRow(s)
    PROVE  CoverInv'
  <1>1. PICK r \in Request : r = req[s]
    BY BusyTypes DEF InsertRow
  <1>2. PICK m \in Rows : m = Inserted(r)
    BY <1>1, InsertedFacts
  <1>3. PICK c \in Copy : c = [copy[s] EXCEPT !.new = Applied(r, @)]
    BY <1>1, InsertedFacts
  <1>4. Local(s, "period", r, c, m, slot[s]) /\ UNCHANGED tables
    BY <1>1, <1>2, <1>3, InsertedFacts
  <1>5. /\ m.allocs = {}
        /\ m.payments = IF r.kind = "PAYMENT" THEN {PaymentOf(r)} ELSE {}
        /\ m.notes = IF r.kind = "PAYMENT" THEN {} ELSE {NoteOf(r)}
    BY <1>2 DEF Inserted
  <1>6. IsFiniteSet(m.payments) /\ IsFiniteSet(m.notes) /\ IsFiniteSet(m.allocs)
    BY <1>5, FS_EmptySet, FS_Singleton
  <1>7. "period" \in Steps /\ slot[s] \in SlotRow /\ r \in Request \cup {NoRequest} /\ LocalTypes
    BY BusyTypes DEF Steps, CoverInv
  <1>8. pc'[s] = "period" /\ req'[s] = r /\ mine'[s] = m
    BY <1>4, <1>6, <1>7, LocalFacts
  <1>9. SessionOK(s)'
    BY <1>5, <1>8 DEF SessionOK, PaymentOf, NoteOf
  <1> QED
    BY <1>4, <1>6, <1>7, <1>9, SessionStep

-----------------------------------------------------------------------------
(* Booking.                                                                *)
LEMMA ImageFinite ==
    ASSUME NEW S, IsFiniteSet(S), NEW f, NEW T, \A y \in T : \E x \in S : y = f[x]
    PROVE  IsFiniteSet(T)
  <1> DEFINE I == {f[x] : x \in S}
             g == [x \in S |-> f[x]]
  <1>1. g \in Surjection(S, I)
    BY DEF Surjection
  <1>2. T \subseteq I
    OBVIOUS
  <1> HIDE DEF I, g
  <1>3. IsFiniteSet(I)
    BY <1>1, FS_Surjection
  <1> QED
    BY <1>2, <1>3, FS_Subset

(* Sums of allocations are integers.                                       *)
LEMMA AllocNetType ==
    ASSUME NEW S, IsFiniteSet(S), \A a \in S : a.amount \in Int
    PROVE  AllocNet(S) \in Int
  <1>1. \A a \in S : SignedOf(S)[a] \in Int
    BY DEF SignedOf, Signed
  <1>2. SumOf(SignedOf(S), S) \in Int
    BY <1>1, SumType
  <1> QED
    BY <1>2, AllocNetIsSum

(* An allocation, field by field.                                          *)
LEMMA AllocationFacts ==
    ASSUME NEW s \in Sessions, req[s] \in Request, slot[s] \in SlotRow, NEW type \in Kinds,
           NEW src \in Keys \cup SlaKeys \cup Numbers, NEW amount \in Int
    PROVE  LET a == Allocation(s, type, src, amount) IN
           /\ a \in AllocRow /\ a.invoice = req[s].invoice /\ a.type = type /\ a.src = src
           /\ a.amount = amount
  <1>1. slot[s].name \in Slots \cup {"NONE"}
    BY DEF SlotRow, NoSlot
  <1> QED
    BY <1>1 DEF Allocation, AllocRow, Request

(* The allocations of the invoice s sees.                                  *)
LEMMA SeenFacts ==
    ASSUME CoverInv, NEW s \in Sessions
    PROVE  /\ Seen(s) \subseteq AllocRow /\ IsFiniteSet(Seen(s))
           /\ \A a \in Seen(s) : a.invoice = req[s].invoice
  <1>1. allocs \cup mine[s].allocs \subseteq AllocRow
    BY DEF CoverInv, LocalTypes, TableTypes, Rows
  <1>2. IsFiniteSet(allocs \cup mine[s].allocs)
    BY FS_Union DEF CoverInv, LocalTypes, TableTypes
  <1>3. Seen(s) \subseteq allocs \cup mine[s].allocs
    BY DEF Seen, AllocsOf
  <1> QED
    BY <1>1, <1>2, <1>3, FS_Subset DEF Seen, AllocsOf

(* The rows s sees.                                                        *)
LEMMA RowFacts ==
    ASSUME CoverInv, NEW s \in Sessions
    PROVE  /\ payments \cup mine[s].payments \subseteq PaymentRow
           /\ notes \cup mine[s].notes \subseteq NoteRow
           /\ IsFiniteSet(payments \cup mine[s].payments)
           /\ IsFiniteSet(notes \cup mine[s].notes)
  <1>1. /\ payments \cup mine[s].payments \subseteq PaymentRow
        /\ notes \cup mine[s].notes \subseteq NoteRow
    BY DEF CoverInv, LocalTypes, TableTypes, Rows
  <1>2. /\ IsFiniteSet(payments \cup mine[s].payments)
        /\ IsFiniteSet(notes \cup mine[s].notes)
    BY FS_Union DEF CoverInv, LocalTypes, TableTypes
  <1> QED
    BY <1>1, <1>2

(* The allocation of the row of the operation.                             *)
LEMMA OwnFacts ==
    ASSUME LockInv, CoverInv, NEW s \in Sessions, pc[s] # "idle"
    PROVE  /\ IsFiniteSet(Own(s))
           /\ \A a \in Own(s) :
                 /\ a \in AllocRow /\ a.invoice = req[s].invoice
                 /\ a.type = req[s].kind /\ a.src = req[s].key
  <1>1. req[s] \in Request /\ slot[s] \in SlotRow /\ req[s].kind \in Kinds
        /\ req[s].key \in Keys
    BY BusyTypes DEF Request
  <1>2. PICK R : /\ IsFiniteSet(R) /\ RowAmounts(s) = {row.amount : row \in R}
                 /\ \A row \in R : row.amount \in Amounts
    <2> DEFINE P == {p \in payments \cup mine[s].payments : p.key = req[s].key}
               N == {n \in notes \cup mine[s].notes : n.key = req[s].key}
    <2>1. /\ IsFiniteSet(P) /\ IsFiniteSet(N)
          /\ \A row \in P : row.amount \in Amounts
          /\ \A row \in N : row.amount \in Amounts
      BY RowFacts, FS_Subset DEF PaymentRow, NoteRow
    <2>2. RowAmounts(s) = {row.amount : row \in IF req[s].kind = "PAYMENT" THEN P ELSE N}
      BY DEF RowAmounts
    <2> HIDE DEF P, N
    <2> QED
      BY <2>1, <2>2
  <1>3. \A amount \in RowAmounts(s) : amount \in Int
    BY <1>2, AmountFacts
  <1>4. IsFiniteSet(RowAmounts(s))
    <2> DEFINE f == [row \in R |-> row.amount]
    <2>1. \A y \in RowAmounts(s) : \E row \in R : y = f[row]
      BY <1>2
    <2>2. IsFiniteSet(R)
      BY <1>2
    <2> HIDE DEF f
    <2> QED
      BY <2>1, <2>2, ImageFinite
  <1> DEFINE X == {Allocation(s, req[s].kind, req[s].key, amount) : amount \in RowAmounts(s)}
  <1>5. IsFiniteSet(X)
    <2> DEFINE f == [amount \in RowAmounts(s) |->
                        Allocation(s, req[s].kind, req[s].key, amount)]
    <2>1. \A y \in X : \E amount \in RowAmounts(s) : y = f[amount]
      OBVIOUS
    <2> HIDE DEF f, X
    <2> QED
      BY <1>4, <2>1, ImageFinite
  <1>6. \A a \in X : /\ a \in AllocRow /\ a.invoice = req[s].invoice
                     /\ a.type = req[s].kind /\ a.src = req[s].key
    BY <1>1, <1>3, AllocationFacts
  <1>7. Own(s) \in {{}, X}
    BY DEF Own, OwnAllocation
  <1> HIDE DEF X
  <1> QED
    BY <1>5, <1>6, <1>7, FS_EmptySet

(* Backfilled allocations are about rows, not adjustments.                 *)
LEMMA BackfillFacts ==
    ASSUME LockInv, CoverInv, NEW s \in Sessions, pc[s] # "idle"
    PROVE  /\ IsFiniteSet(Backfill(s))
           /\ \A a \in Backfill(s) :
                 /\ a \in AllocRow /\ a.invoice = req[s].invoice
                 /\ a.src \in Keys \cup SlaKeys
  <1>1. req[s] \in Request /\ slot[s] \in SlotRow
    BY BusyTypes
  <1> DEFINE seen == Seen(s) \cup Own(s)
             i == req[s].invoice
             covered(types, k) == \E a \in seen : a.type \in types /\ a.src = k
             P == {p \in payments \cup mine[s].payments :
                      p.invoice = i /\ ~covered({"PAYMENT"}, p.key)}
             N == {n \in notes \cup mine[s].notes :
                      n.invoice = i /\ ~covered({"CREDIT_NOTE", "REFUND"}, n.key)}
             AP(p) == Allocation(s, "PAYMENT", p.key, p.amount)
             AN(n) == Allocation(s, IF <<"REFUND", n.key>> \in ledger \cup mine[s].ledger
                                    THEN "REFUND" ELSE "CREDIT_NOTE", n.key, n.amount)
  <1>2. Backfill(s) = {AP(p) : p \in P} \cup {AN(n) : n \in N}
    BY DEF Backfill, Unallocated
  <1>3. /\ IsFiniteSet(P) /\ IsFiniteSet(N)
        /\ P \subseteq PaymentRow /\ N \subseteq NoteRow
    BY RowFacts, FS_Subset
  <1> HIDE DEF P, N
  <1>4. \A p \in P : /\ AP(p) \in AllocRow /\ AP(p).invoice = i
                     /\ AP(p).src \in Keys \cup SlaKeys
    <2> SUFFICES ASSUME NEW p \in P
                 PROVE  /\ AP(p) \in AllocRow /\ AP(p).invoice = i
                        /\ AP(p).src \in Keys \cup SlaKeys
      OBVIOUS
    <2>1. p.key \in Keys /\ p.amount \in Int /\ "PAYMENT" \in Kinds
      BY <1>3, AmountFacts DEF PaymentRow, Kinds
    <2> QED
      BY <1>1, <2>1, AllocationFacts
  <1>5. \A n \in N : /\ AN(n) \in AllocRow /\ AN(n).invoice = i
                     /\ AN(n).src \in Keys \cup SlaKeys
    <2> SUFFICES ASSUME NEW n \in N
                 PROVE  /\ AN(n) \in AllocRow /\ AN(n).invoice = i
                        /\ AN(n).src \in Keys \cup SlaKeys
      OBVIOUS
    <2>1. n.key \in Keys \cup SlaKeys /\ n.amount \in Int
      BY <1>3, AmountFacts DEF NoteRow
    <2>2. PICK type \in Kinds : type = IF <<"REFUND", n.key>> \in ledger \cup mine[s].ledger
                                       THEN "REFUND" ELSE "CREDIT_NOTE"
      BY DEF Kinds
    <2> QED
      BY <1>1, <2>1, <2>2, AllocationFacts
  <1>6. IsFiniteSet({AP(p) : p \in P}) /\ IsFiniteSet({AN(n) : n \in N})
    <2> DEFINE f == [p \in P |-> AP(p)]
               g == [n \in N |-> AN(n)]
               X == {AP(p) : p \in P}
               Y == {AN(n) : n \in N}
    <2>1. (\A y \in X : \E p \in P : y = f[p]) /\ (\A y \in Y : \E n \in N : y = g[n])
      OBVIOUS
    <2> HIDE DEF f, g, AP, AN, X, Y
    <2>2. IsFiniteSet(X) /\ IsFiniteSet(Y)
      BY <1>3, <2>1, ImageFinite
    <2> QED
      BY <2>2 DEF X, Y
  <1> HIDE DEF AP, AN
  <1> QED
    BY <1>2, <1>4, <1>5, <1>6, FS_Union

(* What s sees before the adjustment.                                      *)
Before(s) == Seen(s) \cup Own(s) \cup Backfill(s)

(* It is a finite set of allocations of the invoice.                       *)
LEMMA BeforeFacts ==
    ASSUME LockInv, CoverInv, NEW s \in Sessions, pc[s] = "allocate"
    PROVE  /\ Before(s) \subseteq AllocRow /\ IsFiniteSet(Before(s))
           /\ \A a \in Before(s) : a.invoice = req[s].invoice
           /\ AllocNet(Before(s)) \in Int /\ NetCoverage(copy[s].new) \in Int
           /\ Cardinality(Before(s)) \in Nat
  <1>1. /\ Before(s) \subseteq AllocRow
        /\ \A a \in Before(s) : a.invoice = req[s].invoice
    BY SeenFacts, OwnFacts, BackfillFacts DEF Before
  <1>2. IsFiniteSet(Before(s))
    <2>1. IsFiniteSet(Seen(s) \cup Own(s))
      BY SeenFacts, OwnFacts, FS_Union
    <2> QED
      BY <2>1, BackfillFacts, FS_Union DEF Before
  <1>3. AllocNet(Before(s)) \in Int
    BY <1>1, <1>2, AllocNetType DEF AllocRow
  <1>4. NetCoverage(copy[s].new) \in Int
    BY BusyTypes DEF Holding, Copy, Invoice, NetCoverage
  <1> QED
    BY <1>1, <1>2, <1>3, <1>4, FS_CardinalityType

(* Either the allocations match the coverage, or one adjustment is as      *)
(* large as the gap; its number is how many allocations there are.         *)
LEMMA AdjustedFacts ==
    ASSUME LockInv, CoverInv, NEW s \in Sessions, pc[s] = "allocate"
    PROVE  \/ Adjusted(s) = {} /\ AllocNet(Before(s)) = NetCoverage(copy[s].new)
           \/ \E a \in AllocRow :
                 /\ Adjusted(s) = {a} /\ a.invoice = req[s].invoice
                 /\ a.src = <<"adjustment", Cardinality(Before(s))>>
                 /\ Signed(a) = NetCoverage(copy[s].new) - AllocNet(Before(s))
  <1> DEFINE gap == NetCoverage(copy[s].new) - AllocNet(Before(s))
             type == IF gap < 0 THEN "REFUND" ELSE "PAYMENT"
             src == <<"adjustment", Cardinality(Before(s))>>
  <1>1. gap \in Int /\ (gap = 0 => AllocNet(Before(s)) = NetCoverage(copy[s].new))
    BY BeforeFacts
  <1>2. Adjusted(s) = IF gap = 0 THEN {} ELSE {Allocation(s, type, src, Magnitude(gap))}
    BY DEF Adjusted, Adjustment, Before
  <1>3. src \in Numbers
    BY BeforeFacts DEF Numbers
  <1>4. /\ type \in Kinds /\ Magnitude(gap) \in Int
        /\ (IF type = "PAYMENT" THEN Magnitude(gap) ELSE -Magnitude(gap)) = gap
    <2> HIDE DEF gap
    <2> QED
      BY <1>1 DEF Kinds, Magnitude
  <1>5. req[s] \in Request /\ slot[s] \in SlotRow
    BY BusyTypes
  <1>6. PICK a : a = Allocation(s, type, src, Magnitude(gap))
    OBVIOUS
  <1> HIDE DEF gap, type, src
  <1>7. /\ a \in AllocRow /\ a.invoice = req[s].invoice /\ a.type = type /\ a.src = src
        /\ a.amount = Magnitude(gap)
    BY <1>3, <1>4, <1>5, <1>6, AllocationFacts
  <1>8. Signed(a) = gap
    BY <1>4, <1>7 DEF Signed
  <1> QED
    BY <1>1, <1>2, <1>6, <1>7, <1>8 DEF gap, src

(* All new allocations are for the invoice, and when every check passes    *)
(* the sum is the coverage of the invoice in the session.                  *)
LEMMA NewAllocsFacts ==
    ASSUME LockInv, CoverInv, NEW s \in Sessions, pc[s] = "allocate"
    PROVE  /\ NewAllocs(s) \subseteq AllocRow /\ IsFiniteSet(NewAllocs(s))
           /\ \A a \in NewAllocs(s) : a.invoice = req[s].invoice
           /\ Seen(s) \cup NewAllocs(s) = Before(s) \cup Adjusted(s)
           /\ Books(s) => AllocNet(Seen(s) \cup NewAllocs(s)) = NetCoverage(copy[s].new)
  <1>1. /\ Adjusted(s) \subseteq AllocRow /\ IsFiniteSet(Adjusted(s))
        /\ \A a \in Adjusted(s) : a.invoice = req[s].invoice
    <2>1. CASE Adjusted(s) = {}
      BY <2>1, FS_EmptySet
    <2>2. CASE Adjusted(s) # {}
      <3>1. PICK a \in AllocRow : Adjusted(s) = {a} /\ a.invoice = req[s].invoice
        BY <2>2, AdjustedFacts
      <3> QED
        BY <3>1, FS_Singleton
    <2> QED
      BY <2>1, <2>2
  <1>2. /\ NewAllocs(s) \subseteq AllocRow
        /\ \A a \in NewAllocs(s) : a.invoice = req[s].invoice
    BY <1>1, OwnFacts, BackfillFacts DEF NewAllocs
  <1>3. IsFiniteSet(NewAllocs(s))
    <2>1. IsFiniteSet(Own(s) \cup Backfill(s))
      BY OwnFacts, BackfillFacts, FS_Union
    <2> QED
      BY <1>1, <2>1, FS_Union DEF NewAllocs
  <1>4. Seen(s) \cup NewAllocs(s) = Before(s) \cup Adjusted(s)
    BY DEF NewAllocs, Before
  <1>5. Books(s) => AllocNet(Seen(s) \cup NewAllocs(s)) = NetCoverage(copy[s].new)
    <2>1. CASE Adjusted(s) = {}
      <3>1. AllocNet(Before(s)) = NetCoverage(copy[s].new)
        BY <2>1, AdjustedFacts
      <3>2. Seen(s) \cup NewAllocs(s) = Before(s)
        BY <1>4, <2>1
      <3> QED
        BY <3>1, <3>2
    <2>2. CASE Adjusted(s) # {}
      BY <1>4, <2>2 DEF Books, Bookable, TotalHolds, ValidateSettlementTotal, Before
    <2> QED
      BY <2>1, <2>2
  <1> QED
    BY <1>2, <1>3, <1>4, <1>5

(* The row of s has its allocation once its own allocation is booked.      *)
LEMMA OwnCovers ==
    ASSUME LockInv, CoverInv, NEW s \in Sessions
    PROVE  /\ \A p \in mine[s].payments : Covered(Seen(s) \cup Own(s), {"PAYMENT"}, p.key)
           /\ \A n \in mine[s].notes : Covered(Seen(s) \cup Own(s), NoteTypes, n.key)
  <1>0. SessionOK(s)
    BY DEF CoverInv
  <1>1. ASSUME NEW amount \in RowAmounts(s)
        PROVE  \E a \in Seen(s) \cup Own(s) : a.type = req[s].kind /\ a.src = req[s].key
    <2> DEFINE b == Allocation(s, req[s].kind, req[s].key, amount)
    <2>1. b.type = req[s].kind /\ b.src = req[s].key
      BY DEF Allocation
    <2>2. (\E a \in Seen(s) : a.type = req[s].kind /\ a.src = req[s].key) \/ b \in Own(s)
      BY DEF Own, OwnAllocation
    <2> HIDE DEF b
    <2> QED
      BY <2>1, <2>2
  <1>2. ASSUME NEW p \in mine[s].payments
        PROVE  Covered(Seen(s) \cup Own(s), {"PAYMENT"}, p.key)
    <2>1. req[s].kind = "PAYMENT" /\ p.key = req[s].key
      BY <1>0 DEF SessionOK
    <2>2. p.amount \in RowAmounts(s)
      BY <2>1 DEF RowAmounts
    <2> QED
      BY <1>1, <2>1, <2>2 DEF Covered
  <1>3. ASSUME NEW n \in mine[s].notes
        PROVE  Covered(Seen(s) \cup Own(s), NoteTypes, n.key)
    <2>1. req[s].kind # "PAYMENT" /\ n.key = req[s].key /\ n \in NoteRow
      BY <1>0 DEF SessionOK, CoverInv, LocalTypes, Rows
    <2>2. n.amount \in RowAmounts(s)
      BY <2>1 DEF RowAmounts
    <2>3. req[s].kind \in NoteTypes
      <3>1. pc[s] # "idle"
        BY <1>0 DEF SessionOK, NoRows
      <3> QED
        BY <2>1, <3>1, BusyTypes DEF Request, Kinds, NoteTypes
    <2> QED
      BY <1>1, <2>1, <2>2, <2>3 DEF Covered
  <1> QED
    BY <1>2, <1>3

(* The rows of s with its allocations, field by field.                     *)
LEMMA WithAllocsFacts ==
    ASSUME LockInv, CoverInv, NEW s \in Sessions, pc[s] = "allocate"
    PROVE  LET m == WithAllocs(s, mine[s]) IN
           /\ m \in Rows
           /\ m.payments = mine[s].payments /\ m.notes = mine[s].notes
           /\ m.events = mine[s].events /\ m.allocs = NewAllocs(s)
           /\ m.ledger = mine[s].ledger \cup {<<req[s].kind, req[s].key>>}
  <1>1. PICK o \in Rows : o = mine[s]
    BY BusyTypes
  <1>2. PICK A : A = o.allocs \cup NewAllocs(s)
    OBVIOUS
  <1>3. PICK P : P = IF NewAllocs(s) # {} /\ slot[s].new THEN o.periods \cup {slot[s].name}
                     ELSE o.periods
    OBVIOUS
  <1>4. PICK L : L = o.ledger \cup {<<req[s].kind, req[s].key>>}
    OBVIOUS
  <1>5. PICK m : m = [o EXCEPT !.allocs = A, !.periods = P, !.ledger = L]
    OBVIOUS
  <1>6. WithAllocs(s, mine[s]) = m
    BY <1>1, <1>2, <1>3, <1>4, <1>5, Zenon DEF WithAllocs
  <1>7. req[s] \in Request /\ slot[s] \in SlotRow
    BY BusyTypes
  <1>8. o.allocs = {}
    BY <1>1 DEF CoverInv, SessionOK
  <1>9. A = NewAllocs(s)
    BY <1>2, <1>8
  <1>10. A \in SUBSET AllocRow
    BY <1>9, NewAllocsFacts
  <1>11. L \in SUBSET (Kinds \X Keys)
    BY <1>4, <1>7 DEF Request, Rows
  <1>12. m = [payments |-> o.payments, notes |-> o.notes, allocs |-> A, events |-> o.events,
              ledger |-> L, periods |-> P]
    BY <1>5 DEF Rows
  <1>13. P \in SUBSET Slots
    BY <1>3, <1>7 DEF Rows, SlotRow, NoSlot
  <1>14. m \in Rows
    BY <1>10, <1>11, <1>12, <1>13 DEF Rows
  <1> QED
    BY <1>1, <1>4, <1>6, <1>9, <1>12, <1>14

(* The allocations are booked.                                             *)
LEMMA AllocateCover ==
    ASSUME LockInv, CoverInv, NEW s \in Sessions, Allocate(s)
    PROVE  CoverInv'
  <1>0. /\ pc[s] = "allocate" /\ Books(s) /\ UNCHANGED tables
        /\ pc' = [pc EXCEPT ![s] = "reply"]
        /\ mine' = [mine EXCEPT ![s] = WithAllocs(s, mine[s])]
        /\ UNCHANGED <<req, copy, slot>>
    BY DEF Allocate, Goto
  <1>1. PICK m : m = WithAllocs(s, mine[s])
    OBVIOUS
  <1>2. /\ m \in Rows
        /\ m.payments = mine[s].payments /\ m.notes = mine[s].notes
        /\ m.allocs = NewAllocs(s)
    BY <1>0, <1>1, WithAllocsFacts
  <1>3. Local(s, "reply", req[s], copy[s], m, slot[s])
    BY <1>0, <1>1, BusyTypes DEF Local
  <1>4. /\ copy[s] \in Copy /\ req[s] \in Request \cup {NoRequest} /\ slot[s] \in SlotRow
        /\ "reply" \in Steps /\ LocalTypes
    BY <1>0, BusyTypes DEF Holding, Steps, CoverInv
  <1>5. IsFiniteSet(m.payments) /\ IsFiniteSet(m.notes) /\ IsFiniteSet(m.allocs)
    BY <1>0, <1>2, NewAllocsFacts DEF CoverInv, LocalTypes
  <1>6. pc'[s] = "reply" /\ req'[s] = req[s] /\ copy'[s] = copy[s] /\ mine'[s] = m
    BY <1>3, <1>2, <1>4, <1>5, LocalFacts
  <1>7. SessionOK(s)
    BY DEF CoverInv
  <1>8. Seen(s)' = Seen(s) \cup NewAllocs(s)
    <2>1. allocs' = allocs /\ mine[s].allocs = {}
      BY <1>0, <1>7 DEF tables, SessionOK
    <2>2. Seen(s)' = AllocsOf(req[s].invoice, allocs \cup NewAllocs(s))
      BY <1>2, <1>6, <2>1 DEF Seen, AllocsOf
    <2>3. AllocsOf(req[s].invoice, allocs \cup NewAllocs(s)) = Seen(s) \cup NewAllocs(s)
      BY <1>0, <2>1, NewAllocsFacts DEF Seen, AllocsOf
    <2> QED
      BY <2>2, <2>3
  <1>9. ReplyOK(s)'
    <2>1. AllocNet(Seen(s)') = NetCoverage(copy'[s].new)
      BY <1>0, <1>6, <1>8, NewAllocsFacts
    <2>2. Seen(s) \cup Own(s) \subseteq Seen(s)'
      BY <1>8 DEF NewAllocs
    <2>3. \A p \in mine'[s].payments : Covered(Seen(s)', {"PAYMENT"}, p.key)
      BY <1>2, <1>6, <2>2, OwnCovers DEF Covered
    <2>4. \A n \in mine'[s].notes : Covered(Seen(s)', NoteTypes, n.key)
      BY <1>2, <1>6, <2>2, OwnCovers DEF Covered
    <2> QED
      BY <2>1, <2>3, <2>4 DEF ReplyOK
  <1>10. SessionOK(s)'
    <2>1. \A a \in m.allocs : a.invoice = req[s].invoice
      BY <1>0, <1>2, NewAllocsFacts
    <2> QED
      BY <1>2, <1>6, <1>7, <1>9, <2>1 DEF SessionOK
  <1> QED
    BY <1>0, <1>2, <1>3, <1>4, <1>5, <1>10, SessionStep

-----------------------------------------------------------------------------
(* The commit.                                                             *)
LEMMA CommitFacts ==
    ASSUME LockInv, CoverInv, NEW s \in Sessions, Commit(s)
    PROVE  /\ pc[s] = "reply" /\ req[s] \in Request
           /\ Local(s, "idle", NoRequest, NoCopy, NoRows, NoSlot)
           /\ payments' = payments \cup mine[s].payments
           /\ notes' = notes \cup mine[s].notes
           /\ allocs' = allocs \cup mine[s].allocs
           /\ events' = events \cup mine[s].events
           /\ ledger' = ledger \cup mine[s].ledger
           /\ AllocsOf(req[s].invoice, allocs') = Seen(s)
           /\ \A i \in Invoices \ {req[s].invoice} : AllocsOf(i, allocs') = AllocsOf(i, allocs)
           /\ \A t \in Sessions \ {s} : /\ pc'[t] = pc[t] /\ req'[t] = req[t]
                                        /\ copy'[t] = copy[t] /\ mine'[t] = mine[t]
           /\ \A t \in Sessions \ {s} : pc[t] \in Holding => req[t].invoice # req[s].invoice
  <1>1. /\ pc[s] = "reply"
        /\ payments' = payments \cup mine[s].payments
        /\ notes' = notes \cup mine[s].notes
        /\ allocs' = allocs \cup mine[s].allocs
        /\ events' = events \cup mine[s].events
        /\ ledger' = ledger \cup mine[s].ledger
    BY DEF Commit
  <1>2. req[s] \in Request
    BY <1>1, BusyTypes
  <1>3. Local(s, "idle", NoRequest, NoCopy, NoRows, NoSlot)
    BY DEF Commit, End, Goto, Local
  <1>4. \A a \in mine[s].allocs : a.invoice = req[s].invoice
    BY DEF CoverInv, SessionOK
  <1>5. /\ AllocsOf(req[s].invoice, allocs') = Seen(s)
        /\ \A i \in Invoices \ {req[s].invoice} : AllocsOf(i, allocs') = AllocsOf(i, allocs)
    BY <1>1, <1>4 DEF Seen, AllocsOf
  <1>6. "idle" \in Steps \ Holding /\ LocalTypes
    BY DEF Steps, CoverInv, Holding
  <1>7. \A t \in Sessions \ {s} : /\ pc'[t] = pc[t] /\ req'[t] = req[t]
                                  /\ copy'[t] = copy[t] /\ mine'[t] = mine[t]
    BY <1>3, <1>6, NoRowsType, LocalFacts
  <1>8. ASSUME NEW t \in Sessions \ {s}, pc[t] \in Holding
        PROVE  req[t].invoice # req[s].invoice
    BY <1>1, <1>2, <1>8 DEF LockInv, LocksProtect, Holds, Holding, Request
  <1> QED
    BY <1>1, <1>2, <1>3, <1>5, <1>7, <1>8

(* The flushed rows become committed rows.                                 *)
LEMMA CommitCover ==
    ASSUME LockInv, CoverInv, NEW s \in Sessions, Commit(s)
    PROVE  CoverInv'
  <1>1. SessionOK(s) /\ ReplyOK(s) /\ TablesOK /\ TableTypes /\ LocalTypes
    BY CommitFacts DEF CoverInv, SessionOK
  <1>2. "idle" \in Steps \ Holding
    BY DEF Steps, Holding
  <1>3. LocalTypes' /\ pc'[s] = "idle" /\ mine'[s] = NoRows
    BY <1>1, <1>2, CommitFacts, NoRowsType, LocalFacts
  <1>4. TableTypes'
    <2>1. mine[s] \in Rows /\ IsFiniteSet(mine[s].payments) /\ IsFiniteSet(mine[s].notes)
          /\ IsFiniteSet(mine[s].allocs)
      BY <1>1 DEF LocalTypes
    <2>2. payments' \subseteq PaymentRow /\ notes' \subseteq NoteRow /\ allocs' \subseteq AllocRow
          /\ events' \subseteq Keys
      BY <1>1, <2>1, CommitFacts DEF TableTypes, Rows
    <2>3. IsFiniteSet(payments') /\ IsFiniteSet(notes') /\ IsFiniteSet(allocs')
      <3>1. /\ IsFiniteSet(payments \cup mine[s].payments)
            /\ IsFiniteSet(notes \cup mine[s].notes)
            /\ IsFiniteSet(allocs \cup mine[s].allocs)
        BY <1>1, <2>1, FS_Union DEF TableTypes
      <3> QED
        BY <3>1, CommitFacts
    <2>4. period' \in [Slots -> PeriodStatus \cup {"ABSENT"}] /\ charge' \in PeriodStatus
      BY <1>1 DEF Commit, TableTypes, PeriodStatus
    <2> QED
      BY <2>2, <2>3, <2>4 DEF TableTypes
  <1>5. allocs \subseteq allocs'
    BY CommitFacts
  <1>6. TablesOK'
    <2>1. ASSUME NEW p \in payments'
          PROVE  Covered(AllocsOf(p.invoice, allocs'), {"PAYMENT"}, p.key)
      <3>1. CASE p \in payments
        BY <1>1, <1>5, <3>1 DEF TablesOK, Covered, AllocsOf
      <3>2. CASE p \in mine[s].payments
        <4>1. p.invoice = req[s].invoice /\ Covered(Seen(s), {"PAYMENT"}, p.key)
          BY <1>1, <3>2 DEF SessionOK, ReplyOK
        <4> QED
          BY <4>1, CommitFacts
      <3> QED
        BY <3>1, <3>2, CommitFacts
    <2>2. ASSUME NEW n \in notes', n.key \notin SlaKeys
          PROVE  Covered(AllocsOf(n.invoice, allocs'), NoteTypes, n.key)
      <3>1. CASE n \in notes
        BY <1>1, <1>5, <2>2, <3>1 DEF TablesOK, Covered, AllocsOf
      <3>2. CASE n \in mine[s].notes
        <4>1. n.invoice = req[s].invoice /\ Covered(Seen(s), NoteTypes, n.key)
          BY <1>1, <3>2 DEF SessionOK, ReplyOK
        <4> QED
          BY <4>1, CommitFacts
      <3> QED
        BY <3>1, <3>2, CommitFacts
    <2> QED
      BY <2>1, <2>2 DEF TablesOK
  <1>7. SessionOK(s)'
    BY <1>3 DEF SessionOK, NoRows
  <1>8. ASSUME NEW t \in Sessions \ {s}
        PROVE  SessionOK(t)'
    <2>1. SessionOK(t)
      BY DEF CoverInv
    <2>2. /\ pc'[t] = pc[t] /\ req'[t] = req[t] /\ copy'[t] = copy[t] /\ mine'[t] = mine[t]
      BY CommitFacts
    <2>3. pc[t] = "reply" => Seen(t)' = Seen(t)
      <3> SUFFICES ASSUME pc[t] = "reply" PROVE Seen(t)' = Seen(t)
        OBVIOUS
      <3>1. req[t].invoice # req[s].invoice
        BY CommitFacts DEF Holding
      <3>2. \A a \in mine[s].allocs : a.invoice = req[s].invoice
        BY <1>1 DEF SessionOK
      <3>3. allocs' = allocs \cup mine[s].allocs
        BY CommitFacts
      <3> QED
        BY <2>2, <3>1, <3>2, <3>3 DEF Seen, AllocsOf
    <2>4. pc'[t] = "reply" => ReplyOK(t)'
      <3>1. pc'[t] = "reply" => ReplyOK(t) /\ Seen(t)' = Seen(t)
        BY <2>1, <2>2, <2>3 DEF SessionOK
      <3> QED
        BY <2>2, <3>1 DEF ReplyOK, Covered
    <2> QED
      BY <2>1, <2>2, <2>4 DEF SessionOK
  <1> QED
    BY <1>3, <1>4, <1>6, <1>7, <1>8 DEF CoverInv

(* The other writers book no allocation.                                   *)
LEMMA EnvironmentCover ==
    ASSUME CoverInv, Environment
    PROVE  CoverInv'
  <1>1. /\ UNCHANGED <<allocs, payments, Locals>>
        /\ notes' = notes \/ \E i \in Invoices, k \in SlaKeys, amount \in Amounts :
              notes' = notes \cup {[key |-> k, invoice |-> i, amount |-> amount,
                                    external |-> FALSE]}
        /\ events' = events
        /\ period' \in [Slots -> PeriodStatus \cup {"ABSENT"}]
        /\ charge' \in PeriodStatus
    <2>0. /\ period \in [Slots -> PeriodStatus \cup {"ABSENT"}]
          /\ charge \in PeriodStatus
      BY DEF CoverInv, TableTypes
    <2>1. CASE \E i \in Invoices, to \in Status, payment, credit \in AdminAmounts :
                  AdminTransition(i, to, payment, credit)
      BY <2>0, <2>1 DEF AdminTransition
    <2>2. CASE \E i \in Invoices : QueuePdf(i) \/ GeneratePdf(i)
      BY <2>0, <2>2 DEF QueuePdf, GeneratePdf
    <2>3. CASE \E i \in Invoices, k \in SlaKeys, amount \in Amounts : SlaCreditNote(i, k, amount)
      BY <2>0, <2>3 DEF SlaCreditNote
    <2>4. CASE \E p \in Closing : FinalizePeriod(p) \/ LockPeriod(p)
      BY <2>0, <2>4 DEF FinalizePeriod, LockPeriod, PeriodStatus
    <2>5. CASE CloseChargePeriod
      BY <2>0, <2>5 DEF CloseChargePeriod, PeriodStatus
    <2> QED
      BY <2>1, <2>2, <2>3, <2>4, <2>5 DEF Environment
  <1>2. LocalTypes'
    BY <1>1 DEF Locals, CoverInv, LocalTypes
  <1>3. /\ notes' \subseteq NoteRow /\ IsFiniteSet(notes')
        /\ \A n \in notes' \ notes : n.key \in SlaKeys
    <2>1. notes \subseteq NoteRow /\ IsFiniteSet(notes)
      BY DEF CoverInv, TableTypes
    <2>2. CASE notes' = notes
      BY <2>1, <2>2
    <2>3. ASSUME NEW i \in Invoices, NEW k \in SlaKeys, NEW amount \in Amounts,
                 notes' = notes \cup {[key |-> k, invoice |-> i, amount |-> amount,
                                       external |-> FALSE]}
          PROVE  /\ notes' \subseteq NoteRow /\ IsFiniteSet(notes')
                 /\ \A n \in notes' \ notes : n.key \in SlaKeys
      <3>1. PICK n : n = [key |-> k, invoice |-> i, amount |-> amount, external |-> FALSE]
        OBVIOUS
      <3>2. n \in NoteRow /\ n.key \in SlaKeys
        BY <3>1 DEF NoteRow
      <3>3. IsFiniteSet(notes \cup {n})
        BY <2>1, FS_AddElement
      <3> QED
        BY <2>1, <2>3, <3>1, <3>2, <3>3
    <2> QED
      BY <1>1, <2>2, <2>3
  <1>4. TableTypes'
    BY <1>1, <1>3 DEF CoverInv, TableTypes
  <1>5. TablesOK'
    BY <1>1, <1>3 DEF CoverInv, TablesOK, Covered, AllocsOf
  <1>6. ASSUME NEW t \in Sessions
        PROVE  SessionOK(t)'
    <2>1. SessionOK(t)
      BY DEF CoverInv
    <2>2. Seen(t)' = Seen(t)
      BY <1>1 DEF Seen, AllocsOf, Locals
    <2>3. UNCHANGED <<pc, req, copy, mine>>
      BY <1>1 DEF Locals
    <2>4. pc[t] = "reply" => ReplyOK(t)'
      BY <2>1, <2>2, <2>3 DEF SessionOK, ReplyOK, Covered
    <2> QED
      BY <2>1, <2>3, <2>4 DEF SessionOK
  <1> QED
    BY <1>2, <1>4, <1>5, <1>6 DEF CoverInv

(* A stuttering step.                                                      *)
LEMMA StutterCover ==
    ASSUME CoverInv, UNCHANGED vars
    PROVE  CoverInv'
  <1>1. LocalTypes' /\ TableTypes' /\ TablesOK'
    BY DEF vars, CoverInv, LocalTypes, TableTypes, TablesOK
  <1>2. ASSUME NEW t \in Sessions
        PROVE  SessionOK(t)'
    <2>1. SessionOK(t)
      BY DEF CoverInv
    <2>2. Seen(t)' = Seen(t)
      BY DEF Seen, AllocsOf, vars
    <2>3. UNCHANGED <<pc, req, copy, mine>>
      BY DEF vars
    <2>4. pc[t] = "reply" => ReplyOK(t)'
      BY <2>1, <2>2, <2>3 DEF SessionOK, ReplyOK, Covered
    <2> QED
      BY <2>1, <2>3, <2>4 DEF SessionOK
  <1> QED
    BY <1>1, <1>2 DEF CoverInv

(* CoverInv holds initially, ...                                           *)
LEMMA CoverInvInit == Init => CoverInv
  <1> SUFFICES ASSUME Init PROVE CoverInv
    OBVIOUS
  <1>1. LocalTypes
    BY NoRowsType DEF Init, LocalTypes, Steps, Holding
  <1>2. TableTypes /\ TablesOK
    BY FS_EmptySet DEF Init, TableTypes, TablesOK, PeriodStatus
  <1>3. \A s \in Sessions : SessionOK(s)
    BY DEF Init, SessionOK, NoRows
  <1> QED
    BY <1>1, <1>2, <1>3 DEF CoverInv

(* ... every step preserves it, ...                                        *)
LEMMA CoverInvNext ==
    ASSUME LockInv, CoverInv, [Next]_vars
    PROVE  CoverInv'
  <1>1. CASE UNCHANGED vars
    BY <1>1, StutterCover
  <1>2. ASSUME NEW s \in Sessions, NEW r \in Request, Start(s, r)
        PROVE  CoverInv'
    <2>1. pc[s] = "idle"
      BY <1>2 DEF Start, ApplyPayment, ReplayFromMoneyFlowEvent, CreateCreditNote, CreateRefund
    <2> QED
      BY <1>2, <2>1, StartCover, StutterCover
  <1>3. ASSUME NEW s \in Sessions, Step(s)
        PROVE  CoverInv'
    BY <1>3, AbortCover, LockCover, InsertCover, AllocateCover, AlreadyCover, CommitCover
    DEF Step, ResolveConflict, LockRefused, InsertRefused, AllocateRefused, RespondAndClose
  <1>4. ASSUME NEW s \in Sessions, Fail(s)
        PROVE  CoverInv'
    BY <1>4, AbortCover DEF Fail
  <1>5. CASE Environment
    BY <1>5, EnvironmentCover
  <1> QED
    BY <1>1, <1>2, <1>3, <1>4, <1>5 DEF Next

(* ... and so it always holds.                                             *)
LEMMA CoverInvariant ==
    ASSUME Preloads = {FALSE}
    PROVE  Spec => [](LockInv /\ CoverInv)
  <1>1. Init => CoverInv
    BY CoverInvInit
  <1>2. LockInv /\ CoverInv /\ [Next]_vars => CoverInv'
    BY CoverInvNext
  <1> QED
    BY <1>1, <1>2, LockInvariant, PTL DEF Spec

(* Only a commit books allocations, all of them for one invoice.           *)
LEMMA AllocsChange ==
    ASSUME [Next]_vars
    PROVE  allocs' = allocs \/ \E s \in Sessions : Commit(s)
  <1>1. ASSUME NEW s \in Sessions, NEW r \in Request, Start(s, r)
        PROVE  allocs' = allocs
    BY <1>1 DEF Start, ApplyPayment, ReplayFromMoneyFlowEvent, CreateCreditNote,
                CreateRefund, Begin, tables, vars
  <1>2. ASSUME NEW s \in Sessions, Step(s), ~Commit(s)
        PROVE  allocs' = allocs
    BY <1>2 DEF Step, ResolveExistingPayment, ResolveConflict, LockInvoice, LockRefused,
                LockForReplay, InsertRow, InsertRefused, InsertReplayed,
                ResolveSettlementPeriod, Allocate, AllocateRefused, AlreadyApplied,
                RespondAndClose, Abort, tables
  <1>3. ASSUME NEW s \in Sessions, Fail(s)
        PROVE  allocs' = allocs
    BY <1>3 DEF Fail, Abort, tables
  <1>4. CASE Environment
    BY <1>4 DEF Environment, AdminTransition, QueuePdf, GeneratePdf, SlaCreditNote,
                FinalizePeriod, LockPeriod, CloseChargePeriod
  <1> QED
    BY <1>1, <1>2, <1>3, <1>4 DEF Next, vars

(* Whoever has changed the amounts of an invoice before, admin transitions *)
(* with amounts and SLA credit notes included: a transaction that commits  *)
(* an allocation leaves the allocations of the invoice equal to its        *)
(* coverage, provided that nobody has loaded the invoice before            *)
(* _lock_invoice.                                                          *)
THEOREM CoverageIsRestored ==
    ASSUME Preloads = {FALSE}
    PROVE  Spec => AllocatingRestoresCoverage
  <1> DEFINE A == \A i \in Invoices :
                     AllocsOf(i, allocs)' # AllocsOf(i, allocs) =>
                        AllocNet(AllocsOf(i, allocs'))  = NetCoverage(invoice'[i])
  <1>1. LockInv /\ CoverInv /\ [Next]_vars => [A]_vars
    <2> SUFFICES ASSUME LockInv, CoverInv, [Next]_vars, NEW i \in Invoices,
                        AllocsOf(i, allocs)' # AllocsOf(i, allocs)
                 PROVE  AllocNet(AllocsOf(i, allocs')) = NetCoverage(invoice'[i])
      OBVIOUS
    <2>1. AllocsOf(i, allocs)' = AllocsOf(i, allocs')
      BY DEF AllocsOf
    <2>2. PICK s \in Sessions : Commit(s)
      BY <2>1, AllocsChange
    <2>3. i = req[s].invoice
      BY <2>1, <2>2, CommitFacts
    <2>4. AllocsOf(i, allocs') = Seen(s)
      BY <2>2, <2>3, CommitFacts
    <2>5. ReplyOK(s)
      BY <2>2, CommitFacts DEF CoverInv, SessionOK
    <2>6. mine[s].allocs # {}
      BY <2>1, <2>2, <2>3, CommitFacts
    <2>7. AllocNet(Seen(s)) = NetCoverage(copy[s].new)
      BY <2>5, <2>6 DEF ReplyOK
    <2>8. invoice'[i] = copy[s].new
      BY <2>2, <2>3, CommitWrites DEF LockInv, SessionTypes
    <2> QED
      BY <2>4, <2>7, <2>8
  <1> QED
    BY <1>1, CoverInvariant, PTL DEF Spec, AllocatingRestoresCoverage

-----------------------------------------------------------------------------
(* The rows s can see are allocated, so there is nothing to backfill.      *)
LEMMA NothingToBackfill ==
    ASSUME LockInv, CoverInv, NEW s \in Sessions,
           \A n \in notes : n.invoice = req[s].invoice => n.key \notin SlaKeys
    PROVE  Backfill(s) = {}
  <1> DEFINE seen == Seen(s) \cup Own(s)
  <1>1. \A i : AllocsOf(i, allocs) \subseteq AllocsOf(i, allocs \cup mine[s].allocs)
    BY DEF AllocsOf
  <1>2. ASSUME NEW p \in payments \cup mine[s].payments, p.invoice = req[s].invoice
        PROVE  \E a \in seen : a.type \in {"PAYMENT"} /\ a.src = p.key
    <2>1. CASE p \in payments
      BY <1>1, <1>2, <2>1 DEF CoverInv, TablesOK, Covered, Seen
    <2>2. CASE p \in mine[s].payments
      BY <2>2, OwnCovers DEF Covered
    <2> QED
      BY <2>1, <2>2
  <1>3. ASSUME NEW n \in notes \cup mine[s].notes, n.invoice = req[s].invoice
        PROVE  \E a \in seen : a.type \in {"CREDIT_NOTE", "REFUND"} /\ a.src = n.key
    <2>1. CASE n \in notes
      BY <1>1, <1>3, <2>1 DEF CoverInv, TablesOK, Covered, Seen, NoteTypes
    <2>2. CASE n \in mine[s].notes
      BY <2>2, OwnCovers DEF Covered, NoteTypes
    <2> QED
      BY <2>1, <2>2
  <1> HIDE DEF seen
  <1> QED
    BY <1>2, <1>3 DEF Backfill, Unallocated, seen

(* What an operation makes of the amounts of an invoice.                   *)
LEMMA AppliedAmounts ==
    ASSUME NEW v \in Invoice, NEW r \in Request
    PROVE  LET w == Applied(r, v) IN
           /\ w.paid = IF r.kind = "PAYMENT" THEN v.paid + r.amount ELSE v.paid
           /\ w.credited = IF r.kind = "CREDIT_NOTE" THEN v.credited + r.amount ELSE v.credited
           /\ w.refunded = IF r.kind = "REFUND" THEN v.refunded + r.amount ELSE v.refunded
           /\ NetCoverage(w) = NetCoverage(v) +
                 (IF r.kind = "PAYMENT" THEN r.amount ELSE -r.amount)
  <1>1. /\ r.amount \in Int /\ r.kind \in Kinds /\ 0 \in Int
        /\ v.paid \in Int /\ v.credited \in Int /\ v.refunded \in Int
    BY AmountFacts DEF Request, Invoice
  <1>2. /\ PaymentTarget(v, r.amount) \in Status
        /\ CreditTarget(v, r.amount) \in Status
        /\ RefundTarget(v, r.amount) \in Status
    BY DEF PaymentTarget, CreditTarget, RefundTarget, Status
  <1>3. PICK w : w = Applied(r, v)
    OBVIOUS
  <1>4. /\ w.paid = IF r.kind = "PAYMENT" THEN v.paid + r.amount ELSE v.paid
        /\ w.credited = IF r.kind = "CREDIT_NOTE" THEN v.credited + r.amount ELSE v.credited
        /\ w.refunded = IF r.kind = "REFUND" THEN v.refunded + r.amount ELSE v.refunded
    <2>1. CASE r.kind = "PAYMENT"
      <3>1. w = Transition(v, PaymentTarget(v, r.amount), r.amount, 0, 0)
        BY <1>3, <2>1 DEF Applied, Pay
      <3>2. /\ w.paid = v.paid + r.amount /\ w.credited = v.credited + 0
            /\ w.refunded = v.refunded + 0
        BY <1>1, <1>2, <3>1, TransitionFields
      <3> QED
        BY <1>1, <2>1, <3>2
    <2>2. CASE r.kind = "CREDIT_NOTE"
      <3>1. w = Transition(v, CreditTarget(v, r.amount), 0, r.amount, 0)
        BY <1>3, <2>2 DEF Applied, Credit
      <3>2. /\ w.paid = v.paid + 0 /\ w.credited = v.credited + r.amount
            /\ w.refunded = v.refunded + 0
        BY <1>1, <1>2, <3>1, TransitionFields
      <3> QED
        BY <1>1, <2>2, <3>2
    <2>3. CASE r.kind = "REFUND"
      <3>1. w = Transition(v, RefundTarget(v, r.amount), 0, 0, r.amount)
        BY <1>3, <2>3 DEF Applied, Refund
      <3>2. /\ w.paid = v.paid + 0 /\ w.credited = v.credited + 0
            /\ w.refunded = v.refunded + r.amount
        BY <1>1, <1>2, <3>1, TransitionFields
      <3> QED
        BY <1>1, <2>3, <3>2
    <2> QED
      BY <1>1, <2>1, <2>2, <2>3 DEF Kinds
  <1>5. NetCoverage(w) = NetCoverage(v) + (IF r.kind = "PAYMENT" THEN r.amount ELSE -r.amount)
    BY <1>1, <1>4 DEF NetCoverage, Kinds
  <1> QED
    BY <1>3, <1>4, <1>5

-----------------------------------------------------------------------------
(* The steps of one session that leave the tables alone.                   *)
Late == {"period", "allocate", "reply"}

(* A step of s that leaves the tables alone preserves BooksInv if what s   *)
(* has flushed is its own and s still is fresh or a replay.                *)
LEMMA BooksFrame ==
    ASSUME BooksInv, NEW s \in Sessions, UNCHANGED tables,
           \A t \in Sessions \ {s} :
              /\ pc'[t] = pc[t] /\ req'[t] = req[t] /\ copy'[t] = copy[t]
              /\ mine'[t] = mine[t],
           pc'[s] \in Late => Fresh(s)' \/ Replay(s)',
           \A t \in Sessions \ {s} : Pending(s, t)' /\ Pending(t, s)'
    PROVE  BooksInv'
  <1>1. AllocsMatchRows' /\ RowsAreBooked'
    BY DEF BooksInv, tables, AllocsMatchRows, RowsAreBooked, IsPayment
  <1>2. AmountsAreSums'
    <2>1. AmountsAreSums /\ UNCHANGED <<invoice, payments, notes>>
      BY DEF BooksInv, tables
    <2> QED
      BY <2>1 DEF AmountsAreSums
  <1>3. AllocationsMatchCoverage'
    <2>1. AllocationsMatchCoverage /\ UNCHANGED <<invoice, allocs>>
      BY DEF BooksInv, tables
    <2> QED
      BY <2>1 DEF AllocationsMatchCoverage, AllocsOf
  <1>4. ASSUME NEW t \in Sessions, pc'[t] \in Late
        PROVE  Fresh(t)' \/ Replay(t)'
    <2>1. CASE t = s
      BY <1>4, <2>1
    <2>2. CASE t # s
      <3>1. Fresh(t) \/ Replay(t)
        BY <1>4, <2>2 DEF BooksInv, Late
      <3>2. KeyTaken(req[t])' <=> KeyTaken(req[t])
        BY <2>2 DEF KeyTaken, PaymentsWith, NotesWith, tables
      <3> QED
        BY <2>2, <3>1, <3>2 DEF Fresh, Replay, PaymentOf, NoteOf
    <2> QED
      BY <2>1, <2>2
  <1>5. ASSUME NEW t \in Sessions, NEW u \in Sessions, t # u
        PROVE  Pending(t, u)'
    <2>1. CASE t = s \/ u = s
      BY <1>5, <2>1
    <2>2. CASE t # s /\ u # s
      BY <1>5, <2>2 DEF BooksInv, Pending
    <2> QED
      BY <2>1, <2>2
  <1> QED
    BY <1>1, <1>2, <1>3, <1>4, <1>5 DEF BooksInv, Late

(* The session inserts nothing.                                            *)
LEMMA BooksStep ==
    ASSUME CoverInv, BooksInv, NEW s \in Sessions, NEW x \in Steps,
           NEW q \in Request \cup {NoRequest},
           NEW c \in Copy \cup {NoCopy}, NEW m \in Rows, NEW k \in SlotRow,
           IsFiniteSet(m.payments), IsFiniteSet(m.notes), IsFiniteSet(m.allocs),
           x \in Holding => c \in Copy,
           m.payments \subseteq mine[s].payments, m.notes \subseteq mine[s].notes,
           Local(s, x, q, c, m, k), UNCHANGED tables,
           x \in Late => Fresh(s)' \/ Replay(s)'
    PROVE  BooksInv'
  <1>1. LocalTypes
    BY DEF CoverInv
  <1>2. /\ \A t \in Sessions \ {s} :
              /\ pc'[t] = pc[t] /\ req'[t] = req[t] /\ copy'[t] = copy[t]
              /\ mine'[t] = mine[t]
        /\ pc'[s] = x /\ mine'[s] = m
    BY <1>1, LocalFacts
  <1>3. ASSUME NEW t \in Sessions \ {s}
        PROVE  Pending(s, t)' /\ Pending(t, s)'
    <2>1. Pending(s, t) /\ Pending(t, s)
      BY DEF BooksInv
    <2> QED
      BY <1>2, <2>1 DEF Pending
  <1> QED
    BY <1>2, <1>3, BooksFrame

(* The transaction is rolled back.                                         *)
LEMMA AbortBooks ==
    ASSUME CoverInv, BooksInv, NEW s \in Sessions, Abort(s)
    PROVE  BooksInv'
  <1>1. Local(s, "idle", NoRequest, NoCopy, NoRows, NoSlot) /\ UNCHANGED tables
    BY DEF Abort, End, Goto, Local
  <1>2. "idle" \in Steps \ Holding /\ "idle" \notin Late
    BY DEF Steps, Holding, Late
  <1>3. NoRows.payments \subseteq mine[s].payments /\ NoRows.notes \subseteq mine[s].notes
    BY DEF NoRows
  <1> QED
    BY <1>1, <1>2, <1>3, NoRowsType, BooksStep

(* The session has no rows, and gets none.                                 *)
LEMMA QuietBooks ==
    ASSUME CoverInv, BooksInv, NEW s \in Sessions, NEW x \in Steps,
           NEW q \in Request \cup {NoRequest},
           NEW c \in Copy \cup {NoCopy}, NEW k \in SlotRow,
           x \in Holding => c \in Copy,
           Local(s, x, q, c, mine[s], k), UNCHANGED tables,
           x \in Late => Fresh(s)' \/ Replay(s)'
    PROVE  BooksInv'
  <1>1. /\ mine[s] \in Rows /\ IsFiniteSet(mine[s].payments) /\ IsFiniteSet(mine[s].notes)
        /\ IsFiniteSet(mine[s].allocs)
    BY DEF CoverInv, LocalTypes
  <1> QED
    BY <1>1, BooksStep

(* The beginning of an operation.                                          *)
LEMMA StartBooks ==
    ASSUME LockInv, CoverInv, BooksInv, NEW s \in Sessions, NEW r \in Request, Start(s, r)
    PROVE  BooksInv' \/ UNCHANGED vars
  <1>1. ASSUME NEW x \in {"resolve", "lock", "relock"}, Begin(s, r, x)
        PROVE  BooksInv'
    <2>1. invoice[r.invoice] \in Invoice
      BY DEF LockInv, SessionTypes, Request
    <2>2. PICK preload \in Preloads :
             copy' = [copy EXCEPT ![s] =
                        IF preload
                        THEN [old |-> invoice[r.invoice], new |-> invoice[r.invoice]]
                        ELSE NoCopy]
      BY <1>1 DEF Begin
    <2>3. PICK c : c = IF preload
                       THEN [old |-> invoice[r.invoice], new |-> invoice[r.invoice]]
                       ELSE NoCopy
      OBVIOUS
    <2>4. c \in Copy \cup {NoCopy} /\ r \in Request \cup {NoRequest}
      BY <2>1, <2>3 DEF Copy
    <2>5. Local(s, x, r, c, mine[s], slot[s]) /\ UNCHANGED tables
      BY <1>1, <2>2, <2>3, BusyTypes DEF Begin, Goto, Local
    <2>6. slot[s] \in SlotRow
      BY BusyTypes
    <2>7. x \in Steps \ Holding /\ x \notin Late
      BY DEF Steps, Holding, Late
    <2> QED
      BY <2>4, <2>5, <2>6, <2>7, QuietBooks
  <1> QED
    BY <1>1 DEF Start, ApplyPayment, ReplayFromMoneyFlowEvent, CreateCreditNote, CreateRefund

(* The lookups, the lock and the choice of the period.                     *)
LEMMA LockBooks ==
    ASSUME LockInv, CoverInv, BooksInv, NEW s \in Sessions,
           \/ ResolveExistingPayment(s) \/ InsertReplayed(s) \/ LockInvoice(s)
           \/ LockForReplay(s) \/ ResolveSettlementPeriod(s)
    PROVE  BooksInv'
  <1>0. UNCHANGED <<tables, req, mine>>
    BY DEF ResolveExistingPayment, InsertReplayed, LockInvoice, LockForReplay,
           ResolveSettlementPeriod
  <1>1. req[s] \in Request \cup {NoRequest}
    BY BusyTypes
  <1>2. CASE ResolveExistingPayment(s)
    <2>1. PICK x \in {"lock", "relock"} : pc' = [pc EXCEPT ![s] = x]
      BY <1>2 DEF ResolveExistingPayment, Goto
    <2>2. Local(s, x, req[s], copy[s], mine[s], slot[s])
      BY <1>0, <1>2, <2>1, BusyTypes DEF Local, ResolveExistingPayment
    <2>3. x \in Steps \ Holding /\ x \notin Late
      BY DEF Steps, Holding, Late
    <2> QED
      BY <1>0, <1>1, <2>2, <2>3, BusyTypes, QuietBooks
  <1>3. CASE InsertReplayed(s)
    <2>1. Local(s, "relock", req[s], NoCopy, mine[s], slot[s])
      BY <1>0, <1>3, BusyTypes DEF Local, InsertReplayed, Goto
    <2>2. "relock" \in Steps \ Holding /\ "relock" \notin Late
      BY DEF Steps, Holding, Late
    <2> QED
      BY <1>0, <1>1, <2>1, <2>2, BusyTypes, QuietBooks
  <1>4. CASE LockInvoice(s) \/ LockForReplay(s)
    <2>1. PICK x \in {"insert", "period"} : pc' = [pc EXCEPT ![s] = x]
      BY <1>4 DEF LockInvoice, LockForReplay, Goto
    <2>2. Local(s, x, req[s], Load(s), mine[s], slot[s])
      BY <1>0, <1>4, <2>1, BusyTypes DEF Local, LockInvoice, LockForReplay
    <2>3. x \in Steps /\ pc[s] \in {"lock", "relock"}
      BY <1>4 DEF Steps, LockInvoice, LockForReplay
    <2>4. Load(s) \in Copy
      BY <2>3, BusyTypes
    <2>5. copy'[s] = Load(s) /\ mine'[s] = mine[s]
      BY <1>0, <2>2 DEF Local, CoverInv, LocalTypes
    <2>6. mine[s] = NoRows
      BY <2>3 DEF CoverInv, SessionOK
    <2>7. Load(s).new = Load(s).old
      BY <2>3 DEF Load, LockInv, LoadedUnderLock, Holding
    <2>8. Replay(s)'
      BY <2>5, <2>6, <2>7 DEF Replay, NoRows
    <2> QED
      BY <1>0, <1>1, <2>2, <2>3, <2>4, <2>8, BusyTypes, QuietBooks
  <1>5. CASE ResolveSettlementPeriod(s)
    <2>1. PICK k \in SlotRow : slot' = [slot EXCEPT ![s] = k]
      <3>1. PICK name \in Slots :
               slot' = [slot EXCEPT ![s] =
                          IF period[name] = "LOCKED" THEN NoSlot
                          ELSE [name |-> name, new |-> period[name] = "ABSENT"]]
        BY <1>5 DEF ResolveSettlementPeriod, Slots
      <3>2. [name |-> name, new |-> period[name] = "ABSENT"] \in SlotRow
        BY DEF SlotRow
      <3> QED
        BY <3>1, <3>2, NoRowsType
    <2>2. Local(s, "allocate", req[s], copy[s], mine[s], k)
      BY <1>0, <1>5, <2>1, BusyTypes DEF Local, ResolveSettlementPeriod, Goto
    <2>3. "allocate" \in Steps /\ pc[s] = "period" /\ pc[s] \in Holding /\ pc'[s] = "allocate"
      BY <1>5, <2>2 DEF Steps, Holding, ResolveSettlementPeriod, Local, CoverInv, LocalTypes
    <2>4. copy[s] \in Copy
      BY <2>3, BusyTypes
    <2>5. Fresh(s) \/ Replay(s)
      BY <2>3 DEF BooksInv
    <2>6. UNCHANGED <<req, copy, mine>>
      BY <1>0, <1>5 DEF ResolveSettlementPeriod
    <2>7. KeyTaken(req[s])' <=> KeyTaken(req[s])
      BY <1>0 DEF KeyTaken, PaymentsWith, NotesWith, tables
    <2>8. Fresh(s)' \/ Replay(s)'
      BY <2>3, <2>5, <2>6, <2>7 DEF Fresh, Replay, PaymentOf, NoteOf
    <2> QED
      BY <1>0, <1>1, <2>2, <2>3, <2>4, <2>8, QuietBooks
  <1> QED
    BY <1>2, <1>3, <1>4, <1>5

(* An allocation of the key is committed only with its row.                *)
LEMMA FreshIsUnseen ==
    ASSUME LockInv, CoverInv, BooksInv, NEW s \in Sessions, pc[s] = "allocate", Fresh(s),
           NEW a \in Seen(s), a.src = req[s].key
    PROVE  ~(IsPayment(a) <=> req[s].kind = "PAYMENT")
  <1>1. mine[s].allocs = {}
    BY DEF CoverInv, SessionOK
  <1>2. a \in allocs
    BY <1>1 DEF Seen, AllocsOf
  <1>3. PICK row \in IF IsPayment(a) THEN payments ELSE notes : row.key = req[s].key
    BY <1>2 DEF BooksInv, AllocsMatchRows
  <1>4. ~KeyTaken(req[s])
    BY DEF Fresh
  <1> QED
    BY <1>3, <1>4 DEF KeyTaken, PaymentsWith, NotesWith

(* The replay that has nothing to do is not fresh.                         *)
LEMMA AlreadyBooks ==
    ASSUME LockInv, CoverInv, BooksInv, NEW s \in Sessions, AlreadyApplied(s)
    PROVE  BooksInv'
  <1>1. /\ pc[s] = "allocate" /\ UNCHANGED <<tables, req, copy, mine, slot>>
        /\ pc' = [pc EXCEPT ![s] = "reply"]
    BY DEF AlreadyApplied, Goto
  <1>2. PICK a \in Seen(s) : /\ req[s].kind = "PAYMENT"
                             /\ a.type = "PAYMENT" /\ a.src = req[s].key
    BY DEF AlreadyApplied, PaymentAlreadyApplied
  <1>3. ~Fresh(s)
    BY <1>1, <1>2, FreshIsUnseen DEF IsPayment
  <1>4. Replay(s)
    BY <1>1, <1>3 DEF BooksInv
  <1>5. Replay(s)'
    BY <1>1, <1>4 DEF Replay
  <1>6. Local(s, "reply", req[s], copy[s], mine[s], slot[s]) /\ UNCHANGED tables
    BY <1>1, BusyTypes DEF Local
  <1>7. /\ copy[s] \in Copy /\ req[s] \in Request \cup {NoRequest} /\ slot[s] \in SlotRow
        /\ "reply" \in Steps
    BY <1>1, BusyTypes DEF Holding, Steps
  <1> QED
    BY <1>5, <1>6, <1>7, QuietBooks

(* The unique key makes the inserted row fresh.                            *)
LEMMA InsertBooks ==
    ASSUME LockInv, CoverInv, BooksInv, NEW s \in Sessions, InsertRow(s)
    PROVE  BooksInv'
  <1>1. PICK r \in Request : r = req[s]
    BY BusyTypes DEF InsertRow
  <1>2. PICK m \in Rows : m = Inserted(r)
    BY <1>1, InsertedFacts
  <1>3. PICK c \in Copy : c = [copy[s] EXCEPT !.new = Applied(r, @)]
    BY <1>1, InsertedFacts
  <1>4. Local(s, "period", r, c, m, slot[s]) /\ UNCHANGED tables
    BY <1>1, <1>2, <1>3, InsertedFacts
  <1>5. /\ m.allocs = {}
        /\ m.payments = IF r.kind = "PAYMENT" THEN {PaymentOf(r)} ELSE {}
        /\ m.notes = IF r.kind = "PAYMENT" THEN {} ELSE {NoteOf(r)}
        /\ m.events = IF r.kind = "PAYMENT" THEN {r.key} ELSE {}
        /\ r.kind = "PAYMENT" => <<"PAYMENT", r.key>> \in m.ledger
    BY <1>2 DEF Inserted
  <1>6. IsFiniteSet(m.payments) /\ IsFiniteSet(m.notes) /\ IsFiniteSet(m.allocs)
    BY <1>5, FS_EmptySet, FS_Singleton
  <1>7. "period" \in Steps /\ slot[s] \in SlotRow /\ r \in Request \cup {NoRequest} /\ LocalTypes
    BY BusyTypes DEF Steps, CoverInv
  <1>8. /\ pc'[s] = "period" /\ req'[s] = r /\ mine'[s] = m /\ copy'[s] = c
        /\ \A t \in Sessions \ {s} :
              /\ pc'[t] = pc[t] /\ req'[t] = req[t] /\ copy'[t] = copy[t]
              /\ mine'[t] = mine[t]
    BY <1>4, <1>6, <1>7, LocalFacts
  <1>9. c.new = Applied(r, c.old)
    <2>1. Holds(s, r.invoice) /\ r.invoice \in Invoices /\ pc[s] = "insert"
      BY <1>1 DEF Holds, InsertRow, Request
    <2>2. copy[s].new = copy[s].old
      BY <2>1 DEF LockInv, LocksProtect, Faithful
    <2>3. copy[s] \in Copy
      BY <2>1, BusyTypes DEF Holding
    <2> QED
      BY <1>3, <2>2, <2>3 DEF Copy
  <1>10. ~KeyTaken(r) /\ ~KeyPending(s)
    BY <1>1 DEF InsertRow
  <1>11. Fresh(s)'
    <2>1. ~KeyTaken(req[s])'
      BY <1>4, <1>8, <1>10 DEF KeyTaken, PaymentsWith, NotesWith, tables
    <2> QED
      BY <1>5, <1>8, <1>9, <2>1 DEF Fresh, PaymentOf, NoteOf
  <1>12. ASSUME NEW t \in Sessions \ {s}
         PROVE  Pending(s, t)' /\ Pending(t, s)'
    <2>1. \A row \in IF r.kind = "PAYMENT" THEN mine[t].payments ELSE mine[t].notes :
             row.key # r.key
      BY <1>1, <1>10 DEF KeyPending
    <2> QED
      BY <1>5, <1>8, <2>1 DEF Pending, PaymentOf, NoteOf
  <1> QED
    BY <1>4, <1>8, <1>11, <1>12, BooksFrame

(* The books of the invoice s holds, before s adds to them.                *)
LEMMA SeenIsBalanced ==
    ASSUME LockInv, CoverInv, BooksInv, NEW s \in Sessions, pc[s] = "allocate"
    PROVE  /\ AllocNet(Seen(s)) = NetCoverage(copy[s].old)
           /\ req[s] \in Request /\ copy[s] \in Copy
           /\ NetCoverage(copy[s].old) \in Int
  <1>1. req[s] \in Request /\ copy[s] \in Copy
    BY BusyTypes DEF Holding
  <1>2. Holds(s, req[s].invoice) /\ req[s].invoice \in Invoices
    BY <1>1 DEF Holds, Request
  <1>3. copy[s].old = invoice[req[s].invoice]
    BY <1>2 DEF LockInv, LocksProtect, Faithful
  <1>4. Seen(s) = AllocsOf(req[s].invoice, allocs)
    BY DEF CoverInv, SessionOK, Seen, AllocsOf
  <1>5. NetCoverage(copy[s].old) \in Int
    BY <1>1 DEF Copy, Invoice, NetCoverage
  <1> QED
    BY <1>1, <1>2, <1>3, <1>4, <1>5 DEF BooksInv, AllocationsMatchCoverage

(* One more allocation than the coverage asks for is not bookable.         *)
LEMMA ReplayAddsNothing ==
    ASSUME LockInv, CoverInv, BooksInv, SlaKeys = {}, NEW s \in Sessions,
           pc[s] = "allocate", Replay(s), Books(s)
    PROVE  NewAllocs(s) = {}
  <1>1. AllocNet(Seen(s)) = NetCoverage(copy[s].new) /\ NetCoverage(copy[s].new) \in Int
    BY SeenIsBalanced DEF Replay
  <1>2. Own(s) = {}
    <2> SUFFICES ASSUME Own(s) # {} PROVE FALSE
      OBVIOUS
    <2>1. Cardinality(Own(s)) = 1 /\ AllocNet(Seen(s) \cup Own(s)) = NetCoverage(copy[s].new)
      BY DEF Books, Bookable, TotalHolds, ValidateSettlementTotal
    <2>2. PICK a : Own(s) = {a}
      BY <2>1, OwnFacts, FS_Singleton
    <2>3. a \in AllocRow /\ a.type = req[s].kind /\ a.src = req[s].key
      BY <2>2, OwnFacts
    <2>4. a \notin Seen(s)
      BY <2>2, <2>3 DEF Own, OwnAllocation
    <2>5. a.amount > 0
      <3>1. PICK amount \in RowAmounts(s) :
               a = Allocation(s, req[s].kind, req[s].key, amount)
        BY <2>2 DEF Own, OwnAllocation
      <3>2. a.amount = amount
        BY <3>1 DEF Allocation
      <3>3. amount \in Amounts
        BY RowFacts DEF RowAmounts, PaymentRow, NoteRow
      <3> QED
        BY <3>2, <3>3, AmountFacts
    <2>6. \A x \in Seen(s) \cup {a} : x.amount \in Int
      BY <2>3, SeenFacts DEF AllocRow
    <2>7. AllocNet(Seen(s) \cup {a}) = AllocNet(Seen(s)) + Signed(a)
      BY <2>4, <2>6, SeenFacts, AllocNetAdd
    <2>8. Signed(a) \in Int /\ Signed(a) # 0
      BY <2>5, <2>6 DEF Signed
    <2> QED
      BY <1>1, <2>1, <2>2, <2>7, <2>8
  <1>3. Backfill(s) = {}
    BY NothingToBackfill
  <1>4. Before(s) = Seen(s)
    BY <1>2, <1>3 DEF Before
  <1>5. AllocNet(Before(s)) = NetCoverage(copy[s].new)
    BY <1>1, <1>4
  <1>6. Adjusted(s) = {}
    <2>1. NetCoverage(copy[s].new) - AllocNet(Before(s)) = 0
      BY <1>5, BeforeFacts
    <2>2. Adjusted(s) = Adjustment(s, Before(s))
      BY DEF Adjusted, Before
    <2> QED
      BY <2>1, <2>2 DEF Adjustment
  <1> QED
    BY <1>2, <1>3, <1>6 DEF NewAllocs

(* A new row gets its allocation, and nothing else is missing.             *)
LEMMA FreshAddsOne ==
    ASSUME LockInv, CoverInv, BooksInv, SlaKeys = {}, NEW s \in Sessions,
           pc[s] = "allocate", Fresh(s)
    PROVE  \E a \in AllocRow :
              /\ NewAllocs(s) = {a} /\ a \notin Seen(s)
              /\ a.type = req[s].kind /\ a.src = req[s].key /\ a.amount = req[s].amount
              /\ Backfill(s) = {} /\ Adjusted(s) = {}
  <1>1. PICK r \in Request : r = req[s]
    BY SeenIsBalanced
  <1>2. PICK a : a = Allocation(s, r.kind, r.key, r.amount)
    OBVIOUS
  <1>3. /\ a \in AllocRow /\ a.type = r.kind /\ a.src = r.key /\ a.amount = r.amount
    <2>1. r.kind \in Kinds /\ r.key \in Keys \cup SlaKeys \cup Numbers /\ r.amount \in Int
      BY AmountFacts DEF Request
    <2>2. req[s] \in Request /\ slot[s] \in SlotRow
      BY BusyTypes
    <2> QED
      BY <1>2, <2>1, <2>2, AllocationFacts
  <1>4. ~(\E x \in Seen(s) : x.type = r.kind /\ x.src = r.key)
    BY <1>1, FreshIsUnseen DEF IsPayment
  <1>5. RowAmounts(s) = {r.amount}
    <2>1. ~KeyTaken(r)
      BY <1>1 DEF Fresh
    <2>2. CASE r.kind = "PAYMENT"
      <3>1. {p \in payments \cup mine[s].payments : p.key = r.key} = {PaymentOf(r)}
        BY <1>1, <2>1, <2>2 DEF KeyTaken, PaymentsWith, Fresh, PaymentOf
      <3>2. PaymentOf(r).amount = r.amount
        BY DEF PaymentOf
      <3> QED
        BY <1>1, <2>2, <3>1, <3>2 DEF RowAmounts
    <2>3. CASE r.kind # "PAYMENT"
      <3>1. {n \in notes \cup mine[s].notes : n.key = r.key} = {NoteOf(r)}
        BY <1>1, <2>1, <2>3 DEF KeyTaken, NotesWith, Fresh, NoteOf
      <3>2. NoteOf(r).amount = r.amount
        BY DEF NoteOf
      <3> QED
        BY <1>1, <2>3, <3>1, <3>2 DEF RowAmounts
    <2> QED
      BY <2>2, <2>3
  <1>6. Own(s) = {a}
    BY <1>1, <1>2, <1>4, <1>5 DEF Own, OwnAllocation
  <1>7. a \notin Seen(s)
    BY <1>3, <1>4
  <1>8. Backfill(s) = {}
    BY NothingToBackfill
  <1>9. Before(s) = Seen(s) \cup {a}
    BY <1>6, <1>8 DEF Before
  <1>10. AllocNet(Before(s)) = NetCoverage(copy[s].new)
    <2>1. \A x \in Seen(s) \cup {a} : x.amount \in Int
      BY <1>3, SeenFacts DEF AllocRow
    <2>2. AllocNet(Before(s)) = AllocNet(Seen(s)) + Signed(a)
      BY <1>7, <1>9, <2>1, SeenFacts, AllocNetAdd
    <2>3. copy[s].new = Applied(r, copy[s].old) /\ copy[s].old \in Invoice
      BY <1>1, SeenIsBalanced DEF Fresh, Copy
    <2>4. NetCoverage(copy[s].new) = NetCoverage(copy[s].old) +
             (IF r.kind = "PAYMENT" THEN r.amount ELSE -r.amount)
      BY <2>3, AppliedAmounts
    <2>5. Signed(a) = IF r.kind = "PAYMENT" THEN r.amount ELSE -r.amount
      BY <1>3 DEF Signed
    <2> QED
      BY <2>2, <2>4, <2>5, SeenIsBalanced
  <1>11. Adjusted(s) = {}
    BY <1>10, BeforeFacts DEF Adjusted, Adjustment, Before
  <1>12. NewAllocs(s) = {a}
    BY <1>6, <1>8, <1>11 DEF NewAllocs
  <1> QED
    BY <1>1, <1>3, <1>7, <1>8, <1>11, <1>12

(* The allocations are booked: one for a fresh row, none for a replay.     *)
LEMMA AllocateBooks ==
    ASSUME LockInv, CoverInv, BooksInv, SlaKeys = {}, NEW s \in Sessions, Allocate(s)
    PROVE  BooksInv'
  <1>0. /\ pc[s] = "allocate" /\ Books(s) /\ UNCHANGED tables
        /\ pc' = [pc EXCEPT ![s] = "reply"]
        /\ mine' = [mine EXCEPT ![s] = WithAllocs(s, mine[s])]
        /\ UNCHANGED <<req, copy, slot>>
    BY DEF Allocate, Goto
  <1>1. PICK m : m = WithAllocs(s, mine[s])
    OBVIOUS
  <1>2. /\ m \in Rows
        /\ m.payments = mine[s].payments /\ m.notes = mine[s].notes
        /\ m.events = mine[s].events /\ m.allocs = NewAllocs(s)
        /\ m.ledger = mine[s].ledger \cup {<<req[s].kind, req[s].key>>}
    BY <1>0, <1>1, WithAllocsFacts
  <1>3. Local(s, "reply", req[s], copy[s], m, slot[s])
    BY <1>0, <1>1, BusyTypes DEF Local
  <1>4. /\ copy[s] \in Copy /\ req[s] \in Request \cup {NoRequest} /\ slot[s] \in SlotRow
        /\ "reply" \in Steps /\ LocalTypes
    BY <1>0, BusyTypes DEF Holding, Steps, CoverInv
  <1>5. IsFiniteSet(m.payments) /\ IsFiniteSet(m.notes) /\ IsFiniteSet(m.allocs)
    BY <1>0, <1>2, NewAllocsFacts DEF CoverInv, LocalTypes
  <1>6. pc'[s] = "reply" /\ req'[s] = req[s] /\ copy'[s] = copy[s] /\ mine'[s] = m
    BY <1>3, <1>2, <1>4, <1>5, LocalFacts
  <1>7. Fresh(s) \/ Replay(s)
    BY <1>0 DEF BooksInv
  <1>8. CASE Fresh(s)
    <2>1. PICK a \in AllocRow :
             /\ NewAllocs(s) = {a}
             /\ a.type = req[s].kind /\ a.src = req[s].key /\ a.amount = req[s].amount
      BY <1>0, <1>8, FreshAddsOne
    <2>2. KeyTaken(req[s])' <=> KeyTaken(req[s])
      BY <1>0 DEF KeyTaken, PaymentsWith, NotesWith, tables
    <2>3. Fresh(s)'
      BY <1>2, <1>6, <1>8, <2>1, <2>2 DEF Fresh, PaymentOf, NoteOf
    <2> QED
      BY <1>0, <1>2, <1>3, <1>4, <1>5, <2>3, BooksStep
  <1>9. CASE Replay(s)
    <2>1. NewAllocs(s) = {}
      BY <1>0, <1>9, ReplayAddsNothing
    <2>2. Replay(s)'
      BY <1>2, <1>6, <1>9, <2>1 DEF Replay
    <2> QED
      BY <1>0, <1>2, <1>3, <1>4, <1>5, <2>2, BooksStep
  <1> QED
    BY <1>7, <1>8, <1>9

-----------------------------------------------------------------------------
(* The sums of an invoice when one row is added.                           *)
RowsFor(i, S) == {row \in S : row.invoice = i}
NotesFor(i, S, external) == {n \in RowsFor(i, S) : n.external = external}

(* AmountsAreSums with these names.                                        *)
LEMMA AmountsAreSumsOf ==
    ASSUME notes \subseteq NoteRow
    PROVE  AmountsAreSums <=>
           \A i \in Invoices :
              /\ invoice[i].paid = AmountOf(RowsFor(i, payments))
              /\ invoice[i].credited = AmountOf(NotesFor(i, notes, FALSE))
              /\ invoice[i].refunded = AmountOf(NotesFor(i, notes, TRUE))
  <1>1. ASSUME NEW i \in Invoices
        PROVE  /\ {n \in {row \in notes : row.invoice = i} : ~n.external} =
                    NotesFor(i, notes, FALSE)
               /\ {n \in {row \in notes : row.invoice = i} : n.external} =
                    NotesFor(i, notes, TRUE)
    BY DEF NotesFor, RowsFor, NoteRow
  <1>2. \A i \in Invoices : {row \in payments : row.invoice = i} = RowsFor(i, payments)
    BY DEF RowsFor
  <1> QED
    BY <1>1, <1>2, Zenon DEF AmountsAreSums

(* Commit of a new row.                                                    *)
LEMMA CommitFresh ==
    ASSUME LockInv, CoverInv, BooksInv, NEW s \in Sessions, Commit(s), Fresh(s)
    PROVE  \E r \in Request, a \in AllocRow :
              /\ r = req[s] /\ a.invoice = r.invoice /\ a.type = r.kind /\ a.src = r.key
              /\ a.amount = r.amount
              /\ allocs' = allocs \cup {a} /\ a \notin allocs
              /\ \A b \in allocs : b.src = r.key => ~(IsPayment(b) <=> r.kind = "PAYMENT")
              /\ payments' = IF r.kind = "PAYMENT" THEN payments \cup {PaymentOf(r)} ELSE payments
              /\ notes' = IF r.kind = "PAYMENT" THEN notes ELSE notes \cup {NoteOf(r)}
              /\ events' = IF r.kind = "PAYMENT" THEN events \cup {r.key} ELSE events
              /\ ledger \cup {<<r.kind, r.key>>} \subseteq ledger'
              /\ ~KeyTaken(r)
              /\ invoice' = [invoice EXCEPT ![r.invoice] = Applied(r, invoice[r.invoice])]
  <1>1. PICK r \in Request : r = req[s]
    BY CommitFacts
  <1>2. pc[s] = "reply"
    BY CommitFacts
  <1>3. PICK a \in mine[s].allocs :
           /\ mine[s].allocs = {a}
           /\ a.type = r.kind /\ a.src = r.key /\ a.amount = r.amount
    BY <1>1, <1>2 DEF Fresh
  <1>4. a \in AllocRow /\ a.invoice = r.invoice
    BY <1>1, <1>3 DEF CoverInv, LocalTypes, Rows, SessionOK
  <1>5. ~KeyTaken(r)
    BY <1>1 DEF Fresh
  <1>6. \A b \in allocs : b.src = r.key => ~(IsPayment(b) <=> r.kind = "PAYMENT")
    <2> SUFFICES ASSUME NEW b \in allocs, b.src = r.key, IsPayment(b) <=> r.kind = "PAYMENT"
                 PROVE  FALSE
      OBVIOUS
    <2>1. PICK row \in IF IsPayment(b) THEN payments ELSE notes : row.key = r.key
      BY DEF BooksInv, AllocsMatchRows
    <2> QED
      BY <1>5, <2>1 DEF KeyTaken, PaymentsWith, NotesWith
  <1>7. a \notin allocs
    BY <1>3, <1>6 DEF IsPayment
  <1>8. allocs' = allocs \cup {a}
    BY <1>3, CommitFacts
  <1>9. /\ payments' = IF r.kind = "PAYMENT" THEN payments \cup {PaymentOf(r)} ELSE payments
        /\ notes' = IF r.kind = "PAYMENT" THEN notes ELSE notes \cup {NoteOf(r)}
        /\ events' = IF r.kind = "PAYMENT" THEN events \cup {r.key} ELSE events
    BY <1>1, CommitFacts, ZenonT(40) DEF Fresh
  <1>10. ledger \cup {<<r.kind, r.key>>} \subseteq ledger'
    BY <1>1, <1>2, CommitFacts DEF Fresh
  <1>11. invoice' = [invoice EXCEPT ![r.invoice] = Applied(r, invoice[r.invoice])]
    BY <1>1, CommitWrites DEF Faithful, Fresh
  <1> QED
    BY <1>1, <1>3, <1>4, <1>5, <1>6, <1>7, <1>8, <1>9, <1>10, <1>11

(* Commit of a replay: only the ledger may have another posting.           *)
LEMMA CommitReplay ==
    ASSUME LockInv, CoverInv, NEW s \in Sessions, Commit(s), Replay(s)
    PROVE  UNCHANGED <<payments, notes, allocs, events, invoice>> /\ ledger \subseteq ledger'
  <1>1. UNCHANGED <<payments, notes, allocs, events>> /\ ledger \subseteq ledger'
    BY CommitFacts DEF Replay
  <1>2. invoice' = invoice
    BY CommitWrites DEF Faithful, Replay, LockInv, SessionTypes
  <1> QED
    BY <1>1, <1>2

(* The tables still match one to one with the fresh row and its            *)
(* allocation.                                                             *)
LEMMA FreshTables ==
    ASSUME LockInv, CoverInv, BooksInv, NEW s \in Sessions, Commit(s), Fresh(s)
    PROVE  AllocsMatchRows' /\ RowsAreBooked'
  <1>1. PICK r \in Request, a \in AllocRow :
              /\ r = req[s] /\ a.invoice = r.invoice /\ a.type = r.kind /\ a.src = r.key
              /\ a.amount = r.amount
              /\ allocs' = allocs \cup {a} /\ a \notin allocs
              /\ \A b \in allocs : b.src = r.key => ~(IsPayment(b) <=> r.kind = "PAYMENT")
              /\ payments' = IF r.kind = "PAYMENT" THEN payments \cup {PaymentOf(r)} ELSE payments
              /\ notes' = IF r.kind = "PAYMENT" THEN notes ELSE notes \cup {NoteOf(r)}
              /\ events' = IF r.kind = "PAYMENT" THEN events \cup {r.key} ELSE events
              /\ ledger \cup {<<r.kind, r.key>>} \subseteq ledger'
              /\ ~KeyTaken(r)
    BY CommitFresh
  <1>2. AllocsMatchRows /\ RowsAreBooked
    BY DEF BooksInv
  <1>3. payments \subseteq payments' /\ notes \subseteq notes'
    BY <1>1
  <1>4. ASSUME NEW b \in allocs'
        PROVE  /\ b.src \in Keys
               /\ \E row \in IF IsPayment(b) THEN payments' ELSE notes' :
                     row.key = b.src /\ row.invoice = b.invoice /\ row.amount = b.amount
    <2>1. CASE b \in allocs
      BY <1>2, <1>3, <2>1 DEF AllocsMatchRows
    <2>2. CASE b = a
      <3>1. /\ PaymentOf(r).key = r.key /\ PaymentOf(r).invoice = r.invoice
            /\ PaymentOf(r).amount = r.amount
            /\ NoteOf(r).key = r.key /\ NoteOf(r).invoice = r.invoice
            /\ NoteOf(r).amount = r.amount
        BY DEF PaymentOf, NoteOf
      <3>2. (IsPayment(b) <=> r.kind = "PAYMENT") /\ b.src = r.key /\ b.src \in Keys
        BY <1>1, <2>2 DEF IsPayment, Request
      <3>3. CASE r.kind = "PAYMENT"
        BY <1>1, <2>2, <3>1, <3>2, <3>3
      <3>4. CASE r.kind # "PAYMENT"
        BY <1>1, <2>2, <3>1, <3>2, <3>4
      <3> QED
        BY <3>3, <3>4
    <2> QED
      BY <1>1, <2>1, <2>2
  <1>5. ASSUME NEW b \in allocs', NEW c \in allocs', b.src = c.src,
               IsPayment(b) <=> IsPayment(c)
        PROVE  b = c
    <2>1. IsPayment(a) <=> r.kind = "PAYMENT"
      BY <1>1 DEF IsPayment
    <2>2. CASE b \in allocs /\ c \in allocs
      BY <1>2, <1>5, <2>2 DEF AllocsMatchRows
    <2>3. CASE b = a /\ c \in allocs
      BY <1>1, <1>5, <2>1, <2>3
    <2>4. CASE b \in allocs /\ c = a
      BY <1>1, <1>5, <2>1, <2>4
    <2> QED
      BY <1>1, <2>2, <2>3, <2>4
  <1>6. AllocsMatchRows'
    BY <1>4, <1>5 DEF AllocsMatchRows, IsPayment
  <1>7. ASSUME NEW p \in payments', NEW q \in payments', p.key = q.key
        PROVE  p = q
    <2>1. r.kind = "PAYMENT" => \A x \in payments : x.key # r.key
      BY <1>1 DEF KeyTaken, PaymentsWith
    <2>2. PaymentOf(r).key = r.key
      BY DEF PaymentOf
    <2>3. \A x, y \in payments : x.key = y.key => x = y
      BY <1>2 DEF RowsAreBooked
    <2> QED
      BY <1>1, <1>7, <2>1, <2>2, <2>3
  <1>8. ASSUME NEW p \in payments'
        PROVE  p.key \in events' /\ <<"PAYMENT", p.key>> \in ledger'
    <2>1. CASE p \in payments
      BY <1>1, <1>2, <2>1 DEF RowsAreBooked
    <2>2. CASE p = PaymentOf(r) /\ r.kind = "PAYMENT"
      BY <1>1, <2>2 DEF PaymentOf
    <2> QED
      BY <1>1, <2>1, <2>2
  <1>9. ASSUME NEW n \in notes'
        PROVE  <<IF n.external THEN "REFUND" ELSE "CREDIT_NOTE", n.key>> \in ledger'
    <2>1. CASE n \in notes
      BY <1>1, <1>2, <2>1 DEF RowsAreBooked
    <2>2. CASE n = NoteOf(r) /\ r.kind # "PAYMENT"
      BY <1>1, <2>2 DEF NoteOf, Request, Kinds
    <2> QED
      BY <1>1, <2>1, <2>2
  <1>10. RowsAreBooked'
    BY <1>7, <1>8, <1>9 DEF RowsAreBooked
  <1> QED
    BY <1>6, <1>10

(* The amounts of an invoice and the sums of its rows grow together.       *)
LEMMA FreshSums ==
    ASSUME LockInv, CoverInv, BooksInv, NEW s \in Sessions, Commit(s), Fresh(s),
           CoverInv'
    PROVE  AmountsAreSums'
  <1>1. PICK r \in Request, a \in AllocRow :
              /\ payments' = IF r.kind = "PAYMENT" THEN payments \cup {PaymentOf(r)} ELSE payments
              /\ notes' = IF r.kind = "PAYMENT" THEN notes ELSE notes \cup {NoteOf(r)}
              /\ ~KeyTaken(r)
              /\ invoice' = [invoice EXCEPT ![r.invoice] = Applied(r, invoice[r.invoice])]
    BY CommitFresh
  <1>2. /\ notes \subseteq NoteRow /\ payments \subseteq PaymentRow
        /\ notes' \subseteq NoteRow /\ payments' \subseteq PaymentRow
        /\ IsFiniteSet(notes) /\ IsFiniteSet(payments)
    BY DEF CoverInv, TableTypes
  <1>3. invoice \in [Invoices -> Invoice] /\ r.invoice \in Invoices /\ r.kind \in Kinds
    BY DEF LockInv, SessionTypes, Request
  <1>4. \A i \in Invoices :
              /\ invoice[i].paid = AmountOf(RowsFor(i, payments))
              /\ invoice[i].credited = AmountOf(NotesFor(i, notes, FALSE))
              /\ invoice[i].refunded = AmountOf(NotesFor(i, notes, TRUE))
    BY <1>2, AmountsAreSumsOf DEF BooksInv
  <1>5. \A x \in PaymentRow \cup NoteRow : x.amount \in Int
    BY AmountFacts DEF PaymentRow, NoteRow
  <1>6. ASSUME NEW i \in Invoices
        PROVE  /\ invoice'[i].paid = AmountOf(RowsFor(i, payments'))
               /\ invoice'[i].credited = AmountOf(NotesFor(i, notes', FALSE))
               /\ invoice'[i].refunded = AmountOf(NotesFor(i, notes', TRUE))
    <2>1. CASE i # r.invoice
      <3>1. invoice'[i] = invoice[i]
        BY <1>1, <1>3, <2>1
      <3>2. /\ RowsFor(i, payments') = RowsFor(i, payments)
            /\ NotesFor(i, notes', FALSE) = NotesFor(i, notes, FALSE)
            /\ NotesFor(i, notes', TRUE) = NotesFor(i, notes, TRUE)
        BY <1>1, <2>1 DEF RowsFor, NotesFor, PaymentOf, NoteOf
      <3> QED
        BY <1>4, <3>1, <3>2
    <2>2. CASE i = r.invoice
      <3>1. PICK v \in Invoice : v = invoice[i]
        BY <1>3
      <3>2. PICK w : w = Applied(r, v)
        OBVIOUS
      <3>3. invoice'[i] = w
        BY <1>1, <1>3, <2>2, <3>1, <3>2
      <3>4. /\ w.paid = IF r.kind = "PAYMENT" THEN v.paid + r.amount ELSE v.paid
            /\ w.credited = IF r.kind = "CREDIT_NOTE" THEN v.credited + r.amount ELSE v.credited
            /\ w.refunded = IF r.kind = "REFUND" THEN v.refunded + r.amount ELSE v.refunded
        BY <3>2, AppliedAmounts
      <3>5. CASE r.kind = "PAYMENT"
        <4>1. notes' = notes /\ payments' = payments \cup {PaymentOf(r)}
          BY <1>1, <3>5
        <4>2. PaymentOf(r).invoice = i /\ PaymentOf(r).amount = r.amount
              /\ PaymentOf(r).key = r.key
          BY <2>2 DEF PaymentOf
        <4>3. RowsFor(i, payments') = RowsFor(i, payments) \cup {PaymentOf(r)}
          BY <4>1, <4>2 DEF RowsFor
        <4>4. PaymentOf(r) \notin RowsFor(i, payments)
          BY <1>1, <3>5, <4>2 DEF RowsFor, KeyTaken, PaymentsWith
        <4>5. \A x \in RowsFor(i, payments) \cup {PaymentOf(r)} : x.amount \in Int
          BY <1>2, <1>5, <4>1 DEF RowsFor
        <4>6. IsFiniteSet(RowsFor(i, payments))
          BY <1>2, FS_Subset DEF RowsFor
        <4>7. AmountOf(RowsFor(i, payments')) = AmountOf(RowsFor(i, payments)) + r.amount
          BY <4>2, <4>3, <4>4, <4>5, <4>6, AmountOfAdd
        <4> QED
          BY <1>4, <3>1, <3>3, <3>4, <3>5, <4>1, <4>7
      <3>6. CASE r.kind # "PAYMENT"
        <4>0. PICK e \in BOOLEAN : e = (r.kind = "REFUND")
          OBVIOUS
        <4>1. payments' = payments /\ notes' = notes \cup {NoteOf(r)}
          BY <1>1, <3>6
        <4>2. NoteOf(r).invoice = i /\ NoteOf(r).amount = r.amount
              /\ NoteOf(r).key = r.key /\ NoteOf(r).external = e
          BY <2>2, <4>0 DEF NoteOf
        <4>3. /\ NotesFor(i, notes', e) = NotesFor(i, notes, e) \cup {NoteOf(r)}
              /\ \A f \in BOOLEAN \ {e} : NotesFor(i, notes', f) = NotesFor(i, notes, f)
          BY <4>1, <4>2 DEF RowsFor, NotesFor
        <4>4. NoteOf(r) \notin NotesFor(i, notes, e)
          BY <1>1, <3>6, <4>2 DEF RowsFor, NotesFor, KeyTaken, NotesWith
        <4>5. \A x \in NotesFor(i, notes, e) \cup {NoteOf(r)} : x.amount \in Int
          BY <1>2, <1>5, <4>1 DEF RowsFor, NotesFor
        <4>6. IsFiniteSet(NotesFor(i, notes, e))
          BY <1>2, FS_Subset DEF RowsFor, NotesFor
        <4>7. AmountOf(NotesFor(i, notes', e)) = AmountOf(NotesFor(i, notes, e)) + r.amount
          BY <4>2, <4>3, <4>4, <4>5, <4>6, AmountOfAdd
        <4>8. invoice'[i].paid = AmountOf(RowsFor(i, payments'))
          BY <1>4, <3>1, <3>3, <3>4, <3>6, <4>1
        <4>9. CASE r.kind = "REFUND"
          <5>1. e = TRUE /\ FALSE \in BOOLEAN \ {e}
            BY <4>0, <4>9
          <5>2. NotesFor(i, notes', FALSE) = NotesFor(i, notes, FALSE)
            BY <4>3, <5>1
          <5>3. w.refunded = v.refunded + r.amount /\ w.credited = v.credited
            BY <3>4, <4>9
          <5> QED
            BY <1>4, <3>1, <3>3, <4>7, <4>8, <5>1, <5>2, <5>3
        <4>10. CASE r.kind # "REFUND"
          <5>1. e = FALSE /\ TRUE \in BOOLEAN \ {e} /\ r.kind = "CREDIT_NOTE"
            BY <1>3, <3>6, <4>0, <4>10 DEF Kinds
          <5>2. NotesFor(i, notes', TRUE) = NotesFor(i, notes, TRUE)
            BY <4>3, <5>1
          <5>3. w.refunded = v.refunded /\ w.credited = v.credited + r.amount
            BY <3>4, <5>1
          <5> QED
            BY <1>4, <3>1, <3>3, <4>7, <4>8, <5>1, <5>2, <5>3
        <4> QED
          BY <4>9, <4>10
      <3> QED
        BY <3>5, <3>6
    <2> QED
      BY <2>1, <2>2
  <1>7. AmountsAreSums' <=>
           \A i \in Invoices :
              /\ invoice'[i].paid = AmountOf(RowsFor(i, payments'))
              /\ invoice'[i].credited = AmountOf(NotesFor(i, notes', FALSE))
              /\ invoice'[i].refunded = AmountOf(NotesFor(i, notes', TRUE))
    <2>1. ASSUME NEW i \in Invoices
          PROVE  /\ {n \in {row \in notes' : row.invoice = i} : ~n.external} =
                      NotesFor(i, notes', FALSE)
                 /\ {n \in {row \in notes' : row.invoice = i} : n.external} =
                      NotesFor(i, notes', TRUE)
      BY <1>2 DEF NotesFor, RowsFor, NoteRow
    <2>2. \A i \in Invoices : {row \in payments' : row.invoice = i} = RowsFor(i, payments')
      BY DEF RowsFor
    <2> QED
      BY <2>1, <2>2, Zenon DEF AmountsAreSums
  <1> QED
    BY <1>6, <1>7

(* So do its coverage and its allocations.                                 *)
LEMMA FreshNet ==
    ASSUME LockInv, CoverInv, BooksInv, NEW s \in Sessions, Commit(s), Fresh(s)
    PROVE  AllocationsMatchCoverage'
  <1>1. PICK r \in Request, a \in AllocRow :
              /\ a.invoice = r.invoice /\ a.type = r.kind /\ a.amount = r.amount
              /\ allocs' = allocs \cup {a} /\ a \notin allocs
              /\ invoice' = [invoice EXCEPT ![r.invoice] = Applied(r, invoice[r.invoice])]
    BY CommitFresh
  <1>2. invoice \in [Invoices -> Invoice] /\ r.invoice \in Invoices
    BY DEF LockInv, SessionTypes, Request
  <1>3. allocs \subseteq AllocRow /\ IsFiniteSet(allocs)
    BY DEF CoverInv, TableTypes
  <1>4. ASSUME NEW i \in Invoices
        PROVE  AllocNet(AllocsOf(i, allocs')) = NetCoverage(invoice'[i])
    <2>0. AllocNet(AllocsOf(i, allocs)) = NetCoverage(invoice[i])
      BY DEF BooksInv, AllocationsMatchCoverage
    <2>1. CASE i # r.invoice
      <3>1. invoice'[i] = invoice[i] /\ AllocsOf(i, allocs') = AllocsOf(i, allocs)
        BY <1>1, <1>2, <2>1 DEF AllocsOf
      <3> QED
        BY <2>0, <3>1
    <2>2. CASE i = r.invoice
      <3>1. AllocsOf(i, allocs') = AllocsOf(i, allocs) \cup {a} /\ a \notin AllocsOf(i, allocs)
        BY <1>1, <2>2 DEF AllocsOf
      <3>2. IsFiniteSet(AllocsOf(i, allocs))
        BY <1>3, FS_Subset DEF AllocsOf
      <3>3. \A x \in AllocsOf(i, allocs) \cup {a} : x.amount \in Int
        BY <1>3 DEF AllocsOf, AllocRow
      <3>4. AllocNet(AllocsOf(i, allocs')) = AllocNet(AllocsOf(i, allocs)) + Signed(a)
        BY <3>1, <3>2, <3>3, AllocNetAdd
      <3>5. PICK v \in Invoice : v = invoice[i]
        BY <1>2
      <3>6. invoice'[i] = Applied(r, v)
        BY <1>1, <1>2, <2>2, <3>5
      <3>7. NetCoverage(Applied(r, v)) = NetCoverage(v) +
               (IF r.kind = "PAYMENT" THEN r.amount ELSE -r.amount)
        BY AppliedAmounts
      <3>8. Signed(a) = IF r.kind = "PAYMENT" THEN r.amount ELSE -r.amount
        BY <1>1 DEF Signed
      <3> QED
        BY <2>0, <3>4, <3>5, <3>6, <3>7, <3>8
    <2> QED
      BY <2>1, <2>2
  <1>5. \A i \in Invoices : AllocsOf(i, allocs)' = AllocsOf(i, allocs')
    BY DEF AllocsOf
  <1> QED
    BY <1>4 DEF AllocationsMatchCoverage, AllocsOf

(* The commit of a fresh row adds it to the sums; that of a replay changes *)
(* nothing.                                                                *)
LEMMA CommitBooks ==
    ASSUME LockInv, CoverInv, BooksInv, NEW s \in Sessions, Commit(s), CoverInv'
    PROVE  BooksInv'
  <1>1. Fresh(s) \/ Replay(s)
    BY CommitFacts DEF BooksInv
  <1>2. /\ "idle" \in Steps \ Holding /\ LocalTypes
    BY DEF Steps, Holding, CoverInv
  <1>3. pc'[s] = "idle" /\ mine'[s] = NoRows
    BY <1>2, CommitFacts, NoRowsType, LocalFacts
  <1>4. \A t \in Sessions \ {s} : /\ pc'[t] = pc[t] /\ req'[t] = req[t]
                                  /\ copy'[t] = copy[t] /\ mine'[t] = mine[t]
    BY CommitFacts
  <1>5. AllocsMatchRows' /\ RowsAreBooked' /\ AmountsAreSums' /\ AllocationsMatchCoverage'
    <2>1. CASE Fresh(s)
      BY <2>1, FreshTables, FreshSums, FreshNet
    <2>2. CASE Replay(s)
      <3>1. UNCHANGED <<payments, notes, allocs, events, invoice>> /\ ledger \subseteq ledger'
        BY <2>2, CommitReplay
      <3>2. AllocsMatchRows' /\ RowsAreBooked'
        BY <3>1 DEF BooksInv, AllocsMatchRows, RowsAreBooked, IsPayment
      <3>3. AmountsAreSums'
        <4>1. AmountsAreSums /\ UNCHANGED <<invoice, payments, notes>>
          BY <3>1 DEF BooksInv
        <4> QED
          BY <4>1 DEF AmountsAreSums
      <3>4. AllocationsMatchCoverage'
        <4>1. AllocationsMatchCoverage /\ UNCHANGED <<invoice, allocs>>
          BY <3>1 DEF BooksInv
        <4> QED
          BY <4>1 DEF AllocationsMatchCoverage, AllocsOf
      <3> QED
        BY <3>2, <3>3, <3>4
    <2> QED
      BY <1>1, <2>1, <2>2
  <1>6. ASSUME NEW t \in Sessions, pc'[t] \in Late
        PROVE  Fresh(t)' \/ Replay(t)'
    <2>1. t # s /\ pc[t] \in Late
      BY <1>3, <1>4, <1>6 DEF Late
    <2>2. Fresh(t) \/ Replay(t)
      BY <2>1 DEF BooksInv, Late
    <2>3. Fresh(t) => ~KeyTaken(req[t])'
      <3> SUFFICES ASSUME Fresh(t) PROVE ~KeyTaken(req[t])'
        OBVIOUS
      <3>1. Pending(s, t) /\ ~KeyTaken(req[t]) /\ req'[t] = req[t]
        BY <1>4, <2>1 DEF BooksInv, Fresh
      <3>2. payments' = payments \cup mine[s].payments /\ notes' = notes \cup mine[s].notes
        BY CommitFacts
      <3>3. CASE req[t].kind = "PAYMENT"
        <4>1. PaymentOf(req[t]) \in mine[t].payments /\ PaymentOf(req[t]).key = req[t].key
          BY <3>3 DEF Fresh, PaymentOf
        <4>2. \A p \in mine[s].payments : p.key # req[t].key
          BY <3>1, <4>1 DEF Pending
        <4> QED
          BY <3>1, <3>2, <3>3, <4>2 DEF KeyTaken, PaymentsWith, NotesWith
      <3>4. CASE req[t].kind # "PAYMENT"
        <4>1. NoteOf(req[t]) \in mine[t].notes /\ NoteOf(req[t]).key = req[t].key
          BY <3>4 DEF Fresh, NoteOf
        <4>2. \A n \in mine[s].notes : n.key # req[t].key
          BY <3>1, <4>1 DEF Pending
        <4> QED
          BY <3>1, <3>2, <3>4, <4>2 DEF KeyTaken, PaymentsWith, NotesWith
      <3> QED
        BY <3>3, <3>4
    <2> QED
      BY <1>4, <2>1, <2>2, <2>3 DEF Fresh, Replay, PaymentOf, NoteOf
  <1>7. ASSUME NEW t \in Sessions, NEW u \in Sessions, t # u
        PROVE  Pending(t, u)'
    <2>1. CASE t = s \/ u = s
      BY <1>3, <2>1 DEF Pending, NoRows
    <2>2. CASE t # s /\ u # s
      BY <1>4, <1>7, <2>2 DEF BooksInv, Pending
    <2> QED
      BY <2>1, <2>2
  <1> QED
    BY <1>5, <1>6, <1>7 DEF BooksInv, Late

(* The other writers move no money: the amounts of a manual transition are *)
(* 0 and there is no SLA credit note.                                      *)
LEMMA EnvironmentBooks ==
    ASSUME LockInv, CoverInv, BooksInv, AdminAmounts = {0}, SlaKeys = {},
           Environment \/ UNCHANGED vars
    PROVE  BooksInv'
  <1>1. UNCHANGED <<payments, notes, allocs, events, ledger, Locals>>
    <2>1. CASE UNCHANGED vars
      BY <2>1 DEF vars, Locals
    <2>2. CASE Environment
      BY <2>2 DEF Environment, AdminTransition, QueuePdf, GeneratePdf, SlaCreditNote,
                  FinalizePeriod, LockPeriod, CloseChargePeriod
    <2> QED
      BY <2>1, <2>2
  <1>2. UNCHANGED <<pc, req, copy, mine>>
    BY <1>1 DEF Locals
  <1>3. ASSUME NEW i \in Invoices
        PROVE  /\ invoice'[i].paid = invoice[i].paid
               /\ invoice'[i].credited = invoice[i].credited
               /\ invoice'[i].refunded = invoice[i].refunded
    <2>0. invoice[i] \in Invoice
      BY DEF LockInv, SessionTypes
    <2>1. \/ invoice'[i] = invoice[i]
          \/ ByAdmin(invoice[i], invoice'[i]) \/ ByPdf(invoice[i], invoice'[i])
      BY EnvironmentWrites DEF vars
    <2>2. CASE ByAdmin(invoice[i], invoice'[i])
      <3>1. PICK to \in Status : invoice'[i] = Transition(invoice[i], to, 0, 0, 0)
        BY <2>2 DEF ByAdmin
      <3>2. /\ invoice'[i].paid = invoice[i].paid + 0
            /\ invoice'[i].credited = invoice[i].credited + 0
            /\ invoice'[i].refunded = invoice[i].refunded + 0
        BY <2>0, <3>1, TransitionFields
      <3> QED
        BY <2>0, <3>2 DEF Invoice
    <2>3. CASE ByPdf(invoice[i], invoice'[i])
      BY <2>0, <2>3 DEF ByPdf, Invoice
    <2> QED
      BY <2>1, <2>2, <2>3
  <1>4. AllocsMatchRows' /\ RowsAreBooked'
    BY <1>1 DEF BooksInv, AllocsMatchRows, RowsAreBooked, IsPayment
  <1>5. AmountsAreSums'
    <2>1. AmountsAreSums /\ UNCHANGED <<payments, notes>>
      BY <1>1 DEF BooksInv
    <2> QED
      BY <1>3, <2>1 DEF AmountsAreSums
  <1>6. AllocationsMatchCoverage'
    <2>1. \A i \in Invoices : NetCoverage(invoice'[i]) = NetCoverage(invoice[i])
      BY <1>3 DEF NetCoverage
    <2>2. AllocationsMatchCoverage /\ UNCHANGED allocs
      BY <1>1 DEF BooksInv
    <2> QED
      BY <2>1, <2>2 DEF AllocationsMatchCoverage, AllocsOf
  <1>7. ASSUME NEW t \in Sessions, pc'[t] \in Late
        PROVE  Fresh(t)' \/ Replay(t)'
    <2>1. Fresh(t) \/ Replay(t)
      BY <1>2, <1>7 DEF BooksInv, Late
    <2>2. KeyTaken(req[t])' <=> KeyTaken(req[t])
      BY <1>1, <1>2 DEF KeyTaken, PaymentsWith, NotesWith
    <2> QED
      BY <1>2, <2>1, <2>2 DEF Fresh, Replay, PaymentOf, NoteOf
  <1>8. \A t, u \in Sessions : t # u => Pending(t, u)'
    BY <1>2 DEF BooksInv, Pending
  <1> QED
    BY <1>4, <1>5, <1>6, <1>7, <1>8 DEF BooksInv, Late

(* BooksInv holds initially, ...                                           *)
LEMMA BooksInit == Init => BooksInv
  <1> SUFFICES ASSUME Init PROVE BooksInv
    OBVIOUS
  <1>1. AllocsMatchRows /\ RowsAreBooked
    BY DEF Init, AllocsMatchRows, RowsAreBooked
  <1>2. AmountsAreSums
    <2>1. ASSUME NEW i \in Invoices
          PROVE  /\ {row \in payments : row.invoice = i} = {}
                 /\ {n \in {row \in notes : row.invoice = i} : ~n.external} = {}
                 /\ {n \in {row \in notes : row.invoice = i} : n.external} = {}
                 /\ invoice[i].paid = 0 /\ invoice[i].credited = 0 /\ invoice[i].refunded = 0
      BY DEF Init, NewInvoice
    <2> QED
      BY <2>1, SumsOfNothing DEF AmountsAreSums
  <1>3. AllocationsMatchCoverage
    <2>1. ASSUME NEW i \in Invoices
          PROVE  AllocsOf(i, allocs) = {} /\ NetCoverage(invoice[i]) = 0
      BY DEF Init, NewInvoice, AllocsOf, NetCoverage
    <2> QED
      BY <2>1, SumsOfNothing DEF AllocationsMatchCoverage
  <1>4. /\ \A s \in Sessions : pc[s] = "idle"
        /\ \A s, t \in Sessions : Pending(s, t)
    BY DEF Init, Pending, NoRows
  <1> QED
    BY <1>1, <1>2, <1>3, <1>4 DEF BooksInv

(* ... every step preserves it when manual transitions carry no amounts    *)
(* and there are no SLA penalties, ...                                     *)
LEMMA BooksNext ==
    ASSUME AdminAmounts = {0}, SlaKeys = {}, LockInv, CoverInv, BooksInv, [Next]_vars
    PROVE  BooksInv'
  <1>0. CoverInv'
    BY CoverInvNext
  <1>1. CASE UNCHANGED vars
    BY <1>1, EnvironmentBooks
  <1>2. ASSUME NEW s \in Sessions, NEW r \in Request, Start(s, r)
        PROVE  BooksInv'
    BY <1>2, StartBooks, EnvironmentBooks
  <1>3. ASSUME NEW s \in Sessions, Step(s)
        PROVE  BooksInv'
    BY <1>0, <1>3, AbortBooks, LockBooks, InsertBooks, AllocateBooks, AlreadyBooks, CommitBooks
    DEF Step, ResolveConflict, LockRefused, InsertRefused, AllocateRefused, RespondAndClose
  <1>4. ASSUME NEW s \in Sessions, Fail(s)
        PROVE  BooksInv'
    BY <1>4, AbortBooks DEF Fail
  <1>5. CASE Environment
    BY <1>5, EnvironmentBooks
  <1> QED
    BY <1>1, <1>2, <1>3, <1>4, <1>5 DEF Next

(* ... and so it always holds.                                             *)
LEMMA BooksInvariant ==
    ASSUME Preloads = {FALSE}, AdminAmounts = {0}, SlaKeys = {}
    PROVE  Spec => [](LockInv /\ CoverInv /\ BooksInv)
  <1>1. Init => BooksInv
    BY BooksInit
  <1>2. LockInv /\ CoverInv /\ BooksInv /\ [Next]_vars => BooksInv'
    BY BooksNext
  <1> QED
    BY <1>1, <1>2, CoverInvariant, PTL DEF Spec

(* alloc_net == paid_total - refund_total - credited_total for any number  *)
(* of sessions, invoices, keys and amounts, whatever is retried, refused,  *)
(* rolled back or lost, provided that nobody has loaded the invoice before *)
(* _lock_invoice and that only the finance service moves money.            *)
THEOREM AllocationsAlwaysMatch ==
    ASSUME Preloads = {FALSE}, AdminAmounts = {0}, SlaKeys = {}
    PROVE  Spec => []AllocationsMatchCoverage
  <1>1. BooksInv => AllocationsMatchCoverage
    BY DEF BooksInv
  <1> QED
    BY <1>1, BooksInvariant, PTL

(* Under the same condition a key pays once, and rows, amounts, postings,  *)
(* events and allocations tell the same story: every row is posted and     *)
(* allocated exactly once, for its own invoice and with its own amount.    *)
THEOREM BooksAlwaysAgree ==
    ASSUME Preloads = {FALSE}, AdminAmounts = {0}, SlaKeys = {}
    PROVE  Spec => []BooksAgree
  <1>1. LockInv /\ CoverInv /\ BooksInv => BooksAgree
    <2> SUFFICES ASSUME LockInv, CoverInv, BooksInv PROVE BooksAgree
      OBVIOUS
    <2>1. TypeOK
      BY DEF CoverInv, LocalTypes, TableTypes, PaymentRow, NoteRow, SlotRow, NoSlot, TypeOK,
             LockInv, SessionTypes
    <2>2. /\ \A p \in payments : /\ PaymentsWith(p.key) = {p}
                                 /\ p.key \in events
                                 /\ <<"PAYMENT", p.key>> \in ledger
          /\ \A n \in notes : n.key \notin SlaKeys =>
                <<IF n.external THEN "REFUND" ELSE "CREDIT_NOTE", n.key>> \in ledger
      BY DEF BooksInv, RowsAreBooked, PaymentsWith
    <2>3. ASSUME NEW row \in payments \cup {n \in notes : n.key \notin SlaKeys}
          PROVE  Cardinality({a \in allocs : /\ a.src = row.key
                                             /\ (a.type = "PAYMENT") = (row \in payments)}) = 1
      <3> DEFINE A == {a \in allocs : /\ a.src = row.key
                                      /\ (a.type = "PAYMENT") = (row \in payments)}
      <3>1. \A p \in payments : p \notin notes
        <4>1. \A p \in PaymentRow : p \notin NoteRow
          BY DEF PaymentRow, NoteRow
        <4> QED
          BY <4>1 DEF CoverInv, TableTypes
      <3>2. PICK a \in allocs : a.src = row.key /\ ((a.type = "PAYMENT") = (row \in payments))
        <4>1. CASE row \in payments
          BY <4>1 DEF CoverInv, TablesOK, Covered, AllocsOf
        <4>2. CASE row \notin payments
          <5>1. PICK a \in AllocsOf(row.invoice, allocs) : a.type \in NoteTypes /\ a.src = row.key
            BY <4>2 DEF CoverInv, TablesOK, Covered
          <5>2. a \in allocs /\ a.type # "PAYMENT"
            BY <5>1 DEF AllocsOf, NoteTypes
          <5> QED
            BY <4>2, <5>1, <5>2
        <4> QED
          BY <4>1, <4>2
      <3>3. \A b \in A : b = a
        BY <3>2 DEF BooksInv, AllocsMatchRows, IsPayment
      <3>4. A = {a}
        BY <3>2, <3>3
      <3> QED
        BY <3>4, FS_Singleton
    <2>4. \A a \in allocs : a.src \in Keys =>
             \E row \in IF a.type = "PAYMENT" THEN payments ELSE notes :
                row.key = a.src /\ row.invoice = a.invoice /\ row.amount = a.amount
      BY DEF BooksInv, AllocsMatchRows, IsPayment
    <2>5. AmountsAreSums /\ AllocationsMatchCoverage
      BY DEF BooksInv
    <2> QED
      BY <2>1, <2>2, <2>3, <2>4, <2>5 DEF BooksAgree
  <1> QED
    BY <1>1, BooksInvariant, PTL

-----------------------------------------------------------------------------
(* Adjustments and their numbers.                                          *)

(* No key of a request is the number of an adjustment.                     *)
KeysAreNoNumbers == Numbers \cap (Keys \cup SlaKeys) = {}

(* Allocations of payments and notes leave the numbers valid, ...          *)
LEMMA NumberedWithRows ==
    ASSUME NEW S, NEW T, IsFiniteSet(S \cup T), Numbered(S), S \subseteq AllocRow,
           \A a \in T : a.src \in Keys \cup SlaKeys
    PROVE  Numbered(S \cup T)
  <1>1. IsFiniteSet(S) /\ Cardinality(S) <= Cardinality(S \cup T)
    BY FS_Subset
  <1>2. Cardinality(S) \in Nat /\ Cardinality(S \cup T) \in Nat
    BY <1>1, FS_CardinalityType
  <1>3. ASSUME NEW a \in S, a.src \notin Keys \cup SlaKeys
        PROVE  a.src[2] < Cardinality(S \cup T)
    <2>1. a.src[2] \in Nat /\ a.src[2] < Cardinality(S)
      BY <1>3 DEF Numbered, AllocRow, Numbers
    <2> QED
      BY <1>1, <1>2, <2>1
  <1> QED
    BY <1>3 DEF Numbered

(* ... and so does the next adjustment, whose number is new.               *)
LEMMA NumberedWithNext ==
    ASSUME KeysAreNoNumbers, NEW S, IsFiniteSet(S), Numbered(S), S \subseteq AllocRow,
           NEW a, a.src = <<"adjustment", Cardinality(S)>>
    PROVE  a \notin S /\ Numbered(S \cup {a})
  <1>1. Cardinality(S) \in Nat
    BY FS_CardinalityType
  <1>2. a.src \notin Keys \cup SlaKeys /\ a.src[2] = Cardinality(S)
    BY <1>1 DEF KeysAreNoNumbers, Numbers
  <1>3. a \notin S
    BY <1>1, <1>2 DEF Numbered
  <1>4. Cardinality(S \cup {a}) = Cardinality(S) + 1
    BY <1>3, FS_AddElement
  <1>5. ASSUME NEW b \in S, b.src \notin Keys \cup SlaKeys
        PROVE  b.src[2] < Cardinality(S \cup {a})
    <2>1. b.src[2] \in Nat /\ b.src[2] < Cardinality(S)
      BY <1>5 DEF Numbered, AllocRow, Numbers
    <2> QED
      BY <1>1, <1>4, <2>1
  <1>6. a.src[2] < Cardinality(S \cup {a})
    BY <1>1, <1>2, <1>4
  <1> QED
    BY <1>3, <1>5, <1>6 DEF Numbered

(* The numbers are valid for what s sees before the adjustment.            *)
LEMMA NumberedBefore ==
    ASSUME LockInv, CoverInv, NumberInv, NEW s \in Sessions, pc[s] = "allocate"
    PROVE  Numbered(Before(s))
  <1>1. Seen(s) = AllocsOf(req[s].invoice, allocs) /\ req[s].invoice \in Invoices
    BY BusyTypes DEF CoverInv, SessionOK, Seen, Request
  <1>2. Numbered(Seen(s))
    BY <1>1 DEF NumberInv
  <1>3. \A a \in Own(s) \cup Backfill(s) : a.src \in Keys \cup SlaKeys
    <2>1. req[s].key \in Keys
      BY BusyTypes DEF Request
    <2> QED
      BY <2>1, OwnFacts, BackfillFacts
  <1>4. Before(s) = Seen(s) \cup (Own(s) \cup Backfill(s))
    BY DEF Before
  <1>5. IsFiniteSet(Seen(s) \cup (Own(s) \cup Backfill(s))) /\ Seen(s) \subseteq AllocRow
    BY <1>4, BeforeFacts, SeenFacts
  <1> QED
    BY <1>2, <1>3, <1>4, <1>5, NumberedWithRows

(* The adjustment is one more allocation, and it closes the gap.           *)
LEMMA AdjustmentIsNew ==
    ASSUME KeysAreNoNumbers, LockInv, CoverInv, NumberInv, NEW s \in Sessions,
           pc[s] = "allocate"
    PROVE  /\ Numbered(Before(s) \cup Adjusted(s))
           /\ Adjusted(s) # {} =>
                 /\ Cardinality(Adjusted(s)) = 1
                 /\ AllocNet(Before(s) \cup Adjusted(s)) = NetCoverage(copy[s].new)
  <1>1. Numbered(Before(s)) /\ IsFiniteSet(Before(s)) /\ Before(s) \subseteq AllocRow
    BY NumberedBefore, BeforeFacts
  <1>2. CASE Adjusted(s) = {}
    <2>1. Before(s) \cup Adjusted(s) = Before(s)
      BY <1>2
    <2> QED
      BY <1>1, <1>2, <2>1
  <1>3. CASE Adjusted(s) # {}
    <2>1. PICK a \in AllocRow :
             /\ Adjusted(s) = {a} /\ a.src = <<"adjustment", Cardinality(Before(s))>>
             /\ Signed(a) = NetCoverage(copy[s].new) - AllocNet(Before(s))
      BY <1>3, AdjustedFacts
    <2>2. a \notin Before(s) /\ Numbered(Before(s) \cup {a})
      BY <1>1, <2>1, NumberedWithNext
    <2>3. \A x \in Before(s) \cup {a} : x.amount \in Int
      BY <1>1 DEF AllocRow
    <2>4. AllocNet(Before(s) \cup {a}) = AllocNet(Before(s)) + Signed(a)
      BY <1>1, <2>2, <2>3, AllocNetAdd
    <2>5. AllocNet(Before(s) \cup {a}) = NetCoverage(copy[s].new)
      BY <2>1, <2>4, BeforeFacts
    <2>6. Cardinality({a}) = 1
      BY FS_Singleton
    <2> QED
      BY <2>1, <2>2, <2>5, <2>6
  <1> QED
    BY <1>2, <1>3

-----------------------------------------------------------------------------
(* The sessions other than s that are about to answer see what they saw.   *)
LEMMA NumberFrame ==
    ASSUME LocalTypes, NumberInv, NEW s \in Sessions, NEW x, pc' = [pc EXCEPT ![s] = x],
           allocs' = allocs,
           \A t \in Sessions \ {s} : req'[t] = req[t] /\ mine'[t] = mine[t],
           x = "reply" => Numbered(Seen(s)')
    PROVE  NumberInv'
  <1>1. \A i \in Invoices : Numbered(AllocsOf(i, allocs'))
    BY DEF NumberInv
  <1>2. ASSUME NEW t \in Sessions \ {s}, pc'[t] = "reply"
        PROVE  Numbered(Seen(t)')
    <2>1. pc[t] = "reply"
      BY <1>2 DEF LocalTypes
    <2>2. Seen(t)' = Seen(t)
      BY DEF Seen, AllocsOf
    <2> QED
      BY <2>1, <2>2 DEF NumberInv
  <1>3. pc'[s] = x
    BY DEF LocalTypes
  <1>4. \A i \in Invoices : Numbered(AllocsOf(i, allocs))'
    BY <1>1 DEF Numbered, AllocsOf
  <1>5. \A t \in Sessions : pc'[t] = "reply" => Numbered(Seen(t))'
    BY <1>2, <1>3 DEF Numbered
  <1> QED
    BY <1>4, <1>5 DEF NumberInv

(* Every step of a session but the booking and the commit.                 *)
LEMMA QuietNumber ==
    ASSUME CoverInv, NumberInv, NEW s \in Sessions,
           (\E r \in Request : Start(s, r)) \/ Step(s) \/ Fail(s),
           ~Commit(s), ~Allocate(s), ~AlreadyApplied(s)
    PROVE  NumberInv' \/ UNCHANGED vars
  <1>1. LocalTypes
    BY DEF CoverInv
  <1>2. ASSUME Abort(s)
        PROVE  NumberInv'
    <2>1. /\ pc' = [pc EXCEPT ![s] = "idle"] /\ allocs' = allocs
          /\ \A t \in Sessions \ {s} : req'[t] = req[t] /\ mine'[t] = mine[t]
      BY <1>1, <1>2 DEF Abort, End, Goto, tables, LocalTypes
    <2> QED
      BY <1>1, <2>1, NumberFrame
  <1>3. ASSUME NEW x \in {"resolve", "lock", "relock"}, NEW r, Begin(s, r, x)
        PROVE  NumberInv'
    <2>1. /\ pc' = [pc EXCEPT ![s] = x] /\ allocs' = allocs
          /\ \A t \in Sessions \ {s} : req'[t] = req[t] /\ mine'[t] = mine[t]
      BY <1>1, <1>3 DEF Begin, Goto, tables, LocalTypes
    <2> QED
      BY <1>1, <1>3, <2>1, NumberFrame
  <1>4. CASE \E r \in Request : Start(s, r)
    BY <1>3, <1>4 DEF Start, ApplyPayment, ReplayFromMoneyFlowEvent, CreateCreditNote,
                      CreateRefund
  <1>5. ASSUME \/ ResolveExistingPayment(s) \/ LockInvoice(s) \/ LockForReplay(s)
               \/ InsertReplayed(s) \/ ResolveSettlementPeriod(s) \/ InsertRow(s)
        PROVE  NumberInv'
    <2>1. \E x \in {"lock", "relock", "insert", "period", "allocate"} :
             pc' = [pc EXCEPT ![s] = x]
      BY <1>5 DEF ResolveExistingPayment, LockInvoice, LockForReplay, InsertReplayed,
                  ResolveSettlementPeriod, InsertRow, Goto
    <2>2. allocs' = allocs /\ req' = req /\ \A t \in Sessions \ {s} : mine'[t] = mine[t]
      BY <1>1, <1>5 DEF ResolveExistingPayment, LockInvoice, LockForReplay, InsertReplayed,
                  ResolveSettlementPeriod, InsertRow, tables, LocalTypes
    <2> QED
      BY <1>1, <2>1, <2>2, NumberFrame
  <1> QED
    BY <1>2, <1>4, <1>5
    DEF Step, Fail, ResolveConflict, LockRefused, InsertRefused, AllocateRefused, RespondAndClose

(* The booking, and the replay that has nothing to book.                   *)
LEMMA AllocateNumber ==
    ASSUME KeysAreNoNumbers, LockInv, CoverInv, NumberInv, NEW s \in Sessions,
           Allocate(s) \/ AlreadyApplied(s)
    PROVE  NumberInv'
  <1>1. LocalTypes /\ SessionOK(s)
    BY DEF CoverInv
  <1>2. /\ pc[s] = "allocate" /\ pc' = [pc EXCEPT ![s] = "reply"]
        /\ allocs' = allocs /\ req' = req
        /\ \A t \in Sessions \ {s} : mine'[t] = mine[t]
    BY <1>1 DEF Allocate, AlreadyApplied, Goto, tables, LocalTypes
  <1>3. mine[s].allocs = {} /\ req[s].invoice \in Invoices
    BY <1>1, <1>2, BusyTypes DEF SessionOK, Request
  <1>4. CASE Allocate(s)
    <2>1. mine'[s].allocs = NewAllocs(s)
      <3>1. mine'[s] = WithAllocs(s, mine[s])
        BY <1>1, <1>4 DEF Allocate, LocalTypes
      <3> QED
        BY <1>2, <3>1, WithAllocsFacts
    <2>2. Seen(s)' = AllocsOf(req[s].invoice, allocs \cup NewAllocs(s))
      BY <1>2, <2>1 DEF Seen, AllocsOf
    <2>3. AllocsOf(req[s].invoice, allocs \cup NewAllocs(s)) = Seen(s) \cup NewAllocs(s)
      BY <1>2, <1>3, NewAllocsFacts DEF Seen, AllocsOf
    <2>4. Seen(s)' = Before(s) \cup Adjusted(s)
      BY <1>2, <2>2, <2>3, NewAllocsFacts
    <2>5. Numbered(Seen(s)')
      BY <1>2, <2>4, AdjustmentIsNew
    <2> QED
      BY <1>1, <1>2, <2>5, NumberFrame
  <1>5. CASE AlreadyApplied(s)
    <2>1. Seen(s)' = AllocsOf(req[s].invoice, allocs)
      BY <1>2, <1>3, <1>5 DEF AlreadyApplied, Seen, AllocsOf
    <2>2. Numbered(Seen(s)')
      BY <1>3, <2>1 DEF NumberInv
    <2> QED
      BY <1>1, <1>2, <2>2, NumberFrame
  <1> QED
    BY <1>4, <1>5

(* Another session that is about to answer holds another invoice.          *)
LEMMA CommitNumber ==
    ASSUME LockInv, CoverInv, NumberInv, NEW s \in Sessions, Commit(s)
    PROVE  NumberInv'
  <1>1. ASSUME NEW i \in Invoices
        PROVE  Numbered(AllocsOf(i, allocs'))
    BY CommitFacts DEF NumberInv
  <1>2. ASSUME NEW t \in Sessions, pc'[t] = "reply"
        PROVE  Numbered(Seen(t)')
    <2>1. t # s
      BY <1>2 DEF Commit, End, Goto, CoverInv, LocalTypes
    <2>2. /\ pc[t] = "reply" /\ req'[t] = req[t] /\ mine'[t] = mine[t]
          /\ req[t].invoice # req[s].invoice
      BY <1>2, <2>1, CommitFacts DEF Holding
    <2>3. \A a \in mine[s].allocs : a.invoice = req[s].invoice
      BY DEF CoverInv, SessionOK
    <2>4. allocs' = allocs \cup mine[s].allocs
      BY CommitFacts
    <2>5. Seen(t)' = Seen(t)
      BY <2>2, <2>3, <2>4 DEF Seen, AllocsOf
    <2> QED
      BY <2>2, <2>5 DEF NumberInv
  <1>3. \A i \in Invoices : Numbered(AllocsOf(i, allocs))'
    BY <1>1 DEF Numbered, AllocsOf
  <1>4. \A t \in Sessions : pc'[t] = "reply" => Numbered(Seen(t))'
    BY <1>2 DEF Numbered
  <1> QED
    BY <1>3, <1>4 DEF NumberInv

(* Steps that touch no allocation and no session.                          *)
LEMMA SameNumbers ==
    ASSUME NumberInv, UNCHANGED <<allocs, pc, req, mine>>
    PROVE  NumberInv'
  BY DEF NumberInv, Numbered, Seen, AllocsOf

(* Every step preserves NumberInv.                                         *)
LEMMA NumberNext ==
    ASSUME KeysAreNoNumbers, LockInv, CoverInv, NumberInv, [Next]_vars
    PROVE  NumberInv'
  <1>1. CASE UNCHANGED vars
    BY <1>1, SameNumbers DEF vars
  <1>2. ASSUME NEW s \in Sessions, (\E r \in Request : Start(s, r)) \/ Step(s) \/ Fail(s)
        PROVE  NumberInv'
    BY <1>1, <1>2, QuietNumber, AllocateNumber, CommitNumber
  <1>3. CASE Environment
    <2>1. UNCHANGED <<allocs, Locals>>
      BY <1>3 DEF Environment, AdminTransition, QueuePdf, GeneratePdf, SlaCreditNote,
                  FinalizePeriod, LockPeriod, CloseChargePeriod
    <2> QED
      BY <2>1, SameNumbers DEF Locals
  <1> QED
    BY <1>1, <1>2, <1>3 DEF Next

-----------------------------------------------------------------------------
(* What is refunded stays covered by what was paid.                        *)
LEMMA ChangeCovers ==
    ASSUME NEW v \in Invoice, NEW w, v.refunded <= v.paid,
           ByOperation(v, w) \/ ByAdmin(v, w) \/ ByPdf(v, w)
    PROVE  w.refunded <= w.paid
  <1>0. v.paid \in Int /\ v.refunded \in Int
    BY DEF Invoice
  <1>1. CASE ByOperation(v, w)
    <2>1. PICK r \in Request : Fits(r, v) /\ w = Applied(r, v)
      BY <1>1 DEF ByOperation
    <2>2. r.amount \in Nat
      BY AmountFacts DEF Request
    <2>3. /\ w.paid = IF r.kind = "PAYMENT" THEN v.paid + r.amount ELSE v.paid
          /\ w.refunded = IF r.kind = "REFUND" THEN v.refunded + r.amount ELSE v.refunded
      BY <2>1, AppliedAmounts
    <2>4. r.kind = "REFUND" => r.amount <= v.paid - v.refunded
      BY <2>1 DEF Fits, ValidateRefund
    <2> QED
      BY <1>0, <2>2, <2>3, <2>4
  <1>2. CASE ByAdmin(v, w)
    <2>1. PICK to \in Status, payment \in AdminAmounts, credit \in AdminAmounts :
             w = Transition(v, to, payment, credit, 0)
      BY <1>2 DEF ByAdmin
    <2>2. payment \in Nat /\ credit \in Nat /\ 0 \in Int
      BY AmountFacts
    <2>3. w.paid = v.paid + payment /\ w.refunded = v.refunded + 0
      BY <2>1, <2>2, TransitionFields
    <2> QED
      BY <1>0, <2>2, <2>3
  <1>3. CASE ByPdf(v, w)
    BY <1>3 DEF ByPdf, Invoice
  <1> QED
    BY <1>1, <1>2, <1>3

(* The coverage of a balanced invoice is within its total.                 *)
LEMMA CoverageWithinTotal ==
    ASSUME NEW v \in Invoice, ValidateInvoice(v), v.refunded <= v.paid
    PROVE  Magnitude(NetCoverage(v)) <= Total
  <1>1. /\ v.paid \in Int /\ v.refunded \in Int /\ v.credited \in Int /\ v.due \in Int
        /\ Total \in Int
    BY AmountFacts DEF Invoice
  <1> QED
    BY <1>1 DEF ValidateInvoice, Magnitude, NetCoverage

(* The invoice s has in its hands is balanced, its refunds are covered.    *)
LEMMA CopyIsBalanced ==
    ASSUME LockInv, InvoiceBalanced, RefundsAreCovered, NEW s \in Sessions, pc[s] = "allocate"
    PROVE  Magnitude(NetCoverage(copy[s].new)) <= Total
  <1>1. PICK v \in Invoice : /\ ValidateInvoice(v) /\ v.refunded <= v.paid
                             /\ Faithful(s, v) /\ req[s] \in Request
    <2>1. req[s] \in Request /\ req[s].invoice \in Invoices
      BY DEF LockInv, SessionTypes, Request
    <2>2. Faithful(s, invoice[req[s].invoice])
      BY <2>1 DEF LockInv, LocksProtect, Holds
    <2> QED
      BY <2>1, <2>2 DEF LockInv, SessionTypes, InvoiceBalanced, RefundsAreCovered
  <1>2. PICK w : w = copy[s].new
    OBVIOUS
  <1>3. w \in Invoice /\ (w = v \/ ByOperation(v, w))
    BY <1>1, <1>2 DEF Faithful, ByOperation
  <1>4. ValidateInvoice(w) /\ w.refunded <= w.paid
    BY <1>1, <1>3, ChangeBalanced, ChangeCovers
  <1> QED
    BY <1>2, <1>3, <1>4, CoverageWithinTotal

(* The booking, once the allocation of the row of the operation passes.    *)
LEMMA BookingPasses ==
    ASSUME KeysAreNoNumbers, LockInv, CoverInv, NumberInv, InvoiceBalanced, RefundsAreCovered
    PROVE  ReconciliationNeverRefuses
  <1> SUFFICES ASSUME NEW s \in Sessions, pc[s] = "allocate",
                      \A n \in notes : n.invoice = req[s].invoice => n.key \notin SlaKeys,
                      Bookable(s, Seen(s), Own(s))
               PROVE  Books(s)
    BY DEF ReconciliationNeverRefuses
  <1>1. Backfill(s) = {}
    BY NothingToBackfill
  <1>2. Adjusted(s) # {} => TotalHolds(s, Before(s) \cup Adjusted(s))
                            /\ Cardinality(Adjusted(s)) = 1
    BY AdjustmentIsNew, CopyIsBalanced DEF TotalHolds, ValidateSettlementTotal
  <1> QED
    BY <1>1, <1>2 DEF Books, Bookable, Before

(* Whoever has changed the amounts of the invoice without allocating them, *)
(* admin transitions with amounts included: reconcile_invoice_allocations  *)
(* never refuses an operation whose own allocation passed, unless the      *)
(* invoice has a credit note of an SLA penalty.  For any number of         *)
(* sessions, invoices, keys and amounts, provided that nobody has loaded   *)
(* the invoice before _lock_invoice and that no idempotency key is the     *)
(* generated source of an adjustment.                                      *)
THEOREM ReconciliationIsNeverRefused ==
    ASSUME Preloads = {FALSE}, KeysAreNoNumbers
    PROVE  Spec => []ReconciliationNeverRefuses
  <1>1. Init => NumberInv /\ RefundsAreCovered
    BY DEF Init, NumberInv, RefundsAreCovered, NewInvoice, Numbered, AllocsOf
  <1>2. LockInv /\ CoverInv /\ NumberInv /\ [Next]_vars => NumberInv'
    BY NumberNext
  <1>3. LockInv /\ RefundsAreCovered /\ [Next]_vars => RefundsAreCovered'
    <2> SUFFICES ASSUME LockInv, RefundsAreCovered, [Next]_vars, NEW i \in Invoices
                 PROVE  invoice'[i].refunded <= invoice'[i].paid
      BY DEF RefundsAreCovered
    <2>1. invoice[i] \in Invoice /\ invoice[i].refunded <= invoice[i].paid
      BY DEF LockInv, SessionTypes, RefundsAreCovered
    <2> QED
      BY <2>1, StepUpdates, ChangeCovers
  <1>4. LockInv /\ CoverInv /\ NumberInv /\ InvoiceBalanced /\ RefundsAreCovered
        => ReconciliationNeverRefuses
    BY BookingPasses
  <1> QED
    BY <1>1, <1>2, <1>3, <1>4, CoverInvariant, InvoicesStayBalanced, PTL DEF Spec
=============================================================================
