--------------------------- MODULE BillingProofs ----------------------------
(***************************************************************************)
(* Proofs about BillingRun and BillingFlows, for any number of sessions,   *)
(* invoices, tenants, keys, intakes and operations and any amounts.        *)
(***************************************************************************)
EXTENDS BillingFlows, BillingRun, SumsProofs

-----------------------------------------------------------------------------
(* BillingRun: the inductive invariant.                                    *)

DraftRow == [status : {"NONE", "DRAFT", "ISSUED"}, total : Nat]
LineRow == Nat \X Operations
RunPlaces == {"idle", "period", "newperiod", "query", "load", "create", "delete",
              "deleting", "replace", "commit", "done"}
RunRecord == [pc : RunPlaces, id : Nat, key : JobKeys \cup {NoJob}, newPeriod : BOOLEAN,
              ops : SUBSET Operations, seen : DraftRow, visible : SUBSET LineRow,
              deleted : SUBSET LineRow]

(* The committed rows: an invoice that is not there has no lines, and no   *)
(* line comes from a run that has not begun.                               *)
RunRowsFit ==
    /\ billable \subseteq Operations
    /\ period \in {"NONE", "OPEN", "FINALIZED"}
    /\ invoice \in DraftRow
    /\ lines \subseteq LineRow
    /\ runs \in Nat /\ closedAt \in Nat /\ unsaved \in BOOLEAN
    /\ invoice.status = "NONE" => invoice = NoDraft /\ lines = {}
    /\ \A l \in lines : l[1] <= runs

(* A run has not looked at the period yet.                                 *)
Early == {"idle", "period", "newperiod"}

(* What a run r has loaded and locked, against the committed rows: the     *)
(* period it inserts is not there, a run that is past the check of the     *)
(* period began before it was finalized, what it rebuilds was a draft, and *)
(* at its commit the lines are those it has deleted.                       *)
RunFits(r) ==
    /\ r \in RunRecord
    /\ r.pc = "idle" => r = Resting
    /\ r.id <= runs
    /\ r.newPeriod => period = "NONE" /\ r.pc \notin Early
    /\ period = "FINALIZED" /\ r.pc \notin Early => r.id <= closedAt
    /\ r.seen # NoDraft => invoice # NoDraft
    /\ r.pc = "create" => r.seen = NoDraft
    /\ r.pc \in {"delete", "deleting", "replace"} => r.seen.status = "DRAFT"
    /\ r.pc = "commit" =>
          IF r.seen = NoDraft THEN invoice = NoDraft
          ELSE r.seen.status = "DRAFT" /\ r.deleted = lines
    /\ r.deleted # {} => r.pc \in {"replace", "commit"}

(* One run inserts the period, and one is between its writes and its       *)
(* commit, whether it creates the invoice or rebuilds it.                  *)
RunsApart(r, q) ==
    /\ ~(r.newPeriod /\ q.newPeriod)
    /\ ~(r.pc = "commit" /\ q.pc = "commit")

RunInv ==
    /\ RunRowsFit /\ TotalMatchesLines /\ NoLateBilling
    /\ DOMAIN run = Runners
    /\ \A s \in Runners : RunFits(run[s])
    /\ \A s, t \in Runners : s # t => RunsApart(run[s], run[t])

-----------------------------------------------------------------------------
(* BillingFlows: the inductive invariant.                                  *)

PaymentRow == [key : Keys, invoice : Invoices, amount : Nat \ {0},
               status : {"CAPTURED", "REFUNDED_PARTIAL", "REFUNDED_FULL"}]
RefundRow == [key : RefundKeys, payment : Keys, amount : Nat \ {0}]
IntakeRow == [status : {"NONE", "SUBMITTED", "APPROVED", "REJECTED"},
              invoice : Invoices \cup {NoRef}, amount : Nat]
PostingRow == [kind : {"issue", "capture", "refund"},
               key : Invoices \cup Keys \cup RefundKeys, amount : Nat, invoice : Invoices]

(* Sums are taken over finite sets.                                        *)
TablesAreFinite ==
    /\ IsFiniteSet(payments) /\ IsFiniteSet(refunds)
    /\ IsFiniteSet(Entries) /\ \A t \in Tenants : IsFiniteSet(ledger[t])

(* An invoice that is there has a status, and a row refers to one that is  *)
(* there.  The key of a payment is unique.                                 *)
InvoicesThere ==
    /\ \A i \in Invoices : invoices[i] = NoInvoice \/ invoices[i].status \in Statuses
    /\ \A p \in payments : invoices[p.invoice] # NoInvoice
    /\ \A n \in Intakes : intakes[n].status # "NONE" =>
          /\ intakes[n].invoice \in Invoices /\ intakes[n].amount > 0
          /\ invoices[intakes[n].invoice] # NoInvoice
    /\ \A n \in Intakes : intakes[n].status = "NONE" => intakes[n] = NoIntake

(* The payment of an intake is the one that was submitted.                 *)
IntakePaid(p) ==
    p.key \in Intakes =>
        /\ intakes[p.key].status # "NONE"
        /\ p.invoice = intakes[p.key].invoice /\ p.amount = intakes[p.key].amount

PaymentsFit ==
    /\ \A p, q \in payments : p.key = q.key => p = q
    /\ \A r \in refunds : r.payment \in PaymentKeys
    /\ \A p \in payments : IntakePaid(p)

(* The row a posting stands for is there.                                  *)
HasRow(x) ==
    CASE x.kind = "issue"  -> x.key \in Invoices /\ invoices[x.key] # NoInvoice
      [] x.kind = "refund" -> \E r \in refunds : r.key = x.key
      [] OTHER             -> x.key \in PaymentKeys

PostingsFit == \A t \in Tenants : \A x \in ledger[t] : HasRow(x)

RowsInv ==
    /\ invoices \in [Invoices -> InvoiceRow]
    /\ payments \subseteq PaymentRow
    /\ refunds \subseteq RefundRow
    /\ intakes \in [Intakes -> IntakeRow]
    /\ ledger \in [Tenants -> SUBSET PostingRow]
    /\ subscription \in {"ACTIVE", "SUSPENDED"}
    /\ TablesAreFinite /\ InvoicesThere /\ PaymentsFit /\ PostingsFit
    /\ InvoiceMatchesPayments /\ ReceivableMatchesRows
    /\ PaymentStatusMatches /\ ApprovedIsCaptured

Holding == {"case", "row", "commit"}
Posts == {"sequence", "post"} \cup Holding

(* A command of the kind that posts: its tenant, its invoice and its amount*)
(* are there, and its key is one of its kind.                              *)
IssueFits(c) ==
    /\ c.pc \in Posts /\ c.tenant \in Tenants
    /\ c.invoice \in Invoices /\ c.key = c.invoice
    /\ c.amount = Total /\ c.seen = NoInvoice

CaptureFits(c) ==
    /\ c.pc \in Posts /\ c.tenant \in Tenants /\ c.key \in CaptureKeys
    /\ c.invoice \in Invoices /\ invoices[c.invoice] # NoInvoice /\ c.amount > 0

RefundFits(c) ==
    /\ c.pc \in Posts /\ c.tenant \in Tenants /\ c.key \in RefundKeys /\ c.amount > 0
    /\ \E p \in payments : p.key = c.ref /\ p.invoice = c.invoice

(* An approval works on the intake as it is, and past the check its amount *)
(* is not above what was due.                                              *)
ApproveFits(c) ==
    /\ c.pc \in Posts \cup {"review", "due", "load", "approved"}
    /\ c.tenant = OrgTenant /\ c.key = c.intake /\ c.intake \in Intakes
    /\ intakes[c.intake].status # "NONE"
    /\ c.invoice = intakes[c.intake].invoice /\ c.amount = intakes[c.intake].amount
    /\ c.pc \notin {"review", "due"} => c.amount <= c.due
    /\ c.pc = "approved" => c.intake \in PaymentKeys

SubmitFits(c) ==
    /\ c.pc = "insert" /\ c.intake \in Intakes /\ intakes[c.intake] = NoIntake
    /\ c.invoice \in Invoices /\ invoices[c.invoice] # NoInvoice /\ c.amount > 0

(* What the invoice will be when the row of c is committed.                *)
Result(c) ==
    LET net == IF c.op = "issue" THEN 0 ELSE NetWith(c)
    IN [paid |-> net, status |-> StatusOf(net)]

(* A command that goes on without a header of its own has found one under  *)
(* its key; a command with one is alone with the key, and at its commit    *)
(* its row is new and the sum it has taken still holds.                    *)
CommandFits(c) ==
    /\ c \in Command
    /\ c.op = "none" => c = Idle
    /\ c.op = "issue" => IssueFits(c)
    /\ c.op = "capture" => CaptureFits(c)
    /\ c.op = "refund" => RefundFits(c)
    /\ c.op = "approve" => ApproveFits(c)
    /\ c.op = "submit" => SubmitFits(c)
    /\ c.posted => c.pc \in Holding /\ ~InLedger(c)
    /\ c.pc \in Holding /\ ~c.posted => InLedger(c)
    /\ c.pc = "commit" => c.posted /\ ~RowExists(c) /\ c.new = Result(c)

(* One command at a time inserts an intake, one has an uncommitted header  *)
(* under a key, and one holds the case of an invoice.                      *)
CommandsApart(c, d) ==
    /\ ~(c.op = "submit" /\ d.op = "submit" /\ c.intake = d.intake)
    /\ ~(c.posted /\ d.posted /\ Kind(c) = Kind(d) /\ c.key = d.key)
    /\ ~(/\ c.pc \in {"row", "commit"} /\ d.pc \in {"row", "commit"}
         /\ c.invoice = d.invoice)

CommandsInv ==
    /\ cmd \in [Sessions -> Command]
    /\ \A s \in Sessions : CommandFits(cmd[s])
    /\ \A s, t \in Sessions : s # t => CommandsApart(cmd[s], cmd[t])

FlowInv == RowsInv /\ CommandsInv /\ begun \in 0..MaxCommands

-----------------------------------------------------------------------------
(* BillingRun: the steps.                                                  *)

(* A resting run has nothing.                                              *)
LEMMA RestingShape ==
    /\ Resting \in RunRecord
    /\ Resting.pc = "idle" /\ Resting.id = 0 /\ Resting.newPeriod = FALSE
    /\ Resting.seen = NoDraft /\ Resting.deleted = {}
<1>1. NoDraft \in DraftRow /\ 0 \in Nat
  BY DEF NoDraft, DraftRow
<1> QED
  BY <1>1 DEF Resting, RunRecord, RunPlaces

(* ... and is apart from every other run.                                  *)
LEMMA RestingApart == \A q : RunsApart(Resting, q) /\ RunsApart(q, Resting)
BY DEF RunsApart, Resting

(* A step that changes the run of one session and no row keeps the         *)
(* invariant if what the run has become fits.                              *)
LEMMA RunMoves ==
    ASSUME RunInv, NEW s \in Runners, NEW r,
           run' = [run EXCEPT ![s] = r],
           UNCHANGED <<runRows, closedAt, unsaved>>, runs' \in Nat, runs <= runs',
           RunFits(r)', \A t \in Runners \ {s} : RunsApart(r, run[t])
    PROVE  RunInv'
<1> USE DEF runRows
<1>1. RunRowsFit'
  <2>1. \A l \in lines : l[1] \in Nat
    BY DEF RunInv, RunRowsFit, LineRow
  <2>2. \A l \in lines : l[1] <= runs'
    BY <2>1 DEF RunInv, RunRowsFit
  <2> QED
    BY <2>2 DEF RunInv, RunRowsFit
<1>2. TotalMatchesLines' /\ NoLateBilling'
  BY DEF RunInv, TotalMatchesLines, NoLateBilling
<1>3. DOMAIN run' = Runners /\ run'[s] = r /\ \A t \in Runners \ {s} : run'[t] = run[t]
  BY DEF RunInv
<1>4. ASSUME NEW t \in Runners \ {s}
      PROVE  RunFits(run[t])'
  <2>1. PICK q : q = run[t]
    OBVIOUS
  <2>2. RunFits(q) /\ run'[t] = q
    BY <1>3, <2>1 DEF RunInv
  <2>3. q.id \in Nat /\ q.id <= runs
    BY <2>2 DEF RunFits, RunRecord
  <2>4. q.id <= runs'
    BY <2>3 DEF RunInv, RunRowsFit
  <2>5. RunFits(q)'
    BY <2>2, <2>4 DEF RunFits
  <2> QED
    BY <2>2, <2>5
<1>5. \A t \in Runners : RunFits(run[t])'
  BY <1>3, <1>4
<1>6. \A t, u \in Runners : t # u => RunsApart(run[t], run[u])'
  <2>1. \A t \in Runners \ {s} : RunsApart(r, run[t]) /\ RunsApart(run[t], r)
    BY DEF RunsApart
  <2>2. \A t, u \in Runners \ {s} : t # u => RunsApart(run[t], run[u])
    BY DEF RunInv
  <2>3. ASSUME NEW t \in Runners, NEW u \in Runners, t # u
        PROVE  RunsApart(run'[t], run'[u])
    BY <1>3, <2>1, <2>2, <2>3
  <2> QED
    BY <2>3
<1> QED
  BY <1>1, <1>2, <1>3, <1>5, <1>6 DEF RunInv

(* A run that raises or dies leaves nothing.                               *)
LEMMA RaiseInv ==
    ASSUME RunInv, NEW s \in Runners, Raise(s)
    PROVE  RunInv'
<1>1. RunFits(Resting)'
  <2>1. 0 <= runs'
    BY DEF RunInv, RunRowsFit, Raise
  <2> QED
    BY <2>1, RestingShape DEF RunFits, Early
<1>2. runs' \in Nat /\ runs <= runs'
  BY DEF RunInv, RunRowsFit, Raise
<1> QED
  BY <1>1, <1>2, RestingApart, RunMoves DEF Raise

(* A run r goes on to k: only fields its rows and the others do not forbid *)
(* are changed.                                                            *)
LEMMA RunGoesOn ==
    ASSUME RunInv, NEW s \in Runners, NEW k,
           run' = [run EXCEPT ![s] = k],
           UNCHANGED <<runRows, runs, closedAt, unsaved>>,
           RunFits(k), \A t \in Runners \ {s} : RunsApart(k, run[t])
    PROVE  RunInv'
<1>1. RunFits(k)'
  BY DEF runRows, RunFits
<1>2. runs' \in Nat /\ runs <= runs' /\ UNCHANGED <<runRows, closedAt, unsaved>>
  BY DEF RunInv, RunRowsFit
<1> QED
  BY <1>1, <1>2, RunMoves

(* A run begins with nothing loaded and a number of its own.               *)
LEMMA StartRunInv ==
    ASSUME RunInv, NEW s \in Runners, NEW k \in JobKeys, StartRun(s, k)
    PROVE  RunInv'
<1>1. PICK n : n = runs'
  OBVIOUS
<1>2. n \in Nat /\ runs \in Nat /\ n = runs + 1 /\ runs <= runs'
  BY <1>1 DEF StartRun, RunInv, RunRowsFit
<1>3. PICK r : r = [Resting EXCEPT !.pc = "period", !.id = n, !.key = k]
  OBVIOUS
<1>4. NoDraft \in DraftRow
  BY DEF NoDraft, DraftRow
<1>5. /\ r \in RunRecord /\ r.pc = "period" /\ r.id = n /\ r.newPeriod = FALSE
      /\ r.seen = NoDraft /\ r.deleted = {}
  BY <1>2, <1>3, <1>4 DEF Resting, RunRecord, RunPlaces
<1>6. n <= runs'
  BY <1>1, <1>2
<1>7. RunFits(r)'
  BY <1>5, <1>6 DEF RunFits, Early
<1>8. \A t \in Runners \ {s} : RunsApart(r, run[t])
  BY <1>5 DEF RunsApart
<1>9. run' = [run EXCEPT ![s] = r]
  BY <1>1, <1>3 DEF StartRun
<1> QED
  BY <1>1, <1>2, <1>7, <1>8, <1>9, RunMoves DEF StartRun

(* The period is found open, missing, or inserted by one run alone.        *)
LEMMA PeriodInv ==
    ASSUME RunInv, NEW s \in Runners,
           FindPeriod(s) \/ PeriodMissing(s) \/ CreatePeriod(s)
    PROVE  RunInv'
<1>1. PICK r : r = run[s]
  OBVIOUS
<1>2. RunFits(r) /\ r \in RunRecord
  BY <1>1 DEF RunInv, RunFits
<1>3. UNCHANGED <<runRows, runs, closedAt, unsaved>>
  BY DEF FindPeriod, PeriodMissing, CreatePeriod
<1>4. CASE FindPeriod(s)
  <2>1. PICK k : k = [r EXCEPT !.pc = "query"]
    OBVIOUS
  <2>2. /\ k \in RunRecord /\ k.pc = "query" /\ k.id = r.id /\ k.newPeriod = r.newPeriod
        /\ k.seen = r.seen /\ k.deleted = r.deleted
    BY <1>2, <2>1 DEF RunRecord, RunPlaces
  <2>3. r.pc = "period" /\ period = "OPEN" /\ run' = [run EXCEPT ![s] = k]
    BY <1>1, <1>4, <2>1 DEF FindPeriod, Goto, Billable
  <2>4. RunFits(k)
    BY <1>2, <2>2, <2>3 DEF RunFits, Early
  <2>5. \A t \in Runners \ {s} : RunsApart(k, run[t])
    BY <1>2, <2>2, <2>3 DEF RunsApart, RunFits, Early
  <2> QED
    BY <1>3, <2>3, <2>4, <2>5, RunGoesOn
<1>5. CASE PeriodMissing(s)
  <2>1. PICK k : k = [r EXCEPT !.pc = "newperiod"]
    OBVIOUS
  <2>2. /\ k \in RunRecord /\ k.pc = "newperiod" /\ k.id = r.id /\ k.newPeriod = r.newPeriod
        /\ k.seen = r.seen /\ k.deleted = r.deleted
    BY <1>2, <2>1 DEF RunRecord, RunPlaces
  <2>3. r.pc = "period" /\ run' = [run EXCEPT ![s] = k]
    BY <1>1, <1>5, <2>1 DEF PeriodMissing, Goto
  <2>4. RunFits(k)
    BY <1>2, <2>2, <2>3 DEF RunFits, Early
  <2>5. \A t \in Runners \ {s} : RunsApart(k, run[t])
    BY <1>2, <2>2, <2>3 DEF RunsApart, RunFits, Early
  <2> QED
    BY <1>3, <2>3, <2>4, <2>5, RunGoesOn
<1>6. CASE CreatePeriod(s)
  <2>1. PICK k : k = [r EXCEPT !.pc = "query", !.newPeriod = TRUE]
    OBVIOUS
  <2>2. /\ k \in RunRecord /\ k.pc = "query" /\ k.id = r.id /\ k.newPeriod = TRUE
        /\ k.seen = r.seen /\ k.deleted = r.deleted
    BY <1>2, <2>1 DEF RunRecord, RunPlaces
  <2>3. r.pc = "newperiod" /\ period = "NONE" /\ \A t \in Runners \ {s} : ~run[t].newPeriod
    BY <1>1, <1>6 DEF CreatePeriod, PeriodPending
  <2>4. run' = [run EXCEPT ![s] = k]
    BY <1>1, <1>6, <2>1 DEF CreatePeriod
  <2>5. RunFits(k)
    BY <1>2, <2>2, <2>3 DEF RunFits, Early
  <2>6. \A t \in Runners \ {s} : RunsApart(k, run[t])
    BY <2>2, <2>3 DEF RunsApart
  <2> QED
    BY <1>3, <2>4, <2>5, <2>6, RunGoesOn
<1> QED
  BY <1>4, <1>5, <1>6

(* The operations are read, or the client's invoice is declined.           *)
LEMMA QueryInv ==
    ASSUME RunInv, NEW s \in Runners, QueryOperations(s) \/ DeclineInvoice(s)
    PROVE  RunInv'
<1>1. PICK r : r = run[s]
  OBVIOUS
<1>2. RunFits(r) /\ r \in RunRecord
  BY <1>1 DEF RunInv, RunFits
<1>3. /\ UNCHANGED <<runRows, runs, closedAt, unsaved>>
      /\ r.pc \in {"query", "load"}
  BY <1>1 DEF QueryOperations, DeclineInvoice
<1>4. PICK o : o = IF QueryOperations(s) THEN billable ELSE r.ops
  OBVIOUS
<1>5. PICK p : p = IF QueryOperations(s) THEN (IF billable = {} THEN "done" ELSE "load")
                   ELSE "done"
  OBVIOUS
<1>6. o \in SUBSET Operations /\ p \in {"done", "load"}
  BY <1>2, <1>4, <1>5 DEF RunInv, RunRowsFit, RunRecord
<1>7. PICK k : k = [r EXCEPT !.ops = o, !.pc = p]
  OBVIOUS
<1>8. run' = [run EXCEPT ![s] = k]
  <2>1. CASE QueryOperations(s)
    BY <1>1, <1>4, <1>5, <1>7, <2>1 DEF QueryOperations
  <2>2. CASE ~QueryOperations(s)
    <3>1. k = [r EXCEPT !.pc = "done"]
      BY <1>2, <1>4, <1>5, <1>7, <2>2 DEF RunRecord
    <3> QED
      BY <1>1, <2>2, <3>1 DEF DeclineInvoice, Goto
  <2> QED
    BY <2>1, <2>2
<1>9. /\ k \in RunRecord /\ k.pc = p /\ k.id = r.id /\ k.newPeriod = r.newPeriod
      /\ k.seen = r.seen /\ k.deleted = r.deleted
  BY <1>2, <1>6, <1>7 DEF RunRecord, RunPlaces
<1>10. RunFits(k)
  BY <1>2, <1>3, <1>6, <1>9 DEF RunFits, Early
<1>11. \A t \in Runners \ {s} : RunsApart(k, run[t])
  BY <1>1, <1>6, <1>9 DEF RunsApart, RunInv
<1> QED
  BY <1>3, <1>8, <1>10, <1>11, RunGoesOn

(* The invoice is loaded: it is created, rebuilt or left alone.            *)
LEMMA LoadInv ==
    ASSUME RunInv, NEW s \in Runners, LoadInvoice(s)
    PROVE  RunInv'
<1>1. PICK r : r = run[s]
  OBVIOUS
<1>2. RunFits(r) /\ r \in RunRecord /\ r.pc = "load"
  BY <1>1 DEF RunInv, RunFits, LoadInvoice
<1>3. PICK v : v = invoice
  OBVIOUS
<1>4. v \in DraftRow /\ (v.status = "NONE" => v = NoDraft)
  BY <1>3 DEF RunInv, RunRowsFit
<1>5. PICK p : p = CASE v = NoDraft -> "create" [] v.status = "DRAFT" -> "delete"
                     [] OTHER -> "done"
  OBVIOUS
<1>6. /\ p \in {"create", "delete", "done"}
      /\ p = "create" => v = NoDraft
      /\ p = "delete" => v.status = "DRAFT"
  BY <1>5 DEF NoDraft
<1>7. PICK k : k = [r EXCEPT !.seen = v, !.pc = p]
  OBVIOUS
<1>8. run' = [run EXCEPT ![s] = k]
  <2>1. run' = [run EXCEPT ![s].seen = v, ![s].pc = p]
    BY <1>3, <1>5 DEF LoadInvoice, Rebuildable
  <2> QED
    BY <1>1, <1>7, <2>1
<1>9. /\ k \in RunRecord /\ k.pc = p /\ k.id = r.id /\ k.newPeriod = r.newPeriod
      /\ k.seen = v /\ k.deleted = r.deleted
  BY <1>2, <1>4, <1>6, <1>7 DEF RunRecord, RunPlaces
<1>10. r.deleted = {}
  BY <1>2 DEF RunFits
<1>11. RunFits(k)
  BY <1>2, <1>3, <1>6, <1>9, <1>10 DEF RunFits, Early
<1>12. \A t \in Runners \ {s} : RunsApart(k, run[t])
  BY <1>1, <1>6, <1>9 DEF RunsApart, RunInv
<1> QED
  BY <1>8, <1>11, <1>12, RunGoesOn DEF LoadInvoice

(* The invoice is inserted when there is none and nobody else inserts it.  *)
LEMMA CreateDraftInv ==
    ASSUME RunInv, NEW s \in Runners, CreateDraft(s)
    PROVE  RunInv'
<1>1. PICK r : r = run[s]
  OBVIOUS
<1>2. RunFits(r) /\ r \in RunRecord /\ r.pc = "create" /\ invoice = NoDraft
  BY <1>1 DEF RunInv, RunFits, CreateDraft
<1>3. r.seen = NoDraft /\ r.deleted = {}
  BY <1>2 DEF RunFits
<1>4. PICK k : k = [r EXCEPT !.pc = "commit"]
  OBVIOUS
<1>5. run' = [run EXCEPT ![s] = k]
  BY <1>1, <1>4 DEF CreateDraft, Goto
<1>6. /\ k \in RunRecord /\ k.pc = "commit" /\ k.id = r.id /\ k.newPeriod = r.newPeriod
      /\ k.seen = r.seen /\ k.deleted = r.deleted
  BY <1>2, <1>4 DEF RunRecord, RunPlaces
<1>7. RunFits(k)
  BY <1>2, <1>3, <1>6 DEF RunFits, Early
<1>8. ASSUME NEW t \in Runners \ {s}, run[t].pc = "commit"
      PROVE  FALSE
  <2>1. PICK q : q = run[t]
    OBVIOUS
  <2>2. RunFits(q) /\ q.pc = "commit" /\ q.seen # NoDraft
    BY <1>8, <2>1 DEF RunInv, CreateDraft, DraftPending
  <2> QED
    BY <1>2, <2>2 DEF RunFits
<1>9. \A t \in Runners \ {s} : RunsApart(k, run[t])
  BY <1>1, <1>6, <1>8 DEF RunsApart, RunInv
<1> QED
  BY <1>5, <1>7, <1>9, RunGoesOn DEF CreateDraft

(* A rebuild deletes what it finds, waits for every other rebuild and then *)
(* deletes the lines there are.                                            *)
LEMMA RebuildInv ==
    ASSUME RunInv, NEW s \in Runners, StartDelete(s) \/ DeleteLines(s) \/ ReplaceLines(s)
    PROVE  RunInv'
<1>1. PICK r : r = run[s]
  OBVIOUS
<1>2. /\ RunFits(r) /\ r \in RunRecord /\ r.pc \in {"delete", "deleting", "replace"}
      /\ UNCHANGED <<runRows, runs, closedAt, unsaved>>
  BY <1>1 DEF RunInv, RunFits, StartDelete, DeleteLines, ReplaceLines
<1>3. r.seen.status = "DRAFT" /\ r.seen # NoDraft /\ invoice # NoDraft
  BY <1>2 DEF RunFits, NoDraft
<1>4. lines \in SUBSET LineRow
  BY DEF RunInv, RunRowsFit
<1>5. CASE StartDelete(s)
  <2>1. PICK k : k = [r EXCEPT !.visible = lines, !.pc = "deleting"]
    OBVIOUS
  <2>2. run' = [run EXCEPT ![s] = k] /\ r.pc = "delete"
    BY <1>1, <1>5, <2>1 DEF StartDelete
  <2>3. /\ k \in RunRecord /\ k.pc = "deleting" /\ k.id = r.id /\ k.newPeriod = r.newPeriod
        /\ k.seen = r.seen /\ k.deleted = r.deleted
    BY <1>2, <1>4, <2>1 DEF RunRecord, RunPlaces
  <2>4. RunFits(k)
    BY <1>2, <1>3, <2>2, <2>3 DEF RunFits, Early
  <2>5. \A t \in Runners \ {s} : RunsApart(k, run[t])
    BY <1>1, <2>3 DEF RunsApart, RunInv
  <2> QED
    BY <1>2, <2>2, <2>4, <2>5, RunGoesOn
<1>6. CASE DeleteLines(s)
  <2>1. PICK d : d = r.visible \cap lines
    OBVIOUS
  <2>2. PICK k : k = [r EXCEPT !.deleted = d, !.pc = "replace"]
    OBVIOUS
  <2>3. run' = [run EXCEPT ![s] = k] /\ r.pc = "deleting"
    BY <1>1, <1>6, <2>1, <2>2 DEF DeleteLines
  <2>4. d \in SUBSET LineRow
    BY <1>4, <2>1
  <2>5. /\ k \in RunRecord /\ k.pc = "replace" /\ k.id = r.id /\ k.newPeriod = r.newPeriod
        /\ k.seen = r.seen /\ k.deleted = d
    BY <1>2, <2>2, <2>4 DEF RunRecord, RunPlaces
  <2>6. RunFits(k)
    BY <1>2, <1>3, <2>3, <2>5 DEF RunFits, Early
  <2>7. \A t \in Runners \ {s} : RunsApart(k, run[t])
    BY <1>1, <2>5 DEF RunsApart, RunInv
  <2> QED
    BY <1>2, <2>3, <2>6, <2>7, RunGoesOn
<1>7. CASE ReplaceLines(s)
  <2>1. PICK k : k = [r EXCEPT !.deleted = lines, !.pc = "commit"]
    OBVIOUS
  <2>2. run' = [run EXCEPT ![s] = k] /\ r.pc = "replace"
    BY <1>1, <1>7, <2>1 DEF ReplaceLines, Replaced
  <2>3. /\ k \in RunRecord /\ k.pc = "commit" /\ k.id = r.id /\ k.newPeriod = r.newPeriod
        /\ k.seen = r.seen /\ k.deleted = lines
    BY <1>2, <1>4, <2>1 DEF RunRecord, RunPlaces
  <2>4. RunFits(k)
    BY <1>2, <1>3, <2>2, <2>3 DEF RunFits, Early
  <2>5. ASSUME NEW t \in Runners \ {s}, run[t].pc = "commit"
        PROVE  FALSE
    <3>1. PICK q : q = run[t]
      OBVIOUS
    <3>2. RunFits(q) /\ q.pc = "commit" /\ q.seen = NoDraft
      BY <1>7, <2>5, <3>1 DEF RunInv, ReplaceLines, ReplaceWaits
    <3> QED
      BY <1>3, <3>2 DEF RunFits
  <2>6. \A t \in Runners \ {s} : RunsApart(k, run[t])
    BY <1>1, <2>3, <2>5 DEF RunsApart, RunInv
  <2> QED
    BY <1>2, <2>2, <2>4, <2>6, RunGoesOn
<1> QED
  BY <1>5, <1>6, <1>7

(* The lines of a run add up to its amount.                                *)
LEMMA NewLinesSum ==
    ASSUME NEW n \in Nat, NEW ops \in SUBSET Operations
    PROVE  LET new == {<<n, o>> : o \in ops}
           IN  SumOf([l \in new |-> Price[l[2]]], new) = Amount(ops)
<1>1. IsFiniteSet(ops) /\ \A o \in ops : Price[o] \in Int
  BY RunAmounts, FS_Subset DEF RunAmounts
<1>2. PICK h : h = [o \in ops |-> <<n, o>>]
  OBVIOUS
<1>3. PICK new : new = {<<n, o>> : o \in ops}
  OBVIOUS
<1>4. new = {h[o] : o \in ops}
  BY <1>2, <1>3
<1>5. PICK g : g = [l \in new |-> Price[l[2]]]
  OBVIOUS
<1>6. \A o \in ops : g[h[o]] = Price[o]
  BY <1>2, <1>3, <1>5
<1>7. \A o, q \in ops : h[o] = h[q] => o = q
  BY <1>2
<1>8. SumOf(g, {h[o] : o \in ops}) = SumOf(Price, ops)
  BY <1>1, <1>6, <1>7, SumImage
<1> QED
  BY <1>3, <1>4, <1>5, <1>8 DEF Amount

(* An amount is a natural number.                                          *)
LEMMA AmountType ==
    ASSUME NEW ops \in SUBSET Operations
    PROVE  Amount(ops) \in Nat
<1>1. IsFiniteSet(ops) /\ \A o \in ops : Price[o] \in Nat
  BY RunAmounts, FS_Subset DEF RunAmounts
<1> QED
  BY <1>1, SumType DEF Amount

(* The commit of an invoice: the lines are then those of the run.          *)
LEMMA CommitInvoiceInv ==
    ASSUME RunInv, NEW s \in Runners, CommitInvoice(s)
    PROVE  RunInv'
<1>1. PICK r : r = run[s]
  OBVIOUS
<1>2. RunFits(r) /\ r \in RunRecord /\ r.pc = "commit"
  BY <1>1 DEF RunInv, RunFits, CommitInvoice
<1>3. /\ r.id \in Nat /\ r.ops \in SUBSET Operations /\ r.seen \in DraftRow
      /\ r.newPeriod \in BOOLEAN /\ r.id <= runs
  BY <1>2 DEF RunRecord, RunFits
<1>4. PICK a : a = Amount(r.ops)
  OBVIOUS
<1>5. a \in Nat
  BY <1>3, <1>4, AmountType
<1>6. PICK new : new = {<<r.id, o>> : o \in r.ops}
  OBVIOUS
<1>7. PICK n \in Nat : n = r.id
  BY <1>3
<1>8. lines' = new
  <2>1. lines \ r.deleted = {}
    BY <1>2 DEF RunFits, RunInv, RunRowsFit, NoDraft
  <2> QED
    BY <1>1, <1>6, <2>1 DEF CommitInvoice, NewLines
<1>9. new \subseteq LineRow /\ \A l \in new : l[1] = n
  BY <1>3, <1>6, <1>7 DEF LineRow
<1>10. invoice' \in DraftRow /\ invoice'.status # "NONE"
  <2>1. invoice'.status # "NONE" /\ invoice'.status \in {"DRAFT", "ISSUED"}
    <3>1. CASE r.seen = NoDraft
      BY <1>1, <3>1 DEF CommitInvoice, StoredStatus
    <3>2. CASE r.seen # NoDraft
      <4>1. invoice # NoDraft /\ invoice.status \in {"DRAFT", "ISSUED"}
        BY <1>2, <3>2 DEF RunFits, RunInv, RunRowsFit, DraftRow
      <4> QED
        BY <1>1, <3>2, <4>1 DEF CommitInvoice, StoredStatus
    <3> QED
      BY <3>1, <3>2
  <2>2. invoice'.total \in Nat
    <3>1. invoice.total \in Nat
      BY DEF RunInv, RunRowsFit, DraftRow
    <3>2. invoice'.total \in {a, invoice.total}
      BY <1>1, <1>4 DEF CommitInvoice, StoredTotal
    <3> QED
      BY <1>5, <3>1, <3>2
  <2>3. invoice' = [status |-> invoice'.status, total |-> invoice'.total]
    BY DEF CommitInvoice
  <2> QED
    BY <2>1, <2>2, <2>3 DEF DraftRow
<1>11. period' \in {"NONE", "OPEN", "FINALIZED"} /\ (period' = "FINALIZED" => period = "FINALIZED")
       /\ (period # "NONE" => period' = period)
  <2>1. period' = IF r.newPeriod THEN "OPEN" ELSE period
    BY <1>1 DEF CommitInvoice, PeriodAfter
  <2> QED
    BY <1>2, <2>1 DEF RunFits, RunInv, RunRowsFit
<1>12. RunRowsFit'
  <2>1. \A l \in lines' : l[1] <= runs
    BY <1>3, <1>7, <1>8, <1>9
  <2>2. unsaved' \in BOOLEAN
    BY DEF CommitInvoice
  <2>3. UNCHANGED <<billable, runs, closedAt>>
    BY DEF CommitInvoice
  <2>4. /\ billable' \subseteq Operations /\ runs' \in Nat /\ closedAt' \in Nat
        /\ \A l \in lines' : l[1] <= runs'
    BY <2>1, <2>3 DEF RunInv, RunRowsFit
  <2> QED
    BY <1>8, <1>9, <1>10, <1>11, <2>2, <2>4 DEF RunRowsFit
<1>13. TotalMatchesLines'
  <2>1. ~unsaved' => invoice'.total = a
    BY <1>1, <1>4 DEF CommitInvoice
  <2>2. SumOf([l \in new |-> Price[l[2]]], new) = a
    BY <1>3, <1>4, <1>6, NewLinesSum
  <2>3. \A l, k \in new : l[2] = k[2] => l = k
    BY <1>6
  <2> QED
    BY <1>8, <2>1, <2>2, <2>3 DEF TotalMatchesLines
<1>14. NoLateBilling'
  <2> SUFFICES ASSUME period' = "FINALIZED" PROVE \A l \in lines' : l[1] <= closedAt'
    BY DEF NoLateBilling
  <2>1. r.id <= closedAt /\ closedAt' = closedAt
    BY <1>2, <1>11 DEF RunFits, Early, CommitInvoice
  <2> QED
    BY <1>7, <1>8, <1>9, <2>1
<1>15. DOMAIN run' = Runners /\ run'[s] = Resting /\ \A t \in Runners \ {s} : run'[t] = run[t]
  BY DEF RunInv, CommitInvoice
<1>16. RunFits(Resting)'
  <2>1. 0 <= runs'
    BY <1>12 DEF RunRowsFit
  <2> QED
    BY <2>1, RestingShape DEF RunFits, Early
<1>17. ASSUME NEW t \in Runners \ {s}
       PROVE  RunFits(run[t])'
  <2>1. PICK q : q = run[t]
    OBVIOUS
  <2>2. RunFits(q) /\ q.pc # "commit" /\ (r.newPeriod => ~q.newPeriod)
    BY <1>1, <1>2, <2>1 DEF RunInv, RunsApart
  <2>3. invoice' # NoDraft
    BY <1>10 DEF NoDraft
  <2>4. q.newPeriod => period' = "NONE"
    <3>1. period' = IF r.newPeriod THEN "OPEN" ELSE period
      BY <1>1 DEF CommitInvoice, PeriodAfter
    <3> QED
      BY <2>2, <3>1 DEF RunFits
  <2>5. runs' = runs /\ closedAt' = closedAt
    BY DEF CommitInvoice
  <2>6. RunFits(q)'
    BY <1>11, <2>2, <2>3, <2>4, <2>5 DEF RunFits
  <2> QED
    BY <1>15, <2>1, <2>6
<1>18. \A t \in Runners : RunFits(run[t])'
  BY <1>15, <1>16, <1>17
<1>19. \A t, u \in Runners : t # u => RunsApart(run[t], run[u])'
  BY <1>15, RestingApart DEF RunInv
<1> QED
  BY <1>12, <1>13, <1>14, <1>15, <1>18, <1>19 DEF RunInv

(* A run that bills nothing may still leave the period it has inserted.    *)
LEMMA CommitDoneInv ==
    ASSUME RunInv, NEW s \in Runners, CommitDone(s)
    PROVE  RunInv'
<1>1. PICK r : r = run[s]
  OBVIOUS
<1>2. RunFits(r) /\ r \in RunRecord /\ r.pc = "done"
  BY <1>1 DEF RunInv, RunFits, CommitDone
<1>3. period' = IF r.newPeriod THEN "OPEN" ELSE period
  BY <1>1 DEF CommitDone, PeriodAfter
<1>4. /\ period' \in {"NONE", "OPEN", "FINALIZED"}
      /\ period' = "FINALIZED" => period = "FINALIZED"
  BY <1>2, <1>3 DEF RunFits, RunInv, RunRowsFit
<1>5. UNCHANGED <<billable, invoice, lines, runs, unsaved, closedAt>>
  BY DEF CommitDone
<1>6. RunRowsFit' /\ TotalMatchesLines' /\ NoLateBilling'
  BY <1>4, <1>5 DEF RunInv, RunRowsFit, TotalMatchesLines, NoLateBilling
<1>7. DOMAIN run' = Runners /\ run'[s] = Resting /\ \A t \in Runners \ {s} : run'[t] = run[t]
  BY DEF RunInv, CommitDone
<1>8. RunFits(Resting)'
  <2>1. 0 <= runs'
    BY <1>6 DEF RunRowsFit
  <2> QED
    BY <2>1, RestingShape DEF RunFits, Early
<1>9. ASSUME NEW t \in Runners \ {s}
      PROVE  RunFits(run[t])'
  <2>1. PICK q : q = run[t]
    OBVIOUS
  <2>2. RunFits(q) /\ (r.newPeriod => ~q.newPeriod)
    BY <1>1, <2>1 DEF RunInv, RunsApart
  <2>3. q.newPeriod => period' = "NONE"
    BY <1>3, <2>2 DEF RunFits
  <2>4. RunFits(q)'
    BY <1>4, <1>5, <2>2, <2>3 DEF RunFits
  <2> QED
    BY <1>7, <2>1, <2>4
<1>10. \A t \in Runners : RunFits(run[t])'
  BY <1>7, <1>8, <1>9
<1>11. \A t, u \in Runners : t # u => RunsApart(run[t], run[u])'
  BY <1>7, RestingApart DEF RunInv
<1> QED
  BY <1>6, <1>7, <1>10, <1>11 DEF RunInv

(* What others do meanwhile: operations come and go, the period is         *)
(* finalized, and a draft whose row is not locked is issued.               *)
LEMMA MeanwhileInv ==
    ASSUME RunInv, FinalizePeriod \/ IssueDraft \/ \E o \in Operations : ToggleOperation(o)
    PROVE  RunInv'
<1>1. UNCHANGED <<lines, run, runs, unsaved>>
  BY DEF FinalizePeriod, IssueDraft, ToggleOperation
<1>2. \A s, t \in Runners : s # t => RunsApart(run[s], run[t])'
  BY <1>1 DEF RunInv
<1>3. CASE FinalizePeriod
  <2>1. /\ period = "OPEN" /\ period' = "FINALIZED" /\ closedAt' = runs
        /\ UNCHANGED <<billable, invoice>>
    BY <1>3 DEF FinalizePeriod
  <2>2. RunRowsFit' /\ TotalMatchesLines' /\ NoLateBilling'
    BY <1>1, <2>1 DEF RunInv, RunRowsFit, TotalMatchesLines, NoLateBilling
  <2>3. ASSUME NEW t \in Runners
        PROVE  RunFits(run[t])'
    <3>1. PICK q : q = run[t]
      OBVIOUS
    <3>2. RunFits(q)
      BY <3>1 DEF RunInv
    <3>3. RunFits(q)'
      BY <1>1, <2>1, <3>2 DEF RunFits
    <3> QED
      BY <1>1, <3>1, <3>3
  <2> QED
    BY <1>1, <1>2, <2>2, <2>3 DEF RunInv
<1>4. CASE IssueDraft
  <2>1. /\ invoice.status = "DRAFT" /\ invoice' = [invoice EXCEPT !.status = "ISSUED"]
        /\ UNCHANGED <<billable, period, closedAt>>
    BY <1>4 DEF IssueDraft
  <2>2. invoice' \in DraftRow /\ invoice'.status = "ISSUED" /\ invoice'.total = invoice.total
    BY <2>1 DEF RunInv, RunRowsFit, DraftRow
  <2>3. invoice # NoDraft /\ invoice' # NoDraft
    BY <2>1, <2>2 DEF NoDraft
  <2>4. RunRowsFit' /\ NoLateBilling'
    BY <1>1, <2>1, <2>2 DEF RunInv, RunRowsFit, NoLateBilling
  <2>5. TotalMatchesLines'
    BY <1>1, <2>2, <2>3 DEF RunInv, TotalMatchesLines
  <2>6. ASSUME NEW t \in Runners
        PROVE  RunFits(run[t])'
    <3>1. PICK q : q = run[t]
      OBVIOUS
    <3>2. RunFits(q)
      BY <3>1 DEF RunInv
    <3>3. RunFits(q)'
      BY <1>1, <2>1, <2>3, <3>2 DEF RunFits
    <3> QED
      BY <1>1, <3>1, <3>3
  <2> QED
    BY <1>1, <1>2, <2>4, <2>5, <2>6 DEF RunInv
<1>5. CASE \E o \in Operations : ToggleOperation(o)
  <2>1. /\ billable' \subseteq Operations
        /\ UNCHANGED <<period, invoice, closedAt>>
    BY <1>5 DEF ToggleOperation, RunInv, RunRowsFit
  <2>2. RunRowsFit' /\ TotalMatchesLines' /\ NoLateBilling'
    BY <1>1, <2>1 DEF RunInv, RunRowsFit, TotalMatchesLines, NoLateBilling
  <2>3. ASSUME NEW t \in Runners
        PROVE  RunFits(run[t])'
    BY <1>1, <2>1 DEF RunInv, RunFits
  <2> QED
    BY <1>1, <1>2, <2>2, <2>3 DEF RunInv
<1> QED
  BY <1>3, <1>4, <1>5

(* At the beginning nothing runs and nothing is billed.                    *)
LEMMA RunInitInv == RunInit => RunInv
<1> SUFFICES ASSUME RunInit PROVE RunInv
  OBVIOUS
<1>1. NoDraft \in DraftRow /\ 0 \in Nat /\ FALSE \in BOOLEAN
  BY DEF NoDraft, DraftRow
<1>2. RunRowsFit
  BY <1>1 DEF RunInit, RunRowsFit
<1>3. TotalMatchesLines /\ NoLateBilling
  BY DEF RunInit, TotalMatchesLines, NoLateBilling
<1>4. RunFits(Resting)
  <2>1. 0 <= runs
    BY DEF RunInit
  <2> QED
    BY <2>1, RestingShape DEF RunFits, Early
<1> QED
  BY <1>2, <1>3, <1>4, RestingApart DEF RunInit, RunInv

(* Every step of the runs keeps the invariant.                             *)
LEMMA RunNextInv == RunInv /\ [RunNext]_runVars => RunInv'
<1> SUFFICES ASSUME RunInv, [RunNext]_runVars PROVE RunInv'
  OBVIOUS
<1>1. CASE UNCHANGED runVars
  <2>1. UNCHANGED <<billable, period, invoice, lines, run, runs, unsaved, closedAt>>
    BY <1>1 DEF runVars, runRows
  <2>2. \A s \in Runners : RunFits(run[s])'
    BY <2>1 DEF RunInv, RunFits
  <2>3. RunRowsFit' /\ TotalMatchesLines' /\ NoLateBilling'
    BY <2>1 DEF RunInv, RunRowsFit, TotalMatchesLines, NoLateBilling
  <2> QED
    BY <2>1, <2>2, <2>3 DEF RunInv
<1>2. CASE FinalizePeriod \/ IssueDraft \/ \E o \in Operations : ToggleOperation(o)
  BY <1>2, MeanwhileInv
<1>3. ASSUME NEW s \in Runners, RunStep(s) \/ Die(s) \/ \E k \in JobKeys : StartRun(s, k)
      PROVE  RunInv'
  <2>1. CASE \/ PeriodClosed(s) \/ CreatePeriodRaises(s) \/ CreateDraftRaises(s)
             \/ ReplaceLinesRaises(s) \/ Die(s)
    BY <2>1, RaiseInv DEF PeriodClosed, CreatePeriodRaises, CreateDraftRaises,
       ReplaceLinesRaises, Die
  <2>2. CASE \E k \in JobKeys : StartRun(s, k)
    BY <2>2, StartRunInv
  <2>3. CASE FindPeriod(s) \/ PeriodMissing(s) \/ CreatePeriod(s)
    BY <2>3, PeriodInv
  <2>4. CASE QueryOperations(s) \/ DeclineInvoice(s)
    BY <2>4, QueryInv
  <2>5. CASE LoadInvoice(s) \/ CreateDraft(s)
    BY <2>5, LoadInv, CreateDraftInv
  <2>6. CASE StartDelete(s) \/ DeleteLines(s) \/ ReplaceLines(s)
    BY <2>6, RebuildInv
  <2>7. CASE CommitInvoice(s) \/ CommitDone(s)
    BY <2>7, CommitInvoiceInv, CommitDoneInv
  <2> QED
    BY <1>3, <2>1, <2>2, <2>3, <2>4, <2>5, <2>6, <2>7 DEF RunStep
<1> QED
  BY <1>1, <1>2, <1>3 DEF RunNext

(* The runs keep the invariant.                                            *)
THEOREM RunInvariant == RunSpec => []RunInv
<1>1. RunInv /\ [RunNext]_runVars => RunInv'
  BY RunNextInv
<1> QED
  BY <1>1, RunInitInv, PTL DEF RunSpec

(* TotalMatchesLines always holds: however runs overlap, die and wait for  *)
(* each other, no operation is billed on two lines, and the total of the   *)
(* invoice is the sum of its lines unless the last run computed the total  *)
(* it had loaded (_apply_invoice stores what differs).                     *)
THEOREM TotalsAlwaysMatch == RunSpec => []TotalMatchesLines
<1>1. RunInv => TotalMatchesLines
  BY DEF RunInv
<1> QED
  BY <1>1, RunInvariant, PTL

(* ClosedStaysClosed always holds: an issued invoice and its lines are     *)
(* changed only by a run that loaded the invoice as a draft, and no line   *)
(* comes from a run that began after the period was finalized.             *)
THEOREM ClosedAlwaysStaysClosed == RunSpec => ClosedStaysClosed
<1>1. RunInv => NoLateBilling
  BY DEF RunInv
<1>2. RunInv /\ [RunNext]_runVars =>
        [invoice.status = "ISSUED" /\ <<invoice, lines>>' # <<invoice, lines>> =>
            \E s \in Runners : run[s].pc = "commit" /\ run[s].seen.status = "DRAFT"]_runVars
  <2> SUFFICES ASSUME RunInv, RunNext, invoice.status = "ISSUED",
                      <<invoice, lines>>' # <<invoice, lines>>
               PROVE  \E s \in Runners : run[s].pc = "commit" /\ run[s].seen.status = "DRAFT"
    OBVIOUS
  <2>1. \E s \in Runners : CommitInvoice(s)
    <3>1. ~(FinalizePeriod \/ IssueDraft \/ \E o \in Operations : ToggleOperation(o))
      BY DEF FinalizePeriod, IssueDraft, ToggleOperation
    <3>2. PICK s \in Runners : RunStep(s) \/ Die(s) \/ \E k \in JobKeys : StartRun(s, k)
      BY <3>1 DEF RunNext
    <3>3. ~UNCHANGED runRows /\ ~UNCHANGED <<invoice, lines>>
      BY DEF runRows
    <3>4. ~(Die(s) \/ \E k \in JobKeys : StartRun(s, k))
      <4>1. ~Die(s)
        BY <3>3 DEF Die, Raise
      <4>2. ASSUME NEW k \in JobKeys, StartRun(s, k) PROVE FALSE
        <5>1. UNCHANGED runRows
          BY <4>2, Zenon DEF StartRun
        <5> QED
          BY <3>3, <5>1
      <4> QED
        BY <4>1, <4>2
    <3>5. ~(PeriodClosed(s) \/ CreatePeriodRaises(s) \/ CreateDraftRaises(s)
            \/ ReplaceLinesRaises(s))
      BY <3>3 DEF PeriodClosed, CreatePeriodRaises, CreateDraftRaises, ReplaceLinesRaises, Raise
    <3>6. ~(FindPeriod(s) \/ PeriodMissing(s) \/ CreatePeriod(s) \/ QueryOperations(s)
            \/ DeclineInvoice(s) \/ LoadInvoice(s) \/ CreateDraft(s))
      BY <3>3 DEF FindPeriod, PeriodMissing, CreatePeriod, QueryOperations, DeclineInvoice,
         LoadInvoice, CreateDraft
    <3>7. ~(StartDelete(s) \/ DeleteLines(s) \/ ReplaceLines(s) \/ CommitDone(s))
      BY <3>3 DEF StartDelete, DeleteLines, ReplaceLines, CommitDone
    <3> QED
      BY <3>2, <3>4, <3>5, <3>6, <3>7 DEF RunStep
  <2>2. PICK s \in Runners : CommitInvoice(s)
    BY <2>1
  <2>3. RunFits(run[s]) /\ run[s].pc = "commit" /\ invoice # NoDraft
    BY <2>2 DEF RunInv, CommitInvoice, NoDraft
  <2> QED
    BY <2>3 DEF RunFits
<1> QED
  BY <1>1, <1>2, RunInvariant, PTL DEF RunSpec, ClosedStaysClosed, IssuedIsFrozen

(* Runs never wait for each other in a circle: a run that waits for the    *)
(* period or for lines waits for one that is past that place, and the last *)
(* place, the commit, waits for nothing.                                   *)
THEOREM RunsNeverWaitInACircle == RunSpec => []RunsNeverDeadlock
<1>1. RunInv => RunsNeverDeadlock
  <2> SUFFICES ASSUME RunInv, NEW s \in Runners, run[s] # Resting,
                      \A t \in Runners : run[t] # Resting => Waits(t)
               PROVE  FALSE
    BY DEF RunsNeverDeadlock
  <2>1. ASSUME NEW t \in Runners, run[t].pc # "idle"
        PROVE  Waits(t)
    <3>1. Resting.pc = "idle"
      BY DEF Resting
    <3> QED
      BY <2>1, <3>1
  <2>2. ASSUME NEW t \in Runners, run[t].pc = "commit"
        PROVE  FALSE
    BY <2>1, <2>2 DEF Waits
  <2>3. ASSUME NEW t \in Runners, run[t].pc \in {"replace", "create"}
        PROVE  FALSE
    BY <2>1, <2>2, <2>3 DEF Waits, ReplaceWaits, DraftPending
  <2>4. ASSUME NEW t \in Runners, run[t].pc = "deleting"
        PROVE  FALSE
    <3>1. PICK u \in Runners : run[u].deleted # {}
      BY <2>1, <2>4 DEF Waits, DeleteWaits
    <3>2. RunFits(run[u])
      BY DEF RunInv
    <3> QED
      BY <2>2, <2>3, <3>1, <3>2 DEF RunFits
  <2>5. ASSUME NEW t \in Runners, run[t].pc # "idle"
        PROVE  run[t].pc = "newperiod" /\ PeriodPending(t)
    BY <2>1, <2>3, <2>4, <2>5 DEF Waits
  <2>6. RunFits(run[s])
    BY DEF RunInv
  <2>7. PICK u \in Runners : run[u].newPeriod
    BY <2>5, <2>6 DEF RunFits, PeriodPending
  <2>8. RunFits(run[u])
    BY DEF RunInv
  <2> QED
    BY <2>5, <2>7, <2>8 DEF RunFits, Early
<1> QED
  BY <1>1, RunInvariant, PTL

-----------------------------------------------------------------------------
(* BillingFlows: sums of payments, refunds and postings.                   *)

(* A set of rows with amounts.                                             *)
HasAmounts(S) == IsFiniteSet(S) /\ \A r \in S : r.amount \in Nat

(* The sum of amounts is a natural number.                                 *)
LEMMA AmountsType ==
    ASSUME NEW S, HasAmounts(S)
    PROVE  AmountsOf(S) \in Nat
<1>1. PICK f : f = [r \in S |-> r.amount]
  OBVIOUS
<1>2. IsFiniteSet(S) /\ \A r \in S : f[r] \in Nat
  BY <1>1 DEF HasAmounts
<1>3. SumOf(f, S) \in Nat
  BY <1>2, SumType
<1> QED
  BY <1>1, <1>3 DEF AmountsOf

(* No rows, no amount.                                                     *)
LEMMA AmountsEmpty == AmountsOf({}) = 0
BY SumEmpty DEF AmountsOf

(* A new row adds its amount.                                              *)
LEMMA AmountsAdd ==
    ASSUME NEW S, HasAmounts(S), NEW x, x \notin S, x.amount \in Nat
    PROVE  HasAmounts(S \cup {x}) /\ AmountsOf(S \cup {x}) = AmountsOf(S) + x.amount
<1>1. PICK T : T = S \cup {x}
  OBVIOUS
<1>2. IsFiniteSet(T) /\ IsFiniteSet(S)
  BY <1>1, FS_AddElement DEF HasAmounts
<1>3. \A r \in T : r.amount \in Nat
  BY <1>1 DEF HasAmounts
<1>4. PICK f : f = [r \in T |-> r.amount]
  OBVIOUS
<1>5. PICK g : g = [r \in S |-> r.amount]
  OBVIOUS
<1>6. \A r \in S \cup {x} : f[r] \in Int
  BY <1>1, <1>3, <1>4
<1>7. SumOf(f, S \cup {x}) = f[x] + SumOf(f, S)
  BY <1>2, <1>6, SumAdd
<1>8. \A r \in S : f[r] = g[r]
  BY <1>1, <1>4, <1>5
<1>9. SumOf(f, S) = SumOf(g, S)
  BY <1>2, <1>8, SumSame
<1>10. SumOf(g, S) \in Nat
  BY <1>5, AmountsType DEF AmountsOf
<1>11. AmountsOf(T) = SumOf(f, T) /\ AmountsOf(S) = SumOf(g, S) /\ f[x] = x.amount
  BY <1>1, <1>4, <1>5 DEF AmountsOf
<1>12. AmountsOf(T) = AmountsOf(S) + x.amount
  BY <1>1, <1>7, <1>9, <1>10, <1>11
<1> QED
  BY <1>1, <1>2, <1>3, <1>12 DEF HasAmounts

(* A row with another of its amount in its place.                          *)
LEMMA AmountsReplace ==
    ASSUME NEW S, HasAmounts(S), NEW x \in S, NEW y, y \notin S \ {x}, y.amount = x.amount
    PROVE  /\ HasAmounts((S \ {x}) \cup {y})
           /\ AmountsOf((S \ {x}) \cup {y}) = AmountsOf(S)
<1>1. PICK T : T = S \ {x}
  OBVIOUS
<1>2. HasAmounts(T) /\ x \notin T /\ y \notin T /\ T \cup {x} = S
  BY <1>1, FS_RemoveElement DEF HasAmounts
<1>3. x.amount \in Nat /\ y.amount \in Nat
  BY DEF HasAmounts
<1>4. AmountsOf(T \cup {x}) = AmountsOf(T) + x.amount
  BY <1>2, <1>3, AmountsAdd
<1>5. HasAmounts(T \cup {y}) /\ AmountsOf(T \cup {y}) = AmountsOf(T) + y.amount
  BY <1>2, <1>3, AmountsAdd
<1> QED
  BY <1>1, <1>2, <1>4, <1>5

(* Part of a set of rows.                                                  *)
LEMMA AmountsPart ==
    ASSUME NEW S, HasAmounts(S), NEW T, T \subseteq S
    PROVE  HasAmounts(T)
BY FS_Subset DEF HasAmounts

-----------------------------------------------------------------------------
(* What payments P and refunds R say of an invoice.                        *)

PaidIn(P, i) == {p \in P : p.invoice = i}
RefundsIn(P, R, i) == {r \in R : \E p \in P : p.key = r.payment /\ p.invoice = i}
NetIn(P, R, i) == AmountsOf(PaidIn(P, i)) - AmountsOf(RefundsIn(P, R, i))

Tables(P, R) ==
    /\ HasAmounts(P) /\ HasAmounts(R)
    /\ \A p, q \in P : p.key = q.key => p = q
    /\ \A r \in R : \E p \in P : p.key = r.payment

(* The net amount is a number.                                             *)
LEMMA NetType ==
    ASSUME NEW P, NEW R, Tables(P, R), NEW i
    PROVE  /\ AmountsOf(PaidIn(P, i)) \in Nat /\ AmountsOf(RefundsIn(P, R, i)) \in Nat
           /\ HasAmounts(PaidIn(P, i)) /\ HasAmounts(RefundsIn(P, R, i))
           /\ NetIn(P, R, i) \in Int
<1>1. HasAmounts(PaidIn(P, i))
  BY AmountsPart DEF Tables, PaidIn
<1>2. HasAmounts(RefundsIn(P, R, i))
  <2>1. RefundsIn(P, R, i) \subseteq R /\ HasAmounts(R)
    BY DEF Tables, RefundsIn
  <2> QED
    BY <2>1, AmountsPart
<1>3. AmountsOf(PaidIn(P, i)) \in Nat /\ AmountsOf(RefundsIn(P, R, i)) \in Nat
  BY <1>1, <1>2, AmountsType
<1> QED
  BY <1>1, <1>2, <1>3 DEF NetIn

(* An invoice no payment is for.                                           *)
LEMMA NetEmpty ==
    ASSUME NEW P, NEW R, NEW i, \A p \in P : p.invoice # i
    PROVE  NetIn(P, R, i) = 0
<1>1. PaidIn(P, i) = {} /\ RefundsIn(P, R, i) = {}
  BY DEF PaidIn, RefundsIn
<1> QED
  BY <1>1, AmountsEmpty DEF NetIn

(* A payment under a new key adds its amount to its invoice.               *)
LEMMA NetCapture ==
    ASSUME NEW P, NEW R, Tables(P, R), NEW x, x.amount \in Nat,
           \A p \in P : p.key # x.key
    PROVE  /\ Tables(P \cup {x}, R)
           /\ NetIn(P \cup {x}, R, x.invoice) = NetIn(P, R, x.invoice) + x.amount
           /\ \A i : i # x.invoice => NetIn(P \cup {x}, R, i) = NetIn(P, R, i)
<1>1. PICK Q : Q = P \cup {x}
  OBVIOUS
<1>2. x \notin P
  OBVIOUS
<1>3. HasAmounts(P) /\ HasAmounts(Q)
  BY <1>1, <1>2, AmountsAdd DEF Tables
<1>4. Tables(Q, R)
  <2>1. \A p, q \in Q : p.key = q.key => p = q
    BY <1>1 DEF Tables
  <2>2. \A r \in R : \E p \in Q : p.key = r.payment
    BY <1>1 DEF Tables
  <2> QED
    BY <1>3, <2>1, <2>2 DEF Tables
<1>5. \A i : RefundsIn(Q, R, i) = RefundsIn(P, R, i)
  <2> SUFFICES ASSUME NEW i, NEW r \in R
               PROVE  (\E p \in Q : p.key = r.payment /\ p.invoice = i)
                        <=> (\E p \in P : p.key = r.payment /\ p.invoice = i)
    BY DEF RefundsIn
  <2>1. r.payment # x.key
    BY DEF Tables
  <2> QED
    BY <1>1, <2>1
<1>6. \A i : i # x.invoice => PaidIn(Q, i) = PaidIn(P, i)
  BY <1>1 DEF PaidIn
<1>7. NetIn(Q, R, x.invoice) = NetIn(P, R, x.invoice) + x.amount
  <2>1. PICK S : S = PaidIn(P, x.invoice)
    OBVIOUS
  <2>2. HasAmounts(S) /\ x \notin S /\ PaidIn(Q, x.invoice) = S \cup {x}
    BY <1>1, <1>2, <2>1, NetType DEF PaidIn
  <2>3. AmountsOf(S \cup {x}) = AmountsOf(S) + x.amount
    BY <2>2, AmountsAdd
  <2>4. PICK b : b = AmountsOf(RefundsIn(P, R, x.invoice))
    OBVIOUS
  <2>5. b \in Nat /\ AmountsOf(S) \in Nat
    BY <2>1, <2>4, NetType
  <2>6. /\ NetIn(Q, R, x.invoice) = AmountsOf(S \cup {x}) - b
        /\ NetIn(P, R, x.invoice) = AmountsOf(S) - b
    BY <1>5, <2>1, <2>2, <2>4 DEF NetIn
  <2> QED
    BY <2>3, <2>5, <2>6
<1> QED
  BY <1>1, <1>4, <1>5, <1>6, <1>7 DEF NetIn

(* A refund of payment x takes its amount from the invoice of x, whatever  *)
(* becomes of the status of x.                                             *)
LEMMA NetRefund ==
    ASSUME NEW P, NEW R, Tables(P, R), NEW x \in P, NEW y, NEW r, r \notin R,
           y.key = x.key, y.invoice = x.invoice, y.amount = x.amount,
           r.payment = x.key, r.amount \in Nat,
           NEW Q, Q = (P \ {x}) \cup {y}, NEW T, T = R \cup {r}
    PROVE  /\ Tables(Q, T)
           /\ NetIn(Q, T, x.invoice) = NetIn(P, R, x.invoice) - r.amount
           /\ \A i : i # x.invoice => NetIn(Q, T, i) = NetIn(P, R, i)
<1>1. Q = (P \ {x}) \cup {y}
  OBVIOUS
<1>2. T = R \cup {r}
  OBVIOUS
<1>3. y \notin P \ {x}
  BY DEF Tables
<1>4. HasAmounts(Q) /\ HasAmounts(T)
  <2>1. HasAmounts(P) /\ HasAmounts(R)
    BY DEF Tables
  <2>2. HasAmounts(Q)
    BY <1>1, <1>3, <2>1, AmountsReplace
  <2>3. HasAmounts(T)
    BY <1>2, <2>1, AmountsAdd
  <2> QED
    BY <2>2, <2>3
<1>5. \A k, i : (\E p \in Q : p.key = k /\ p.invoice = i)
                  <=> (\E p \in P : p.key = k /\ p.invoice = i)
  BY <1>1
<1>6. Tables(Q, T)
  <2>1. \A p, q \in Q : p.key = q.key => p = q
    BY <1>1 DEF Tables
  <2>2. \A t \in T : \E p \in Q : p.key = t.payment
    BY <1>1, <1>2 DEF Tables
  <2> QED
    BY <1>4, <2>1, <2>2 DEF Tables
<1>7. \A i : AmountsOf(PaidIn(Q, i)) = AmountsOf(PaidIn(P, i))
  <2> SUFFICES ASSUME NEW i PROVE AmountsOf(PaidIn(Q, i)) = AmountsOf(PaidIn(P, i))
    OBVIOUS
  <2>1. CASE i # x.invoice
    <3>1. PaidIn(Q, i) = PaidIn(P, i)
      BY <1>1, <2>1 DEF PaidIn
    <3> QED
      BY <3>1
  <2>2. CASE i = x.invoice
    <3>1. PICK S : S = PaidIn(P, i)
      OBVIOUS
    <3>2. HasAmounts(S) /\ x \in S /\ y \notin S \ {x} /\ PaidIn(Q, i) = (S \ {x}) \cup {y}
      <4>1. HasAmounts(S)
        BY <3>1, NetType
      <4>2. x \in S /\ y \notin S \ {x}
        BY <1>3, <2>2, <3>1 DEF PaidIn
      <4>3. \A p : p \in PaidIn(Q, i) <=> p \in (S \ {x}) \cup {y}
        BY <1>1, <2>2, <3>1 DEF PaidIn
      <4> QED
        BY <4>1, <4>2, <4>3
    <3>3. AmountsOf((S \ {x}) \cup {y}) = AmountsOf(S)
      BY <3>2, AmountsReplace
    <3> QED
      BY <3>1, <3>2, <3>3
  <2> QED
    BY <2>1, <2>2
<1>8. \A i : i # x.invoice => RefundsIn(Q, T, i) = RefundsIn(P, R, i)
  <2> SUFFICES ASSUME NEW i, i # x.invoice PROVE RefundsIn(Q, T, i) = RefundsIn(P, R, i)
    OBVIOUS
  <2>1. ~(\E p \in P : p.key = r.payment /\ p.invoice = i)
    BY DEF Tables
  <2>2. \A t : t \in RefundsIn(Q, T, i) <=> t \in RefundsIn(P, R, i)
    <3> SUFFICES ASSUME NEW t PROVE t \in RefundsIn(Q, T, i) <=> t \in RefundsIn(P, R, i)
      OBVIOUS
    <3>1. CASE t = r
      BY <1>5, <2>1, <3>1 DEF RefundsIn
    <3>2. CASE t # r
      BY <1>2, <1>5, <3>2 DEF RefundsIn
    <3> QED
      BY <3>1, <3>2
  <2> QED
    BY <2>2
<1>9. NetIn(Q, T, x.invoice) = NetIn(P, R, x.invoice) - r.amount
  <2>1. PICK S : S = RefundsIn(P, R, x.invoice)
    OBVIOUS
  <2>2. HasAmounts(S) /\ r \notin S
    <3>1. HasAmounts(S)
      BY <2>1, NetType
    <3>2. r \notin S
      BY <2>1 DEF RefundsIn
    <3> QED
      BY <3>1, <3>2
  <2>3. RefundsIn(Q, T, x.invoice) = S \cup {r}
    BY <1>2, <1>5, <2>1 DEF RefundsIn
  <2>4. AmountsOf(S \cup {r}) = AmountsOf(S) + r.amount
    BY <2>2, AmountsAdd
  <2>5. PICK b : b = AmountsOf(PaidIn(P, x.invoice))
    OBVIOUS
  <2>6. b \in Nat /\ AmountsOf(S) \in Nat
    BY <2>1, <2>5, NetType
  <2>7. /\ NetIn(Q, T, x.invoice) = b - AmountsOf(S \cup {r})
        /\ NetIn(P, R, x.invoice) = b - AmountsOf(S)
    BY <1>7, <2>1, <2>3, <2>5 DEF NetIn
  <2> QED
    BY <2>4, <2>6, <2>7
<1> QED
  BY <1>1, <1>2, <1>6, <1>7, <1>8, <1>9 DEF NetIn

(* What the rows say now.                                                  *)
LEMMA NetIsNetIn == \A i : Net(i) = NetIn(payments, refunds, i)
BY DEF Net, PaidTotal, RefundsOf, NetIn, PaidIn, RefundsIn

-----------------------------------------------------------------------------
(* BillingFlows: steps of one command.                                     *)

(* The rows are what they were.                                            *)
LEMMA RowsStay ==
    ASSUME RowsInv, UNCHANGED <<rows, missed>>
    PROVE  RowsInv'
<1>1. UNCHANGED <<invoices, payments, refunds, intakes, ledger, subscription, missed>>
  BY DEF rows
<1>2. TablesAreFinite'
  BY <1>1 DEF RowsInv, TablesAreFinite, Entries
<1>3. InvoicesThere' /\ PaymentsFit'
  BY <1>1 DEF RowsInv, InvoicesThere, PaymentsFit, IntakePaid, PaymentKeys
<1>4. PostingsFit'
  BY <1>1 DEF RowsInv, PostingsFit, HasRow, PaymentKeys
<1>5. \A i : Net(i)' = Net(i) /\ Receivable(i)' = Receivable(i)
  BY <1>1 DEF Net, PaidTotal, RefundsOf, Receivable, Entries
<1>6. InvoiceMatchesPayments' /\ ReceivableMatchesRows'
  BY <1>1, <1>5 DEF RowsInv, InvoiceMatchesPayments, ReceivableMatchesRows
<1>7. PaymentStatusMatches' /\ ApprovedIsCaptured'
  BY <1>1 DEF RowsInv, PaymentStatusMatches, ApprovedIsCaptured
<1> QED
  BY <1>1, <1>2, <1>3, <1>4, <1>6, <1>7 DEF RowsInv

(* A command that fitted the rows still does.                              *)
LEMMA FitsStay ==
    ASSUME UNCHANGED rows, NEW c, CommandFits(c)
    PROVE  CommandFits(c)'
<1>1. UNCHANGED <<invoices, payments, refunds, intakes, ledger>>
  BY DEF rows
<1>2. RowExists(c)' <=> RowExists(c)
  BY <1>1 DEF RowExists, PaymentKeys
<1>3. InLedger(c)' <=> InLedger(c)
  BY <1>1 DEF InLedger
<1>4. Result(c)' = Result(c)
  BY <1>1 DEF Result, NetWith, Net, PaidTotal, RefundsOf
<1>5. /\ IssueFits(c)' <=> IssueFits(c)
      /\ CaptureFits(c)' <=> CaptureFits(c)
      /\ RefundFits(c)' <=> RefundFits(c)
  BY <1>1 DEF IssueFits, CaptureFits, RefundFits
<1>6. /\ ApproveFits(c)' <=> ApproveFits(c)
      /\ SubmitFits(c)' <=> SubmitFits(c)
  BY <1>1 DEF ApproveFits, SubmitFits, PaymentKeys
<1> QED
  BY <1>2, <1>3, <1>4, <1>5, <1>6 DEF CommandFits

(* Being apart is symmetric.                                               *)
LEMMA ApartSymmetric == \A c, d : CommandsApart(c, d) => CommandsApart(d, c)
BY DEF CommandsApart

(* The commands after a step of session s that leaves it with c.           *)
LEMMA CommandsMove ==
    ASSUME CommandsInv, NEW s \in Sessions, NEW c, cmd' = [cmd EXCEPT ![s] = c],
           CommandFits(c)', \A t \in Sessions \ {s} : CommandFits(cmd[t])' ,
           \A t \in Sessions \ {s} : cmd'[t] = cmd[t],
           \A t \in Sessions \ {s} : CommandsApart(c, cmd[t])
    PROVE  CommandsInv'
<1>1. cmd' \in [Sessions -> Command] /\ cmd'[s] = c
  BY DEF CommandsInv, CommandFits
<1>2. \A t \in Sessions : CommandFits(cmd[t])'
  BY <1>1
<1>3. \A t, u \in Sessions : t # u => CommandsApart(cmd[t], cmd[u])'
  <2>1. \A t \in Sessions \ {s} : CommandsApart(c, cmd[t]) /\ CommandsApart(cmd[t], c)
    BY ApartSymmetric
  <2>2. \A t, u \in Sessions : t # u => CommandsApart(cmd[t], cmd[u])
    BY DEF CommandsInv
  <2>3. ASSUME NEW t \in Sessions, NEW u \in Sessions, t # u
        PROVE  CommandsApart(cmd'[t], cmd'[u])
    BY <1>1, <2>1, <2>2, <2>3
  <2> QED
    BY <2>3
<1> QED
  BY <1>1, <1>2, <1>3 DEF CommandsInv

(* A step that changes one command and no row.                             *)
LEMMA CommandMoves ==
    ASSUME FlowInv, NEW s \in Sessions, NEW c, cmd' = [cmd EXCEPT ![s] = c],
           UNCHANGED <<rows, missed>>, begun' \in 0..MaxCommands,
           CommandFits(c), \A t \in Sessions \ {s} : CommandsApart(c, cmd[t])
    PROVE  FlowInv'
<1>1. RowsInv'
  BY RowsStay DEF FlowInv
<1>2. CommandFits(c)'
  BY FitsStay
<1>3. \A t \in Sessions \ {s} : cmd'[t] = cmd[t]
  BY DEF FlowInv, CommandsInv
<1>4. ASSUME NEW t \in Sessions \ {s}
      PROVE  CommandFits(cmd[t])'
  <2>1. PICK d : d = cmd[t]
    OBVIOUS
  <2>2. CommandFits(d)
    BY <2>1 DEF FlowInv, CommandsInv
  <2>3. CommandFits(d)'
    BY <2>2, FitsStay
  <2> QED
    BY <1>3, <2>1, <2>3
<1>5. CommandsInv'
  BY <1>2, <1>3, <1>4, CommandsMove DEF FlowInv
<1> QED
  BY <1>1, <1>5 DEF FlowInv

(* An idle session has nothing.                                            *)
LEMMA IdleShape ==
    /\ Idle \in Command
    /\ Idle.op = "none" /\ Idle.pc = "idle" /\ Idle.posted = FALSE /\ Idle.intake = NoRef
<1>1. NoInvoice \in InvoiceRow /\ 0 \in Nat /\ 0 \in Int
  BY DEF NoInvoice, InvoiceRow
<1> QED
  BY <1>1 DEF Idle, Command, Places, Ops

(* It fits any rows ...                                                    *)
LEMMA IdleFits == CommandFits(Idle)
BY IdleShape DEF CommandFits, Holding

(* ... and is apart from every command.                                    *)
LEMMA IdleApart == \A d : CommandsApart(Idle, d)
BY IdleShape DEF CommandsApart

(* A command that raises, is refused or dies leaves nothing.               *)
LEMMA GiveUpInv ==
    ASSUME FlowInv, NEW s \in Sessions, cmd' = [cmd EXCEPT ![s] = Idle],
           UNCHANGED <<rows, begun, missed>>
    PROVE  FlowInv'
<1>1. begun' \in 0..MaxCommands
  BY DEF FlowInv
<1> QED
  BY <1>1, IdleFits, IdleApart, CommandMoves

(* A command that neither inserts an intake nor holds a header or a case   *)
(* is apart from every other.                                              *)
LEMMA ApartBefore ==
    ASSUME NEW c, c.op # "submit", c.posted = FALSE, c.pc \notin {"row", "commit"}
    PROVE  \A d : CommandsApart(c, d)
BY DEF CommandsApart

(* A bounded command begins.                                               *)
LEMMA BeginInv ==
    ASSUME FlowInv, NEW s \in Sessions, NEW c, Begin(s, c), CommandFits(c),
           c.op # "submit", c.posted = FALSE, c.pc \notin {"row", "commit"}
    PROVE  FlowInv'
<1>1. begun' \in 0..MaxCommands
  BY FlowAmounts DEF FlowAmounts, FlowInv, Begin
<1>2. cmd' = [cmd EXCEPT ![s] = c] /\ UNCHANGED <<rows, missed>>
  BY DEF Begin
<1>3. \A t \in Sessions \ {s} : CommandsApart(c, cmd[t])
  BY ApartBefore
<1> QED
  BY <1>1, <1>2, <1>3, CommandMoves

(* issue_invoice begins: there is no invoice under the key.                *)
LEMMA IssueInvoiceInv ==
    ASSUME FlowInv, NEW s \in Sessions, NEW t \in Tenants, NEW i \in Invoices,
           IssueInvoice(s, t, i)
    PROVE  FlowInv'
<1>1. PICK c : c = [Idle EXCEPT !.pc = "sequence", !.op = "issue", !.tenant = t, !.key = i,
                                !.invoice = i, !.amount = Total]
  OBVIOUS
<1>2. /\ c.pc = "sequence" /\ c.op = "issue" /\ c.tenant = t /\ c.key = i
      /\ c.invoice = i /\ c.amount = Total /\ c.seen = NoInvoice /\ c.posted = FALSE
  BY <1>1 DEF Idle
<1>3. c \in Command
  <2>1. Idle \in Command /\ Total \in Nat
    BY IdleShape, FlowAmounts DEF FlowAmounts
  <2>2. "sequence" \in Places /\ "issue" \in Ops
    BY DEF Places, Ops
  <2> QED
    BY <1>1, <2>1, <2>2 DEF Command
<1>4. CommandFits(c)
  BY <1>2, <1>3 DEF CommandFits, IssueFits, Posts, Holding
<1>5. Begin(s, c)
  BY <1>1 DEF IssueInvoice
<1> QED
  BY <1>2, <1>4, <1>5, BeginInv

(* capture_payment begins: the invoice is there.                           *)
LEMMA CapturePaymentInv ==
    ASSUME FlowInv, NEW s \in Sessions, NEW t \in Tenants, NEW i \in Invoices,
           NEW k \in CaptureKeys, NEW a \in Amounts, CapturePayment(s, t, i, k, a)
    PROVE  FlowInv'
<1>1. PICK v : v = invoices[i]
  OBVIOUS
<1>2. v \in InvoiceRow
  BY <1>1 DEF FlowInv, RowsInv
<1>3. PICK c : c = [Idle EXCEPT !.pc = "sequence", !.op = "capture", !.tenant = t, !.key = k,
                                !.invoice = i, !.amount = a, !.seen = v]
  OBVIOUS
<1>4. /\ c.pc = "sequence" /\ c.op = "capture" /\ c.tenant = t /\ c.key = k
      /\ c.invoice = i /\ c.amount = a /\ c.posted = FALSE
  BY <1>3 DEF Idle
<1>5. a \in Nat /\ a > 0
  BY FlowAmounts DEF FlowAmounts
<1>6. c \in Command
  <2>1. Idle \in Command /\ k \in Keys
    BY IdleShape DEF Keys
  <2>2. "sequence" \in Places /\ "capture" \in Ops
    BY DEF Places, Ops
  <2> QED
    BY <1>2, <1>3, <1>5, <2>1, <2>2 DEF Command
<1>7. CommandFits(c)
  BY <1>4, <1>5, <1>6 DEF CommandFits, CaptureFits, Posts, Holding, CapturePayment
<1>8. Begin(s, c)
  BY <1>1, <1>3 DEF CapturePayment
<1> QED
  BY <1>4, <1>7, <1>8, BeginInv

(* refund_payment begins: the payment is there.                            *)
LEMMA RefundPaymentInv ==
    ASSUME FlowInv, NEW s \in Sessions, NEW t \in Tenants, NEW p \in payments,
           NEW k \in RefundKeys, NEW a \in Amounts, RefundPayment(s, t, p, k, a)
    PROVE  FlowInv'
<1>1. PICK v : v = invoices[p.invoice]
  OBVIOUS
<1>2. p.key \in Keys /\ p.invoice \in Invoices
  BY DEF FlowInv, RowsInv, PaymentRow
<1>3. v \in InvoiceRow
  BY <1>1, <1>2 DEF FlowInv, RowsInv
<1>4. PICK c : c = [Idle EXCEPT !.pc = "sequence", !.op = "refund", !.tenant = t, !.key = k,
                                !.ref = p.key, !.invoice = p.invoice, !.amount = a,
                                !.seen = v]
  OBVIOUS
<1>5. /\ c.pc = "sequence" /\ c.op = "refund" /\ c.tenant = t /\ c.key = k
      /\ c.ref = p.key /\ c.invoice = p.invoice /\ c.amount = a /\ c.posted = FALSE
  BY <1>4 DEF Idle
<1>6. a \in Nat /\ a > 0
  BY FlowAmounts DEF FlowAmounts
<1>7. c \in Command
  <2>1. Idle \in Command
    BY IdleShape
  <2>2. "sequence" \in Places /\ "refund" \in Ops
    BY DEF Places, Ops
  <2> QED
    BY <1>2, <1>3, <1>4, <1>6, <2>1, <2>2 DEF Command
<1>8. CommandFits(c)
  BY <1>5, <1>6, <1>7 DEF CommandFits, RefundFits, Posts, Holding
<1>9. Begin(s, c)
  BY <1>1, <1>4 DEF RefundPayment
<1> QED
  BY <1>5, <1>8, <1>9, BeginInv

(* approve_payment_intake begins with the intake as it is.                 *)
LEMMA ApproveIntakeInv ==
    ASSUME FlowInv, NEW s \in Sessions, NEW n \in Intakes, ApproveIntake(s, n)
    PROVE  FlowInv'
<1>1. PICK v : v = intakes[n]
  OBVIOUS
<1>2. v \in IntakeRow /\ v.status # "NONE"
  BY <1>1 DEF FlowInv, RowsInv, ApproveIntake, Approvable
<1>3. v.invoice \in Invoices /\ v.amount \in Nat
  BY <1>1, <1>2 DEF FlowInv, RowsInv, InvoicesThere, IntakeRow
<1>4. PICK c : c = [Idle EXCEPT !.pc = "review", !.op = "approve", !.tenant = OrgTenant,
                                !.key = n, !.intake = n, !.invoice = v.invoice,
                                !.amount = v.amount]
  OBVIOUS
<1>5. /\ c.pc = "review" /\ c.op = "approve" /\ c.tenant = OrgTenant /\ c.key = n
      /\ c.intake = n /\ c.invoice = v.invoice /\ c.amount = v.amount /\ c.posted = FALSE
  BY <1>4 DEF Idle
<1>6. c \in Command
  <2>1. Idle \in Command /\ n \in Keys /\ OrgTenant \in Tenants
    BY IdleShape, FlowAmounts DEF FlowAmounts, Keys
  <2>2. "review" \in Places /\ "approve" \in Ops
    BY DEF Places, Ops
  <2> QED
    BY <1>3, <1>4, <2>1, <2>2 DEF Command
<1>7. CommandFits(c)
  BY <1>1, <1>2, <1>5, <1>6 DEF CommandFits, ApproveFits, Posts, Holding
<1>8. Begin(s, c)
  BY <1>1, <1>4 DEF ApproveIntake
<1> QED
  BY <1>5, <1>7, <1>8, BeginInv

(* The portal submits an intake: nobody else uses its id.                  *)
LEMMA SubmitIntakeInv ==
    ASSUME FlowInv, NEW s \in Sessions, NEW n \in Intakes, NEW i \in Invoices,
           SubmitIntake(s, n, i)
    PROVE  FlowInv'
<1>1. PICK a : a = Due(i)
  OBVIOUS
<1>2. a \in Nat /\ a > 0
  <2>1. invoices[i].paid \in Int
    BY DEF FlowInv, RowsInv, InvoiceRow
  <2> QED
    BY <1>1, <2>1, FlowAmounts DEF FlowAmounts, SubmitIntake, Due
<1>3. PICK c : c = [Idle EXCEPT !.pc = "insert", !.op = "submit", !.intake = n,
                                !.invoice = i, !.amount = a]
  OBVIOUS
<1>4. /\ c.pc = "insert" /\ c.op = "submit" /\ c.intake = n /\ c.invoice = i
      /\ c.amount = a /\ c.posted = FALSE
  BY <1>3 DEF Idle
<1>5. c \in Command
  <2>1. Idle \in Command
    BY IdleShape
  <2>2. "insert" \in Places /\ "submit" \in Ops
    BY DEF Places, Ops
  <2> QED
    BY <1>2, <1>3, <2>1, <2>2 DEF Command
<1>6. CommandFits(c)
  BY <1>2, <1>4, <1>5 DEF CommandFits, SubmitFits, Holding, SubmitIntake
<1>7. \A t \in Sessions \ {s} : CommandsApart(c, cmd[t])
  BY <1>4 DEF CommandsApart, SubmitIntake
<1>8. cmd' = [cmd EXCEPT ![s] = c] /\ UNCHANGED <<rows, missed>>
  BY <1>1, <1>3 DEF SubmitIntake
<1>9. begun' \in 0..MaxCommands
  BY DEF FlowInv, SubmitIntake
<1> QED
  BY <1>6, <1>7, <1>8, <1>9, CommandMoves

(* k is the command c further on.                                          *)
SameCommand(k, c) ==
    /\ k.op = c.op /\ k.tenant = c.tenant /\ k.key = c.key /\ k.ref = c.ref
    /\ k.invoice = c.invoice /\ k.intake = c.intake /\ k.amount = c.amount
    /\ k.due = c.due

(* The conjuncts of CommandFits that depend on the operation.              *)
OperationFits(c) ==
    /\ c.op = "none" => c = Idle
    /\ c.op = "issue" => IssueFits(c)
    /\ c.op = "capture" => CaptureFits(c)
    /\ c.op = "refund" => RefundFits(c)
    /\ c.op = "approve" => ApproveFits(c)
    /\ c.op = "submit" => SubmitFits(c)

(* Which operation is where.                                               *)
LEMMA OperationAt ==
    ASSUME NEW c, CommandFits(c)
    PROVE  /\ c \in Command /\ OperationFits(c)
           /\ c.pc \in {"review", "due", "load", "approved"} => c.op = "approve"
           /\ c.pc = "insert" => c.op = "submit"
           /\ c.pc \in Posts => c.op \in {"issue", "capture", "refund", "approve"}
<1>1. c \in Command /\ OperationFits(c)
  BY DEF CommandFits, OperationFits
<1>2. c.op \in {"none", "issue", "capture", "refund", "approve", "submit"}
  BY <1>1 DEF Command, Ops
<1>3. c.op = "none" => c.pc = "idle"
  BY <1>1, IdleShape DEF OperationFits
<1>4. c.op \in {"issue", "capture", "refund"} => c.pc \in Posts
  BY <1>1 DEF OperationFits, IssueFits, CaptureFits, RefundFits
<1>5. c.op = "approve" => c.pc \in Posts \cup {"review", "due", "load", "approved"}
  BY <1>1 DEF OperationFits, ApproveFits
<1>6. c.op = "submit" => c.pc = "insert"
  BY <1>1 DEF OperationFits, SubmitFits
<1> QED
  BY <1>1, <1>2, <1>3, <1>4, <1>5, <1>6 DEF Posts, Holding

(* A command keeps fitting its operation while it posts.                   *)
LEMMA PostingFits ==
    ASSUME NEW c, CommandFits(c), c.pc \in Posts, NEW k, SameCommand(k, c), k.pc \in Posts,
           k.seen = c.seen
    PROVE  OperationFits(k)
<1>1. OperationFits(c) /\ c.op \in {"issue", "capture", "refund", "approve"}
  BY OperationAt
<1>2. k.op = c.op
  BY DEF SameCommand
<1>3. CASE c.op = "issue"
  BY <1>1, <1>2, <1>3 DEF OperationFits, SameCommand, IssueFits
<1>4. CASE c.op = "capture"
  BY <1>1, <1>2, <1>4 DEF OperationFits, SameCommand, CaptureFits
<1>5. CASE c.op = "refund"
  BY <1>1, <1>2, <1>5 DEF OperationFits, SameCommand, RefundFits
<1>6. CASE c.op = "approve"
  <2>1. ApproveFits(c) /\ k.pc \notin {"review", "due", "approved"}
    BY <1>1, <1>6 DEF OperationFits, Posts, Holding
  <2>2. c.pc \notin {"review", "due"}
    BY DEF Posts, Holding
  <2>3. ApproveFits(k)
    BY <2>1, <2>2 DEF ApproveFits, SameCommand
  <2> QED
    BY <1>2, <1>6, <2>3 DEF OperationFits
<1> QED
  BY <1>1, <1>3, <1>4, <1>5, <1>6

(* The header, the row and the result of a command do not depend on where  *)
(* it is.                                                                  *)
LEMMA SameKeys ==
    ASSUME NEW c, NEW k, SameCommand(k, c)
    PROVE  /\ InLedger(k) <=> InLedger(c)
           /\ RowExists(k) <=> RowExists(c)
           /\ Result(k) = Result(c)
           /\ Kind(k) = Kind(c)
<1>1. Kind(k) = Kind(c)
  BY DEF SameCommand, Kind
<1>2. InLedger(k) <=> InLedger(c)
  BY <1>1 DEF SameCommand, InLedger, SameKey
<1>3. RowExists(k) <=> RowExists(c)
  BY DEF SameCommand, RowExists
<1>4. Result(k) = Result(c)
  BY DEF SameCommand, Result, NetWith
<1> QED
  BY <1>1, <1>2, <1>3, <1>4

(* The review locks the intake, the check compares, the load reads the     *)
(* invoice.                                                                *)
LEMMA ApprovalInv ==
    ASSUME FlowInv, NEW s \in Sessions, ReviewIntake(s) \/ CheckDue(s) \/ LoadForIntake(s)
    PROVE  FlowInv'
<1>1. PICK c : c = cmd[s]
  OBVIOUS
<1>2. CommandFits(c) /\ c \in Command /\ c.pc \in {"review", "due", "load"}
  BY <1>1 DEF FlowInv, CommandsInv, CommandFits, ReviewIntake, CheckDue, LoadForIntake
<1>3. c.op = "approve" /\ ApproveFits(c) /\ c.posted = FALSE
  <2>1. c.op = "approve" /\ ApproveFits(c)
    BY <1>2, OperationAt DEF OperationFits
  <2>2. ~c.posted /\ c.posted \in BOOLEAN
    BY <1>2 DEF CommandFits, Holding, Command
  <2> QED
    BY <2>1, <2>2
<1>4. c.invoice \in Invoices
  BY <1>3 DEF ApproveFits, FlowInv, RowsInv, InvoicesThere
<1>5. UNCHANGED <<rows, missed>> /\ begun' \in 0..MaxCommands
  BY DEF FlowInv, ReviewIntake, CheckDue, LoadForIntake
<1>6. CASE ReviewIntake(s)
  <2>1. PICK k : k = [c EXCEPT !.pc = "due"]
    OBVIOUS
  <2>2. cmd' = [cmd EXCEPT ![s] = k]
    BY <1>1, <1>6, <2>1 DEF ReviewIntake
  <2>3. "due" \in Places
    BY DEF Places
  <2>4. k \in Command /\ k.pc = "due" /\ SameCommand(k, c) /\ k.posted = FALSE
    BY <1>2, <1>3, <2>1, <2>3 DEF Command, SameCommand
  <2>5. ApproveFits(k)
    BY <1>3, <2>4 DEF ApproveFits, SameCommand
  <2>6. CommandFits(k)
    BY <1>3, <2>4, <2>5 DEF CommandFits, SameCommand, Holding
  <2>7. \A t \in Sessions \ {s} : CommandsApart(k, cmd[t])
    BY <1>3, <2>4, ApartBefore DEF SameCommand
  <2> QED
    BY <1>5, <2>2, <2>6, <2>7, CommandMoves
<1>7. CASE CheckDue(s)
  <2>1. PICK d : d = Due(c.invoice)
    OBVIOUS
  <2>2. d \in Int /\ c.amount <= d
    <3>1. invoices[c.invoice].paid \in Int
      BY <1>4 DEF FlowInv, RowsInv, InvoiceRow
    <3> QED
      BY <1>1, <1>7, <2>1, <3>1, FlowAmounts DEF FlowAmounts, CheckDue, Coverable, Due
  <2>3. PICK k : k = [c EXCEPT !.pc = "load", !.due = d]
    OBVIOUS
  <2>4. cmd' = [cmd EXCEPT ![s] = k]
    BY <1>1, <1>7, <2>1, <2>3 DEF CheckDue
  <2>5. "load" \in Places
    BY DEF Places
  <2>6. /\ k \in Command /\ k.pc = "load" /\ k.posted = FALSE /\ k.due = d
        /\ k.op = c.op /\ k.tenant = c.tenant /\ k.key = c.key
        /\ k.invoice = c.invoice /\ k.intake = c.intake /\ k.amount = c.amount
    BY <1>2, <1>3, <2>2, <2>3, <2>5 DEF Command
  <2>7. ApproveFits(k)
    BY <1>3, <2>2, <2>6 DEF ApproveFits
  <2>8. CommandFits(k)
    BY <1>3, <2>6, <2>7 DEF CommandFits, Holding
  <2>9. \A t \in Sessions \ {s} : CommandsApart(k, cmd[t])
    BY <1>3, <2>6, ApartBefore
  <2> QED
    BY <1>5, <2>4, <2>8, <2>9, CommandMoves
<1>8. CASE LoadForIntake(s)
  <2>1. PICK v : v = invoices[c.invoice]
    OBVIOUS
  <2>2. v \in InvoiceRow
    BY <1>4, <2>1 DEF FlowInv, RowsInv
  <2>3. PICK p : p = IF c.intake \in PaymentKeys THEN "approved" ELSE "sequence"
    OBVIOUS
  <2>4. p \in Places /\ p \in {"approved", "sequence"} /\ (p = "approved" => c.intake \in PaymentKeys)
    BY <2>3 DEF Places
  <2>5. PICK k : k = [c EXCEPT !.seen = v, !.pc = p]
    OBVIOUS
  <2>6. cmd' = [cmd EXCEPT ![s] = k] /\ c.pc = "load"
    <3>1. cmd' = [cmd EXCEPT ![s].seen = v, ![s].pc = p]
      BY <1>1, <1>8, <2>1, <2>3 DEF LoadForIntake
    <3> QED
      BY <1>1, <1>8, <2>5, <3>1 DEF LoadForIntake
  <2>7. k \in Command /\ k.pc = p /\ SameCommand(k, c) /\ k.posted = FALSE
    BY <1>2, <1>3, <2>2, <2>4, <2>5 DEF Command, SameCommand
  <2>8. ApproveFits(k)
    BY <1>3, <2>4, <2>6, <2>7 DEF ApproveFits, SameCommand, Posts, Holding
  <2>9. CommandFits(k)
    BY <1>3, <2>4, <2>7, <2>8 DEF CommandFits, SameCommand, Holding
  <2>10. \A t \in Sessions \ {s} : CommandsApart(k, cmd[t])
    BY <1>3, <2>4, <2>7, ApartBefore DEF SameCommand
  <2> QED
    BY <1>5, <2>6, <2>9, <2>10, CommandMoves
<1> QED
  BY <1>6, <1>7, <1>8

(* The rows have the shape the lemmas on sums ask for.                     *)
LEMMA TablesNow ==
    ASSUME RowsInv
    PROVE  Tables(payments, refunds)
<1>1. \A p \in payments : p.amount \in Nat
  BY DEF RowsInv, PaymentRow
<1>2. \A r \in refunds : r.amount \in Nat
  BY DEF RowsInv, RefundRow
<1>3. HasAmounts(payments) /\ HasAmounts(refunds)
  BY <1>1, <1>2 DEF RowsInv, TablesAreFinite, HasAmounts
<1> QED
  BY <1>3 DEF RowsInv, PaymentsFit, PaymentKeys, Tables

(* What the rows say of an invoice is a number, and the status of a sum is *)
(* one of three.                                                           *)
LEMMA NetIsInt ==
    ASSUME RowsInv, NEW i
    PROVE  Net(i) \in Int
BY TablesNow, NetType, NetIsNetIn

(* The status that _update_invoice_status computes.                        *)
LEMMA StatusOfType ==
    ASSUME NEW n \in Int
    PROVE  StatusOf(n) \in Statuses /\ (n >= Total => StatusOf(n) = "PAID")
           /\ (StatusOf(n) = "PAID" => n >= Total)
BY FlowAmounts DEF FlowAmounts, StatusOf, Statuses

(* The result of a command is a row of an invoice.                         *)
LEMMA ResultType ==
    ASSUME RowsInv, NEW c \in Command
    PROVE  Result(c) \in InvoiceRow /\ Result(c).status \in Statuses
<1>1. PICK net : net = IF c.op = "issue" THEN 0 ELSE NetWith(c)
  OBVIOUS
<1>2. net \in Int
  <2>1. PICK m : m = Net(c.invoice)
    OBVIOUS
  <2>2. m \in Int /\ c.amount \in Nat
    BY <2>1, NetIsInt DEF Command
  <2>3. NetWith(c) \in Int
    BY <2>1, <2>2 DEF NetWith
  <2> QED
    BY <1>1, <2>3
<1>3. Result(c) = [paid |-> net, status |-> StatusOf(net)]
  BY <1>1 DEF Result
<1>4. StatusOf(net) \in Statuses
  BY <1>2, StatusOfType
<1> QED
  BY <1>2, <1>3, <1>4 DEF InvoiceRow

(* A posting found under the key of a command has its row.                 *)
LEMMA FoundHasRow ==
    ASSUME RowsInv, NEW c, CommandFits(c), c.pc \in Posts, InLedger(c)
    PROVE  RowExists(c)
<1>1. PICK t \in Tenants : \E x \in ledger[t] : SameKey(x, c)
  BY DEF InLedger
<1>2. PICK x \in ledger[t] : SameKey(x, c)
  BY <1>1
<1>3. HasRow(x) /\ x.kind = Kind(c) /\ x.key = c.key
  BY <1>2 DEF RowsInv, PostingsFit, SameKey
<1>4. OperationFits(c) /\ c.op \in {"issue", "capture", "refund", "approve"}
  BY OperationAt
<1>5. CASE c.op = "issue"
  <2>1. x.kind = "issue" /\ c.key = c.invoice
    BY <1>3, <1>4, <1>5 DEF Kind, OperationFits, IssueFits
  <2> QED
    BY <1>3, <1>5, <2>1 DEF HasRow, RowExists
<1>6. CASE c.op = "refund"
  <2>1. x.kind = "refund"
    BY <1>3, <1>6 DEF Kind
  <2> QED
    BY <1>3, <1>6, <2>1 DEF HasRow, RowExists
<1>7. CASE c.op \in {"capture", "approve"}
  <2>1. x.kind = "capture"
    BY <1>3, <1>7 DEF Kind
  <2> QED
    BY <1>3, <1>7, <2>1 DEF HasRow, RowExists
<1> QED
  BY <1>4, <1>5, <1>6, <1>7

(* The tenant of a command that posts is one.                              *)
LEMMA TenantIsThere ==
    ASSUME NEW c, CommandFits(c), c.pc \in Posts
    PROVE  c.tenant \in Tenants
<1>1. OperationFits(c) /\ c.op \in {"issue", "capture", "refund", "approve"}
  BY OperationAt
<1> QED
  BY <1>1, FlowAmounts DEF FlowAmounts, OperationFits, IssueFits, CaptureFits, RefundFits,
     ApproveFits

(* A command that posts goes on to k.                                      *)
LEMMA PostingMoves ==
    ASSUME FlowInv, NEW s \in Sessions, NEW c, c = cmd[s], c.pc \in Posts,
           NEW k, cmd' = [cmd EXCEPT ![s] = k], UNCHANGED <<rows, begun, missed>>,
           k \in Command, SameCommand(k, c), k.seen = c.seen, k.pc \in Posts,
           k.posted => k.pc \in Holding /\ ~InLedger(c),
           k.pc \in Holding /\ ~k.posted => InLedger(c),
           k.pc = "commit" => k.posted /\ ~RowExists(c) /\ k.new = Result(c),
           \A t \in Sessions \ {s} : CommandsApart(k, cmd[t])
    PROVE  FlowInv'
<1>1. CommandFits(c)
  BY DEF FlowInv, CommandsInv
<1>2. OperationFits(k)
  BY <1>1, PostingFits
<1>3. /\ InLedger(k) <=> InLedger(c)
      /\ RowExists(k) <=> RowExists(c)
      /\ Result(k) = Result(c)
  BY SameKeys
<1>4. CommandFits(k)
  BY <1>2, <1>3 DEF CommandFits, OperationFits
<1>5. UNCHANGED <<rows, missed>> /\ begun' \in 0..MaxCommands
  BY DEF FlowInv
<1> QED
  BY <1>4, <1>5, CommandMoves

(* post_transaction: the key is looked up and the number read.             *)
LEMMA NextBatchSequenceInv ==
    ASSUME FlowInv, NEW s \in Sessions, NextBatchSequence(s)
    PROVE  FlowInv'
<1>1. PICK c : c = cmd[s]
  OBVIOUS
<1>2. CommandFits(c) /\ c \in Command /\ c.pc = "sequence" /\ c.pc \in Posts
  BY <1>1 DEF FlowInv, CommandsInv, CommandFits, NextBatchSequence, Posts
<1>3. c.posted = FALSE /\ c.op # "submit"
  <2>1. ~c.posted /\ c.posted \in BOOLEAN
    BY <1>2 DEF CommandFits, Holding, Command
  <2> QED
    BY <1>2, <2>1, OperationAt
<1>4. PICK b : b = Cardinality(ledger[c.tenant])
  OBVIOUS
<1>5. b \in Nat
  <2>1. IsFiniteSet(ledger[c.tenant])
    BY <1>2, TenantIsThere DEF FlowInv, RowsInv, TablesAreFinite
  <2> QED
    BY <1>4, <2>1, FS_CardinalityType
<1>6. PICK p : p = IF InLedger(c) THEN "case" ELSE "post"
  OBVIOUS
<1>7. p \in Places /\ p \in {"case", "post"} /\ (p = "case" => InLedger(c)) /\ p \in Posts
  BY <1>6 DEF Places, Posts, Holding
<1>8. PICK k : k = [c EXCEPT !.pc = p, !.base = b]
  OBVIOUS
<1>9. cmd' = [cmd EXCEPT ![s] = k]
  <2>1. cmd' = [cmd EXCEPT ![s].pc = p, ![s].base = b]
    BY <1>1, <1>4, <1>6 DEF NextBatchSequence
  <2> QED
    BY <1>1, <1>8, <2>1
<1>10. k \in Command /\ k.pc = p /\ SameCommand(k, c) /\ k.seen = c.seen /\ k.posted = FALSE
  BY <1>2, <1>3, <1>5, <1>7, <1>8 DEF Command, SameCommand
<1>11. \A t \in Sessions \ {s} : CommandsApart(k, cmd[t])
  BY <1>3, <1>7, <1>10, ApartBefore DEF SameCommand
<1>12. UNCHANGED <<rows, begun, missed>>
  BY DEF NextBatchSequence
<1>13. k.pc \in Posts /\ ~k.posted /\ k.pc # "commit"
  BY <1>7, <1>10
<1>14. k.pc \in Holding => InLedger(c)
  BY <1>7, <1>10 DEF Holding
<1> QED
  BY <1>1, <1>2, <1>9, <1>10, <1>11, <1>12, <1>13, <1>14, PostingMoves

(* The header is inserted when no uncommitted one has its key.             *)
LEMMA InsertHeaderInv ==
    ASSUME FlowInv, NEW s \in Sessions, InsertHeader(s)
    PROVE  FlowInv'
<1>1. PICK c : c = cmd[s]
  OBVIOUS
<1>2. CommandFits(c) /\ c \in Command /\ c.pc = "post" /\ c.pc \in Posts
  BY <1>1 DEF FlowInv, CommandsInv, CommandFits, InsertHeader, Posts
<1>3. c.op # "submit"
  BY <1>2, OperationAt
<1>4. PICK h \in BOOLEAN : h = ~InLedger(c)
  OBVIOUS
<1>5. PICK k : k = [c EXCEPT !.pc = "case", !.posted = h]
  OBVIOUS
<1>6. cmd' = [cmd EXCEPT ![s] = k]
  BY <1>1, <1>4, <1>5 DEF InsertHeader
<1>7. "case" \in Places /\ "case" \in Posts /\ "case" \in Holding
  BY DEF Places, Posts, Holding
<1>8. k \in Command /\ k.pc = "case" /\ SameCommand(k, c) /\ k.seen = c.seen /\ k.posted = h
  BY <1>2, <1>4, <1>5, <1>7 DEF Command, SameCommand
<1>9. \A t \in Sessions \ {s} : CommandsApart(k, cmd[t])
  <2> SUFFICES ASSUME NEW t \in Sessions \ {s} PROVE CommandsApart(k, cmd[t])
    OBVIOUS
  <2>1. PICK d : d = cmd[t]
    OBVIOUS
  <2>2. ~(d.posted /\ Kind(d) = Kind(c) /\ d.key = c.key)
    <3>1. Posting(d).kind = Kind(d) /\ Posting(d).key = d.key
      BY DEF Posting
    <3> QED
      BY <1>1, <2>1, <3>1 DEF InsertHeader, Blocks, SameKey
  <2>3. Kind(k) = Kind(c) /\ k.key = c.key /\ k.op = c.op
    BY <1>8, SameKeys DEF SameCommand
  <2> QED
    BY <1>3, <1>8, <2>1, <2>2, <2>3 DEF CommandsApart
<1>10. UNCHANGED <<rows, begun, missed>>
  BY DEF InsertHeader
<1> QED
  BY <1>1, <1>2, <1>4, <1>6, <1>7, <1>8, <1>9, <1>10, PostingMoves

(* The case is locked when nobody else has locked it.                      *)
LEMMA LockCaseInv ==
    ASSUME FlowInv, NEW s \in Sessions, LockCase(s)
    PROVE  FlowInv'
<1>1. PICK c : c = cmd[s]
  OBVIOUS
<1>2. CommandFits(c) /\ c \in Command /\ c.pc = "case" /\ c.pc \in Posts /\ c.pc \in Holding
  BY <1>1 DEF FlowInv, CommandsInv, CommandFits, LockCase, Posts, Holding
<1>3. PICK k : k = [c EXCEPT !.pc = "row"]
  OBVIOUS
<1>4. cmd' = [cmd EXCEPT ![s] = k]
  BY <1>1, <1>3 DEF LockCase
<1>5. "row" \in Places /\ "row" \in Posts /\ "row" \in Holding
  BY DEF Places, Posts, Holding
<1>6. k \in Command /\ k.pc = "row" /\ SameCommand(k, c) /\ k.seen = c.seen /\ k.posted = c.posted
  BY <1>2, <1>3, <1>5 DEF Command, SameCommand
<1>7. /\ k.posted => ~InLedger(c)
      /\ ~k.posted => InLedger(c)
  BY <1>2, <1>6 DEF CommandFits
<1>8. \A t \in Sessions \ {s} : CommandsApart(k, cmd[t])
  <2> SUFFICES ASSUME NEW t \in Sessions \ {s} PROVE CommandsApart(k, cmd[t])
    OBVIOUS
  <2>1. PICK d : d = cmd[t]
    OBVIOUS
  <2>2. CommandsApart(c, d)
    BY <1>1, <2>1 DEF FlowInv, CommandsInv
  <2>3. ~(d.invoice = c.invoice /\ d.pc \in {"row", "commit"})
    BY <1>1, <2>1 DEF LockCase, CaseLocked
  <2>4. Kind(k) = Kind(c) /\ k.key = c.key /\ k.op = c.op /\ k.invoice = c.invoice
        /\ k.intake = c.intake
    BY <1>6, SameKeys DEF SameCommand
  <2> QED
    BY <1>6, <2>1, <2>2, <2>3, <2>4 DEF CommandsApart
<1>9. UNCHANGED <<rows, begun, missed>>
  BY DEF LockCase
<1> QED
  BY <1>1, <1>2, <1>4, <1>5, <1>6, <1>7, <1>8, <1>9, PostingMoves

(* The row is inserted when its key is new, and then the header is its own.*)
LEMMA InsertRowInv ==
    ASSUME FlowInv, NEW s \in Sessions, InsertRow(s)
    PROVE  FlowInv'
<1>1. PICK c : c = cmd[s]
  OBVIOUS
<1>2. CommandFits(c) /\ c \in Command /\ c.pc = "row" /\ c.pc \in Posts /\ c.pc \in Holding
  BY <1>1 DEF FlowInv, CommandsInv, CommandFits, InsertRow, Posts, Holding
<1>3. ~RowExists(c)
  BY <1>1 DEF InsertRow
<1>4. ~InLedger(c) /\ c.posted
  BY <1>2, <1>3, FoundHasRow DEF FlowInv, CommandFits
<1>5. PICK v : v = Result(c)
  OBVIOUS
<1>6. v \in InvoiceRow
  BY <1>2, <1>5, ResultType DEF FlowInv
<1>7. PICK k : k = [c EXCEPT !.pc = "commit", !.new = v]
  OBVIOUS
<1>8. cmd' = [cmd EXCEPT ![s] = k]
  <2>1. cmd' = [cmd EXCEPT ![s].pc = "commit", ![s].new = v]
    BY <1>1, <1>5 DEF InsertRow, Result
  <2> QED
    BY <1>1, <1>7, <2>1
<1>9. "commit" \in Places /\ "commit" \in Posts /\ "commit" \in Holding
  BY DEF Places, Posts, Holding
<1>10. /\ k \in Command /\ k.pc = "commit" /\ SameCommand(k, c) /\ k.seen = c.seen
       /\ k.posted = c.posted /\ k.new = v
  BY <1>2, <1>6, <1>7, <1>9 DEF Command, SameCommand
<1>11. \A t \in Sessions \ {s} : CommandsApart(k, cmd[t])
  <2> SUFFICES ASSUME NEW t \in Sessions \ {s} PROVE CommandsApart(k, cmd[t])
    OBVIOUS
  <2>1. PICK d : d = cmd[t]
    OBVIOUS
  <2>2. CommandsApart(c, d)
    BY <1>1, <2>1 DEF FlowInv, CommandsInv
  <2>3. Kind(k) = Kind(c) /\ k.key = c.key /\ k.op = c.op /\ k.invoice = c.invoice
        /\ k.intake = c.intake
    BY <1>10, SameKeys DEF SameCommand
  <2> QED
    BY <1>2, <1>10, <2>1, <2>2, <2>3 DEF CommandsApart
<1>12. UNCHANGED <<rows, begun, missed>>
  BY DEF InsertRow
<1> QED
  BY <1>1, <1>2, <1>3, <1>4, <1>5, <1>8, <1>9, <1>10, <1>11, <1>12, PostingMoves

-----------------------------------------------------------------------------
(* BillingFlows: steps that change rows.                                   *)

(* An intake that was submitted stays, and so does what it says.           *)
IntakesStay ==
    \A n \in Intakes : intakes[n].status # "NONE" =>
        /\ intakes'[n].status # "NONE"
        /\ intakes'[n].invoice = intakes[n].invoice
        /\ intakes'[n].amount = intakes[n].amount

(* A command d of another session fits rows to which others were added,    *)
(* none of which is its own.                                               *)
LEMMA FitsKept ==
    ASSUME NEW d, CommandFits(d), RowsInv,
           \A i \in Invoices : invoices[i] # NoInvoice => invoices'[i] # NoInvoice,
           IntakesStay,
           d.op = "submit" => intakes'[d.intake] = NoIntake,
           \A p \in payments : \E q \in payments' : q.key = p.key /\ q.invoice = p.invoice,
           InLedger(d) => InLedger(d)', d.posted => ~InLedger(d)',
           d.pc = "commit" => ~RowExists(d)' /\ Result(d)' = Result(d)
    PROVE  CommandFits(d)'
<1>1. d.op = "issue" => IssueFits(d)'
  BY DEF CommandFits, IssueFits
<1>2. d.op = "capture" => CaptureFits(d)'
  BY DEF CommandFits, CaptureFits
<1>3. d.op = "refund" => RefundFits(d)'
  BY DEF CommandFits, RefundFits
<1>4. d.op = "approve" => ApproveFits(d)'
  <2>1. \A k : k \in PaymentKeys => k \in PaymentKeys'
    BY DEF PaymentKeys
  <2> SUFFICES ASSUME d.op = "approve" PROVE ApproveFits(d)'
    OBVIOUS
  <2>2. ApproveFits(d)
    BY DEF CommandFits
  <2>3. /\ intakes'[d.intake].status # "NONE"
        /\ d.invoice = intakes'[d.intake].invoice /\ d.amount = intakes'[d.intake].amount
    BY <2>2 DEF ApproveFits, IntakesStay
  <2> QED
    BY <2>1, <2>2, <2>3 DEF ApproveFits
<1>5. d.op = "submit" => SubmitFits(d)'
  BY DEF CommandFits, SubmitFits
<1> QED
  BY <1>1, <1>2, <1>3, <1>4, <1>5 DEF CommandFits

(* An idle session fits the next rows as well.                             *)
LEMMA IdleFitsNext == CommandFits(Idle)'
BY IdleShape DEF CommandFits, Holding

(* A step that changes one intake and no other row.                        *)
LEMMA IntakeChanges ==
    ASSUME RowsInv, NEW n \in Intakes, NEW v \in IntakeRow,
           intakes' = [intakes EXCEPT ![n] = v],
           UNCHANGED <<invoices, payments, refunds, ledger, missed>>,
           subscription' \in {"ACTIVE", "SUSPENDED"}, v.status # "NONE",
           v.invoice \in Invoices /\ v.amount > 0 /\ invoices[v.invoice] # NoInvoice,
           intakes[n].status # "NONE" =>
              v.invoice = intakes[n].invoice /\ v.amount = intakes[n].amount,
           v.status = "APPROVED" => n \in PaymentKeys /\ intakes[n].status # "NONE"
    PROVE  RowsInv' /\ IntakesStay
<1>1. intakes' \in [Intakes -> IntakeRow]
  BY DEF RowsInv
<1>2. \A m \in Intakes : intakes'[m] = IF m = n THEN v ELSE intakes[m]
  BY DEF RowsInv
<1>3. IntakesStay
  BY <1>2 DEF IntakesStay
<1>4. TablesAreFinite'
  BY DEF RowsInv, TablesAreFinite, Entries
<1>5. InvoicesThere'
  BY <1>2 DEF RowsInv, InvoicesThere
<1>6. PaymentsFit'
  <2>1. \A p \in payments : IntakePaid(p)
    BY DEF RowsInv, PaymentsFit
  <2>2. \A p \in payments : IntakePaid(p)'
    BY <1>3, <2>1 DEF IntakePaid, IntakesStay
  <2> QED
    BY <2>2 DEF RowsInv, PaymentsFit, PaymentKeys
<1>7. PostingsFit'
  BY DEF RowsInv, PostingsFit, HasRow, PaymentKeys
<1>8. \A i : Net(i)' = Net(i) /\ Receivable(i)' = Receivable(i)
  BY DEF Net, PaidTotal, RefundsOf, Receivable, Entries
<1>9. InvoiceMatchesPayments' /\ ReceivableMatchesRows'
  BY <1>8 DEF RowsInv, InvoiceMatchesPayments, ReceivableMatchesRows
<1>10. PaymentStatusMatches'
  BY DEF RowsInv, PaymentStatusMatches
<1>11. ApprovedIsCaptured'
  <2>1. ASSUME v.status = "APPROVED"
        PROVE  \E p \in payments : p.key = n /\ p.invoice = v.invoice /\ p.amount = v.amount
    <3>1. PICK p \in payments : p.key = n
      BY <2>1 DEF PaymentKeys
    <3>2. p.invoice = intakes[n].invoice /\ p.amount = intakes[n].amount
      BY <3>1 DEF RowsInv, PaymentsFit, IntakePaid
    <3> QED
      BY <2>1, <3>1, <3>2
  <2> QED
    BY <1>2, <2>1 DEF RowsInv, ApprovedIsCaptured
<1> QED
  BY <1>1, <1>3, <1>4, <1>5, <1>6, <1>7, <1>9, <1>10, <1>11 DEF RowsInv

(* The other commands after such a step.                                   *)
LEMMA IntakeFits ==
    ASSUME RowsInv, IntakesStay, UNCHANGED <<invoices, payments, refunds, ledger>>,
           NEW d, CommandFits(d), d.op = "submit" => intakes'[d.intake] = NoIntake
    PROVE  CommandFits(d)'
<1>1. InLedger(d)' <=> InLedger(d)
  BY DEF InLedger
<1>2. RowExists(d)' <=> RowExists(d)
  BY DEF RowExists, PaymentKeys
<1>3. Result(d)' = Result(d)
  BY DEF Result, NetWith, Net, PaidTotal, RefundsOf
<1>4. \A p \in payments : \E q \in payments' : q.key = p.key /\ q.invoice = p.invoice
  OBVIOUS
<1>5. \A i \in Invoices : invoices[i] # NoInvoice => invoices'[i] # NoInvoice
  OBVIOUS
<1>6. /\ InLedger(d) => InLedger(d)' 
      /\ d.posted => ~InLedger(d)'
      /\ d.pc = "commit" => ~RowExists(d)' /\ Result(d)' = Result(d)
  BY <1>1, <1>2, <1>3 DEF CommandFits
<1> QED
  BY <1>4, <1>5, <1>6, FitsKept

(* The portal inserts the intake.                                          *)
LEMMA InsertIntakeInv ==
    ASSUME FlowInv, NEW s \in Sessions, InsertIntake(s)
    PROVE  FlowInv'
<1>1. PICK c : c = cmd[s]
  OBVIOUS
<1>2. CommandFits(c) /\ c \in Command /\ c.pc = "insert"
  BY <1>1 DEF FlowInv, CommandsInv, CommandFits, InsertIntake
<1>3. c.op = "submit" /\ SubmitFits(c)
  BY <1>2, OperationAt DEF OperationFits
<1>4. PICK v : v = [status |-> "SUBMITTED", invoice |-> c.invoice, amount |-> c.amount]
  OBVIOUS
<1>5. v \in IntakeRow /\ v.status = "SUBMITTED" /\ v.invoice = c.invoice /\ v.amount = c.amount
  BY <1>2, <1>3, <1>4 DEF IntakeRow, SubmitFits, Command
<1>6. c.intake \in Intakes /\ intakes[c.intake] = NoIntake /\ NoIntake.status = "NONE"
  BY <1>3 DEF SubmitFits, NoIntake
<1>7. intakes' = [intakes EXCEPT ![c.intake] = v]
  BY <1>1, <1>4 DEF InsertIntake
<1>8. UNCHANGED <<invoices, payments, refunds, ledger, subscription, begun, missed>>
  BY DEF InsertIntake
<1>9. RowsInv /\ CommandsInv /\ begun \in 0..MaxCommands
  BY DEF FlowInv
<1>10. RowsInv' /\ IntakesStay
  <2>1. subscription' \in {"ACTIVE", "SUSPENDED"}
    BY <1>8, <1>9 DEF RowsInv
  <2> QED
    BY <1>3, <1>5, <1>6, <1>7, <1>8, <1>9, <2>1, IntakeChanges DEF SubmitFits
<1>11. cmd' = [cmd EXCEPT ![s] = Idle]
  BY DEF InsertIntake
<1>12. \A t \in Sessions \ {s} : cmd'[t] = cmd[t]
  BY <1>9, <1>11 DEF CommandsInv
<1>13. ASSUME NEW t \in Sessions \ {s}
       PROVE  CommandFits(cmd[t])'
  <2>1. PICK d : d = cmd[t]
    OBVIOUS
  <2>2. CommandFits(d) /\ CommandsApart(c, d)
    BY <1>1, <1>9, <2>1 DEF CommandsInv
  <2>3. d.op = "submit" => intakes'[d.intake] = NoIntake
    <3>1. d.op = "submit" => d.intake \in Intakes /\ d.intake # c.intake
                              /\ intakes[d.intake] = NoIntake
      BY <1>3, <2>2 DEF CommandFits, SubmitFits, CommandsApart
    <3> QED
      BY <1>7, <1>9, <3>1 DEF RowsInv
  <2>4. CommandFits(d)'
    BY <1>8, <1>9, <1>10, <2>2, <2>3, IntakeFits
  <2> QED
    BY <1>12, <2>1, <2>4
<1>14. CommandsInv'
  BY <1>9, <1>11, <1>12, <1>13, IdleFitsNext, IdleApart, CommandsMove
<1> QED
  BY <1>8, <1>9, <1>10, <1>14 DEF FlowInv

(* An intake is rejected, or approved again with the payment it has.       *)
LEMMA IntakeStatusInv ==
    ASSUME FlowInv, NEW s \in Sessions, NEW n \in Intakes, NEW w \in {"REJECTED", "APPROVED"},
           intakes[n].status # "NONE", w = "APPROVED" => n \in PaymentKeys,
           intakes' = [intakes EXCEPT ![n].status = w],
           UNCHANGED <<invoices, payments, refunds, ledger, begun, missed>>,
           subscription' \in {"ACTIVE", "SUSPENDED"},
           cmd' = [cmd EXCEPT ![s] = Idle]
    PROVE  FlowInv'
<1>1. RowsInv /\ CommandsInv /\ begun \in 0..MaxCommands
  BY DEF FlowInv
<1>2. PICK u : u = intakes[n]
  OBVIOUS
<1>3. u \in IntakeRow /\ u.status # "NONE"
  BY <1>1, <1>2 DEF RowsInv
<1>4. PICK v : v = [u EXCEPT !.status = w]
  OBVIOUS
<1>5. v \in IntakeRow /\ v.status = w /\ v.invoice = u.invoice /\ v.amount = u.amount
  BY <1>3, <1>4 DEF IntakeRow
<1>6. intakes' = [intakes EXCEPT ![n] = v]
  BY <1>1, <1>2, <1>4 DEF RowsInv
<1>7. v.invoice \in Invoices /\ v.amount > 0 /\ invoices[v.invoice] # NoInvoice
  BY <1>1, <1>2, <1>3, <1>5 DEF RowsInv, InvoicesThere
<1>8. RowsInv' /\ IntakesStay
  BY <1>1, <1>2, <1>3, <1>5, <1>6, <1>7, IntakeChanges
<1>9. \A t \in Sessions \ {s} : cmd'[t] = cmd[t]
  BY <1>1 DEF CommandsInv
<1>10. ASSUME NEW t \in Sessions \ {s}
       PROVE  CommandFits(cmd[t])'
  <2>1. PICK d : d = cmd[t]
    OBVIOUS
  <2>2. CommandFits(d)
    BY <1>1, <2>1 DEF CommandsInv
  <2>3. d.op = "submit" => intakes'[d.intake] = NoIntake
    <3>1. d.op = "submit" => d.intake \in Intakes /\ intakes[d.intake] = NoIntake
      BY <2>2 DEF CommandFits, SubmitFits
    <3>2. d.op = "submit" => d.intake # n
      BY <1>2, <1>3, <3>1 DEF NoIntake
    <3> QED
      BY <1>1, <1>6, <3>1, <3>2 DEF RowsInv
  <2>4. CommandFits(d)'
    BY <1>1, <1>8, <2>2, <2>3, IntakeFits
  <2> QED
    BY <1>9, <2>1, <2>4
<1>11. CommandsInv'
  BY <1>1, <1>9, <1>10, IdleFitsNext, IdleApart, CommandsMove
<1> QED
  BY <1>1, <1>8, <1>11 DEF FlowInv

(* An administrator rejects an intake.                                     *)
LEMMA RejectIntakeInv ==
    ASSUME FlowInv, NEW s \in Sessions, NEW n \in Intakes, RejectIntake(s, n)
    PROVE  FlowInv'
<1>1. intakes[n].status # "NONE"
  BY DEF FlowInv, RowsInv, InvoicesThere, RejectIntake
<1>2. cmd' = [cmd EXCEPT ![s] = Idle]
  BY DEF RejectIntake, FlowInv, CommandsInv
<1>3. subscription' \in {"ACTIVE", "SUSPENDED"}
  BY DEF RejectIntake, FlowInv, RowsInv
<1> QED
  BY <1>1, <1>2, <1>3, IntakeStatusInv DEF RejectIntake

(* The approval of an intake that has its payment is committed.            *)
LEMMA CommitApprovalInv ==
    ASSUME FlowInv, NEW s \in Sessions, CommitApproval(s)
    PROVE  FlowInv'
<1>1. PICK c : c = cmd[s]
  OBVIOUS
<1>2. CommandFits(c) /\ c.pc = "approved"
  BY <1>1 DEF FlowInv, CommandsInv, CommitApproval
<1>3. c.op = "approve" /\ ApproveFits(c)
  BY <1>2, OperationAt DEF OperationFits
<1>4. c.intake \in Intakes /\ c.intake \in PaymentKeys /\ intakes[c.intake].status # "NONE"
  BY <1>2, <1>3 DEF ApproveFits
<1>5. subscription' \in {"ACTIVE", "SUSPENDED"}
  BY DEF CommitApproval, FlowInv, RowsInv
<1> QED
  BY <1>1, <1>4, <1>5, IntakeStatusInv DEF CommitApproval
-----------------------------------------------------------------------------
(* BillingFlows: the commit.                                               *)

(* A command at its commit.                                                *)
LEMMA AtCommit ==
    ASSUME RowsInv, NEW c, CommandFits(c), c.pc = "commit"
    PROVE  /\ c \in Command /\ c.op \in {"issue", "capture", "refund", "approve"}
           /\ OperationFits(c) /\ c.tenant \in Tenants /\ c.invoice \in Invoices
           /\ c.amount \in Nat \ {0}
           /\ c.posted /\ ~RowExists(c) /\ ~InLedger(c) /\ c.new = Result(c)
           /\ c.op = "issue" <=> invoices[c.invoice] = NoInvoice
<1>1. c.pc \in Posts
  BY DEF Posts, Holding
<1>2. c \in Command /\ c.op \in {"issue", "capture", "refund", "approve"} /\ OperationFits(c)
  BY <1>1, OperationAt
<1>3. c.tenant \in Tenants
  BY <1>1, TenantIsThere
<1>4. c.posted /\ ~RowExists(c) /\ ~InLedger(c) /\ c.new = Result(c)
  BY DEF CommandFits
<1>5. c.amount \in Nat
  BY <1>2 DEF Command
<1>6. CASE c.op = "issue"
  <2>1. c.invoice \in Invoices /\ c.amount = Total
    BY <1>2, <1>6 DEF OperationFits, IssueFits
  <2>2. invoices[c.invoice] = NoInvoice
    BY <1>4, <1>6 DEF RowExists
  <2> QED
    BY <1>2, <1>3, <1>4, <1>5, <1>6, <2>1, <2>2, FlowAmounts DEF FlowAmounts
<1>7. CASE c.op = "capture"
  <2>1. c.invoice \in Invoices /\ c.amount > 0 /\ invoices[c.invoice] # NoInvoice
    BY <1>2, <1>7 DEF OperationFits, CaptureFits
  <2> QED
    BY <1>2, <1>3, <1>4, <1>5, <1>7, <2>1
<1>8. CASE c.op = "refund"
  <2>1. PICK p \in payments : p.invoice = c.invoice
    BY <1>2, <1>8 DEF OperationFits, RefundFits
  <2>2. c.amount > 0
    BY <1>2, <1>8 DEF OperationFits, RefundFits
  <2>3. c.invoice \in Invoices /\ invoices[c.invoice] # NoInvoice
    BY <2>1 DEF RowsInv, PaymentRow, InvoicesThere
  <2> QED
    BY <1>2, <1>3, <1>4, <1>5, <1>8, <2>2, <2>3
<1>9. CASE c.op = "approve"
  <2>1. ApproveFits(c)
    BY <1>2, <1>9 DEF OperationFits
  <2>2. c.invoice \in Invoices /\ c.amount > 0 /\ invoices[c.invoice] # NoInvoice
    BY <2>1 DEF ApproveFits, RowsInv, InvoicesThere
  <2> QED
    BY <1>2, <1>3, <1>4, <1>5, <1>9, <2>2
<1> QED
  BY <1>2, <1>6, <1>7, <1>8, <1>9

(* Two payments that differ in their status at most.                       *)
SamePayment(p, q) == q.key = p.key /\ q.invoice = p.invoice /\ q.amount = p.amount

(* What the commit of c does to the payments ...                           *)
PaymentsMove(c) ==
    /\ payments' \subseteq PaymentRow
    /\ \A p \in payments : \E q \in payments' : SamePayment(p, q)
    /\ \A q \in payments' : \/ \E p \in payments : SamePayment(p, q)
                            \/ c.op \in {"capture", "approve"} /\ SamePayment(c, q)
    /\ c.op \in {"capture", "approve"} => \E q \in payments' : SamePayment(c, q)

(* ... to the refunds ...                                                  *)
RefundsMove(c) ==
    /\ refunds' \subseteq RefundRow
    /\ refunds \subseteq refunds'
    /\ \A r \in refunds' : r \in refunds \/ (c.op = "refund" /\ r.key = c.key)
    /\ c.op = "refund" => \E r \in refunds' : r.key = c.key

(* ... and to what they add up to.                                         *)
TablesMove(c) ==
    /\ PaymentsMove(c) /\ RefundsMove(c)
    /\ Tables(payments', refunds')
    /\ \A i \in Invoices : Net(i)' = IF i = c.invoice THEN Result(c).paid ELSE Net(i)
    /\ PaymentStatusMatches'

(* What the rows say after a step.                                         *)
LEMMA NetNext == \A i : Net(i)' = NetIn(payments', refunds', i)
BY DEF Net, PaidTotal, RefundsOf, NetIn, PaidIn, RefundsIn

(* The status of payment p is the one refunds R add up to.                 *)
StatusFits(p, R) ==
    LET total == AmountsOf({r \in R : r.payment = p.key})
    IN p.status = IF total = 0 THEN "CAPTURED"
                  ELSE IF total >= p.amount THEN "REFUNDED_FULL" ELSE "REFUNDED_PARTIAL"

(* The statuses are those of the refunds, before a step and after it.      *)
LEMMA StatusesFit == PaymentStatusMatches <=> \A p \in payments : StatusFits(p, refunds)
BY DEF PaymentStatusMatches, StatusFits

(* The same for the next rows.                                             *)
LEMMA StatusesFitNext ==
    PaymentStatusMatches' <=> \A p \in payments' : StatusFits(p, refunds')
BY DEF PaymentStatusMatches, StatusFits

(* An invoice is issued: it has no payments.                               *)
LEMMA IssueTables ==
    ASSUME RowsInv, NEW c, CommandFits(c), c.pc = "commit", c.op = "issue",
           payments' = NewPayments(c), refunds' = NewRefunds(c)
    PROVE  TablesMove(c)
<1>1. payments' = payments /\ refunds' = refunds
  BY DEF NewPayments, NewRefunds
<1>2. payments \subseteq PaymentRow /\ refunds \subseteq RefundRow
  BY DEF RowsInv
<1>3. Tables(payments', refunds')
  BY <1>1, TablesNow
<1>4. \A i : Net(i)' = Net(i)
  BY <1>1, NetNext, NetIsNetIn
<1>5. Net(c.invoice) = 0
  <2>1. invoices[c.invoice] = NoInvoice
    BY AtCommit
  <2>2. \A p \in payments : p.invoice # c.invoice
    BY <2>1 DEF RowsInv, InvoicesThere
  <2> QED
    BY <2>2, NetEmpty, NetIsNetIn
<1>6. Result(c).paid = 0
  BY DEF Result
<1>7. PaymentStatusMatches'
  BY <1>1 DEF RowsInv, PaymentStatusMatches
<1>8. \A p \in payments : SamePayment(p, p)
  BY DEF SamePayment
<1>9. \A i \in Invoices : Net(i)' = IF i = c.invoice THEN Result(c).paid ELSE Net(i)
  BY <1>4, <1>5, <1>6
<1>10. PaymentsMove(c)
  BY <1>1, <1>2, <1>8 DEF PaymentsMove
<1>11. RefundsMove(c)
  BY <1>1, <1>2 DEF RefundsMove
<1> QED
  BY <1>3, <1>7, <1>9, <1>10, <1>11 DEF TablesMove

(* A payment is captured, directly or for an intake.                       *)
LEMMA CaptureTables ==
    ASSUME RowsInv, NEW c, CommandFits(c), c.pc = "commit", c.op \in {"capture", "approve"},
           payments' = NewPayments(c), refunds' = NewRefunds(c)
    PROVE  TablesMove(c)
<1>1. PICK x : x = [key |-> c.key, invoice |-> c.invoice, amount |-> c.amount,
                    status |-> "CAPTURED"]
  OBVIOUS
<1>2. payments' = payments \cup {x} /\ refunds' = refunds
  BY <1>1 DEF NewPayments, NewRefunds
<1>3. c.invoice \in Invoices /\ c.amount \in Nat \ {0} /\ ~RowExists(c) /\ OperationFits(c)
  BY AtCommit
<1>4. c.key \in Keys
  BY <1>3 DEF OperationFits, CaptureFits, ApproveFits, Keys
<1>5. /\ x.key = c.key /\ x.invoice = c.invoice /\ x.amount = c.amount
      /\ x.status = "CAPTURED"
  BY <1>1
<1>6. x \in PaymentRow /\ x.amount \in Nat
  BY <1>1, <1>3, <1>4 DEF PaymentRow
<1>7. \A p \in payments : p.key # x.key
  BY <1>3, <1>5 DEF RowExists, PaymentKeys
<1>8. Tables(payments, refunds)
  BY TablesNow
<1>9. /\ Tables(payments \cup {x}, refunds)
      /\ NetIn(payments \cup {x}, refunds, x.invoice)
            = NetIn(payments, refunds, x.invoice) + x.amount
      /\ \A i : i # x.invoice =>
            NetIn(payments \cup {x}, refunds, i) = NetIn(payments, refunds, i)
  BY <1>6, <1>7, <1>8, NetCapture
<1>10. Result(c).paid = Net(c.invoice) + c.amount
  BY DEF Result, NetWith
<1>11. \A i \in Invoices : Net(i)' = IF i = c.invoice THEN Result(c).paid ELSE Net(i)
  BY <1>2, <1>5, <1>9, <1>10, NetNext, NetIsNetIn
<1>12. PaymentStatusMatches'
  <2>1. {r \in refunds : r.payment = x.key} = {}
    BY <1>7 DEF RowsInv, PaymentsFit, PaymentKeys
  <2>2. StatusFits(x, refunds)
    BY <1>5, <2>1, AmountsEmpty DEF StatusFits
  <2>3. \A p \in payments : StatusFits(p, refunds)
    BY StatusesFit DEF RowsInv
  <2>4. \A p \in payments' : StatusFits(p, refunds')
    BY <1>2, <2>2, <2>3
  <2> QED
    BY <2>4, StatusesFitNext
<1>13. \A p \in payments : SamePayment(p, p)
  BY DEF SamePayment
<1>14. SamePayment(c, x)
  BY <1>5 DEF SamePayment
<1>15. payments \subseteq PaymentRow /\ refunds \subseteq RefundRow
  BY DEF RowsInv
<1>16. PaymentsMove(c)
  BY <1>2, <1>6, <1>13, <1>14, <1>15 DEF PaymentsMove
<1>17. RefundsMove(c)
  BY <1>2, <1>15 DEF RefundsMove
<1>18. Tables(payments', refunds')
  BY <1>2, <1>9
<1> QED
  BY <1>11, <1>12, <1>16, <1>17, <1>18 DEF TablesMove

(* A payment is refunded: its status changes, whoever refunds it, because  *)
(* the sum is taken when the case of the invoice is locked.                *)
LEMMA RefundTables ==
    ASSUME RowsInv, NEW c, CommandFits(c), c.pc = "commit", c.op = "refund",
           payments' = NewPayments(c), refunds' = NewRefunds(c)
    PROVE  TablesMove(c)
<1>1. c.amount \in Nat \ {0} /\ ~RowExists(c) /\ RefundFits(c)
  BY AtCommit DEF OperationFits
<1>2. PICK x \in payments : x.key = c.ref /\ x.invoice = c.invoice
  BY <1>1 DEF RefundFits
<1>3. PICK r : r = [key |-> c.key, payment |-> c.ref, amount |-> c.amount]
  OBVIOUS
<1>4. PICK w : w = RefundStatus(RefundedWith(c), x.amount)
  OBVIOUS
<1>5. PICK y : y = [x EXCEPT !.status = w]
  OBVIOUS
<1>6. x \in PaymentRow /\ payments \subseteq PaymentRow /\ refunds \subseteq RefundRow
  BY DEF RowsInv
<1>7. w \in {"REFUNDED_FULL", "REFUNDED_PARTIAL"}
  BY <1>4 DEF RefundStatus
<1>8. /\ y \in PaymentRow /\ y.key = x.key /\ y.invoice = x.invoice /\ y.amount = x.amount
      /\ y.status = w
  BY <1>5, <1>6, <1>7 DEF PaymentRow
<1>9. r \in RefundRow /\ r.key = c.key /\ r.payment = c.ref /\ r.amount = c.amount
  <2>1. x.key \in Keys
    BY <1>6 DEF PaymentRow
  <2> QED
    BY <1>1, <1>2, <1>3, <2>1 DEF RefundRow, RefundFits
<1>10. r \notin refunds /\ \A t \in refunds : t.key # c.key
  BY <1>1, <1>9 DEF RowExists
<1>11. refunds' = refunds \cup {r}
  BY <1>3 DEF NewRefunds
<1>12. \A p \in payments : p.key = c.ref <=> p = x
  BY <1>2 DEF RowsInv, PaymentsFit
<1>13. payments' = (payments \ {x}) \cup {y}
  <2>1. payments' = {IF p.key # c.ref THEN p
                     ELSE [p EXCEPT !.status = RefundStatus(RefundedWith(c), p.amount)]
                        : p \in payments}
    BY DEF NewPayments
  <2>2. PICK g : g = [p \in payments |->
                       IF p.key # c.ref THEN p
                       ELSE [p EXCEPT !.status = RefundStatus(RefundedWith(c), p.amount)]]
    OBVIOUS
  <2>3. \A q : q \in payments' <=> \E p \in payments : q = g[p]
    BY <2>1, <2>2
  <2>5. \A p \in payments : g[p] = IF p = x THEN y ELSE p
    BY <1>4, <1>5, <1>12, <2>2
  <2>6. \A q : q \in payments' <=> q \in (payments \ {x}) \cup {y}
    BY <1>2, <2>3, <2>5
  <2> QED
    BY <2>6
<1>14. Tables(payments, refunds) /\ r.amount \in Nat
  BY <1>1, <1>9, TablesNow
<1>15. /\ Tables(payments', refunds')
       /\ NetIn(payments', refunds', x.invoice) = NetIn(payments, refunds, x.invoice) - r.amount
       /\ \A i : i # x.invoice =>
             NetIn(payments', refunds', i) = NetIn(payments, refunds, i)
  <2>1. r.payment = x.key
    BY <1>2, <1>9
  <2> QED
    BY <1>8, <1>10, <1>11, <1>13, <1>14, <2>1, NetRefund
<1>16. Result(c).paid = Net(c.invoice) - c.amount
  <2>1. PICK m : m = Net(c.invoice)
    OBVIOUS
  <2>2. m \in Int
    BY <2>1, NetIsInt
  <2>3. Result(c).paid = m + (-c.amount)
    BY <2>1 DEF Result, NetWith
  <2> QED
    BY <1>1, <2>1, <2>2, <2>3
<1>17. \A i \in Invoices : Net(i)' = IF i = c.invoice THEN Result(c).paid ELSE Net(i)
  BY <1>2, <1>9, <1>15, <1>16, NetNext, NetIsNetIn
<1>18. PaymentStatusMatches'
  <2>1. \A p \in payments : StatusFits(p, refunds)
    BY StatusesFit DEF RowsInv
  <2>2. ASSUME NEW p \in payments \ {x}
        PROVE  StatusFits(p, refunds')
    <3>1. p.key # c.ref
      BY <1>12
    <3>2. {t \in refunds' : t.payment = p.key} = {t \in refunds : t.payment = p.key}
      BY <1>9, <1>11, <3>1
    <3> QED
      BY <2>1, <3>2 DEF StatusFits
  <2>3. StatusFits(y, refunds')
    <3>1. PICK S : S = {t \in refunds : t.payment = c.ref}
      OBVIOUS
    <3>2. HasAmounts(S) /\ r \notin S
      <4>1. HasAmounts(refunds) /\ S \subseteq refunds
        BY <1>14, <3>1 DEF Tables
      <4> QED
        BY <1>10, <4>1, AmountsPart
    <3>3. AmountsOf(S) \in Nat /\ AmountsOf(S \cup {r}) = AmountsOf(S) + c.amount
      BY <1>9, <1>14, <3>2, AmountsAdd, AmountsType
    <3>4. {t \in refunds' : t.payment = y.key} = S \cup {r}
      BY <1>2, <1>8, <1>9, <1>11, <3>1
    <3>5. PICK m : m = AmountsOf(S \cup {r})
      OBVIOUS
    <3>6. RefundedWith(c) = m /\ m # 0
      BY <1>1, <3>1, <3>3, <3>5 DEF RefundedWith
    <3>7. y.status = IF m >= y.amount THEN "REFUNDED_FULL" ELSE "REFUNDED_PARTIAL"
      BY <1>4, <1>8, <3>6 DEF RefundStatus
    <3> QED
      BY <3>4, <3>5, <3>6, <3>7 DEF StatusFits
  <2>4. \A p \in payments' : StatusFits(p, refunds')
    BY <1>13, <2>2, <2>3
  <2> QED
    BY <2>4, StatusesFitNext
<1>19. PaymentsMove(c)
  <2>1. \A p \in payments : SamePayment(p, p)
    BY DEF SamePayment
  <2>2. SamePayment(x, y) /\ y \in payments'
    BY <1>8, <1>13 DEF SamePayment
  <2>3. payments' \subseteq PaymentRow
    BY <1>6, <1>8, <1>13
  <2>4. \A p \in payments : \E q \in payments' : SamePayment(p, q)
    BY <1>13, <2>1, <2>2
  <2>5. \A q \in payments' : \E p \in payments : SamePayment(p, q)
    BY <1>2, <1>13, <2>1, <2>2
  <2> QED
    BY <2>3, <2>4, <2>5 DEF PaymentsMove
<1>20. RefundsMove(c)
  BY <1>6, <1>9, <1>11 DEF RefundsMove
<1> QED
  BY <1>15, <1>17, <1>18, <1>19, <1>20 DEF TablesMove

(* Whatever the command is.                                                *)
LEMMA CommitTables ==
    ASSUME RowsInv, NEW c, CommandFits(c), c.pc = "commit",
           payments' = NewPayments(c), refunds' = NewRefunds(c)
    PROVE  TablesMove(c)
<1>1. c.op \in {"issue", "capture", "refund", "approve"}
  BY AtCommit
<1> QED
  BY <1>1, IssueTables, CaptureTables, RefundTables

(* What entries E leave open of an invoice.                                *)
ReceivableIn(E, i) == SumOf([e \in E |-> Debit(e[2])], {e \in E : e[2].invoice = i})

(* A new entry is for one invoice.                                         *)
LEMMA ReceivableAdd ==
    ASSUME NEW E, IsFiniteSet(E), NEW e, e \notin E, NEW F, F = E \cup {e},
           \A d \in F : Debit(d[2]) \in Int
    PROVE  /\ IsFiniteSet(F)
           /\ ReceivableIn(F, e[2].invoice) = ReceivableIn(E, e[2].invoice) + Debit(e[2])
           /\ \A i : i # e[2].invoice => ReceivableIn(F, i) = ReceivableIn(E, i)
<1>1. IsFiniteSet(F)
  BY FS_AddElement
<1>2. PICK f : f = [d \in E |-> Debit(d[2])]
  OBVIOUS
<1>3. PICK g : g = [d \in F |-> Debit(d[2])]
  OBVIOUS
<1>4. /\ \A d \in E : f[d] = g[d] /\ f[d] \in Int
      /\ \A d \in F : g[d] \in Int /\ g[e] = Debit(e[2])
  BY <1>2, <1>3
<1> DEFINE Of(D, i) == {d \in D : d[2].invoice = i}
<1>5. \A i : IsFiniteSet(Of(E, i)) /\ Of(E, i) \subseteq E
  BY FS_Subset
<1>6. \A i : SumOf(f, Of(E, i)) = SumOf(g, Of(E, i))
  <2> SUFFICES ASSUME NEW i PROVE SumOf(f, Of(E, i)) = SumOf(g, Of(E, i))
    OBVIOUS
  <2>1. PICK S : S = Of(E, i)
    OBVIOUS
  <2>2. IsFiniteSet(S) /\ \A d \in S : f[d] = g[d]
    BY <1>4, <1>5, <2>1
  <2>3. SumOf(f, S) = SumOf(g, S)
    BY <2>2, SumSame
  <2> QED
    BY <2>1, <2>3
<1>7. \A i : ReceivableIn(E, i) = SumOf(f, Of(E, i)) /\ ReceivableIn(F, i) = SumOf(g, Of(F, i))
  BY <1>2, <1>3 DEF ReceivableIn
<1>8. \A i : i # e[2].invoice => Of(F, i) = Of(E, i)
  OBVIOUS
<1>9. ReceivableIn(F, e[2].invoice) = ReceivableIn(E, e[2].invoice) + Debit(e[2])
  <2>1. PICK S : S = Of(E, e[2].invoice)
    OBVIOUS
  <2>2. Of(F, e[2].invoice) = S \cup {e}
    BY <2>1
  <2>3. IsFiniteSet(S) /\ e \notin S /\ \A d \in S \cup {e} : g[d] \in Int
    BY <1>4, <1>5, <2>1
  <2>4. SumOf(g, S \cup {e}) = g[e] + SumOf(g, S)
    BY <2>3, SumAdd
  <2>5. SumOf(g, S) \in Int
    <3>1. \A d \in S : g[d] \in Int
      BY <2>3
    <3> QED
      BY <2>3, <3>1, SumType
  <2>6. g[e] = Debit(e[2]) /\ g[e] \in Int
    BY <1>4
  <2>7. ReceivableIn(E, e[2].invoice) = SumOf(g, S) /\ ReceivableIn(F, e[2].invoice) = SumOf(g, S \cup {e})
    BY <1>6, <1>7, <2>1, <2>2
  <2> QED
    BY <2>4, <2>5, <2>6, <2>7
<1>10. \A i : i # e[2].invoice => ReceivableIn(F, i) = ReceivableIn(E, i)
  <2> SUFFICES ASSUME NEW i, i # e[2].invoice PROVE ReceivableIn(F, i) = ReceivableIn(E, i)
    OBVIOUS
  <2>1. PICK S : S = Of(E, i)
    OBVIOUS
  <2>2. Of(F, i) = S
    BY <1>8, <2>1
  <2>3. SumOf(f, S) = SumOf(g, S)
    BY <1>6, <2>1
  <2> QED
    BY <1>7, <2>1, <2>2, <2>3
<1> QED
  BY <1>1, <1>9, <1>10

(* The posting of a command.                                               *)
LEMMA PostingShape ==
    ASSUME RowsInv, NEW c, CommandFits(c), c.pc = "commit"
    PROVE  /\ Posting(c) \in PostingRow
           /\ Posting(c).kind = Kind(c) /\ Posting(c).key = c.key
           /\ Posting(c).amount = c.amount /\ Posting(c).invoice = c.invoice
<1>1. /\ c \in Command /\ c.op \in {"issue", "capture", "refund", "approve"}
      /\ OperationFits(c) /\ c.invoice \in Invoices /\ c.amount \in Nat \ {0}
  BY AtCommit
<1>2. c.key \in Invoices \cup Keys \cup RefundKeys
  BY <1>1 DEF OperationFits, IssueFits, CaptureFits, RefundFits, ApproveFits, Keys
<1>3. Kind(c) \in {"issue", "capture", "refund"}
  BY <1>1 DEF Kind
<1> QED
  BY <1>1, <1>2, <1>3 DEF Posting, PostingRow

(* The debit of a posting is a number.                                     *)
LEMMA DebitType == \A x \in PostingRow : Debit(x) \in Int
BY DEF PostingRow, Debit

(* What the commit of c does to the ledger.                                *)
LedgerMoves(c) ==
    /\ ledger' \in [Tenants -> SUBSET PostingRow]
    /\ \A t \in Tenants : IsFiniteSet(ledger'[t])
    /\ IsFiniteSet(Entries')
    /\ \A t \in Tenants : ledger[t] \subseteq ledger'[t]
    /\ \A t \in Tenants : \A x \in ledger'[t] : x \in ledger[t] \/ x = Posting(c)
    /\ \A i \in Invoices :
          Receivable(i)' = Receivable(i) + (IF i = c.invoice THEN Debit(Posting(c)) ELSE 0)

(* The posting is new: nothing was posted under its key.                   *)
LEMMA CommitLedger ==
    ASSUME RowsInv, NEW c, CommandFits(c), c.pc = "commit",
           ledger' = IF c.posted THEN [ledger EXCEPT ![c.tenant] = @ \cup {Posting(c)}]
                     ELSE ledger
    PROVE  LedgerMoves(c)
<1>1. c.posted /\ c.tenant \in Tenants /\ ~InLedger(c) /\ c.invoice \in Invoices
  BY AtCommit
<1>2. PICK x : x = Posting(c)
  OBVIOUS
<1>3. x \in PostingRow /\ x.kind = Kind(c) /\ x.key = c.key /\ x.invoice = c.invoice
  BY <1>2, PostingShape
<1>4. ledger \in [Tenants -> SUBSET PostingRow]
  BY DEF RowsInv
<1>5. /\ ledger'[c.tenant] = ledger[c.tenant] \cup {x}
      /\ \A t \in Tenants : t # c.tenant => ledger'[t] = ledger[t]
  BY <1>1, <1>2, <1>4
<1>6. ledger' \in [Tenants -> SUBSET PostingRow]
  BY <1>1, <1>2, <1>3, <1>4
<1>7. \A t \in Tenants : IsFiniteSet(ledger'[t])
  <2>1. \A t \in Tenants : IsFiniteSet(ledger[t])
    BY DEF RowsInv, TablesAreFinite
  <2> SUFFICES ASSUME NEW t \in Tenants PROVE IsFiniteSet(ledger'[t])
    OBVIOUS
  <2>2. CASE t # c.tenant
    BY <1>5, <2>1, <2>2
  <2>3. CASE t = c.tenant
    <3>1. PICK S : S = ledger[t]
      OBVIOUS
    <3>2. IsFiniteSet(S \cup {x})
      BY <2>1, <3>1, FS_AddElement
    <3> QED
      BY <1>5, <2>3, <3>1, <3>2
  <2> QED
    BY <2>2, <2>3
<1>8. PICK e : e = <<c.tenant, x>>
  OBVIOUS
<1>9. e[2] = x
  BY <1>8
<1>10. \A d : d \in Entries' <=> d \in Entries \cup {e}
  <2>1. \A d : d \in Entries <=> \E t \in Tenants : \E y \in ledger[t] : d = <<t, y>>
    BY DEF Entries
  <2>2. \A d : d \in Entries' <=> \E t \in Tenants : \E y \in ledger'[t] : d = <<t, y>>
    BY DEF Entries
  <2>3. ASSUME NEW d, d \in Entries' PROVE d \in Entries \cup {e}
    <3>1. PICK t \in Tenants : \E y \in ledger'[t] : d = <<t, y>>
      BY <2>2, <2>3
    <3>2. PICK y \in ledger'[t] : d = <<t, y>>
      BY <3>1
    <3>3. CASE y \in ledger[t]
      BY <2>1, <3>2, <3>3
    <3>4. CASE y \notin ledger[t]
      <4>1. t = c.tenant /\ y = x
        BY <1>5, <3>4
      <4> QED
        BY <1>8, <3>2, <4>1
    <3> QED
      BY <3>3, <3>4
  <2>4. ASSUME NEW d, d \in Entries PROVE d \in Entries'
    <3>1. PICK t \in Tenants : \E y \in ledger[t] : d = <<t, y>>
      BY <2>1, <2>4
    <3>2. PICK y \in ledger[t] : d = <<t, y>>
      BY <3>1
    <3>3. y \in ledger'[t]
      BY <1>5
    <3> QED
      BY <2>2, <3>2, <3>3
  <2>5. e \in Entries'
    <3>1. x \in ledger'[c.tenant]
      BY <1>1, <1>5
    <3> QED
      BY <1>1, <1>8, <2>2, <3>1
  <2> QED
    BY <2>3, <2>4, <2>5
<1>11. e \notin Entries
  <2>1. x \notin ledger[c.tenant]
    BY <1>1, <1>3 DEF InLedger, SameKey
  <2> QED
    BY <1>8, <2>1 DEF Entries
<1>12. PICK E : E = Entries
  OBVIOUS
<1>13. PICK F : F = Entries'
  OBVIOUS
<1>14. F = E \cup {e} /\ e \notin E /\ IsFiniteSet(E)
  BY <1>10, <1>11, <1>12, <1>13 DEF RowsInv, TablesAreFinite
<1>15. \A d \in F : Debit(d[2]) \in Int
  <2>1. \A d \in F : d[2] \in PostingRow
    BY <1>6, <1>13 DEF Entries
  <2> QED
    BY <2>1, DebitType
<1>16. /\ IsFiniteSet(F)
       /\ ReceivableIn(F, e[2].invoice) = ReceivableIn(E, e[2].invoice) + Debit(e[2])
       /\ \A i : i # e[2].invoice => ReceivableIn(F, i) = ReceivableIn(E, i)
  BY <1>14, <1>15, ReceivableAdd
<1>17. \A i : Receivable(i) = ReceivableIn(E, i) /\ Receivable(i)' = ReceivableIn(F, i)
  BY <1>12, <1>13 DEF Receivable, ReceivableIn
<1>18. \A i \in Invoices :
          Receivable(i)' = Receivable(i) + (IF i = c.invoice THEN Debit(Posting(c)) ELSE 0)
  <2>1. \A i : ReceivableIn(E, i) \in Int
    <3> SUFFICES ASSUME NEW i PROVE ReceivableIn(E, i) \in Int
      OBVIOUS
    <3>1. PICK f : f = [d \in E |-> Debit(d[2])]
      OBVIOUS
    <3>2. PICK S : S = {d \in E : d[2].invoice = i}
      OBVIOUS
    <3>3. IsFiniteSet(S) /\ \A d \in S : f[d] \in Int
      BY <1>14, <1>15, <3>1, <3>2, FS_Subset
    <3>4. SumOf(f, S) \in Int
      BY <3>3, SumType
    <3> QED
      BY <3>1, <3>2, <3>4 DEF ReceivableIn
  <2> SUFFICES ASSUME NEW i \in Invoices
               PROVE  Receivable(i)' = Receivable(i)
                         + (IF i = c.invoice THEN Debit(Posting(c)) ELSE 0)
    OBVIOUS
  <2>2. CASE i = c.invoice
    BY <1>2, <1>3, <1>9, <1>16, <1>17, <2>2
  <2>3. CASE i # c.invoice
    BY <1>3, <1>9, <1>16, <1>17, <2>1, <2>3
  <2> QED
    BY <2>2, <2>3
<1> QED
  BY <1>2, <1>5, <1>6, <1>7, <1>13, <1>16, <1>18 DEF LedgerMoves

(* What the invoice becomes: a column that is not written has a value.     *)
LEMMA StoredShape ==
    ASSUME RowsInv, NEW c, CommandFits(c), c.pc = "commit"
    PROVE  /\ Stored(c) \in InvoiceRow /\ Stored(c).status \in Statuses
           /\ Stored(c) # NoInvoice
<1>1. /\ c \in Command /\ OperationFits(c) /\ c.invoice \in Invoices /\ c.new = Result(c)
      /\ c.op = "issue" <=> invoices[c.invoice] = NoInvoice
  BY AtCommit
<1>2. PICK v : v = invoices[c.invoice]
  OBVIOUS
<1>3. v \in InvoiceRow /\ (v = NoInvoice \/ v.status \in Statuses)
  BY <1>1, <1>2 DEF RowsInv, InvoicesThere
<1>4. c.new \in InvoiceRow /\ c.new.status \in Statuses
  BY <1>1, ResultType
<1>5. PICK w : w = Stored(c)
  OBVIOUS
<1>6. /\ w = [paid |-> w.paid, status |-> w.status]
      /\ w.paid = IF c.new.paid = c.seen.paid THEN v.paid ELSE c.new.paid
      /\ w.status = IF c.new.status = c.seen.status THEN v.status ELSE c.new.status
  BY <1>2, <1>5 DEF Stored
<1>7. w.paid \in Int
  BY <1>3, <1>4, <1>6 DEF InvoiceRow
<1>8. "NONE" \notin Statuses
  BY DEF Statuses
<1>9. w.status \in Statuses
  <2>1. CASE c.op = "issue"
    <3>1. c.seen.status = "NONE"
      BY <1>1, <2>1 DEF OperationFits, IssueFits, NoInvoice
    <3> QED
      BY <1>4, <1>6, <1>8, <3>1
  <2>2. CASE c.op # "issue"
    BY <1>1, <1>2, <1>3, <1>4, <1>6, <2>2
  <2> QED
    BY <2>1, <2>2
<1>10. w \in InvoiceRow
  BY <1>6, <1>7, <1>9 DEF InvoiceRow
<1>11. w # NoInvoice
  BY <1>8, <1>9 DEF NoInvoice
<1> QED
  BY <1>5, <1>9, <1>10, <1>11

(* The writes of Commit on the rows.                                       *)
Committed(c) ==
    /\ invoices' = [invoices EXCEPT ![c.invoice] = Stored(c)]
    /\ payments' = NewPayments(c)
    /\ refunds' = NewRefunds(c)
    /\ intakes' = IF c.op = "approve"
                  THEN [intakes EXCEPT ![c.intake].status = "APPROVED"] ELSE intakes
    /\ ledger' = IF c.posted THEN [ledger EXCEPT ![c.tenant] = @ \cup {Posting(c)}]
                 ELSE ledger
    /\ subscription' = IF Reactivates(c) THEN "ACTIVE" ELSE subscription
    /\ missed' = IF Stored(c) = c.new THEN missed \ {c.invoice} ELSE missed \cup {c.invoice}

(* What they do to the invoices and the intakes.                           *)
LEMMA CommitInvoices ==
    ASSUME RowsInv, NEW c, CommandFits(c), c.pc = "commit", Committed(c)
    PROVE  /\ invoices' \in [Invoices -> InvoiceRow]
           /\ invoices'[c.invoice] = Stored(c)
           /\ \A i \in Invoices : i # c.invoice => invoices'[i] = invoices[i]
           /\ \A i \in Invoices : invoices[i] # NoInvoice => invoices'[i] # NoInvoice
           /\ \A i \in Invoices : invoices'[i] = NoInvoice \/ invoices'[i].status \in Statuses
<1>1. PICK w : w = Stored(c)
  OBVIOUS
<1>2. w \in InvoiceRow /\ w.status \in Statuses /\ w # NoInvoice
  BY <1>1, StoredShape
<1>3. c.invoice \in Invoices
  BY AtCommit
<1>4. invoices' = [invoices EXCEPT ![c.invoice] = w]
  BY <1>1 DEF Committed
<1>5. invoices \in [Invoices -> InvoiceRow]
  BY DEF RowsInv
<1>6. \A i \in Invoices : invoices[i] = NoInvoice \/ invoices[i].status \in Statuses
  BY DEF RowsInv, InvoicesThere
<1>7. invoices'[c.invoice] = w /\ \A i \in Invoices : i # c.invoice => invoices'[i] = invoices[i]
  BY <1>3, <1>4, <1>5
<1>8. invoices' \in [Invoices -> InvoiceRow]
  BY <1>2, <1>4, <1>5
<1> QED
  BY <1>1, <1>2, <1>6, <1>7, <1>8

(* Only an approval changes its intake.                                    *)
LEMMA CommitIntakes ==
    ASSUME RowsInv, NEW c, CommandFits(c), c.pc = "commit", Committed(c)
    PROVE  /\ intakes' \in [Intakes -> IntakeRow] /\ IntakesStay
           /\ \A n \in Intakes : ~(c.op = "approve" /\ n = c.intake) => intakes'[n] = intakes[n]
<1>1. intakes \in [Intakes -> IntakeRow]
  BY DEF RowsInv
<1>2. CASE c.op # "approve"
  BY <1>1, <1>2 DEF Committed, IntakesStay
<1>3. CASE c.op = "approve"
  <2>1. c.intake \in Intakes
    BY <1>3, AtCommit DEF OperationFits, ApproveFits
  <2>2. PICK u : u = intakes[c.intake]
    OBVIOUS
  <2>3. PICK v : v = [u EXCEPT !.status = "APPROVED"]
    OBVIOUS
  <2>4. u \in IntakeRow
    BY <1>1, <2>1, <2>2
  <2>5. v \in IntakeRow /\ v.status = "APPROVED" /\ v.invoice = u.invoice /\ v.amount = u.amount
    BY <2>3, <2>4 DEF IntakeRow
  <2>6. intakes' = [intakes EXCEPT ![c.intake] = v]
    BY <1>3, <2>2, <2>3 DEF Committed
  <2>7. \A n \in Intakes : intakes'[n] = IF n = c.intake THEN v ELSE intakes[n]
    BY <1>1, <2>1, <2>6
  <2>8. IntakesStay
    BY <2>2, <2>5, <2>7 DEF IntakesStay
  <2>9. intakes' \in [Intakes -> IntakeRow]
    BY <1>1, <2>5, <2>6
  <2>10. \A n \in Intakes : n # c.intake => intakes'[n] = intakes[n]
    BY <2>7
  <2> QED
    BY <1>3, <2>8, <2>9, <2>10
<1> QED
  BY <1>2, <1>3

(* The row of a posting that has one is still there, and c has its own.    *)
LEMMA CommitPostings ==
    ASSUME RowsInv, NEW c, CommandFits(c), c.pc = "commit", Committed(c),
           TablesMove(c), LedgerMoves(c)
    PROVE  PostingsFit'
<1>1. \A i \in Invoices : invoices[i] # NoInvoice => invoices'[i] # NoInvoice
  BY CommitInvoices
<1>2. \A k : k \in PaymentKeys => k \in PaymentKeys'
  BY DEF TablesMove, PaymentsMove, SamePayment, PaymentKeys
<1>3. \A r \in refunds : r \in refunds'
  BY DEF TablesMove, RefundsMove
<1>4. ASSUME NEW x, HasRow(x) PROVE HasRow(x)'
  BY <1>1, <1>2, <1>3, <1>4 DEF HasRow
<1>5. PICK y : y = Posting(c)
  OBVIOUS
<1>6. HasRow(y)'
  <2>1. y.kind = Kind(c) /\ y.key = c.key
    BY <1>5, PostingShape
  <2>2. /\ c.op \in {"issue", "capture", "refund", "approve"} /\ OperationFits(c)
        /\ c.invoice \in Invoices
    BY AtCommit
  <2>3. CASE c.op = "issue"
    <3>1. y.kind = "issue" /\ y.key = c.invoice
      BY <2>1, <2>2, <2>3 DEF Kind, OperationFits, IssueFits
    <3>2. invoices'[c.invoice] # NoInvoice
      BY CommitInvoices, StoredShape
    <3> QED
      BY <2>2, <3>1, <3>2 DEF HasRow
  <2>4. CASE c.op = "refund"
    <3>1. y.kind = "refund"
      BY <2>1, <2>4 DEF Kind
    <3>2. \E r \in refunds' : r.key = c.key
      BY <2>4 DEF TablesMove, RefundsMove
    <3> QED
      BY <2>1, <3>1, <3>2 DEF HasRow
  <2>5. CASE c.op \in {"capture", "approve"}
    <3>1. y.kind = "capture"
      BY <2>1, <2>5 DEF Kind
    <3>2. c.key \in PaymentKeys'
      BY <2>5 DEF TablesMove, PaymentsMove, SamePayment, PaymentKeys
    <3> QED
      BY <2>1, <3>1, <3>2 DEF HasRow
  <2> QED
    BY <2>2, <2>3, <2>4, <2>5
<1>7. ASSUME NEW t \in Tenants, NEW x \in ledger'[t] PROVE HasRow(x)'
  <2>1. CASE x \in ledger[t]
    <3>1. HasRow(x)
      BY <2>1 DEF RowsInv, PostingsFit
    <3> QED
      BY <1>4, <3>1
  <2>2. CASE x = y
    BY <1>6, <2>2
  <2> QED
    BY <1>5, <2>1, <2>2 DEF LedgerMoves
<1> QED
  BY <1>7 DEF PostingsFit

(* The invoice is what the rows say, unless a stale column was kept.       *)
LEMMA CommitMatches ==
    ASSUME RowsInv, NEW c, CommandFits(c), c.pc = "commit", Committed(c),
           TablesMove(c), LedgerMoves(c)
    PROVE  InvoiceMatchesPayments' /\ ReceivableMatchesRows'
<1>1. /\ c.invoice \in Invoices /\ c.new = Result(c) /\ c.amount \in Nat \ {0}
      /\ c.op \in {"issue", "capture", "refund", "approve"} /\ OperationFits(c)
      /\ c.op = "issue" <=> invoices[c.invoice] = NoInvoice
  BY AtCommit
<1>2. PICK w : w = Stored(c)
  OBVIOUS
<1>3. /\ invoices'[c.invoice] = w /\ w # NoInvoice
      /\ \A i \in Invoices : i # c.invoice => invoices'[i] = invoices[i]
  BY <1>2, CommitInvoices, StoredShape
<1>4. \A i \in Invoices : Net(i)' = IF i = c.invoice THEN Result(c).paid ELSE Net(i)
  BY DEF TablesMove
<1>5. PICK m : m = Result(c).paid
  OBVIOUS
<1>6. c.new = [paid |-> m, status |-> StatusOf(m)] /\ Net(c.invoice)' = m
  BY <1>1, <1>4, <1>5 DEF Result
<1>7. InvoiceMatchesPayments'
  <2> SUFFICES ASSUME NEW i \in Invoices, invoices'[i] # NoInvoice, i \notin missed'
               PROVE  invoices'[i] = [paid |-> Net(i)', status |-> StatusOf(Net(i)')]
    BY DEF InvoiceMatchesPayments, StatusOf
  <2>1. CASE i = c.invoice
    <3>1. w = c.new
      BY <1>2, <2>1 DEF Committed
    <3> QED
      BY <1>3, <1>6, <2>1, <3>1
  <2>2. CASE i # c.invoice
    <3>1. invoices'[i] = invoices[i] /\ Net(i)' = Net(i) /\ i \notin missed
      BY <1>3, <1>4, <2>2 DEF Committed
    <3> QED
      BY <3>1 DEF RowsInv, InvoiceMatchesPayments
  <2> QED
    BY <2>1, <2>2
<1>8. ReceivableMatchesRows'
  <2> SUFFICES ASSUME NEW i \in Invoices
               PROVE  Receivable(i)' = IF invoices'[i] = NoInvoice THEN 0 ELSE Total - Net(i)'
    BY DEF ReceivableMatchesRows
  <2>1. Receivable(i) = IF invoices[i] = NoInvoice THEN 0 ELSE Total - Net(i)
    BY DEF RowsInv, ReceivableMatchesRows
  <2>2. PICK n : n = Net(i)
    OBVIOUS
  <2>3. n \in Int /\ Total \in Int
    BY <2>2, NetIsInt, FlowAmounts DEF FlowAmounts
  <2>4. Receivable(i)' = Receivable(i) + (IF i = c.invoice THEN Debit(Posting(c)) ELSE 0)
    BY DEF LedgerMoves
  <2>5. CASE i # c.invoice
    <3>1. invoices'[i] = invoices[i] /\ Net(i)' = n /\ Receivable(i)' = Receivable(i) + 0
      BY <1>3, <1>4, <2>2, <2>4, <2>5
    <3> QED
      BY <2>1, <2>2, <2>3, <3>1
  <2>6. CASE i = c.invoice
    <3>1. Posting(c).kind = Kind(c) /\ Posting(c).amount = c.amount
      BY PostingShape
    <3>2. Receivable(i)' = Receivable(i) + Debit(Posting(c)) /\ invoices'[i] # NoInvoice
          /\ Net(i)' = m
      BY <1>3, <1>6, <2>4, <2>6
    <3>3. CASE c.op = "issue"
      <4>1. Debit(Posting(c)) = Total
        BY <1>1, <3>1, <3>3 DEF Debit, Kind, OperationFits, IssueFits
      <4>2. m = 0 /\ Receivable(i) = 0
        BY <1>1, <1>5, <2>1, <2>6, <3>3 DEF Result
      <4> QED
        BY <2>3, <3>2, <4>1, <4>2
    <3>4. CASE c.op = "refund"
      <4>1. Debit(Posting(c)) = c.amount
        BY <3>1, <3>4 DEF Debit, Kind
      <4>2. m = n + (-c.amount)
        BY <1>5, <2>2, <2>6, <3>4 DEF Result, NetWith
      <4>3. Receivable(i) = Total - n
        BY <1>1, <2>1, <2>2, <2>6, <3>4
      <4> QED
        BY <1>1, <2>3, <3>2, <4>1, <4>2, <4>3
    <3>5. CASE c.op \in {"capture", "approve"}
      <4>1. Debit(Posting(c)) = -c.amount
        BY <3>1, <3>5 DEF Debit, Kind
      <4>2. m = n + c.amount
        BY <1>5, <2>2, <2>6, <3>5 DEF Result, NetWith
      <4>3. Receivable(i) = Total - n
        BY <1>1, <2>1, <2>2, <2>6, <3>5
      <4> QED
        BY <1>1, <2>3, <3>2, <4>1, <4>2, <4>3
    <3> QED
      BY <1>1, <3>3, <3>4, <3>5
  <2> QED
    BY <2>5, <2>6
<1> QED
  BY <1>7, <1>8

(* The rows after a commit.                                                *)
LEMMA CommitRows ==
    ASSUME RowsInv, NEW c, CommandFits(c), c.pc = "commit", Committed(c),
           TablesMove(c), LedgerMoves(c)
    PROVE  RowsInv'
<1>1. /\ c.op \in {"issue", "capture", "refund", "approve"} /\ OperationFits(c)
      /\ c.invoice \in Invoices
  BY AtCommit
<1>2. /\ invoices' \in [Invoices -> InvoiceRow]
      /\ \A i \in Invoices : invoices[i] # NoInvoice => invoices'[i] # NoInvoice
      /\ \A i \in Invoices : invoices'[i] = NoInvoice \/ invoices'[i].status \in Statuses
      /\ invoices'[c.invoice] # NoInvoice
  BY CommitInvoices, StoredShape
<1>3. /\ intakes' \in [Intakes -> IntakeRow] /\ IntakesStay
      /\ \A n \in Intakes : ~(c.op = "approve" /\ n = c.intake) => intakes'[n] = intakes[n]
  BY CommitIntakes
<1>4. subscription' \in {"ACTIVE", "SUSPENDED"}
  BY DEF Committed, RowsInv
<1>5. TablesAreFinite'
  <2>1. IsFiniteSet(payments') /\ IsFiniteSet(refunds')
    BY DEF TablesMove, Tables, HasAmounts
  <2> QED
    BY <2>1 DEF TablesAreFinite, LedgerMoves
<1>6. /\ \A p \in payments : \E q \in payments' : SamePayment(p, q)
      /\ \A q \in payments' : \/ \E p \in payments : SamePayment(p, q)
                              \/ c.op \in {"capture", "approve"} /\ SamePayment(c, q)
      /\ c.op \in {"capture", "approve"} => \E q \in payments' : SamePayment(c, q)
      /\ payments' \subseteq PaymentRow /\ refunds' \subseteq RefundRow
      /\ Tables(payments', refunds') /\ PaymentStatusMatches'
  BY DEF TablesMove, PaymentsMove, RefundsMove
<1>7. c.op = "approve" =>
         /\ c.key = c.intake /\ c.intake \in Intakes
         /\ intakes[c.intake].status # "NONE"
         /\ c.invoice = intakes[c.intake].invoice /\ c.amount = intakes[c.intake].amount
  BY <1>1 DEF OperationFits, ApproveFits
<1>8. InvoicesThere'
  <2>1. \A q \in payments' : invoices'[q.invoice] # NoInvoice
    <3> SUFFICES ASSUME NEW q \in payments' PROVE invoices'[q.invoice] # NoInvoice
      OBVIOUS
    <3>1. CASE SamePayment(c, q)
      BY <1>2, <3>1 DEF SamePayment
    <3>2. CASE \E p \in payments : SamePayment(p, q)
      <4>1. PICK p \in payments : SamePayment(p, q)
        BY <3>2
      <4>2. p.invoice \in Invoices /\ invoices[p.invoice] # NoInvoice
        BY DEF RowsInv, PaymentRow, InvoicesThere
      <4> QED
        BY <1>2, <4>1, <4>2 DEF SamePayment
    <3> QED
      BY <1>6, <3>1, <3>2
  <2>2. ASSUME NEW n \in Intakes, intakes'[n].status # "NONE"
        PROVE  /\ intakes'[n].invoice \in Invoices /\ intakes'[n].amount > 0
               /\ invoices'[intakes'[n].invoice] # NoInvoice
    <3>1. intakes[n].status # "NONE"
      BY <1>3, <1>7, <2>2
    <3>2. /\ intakes[n].invoice \in Invoices /\ intakes[n].amount > 0
          /\ invoices[intakes[n].invoice] # NoInvoice
      BY <3>1 DEF RowsInv, InvoicesThere
    <3>3. intakes'[n].invoice = intakes[n].invoice /\ intakes'[n].amount = intakes[n].amount
      BY <1>3, <3>1 DEF IntakesStay
    <3> QED
      BY <1>2, <3>2, <3>3
  <2>3. ASSUME NEW n \in Intakes, intakes'[n].status = "NONE"
        PROVE  intakes'[n] = NoIntake
    <3>1. intakes[n].status = "NONE"
      BY <1>3, <2>3 DEF IntakesStay
    <3>2. intakes'[n] = intakes[n]
      BY <1>3, <1>7, <3>1
    <3> QED
      BY <3>1, <3>2 DEF RowsInv, InvoicesThere
  <2> QED
    BY <1>2, <2>1, <2>2, <2>3 DEF InvoicesThere
<1>9. PaymentsFit'
  <2>1. ASSUME NEW q \in payments' PROVE IntakePaid(q)'
    <3>1. CASE \E p \in payments : SamePayment(p, q)
      <4>1. PICK p \in payments : SamePayment(p, q)
        BY <3>1
      <4>2. IntakePaid(p)
        BY DEF RowsInv, PaymentsFit
      <4> QED
        BY <1>3, <4>1, <4>2 DEF IntakePaid, SamePayment, IntakesStay
    <3>2. CASE c.op = "capture" /\ SamePayment(c, q)
      <4>1. q.key \notin Intakes
        BY <1>1, <3>2, KeysAreApart DEF KeysAreApart, OperationFits, CaptureFits, SamePayment
      <4> QED
        BY <4>1 DEF IntakePaid
    <3>3. CASE c.op = "approve" /\ SamePayment(c, q)
      BY <1>3, <1>7, <3>3 DEF IntakePaid, SamePayment, IntakesStay
    <3> QED
      BY <1>6, <3>1, <3>2, <3>3
  <2> QED
    BY <1>6, <2>1 DEF PaymentsFit, Tables, PaymentKeys
<1>10. PostingsFit'
  BY CommitPostings
<1>11. InvoiceMatchesPayments' /\ ReceivableMatchesRows'
  BY CommitMatches
<1>12. ApprovedIsCaptured'
  <2> SUFFICES ASSUME NEW n \in Intakes, intakes'[n].status = "APPROVED"
               PROVE  \E q \in payments' : /\ q.key = n /\ q.invoice = intakes'[n].invoice
                                           /\ q.amount = intakes'[n].amount
    BY DEF ApprovedIsCaptured
  <2>1. CASE c.op = "approve" /\ n = c.intake
    <3>1. PICK q \in payments' : SamePayment(c, q)
      BY <1>6, <2>1
    <3> QED
      BY <1>3, <1>7, <2>1, <3>1 DEF SamePayment, IntakesStay
  <2>2. CASE ~(c.op = "approve" /\ n = c.intake)
    <3>1. intakes'[n] = intakes[n]
      BY <1>3, <2>2
    <3>2. PICK p \in payments : /\ p.key = n /\ p.invoice = intakes[n].invoice
                                /\ p.amount = intakes[n].amount
      BY <3>1 DEF RowsInv, ApprovedIsCaptured
    <3>3. PICK q \in payments' : SamePayment(p, q)
      BY <1>6
    <3> QED
      BY <3>1, <3>2, <3>3 DEF SamePayment
  <2> QED
    BY <2>1, <2>2
<1>13. ledger' \in [Tenants -> SUBSET PostingRow]
  BY DEF LedgerMoves
<1> QED
  BY <1>2, <1>3, <1>4, <1>5, <1>6, <1>8, <1>9, <1>10, <1>11, <1>12, <1>13 DEF RowsInv

(* The command d of another session fits the rows that c has committed:    *)
(* d has another key, and if d is at its commit another invoice.           *)
LEMMA CommitOthers ==
    ASSUME RowsInv, NEW c, CommandFits(c), c.pc = "commit", Committed(c),
           TablesMove(c), LedgerMoves(c), NEW d, CommandFits(d), CommandsApart(c, d)
    PROVE  CommandFits(d)'
<1>1. c.posted /\ c.op \in {"issue", "capture", "refund", "approve"}
  BY AtCommit
<1>2. \A i \in Invoices : invoices[i] # NoInvoice => invoices'[i] # NoInvoice
  BY CommitInvoices
<1>3. /\ IntakesStay
      /\ \A n \in Intakes : ~(c.op = "approve" /\ n = c.intake) => intakes'[n] = intakes[n]
  BY CommitIntakes
<1>4. d.op = "submit" => intakes'[d.intake] = NoIntake
  <2> SUFFICES ASSUME d.op = "submit" PROVE intakes'[d.intake] = NoIntake
    OBVIOUS
  <2>1. d.intake \in Intakes /\ intakes[d.intake] = NoIntake
    BY DEF CommandFits, SubmitFits
  <2>2. c.op = "approve" => intakes[c.intake].status # "NONE"
    BY AtCommit DEF OperationFits, ApproveFits
  <2>3. ~(c.op = "approve" /\ d.intake = c.intake)
    BY <2>1, <2>2 DEF NoIntake
  <2> QED
    BY <1>3, <2>1, <2>3
<1>5. \A p \in payments : \E q \in payments' : q.key = p.key /\ q.invoice = p.invoice
  BY DEF TablesMove, PaymentsMove, SamePayment
<1>6. InLedger(d) => InLedger(d)'
  BY DEF InLedger, LedgerMoves
<1>7. d.posted => ~(Kind(c) = Kind(d) /\ c.key = d.key)
  BY <1>1 DEF CommandsApart
<1>8. d.posted => ~InLedger(d)'
  <2> SUFFICES ASSUME d.posted, NEW t \in Tenants, NEW x \in ledger'[t], SameKey(x, d)
               PROVE  FALSE
    BY DEF InLedger
  <2>1. x \in ledger[t] \/ x = Posting(c)
    BY DEF LedgerMoves
  <2>2. x \notin ledger[t]
    BY DEF CommandFits, InLedger
  <2>3. x.kind = Kind(c) /\ x.key = c.key
    BY <2>1, <2>2, PostingShape
  <2> QED
    BY <1>7, <2>3 DEF SameKey
<1>9. d.pc = "commit" => ~RowExists(d)' /\ Result(d)' = Result(d)
  <2> SUFFICES ASSUME d.pc = "commit" PROVE ~RowExists(d)' /\ Result(d)' = Result(d)
    OBVIOUS
  <2>1. /\ d.posted /\ ~RowExists(d) /\ d.invoice \in Invoices
        /\ d.op \in {"issue", "capture", "refund", "approve"}
    BY AtCommit
  <2>2. d.invoice # c.invoice
    BY DEF CommandsApart
  <2>3. ~(Kind(c) = Kind(d) /\ c.key = d.key)
    BY <1>7, <2>1
  <2>4. ~RowExists(d)'
    <3>1. CASE d.op = "issue"
      <4>1. invoices'[d.invoice] = invoices[d.invoice]
        BY <2>1, <2>2, CommitInvoices
      <4> QED
        BY <2>1, <3>1, <4>1 DEF RowExists
    <3>2. CASE d.op = "refund"
      <4>1. \A r \in refunds : r.key # d.key
        BY <2>1, <3>2 DEF RowExists
      <4>2. ~(c.op = "refund" /\ c.key = d.key)
        BY <2>3, <3>2 DEF Kind
      <4>3. \A r \in refunds' : r.key # d.key
        BY <4>1, <4>2 DEF TablesMove, RefundsMove
      <4> QED
        BY <3>2, <4>3 DEF RowExists
    <3>3. CASE d.op \in {"capture", "approve"}
      <4>1. \A p \in payments : p.key # d.key
        BY <2>1, <3>3 DEF RowExists, PaymentKeys
      <4>2. ~(c.op \in {"capture", "approve"} /\ c.key = d.key)
        BY <2>3, <3>3 DEF Kind
      <4>3. \A q \in payments' : q.key # d.key
        BY <4>1, <4>2 DEF TablesMove, PaymentsMove, SamePayment
      <4> QED
        BY <3>3, <4>3 DEF RowExists, PaymentKeys
    <3> QED
      BY <2>1, <3>1, <3>2, <3>3
  <2>5. Net(d.invoice)' = Net(d.invoice)
    BY <2>1, <2>2 DEF TablesMove
  <2>6. Result(d)' = Result(d)
    BY <2>5 DEF Result, NetWith, StatusOf
  <2> QED
    BY <2>4, <2>6
<1> QED
  BY <1>2, <1>3, <1>4, <1>5, <1>6, <1>8, <1>9, FitsKept

(* What a session commits.                                                 *)
LEMMA CommitMoves ==
    ASSUME FlowInv, NEW s \in Sessions, Commit(s), NEW c, c = cmd[s]
    PROVE  /\ CommandFits(c) /\ c.pc = "commit" /\ Committed(c)
           /\ TablesMove(c) /\ LedgerMoves(c)
<1>1. CommandFits(c) /\ c.pc = "commit" /\ RowsInv
  BY DEF FlowInv, CommandsInv, Commit
<1>2. Committed(c)
  BY DEF Commit, Committed
<1>3. TablesMove(c)
  BY <1>1, <1>2, CommitTables DEF Committed
<1>4. LedgerMoves(c)
  BY <1>1, <1>2, CommitLedger DEF Committed
<1> QED
  BY <1>1, <1>2, <1>3, <1>4

(* The transaction is committed.                                           *)
LEMMA CommitInv ==
    ASSUME FlowInv, NEW s \in Sessions, Commit(s)
    PROVE  FlowInv'
<1>1. PICK c : c = cmd[s]
  OBVIOUS
<1>2. /\ CommandFits(c) /\ c.pc = "commit" /\ Committed(c)
      /\ TablesMove(c) /\ LedgerMoves(c)
  BY <1>1, CommitMoves
<1>3. RowsInv /\ CommandsInv /\ begun \in 0..MaxCommands
  BY DEF FlowInv
<1>4. RowsInv'
  BY <1>2, <1>3, CommitRows
<1>5. cmd' = [cmd EXCEPT ![s] = Idle] /\ begun' = begun
  BY DEF Commit
<1>6. \A t \in Sessions \ {s} : cmd'[t] = cmd[t]
  BY <1>3, <1>5 DEF CommandsInv
<1>7. ASSUME NEW t \in Sessions \ {s}
      PROVE  CommandFits(cmd[t])'
  <2>1. PICK d : d = cmd[t]
    OBVIOUS
  <2>2. CommandFits(d) /\ CommandsApart(c, d)
    BY <1>1, <1>3, <2>1 DEF CommandsInv
  <2>3. CommandFits(d)'
    BY <1>2, <1>3, <2>2, CommitOthers
  <2> QED
    BY <1>6, <2>1, <2>3
<1>8. CommandsInv'
  BY <1>3, <1>5, <1>6, <1>7, IdleFitsNext, IdleApart, CommandsMove
<1> QED
  BY <1>3, <1>4, <1>5, <1>8 DEF FlowInv

-----------------------------------------------------------------------------
(* BillingFlows: the theorems.                                             *)

(* No row, no command.                                                     *)
LEMMA FlowInitInv ==
    ASSUME Init
    PROVE  FlowInv
<1>1. /\ payments = {} /\ refunds = {} /\ subscription = "SUSPENDED" /\ begun = 0
      /\ invoices = [i \in Invoices |-> NoInvoice]
      /\ intakes = [n \in Intakes |-> NoIntake]
      /\ ledger = [t \in Tenants |-> {}]
      /\ cmd = [s \in Sessions |-> Idle]
  BY DEF Init
<1>2. Entries = {}
  BY <1>1 DEF Entries
<1>3. TablesAreFinite
  BY <1>1, <1>2, FS_EmptySet DEF TablesAreFinite
<1>4. NoInvoice \in InvoiceRow /\ NoIntake \in IntakeRow /\ NoIntake.status = "NONE"
  <2>1. 0 \in Int /\ 0 \in Nat
    OBVIOUS
  <2> QED
    BY <2>1 DEF NoInvoice, InvoiceRow, NoIntake, IntakeRow
<1>5. /\ invoices \in [Invoices -> InvoiceRow] /\ intakes \in [Intakes -> IntakeRow]
      /\ ledger \in [Tenants -> SUBSET PostingRow]
  BY <1>1, <1>4
<1>6. InvoicesThere
  BY <1>1, <1>4 DEF InvoicesThere
<1>7. PaymentsFit /\ PostingsFit /\ PaymentStatusMatches
  BY <1>1 DEF PaymentsFit, PostingsFit, PaymentStatusMatches
<1>8. InvoiceMatchesPayments
  BY <1>1 DEF InvoiceMatchesPayments
<1>9. ReceivableMatchesRows
  <2>1. \A i : {e \in Entries : e[2].invoice = i} = {}
    BY <1>2
  <2>2. \A i : Receivable(i) = 0
    BY <2>1, SumEmpty DEF Receivable
  <2> QED
    BY <1>1, <2>2 DEF ReceivableMatchesRows
<1>10. ApprovedIsCaptured
  BY <1>1, <1>4 DEF ApprovedIsCaptured
<1>11. RowsInv
  BY <1>1, <1>3, <1>5, <1>6, <1>7, <1>8, <1>9, <1>10 DEF RowsInv
<1>12. CommandsInv
  BY <1>1, IdleShape, IdleFits, IdleApart DEF CommandsInv
<1>13. begun \in 0..MaxCommands
  BY <1>1, FlowAmounts DEF FlowAmounts
<1> QED
  BY <1>11, <1>12, <1>13 DEF FlowInv

(* Every step of a session keeps the invariant.                            *)
LEMMA FlowStepInv ==
    ASSUME FlowInv, NEW s \in Sessions, Step(s) \/ Abort(s)
    PROVE  FlowInv'
<1>1. CASE InsertIntake(s)
  BY <1>1, InsertIntakeInv
<1>2. CASE ReviewIntake(s) \/ CheckDue(s) \/ LoadForIntake(s)
  BY <1>2, ApprovalInv
<1>3. CASE CommitApproval(s)
  BY <1>3, CommitApprovalInv
<1>4. CASE NextBatchSequence(s)
  BY <1>4, NextBatchSequenceInv
<1>5. CASE InsertHeader(s)
  BY <1>5, InsertHeaderInv
<1>6. CASE LockCase(s)
  BY <1>6, LockCaseInv
<1>7. CASE InsertRow(s)
  BY <1>7, InsertRowInv
<1>8. CASE Commit(s)
  BY <1>8, CommitInv
<1>9. CASE RefuseDue(s) \/ InsertHeaderRaises(s) \/ InsertRowRaises(s) \/ Abort(s)
  <2>1. cmd' = [cmd EXCEPT ![s] = Idle] /\ UNCHANGED <<rows, begun, missed>>
    BY <1>9 DEF RefuseDue, InsertHeaderRaises, InsertRowRaises, Abort
  <2> QED
    BY <2>1, GiveUpInv
<1> QED
  BY <1>1, <1>2, <1>3, <1>4, <1>5, <1>6, <1>7, <1>8, <1>9 DEF Step

(* So does every call.                                                     *)
LEMMA FlowCallInv ==
    ASSUME FlowInv, NEW s \in Sessions, Call(s)
    PROVE  FlowInv'
<1>1. CASE \E t \in Tenants, i \in Invoices : IssueInvoice(s, t, i)
  BY <1>1, IssueInvoiceInv
<1>2. CASE \E t \in Tenants, i \in Invoices : \E k \in CaptureKeys, a \in Amounts :
              CapturePayment(s, t, i, k, a)
  BY <1>2, CapturePaymentInv
<1>3. CASE \E t \in Tenants, p \in payments, k \in RefundKeys, a \in Amounts :
              RefundPayment(s, t, p, k, a)
  BY <1>3, RefundPaymentInv
<1>4. CASE \E n \in Intakes : ApproveIntake(s, n)
  BY <1>4, ApproveIntakeInv
<1>5. CASE \E n \in Intakes : RejectIntake(s, n)
  BY <1>5, RejectIntakeInv
<1>6. CASE \E n \in Intakes : \E i \in Invoices : SubmitIntake(s, n, i)
  BY <1>6, SubmitIntakeInv
<1> QED
  BY <1>1, <1>2, <1>3, <1>4, <1>5, <1>6 DEF Call

(* A step that changes nothing keeps it too.                               *)
LEMMA FlowStutterInv ==
    ASSUME FlowInv, UNCHANGED vars
    PROVE  FlowInv'
<1>1. UNCHANGED <<rows, missed>> /\ UNCHANGED rows /\ cmd' = cmd /\ begun' = begun
  BY DEF vars
<1>2. RowsInv'
  BY <1>1, RowsStay DEF FlowInv
<1>3. CommandsInv'
  <2>1. CommandsInv
    BY DEF FlowInv
  <2>2. ASSUME NEW t \in Sessions PROVE CommandFits(cmd[t])'
    <3>1. PICK d : d = cmd[t]
      OBVIOUS
    <3>2. CommandFits(d)'
      BY <1>1, <2>1, <3>1, FitsStay DEF CommandsInv
    <3> QED
      BY <1>1, <3>1, <3>2
  <2> QED
    BY <1>1, <2>1, <2>2 DEF CommandsInv
<1> QED
  BY <1>1, <1>2, <1>3 DEF FlowInv

(* The rows of the tables, the invoice, the ledger and what every command  *)
(* has loaded, posted and locked always fit together.                      *)
THEOREM FlowInvariant == Spec => []FlowInv
<1>1. Init => FlowInv
  BY FlowInitInv
<1>2. FlowInv /\ [Next]_vars => FlowInv'
  <2> SUFFICES ASSUME FlowInv, [Next]_vars PROVE FlowInv'
    OBVIOUS
  <2>1. CASE UNCHANGED vars
    BY <2>1, FlowStutterInv
  <2>2. CASE Next
    <3>1. PICK s \in Sessions : Call(s) \/ Step(s) \/ Abort(s)
      BY <2>2 DEF Next
    <3> QED
      BY <3>1, FlowCallInv, FlowStepInv
  <2> QED
    BY <2>1, <2>2
<1> QED
  BY <1>1, <1>2, PTL DEF Spec

(* BillingBooksMatch always holds: amount_paid and status of every invoice *)
(* are what its payments and refunds add up to unless its last store kept  *)
(* a stale column, its receivable in the ledger is what they leave open,   *)
(* every payment has the status of its refunds, and every approved intake  *)
(* has been captured, for any number of sessions, tenants and commands.    *)
THEOREM BooksAlwaysMatch == Spec => []BillingBooksMatch
<1>1. FlowInv => BillingBooksMatch
  <2> SUFFICES ASSUME FlowInv PROVE BillingBooksMatch
    OBVIOUS
  <2>1. RowsInv /\ CommandsInv /\ begun \in 0..MaxCommands
    BY DEF FlowInv
  <2>2. TypeOK
    BY <2>1 DEF RowsInv, CommandsInv, TypeOK, PaymentRow, RefundRow, IntakeRow
  <2> QED
    BY <2>1, <2>2 DEF BillingBooksMatch, RowsInv
<1> QED
  BY <1>1, FlowInvariant, PTL

(* Payments change at a commit only, the subscription at a commit or when  *)
(* an intake is approved again.                                            *)
LEMMA OnlyCommits ==
    ASSUME [Next]_vars, payments' # payments \/ subscription' # subscription
    PROVE  \E s \in Sessions : Commit(s) \/ (CommitApproval(s) /\ payments' = payments)
<1>1. ~UNCHANGED vars
  BY DEF vars, rows
<1>2. PICK s \in Sessions : Call(s) \/ Step(s) \/ Abort(s)
  BY <1>1 DEF Next
<1>3. ~UNCHANGED rows
  BY DEF rows
<1>4. ~Call(s)
  <2>1. \A t, i : ~IssueInvoice(s, t, i)
    BY <1>3 DEF IssueInvoice, Begin
  <2>2. \A t, i, k, a : ~CapturePayment(s, t, i, k, a)
    BY <1>3 DEF CapturePayment, Begin
  <2>3. \A t, p, k, a : ~RefundPayment(s, t, p, k, a)
    BY <1>3 DEF RefundPayment, Begin
  <2>4. \A n : ~ApproveIntake(s, n) /\ ~RejectIntake(s, n)
    BY <1>3 DEF ApproveIntake, RejectIntake, Begin
  <2>5. \A n, i : ~SubmitIntake(s, n, i)
    BY <1>3 DEF SubmitIntake
  <2> QED
    BY <2>1, <2>2, <2>3, <2>4, <2>5 DEF Call
<1>5. ~Abort(s)
  BY <1>3 DEF Abort
<1>6. ~InsertIntake(s) /\ ~ReviewIntake(s) /\ ~CheckDue(s) /\ ~RefuseDue(s)
  BY <1>3 DEF InsertIntake, ReviewIntake, CheckDue, RefuseDue
<1>7. ~LoadForIntake(s) /\ ~NextBatchSequence(s) /\ ~InsertHeader(s)
  BY <1>3 DEF LoadForIntake, NextBatchSequence, InsertHeader
<1>8. ~InsertHeaderRaises(s) /\ ~LockCase(s) /\ ~InsertRow(s) /\ ~InsertRowRaises(s)
  BY <1>3 DEF InsertHeaderRaises, LockCase, InsertRow, InsertRowRaises
<1>9. Commit(s) \/ CommitApproval(s)
  BY <1>2, <1>4, <1>5, <1>6, <1>7, <1>8 DEF Step
<1>10. CommitApproval(s) => payments' = payments
  BY DEF CommitApproval
<1> QED
  BY <1>9, <1>10

(* The net amount of the invoice of a payment that is committed.           *)
LEMMA CommitAddsUp ==
    ASSUME FlowInv, NEW s \in Sessions, Commit(s), NEW c, c = cmd[s],
           c.op \in {"capture", "approve"}
    PROVE  /\ Net(c.invoice) \in Int /\ c.amount \in Nat
           /\ Net(c.invoice)' = Net(c.invoice) + c.amount
           /\ c.new = [paid |-> Net(c.invoice)', status |-> StatusOf(Net(c.invoice)')]
<1>1. RowsInv /\ CommandFits(c) /\ c.pc = "commit" /\ TablesMove(c)
  BY CommitMoves DEF FlowInv
<1>2. c.invoice \in Invoices /\ c.amount \in Nat \ {0} /\ c.new = Result(c)
  BY <1>1, AtCommit
<1>3. Net(c.invoice)' = Result(c).paid
  BY <1>1, <1>2 DEF TablesMove
<1>4. PICK m : m = NetWith(c)
  OBVIOUS
<1>5. Result(c) = [paid |-> m, status |-> StatusOf(m)]
  BY <1>4 DEF Result
<1>6. m = Net(c.invoice) + c.amount
  BY <1>4 DEF NetWith
<1>7. Net(c.invoice) \in Int
  BY <1>1, NetIsInt
<1> QED
  BY <1>2, <1>3, <1>5, <1>6, <1>7

(* A command that reactivates the subscription covers its invoice, if the  *)
(* invoice is still the one it has loaded.                                 *)
LEMMA ReactivationCovers ==
    ASSUME FlowInv, NEW s \in Sessions, Commit(s), NEW c, c = cmd[s], Reactivates(c),
           c.seen.paid = Net(c.invoice), c.invoice \notin missed
    PROVE  c.invoice \in Invoices /\ Net(c.invoice)' >= Total
<1>1. RowsInv /\ CommandFits(c) /\ c.pc = "commit"
  BY CommitMoves DEF FlowInv
<1>2. c.op \in {"capture", "approve"}
  BY DEF Reactivates
<1>3. c.invoice \in Invoices /\ invoices[c.invoice] # NoInvoice
  BY <1>1, <1>2, AtCommit
<1>4. PICK n : n = Net(c.invoice)
  OBVIOUS
<1>5. PICK m : m = Net(c.invoice)'
  OBVIOUS
<1>6. /\ n \in Int /\ c.amount \in Nat /\ m = n + c.amount
      /\ c.new = [paid |-> m, status |-> StatusOf(m)]
  BY <1>2, <1>4, <1>5, CommitAddsUp
<1>7. m \in Int /\ Total \in Nat /\ c.new.status = StatusOf(m)
  BY <1>6, FlowAmounts DEF FlowAmounts
<1>8. CASE c.new.status = "PAID"
  BY <1>3, <1>5, <1>7, <1>8, StatusOfType
<1>9. CASE Clears(c)
  BY <1>3, <1>4, <1>5, <1>6, <1>9 DEF Clears
<1>10. CASE Stored(c).status = "PAID" /\ c.new.status # "PAID"
  <2>1. invoices[c.invoice].status = "PAID"
    BY <1>10 DEF Stored
  <2>2. invoices[c.invoice] = [paid |-> n, status |-> StatusOf(n)]
    BY <1>1, <1>3, <1>4 DEF RowsInv, InvoiceMatchesPayments
  <2>3. StatusOf(n) = "PAID"
    BY <2>1, <2>2
  <2>4. n >= Total
    BY <1>6, <2>3, StatusOfType
  <2> QED
    BY <1>3, <1>5, <1>6, <1>7, <2>4
<1> QED
  BY <1>8, <1>9, <1>10 DEF Reactivates

(* So does an approval of an intake that had been captured before.         *)
LEMMA ApprovalCovers ==
    ASSUME FlowInv, NEW s \in Sessions, CommitApproval(s), NEW c, c = cmd[s],
           subscription # subscription', ~LoadedStale(c)
    PROVE  c.invoice \in Invoices /\ Net(c.invoice)' >= Total
<1>1. CommandFits(c) /\ RowsInv /\ c.pc = "approved" /\ c.seen.status = "PAID"
  BY DEF FlowInv, CommandsInv, CommitApproval
<1>2. c.op = "approve" /\ ApproveFits(c)
  BY <1>1, OperationAt DEF OperationFits
<1>3. c.invoice \in Invoices
  BY <1>1, <1>2 DEF ApproveFits, RowsInv, InvoicesThere
<1>4. PICK n : n = Net(c.invoice)
  OBVIOUS
<1>5. n \in Int /\ Net(c.invoice)' = n
  <2>1. payments' = payments /\ refunds' = refunds
    BY DEF CommitApproval
  <2> QED
    BY <1>1, <1>4, <2>1, NetIsInt, NetIsNetIn, NetNext
<1>6. StatusOf(n) = "PAID"
  <2>1. c.seen = [paid |-> n, status |-> StatusOf(n)]
    BY <1>1, <1>4 DEF LoadedStale
  <2> QED
    BY <1>1, <2>1
<1> QED
  BY <1>3, <1>5, <1>6, StatusOfType

(* DecisionsAreCovered always holds: a command that reactivates the        *)
(* subscription covers its invoice, and an approval does not overpay, as   *)
(* long as no payment or refund came between what the command has read and *)
(* what it commits.                                                        *)
THEOREM DecisionsAlwaysCovered == Spec => DecisionsAreCovered
<1>1. FlowInv /\ [Next]_vars =>
         [subscription # subscription' =>
             \/ \E i \in Invoices : Net(i)' >= Total
             \/ \E s \in Sessions : LoadedStale(cmd[s])]_vars
  <2> SUFFICES ASSUME FlowInv, [Next]_vars, subscription # subscription'
               PROVE  \/ \E i \in Invoices : Net(i)' >= Total
                      \/ \E s \in Sessions : LoadedStale(cmd[s])
    OBVIOUS
  <2>1. PICK s \in Sessions : Commit(s) \/ CommitApproval(s)
    BY OnlyCommits
  <2>2. PICK c : c = cmd[s]
    OBVIOUS
  <2> SUFFICES ASSUME ~LoadedStale(c)
               PROVE  c.invoice \in Invoices /\ Net(c.invoice)' >= Total
    BY <2>2
  <2>3. CASE Commit(s)
    <3>1. Reactivates(c) /\ c.pc = "commit"
      BY <2>2, <2>3 DEF Commit
    <3>2. c.seen.paid = Net(c.invoice) /\ c.invoice \notin missed
      BY <3>1 DEF LoadedStale
    <3> QED
      BY <2>2, <2>3, <3>1, <3>2, ReactivationCovers
  <2>4. CASE CommitApproval(s)
    BY <2>2, <2>4, ApprovalCovers
  <2> QED
    BY <2>1, <2>3, <2>4
<1>2. FlowInv /\ [Next]_vars =>
         [\A s \in Sessions, i \in Invoices :
             /\ cmd[s].op = "approve" /\ cmd[s].pc = "commit" /\ cmd[s].invoice = i
             /\ cmd'[s] = Idle /\ payments' # payments
             => \/ Net(i)' <= Total
                \/ cmd[s].due # Total - Net(i)]_vars
  <2> SUFFICES ASSUME FlowInv, [Next]_vars, NEW s \in Sessions, NEW i \in Invoices,
                      cmd[s].op = "approve", cmd[s].pc = "commit", cmd[s].invoice = i,
                      cmd'[s] = Idle, payments' # payments, cmd[s].due = Total - Net(i)
               PROVE  Net(i)' <= Total
    OBVIOUS
  <2>1. PICK t \in Sessions : Commit(t)
    BY OnlyCommits
  <2>2. t = s
    <3>1. cmd' = [cmd EXCEPT ![t] = Idle] /\ cmd \in [Sessions -> Command]
      BY <2>1 DEF Commit, FlowInv, CommandsInv
    <3>2. t # s => cmd'[s] = cmd[s]
      BY <3>1
    <3> QED
      BY <3>2, IdleShape
  <2>3. PICK c : c = cmd[s]
    OBVIOUS
  <2>4. c.amount <= c.due
    BY <2>3 DEF FlowInv, CommandsInv, CommandFits, ApproveFits
  <2>5. PICK n : n = Net(i)
    OBVIOUS
  <2>6. n \in Int /\ c.amount \in Nat /\ Net(i)' = n + c.amount
    BY <2>1, <2>2, <2>3, <2>5, CommitAddsUp
  <2>7. c.amount <= Total - n /\ Total \in Nat
    BY <2>3, <2>4, <2>5, FlowAmounts DEF FlowAmounts
  <2> QED
    BY <2>6, <2>7
<1> QED
  BY <1>1, <1>2, FlowInvariant, PTL DEF DecisionsAreCovered, ReactivatedWhenCovered,
     ApprovalNeverOverpays, Spec

=============================================================================
