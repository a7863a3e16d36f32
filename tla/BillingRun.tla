----------------------------- MODULE BillingRun -----------------------------
(***************************************************************************)
(* The manual billing run (BillingRunService of app/services/billing_run   *)
(* .py) for one client, period and currency: it finds or creates the       *)
(* period, collects the billable operations and creates the draft invoice  *)
(* or rebuilds its lines, in one READ COMMITTED transaction.               *)
(*                                                                         *)
(* The advisory lock of app/services/job_locks.py is meant to serialise    *)
(* the runs of a period.  A session that does not get it takes a lock of   *)
(* its own process instead and gives it back before it starts to work, so  *)
(* runs do overlap, and what keeps them apart are the locks of the rows    *)
(* and the unique constraints.                                             *)
(***************************************************************************)
EXTENDS Sums

CONSTANTS Runners,      \* sessions that run the job
          JobKeys,      \* idempotency keys of runs
          Operations,   \* operations of the client in the period
          Price,        \* net amount of an operation
          MaxRuns,      \* bound: runs begun
          NoJob

ASSUME RunAmounts ==
    /\ IsFiniteSet(Operations) /\ Price \in [Operations -> Nat]
    /\ MaxRuns \in Nat

VARIABLES
    billable,   \* operations captured and not refunded
    period,     \* billing_periods: status of the row, or "NONE"
    invoice,    \* the invoice of the client: status and total
    lines,      \* invoice_lines: <<run, operation>>
    jobs,       \* keys of the runs that succeeded
    run,        \* run[s]: the run of session s
    runs,       \* number of runs begun
    unsaved,    \* history: the total was not stored, it was the one loaded
    closedAt    \* history: runs begun when the period was finalized

runRows == <<billable, period, invoice, lines, jobs>>
runVars == <<runRows, run, runs, unsaved, closedAt>>

NoDraft == [status |-> "NONE", total |-> 0]
Resting == [pc |-> "idle", id |-> 0, key |-> NoJob, newPeriod |-> FALSE, ops |-> {},
            seen |-> NoDraft, visible |-> {}, deleted |-> {}]

RunInit ==
    /\ billable = {} /\ period = "NONE"
    /\ invoice = NoDraft /\ lines = {}
    /\ jobs = {}
    /\ run = [s \in Runners |-> Resting]
    /\ runs = 0
    /\ unsaved = FALSE /\ closedAt = 0

Amount(ops) == SumOf(Price, ops)
Billed(set) == {l[2] : l \in set}

-----------------------------------------------------------------------------
(* What other parts of the system do meanwhile.                            *)

(* An operation is captured, or refunded in full.                          *)
ToggleOperation(o) ==
    /\ billable' = IF o \in billable THEN billable \ {o} ELSE billable \cup {o}
    /\ UNCHANGED <<period, invoice, lines, jobs, run, runs, unsaved, closedAt>>

FinalizePeriod ==
    /\ period = "OPEN"
    /\ period' = "FINALIZED"
    /\ closedAt' = runs
    /\ UNCHANGED <<billable, invoice, lines, jobs, run, runs, unsaved>>

(* The row of the invoice is locked from the UPDATE of its total on.       *)
InvoiceLocked ==
    \E s \in Runners : /\ run[s].pc = "commit" /\ run[s].seen # NoDraft
                        /\ Amount(run[s].ops) # run[s].seen.total

IssueDraft ==
    /\ invoice.status = "DRAFT"
    /\ ~InvoiceLocked
    /\ invoice' = [invoice EXCEPT !.status = "ISSUED"]
    /\ UNCHANGED <<billable, period, lines, jobs, run, runs, unsaved, closedAt>>

-----------------------------------------------------------------------------
Goto(s, pc) == run' = [run EXCEPT ![s].pc = pc]

(* An exception or the end of the request without a commit.                *)
Raise(s) ==
    /\ run' = [run EXCEPT ![s] = Resting]
    /\ UNCHANGED <<runRows, runs, unsaved, closedAt>>

(* run, up to the job's row.  A run that succeeded under the key is        *)
(* replayed.  The advisory lock is taken and asked for nothing: a session  *)
(* that fails to get it gets the lock of its process, for the length of    *)
(* the with statement.                                                     *)
StartRun(s, k) ==
    /\ run[s] = Resting /\ runs < MaxRuns
    /\ k \notin jobs
    /\ runs' = runs + 1
    /\ run' = [run EXCEPT ![s] = [Resting EXCEPT !.pc = "period", !.id = runs', !.key = k]]
    /\ UNCHANGED <<runRows, unsaved, closedAt>>

Billable(status) == status = "OPEN"

(* _get_or_create_billing_period, and the period must be open.             *)
FindPeriod(s) ==
    /\ run[s].pc = "period" /\ Billable(period)
    /\ Goto(s, "query")
    /\ UNCHANGED <<runRows, runs, unsaved, closedAt>>

PeriodMissing(s) ==
    /\ run[s].pc = "period" /\ period = "NONE"
    /\ Goto(s, "newperiod")
    /\ UNCHANGED <<runRows, runs, unsaved, closedAt>>

PeriodClosed(s) ==
    /\ run[s].pc = "period" /\ period # "NONE" /\ ~Billable(period)
    /\ Raise(s)

PeriodPending(s) == \E t \in Runners \ {s} : run[t].newPeriod

CreatePeriod(s) ==
    /\ run[s].pc = "newperiod"
    /\ ~PeriodPending(s) /\ period = "NONE"
    /\ run' = [run EXCEPT ![s].pc = "query", ![s].newPeriod = TRUE]
    /\ UNCHANGED <<runRows, runs, unsaved, closedAt>>

CreatePeriodRaises(s) ==
    /\ run[s].pc = "newperiod"
    /\ ~PeriodPending(s) /\ period # "NONE"
    /\ Raise(s)

(* No operation, no invoice: the run succeeds.                             *)
QueryOperations(s) ==
    /\ run[s].pc = "query"
    /\ run' = [run EXCEPT ![s].ops = billable,
                          ![s].pc = IF billable = {} THEN "done" ELSE "load"]
    /\ UNCHANGED <<runRows, runs, unsaved, closedAt>>

(* The decision engine may decline the client's invoice.                   *)
DeclineInvoice(s) ==
    /\ run[s].pc = "load"
    /\ Goto(s, "done")
    /\ UNCHANGED <<runRows, runs, unsaved, closedAt>>

-----------------------------------------------------------------------------
(* _apply_invoice                                                          *)

(* Mutant: an invoice in any status is rebuilt.                            *)
AnyInvoice == invoice # NoDraft

Rebuildable == invoice.status = "DRAFT"

LoadInvoice(s) ==
    /\ run[s].pc = "load"
    /\ run' = [run EXCEPT ![s].seen = invoice,
                  ![s].pc = CASE invoice = NoDraft -> "create"
                              [] Rebuildable       -> "delete"
                              [] OTHER             -> "done"]
    /\ UNCHANGED <<runRows, runs, unsaved, closedAt>>

(* The unique scope of an invoice: the loser waits, then raises.           *)
DraftPending(s) ==
    \E t \in Runners \ {s} : run[t].pc = "commit" /\ run[t].seen = NoDraft

CreateDraft(s) ==
    /\ run[s].pc = "create"
    /\ ~DraftPending(s) /\ invoice = NoDraft
    /\ Goto(s, "commit")
    /\ UNCHANGED <<runRows, runs, unsaved, closedAt>>

CreateDraftRaises(s) ==
    /\ run[s].pc = "create"
    /\ ~DraftPending(s) /\ invoice # NoDraft
    /\ Raise(s)

(* The rows the DELETE finds are those committed when it starts.           *)
StartDelete(s) ==
    /\ run[s].pc = "delete"
    /\ run' = [run EXCEPT ![s].visible = lines, ![s].pc = "deleting"]
    /\ UNCHANGED <<runRows, runs, unsaved, closedAt>>

(* It waits for a run that has deleted one of them; when that run commits  *)
(* they are gone, and the lines it has inserted were not found.            *)
DeleteWaits(s) == \E t \in Runners \ {s} : run[t].deleted \cap run[s].visible # {}

DeleteLines(s) ==
    /\ run[s].pc = "deleting"
    /\ ~DeleteWaits(s)
    /\ run' = [run EXCEPT ![s].deleted = run[s].visible \cap lines, ![s].pc = "replace"]
    /\ UNCHANGED <<runRows, runs, unsaved, closedAt>>

(* Mutant: the lines there are now are not loaded.                         *)
OnlyFound(s) == run[s].deleted

(* invoice.lines = []: the mapper loads the lines there are now, inserts   *)
(* the new ones and then deletes those it loaded.                          *)
Replaced(s) == lines

Remaining(s) == lines \ run[s].deleted

(* An uncommitted line of the same operation, or an uncommitted UPDATE of  *)
(* the invoice.                                                            *)
ReplaceWaits(s) == \E t \in Runners \ {s} : run[t].pc = "commit" /\ run[t].seen # NoDraft

ReplaceLines(s) ==
    /\ run[s].pc = "replace"
    /\ ~ReplaceWaits(s)
    /\ Billed(Remaining(s)) \cap run[s].ops = {}
    /\ run' = [run EXCEPT ![s].deleted = Replaced(s), ![s].pc = "commit"]
    /\ UNCHANGED <<runRows, runs, unsaved, closedAt>>

(* uq_invoice_line_operation_per_invoice                                   *)
ReplaceLinesRaises(s) ==
    /\ run[s].pc = "replace"
    /\ ~ReplaceWaits(s)
    /\ Billed(Remaining(s)) \cap run[s].ops # {}
    /\ Raise(s)

-----------------------------------------------------------------------------
NewLines(s) == {<<run[s].id, o>> : o \in run[s].ops}

(* Only a total that differs from the loaded one is stored.                *)
StoredTotal(s) ==
    IF run[s].seen # NoDraft /\ Amount(run[s].ops) = run[s].seen.total
    THEN invoice.total ELSE Amount(run[s].ops)

StoredStatus(s) == IF run[s].seen = NoDraft THEN "DRAFT" ELSE invoice.status

PeriodAfter(s) == IF run[s].newPeriod THEN "OPEN" ELSE period

CommitInvoice(s) ==
    /\ run[s].pc = "commit"
    /\ invoice' = [status |-> StoredStatus(s), total |-> StoredTotal(s)]
    /\ lines' = (lines \ run[s].deleted) \cup NewLines(s)
    /\ period' = PeriodAfter(s)
    /\ jobs' = jobs \cup {run[s].key}
    /\ unsaved' = (StoredTotal(s) # Amount(run[s].ops))
    /\ run' = [run EXCEPT ![s] = Resting]
    /\ UNCHANGED <<billable, runs, closedAt>>

CommitDone(s) ==
    /\ run[s].pc = "done"
    /\ period' = PeriodAfter(s)
    /\ jobs' = jobs \cup {run[s].key}
    /\ run' = [run EXCEPT ![s] = Resting]
    /\ UNCHANGED <<billable, invoice, lines, runs, unsaved, closedAt>>

(* The process dies or the connection is lost.                             *)
Die(s) == run[s] # Resting /\ Raise(s)

-----------------------------------------------------------------------------
RunStep(s) ==
    \/ FindPeriod(s) \/ PeriodMissing(s) \/ PeriodClosed(s)
    \/ CreatePeriod(s) \/ CreatePeriodRaises(s) \/ QueryOperations(s)
    \/ DeclineInvoice(s) \/ LoadInvoice(s) \/ CreateDraft(s) \/ CreateDraftRaises(s)
    \/ StartDelete(s) \/ DeleteLines(s) \/ ReplaceLines(s) \/ ReplaceLinesRaises(s)
    \/ CommitInvoice(s) \/ CommitDone(s)

RunNext ==
    \/ FinalizePeriod \/ IssueDraft
    \/ \E o \in Operations : ToggleOperation(o)
    \/ \E s \in Runners : RunStep(s) \/ Die(s) \/ \E k \in JobKeys : StartRun(s, k)

RunSpec == RunInit /\ [][RunNext]_runVars

-----------------------------------------------------------------------------
(* The total of the invoice is the sum of its lines however runs overlap,  *)
(* unless the last run computed the total it had loaded and therefore left *)
(* that of another run, and no operation is billed on two lines.           *)
TotalMatchesLines ==
    /\ invoice # NoDraft /\ ~unsaved =>
           invoice.total = SumOf([l \in lines |-> Price[l[2]]], lines)
    /\ \A l, k \in lines : l[2] = k[2] => l = k

(* No line comes from a run that began after the period was finalized:     *)
(* only a run that found it open before may still write.                   *)
NoLateBilling ==
    period = "FINALIZED" => \A l \in lines : l[1] <= closedAt

(* The lines and the total of an issued invoice are changed by no run that *)
(* did not load it as a draft.                                             *)
IssuedIsFrozen ==
    [][invoice.status = "ISSUED" /\ <<invoice, lines>>' # <<invoice, lines>> =>
          \E s \in Runners : run[s].pc = "commit" /\ run[s].seen.status = "DRAFT"]_runVars

(* No run bills a period that was finalized before it, and none rebuilds   *)
(* an invoice it found issued.                                             *)
ClosedStaysClosed == []NoLateBilling /\ IssuedIsFrozen

Waits(s) ==
    \/ run[s].pc = "newperiod" /\ PeriodPending(s)
    \/ run[s].pc = "create" /\ DraftPending(s)
    \/ run[s].pc = "deleting" /\ DeleteWaits(s)
    \/ run[s].pc = "replace" /\ ReplaceWaits(s)

(* Runs never wait for each other in a circle, although they take the      *)
(* period, the lines and the invoice one after the other.                  *)
RunsNeverDeadlock ==
    (\E s \in Runners : run[s] # Resting) =>
        \E s \in Runners : run[s] # Resting /\ ~Waits(s)
=============================================================================
