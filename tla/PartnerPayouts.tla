--------------------------- MODULE PartnerPayouts ---------------------------
(***************************************************************************)
(* Balances, ledger entries and payout requests of one partner             *)
(* (app/services/partner_finance_service.py), with the orders that earn    *)
(* money and the audit record every operation writes.  Nothing is locked:  *)
(* an operation loads the rows it needs, computes, and its commit stores   *)
(* absolute values, of the columns that change only.                       *)
(*                                                                         *)
(* The partner's account exists.  A request that is refused or blocked is  *)
(* rolled back with its audit record and changes nothing.                  *)
(***************************************************************************)
EXTENDS AuditChain, Sums

CONSTANTS PartnerOrders,  \* orders of partner_core
          MarketOrders,   \* marketplace orders
          Payouts,        \* ids of payout requests; bound: requests made
          Seeds,          \* ledger entries an administrator books
          Price,          \* what an order earns
          Penalty,        \* of an order that breaks its SLA
          Amounts,        \* of payouts and seeds
          MaxCommands,    \* bound: operations begun
          NoRef

ASSUME PositiveAmounts ==
    /\ Price \in Nat \ {0} /\ Penalty \in Nat \ {0}
    /\ Amounts \subseteq Nat \ {0} /\ MaxCommands \in Nat

Orders == PartnerOrders \cup MarketOrders
Refs == Orders \cup Payouts \cup Seeds
EntryTypes == {"EARNED", "SLA_PENALTY", "PAYOUT_REQUESTED", "PAYOUT_APPROVED", "ADJUSTMENT",
               "PAYOUT_PAID", "credit", "debit"}

(* Orders, payouts and seeds are rows of different tables.                 *)
ASSUME RefsAreDistinct ==
    /\ PartnerOrders \cap MarketOrders = {} /\ Orders \cap Payouts = {}
    /\ (Orders \cup Payouts) \cap Seeds = {}
    /\ {NoRef, "account", "window"} \cap Refs = {}

(* Bound: the orders and payouts of a partner are finitely many.           *)
ASSUME FinitelyMany == IsFiniteSet(Orders) /\ IsFiniteSet(Payouts)

VARIABLES
    orders,    \* orders[o]: "OPEN" or "DONE"
    account,   \* partner_accounts: available and blocked
    entries,   \* partner_ledger_entries: how many of a type for an order or payout
    payouts,   \* payouts[p]: partner_payout_requests
    recent,    \* payouts requested within the cadence of the payout policy
    job,       \* job[s]: the operation s works on
    begun,     \* number of operations begun
    stale,     \* history: what was written although it had changed since it was read
    late,      \* history: orders that were completed after their due date
    lost       \* history: orders whose completion died between its transactions

rows == <<orders, account, entries, payouts, recent>>
history == <<begun, stale, late, lost>>
vars == <<rows, job, history, auditVars>>

NoPayout == [status |-> "none", amount |-> 0]
Empty == [available |-> 0, blocked |-> 0]

(* What an operation is about, and what it has read.                       *)
Job(pc, cmd, ref, amount, seen, status, window) ==
    [pc |-> pc, cmd |-> cmd, ref |-> ref, amount |-> amount, seen |-> seen,
     status |-> status, known |-> FALSE, window |-> window]

Idle == Job("idle", "none", NoRef, 0, Empty, "none", {})

Init ==
    /\ orders = [o \in Orders |-> "OPEN"]
    /\ account = Empty
    /\ entries = [e \in EntryTypes \X Refs |-> 0]
    /\ payouts = [p \in Payouts |-> NoPayout]
    /\ recent = {}
    /\ job = [s \in Sessions |-> Idle]
    /\ begun = 0 /\ stale = {} /\ late = {} /\ lost = {}
    /\ AuditInit

-----------------------------------------------------------------------------
Begin(s, j) ==
    /\ job[s] = Idle
    /\ begun < MaxCommands
    /\ begun' = begun + 1
    /\ job' = [job EXCEPT ![s] = j]
    /\ UNCHANGED <<rows, stale, late, lost, auditVars>>

Booked(type, ref) == entries[<<type, ref>>]

(* update_partner_order_status and complete_order of the marketplace.      *)
CompleteOrder(s, o) ==
    /\ orders[o] = "OPEN"
    /\ Begin(s, Job(IF o \in PartnerOrders THEN "done" ELSE "load", "earn", o, Price,
                    Empty, "none", {}))

(* The status of a partner order is committed before the order earns.      *)
CommitDone(s) ==
    /\ job[s].pc = "done"
    /\ orders' = [orders EXCEPT ![job[s].ref] = "DONE"]
    /\ job' = [job EXCEPT ![s].pc = "load"]
    /\ UNCHANGED <<account, entries, payouts, recent, history, auditVars>>

(* record_sla_penalty of a late partner order finds no settlement snapshot *)
(* and raises, which rolls the earned entry back.                          *)
LateRaises(s) ==
    /\ job[s].pc = "load" /\ job[s].ref \in PartnerOrders
    /\ job' = [job EXCEPT ![s] = Idle]
    /\ late' = late \cup {job[s].ref}
    /\ UNCHANGED <<rows, begun, stale, lost, auditVars>>

IsEarned(o) == Booked("EARNED", o) > 0

LoadEarned(s) ==
    /\ job[s].pc = "load"
    /\ job' = [job EXCEPT ![s] = [job[s] EXCEPT !.pc = "audit", !.seen = account,
                                                !.known = IsEarned(job[s].ref)]]
    /\ UNCHANGED <<rows, history, auditVars>>

(* _apply_marketplace_penalty; the consequence of an evaluation is unique. *)
Penalise(s, o) ==
    /\ o \in MarketOrders /\ orders[o] = "DONE" /\ Booked("SLA_PENALTY", o) = 0
    /\ Begin(s, Job("audit", "penalty", o, Penalty, account, "none", {}))

(* seed_partner_ledger_entry writes no audit record.                       *)
Seed(s, a, n, cmd) ==
    /\ Booked("credit", a) + Booked("debit", a) = 0
    /\ Begin(s, Job("commit", cmd, a, n, account, "none", {}))

WithinAvailable(n) == n <= account.available

NoRecentPayout == recent = {}

RequestPayout(s, p, n) ==
    /\ payouts[p] = NoPayout
    /\ \A t \in Sessions : job[t].ref # p
    /\ NoRecentPayout
    /\ WithinAvailable(n)
    /\ Begin(s, Job("audit", "request", p, n, account, "none", recent))

(* Mutant: a decision is not checked against the status.                   *)
AnyStatus(cmd) == {"REQUESTED", "APPROVED", "PAID", "REJECTED"}

(* The statuses from which a payout may be approved, rejected or paid.     *)
Decidable(cmd) == IF cmd = "paid" THEN {"REQUESTED", "APPROVED"} ELSE {"REQUESTED"}

Decide(s, p, cmd) ==
    /\ payouts[p].status \in Decidable(cmd)
    /\ Begin(s, Job("audit", cmd, p, payouts[p].amount, account, payouts[p].status, {}))

(* The payouts made so far are older than the cadence of the policy.       *)
TimePasses ==
    /\ recent # {}
    /\ recent' = {}
    /\ UNCHANGED <<orders, account, entries, payouts, job, history, auditVars>>

-----------------------------------------------------------------------------
(* AuditService.audit queries the latest record before it flushes.         *)
Audit(s) ==
    /\ job[s].pc = "audit"
    /\ ReadLatest(s)
    /\ job' = [job EXCEPT ![s].pc = "commit"]
    /\ UNCHANGED <<rows, history>>

(* BalanceDelta.available                                                  *)
DeltaAvailable(j) ==
    CASE j.cmd \in {"credit", "reject"} \/ (j.cmd = "earn" /\ ~j.known) -> j.amount
      [] j.cmd \in {"request", "penalty", "debit"}                      -> -j.amount
      [] OTHER                                                          -> 0

(* Mutant: a rejection leaves the amount blocked.                          *)
BlockedUntilPaid(j) ==
    CASE j.cmd = "request" -> j.amount
      [] j.cmd = "paid"    -> -j.amount
      [] OTHER             -> 0

(* BalanceDelta.blocked                                                    *)
DeltaBlocked(j) ==
    CASE j.cmd = "request"            -> j.amount
      [] j.cmd \in {"reject", "paid"} -> -j.amount
      [] OTHER                        -> 0

Delta(j) == [available |-> DeltaAvailable(j), blocked |-> DeltaBlocked(j)]

EntryType(j) ==
    CASE j.cmd = "earn"    -> "EARNED"
      [] j.cmd = "penalty" -> "SLA_PENALTY"
      [] j.cmd = "request" -> "PAYOUT_REQUESTED"
      [] j.cmd = "approve" -> "PAYOUT_APPROVED"
      [] j.cmd = "reject"  -> "ADJUSTMENT"
      [] j.cmd = "paid"    -> "PAYOUT_PAID"
      [] OTHER             -> j.cmd

NewStatus(cmd) ==
    CASE cmd = "request" -> "REQUESTED"
      [] cmd = "approve" -> "APPROVED"
      [] cmd = "reject"  -> "REJECTED"
      [] OTHER           -> "PAID"

IsSeed(j) == j.cmd \in {"credit", "debit"}

(* _apply_delta: a column whose value does not change is not written.      *)
Applied(j) ==
    [c \in {"available", "blocked"} |->
        IF Delta(j)[c] = 0 THEN account[c] ELSE j.seen[c] + Delta(j)[c]]

(* What the commit of j overwrites although it has changed since j read it.*)
Overwritten(j) ==
    (IF \E c \in {"available", "blocked"} : Delta(j)[c] # 0 /\ account[c] # j.seen[c]
     THEN {"account"} ELSE {})
    \cup (IF j.cmd = "request" /\ ~(recent \subseteq j.window) THEN {"window"} ELSE {})
    \cup (IF j.ref \in Payouts /\ payouts[j.ref].status # j.status THEN {j.ref} ELSE {})
    \cup (IF j.cmd = "earn" /\ ~j.known /\ IsEarned(j.ref) THEN {j.ref} ELSE {})

Commit(s) ==
    LET j == job[s] IN
    /\ j.pc = "commit"
    /\ j.cmd = "penalty" => Booked("SLA_PENALTY", j.ref) = 0
    /\ account' = Applied(j)
    /\ orders' = IF j.cmd = "earn" THEN [orders EXCEPT ![j.ref] = "DONE"] ELSE orders
    /\ payouts' = IF j.ref \in Payouts
                  THEN [payouts EXCEPT ![j.ref] = [status |-> NewStatus(j.cmd),
                                                   amount |-> j.amount]]
                  ELSE payouts
    /\ recent' = IF j.cmd = "request" THEN recent \cup {j.ref} ELSE recent
    /\ entries' = IF j.known THEN entries
                  ELSE [entries EXCEPT ![<<EntryType(j), j.ref>>] = @ + 1]
    /\ stale' = stale \cup Overwritten(j)
    /\ IF IsSeed(j) THEN UNCHANGED auditVars ELSE AppendRecord(s)
    /\ job' = [job EXCEPT ![s] = Idle]
    /\ UNCHANGED <<begun, late, lost>>

(* An exception (the consequence exists already) or a crash.               *)
Abort(s) ==
    /\ job[s] # Idle
    /\ job' = [job EXCEPT ![s] = Idle]
    /\ lost' = IF job[s].ref \in PartnerOrders /\ job[s].pc # "done"
               THEN lost \cup {job[s].ref} ELSE lost
    /\ Discard(s)
    /\ UNCHANGED <<rows, begun, stale, late>>

Start(s) ==
    \/ \E o \in Orders : CompleteOrder(s, o) \/ Penalise(s, o)
    \/ \E a \in Seeds, n \in Amounts, cmd \in {"credit", "debit"} : Seed(s, a, n, cmd)
    \/ \E p \in Payouts, n \in Amounts : RequestPayout(s, p, n)
    \/ \E p \in Payouts, cmd \in {"approve", "reject", "paid"} : Decide(s, p, cmd)

Step(s) == CommitDone(s) \/ LateRaises(s) \/ LoadEarned(s) \/ Audit(s) \/ Commit(s)

(* Bound: no operation is left and none is in progress.                    *)
Exhausted ==
    /\ begun = MaxCommands /\ \A s \in Sessions : job[s] = Idle
    /\ UNCHANGED vars

Next == Exhausted \/ TimePasses \/ \E s \in Sessions : Start(s) \/ Step(s) \/ Abort(s)

Spec == Init /\ [][Next]_vars

-----------------------------------------------------------------------------
Commands == {"none", "earn", "penalty", "credit", "debit", "request", "approve", "reject", "paid"}
Statuses == {"none", "REQUESTED", "APPROVED", "REJECTED", "PAID"}
Money == [available : Int, blocked : Int]

(* Types; only a payout that was requested has an amount.                  *)
TypeOK ==
    /\ orders \in [Orders -> {"OPEN", "DONE"}]
    /\ account \in Money
    /\ entries \in [EntryTypes \X Refs -> Nat]
    /\ payouts \in [Payouts -> [status : Statuses, amount : Nat]]
    /\ \A p \in Payouts : payouts[p].status = "none" <=> payouts[p].amount = 0
    /\ recent \subseteq Payouts
    /\ job \in [Sessions -> [pc : {"idle", "done", "load", "audit", "commit"}, cmd : Commands,
                             ref : Refs \cup {NoRef}, amount : Nat, seen : Money,
                             status : Statuses, known : BOOLEAN,
                             window : SUBSET Payouts]]
    /\ begun \in Nat
    /\ stale \subseteq Refs \cup {"account", "window"}
    /\ late \subseteq PartnerOrders /\ lost \subseteq PartnerOrders

(* What the entries say the account holds.  A rejection books its pair of  *)
(* ADJUSTMENT entries in the direction of the request (DEBIT available),   *)
(* although the balance moves back; here they count as what they undo.     *)
LedgerAvailable ==
    SumOf([o \in Orders |-> Price * Booked("EARNED", o) - Penalty * Booked("SLA_PENALTY", o)],
          Orders)
    + SumOf([p \in Payouts |-> payouts[p].amount
                               * (Booked("ADJUSTMENT", p) - Booked("PAYOUT_REQUESTED", p))],
            Payouts)

(* Unless an operation wrote over a balance that had changed since it read *)
(* it, the balances are what the entries of orders and payouts add up to   *)
(* (when no administrator has booked entries of his own).                  *)
BalanceMatchesEntries ==
    \/ "account" \in stale
    \/ \E a \in Seeds : Booked("credit", a) + Booked("debit", a) > 0
    \/ account.available = LedgerAvailable

(* Likewise what is blocked is the sum of the payouts that are not decided,*)
(* unless two operations decided one payout at the same time.              *)
BlockedIsUndecided ==
    \/ stale # {}
    \/ account.blocked =
          SumOf([p \in Payouts |-> payouts[p].amount],
                {p \in Payouts : payouts[p].status \in {"REQUESTED", "APPROVED"}})

(* A partner is paid no more than the account had: it is overdrawn only by *)
(* penalties and debits, or after a balance was overwritten.               *)
PayoutsAreCovered ==
    \/ "account" \in stale
    \/ \E o \in Orders : Booked("SLA_PENALTY", o) > 0
    \/ \E a \in Seeds : Booked("debit", a) > 0
    \/ account.available >= 0

(* A payout is paid once, and never when it was rejected, unless two       *)
(* operations decided it at the same time.                                 *)
PaidOnce ==
    \A p \in Payouts \ stale :
        Booked("PAYOUT_PAID", p) + Booked("ADJUSTMENT", p) <= 1

(* An order earns once, also when it is completed twice, unless the two    *)
(* completions look for the entry before either has stored it.             *)
EarnedOnce == \A o \in Orders \ stale : Booked("EARNED", o) <= 1

(* A completed order has earned, unless the process died between the two   *)
(* commits or the order was late: then nothing ever books what it earned.  *)
DoneIsEarned ==
    \A o \in Orders \ (late \cup lost) :
        orders[o] = "DONE" => Booked("EARNED", o) > 0 \/ \E s \in Sessions : job[s].ref = o

(* The schedule of the payout policy admits one request per period, unless *)
(* two requests are made at once.                                          *)
OnePayoutPerPeriod == "window" \in stale \/ Cardinality(recent) <= 1

(* The balances of the partner are what orders and payouts amount to and   *)
(* cover what is paid out, unless a balance was overwritten.               *)
BalancesMatch ==
    TypeOK /\ BalanceMatchesEntries /\ BlockedIsUndecided /\ PayoutsAreCovered

(* A completed order earns and a payout is decided, both once, but for     *)
(* operations that overlap and the completions that are lost.              *)
EarnedAndPaidOnce == DoneIsEarned /\ EarnedOnce /\ PaidOnce /\ OnePayoutPerPeriod
=============================================================================
