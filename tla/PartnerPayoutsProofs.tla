------------------------ MODULE PartnerPayoutsProofs ------------------------
(***************************************************************************)
(* Proofs about AuditChain and PartnerPayouts: what the audit chain        *)
(* promises for any number of sessions and any clock, that the partner     *)
(* operations use it as it promises, that an order earns and a payout is   *)
(* decided once where operations do not overlap, and that the balances are *)
(* what orders and payouts add up to.                                      *)
(***************************************************************************)
EXTENDS PartnerPayouts, SumsProofs

Record == [id : Ids, ts : Nat \ {0}, prev : Nat]

(* The types of the log and of what sessions have read from it.            *)
AuditTypeOK ==
    /\ log \subseteq Record
    /\ tip \in [Sessions -> Visible]
    /\ forked \in BOOLEAN

(* No two records have the same time stamp: ids never decide the order.    *)
StampsDiffer == \A q, r \in log : q.ts = r.ts => q = r

(* In a log that was never forked, stamps differ and verify_chain finds    *)
(* every link.                                                             *)
Honest == forked \/ (StampsDiffer /\ \A r \in log : r.prev \in Expected(r, log))

AuditInv == AuditTypeOK /\ LinksAreStored /\ Honest

(* A record follows a stored one with a later stamp, whatever the clock    *)
(* says.                                                                   *)
LEMMA StampIsLater ==
    ASSUME NEW last \in Visible, log \subseteq Record, NEW now \in Clock
    PROVE  /\ Stamp(last, now) \in Nat \ {0}
           /\ Stamp(last, now) > last.ts
           /\ last.id \in Nat
<1>1. last.ts \in Nat /\ last.id \in Nat
  <2>1. CASE last = Genesis
    BY <2>1 DEF Genesis
  <2>2. CASE last \in log
    BY <2>2, IdsAreNumbers DEF IdsAreNumbers, Record
  <2>3. QED
    BY <2>1, <2>2 DEF Visible
<1>2. now \in Nat
  BY IdsAreNumbers DEF IdsAreNumbers
<1>3. QED
  BY <1>1, <1>2 DEF Stamp

(* The latest record is not older than any other.                          *)
LEMMA LatestIsNewest ==
    ASSUME log \subseteq Record, NEW r \in Visible, IsLatest(r, log), NEW q \in log
    PROVE  q.ts <= r.ts
BY DEF Visible, Genesis, Record, IsLatest, Before

(* The invariant of the audit log holds when it is empty.                  *)
LEMMA AuditInitInv == AuditInit => AuditInv
BY DEF AuditInit, AuditInv, AuditTypeOK, LinksAreStored, Honest, StampsDiffer, Visible, Genesis

(* An append keeps the invariant.                                          *)
LEMMA AppendInv ==
    ASSUME AuditInv, NEW s \in Sessions, AppendRecord(s)
    PROVE  AuditInv'
<1> USE DEF AuditInv, AuditTypeOK
<1>1. PICK i \in Ids, now \in Clock :
         log' = log \cup {[id |-> i, ts |-> Stamp(tip[s], now), prev |-> Link(s)]}
  BY DEF AppendRecord
<1> DEFINE new == [id |-> i, ts |-> Stamp(tip[s], now), prev |-> Link(s)]
<1>2. tip[s] \in Visible
  OBVIOUS
<1>3. /\ new.ts \in Nat \ {0} /\ new.ts > tip[s].ts /\ new.prev \in Nat
      /\ new.prev = tip[s].id /\ new \in Record
  BY <1>2, StampIsLater DEF Link, Record
<1> HIDE DEF new
<1>4. log' = log \cup {new}
  BY <1>1 DEF new
<1>5. AuditTypeOK'
  BY <1>3, <1>4 DEF AppendRecord, Visible
<1>6. LinksAreStored'
  BY <1>2, <1>3, <1>4 DEF LinksAreStored, Visible
<1>7. Honest'
  <2> SUFFICES ASSUME ~forked'
               PROVE  StampsDiffer' /\ \A r \in log' : r.prev \in Expected(r, log')
    BY DEF Honest
  <2>1. /\ IsLatest(tip[s], log) /\ StampsDiffer
        /\ \A r \in log : r.prev \in Expected(r, log)
    BY DEF AppendRecord, Honest
  <2>2. \A q \in log : q \in Record /\ q.ts <= tip[s].ts
    BY <1>2, <2>1, LatestIsNewest
  <2>2a. tip[s].ts \in Nat
    BY <1>2 DEF Visible, Record, Genesis
  <2>3. \A q \in log : Before(q, new) /\ ~Before(new, q) /\ q.ts # new.ts
    BY <1>3, <2>2, <2>2a DEF Before, Record
  <2>4. StampsDiffer'
    BY <1>4, <2>1, <2>3 DEF StampsDiffer
  <2>5. ~Before(new, new)
    <3>1. new.id \in Nat
      BY <1>3, IdsAreNumbers DEF IdsAreNumbers, Record
    <3>2. QED
      BY <1>3, <3>1 DEF Before
  <2>6. {q \in log' : Before(q, new)} = log
    BY <1>4, <2>3, <2>5
  <2>7. new.prev \in Expected(new, log')
    <3>1. CASE log = {}
      BY <1>3, <2>1, <2>6, <3>1 DEF Expected, IsLatest
    <3>2. CASE log # {}
      <4>1. tip[s] \in {p \in log : IsLatest(p, log)}
        BY <2>1, <3>2 DEF IsLatest
      <4>2. QED
        BY <1>3, <2>6, <3>2, <4>1 DEF Expected
    <3>3. QED
      BY <3>1, <3>2
  <2>8. ASSUME NEW r \in log
        PROVE  r.prev \in Expected(r, log')
    <3>1. {q \in log' : Before(q, r)} = {q \in log : Before(q, r)}
      BY <1>4, <2>3
    <3>2. QED
      BY <2>1, <3>1 DEF Expected
  <2>9. QED
    BY <1>4, <2>4, <2>7, <2>8
<1>8. QED
  BY <1>5, <1>6, <1>7

(* Every step of the audit log keeps it.                                   *)
LEMMA AuditNextInv == AuditInv /\ [AuditNext]_auditVars => AuditInv'
<1> SUFFICES ASSUME AuditInv, [AuditNext]_auditVars
             PROVE  AuditInv'
  OBVIOUS
<1> USE DEF AuditInv, AuditTypeOK
<1>1. CASE UNCHANGED auditVars
  BY <1>1, ZenonT(40) DEF auditVars, LinksAreStored, Honest, StampsDiffer, Visible, Expected, IsLatest, Before
<1>2. ASSUME NEW s \in Sessions, ReadLatest(s) \/ Discard(s)
      PROVE  AuditInv'
  <2>1. log' = log /\ forked' = forked
    BY <1>2 DEF ReadLatest, Discard
  <2>2. tip' \in [Sessions -> Visible]
    BY <1>2 DEF ReadLatest, Discard, Visible
  <2>3. LinksAreStored'
    BY <2>1 DEF LinksAreStored, Visible
  <2>4. Honest'
    BY <2>1 DEF Honest, StampsDiffer, Expected
  <2>5. QED
    BY <2>1, <2>2, <2>3, <2>4 DEF Visible
<1>3. ASSUME NEW s \in Sessions, AppendRecord(s)
      PROVE  AuditInv'
  BY <1>3, AppendInv
<1>4. QED
  BY <1>1, <1>2, <1>3 DEF AuditNext

(* The invariant gives the three promises of the chain.  A range verifies  *)
(* only if nothing of the log is before it.                                *)
LEMMA AuditInvImplies ==
    AuditInv => LinksAreStored /\ HonestLogVerifies /\ OnlyWholeLogVerifies
<1> SUFFICES ASSUME AuditInv
             PROVE  LinksAreStored /\ HonestLogVerifies /\ OnlyWholeLogVerifies
  OBVIOUS
<1> USE DEF AuditInv, AuditTypeOK
<1>1. LinksAreStored
  OBVIOUS
<1>2. HonestLogVerifies
  <2>1. {r \in log : r.ts >= 0} = log
    BY DEF Record
  <2>2. QED
    BY <2>1 DEF Honest, HonestLogVerifies, Verifies
<1>3. ASSUME ~forked, NEW r \in log
      PROVE  Verifies(r.ts) <=> r.prev = Genesis.id
  <2> DEFINE S == {q \in log : q.ts >= r.ts}
  <2>1. /\ StampsDiffer /\ r.prev \in Expected(r, log)
        /\ \A q \in log : q.prev \in Expected(q, log)
    BY <1>3 DEF Honest
  <2>2. \A q \in log : q.ts \in Nat /\ q.id \in Nat \ {0}
    BY IdsAreNumbers DEF IdsAreNumbers, Record
  <2>3. \A q \in S : ~Before(q, r)
    BY <2>1, <2>2 DEF StampsDiffer, Before
  <2>4. ASSUME Verifies(r.ts) PROVE r.prev = Genesis.id
    <3>1. r \in S
      BY <2>2
    <3>2. {q \in S : Before(q, r)} = {}
      BY <2>3
    <3>3. r.prev \in Expected(r, S)
      BY <2>4, <3>1 DEF Verifies
    <3>4. QED
      BY <3>2, <3>3 DEF Expected
  <2>5. ASSUME r.prev = Genesis.id PROVE Verifies(r.ts)
    <3>1. {q \in log : Before(q, r)} = {}
      <4>1. SUFFICES ASSUME {q \in log : Before(q, r)} # {} PROVE FALSE
        OBVIOUS
      <4>2. PICK q \in log : r.prev = q.id
        BY <2>1, <4>1 DEF Expected
      <4>3. QED
        BY <2>2, <2>5, <4>2 DEF Genesis
    <3>2. S = log
      <4>1. \A q \in log : q.ts >= r.ts
        BY <2>2, <3>1 DEF Before
      <4>2. QED
        BY <4>1
    <3>3. QED
      BY <2>1, <3>2 DEF Verifies
  <2>6. QED
    BY <2>4, <2>5
<1>4. QED
  BY <1>1, <1>2, <1>3 DEF OnlyWholeLogVerifies

(* AuditService.audit: for any number of sessions and whatever their       *)
(* clocks say, every record follows a stored and older one, and unless two *)
(* transactions audited at once the whole log verifies, and a range of it  *)
(* only if it begins with the first record.                                *)
THEOREM AuditChainHolds ==
    AuditSpec => [](LinksAreStored /\ HonestLogVerifies /\ OnlyWholeLogVerifies)
<1>1. AuditInit => AuditInv
  BY AuditInitInv
<1>2. AuditInv /\ [AuditNext]_auditVars => AuditInv'
  BY AuditNextInv
<1>3. QED
  BY <1>1, <1>2, AuditInvImplies, PTL DEF AuditSpec

-----------------------------------------------------------------------------
(* The operations of PartnerFinanceService use the audit chain only as     *)
(* AuditService offers it: every step is one of its steps or leaves it.    *)
THEOREM PartnersAudit == Spec => AuditSpec
<1>1. Init => AuditInit
  BY DEF Init
<1>2. [Next]_vars => [AuditNext]_auditVars
  <2> SUFFICES ASSUME [Next]_vars
               PROVE  [AuditNext]_auditVars
    OBVIOUS
  <2>1. CASE UNCHANGED vars \/ Exhausted \/ TimePasses
    BY <2>1 DEF vars, Exhausted, TimePasses
  <2>2. ASSUME NEW s \in Sessions, Start(s)
        PROVE  UNCHANGED auditVars
    BY <2>2 DEF Start, CompleteOrder, Penalise, Seed, RequestPayout, Decide, Begin
  <2>3. ASSUME NEW s \in Sessions, CommitDone(s) \/ LateRaises(s) \/ LoadEarned(s)
        PROVE  UNCHANGED auditVars
    BY <2>3 DEF CommitDone, LateRaises, LoadEarned
  <2>4. ASSUME NEW s \in Sessions, Audit(s)
        PROVE  ReadLatest(s)
    BY <2>4 DEF Audit
  <2>5. ASSUME NEW s \in Sessions, Commit(s)
        PROVE  AppendRecord(s) \/ UNCHANGED auditVars
    BY <2>5 DEF Commit
  <2>6. ASSUME NEW s \in Sessions, Abort(s)
        PROVE  Discard(s)
    BY <2>6 DEF Abort
  <2>7. QED
    BY <2>1, <2>2, <2>3, <2>4, <2>5, <2>6 DEF Next, Step, AuditNext
<1>3. QED
  BY <1>1, <1>2, PTL DEF Spec, AuditSpec

(* Every audit record of a partner operation follows a stored and older    *)
(* one, whatever is rolled back, lost or written at the same time.         *)
THEOREM PartnerLinksAreStored == Spec => []LinksAreStored
BY PartnersAudit, AuditChainHolds, PTL

(* The audit log of the partner operations verifies unless two of them     *)
(* audited at the same time.                                               *)
THEOREM PartnerLogVerifies == Spec => []HonestLogVerifies
BY PartnersAudit, AuditChainHolds, PTL

-----------------------------------------------------------------------------
(* The operation a session works on, and the rows it was begun for.        *)
IsJob(j) ==
    /\ j = [pc |-> j.pc, cmd |-> j.cmd, ref |-> j.ref, amount |-> j.amount, seen |-> j.seen,
            status |-> j.status, known |-> j.known, window |-> j.window]
    /\ j.pc \in {"idle", "done", "load", "audit", "commit"} /\ j.cmd \in Commands
    /\ j.amount \in Nat /\ j.known \in BOOLEAN

JobFits(j) ==
    /\ j.pc = "done" => j.cmd = "earn" /\ j.ref \in PartnerOrders
    /\ j.pc = "load" => j.cmd = "earn"
    /\ j.pc # "idle" => j.cmd # "none"
    /\ j.cmd = "none" => j.ref = NoRef
    /\ j.cmd = "earn" => j.ref \in Orders
    /\ j.cmd = "penalty" => j.ref \in MarketOrders
    /\ j.cmd \in {"credit", "debit"} => j.ref \in Seeds
    /\ j.cmd \in {"request", "approve", "reject", "paid"} => j.ref \in Payouts
    /\ j.cmd \in {"approve", "reject", "paid"} => j.status \in {"REQUESTED", "APPROVED"}
    /\ j.cmd = "request" => j.status = "none" /\ j.window = {}
    /\ j.known => j.cmd = "earn" /\ Booked("EARNED", j.ref) > 0

RowsOK ==
    /\ orders \in [Orders -> {"OPEN", "DONE"}]
    /\ entries \in [EntryTypes \X Refs -> Nat]
    /\ payouts \in [Payouts -> [status : Statuses, amount : Nat]]

JobsOK ==
    /\ job = [s \in Sessions |-> job[s]]
    /\ \A s \in Sessions : IsJob(job[s]) /\ JobFits(job[s])

(* A payout nobody has decided, or decided twice at once, has no decision  *)
(* in the ledger.                                                          *)
UndecidedUnbooked ==
    \A p \in Payouts \ stale :
        payouts[p].status \in {"none", "REQUESTED", "APPROVED"} =>
            Booked("PAYOUT_PAID", p) + Booked("ADJUSTMENT", p) = 0

AtMostOneRecent == "window" \in stale \/ recent = {} \/ \E p \in Payouts : recent = {p}

(* A session that has completed the order and has not yet booked it.       *)
Earning(s, o) == job[s].ref = o /\ job[s].cmd = "earn" /\ job[s].pc # "done"

DoneIsBooked ==
    /\ \A o \in MarketOrders : orders[o] = "DONE" => Booked("EARNED", o) > 0
    /\ \A o \in PartnerOrders \ (late \cup lost) :
          orders[o] = "DONE" =>
             Booked("EARNED", o) > 0 \/ \E s \in Sessions : Earning(s, o)

OnceInv ==
    /\ RowsOK /\ JobsOK
    /\ EarnedOnce /\ PaidOnce /\ UndecidedUnbooked /\ AtMostOneRecent /\ DoneIsBooked

(* A session that does nothing fits.                                       *)
LEMMA IdleFits == IsJob(Idle) /\ JobFits(Idle)
BY DEF Idle, Job, IsJob, JobFits, Commands

(* Nothing is earned or paid when the system starts.                       *)
LEMMA OnceInit == Init => OnceInv
<1> SUFFICES ASSUME Init
             PROVE  OnceInv
  OBVIOUS
<1>1. RowsOK
  BY DEF Init, RowsOK, NoPayout, Statuses
<1>2. JobsOK
  BY IdleFits DEF Init, JobsOK
<1>3. \A type \in EntryTypes, ref \in Refs : Booked(type, ref) = 0
  BY DEF Init, Booked
<1>4. EarnedOnce /\ PaidOnce /\ UndecidedUnbooked
  BY <1>3 DEF EarnedOnce, PaidOnce, UndecidedUnbooked, EntryTypes, Refs
<1>5. AtMostOneRecent /\ DoneIsBooked
  BY DEF Init, AtMostOneRecent, DoneIsBooked, Orders
<1>6. QED
  BY <1>1, <1>2, <1>4, <1>5 DEF OnceInv

(* Steps that touch no row and no history keep the invariant if the job    *)
(* they leave fits and nobody stops earning.                               *)
LEMMA JobStep ==
    ASSUME OnceInv, NEW s \in Sessions, NEW j, IsJob(j), JobFits(j),
           job' = [job EXCEPT ![s] = j],
           UNCHANGED <<orders, entries, payouts, stale>>,
           recent' = recent \/ recent' = {},
           late \subseteq late' /\ lost \subseteq lost',
           \A o \in PartnerOrders : Earning(s, o) =>
              (j.ref = o /\ j.cmd = "earn" /\ j.pc # "done") \/ o \in late' \cup lost'
    PROVE  OnceInv'
<1> USE DEF OnceInv
<1>1. RowsOK'
  BY DEF RowsOK
<1>2. \A type, ref : Booked(type, ref)' = Booked(type, ref)
  BY DEF Booked
<1>4. \A t \in Sessions : job'[t] = IF t = s THEN j ELSE job[t]
  BY DEF JobsOK
<1>5. JobsOK'
  <2>1. job' = [t \in Sessions |-> job'[t]]
    BY DEF JobsOK
  <2>2. ASSUME NEW t \in Sessions PROVE IsJob(job[t])' /\ JobFits(job[t])'
    <3>1. IsJob(job'[t]) /\ JobFits(job'[t])
      BY <1>4 DEF JobsOK
    <3>2. QED
      BY <1>2, <3>1 DEF IsJob, JobFits
  <2>3. QED
    BY <2>1, <2>2 DEF JobsOK
<1>6. EarnedOnce' /\ PaidOnce' /\ UndecidedUnbooked'
  BY <1>2 DEF EarnedOnce, PaidOnce, UndecidedUnbooked
<1>7. AtMostOneRecent'
  BY DEF AtMostOneRecent
<1>8. DoneIsBooked'
  <2>1. ASSUME NEW o \in PartnerOrders \ (late' \cup lost'), orders[o] = "DONE",
               NEW t \in Sessions, Earning(t, o)
        PROVE  Earning(t, o)'
    BY <1>4, <2>1 DEF Earning
  <2>2. QED
    BY <1>2, <2>1 DEF DoneIsBooked
<1>9. QED
  BY <1>1, <1>5, <1>6, <1>7, <1>8

(* An operation that begins fits what it was begun for.                    *)
LEMMA StartInv ==
    ASSUME OnceInv, NEW s \in Sessions, Start(s)
    PROVE  OnceInv'
<1> DEFINE begins(j) == job[s] = Idle /\ job' = [job EXCEPT ![s] = j]
                        /\ UNCHANGED <<orders, entries, payouts, stale, recent, late, lost>>
<1>1. ASSUME NEW j, IsJob(j), JobFits(j), begins(j)
      PROVE  OnceInv'
  <2>1. \A o \in PartnerOrders : ~Earning(s, o)
    BY <1>1 DEF Earning, Idle, Job
  <2>2. QED
    BY <1>1, <2>1, JobStep
<1>2. \A j : Begin(s, j) => begins(j)
  BY DEF Begin, rows
<1> HIDE DEF begins
<1>3. ASSUME NEW o \in Orders, CompleteOrder(s, o)
      PROVE  OnceInv'
  <2> DEFINE j == Job(IF o \in PartnerOrders THEN "done" ELSE "load", "earn", o, Price,
                      Empty, "none", {})
  <2>1. IsJob(j) /\ JobFits(j)
    BY PositiveAmounts DEF PositiveAmounts, Job, IsJob, JobFits, Commands
  <2>2. begins(j)
    BY <1>2, <1>3 DEF CompleteOrder
  <2>3. QED
    BY <1>1, <2>1, <2>2
<1>4. ASSUME NEW o \in Orders, Penalise(s, o)
      PROVE  OnceInv'
  <2> DEFINE j == Job("audit", "penalty", o, Penalty, account, "none", {})
  <2>1. IsJob(j) /\ JobFits(j)
    BY <1>4, PositiveAmounts DEF PositiveAmounts, Penalise, Job, IsJob, JobFits, Commands
  <2>2. begins(j)
    BY <1>2, <1>4 DEF Penalise
  <2>3. QED
    BY <1>1, <2>1, <2>2
<1>5. ASSUME NEW a \in Seeds, NEW n \in Amounts, NEW cmd \in {"credit", "debit"}, Seed(s, a, n, cmd)
      PROVE  OnceInv'
  <2> DEFINE j == Job("commit", cmd, a, n, account, "none", {})
  <2>1. IsJob(j) /\ JobFits(j)
    BY PositiveAmounts DEF PositiveAmounts, Job, IsJob, JobFits, Commands
  <2>2. begins(j)
    BY <1>2, <1>5 DEF Seed
  <2>3. QED
    BY <1>1, <2>1, <2>2
<1>6. ASSUME NEW p \in Payouts, NEW n \in Amounts, RequestPayout(s, p, n)
      PROVE  OnceInv'
  <2> DEFINE j == Job("audit", "request", p, n, account, "none", recent)
  <2>1. recent = {}
    BY <1>6 DEF RequestPayout, NoRecentPayout
  <2>2. IsJob(j) /\ JobFits(j)
    BY <2>1, PositiveAmounts DEF PositiveAmounts, Job, IsJob, JobFits, Commands
  <2>3. begins(j)
    BY <1>2, <1>6 DEF RequestPayout
  <2>4. QED
    BY <1>1, <2>2, <2>3
<1>7. ASSUME NEW p \in Payouts, NEW cmd \in {"approve", "reject", "paid"}, Decide(s, p, cmd)
      PROVE  OnceInv'
  <2> DEFINE j == Job("audit", cmd, p, payouts[p].amount, account, payouts[p].status, {})
  <2>1. payouts[p].status \in {"REQUESTED", "APPROVED"} /\ payouts[p].amount \in Nat
    BY <1>7 DEF Decide, Decidable, OnceInv, RowsOK
  <2>2. IsJob(j) /\ JobFits(j)
    BY <2>1 DEF Job, IsJob, JobFits, Commands
  <2>3. begins(j)
    BY <1>2, <1>7 DEF Decide
  <2>4. QED
    BY <1>1, <2>2, <2>3
<1>8. QED
  BY <1>3, <1>4, <1>5, <1>6, <1>7 DEF Start

(* Fields of a job that goes on.                                           *)
LEMMA SetPc ==
    ASSUME NEW j, IsJob(j), NEW x
    PROVE  [j EXCEPT !.pc = x] =
             [pc |-> x, cmd |-> j.cmd, ref |-> j.ref, amount |-> j.amount, seen |-> j.seen,
              status |-> j.status, known |-> j.known, window |-> j.window]
BY DEF IsJob

(* Fields of a job that has loaded the balance.                            *)
LEMMA SetRead ==
    ASSUME NEW j, IsJob(j), NEW x, NEW y, NEW z
    PROVE  [j EXCEPT !.pc = x, !.seen = y, !.known = z] =
             [pc |-> x, cmd |-> j.cmd, ref |-> j.ref, amount |-> j.amount, seen |-> y,
              status |-> j.status, known |-> z, window |-> j.window]
<1> DEFINE a == [j EXCEPT !.pc = x]
           b == [a EXCEPT !.seen = y]
<1>1. a = [pc |-> x, cmd |-> j.cmd, ref |-> j.ref, amount |-> j.amount, seen |-> j.seen,
           status |-> j.status, known |-> j.known, window |-> j.window]
  BY SetPc
<1>2. [a EXCEPT !.seen = y, !.known = z] = [b EXCEPT !.known = z]
  OBVIOUS
<1> HIDE DEF a
<1>3. b = [pc |-> x, cmd |-> j.cmd, ref |-> j.ref, amount |-> j.amount, seen |-> y,
           status |-> j.status, known |-> j.known, window |-> j.window]
  BY <1>1
<1> HIDE DEF b
<1>4. [b EXCEPT !.known = z] =
          [pc |-> x, cmd |-> j.cmd, ref |-> j.ref, amount |-> j.amount, seen |-> y,
           status |-> j.status, known |-> z, window |-> j.window]
  BY <1>3
<1>5. QED
  BY <1>2, <1>4 DEF a

(* The steps of an operation before it commits, and its abort.             *)
LEMMA WorkInv ==
    ASSUME OnceInv, NEW s \in Sessions,
           LateRaises(s) \/ LoadEarned(s) \/ Audit(s) \/ Abort(s)
    PROVE  OnceInv'
<1> DEFINE old == job[s]
<1>0. IsJob(old) /\ JobFits(old)
  BY DEF OnceInv, JobsOK
<1>1. CASE LateRaises(s)
  <2>1. \A o \in PartnerOrders : Earning(s, o) => o \in late' \cup lost'
    BY <1>1 DEF LateRaises, Earning
  <2>2. QED
    BY <1>1, <2>1, IdleFits, JobStep DEF LateRaises, rows
<1>2. CASE Abort(s)
  <2>1. \A o \in PartnerOrders : Earning(s, o) => o \in late' \cup lost'
    BY <1>2 DEF Abort, Earning
  <2>2. QED
    BY <1>2, <2>1, IdleFits, JobStep DEF Abort, rows
<1>3. CASE LoadEarned(s)
  <2> DEFINE j == [pc |-> "audit", cmd |-> old.cmd, ref |-> old.ref, amount |-> old.amount,
                   seen |-> account, status |-> old.status, known |-> IsEarned(old.ref),
                   window |-> old.window]
  <2>1. job' = [job EXCEPT ![s] = j]
    BY <1>0, <1>3, SetRead DEF LoadEarned
  <2>2. IsJob(j)
    BY <1>0 DEF IsJob, IsEarned
  <2>3. JobFits(j)
    BY <1>0, <1>3 DEF JobFits, LoadEarned, IsEarned
  <2>4. \A o \in PartnerOrders : Earning(s, o) => j.ref = o /\ j.cmd = "earn" /\ j.pc # "done"
    BY DEF Earning
  <2> HIDE DEF j
  <2>5. QED
    BY <1>3, <2>1, <2>2, <2>3, <2>4, JobStep DEF LoadEarned, rows, history
<1>4. CASE Audit(s)
  <2> DEFINE j == [pc |-> "commit", cmd |-> old.cmd, ref |-> old.ref, amount |-> old.amount,
                   seen |-> old.seen, status |-> old.status, known |-> old.known,
                   window |-> old.window]
  <2>1. job' = [job EXCEPT ![s] = j]
    BY <1>0, <1>4, SetPc DEF Audit
  <2>2. IsJob(j)
    BY <1>0 DEF IsJob
  <2>3. JobFits(j)
    BY <1>0, <1>4 DEF JobFits, Audit
  <2>4. \A o \in PartnerOrders : Earning(s, o) => j.ref = o /\ j.cmd = "earn" /\ j.pc # "done"
    BY DEF Earning
  <2> HIDE DEF j
  <2>5. QED
    BY <1>4, <2>1, <2>2, <2>3, <2>4, JobStep DEF Audit, rows, history
<1>5. QED
  BY <1>1, <1>2, <1>3, <1>4

(* The completion that is committed first makes its session the one that   *)
(* has the order to book.                                                  *)
LEMMA CommitDoneInv ==
    ASSUME OnceInv, NEW s \in Sessions, CommitDone(s)
    PROVE  OnceInv'
<1> DEFINE old == job[s]
           j == [pc |-> "load", cmd |-> old.cmd, ref |-> old.ref, amount |-> old.amount,
                 seen |-> old.seen, status |-> old.status, known |-> old.known,
                 window |-> old.window]
<1>1. IsJob(old) /\ JobFits(old)
  BY DEF OnceInv, JobsOK
<1>2. old.cmd = "earn" /\ old.ref \in PartnerOrders
  BY <1>1 DEF CommitDone, JobFits
<1>3. job' = [job EXCEPT ![s] = j]
  BY <1>1, SetPc DEF CommitDone
<1>4. IsJob(j)
  BY <1>1 DEF IsJob
<1>5. JobFits(j)
  BY <1>1, <1>2 DEF JobFits
<1>6. j.ref = old.ref /\ j.cmd = "earn" /\ j.pc = "load"
  BY <1>2
<1> HIDE DEF j
<1>7. \A t \in Sessions : job'[t] = IF t = s THEN j ELSE job[t]
  BY <1>3 DEF OnceInv, JobsOK
<1>8. \A type, ref : Booked(type, ref)' = Booked(type, ref)
  BY DEF CommitDone, Booked
<1>9. RowsOK'
  BY <1>2 DEF OnceInv, RowsOK, CommitDone
<1>10. JobsOK'
  <2>1. job' = [t \in Sessions |-> job'[t]]
    BY <1>3 DEF OnceInv, JobsOK
  <2>2. ASSUME NEW t \in Sessions PROVE IsJob(job[t])' /\ JobFits(job[t])'
    <3>1. IsJob(job'[t]) /\ JobFits(job'[t])
      BY <1>4, <1>5, <1>7 DEF OnceInv, JobsOK
    <3>2. QED
      BY <1>8, <3>1 DEF IsJob, JobFits
  <2>3. QED
    BY <2>1, <2>2 DEF JobsOK
<1>11. EarnedOnce' /\ PaidOnce' /\ UndecidedUnbooked' /\ AtMostOneRecent'
  BY <1>8 DEF OnceInv, EarnedOnce, PaidOnce, UndecidedUnbooked, AtMostOneRecent, CommitDone,
              history
<1>12. DoneIsBooked'
  <2>1. \A o \in MarketOrders : orders'[o] = orders[o]
    BY <1>2, RefsAreDistinct DEF RefsAreDistinct, CommitDone, OnceInv, RowsOK, Orders
  <2>2. ASSUME NEW o \in PartnerOrders \ (late \cup lost), orders'[o] = "DONE"
        PROVE  Booked("EARNED", o) > 0 \/ \E t \in Sessions : Earning(t, o)'
    <3>1. CASE o = old.ref
      BY <1>6, <1>7, <3>1 DEF Earning
    <3>2. CASE o # old.ref
      <4>1. orders[o] = "DONE"
        BY <2>2, <3>2 DEF CommitDone, OnceInv, RowsOK
      <4>2. \A t \in Sessions : Earning(t, o) => Earning(t, o)'
        BY <1>6, <1>7, <3>2 DEF Earning
      <4>3. QED
        BY <4>1, <4>2 DEF OnceInv, DoneIsBooked
    <3>3. QED
      BY <3>1, <3>2
  <2>3. UNCHANGED <<late, lost>>
    BY DEF CommitDone, history
  <2>4. QED
    BY <1>8, <2>1, <2>2, <2>3 DEF OnceInv, DoneIsBooked
<1>13. QED
  BY <1>9, <1>10, <1>11, <1>12 DEF OnceInv

(* A commit books one entry of its type for its order, payout or seed.     *)
LEMMA CommitBooks ==
    ASSUME OnceInv, NEW s \in Sessions, Commit(s)
    PROVE  /\ job[s].ref \in Refs /\ EntryType(job[s]) \in EntryTypes
           /\ \A type \in EntryTypes, ref \in Refs :
                 /\ Booked(type, ref) \in Nat
                 /\ Booked(type, ref)' =
                       IF ~job[s].known /\ type = EntryType(job[s]) /\ ref = job[s].ref
                       THEN Booked(type, ref) + 1 ELSE Booked(type, ref)
<1> DEFINE j == job[s]
<1>1. IsJob(j) /\ JobFits(j) /\ j.pc = "commit"
  BY DEF OnceInv, JobsOK, Commit
<1>2. j.ref \in Refs /\ EntryType(j) \in EntryTypes
  BY <1>1 DEF IsJob, JobFits, Commands, Refs, Orders, EntryType, EntryTypes
<1>3. \A e \in EntryTypes \X Refs :
         /\ entries[e] \in Nat
         /\ entries'[e] = IF ~j.known /\ e = <<EntryType(j), j.ref>>
                          THEN entries[e] + 1 ELSE entries[e]
  BY <1>1, <1>2 DEF Commit, OnceInv, RowsOK, IsJob
<1>4. QED
  BY <1>2, <1>3 DEF Booked

(* A commit books one entry, and marks as stale what it decided or earned  *)
(* without knowing of another commit.                                      *)
LEMMA CommitInv ==
    ASSUME OnceInv, NEW s \in Sessions, Commit(s)
    PROVE  OnceInv'
<1> DEFINE j == job[s]
<1>1. IsJob(j) /\ JobFits(j) /\ j.pc = "commit"
  BY DEF OnceInv, JobsOK, Commit
<1>2. j.ref \in Refs /\ EntryType(j) \in EntryTypes
  BY CommitBooks
<1>3. \A t \in Sessions : job'[t] = IF t = s THEN Idle ELSE job[t]
  BY DEF OnceInv, JobsOK, Commit
<1>4. \A type \in EntryTypes, ref \in Refs :
         /\ Booked(type, ref) \in Nat
         /\ Booked(type, ref)' = IF ~j.known /\ type = EntryType(j) /\ ref = j.ref
                                 THEN Booked(type, ref) + 1 ELSE Booked(type, ref)
  BY CommitBooks
<1>5. stale \subseteq stale' /\ Overwritten(j) \subseteq stale'
  BY DEF Commit
<1>6. RowsOK'
  <2>1. orders' \in [Orders -> {"OPEN", "DONE"}]
    BY DEF Commit, OnceInv, RowsOK
  <2>2. entries' \in [EntryTypes \X Refs -> Nat]
    BY <1>1, <1>2 DEF Commit, OnceInv, RowsOK, IsJob
  <2>3. payouts' \in [Payouts -> [status : Statuses, amount : Nat]]
    BY <1>1 DEF Commit, OnceInv, RowsOK, IsJob, NewStatus, Statuses
  <2>4. QED
    BY <2>1, <2>2, <2>3 DEF RowsOK
<1>7. JobsOK'
  <2>1. job' = [t \in Sessions |-> job'[t]]
    BY DEF OnceInv, JobsOK, Commit
  <2>2. ASSUME NEW t \in Sessions PROVE IsJob(job[t])' /\ JobFits(job[t])'
    <3>1. IsJob(job'[t]) /\ JobFits(job'[t])
      BY <1>3, IdleFits DEF OnceInv, JobsOK
    <3>2. \A o \in Orders : Booked("EARNED", o) > 0 => Booked("EARNED", o)' > 0
      BY <1>4 DEF EntryTypes, Refs
    <3>3. QED
      BY <3>1, <3>2 DEF IsJob, JobFits
  <2>3. QED
    BY <2>1, <2>2 DEF JobsOK
<1>8. EarnedOnce'
  <2> SUFFICES ASSUME NEW o \in Orders, o \notin stale'
               PROVE  Booked("EARNED", o)' <= 1
    BY DEF EarnedOnce
  <2>1. Booked("EARNED", o) \in Nat /\ Booked("EARNED", o) <= 1
    BY <1>4, <1>5 DEF OnceInv, EarnedOnce, EntryTypes, Refs
  <2>2. CASE ~j.known /\ EntryType(j) = "EARNED" /\ o = j.ref
    <3>1. j.cmd = "earn"
      BY <1>1, <2>2 DEF EntryType, IsJob, Commands
    <3>2. ~IsEarned(o)
      BY <1>5, <2>2, <3>1 DEF Overwritten
    <3>3. QED
      BY <1>2, <1>4, <2>1, <2>2, <3>2 DEF IsEarned
  <2>3. CASE ~(~j.known /\ EntryType(j) = "EARNED" /\ o = j.ref)
    BY <1>4, <2>1, <2>3 DEF EntryTypes, Refs
  <2>4. QED
    BY <2>2, <2>3
<1>9. PaidOnce' /\ UndecidedUnbooked'
  <2> SUFFICES ASSUME NEW p \in Payouts, p \notin stale'
               PROVE  /\ Booked("PAYOUT_PAID", p)' + Booked("ADJUSTMENT", p)' <= 1
                      /\ payouts'[p].status \in {"none", "REQUESTED", "APPROVED"} =>
                            Booked("PAYOUT_PAID", p)' + Booked("ADJUSTMENT", p)' = 0
    BY DEF PaidOnce, UndecidedUnbooked
  <2>1. /\ Booked("PAYOUT_PAID", p) \in Nat /\ Booked("ADJUSTMENT", p) \in Nat
        /\ Booked("PAYOUT_PAID", p) + Booked("ADJUSTMENT", p) <= 1
        /\ payouts[p].status \in {"none", "REQUESTED", "APPROVED"} =>
              Booked("PAYOUT_PAID", p) + Booked("ADJUSTMENT", p) = 0
    BY <1>4, <1>5 DEF OnceInv, PaidOnce, UndecidedUnbooked, EntryTypes, Refs
  <2>2. CASE p # j.ref
    <3>1. payouts'[p] = payouts[p]
      BY <2>2 DEF Commit, OnceInv, RowsOK
    <3>2. QED
      BY <1>4, <2>1, <2>2, <3>1 DEF EntryTypes, Refs
  <2>3. CASE p = j.ref
    <3>1. j.cmd \in {"request", "approve", "reject", "paid"}
      BY <1>1, <2>3, RefsAreDistinct DEF IsJob, JobFits, Commands, RefsAreDistinct, Orders, Refs
    <3>2. payouts[p].status = j.status
      BY <1>5, <2>3 DEF Overwritten
    <3>3. Booked("PAYOUT_PAID", p) = 0 /\ Booked("ADJUSTMENT", p) = 0
      BY <1>1, <2>1, <3>1, <3>2 DEF JobFits
    <3>4. payouts'[p].status = NewStatus(j.cmd)
      BY <2>3 DEF Commit, OnceInv, RowsOK
    <3>5. p \in Refs /\ "PAYOUT_PAID" \in EntryTypes /\ "ADJUSTMENT" \in EntryTypes
      BY DEF EntryTypes, Refs
    <3>6. CASE j.cmd \in {"request", "approve"}
      <4>1. EntryType(j) \in {"PAYOUT_REQUESTED", "PAYOUT_APPROVED"}
        BY <3>6 DEF EntryType
      <4>2. QED
        BY <1>4, <3>3, <3>5, <4>1
    <3>7. CASE j.cmd \in {"reject", "paid"}
      <4>1. NewStatus(j.cmd) \in {"REJECTED", "PAID"}
        BY <3>7 DEF NewStatus
      <4>2. QED
        BY <1>4, <3>3, <3>4, <3>5, <4>1
    <3>8. QED
      BY <3>1, <3>6, <3>7
  <2>4. QED
    BY <2>2, <2>3
<1>10. AtMostOneRecent'
  <2>1. CASE j.cmd = "request"
    <3>1. j.ref \in Payouts /\ j.window = {}
      BY <1>1, <2>1 DEF JobFits
    <3>2. "window" \in stale' \/ recent = {}
      BY <1>5, <2>1, <3>1 DEF Overwritten
    <3>3. recent' = recent \cup {j.ref}
      BY <2>1 DEF Commit
    <3>4. QED
      BY <3>1, <3>2, <3>3 DEF AtMostOneRecent
  <2>2. CASE j.cmd # "request"
    BY <1>5, <2>2 DEF Commit, OnceInv, AtMostOneRecent
  <2>3. QED
    BY <2>1, <2>2
<1>11. DoneIsBooked'
  <2>1. \A o \in Orders : Booked("EARNED", o) > 0 => Booked("EARNED", o)' > 0
    BY <1>4 DEF EntryTypes, Refs
  <2>2. ASSUME NEW o \in Orders, j.cmd = "earn", o = j.ref
        PROVE  Booked("EARNED", o)' > 0
    <3>1. EntryType(j) = "EARNED"
      BY <2>2 DEF EntryType
    <3>2. CASE j.known
      BY <1>1, <2>1, <2>2, <3>2 DEF JobFits
    <3>3. CASE ~j.known
      BY <1>2, <1>4, <2>2, <3>1, <3>3
    <3>4. QED
      BY <3>2, <3>3
  <2>3. ASSUME NEW o \in Orders, orders'[o] = "DONE"
        PROVE  orders[o] = "DONE" \/ Booked("EARNED", o)' > 0
    BY <2>2, <2>3 DEF Commit, OnceInv, RowsOK
  <2>4. ASSUME NEW o \in PartnerOrders, NEW t \in Sessions, Earning(t, o)
        PROVE  Earning(t, o)' \/ Booked("EARNED", o)' > 0
    BY <1>3, <2>2, <2>4 DEF Earning, Orders
  <2>5. UNCHANGED <<late, lost>>
    BY DEF Commit
  <2>6. \A o \in MarketOrders : (orders[o] = "DONE" => Booked("EARNED", o) > 0)
    BY DEF OnceInv, DoneIsBooked
  <2>7. \A o \in PartnerOrders \ (late \cup lost) :
           orders[o] = "DONE" => Booked("EARNED", o) > 0 \/ \E t \in Sessions : Earning(t, o)
    BY DEF OnceInv, DoneIsBooked
  <2>8. QED
    BY <2>1, <2>3, <2>4, <2>5, <2>6, <2>7 DEF DoneIsBooked, Orders
<1>12. QED
  BY <1>6, <1>7, <1>8, <1>9, <1>10, <1>11 DEF OnceInv

(* Every step keeps OnceInv.                                               *)
LEMMA OnceNext == OnceInv /\ [Next]_vars => OnceInv'
<1> SUFFICES ASSUME OnceInv, [Next]_vars
             PROVE  OnceInv'
  OBVIOUS
<1>1. CASE UNCHANGED vars \/ Exhausted
  BY <1>1 DEF Exhausted, vars, rows, history, OnceInv, RowsOK, JobsOK, IsJob, JobFits, Booked,
              EarnedOnce, PaidOnce, UndecidedUnbooked, AtMostOneRecent, DoneIsBooked, Earning
<1>2. CASE TimePasses
  BY <1>2 DEF TimePasses, history, OnceInv, RowsOK, JobsOK, IsJob, JobFits, Booked,
              EarnedOnce, PaidOnce, UndecidedUnbooked, AtMostOneRecent, DoneIsBooked, Earning
<1>3. ASSUME NEW s \in Sessions, Start(s) \/ Step(s) \/ Abort(s)
      PROVE  OnceInv'
  BY <1>3, StartInv, WorkInv, CommitDoneInv, CommitInv DEF Step
<1>4. QED
  BY <1>1, <1>2, <1>3 DEF Next

(* It implies the property.                                                *)
LEMMA OnceImplies == OnceInv => EarnedAndPaidOnce
<1> SUFFICES ASSUME OnceInv
             PROVE  EarnedAndPaidOnce
  OBVIOUS
<1>1. EarnedOnce /\ PaidOnce
  BY DEF OnceInv
<1>2. DoneIsEarned
  BY DEF OnceInv, DoneIsBooked, DoneIsEarned, Earning, Orders
<1>3. OnePayoutPerPeriod
  <2>1. CASE recent = {}
    BY <2>1, FS_EmptySet DEF OnePayoutPerPeriod
  <2>2. ASSUME NEW p, recent = {p}
        PROVE  OnePayoutPerPeriod
    BY <2>2, FS_Singleton DEF OnePayoutPerPeriod
  <2>3. QED
    BY <2>1, <2>2 DEF OnceInv, AtMostOneRecent, OnePayoutPerPeriod
<1>4. QED
  BY <1>1, <1>2, <1>3 DEF EarnedAndPaidOnce

(* An order earns once and a payout is decided once, whatever is completed *)
(* twice, rolled back or decided again, but for the races stale names and  *)
(* the completions that late and lost name.                                *)
THEOREM PartnerEarnedAndPaidOnce == Spec => []EarnedAndPaidOnce
<1>1. Spec => []OnceInv
  BY OnceInit, OnceNext, PTL DEF Spec
<1>2. QED
  BY <1>1, OnceImplies, PTL

-----------------------------------------------------------------------------
(* What a job has to do with the payout and the balance it was begun for.  *)
MoneyFits(j) ==
    /\ j.cmd = "earn" => j.amount = Price
    /\ j.cmd = "penalty" => j.amount = Penalty
    /\ j.cmd = "request" =>
          payouts[j.ref] = NoPayout /\ j.amount > 0 /\ j.amount <= j.seen.available
    /\ j.cmd \in {"approve", "reject", "paid"} =>
          payouts[j.ref].status # "none" /\ payouts[j.ref].amount = j.amount

(* Nobody works on a payout while it is being requested.                   *)
RequestsAreAlone ==
    \A s, t \in Sessions : job[s].cmd = "request" /\ job[t].ref = job[s].ref => s = t

(* A payout that was never requested has no entries.                       *)
NewIsUnbooked ==
    \A p \in Payouts : payouts[p].status = "none" =>
        Booked("PAYOUT_REQUESTED", p) = 0 /\ Booked("ADJUSTMENT", p) = 0

MoneyInv ==
    /\ TypeOK
    /\ \A s \in Sessions : MoneyFits(job[s])
    /\ RequestsAreAlone /\ NewIsUnbooked
    /\ BalanceMatchesEntries /\ BlockedIsUndecided /\ PayoutsAreCovered

JobType == [pc : {"idle", "done", "load", "audit", "commit"}, cmd : Commands,
            ref : Refs \cup {NoRef}, amount : Nat, seen : Money, status : Statuses,
            known : BOOLEAN, window : SUBSET Payouts]

(* The balances match when the system starts.                              *)
LEMMA MoneyInit == Init => MoneyInv
<1> SUFFICES ASSUME Init
             PROVE  MoneyInv
  OBVIOUS
<1>1. TypeOK
  <2>1. Idle \in JobType
    BY DEF Idle, Job, JobType, Empty, Money, Statuses, Commands
  <2>2. job \in [Sessions -> JobType]
    BY <2>1 DEF Init
  <2>3. entries \in [EntryTypes \X Refs -> Nat] /\ account \in Money
    BY DEF Init, Empty, Money
  <2>4. /\ payouts \in [Payouts -> [status : Statuses, amount : Nat]]
        /\ \A p \in Payouts : payouts[p].status = "none" <=> payouts[p].amount = 0
    BY DEF Init, NoPayout, Statuses
  <2>5. QED
    BY <2>2, <2>3, <2>4 DEF Init, TypeOK, JobType
<1>2. \A s \in Sessions : MoneyFits(job[s])
  BY DEF Init, MoneyFits, Idle, Job
<1>3. \A type \in EntryTypes, ref \in Refs : Booked(type, ref) = 0
  BY DEF Init, Booked
<1>4. RequestsAreAlone /\ NewIsUnbooked
  BY <1>3 DEF Init, RequestsAreAlone, NewIsUnbooked, Idle, Job, EntryTypes, Refs
<1>5. LedgerAvailable = 0
  <2> DEFINE f == [o \in Orders |-> Price * Booked("EARNED", o) - Penalty * Booked("SLA_PENALTY", o)]
             g == [p \in Payouts |-> payouts[p].amount
                              * (Booked("ADJUSTMENT", p) - Booked("PAYOUT_REQUESTED", p))]
  <2>1. \A o \in Orders : f[o] = 0
    BY <1>3, PositiveAmounts DEF PositiveAmounts, EntryTypes, Refs
  <2>2. \A p \in Payouts : g[p] = 0
    BY <1>3 DEF Init, NoPayout, EntryTypes, Refs
  <2>3. SumOf(f, Orders) = 0 /\ SumOf(g, Payouts) = 0
    BY <2>1, <2>2, FinitelyMany, SumZero DEF FinitelyMany
  <2>4. QED
    BY <2>3 DEF LedgerAvailable
<1>6. {p \in Payouts : payouts[p].status \in {"REQUESTED", "APPROVED"}} = {}
  BY DEF Init, NoPayout
<1>7. account.available = 0 /\ account.blocked = 0
  BY DEF Init, Empty
<1>8. BalanceMatchesEntries /\ PayoutsAreCovered
  BY <1>5, <1>7 DEF BalanceMatchesEntries, PayoutsAreCovered
<1>9. BlockedIsUndecided
  <2>1. SumOf([p \in Payouts |-> payouts[p].amount], {}) = 0
    BY SumEmpty
  <2>2. QED
    BY <1>6, <1>7, <2>1 DEF BlockedIsUndecided
<1>10. QED
  BY <1>1, <1>2, <1>4, <1>8, <1>9 DEF MoneyInv

(* Steps that touch neither balances nor entries nor payouts.              *)
LEMMA MoneyStep ==
    ASSUME MoneyInv, NEW s \in Sessions, NEW j \in JobType, MoneyFits(j),
           job' = [job EXCEPT ![s] = j],
           UNCHANGED <<account, entries, payouts, stale>>,
           orders' \in [Orders -> {"OPEN", "DONE"}], recent' \subseteq Payouts, begun' \in Nat,
           late' \subseteq PartnerOrders, lost' \subseteq PartnerOrders,
           \A t \in Sessions \ {s} :
              /\ j.cmd = "request" => job[t].ref # j.ref
              /\ job[t].cmd = "request" => job[t].ref # j.ref
    PROVE  MoneyInv'
<1> USE DEF MoneyInv
<1>1. \A t \in Sessions : job'[t] = IF t = s THEN j ELSE job[t]
  BY DEF TypeOK
<1>2. TypeOK'
  <2>1. job' \in [Sessions -> JobType]
    BY DEF TypeOK, JobType
  <2>2. QED
    BY <2>1 DEF TypeOK, JobType
<1>3. ASSUME NEW t \in Sessions PROVE MoneyFits(job[t])'
  BY <1>1 DEF MoneyFits
<1>4. \A type, ref : Booked(type, ref)' = Booked(type, ref)
  BY DEF Booked
<1>5. RequestsAreAlone'
  BY <1>1 DEF RequestsAreAlone
<1>6. NewIsUnbooked'
  BY <1>4 DEF NewIsUnbooked
<1>7. LedgerAvailable' = LedgerAvailable
  BY <1>4 DEF LedgerAvailable
<1>8. BalanceMatchesEntries' /\ BlockedIsUndecided' /\ PayoutsAreCovered'
  BY <1>4, <1>7 DEF BalanceMatchesEntries, BlockedIsUndecided, PayoutsAreCovered
<1>9. QED
  BY <1>2, <1>3, <1>5, <1>6, <1>8

(* A job that is not about a payout meets no request.                      *)
LEMMA NotAPayout ==
    ASSUME OnceInv, NEW s \in Sessions, NEW ref, ref \notin Payouts
    PROVE  \A t \in Sessions \ {s} : job[t].cmd = "request" => job[t].ref # ref
BY DEF OnceInv, JobsOK, JobFits

(* A command that begins keeps the balances.                               *)
LEMMA MoneyStart ==
    ASSUME OnceInv, MoneyInv, NEW s \in Sessions, Start(s)
    PROVE  MoneyInv'
<1> DEFINE begins(j) ==
              /\ job' = [job EXCEPT ![s] = j] /\ begun' = begun + 1
              /\ UNCHANGED <<orders, account, entries, payouts, recent, stale, late, lost>>
           alone(j) ==
              \A t \in Sessions \ {s} : /\ j.cmd = "request" => job[t].ref # j.ref
                                        /\ job[t].cmd = "request" => job[t].ref # j.ref
<1>1. ASSUME NEW j \in JobType, MoneyFits(j), begins(j), alone(j)
      PROVE  MoneyInv'
  <2>1. /\ orders' \in [Orders -> {"OPEN", "DONE"}] /\ recent' \subseteq Payouts /\ begun' \in Nat
        /\ late' \subseteq PartnerOrders /\ lost' \subseteq PartnerOrders
    BY <1>1 DEF MoneyInv, TypeOK
  <2>2. job' = [job EXCEPT ![s] = j] /\ UNCHANGED <<account, entries, payouts, stale>>
    BY <1>1
  <2>3. \A t \in Sessions \ {s} : /\ j.cmd = "request" => job[t].ref # j.ref
                                 /\ job[t].cmd = "request" => job[t].ref # j.ref
    BY <1>1
  <2>4. QED
    BY <1>1, <2>1, <2>2, <2>3, MoneyStep
<1>2. \A j : Begin(s, j) => begins(j)
  BY DEF Begin, rows
<1> HIDE DEF begins
<1>3. /\ account \in Money /\ Empty \in Money /\ recent \subseteq Payouts
      /\ Price \in Nat /\ Penalty \in Nat /\ \A n \in Amounts : n \in Nat /\ n > 0
  BY PositiveAmounts DEF PositiveAmounts, MoneyInv, TypeOK, Empty, Money
<1>4. ASSUME NEW o \in Orders, CompleteOrder(s, o)
      PROVE  MoneyInv'
  <2> DEFINE j == Job(IF o \in PartnerOrders THEN "done" ELSE "load", "earn", o, Price,
                      Empty, "none", {})
  <2>1. j \in JobType /\ MoneyFits(j)
    BY <1>3 DEF Job, JobType, MoneyFits, Commands, Statuses, Refs
  <2>2. alone(j)
    BY NotAPayout, RefsAreDistinct DEF RefsAreDistinct, Job
  <2>3. begins(j)
    BY <1>2, <1>4 DEF CompleteOrder
  <2>4. QED
    BY <1>1, <2>1, <2>2, <2>3
<1>5. ASSUME NEW o \in Orders, Penalise(s, o)
      PROVE  MoneyInv'
  <2> DEFINE j == Job("audit", "penalty", o, Penalty, account, "none", {})
  <2>1. j \in JobType /\ MoneyFits(j)
    BY <1>3 DEF Job, JobType, MoneyFits, Commands, Statuses, Refs
  <2>2. alone(j)
    BY NotAPayout, RefsAreDistinct DEF RefsAreDistinct, Job
  <2>3. begins(j)
    BY <1>2, <1>5 DEF Penalise
  <2>4. QED
    BY <1>1, <2>1, <2>2, <2>3
<1>6. ASSUME NEW a \in Seeds, NEW n \in Amounts, NEW cmd \in {"credit", "debit"}, Seed(s, a, n, cmd)
      PROVE  MoneyInv'
  <2> DEFINE j == Job("commit", cmd, a, n, account, "none", {})
  <2>1. j \in JobType /\ MoneyFits(j)
    BY <1>3 DEF Job, JobType, MoneyFits, Commands, Statuses, Refs
  <2>2. alone(j)
    BY NotAPayout, RefsAreDistinct DEF RefsAreDistinct, Job
  <2>3. begins(j)
    BY <1>2, <1>6 DEF Seed
  <2>4. QED
    BY <1>1, <2>1, <2>2, <2>3
<1>7. ASSUME NEW p \in Payouts, NEW n \in Amounts, RequestPayout(s, p, n)
      PROVE  MoneyInv'
  <2> DEFINE j == Job("audit", "request", p, n, account, "none", recent)
  <2>1. j \in JobType
    BY <1>3 DEF Job, JobType, Commands, Statuses, Refs
  <2>2. MoneyFits(j)
    BY <1>3, <1>7 DEF Job, MoneyFits, RequestPayout, WithinAvailable
  <2>3. alone(j)
    BY <1>7 DEF RequestPayout, Job
  <2>4. begins(j)
    BY <1>2, <1>7 DEF RequestPayout
  <2>5. QED
    BY <1>1, <2>1, <2>2, <2>3, <2>4
<1>8. ASSUME NEW p \in Payouts, NEW cmd \in {"approve", "reject", "paid"}, Decide(s, p, cmd)
      PROVE  MoneyInv'
  <2> DEFINE j == Job("audit", cmd, p, payouts[p].amount, account, payouts[p].status, {})
  <2>1. payouts[p].status \in {"REQUESTED", "APPROVED"} /\ payouts[p].amount \in Nat
    BY <1>8 DEF Decide, Decidable, MoneyInv, TypeOK
  <2>2. j \in JobType
    BY <1>3, <2>1 DEF Job, JobType, Commands, Statuses, Refs
  <2>3. MoneyFits(j)
    BY <2>1 DEF Job, MoneyFits
  <2>4. alone(j)
    BY <2>1 DEF Job, MoneyInv, MoneyFits, NoPayout
  <2>5. begins(j)
    BY <1>2, <1>8 DEF Decide
  <2>6. QED
    BY <1>1, <2>2, <2>3, <2>4, <2>5
<1>9. QED
  BY <1>4, <1>5, <1>6, <1>7, <1>8 DEF Start

(* So does every step that stores no balance.                              *)
LEMMA MoneyWork ==
    ASSUME OnceInv, MoneyInv, NEW s \in Sessions,
           CommitDone(s) \/ LateRaises(s) \/ LoadEarned(s) \/ Audit(s) \/ Abort(s)
    PROVE  MoneyInv'
<1> DEFINE old == job[s]
<1>1. old \in JobType /\ MoneyFits(old) /\ IsJob(old) /\ JobFits(old)
  BY DEF OnceInv, JobsOK, MoneyInv, TypeOK, JobType
<1>2. /\ orders \in [Orders -> {"OPEN", "DONE"}] /\ recent \subseteq Payouts /\ begun \in Nat
      /\ late \subseteq PartnerOrders /\ lost \subseteq PartnerOrders
  BY DEF MoneyInv, TypeOK
<1>3. CASE LateRaises(s) \/ Abort(s)
  <2>1. Idle \in JobType /\ MoneyFits(Idle)
    BY DEF Idle, Job, JobType, MoneyFits, Empty, Money, Statuses, Commands
  <2>2. \A t \in Sessions \ {s} :
           Idle.cmd # "request" /\ (job[t].cmd = "request" => job[t].ref # Idle.ref)
    BY NotAPayout, RefsAreDistinct DEF RefsAreDistinct, Refs, Idle, Job
  <2>3. QED
    BY <1>2, <1>3, <2>1, <2>2, MoneyStep DEF LateRaises, Abort, rows
<1> DEFINE new(pc, seen, known) ==
              [pc |-> pc, cmd |-> old.cmd, ref |-> old.ref, amount |-> old.amount,
               seen |-> seen, status |-> old.status, known |-> known, window |-> old.window]
<1>4. ASSUME NEW pc \in {"load", "audit", "commit"}, NEW seen \in Money, NEW known \in BOOLEAN,
             old.cmd = "earn" \/ seen = old.seen
      PROVE  /\ new(pc, seen, known) \in JobType /\ MoneyFits(new(pc, seen, known))
             /\ \A t \in Sessions \ {s} :
                   /\ new(pc, seen, known).cmd = "request" => job[t].ref # new(pc, seen, known).ref
                   /\ job[t].cmd = "request" => job[t].ref # new(pc, seen, known).ref
  <2>1. new(pc, seen, known) \in JobType
    BY <1>1 DEF JobType
  <2>2. MoneyFits(new(pc, seen, known))
    BY <1>1, <1>4 DEF MoneyFits
  <2>3. QED
    BY <2>1, <2>2 DEF MoneyInv, RequestsAreAlone
<1>5. CASE CommitDone(s)
  <2> DEFINE j == new("load", old.seen, old.known)
  <2>1. job' = [job EXCEPT ![s] = j]
    BY <1>1, <1>5, SetPc DEF CommitDone
  <2>2. orders' \in [Orders -> {"OPEN", "DONE"}]
    BY <1>1, <1>2, <1>5 DEF CommitDone, JobFits
  <2>3. old.seen \in Money /\ old.known \in BOOLEAN
    BY <1>1 DEF JobType
  <2> HIDE DEF new
  <2>4. /\ j \in JobType /\ MoneyFits(j)
        /\ \A t \in Sessions \ {s} : /\ j.cmd = "request" => job[t].ref # j.ref
                                     /\ job[t].cmd = "request" => job[t].ref # j.ref
    BY <1>4, <2>3
  <2>5. /\ UNCHANGED <<account, entries, payouts, stale>>
        /\ orders' \in [Orders -> {"OPEN", "DONE"}] /\ recent' \subseteq Payouts /\ begun' \in Nat
        /\ late' \subseteq PartnerOrders /\ lost' \subseteq PartnerOrders
    BY <1>2, <1>5, <2>2 DEF CommitDone, history
  <2> HIDE DEF j
  <2>6. QED
    BY <2>1, <2>4, <2>5, MoneyStep
<1>6. CASE LoadEarned(s)
  <2> DEFINE j == new("audit", account, IsEarned(old.ref))
  <2>1. job' = [job EXCEPT ![s] = j]
    BY <1>1, <1>6, SetRead DEF LoadEarned
  <2>2. account \in Money /\ IsEarned(old.ref) \in BOOLEAN /\ old.cmd = "earn"
    BY <1>1, <1>6 DEF MoneyInv, TypeOK, IsEarned, JobFits, LoadEarned
  <2> HIDE DEF new
  <2>3. /\ j \in JobType /\ MoneyFits(j)
        /\ \A t \in Sessions \ {s} : /\ j.cmd = "request" => job[t].ref # j.ref
                                     /\ job[t].cmd = "request" => job[t].ref # j.ref
    BY <1>4, <2>2
  <2>4. /\ UNCHANGED <<account, entries, payouts, stale>>
        /\ orders' \in [Orders -> {"OPEN", "DONE"}] /\ recent' \subseteq Payouts /\ begun' \in Nat
        /\ late' \subseteq PartnerOrders /\ lost' \subseteq PartnerOrders
    BY <1>2, <1>6 DEF LoadEarned, rows, history
  <2> HIDE DEF j
  <2>5. QED
    BY <2>1, <2>3, <2>4, MoneyStep
<1>7. CASE Audit(s)
  <2> DEFINE j == new("commit", old.seen, old.known)
  <2>1. job' = [job EXCEPT ![s] = j]
    BY <1>1, <1>7, SetPc DEF Audit
  <2>2. old.seen \in Money /\ old.known \in BOOLEAN
    BY <1>1 DEF JobType
  <2> HIDE DEF new
  <2>3. /\ j \in JobType /\ MoneyFits(j)
        /\ \A t \in Sessions \ {s} : /\ j.cmd = "request" => job[t].ref # j.ref
                                     /\ job[t].cmd = "request" => job[t].ref # j.ref
    BY <1>4, <2>2
  <2>4. /\ UNCHANGED <<account, entries, payouts, stale>>
        /\ orders' \in [Orders -> {"OPEN", "DONE"}] /\ recent' \subseteq Payouts /\ begun' \in Nat
        /\ late' \subseteq PartnerOrders /\ lost' \subseteq PartnerOrders
    BY <1>2, <1>7 DEF Audit, rows, history
  <2> HIDE DEF j
  <2>5. QED
    BY <2>1, <2>3, <2>4, MoneyStep
<1>8. QED
  BY <1>3, <1>5, <1>6, <1>7

(* A commit moves the balances by its delta, unless they had changed since *)
(* it read them.                                                           *)
LEMMA CommitMoves ==
    ASSUME MoneyInv, NEW s \in Sessions, Commit(s)
    PROVE  /\ account' \in Money
           /\ DeltaAvailable(job[s]) \in Int /\ DeltaBlocked(job[s]) \in Int
           /\ DeltaAvailable(job[s]) # 0 =>
                 account'.available = job[s].seen.available + DeltaAvailable(job[s])
           /\ "account" \notin stale' =>
                 /\ account'.available = account.available + DeltaAvailable(job[s])
                 /\ account'.blocked = account.blocked + DeltaBlocked(job[s])
<1> DEFINE j == job[s]
<1>1. j \in JobType /\ account \in Money
  BY DEF MoneyInv, TypeOK, JobType
<1>2. j.amount \in Nat /\ j.seen \in Money /\ j.cmd \in Commands
  BY <1>1 DEF JobType
<1> HIDE DEF j
<1>3. DeltaAvailable(j) \in Int /\ DeltaBlocked(j) \in Int
  BY <1>2 DEF DeltaAvailable, DeltaBlocked, Commands
<1>4. /\ account'.available = IF DeltaAvailable(j) = 0 THEN account.available
                              ELSE j.seen.available + DeltaAvailable(j)
      /\ account'.blocked = IF DeltaBlocked(j) = 0 THEN account.blocked
                            ELSE j.seen.blocked + DeltaBlocked(j)
      /\ account' = [available |-> account'.available, blocked |-> account'.blocked]
  BY DEF Commit, Applied, Delta, j
<1>5. account' \in Money
  BY <1>1, <1>2, <1>3, <1>4 DEF Money
<1>6. "account" \notin stale' =>
         /\ DeltaAvailable(j) # 0 => account.available = j.seen.available
         /\ DeltaBlocked(j) # 0 => account.blocked = j.seen.blocked
  BY DEF Commit, Overwritten, Delta, j
<1>7. QED
  BY <1>1, <1>3, <1>4, <1>5, <1>6 DEF Money, j

(* What a commit makes of the payouts.                                     *)
LEMMA CommitPays ==
    ASSUME OnceInv, MoneyInv, NEW s \in Sessions, Commit(s)
    PROVE  /\ job[s].ref \in Payouts <=> job[s].cmd \in {"request", "approve", "reject", "paid"}
           /\ \A p \in Payouts :
                 /\ p # job[s].ref => payouts'[p] = payouts[p]
                 /\ p = job[s].ref => /\ payouts'[p].status = NewStatus(job[s].cmd)
                                      /\ payouts'[p].amount = job[s].amount
                 /\ job[s].cmd # "request" => payouts'[p].amount = payouts[p].amount
                 /\ payouts[p].amount \in Nat /\ payouts'[p].amount \in Nat
<1> DEFINE j == job[s]
<1>1. j \in JobType /\ MoneyFits(j) /\ JobFits(j) /\ j.pc = "commit"
  BY DEF MoneyInv, TypeOK, JobType, OnceInv, JobsOK, Commit
<1>2. j.ref \in Payouts <=> j.cmd \in {"request", "approve", "reject", "paid"}
  BY <1>1, RefsAreDistinct DEF RefsAreDistinct, JobFits, JobType, Commands, Orders
<1>3. payouts \in [Payouts -> [status : Statuses, amount : Nat]] /\ j.amount \in Nat
  BY <1>1 DEF MoneyInv, TypeOK, JobType
<1>4. \A p \in Payouts :
         /\ p # j.ref => payouts'[p] = payouts[p]
         /\ p = j.ref => payouts'[p].status = NewStatus(j.cmd) /\ payouts'[p].amount = j.amount
  BY <1>3 DEF Commit
<1>5. j.ref \in Payouts /\ j.cmd # "request" => payouts[j.ref].amount = j.amount
  BY <1>1, <1>2 DEF MoneyFits
<1>6. QED
  BY <1>2, <1>3, <1>4, <1>5

(* The entries a commit books change what they add up to by its delta.     *)
LEMMA CommitLedger ==
    ASSUME OnceInv, MoneyInv, NEW s \in Sessions, Commit(s)
    PROVE  /\ LedgerAvailable \in Int
           /\ ~IsSeed(job[s]) => LedgerAvailable' = LedgerAvailable + DeltaAvailable(job[s])
<1> DEFINE j == job[s]
           f == [o \in Orders |-> Price * Booked("EARNED", o) - Penalty * Booked("SLA_PENALTY", o)]
           g == [p \in Payouts |-> payouts[p].amount
                                   * (Booked("ADJUSTMENT", p) - Booked("PAYOUT_REQUESTED", p))]
           F == [o \in Orders |-> Price * Booked("EARNED", o)' - Penalty * Booked("SLA_PENALTY", o)']
           G == [p \in Payouts |-> payouts'[p].amount
                                   * (Booked("ADJUSTMENT", p)' - Booked("PAYOUT_REQUESTED", p)')]
<1>1. j \in JobType /\ MoneyFits(j) /\ JobFits(j) /\ j.pc = "commit"
  BY DEF MoneyInv, TypeOK, JobType, OnceInv, JobsOK, Commit
<1>2. \A type \in EntryTypes, ref \in Refs :
         /\ Booked(type, ref) \in Nat
         /\ Booked(type, ref)' = IF ~j.known /\ type = EntryType(j) /\ ref = j.ref
                                 THEN Booked(type, ref) + 1 ELSE Booked(type, ref)
  BY CommitBooks
<1>3. /\ "EARNED" \in EntryTypes /\ "SLA_PENALTY" \in EntryTypes /\ "ADJUSTMENT" \in EntryTypes
      /\ "PAYOUT_REQUESTED" \in EntryTypes
      /\ \A o \in Orders : o \in Refs
      /\ \A p \in Payouts : p \in Refs /\ p \notin Orders
      /\ Price \in Nat /\ Penalty \in Nat /\ IsFiniteSet(Orders) /\ IsFiniteSet(Payouts)
  BY PositiveAmounts, RefsAreDistinct, FinitelyMany
     DEF PositiveAmounts, RefsAreDistinct, FinitelyMany, EntryTypes, Refs
<1>4. \A p \in Payouts : payouts[p].amount \in Nat /\ payouts'[p].amount \in Nat
  BY CommitPays
<1>5. \A o \in Orders : f[o] \in Int /\ F[o] \in Int
  BY <1>2, <1>3
<1>6. \A p \in Payouts : g[p] \in Int /\ G[p] \in Int
  <2>1. \A a \in Nat, b \in Nat, c \in Nat : a * (b - c) \in Int
    OBVIOUS
  <2>2. \A p \in Payouts : /\ Booked("ADJUSTMENT", p) \in Nat /\ Booked("PAYOUT_REQUESTED", p) \in Nat
                           /\ Booked("ADJUSTMENT", p)' \in Nat
                           /\ Booked("PAYOUT_REQUESTED", p)' \in Nat
    BY <1>2, <1>3
  <2>3. QED
    BY <1>4, <2>1, <2>2
<1> DEFINE a == SumOf(f, Orders)
           b == SumOf(g, Payouts)
           A == SumOf(F, Orders)
           B == SumOf(G, Payouts)
<1>7. LedgerAvailable = a + b /\ LedgerAvailable' = A + B
  BY DEF LedgerAvailable
<1>8. a \in Int /\ b \in Int
  <2> HIDE DEF f, g
  <2>1. QED
    BY <1>3, <1>5, <1>6, SumType
<1>9. (\A o \in Orders : F[o] = f[o]) => A = a
  <2> HIDE DEF f, F
  <2>1. QED
    BY <1>3, SumSame
<1>10. (\A p \in Payouts : G[p] = g[p]) => B = b
  <2> HIDE DEF g, G
  <2>1. QED
    BY <1>3, SumSame
<1>11. ASSUME NEW o \in Orders, \A x \in Orders \ {o} : f[x] = F[x]
       PROVE  A = a - f[o] + F[o]
  <2> HIDE DEF f, F
  <2>1. QED
    BY <1>3, <1>5, <1>11, SumUpdate
<1>12. ASSUME NEW p \in Payouts, \A x \in Payouts \ {p} : g[x] = G[x]
       PROVE  B = b - g[p] + G[p]
  <2> HIDE DEF g, G
  <2>1. QED
    BY <1>3, <1>6, <1>12, SumUpdate
<1>13. ASSUME EntryType(j) \notin {"ADJUSTMENT", "PAYOUT_REQUESTED"}, j.cmd # "request"
       PROVE  B = b
  <2>1. \A p \in Payouts : /\ Booked("ADJUSTMENT", p)' = Booked("ADJUSTMENT", p)
                           /\ Booked("PAYOUT_REQUESTED", p)' = Booked("PAYOUT_REQUESTED", p)
                           /\ payouts'[p].amount = payouts[p].amount
    BY <1>2, <1>3, <1>13, CommitPays
  <2>2. QED
    BY <1>10, <2>1
<1>14. ASSUME j.known \/ EntryType(j) \notin {"EARNED", "SLA_PENALTY"}
       PROVE  A = a
  <2>1. \A o \in Orders : /\ Booked("EARNED", o)' = Booked("EARNED", o)
                          /\ Booked("SLA_PENALTY", o)' = Booked("SLA_PENALTY", o)
    BY <1>2, <1>3, <1>14
  <2>2. QED
    BY <1>9, <2>1
<1>15. CASE j.cmd = "earn"
  <2>1. EntryType(j) = "EARNED" /\ j.ref \in Orders /\ j.amount = Price
    BY <1>1, <1>15 DEF EntryType, JobFits, MoneyFits
  <2>2. B = b
    BY <1>13, <1>15, <2>1
  <2>3. CASE j.known
    <3>1. A = a /\ DeltaAvailable(j) = 0
      BY <1>14, <1>15, <2>3 DEF DeltaAvailable
    <3>2. QED
      BY <1>7, <1>8, <2>2, <3>1
  <2>4. CASE ~j.known
    <3>1. \A x \in Orders \ {j.ref} : f[x] = F[x]
      BY <1>2, <1>3, <2>1
    <3>2. F[j.ref] = f[j.ref] + Price
      BY <1>2, <1>3, <2>1, <2>4
    <3>3. A = a - f[j.ref] + F[j.ref]
      BY <1>11, <2>1, <3>1
    <3>4. DeltaAvailable(j) = Price
      BY <1>15, <2>1, <2>4 DEF DeltaAvailable
    <3>5. f[j.ref] \in Int
      BY <1>5, <2>1
    <3> HIDE DEF f, F, a, b, A, B
    <3>6. QED
      BY <1>3, <1>7, <1>8, <2>2, <3>2, <3>3, <3>4, <3>5
  <2>5. QED
    BY <2>3, <2>4
<1>16. CASE j.cmd = "penalty"
  <2>1. EntryType(j) = "SLA_PENALTY" /\ j.ref \in Orders /\ j.amount = Penalty /\ ~j.known
    BY <1>1, <1>16 DEF EntryType, JobFits, MoneyFits, Orders
  <2>2. B = b
    BY <1>13, <1>16, <2>1
  <2>3. \A x \in Orders \ {j.ref} : f[x] = F[x]
    BY <1>2, <1>3, <2>1
  <2>4. F[j.ref] = f[j.ref] - Penalty
    BY <1>2, <1>3, <2>1
  <2>5. A = a - f[j.ref] + F[j.ref]
    BY <1>11, <2>1, <2>3
  <2>6. DeltaAvailable(j) = -Penalty
    BY <1>16, <2>1 DEF DeltaAvailable
  <2>7. f[j.ref] \in Int
    BY <1>5, <2>1
  <2> HIDE DEF f, F, a, b, A, B
  <2>8. QED
    BY <1>3, <1>7, <1>8, <2>2, <2>4, <2>5, <2>6, <2>7
<1>17. CASE j.cmd \in {"approve", "paid"}
  <2>1. EntryType(j) \in {"PAYOUT_APPROVED", "PAYOUT_PAID"} /\ DeltaAvailable(j) = 0
    BY <1>17 DEF EntryType, DeltaAvailable
  <2>2. A = a /\ B = b
    BY <1>13, <1>14, <1>17, <2>1
  <2>3. QED
    BY <1>7, <1>8, <2>1, <2>2
<1>18. CASE j.cmd \in {"request", "reject"}
  <2>1. EntryType(j) \in {"PAYOUT_REQUESTED", "ADJUSTMENT"} /\ j.ref \in Payouts /\ ~j.known
    BY <1>1, <1>18 DEF EntryType, JobFits
  <2>2. A = a
    BY <1>14, <2>1
  <2>3. \A x \in Payouts \ {j.ref} : g[x] = G[x]
    <3>1. \A x \in Payouts \ {j.ref} :
             /\ Booked("ADJUSTMENT", x)' = Booked("ADJUSTMENT", x)
             /\ Booked("PAYOUT_REQUESTED", x)' = Booked("PAYOUT_REQUESTED", x)
             /\ payouts'[x].amount = payouts[x].amount
      BY <1>2, <1>3, CommitPays
    <3>2. QED
      BY <3>1
  <2>4. B = b - g[j.ref] + G[j.ref]
    BY <1>12, <2>1, <2>3
  <2>. PICK p \in Payouts : p = j.ref
    BY <2>1
  <2>5. /\ payouts'[p].amount = j.amount /\ j.amount \in Nat /\ p \in Refs
        /\ Booked("ADJUSTMENT", p) \in Nat /\ Booked("PAYOUT_REQUESTED", p) \in Nat
    BY <1>1, <1>2, <1>3, <2>1, CommitPays DEF JobType
  <2>6. G[p] = g[p] + DeltaAvailable(j)
    <3>1. CASE j.cmd = "request"
      <4>1. payouts[p] = NoPayout
        BY <1>1, <3>1 DEF MoneyFits
      <4>2. Booked("ADJUSTMENT", p) = 0 /\ Booked("PAYOUT_REQUESTED", p) = 0
        BY <2>1, <4>1 DEF MoneyInv, NewIsUnbooked, NoPayout
      <4>3. EntryType(j) = "PAYOUT_REQUESTED" /\ DeltaAvailable(j) = -j.amount
        BY <3>1 DEF EntryType, DeltaAvailable
      <4>4. Booked("ADJUSTMENT", p)' = 0 /\ Booked("PAYOUT_REQUESTED", p)' = 1
        BY <1>2, <1>3, <2>1, <2>5, <4>2, <4>3
      <4>5. g[p] = 0
        BY <2>1, <4>1, <4>2 DEF NoPayout
      <4>6. G[p] = -j.amount
        BY <2>1, <2>5, <4>4
      <4> HIDE DEF g, G
      <4>7. QED
        BY <2>5, <4>3, <4>5, <4>6
    <3>2. CASE j.cmd = "reject"
      <4>1. payouts[p].amount = j.amount
        BY <1>1, <3>2 DEF MoneyFits
      <4>2. EntryType(j) = "ADJUSTMENT" /\ DeltaAvailable(j) = j.amount
        BY <3>2 DEF EntryType, DeltaAvailable
      <4>3. /\ Booked("ADJUSTMENT", p)' = Booked("ADJUSTMENT", p) + 1
            /\ Booked("PAYOUT_REQUESTED", p)' = Booked("PAYOUT_REQUESTED", p)
        BY <1>2, <1>3, <2>1, <2>5, <4>2
      <4>4. \A n, x, y \in Nat : n * (x + 1 - y) = n * (x - y) + n
        OBVIOUS
      <4>5. QED
        BY <2>1, <2>5, <4>1, <4>2, <4>3, <4>4
    <3>3. QED
      BY <1>18, <3>1, <3>2
  <2>7. g[j.ref] \in Int /\ DeltaAvailable(j) \in Int
    BY <1>6, <2>1, CommitMoves
  <2> HIDE DEF g, G, a, b, A, B
  <2>8. QED
    BY <1>7, <1>8, <2>2, <2>4, <2>6, <2>7
<1>19. j.cmd \in Commands \ {"none"}
  BY <1>1 DEF JobType, JobFits
<1>20. QED
  BY <1>7, <1>8, <1>15, <1>16, <1>17, <1>18, <1>19 DEF Commands, IsSeed

Undecided == {p \in Payouts : payouts[p].status \in {"REQUESTED", "APPROVED"}}

(* A commit that overwrites nothing changes the sum of what is undecided   *)
(* by what it blocks or releases.                                          *)
LEMMA CommitBlocks ==
    ASSUME OnceInv, MoneyInv, NEW s \in Sessions, Commit(s), stale' = {}
    PROVE  /\ SumOf([p \in Payouts |-> payouts[p].amount], Undecided) \in Int
           /\ SumOf([p \in Payouts |-> payouts'[p].amount], Undecided') =
                 SumOf([p \in Payouts |-> payouts[p].amount], Undecided) + DeltaBlocked(job[s])
<1> DEFINE j == job[s]
           f == [p \in Payouts |-> payouts[p].amount]
           F == [p \in Payouts |-> payouts'[p].amount]
           U == Undecided
           V == Undecided'
<1>1. j \in JobType /\ MoneyFits(j) /\ JobFits(j) /\ j.pc = "commit"
  BY DEF MoneyInv, TypeOK, JobType, OnceInv, JobsOK, Commit
<1>2. /\ j.ref \in Payouts <=> j.cmd \in {"request", "approve", "reject", "paid"}
      /\ \A p \in Payouts :
            /\ p # j.ref => payouts'[p] = payouts[p]
            /\ p = j.ref => payouts'[p].status = NewStatus(j.cmd) /\ payouts'[p].amount = j.amount
            /\ j.cmd # "request" => payouts'[p].amount = payouts[p].amount
            /\ payouts[p].amount \in Nat /\ payouts'[p].amount \in Nat
  BY CommitPays
<1>3. j.ref \in Payouts => payouts[j.ref].status = j.status
  BY DEF Commit, Overwritten
<1>4. /\ U \subseteq Payouts /\ IsFiniteSet(U) /\ V \subseteq Payouts /\ IsFiniteSet(V)
      /\ \A p \in Payouts : f[p] \in Int /\ F[p] \in Int
      /\ \A p \in Payouts : p \in U <=> payouts[p].status \in {"REQUESTED", "APPROVED"}
      /\ \A p \in Payouts : p \in V <=> payouts'[p].status \in {"REQUESTED", "APPROVED"}
  BY <1>2, FinitelyMany, FS_Subset DEF FinitelyMany, Undecided
<1> HIDE DEF U, V
<1>5. SumOf(f, U) \in Int
  <2> HIDE DEF f
  <2>1. QED
    BY <1>4, SumType
<1>6. ASSUME NEW W, W \subseteq U, \A p \in W : F[p] = f[p], IsFiniteSet(W)
      PROVE  SumOf(F, W) = SumOf(f, W)
  <2> HIDE DEF f, F
  <2>1. QED
    BY <1>6, SumSame
<1>7. CASE j.cmd \notin {"request", "reject", "paid"}
  <2>1. \A p \in Payouts : F[p] = f[p]
    BY <1>2, <1>7
  <2>2. \A p \in Payouts : p \in V <=> p \in U
    <3>1. j.ref \in Payouts => j.ref \in U /\ j.ref \in V
      BY <1>1, <1>2, <1>3, <1>4, <1>7 DEF JobFits, NewStatus
    <3>2. QED
      BY <1>2, <1>4, <3>1
  <2>3. V = U
    BY <1>4, <2>2
  <2>4. SumOf(F, U) = SumOf(f, U)
    BY <1>4, <1>6, <2>1
  <2>5. DeltaBlocked(j) = 0
    BY <1>7 DEF DeltaBlocked
  <2> HIDE DEF f, F
  <2>6. SumOf(F, V) = SumOf(f, U) + DeltaBlocked(j)
    BY <1>5, <2>3, <2>4, <2>5
  <2>7. QED
    BY <1>5, <2>6 DEF U, V, f, F
<1>8. CASE j.cmd = "request"
  <2>1. j.ref \in Payouts /\ j.ref \notin U /\ j.ref \in V /\ j.status = "none"
    BY <1>1, <1>2, <1>3, <1>4, <1>8 DEF JobFits, NewStatus
  <2>2. V = U \cup {j.ref}
    BY <1>2, <1>4, <2>1
  <2>3. \A p \in U : F[p] = f[p]
    BY <1>2, <1>4, <2>1
  <2>4. SumOf(F, U) = SumOf(f, U)
    BY <1>4, <1>6, <2>3
  <2>5. F[j.ref] = j.amount /\ DeltaBlocked(j) = j.amount /\ j.amount \in Nat
    BY <1>1, <1>2, <1>8, <2>1 DEF DeltaBlocked, JobType
  <2> HIDE DEF f, F
  <2>6. SumOf(F, U \cup {j.ref}) = F[j.ref] + SumOf(F, U)
    <3>1. \A x \in U \cup {j.ref} : F[x] \in Int
      BY <1>4, <2>1
    <3>2. QED
      BY <1>4, <2>1, <3>1, SumAdd
  <2>7. SumOf(F, V) = SumOf(f, U) + DeltaBlocked(j)
    BY <1>5, <2>2, <2>4, <2>5, <2>6
  <2>8. QED
    BY <1>5, <2>7 DEF U, V, f, F
<1>9. CASE j.cmd \in {"reject", "paid"}
  <2>1. j.ref \in Payouts /\ j.ref \in U /\ j.ref \notin V
    BY <1>1, <1>2, <1>3, <1>4, <1>9 DEF JobFits, NewStatus
  <2>2. V = U \ {j.ref}
    BY <1>2, <1>4, <2>1
  <2>3. \A p \in V : F[p] = f[p]
    BY <1>2, <1>4, <1>9
  <2>4. SumOf(F, V) = SumOf(f, V)
    BY <1>4, <1>6, <2>2, <2>3
  <2>5. f[j.ref] = j.amount /\ DeltaBlocked(j) = -j.amount /\ j.amount \in Nat
    BY <1>1, <1>2, <1>9, <2>1 DEF DeltaBlocked, JobType, MoneyFits
  <2> HIDE DEF f, F
  <2>6. SumOf(f, U) = f[j.ref] + SumOf(f, U \ {j.ref})
    BY <1>4, <2>1, SumRemove
  <2>7. SumOf(f, V) \in Int
    BY <1>4, SumType
  <2>8. SumOf(F, V) = SumOf(f, U) + DeltaBlocked(j)
    BY <1>5, <2>2, <2>4, <2>5, <2>6, <2>7
  <2>9. QED
    BY <1>5, <2>8 DEF U, V, f, F
<1>10. QED
  BY <1>7, <1>8, <1>9

(* The commit stores entries and balances that match, unless it writes     *)
(* over one that had changed.                                              *)
LEMMA MoneyCommit ==
    ASSUME OnceInv, MoneyInv, NEW s \in Sessions, Commit(s)
    PROVE  MoneyInv'
<1> DEFINE j == job[s]
<1>1. j \in JobType /\ MoneyFits(j) /\ JobFits(j) /\ j.pc = "commit" /\ TypeOK
  BY DEF MoneyInv, TypeOK, JobType, OnceInv, JobsOK, Commit
<1>2. \A t \in Sessions : job'[t] = IF t = s THEN Idle ELSE job[t]
  BY DEF OnceInv, JobsOK, Commit
<1>3. \A type \in EntryTypes, ref \in Refs :
         /\ Booked(type, ref) \in Nat
         /\ Booked(type, ref)' = IF ~j.known /\ type = EntryType(j) /\ ref = j.ref
                                 THEN Booked(type, ref) + 1 ELSE Booked(type, ref)
  BY CommitBooks
<1>4. /\ j.ref \in Payouts <=> j.cmd \in {"request", "approve", "reject", "paid"}
      /\ \A p \in Payouts :
            /\ p # j.ref => payouts'[p] = payouts[p]
            /\ p = j.ref => payouts'[p].status = NewStatus(j.cmd) /\ payouts'[p].amount = j.amount
            /\ j.cmd # "request" => payouts'[p].amount = payouts[p].amount
  BY CommitPays
<1>5. stale \subseteq stale'
  BY DEF Commit
<1>6. j.ref \in Refs /\ j.ref # NoRef /\ j.cmd \in Commands /\ j.amount \in Nat /\ j.known \in BOOLEAN
  BY <1>1, CommitBooks, RefsAreDistinct DEF RefsAreDistinct, JobType
<1>7. \A cmd \in {"request", "approve", "reject", "paid"} : NewStatus(cmd) \in Statuses \ {"none"}
  BY DEF NewStatus, Statuses
<1>8. TypeOK'
  <2>1. Idle \in JobType
    BY DEF Idle, Job, JobType, Empty, Money, Statuses, Commands
  <2>2. job' \in [Sessions -> JobType]
    BY <1>1, <2>1 DEF Commit, TypeOK, JobType
  <2>3. /\ orders' \in [Orders -> {"OPEN", "DONE"}] /\ entries' \in [EntryTypes \X Refs -> Nat]
        /\ payouts' \in [Payouts -> [status : Statuses, amount : Nat]]
    BY CommitInv DEF OnceInv, RowsOK
  <2>4. \A p \in Payouts : payouts'[p].status = "none" <=> payouts'[p].amount = 0
    <3>1. j.ref \in Payouts => j.amount > 0
      BY <1>1, <1>4, <1>6 DEF MoneyFits, TypeOK
    <3>2. QED
      BY <1>1, <1>4, <1>7, <3>1 DEF TypeOK
  <2>5. recent' \subseteq Payouts
    BY <1>1, <1>4 DEF Commit, TypeOK
  <2>6. Overwritten(j) \subseteq Refs \cup {"account", "window"}
    BY <1>6 DEF Overwritten
  <2>7. stale' \subseteq Refs \cup {"account", "window"}
    BY <1>1, <2>6 DEF Commit, TypeOK
  <2>8. account' \in Money
    BY CommitMoves
  <2>9. UNCHANGED <<begun, late, lost>>
    BY DEF Commit
  <2>10. QED
    BY <1>1, <2>2, <2>3, <2>4, <2>5, <2>7, <2>8, <2>9 DEF TypeOK, JobType
<1>9. ASSUME NEW t \in Sessions
      PROVE  MoneyFits(job[t])'
  <2>1. CASE t = s
    BY <1>2, <2>1 DEF MoneyFits, Idle, Job
  <2>2. CASE t # s
    <3>1. job'[t] = job[t] /\ MoneyFits(job[t]) /\ JobFits(job[t])
      BY <1>2, <2>2 DEF MoneyInv, OnceInv, JobsOK
    <3>2. job[t].cmd = "request" => job[t].ref # j.ref
      BY <2>2 DEF MoneyInv, RequestsAreAlone
    <3>3. j.cmd = "request" => job[t].ref # j.ref
      BY <2>2 DEF MoneyInv, RequestsAreAlone
    <3>4. QED
      BY <1>4, <1>7, <3>1, <3>2, <3>3 DEF MoneyFits, JobFits
  <2>3. QED
    BY <2>1, <2>2
<1>10. RequestsAreAlone'
  <2>1. Idle.cmd = "none" /\ Idle.ref = NoRef
    BY DEF Idle, Job
  <2>2. \A t \in Sessions : job[t].cmd = "request" => job[t].ref # NoRef
    BY RefsAreDistinct DEF RefsAreDistinct, Refs, OnceInv, JobsOK, JobFits
  <2>3. QED
    BY <1>2, <2>1, <2>2 DEF MoneyInv, RequestsAreAlone
<1>11. NewIsUnbooked'
  <2> SUFFICES ASSUME NEW p \in Payouts, payouts'[p].status = "none"
               PROVE  Booked("PAYOUT_REQUESTED", p)' = 0 /\ Booked("ADJUSTMENT", p)' = 0
    BY DEF NewIsUnbooked
  <2>1. p # j.ref /\ payouts[p].status = "none" /\ p \in Refs
    BY <1>4, <1>7 DEF Refs
  <2>2. QED
    BY <1>3, <2>1 DEF MoneyInv, NewIsUnbooked, EntryTypes
<1>12. account.available \in Int /\ account.blocked \in Int
  BY <1>1 DEF TypeOK, Money
<1>13. BalanceMatchesEntries'
  <2> SUFFICES ASSUME "account" \notin stale',
                      \A a \in Seeds : ~(Booked("credit", a)' + Booked("debit", a)' > 0)
               PROVE  account'.available = LedgerAvailable'
    BY DEF BalanceMatchesEntries
  <2>1. \A a \in Seeds : /\ Booked("credit", a) \in Nat /\ Booked("debit", a) \in Nat
                         /\ Booked("credit", a)' >= Booked("credit", a)
                         /\ Booked("debit", a)' >= Booked("debit", a)
                         /\ Booked("credit", a)' \in Nat /\ Booked("debit", a)' \in Nat
    BY <1>3 DEF EntryTypes, Refs
  <2>2. \A a \in Seeds : ~(Booked("credit", a) + Booked("debit", a) > 0)
    BY <2>1
  <2>3. account.available = LedgerAvailable
    BY <1>5, <2>2 DEF MoneyInv, BalanceMatchesEntries
  <2>4. ~IsSeed(j)
    <3> SUFFICES ASSUME IsSeed(j)
                 PROVE  FALSE
      OBVIOUS
    <3>1. /\ j.ref \in Seeds /\ ~j.known /\ EntryType(j) \in {"credit", "debit"}
          /\ EntryType(j) \in EntryTypes
      BY <1>1, <1>6 DEF IsSeed, JobFits, EntryType, EntryTypes
    <3>2. PICK a \in Seeds : a = j.ref
      BY <3>1
    <3>3. \A type \in {"credit", "debit"} : type = EntryType(j) => Booked(type, a)' = Booked(type, a) + 1
      BY <1>3, <1>6, <3>1, <3>2 DEF EntryTypes
    <3>4. Booked("credit", a)' > 0 \/ Booked("debit", a)' > 0
      BY <2>1, <3>1, <3>3
    <3>5. QED
      BY <2>1, <3>4
  <2>5. account'.available = account.available + DeltaAvailable(j)
    BY CommitMoves
  <2>6. QED
    BY <2>3, <2>4, <2>5, CommitLedger
<1>14. BlockedIsUndecided'
  <2> SUFFICES ASSUME stale' = {}
               PROVE  account'.blocked = SumOf([p \in Payouts |-> payouts'[p].amount], Undecided')
    BY DEF BlockedIsUndecided, Undecided
  <2>1. account.blocked = SumOf([p \in Payouts |-> payouts[p].amount], Undecided)
    BY <1>5 DEF MoneyInv, BlockedIsUndecided, Undecided
  <2>2. account'.blocked = account.blocked + DeltaBlocked(j)
    BY CommitMoves
  <2>3. QED
    BY <2>1, <2>2, CommitBlocks
<1>15. PayoutsAreCovered'
  <2> SUFFICES ASSUME "account" \notin stale',
                      \A o \in Orders : ~(Booked("SLA_PENALTY", o)' > 0),
                      \A a \in Seeds : ~(Booked("debit", a)' > 0)
               PROVE  account'.available >= 0
    BY DEF PayoutsAreCovered
  <2>1. /\ \A o \in Orders : /\ Booked("SLA_PENALTY", o) \in Nat /\ Booked("SLA_PENALTY", o)' \in Nat
                             /\ Booked("SLA_PENALTY", o)' >= Booked("SLA_PENALTY", o)
        /\ \A a \in Seeds : /\ Booked("debit", a) \in Nat /\ Booked("debit", a)' \in Nat
                            /\ Booked("debit", a)' >= Booked("debit", a)
    BY <1>3 DEF EntryTypes, Refs
  <2>2. /\ \A o \in Orders : ~(Booked("SLA_PENALTY", o) > 0)
        /\ \A a \in Seeds : ~(Booked("debit", a) > 0)
    BY <2>1
  <2>2a. account.available >= 0
    BY <1>5, <2>2 DEF MoneyInv, PayoutsAreCovered
  <2>3. /\ account'.available = account.available + DeltaAvailable(j)
        /\ DeltaAvailable(j) # 0 => account'.available = j.seen.available + DeltaAvailable(j)
        /\ DeltaAvailable(j) \in Int
    BY CommitMoves
  <2>4. CASE j.cmd \in {"penalty", "debit"}
    <3>1. /\ j.ref \in Orders \/ j.ref \in Seeds
          /\ ~j.known /\ EntryType(j) \in {"SLA_PENALTY", "debit"}
          /\ EntryType(j) = "SLA_PENALTY" => j.ref \in Orders
          /\ EntryType(j) = "debit" => j.ref \in Seeds
      BY <1>1, <1>6, <2>4 DEF JobFits, EntryType, Orders
    <3>2. PICK r \in Refs : r = j.ref
      BY <1>6
    <3>3. \A type \in {"SLA_PENALTY", "debit"} :
             type = EntryType(j) => Booked(type, r)' = Booked(type, r) + 1 /\ Booked(type, r) \in Nat
      BY <1>3, <3>1, <3>2 DEF EntryTypes
    <3>4. QED
      BY <3>1, <3>2, <3>3
  <2>5. CASE j.cmd = "request"
    <3>1. DeltaAvailable(j) = -j.amount /\ j.amount > 0 /\ j.amount <= j.seen.available
      BY <1>1, <2>5 DEF DeltaAvailable, MoneyFits
    <3>2. j.seen.available \in Int
      BY <1>1 DEF JobType, Money
    <3>3. QED
      BY <1>6, <2>3, <3>1, <3>2
  <2>6. CASE j.cmd \notin {"penalty", "debit", "request"}
    <3>1. DeltaAvailable(j) \in Nat
      BY <1>6, <2>6 DEF DeltaAvailable
    <3>2. QED
      BY <1>12, <2>2a, <2>3, <3>1
  <2>7. QED
    BY <2>4, <2>5, <2>6
<1>16. QED
  BY <1>8, <1>9, <1>10, <1>11, <1>13, <1>14, <1>15 DEF MoneyInv

(* Every step keeps the balances.                                          *)
LEMMA MoneyNext == OnceInv /\ MoneyInv /\ [Next]_vars => MoneyInv'
<1> SUFFICES ASSUME OnceInv, MoneyInv, [Next]_vars
             PROVE  MoneyInv'
  OBVIOUS
<1>1. CASE UNCHANGED vars \/ Exhausted
  <2>1. UNCHANGED <<orders, account, entries, payouts, recent, job, begun, stale, late, lost>>
    BY <1>1 DEF Exhausted, vars, rows, history
  <2>2. QED
    BY <2>1, ZenonT(40) DEF MoneyInv, TypeOK, MoneyFits, RequestsAreAlone, NewIsUnbooked, Booked,
                BalanceMatchesEntries, LedgerAvailable, BlockedIsUndecided, PayoutsAreCovered
<1>2. CASE TimePasses
  BY <1>2, ZenonT(40) DEF TimePasses, history, MoneyInv, TypeOK, MoneyFits, RequestsAreAlone,
              NewIsUnbooked, Booked, BalanceMatchesEntries, LedgerAvailable, BlockedIsUndecided,
              PayoutsAreCovered
<1>3. ASSUME NEW s \in Sessions, Start(s) \/ Step(s) \/ Abort(s)
      PROVE  MoneyInv'
  BY <1>3, MoneyStart, MoneyWork, MoneyCommit DEF Step
<1>4. QED
  BY <1>1, <1>2, <1>3 DEF Next

(* Where no operation overwrote a balance that had changed, the balances   *)
(* of a partner are what the entries and the undecided payouts add up to,  *)
(* and payouts never overdraw the account: for any orders, payouts and     *)
(* amounts.                                                                *)
THEOREM PartnerBalancesMatch == Spec => []BalancesMatch
<1>1. Spec => []OnceInv
  BY OnceInit, OnceNext, PTL DEF Spec
<1>2. Spec => []MoneyInv
  BY <1>1, MoneyInit, MoneyNext, PTL DEF Spec
<1>3. MoneyInv => BalancesMatch
  BY DEF MoneyInv, BalancesMatch
<1>4. QED
  BY <1>2, <1>3, PTL
=============================================================================
