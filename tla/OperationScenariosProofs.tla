--------------------- MODULE OperationScenariosProofs ---------------------
(***************************************************************************)
(* Proofs about OperationScenarios: for any number of sessions, keys and   *)
(* disputes and any amounts, the ledger tells what the commands have done, *)
(* nothing is paid twice and the holds are exact, but for the races, lost  *)
(* commands and cleared holds that the history variables name.             *)
(***************************************************************************)
EXTENDS OperationScenarios, SumsProofs

(* What a command may be in the middle of.                                 *)
JobFits(j) ==
    /\ j \in Job
    /\ j.step > 1 => j.pc = "post"
    /\ j.pc = "idle" => j = Idle
    /\ j.cmd = "none" => j.pc = "idle"
    /\ j.cmd = "refund" => j.part = "refund" /\ j.key \in RefundKeys
    /\ j.cmd = "reversal" => j.part = "reversal" /\ j.key \in ReversalKeys
    /\ j.cmd \in {"refund", "reversal"} =>
          j.pc \in {"insert", "lookup", "post", "record"} /\ j.id = NoId /\ ~j.hold
    /\ j.cmd = "open" => /\ j.part = "hold" /\ j.key \in OpenKeys /\ j.amount \in Amounts
                         /\ j.pc \in {"lookup", "post", "record"}
                         /\ ~j.hold => j.pc = "record"
    /\ j.cmd = "accept" =>
          \/ j.part = "refund" /\ j.pc \in {"lookup", "post"}
          \/ j.part = "refund" /\ j.hold /\ j.pc \in {"clear", "flush"}
          \/ j.part = "refund" /\ Fee = 0 /\ j.pc = "record"
          \/ j.part = "fee" /\ Fee > 0 /\ j.pc \in {"lookup", "post", "record"}
    /\ j.cmd = "reject" => /\ j.part = "release"
                           /\ j.pc \in {"lookup", "post", "record"}
                           /\ ~j.hold => j.pc = "record"
    /\ j.cmd \in {"review", "close"} => j.part = "none" /\ j.pc = "record" /\ ~j.hold /\ ~j.closed
    /\ j.cmd \in {"open", "accept", "reject", "review", "close"} => j.id \in Disputes

(* What a posting in progress has done to a balance.                       *)
Effect(j, a) ==
    IF j.pc # "post" THEN 0
    ELSE IF j.step >= 2 /\ a = Source(j) THEN -Size(j)
    ELSE IF j.step = 3 /\ a = Target(j) THEN Size(j) ELSE 0

Moved(j, a) == IF IsHold(j.part) THEN 0 ELSE Effect(j, a)
HoldMoved(j, a) == IF IsHold(j.part) THEN -Effect(j, a) ELSE 0

(* FOR UPDATE: a balance is locked by one session.                         *)
LocksExclude == \A s, t \in Sessions : s # t => held[s] \cap held[t] = {}

(* A transaction that has just begun has locked nothing; an accept keeps   *)
(* what it has cleared locked through its fee.                             *)
HeldFits(s) ==
    LET j == job[s] IN
    /\ j.pc \in {"idle", "insert", "clear", "flush"} => held[s] = {}
    /\ j.pc = "lookup" /\ j.part # "fee" => held[s] = {}

(* Types, what a session may be doing and what it has locked.              *)
ShapeInv ==
    /\ TypeOK /\ IsFiniteSet(batches)
    /\ \A s \in Sessions : JobFits(job[s]) /\ HeldFits(s)
    /\ LocksExclude

(* The current balance a session sees is the committed one and what its    *)
(* own posting has moved so far: nobody else has changed it meanwhile.     *)
CurrentFits == \A s \in Sessions, a \in Accounts :
                  View(s, a).current = bal[a].current + Moved(job[s], a)

(* The books, with what the postings in progress will make of them.        *)
BooksInv == CurrentFits /\ CurrentMatchesEntries /\ OneBatchPerKey

-----------------------------------------------------------------------------
(* A request is stored together with its posting.                          *)
RequestKey(cmd, k) == <<cmd, NoId, k, cmd>>

(* The transaction of j has inserted the request k and not committed it.   *)
Carries(j, cmd, k) == j.pc \in {"lookup", "post"} /\ j.cmd = cmd /\ j.key = k

(* The row of j is committed.                                              *)
Stored(j, T) ==
    /\ T[j.key] # NoRequest
    /\ T[j.key].amount = j.amount /\ T[j.key].closed = j.closed

(* The requests T of the kind cmd, given the batches B, the jobs J and the *)
(* adjustments A.                                                          *)
RequestsFit(cmd, K, T, B, J, A) ==
    /\ \A k \in K : T[k] # NoRequest =>
          \E b \in B : b.subject = cmd /\ b.key = RequestKey(cmd, k) /\ b.amount = T[k].amount
    /\ \A b \in B : b.key[1] = cmd => b.key[3] \in K /\ T[b.key[3]] # NoRequest
    /\ \A s, t \in Sessions, k \in K : Carries(J[s], cmd, k) /\ Carries(J[t], cmd, k) => s = t
    /\ \A s \in Sessions, k \in K : Carries(J[s], cmd, k) => T[k] = NoRequest
    /\ \A s \in Sessions : J[s].cmd = cmd /\ J[s].pc = "record" => Stored(J[s], T)
    /\ \A k \in K : T[k].status = "POSTED" /\ T[k].closed => <<cmd, NoId, k>> \in A
    /\ \A k \in K : T[k].status = "none" => T[k] = NoRequest

Exists(d) == disputes[d] # NoDispute

(* The refund of an accepted dispute.                                      *)
RefundPosted(d) ==
    \E b \in batches : b.subject = d /\ b.part = "refund" /\ b.amount = disputes[d].amount

OpensOf(s, d) == job[s].cmd = "open" /\ job[s].id = d

(* j accepts a dispute and has posted its refund.                          *)
PastRefund(j) == j.cmd = "accept" /\ (j.pc \in {"clear", "flush", "record"} \/ j.part = "fee")

(* Disputes, the commands on them and their batches.                       *)
StatusFits ==
    \A d \in Disputes : /\ disputes[d].status = "none" <=> ~Exists(d)
                        /\ Exists(d) => disputes[d].amount \in Amounts

(* A dispute is opened by one command; its row has no hold until the       *)
(* command records it.                                                     *)
OpensFit ==
    /\ \A s, t \in Sessions, d \in Disputes : OpensOf(s, d) /\ OpensOf(t, d) => s = t
    /\ \A s \in Sessions, d \in Disputes : OpensOf(s, d) =>
          /\ job[s].pc # "record" \/ ~job[s].hold => ~Exists(d)
          /\ disputes[d].holdKey = NoId /\ ~disputes[d].hold
          /\ Exists(d) => disputes[d].amount = job[s].amount

(* The other commands work on a dispute that exists, with its amount.      *)
WorksFit ==
    \A s \in Sessions, d \in Disputes : job[s].id = d /\ job[s].cmd # "open" =>
        /\ Exists(d)
        /\ job[s].cmd \in {"accept", "reject"} => job[s].amount = disputes[d].amount

(* What the key of a batch says of its posting.                            *)
BatchFits(b) ==
    /\ b.part = b.key[4]
    /\ b.subject \in Disputes <=> b.key[1] \notin {"refund", "reversal"}
    /\ b.key[1] \in {"refund", "reversal"} => b.subject = b.key[1] /\ b.part = b.key[1]
    /\ b.key[1] = "open" => b.part = "hold" /\ b.key[3] \in OpenKeys
    /\ b.key[1] \in {"accept", "reject"} => b.subject = b.key[2] /\ Exists(b.subject)
    /\ b.key[1] = "reject" => b.part = "release"
    /\ b.key[1] = "accept" => b.part \in {"refund", "fee"}
    /\ b.key[1] = "accept" /\ b.part = "refund" => b.amount = disputes[b.subject].amount
    /\ b.key[1] \in {"refund", "reversal", "open", "accept", "reject"}

(* An accepted dispute has been paid.                                      *)
PostedFit ==
    /\ \A s \in Sessions : PastRefund(job[s]) => RefundPosted(job[s].id)
    /\ \A d \in Disputes : disputes[d].status = "ACCEPTED" => RefundPosted(d)

DisputesFit ==
    StatusFits /\ OpensFit /\ WorksFit /\ (\A b \in batches : BatchFits(b)) /\ PostedFit

-----------------------------------------------------------------------------
(* What is reported as done is in the ledger.                              *)
DoneInv ==
    /\ RequestsFit("refund", RefundKeys, refunds, batches, job, adjustments)
    /\ RequestsFit("reversal", ReversalKeys, reversals, batches, job, adjustments)
    /\ DisputesFit

-----------------------------------------------------------------------------
(* Two commands on one subject are a race.                                 *)
Alone ==
    \A s, t \in Sessions :
        /\ s # t /\ job[s] # Idle /\ job[t] # Idle
        /\ Subject(job[s]) = Subject(job[t])
        => Subject(job[s]) \in raced

(* The refunds in the ledger.                                              *)
Refunding(j) == j.cmd = "refund"
RefundTotal == AmountOf({b \in batches : b.subject = "refund"})

(* Unless refunds have raced or were lost: the ledger is ahead of          *)
(* refunded_amount only by the refund that is to be recorded, and a refund *)
(* in progress has checked its amount against what is still true.          *)
RefundsFit ==
    "refund" \notin raced \cup lost =>
        /\ RefundTotal <= Captured
        /\ \/ RefundTotal = refunded
           \/ \E s \in Sessions : Refunding(job[s]) /\ job[s].pc = "record"
        /\ \A s \in Sessions : Refunding(job[s]) =>
              IF job[s].pc = "record"
              THEN RefundTotal = job[s].seen + job[s].amount
              ELSE job[s].seen = refunded /\ WithinRemaining(job[s].amount)

(* What was paid for a dispute, and freed of its hold.                     *)
Paid(d) == {b \in batches : b.subject = d /\ b.part = "refund"}
Freed(d) == {b \in batches : b.subject = d /\ b.part = "release"}

(* j rejects a dispute, has released its hold and not recorded it.         *)
Freeing(j) == j.cmd = "reject" /\ j.hold /\ j.pc = "record"

(* The fee has been posted, and with it the acceptance stored.             *)
Accepted(j, d) == j.pc = "record" /\ j.part = "fee" /\ disputes[d].status = "ACCEPTED"

(* A decision on a dispute nobody else works on.                           *)
DecisionFits(d) ==
    /\ \A b, c \in Paid(d) : b = c
    /\ Paid(d) # {} => \/ disputes[d].status \in {"ACCEPTED", "CLOSED"}
                       \/ \E s \in Sessions : job[s].id = d /\ PastRefund(job[s])
    /\ Freed(d) # {} => \/ disputes[d].status \in {"REJECTED", "CLOSED"}
                        \/ \E s \in Sessions : job[s].id = d /\ Freeing(job[s])
    /\ \A s \in Sessions : job[s].id = d =>
          /\ job[s].cmd \in {"reject", "review"} => IsOpen(d)
          /\ job[s].cmd = "accept" => IsOpen(d) \/ Accepted(job[s], d)
          /\ job[s].cmd = "close" => disputes[d].status \in {"ACCEPTED", "REJECTED"}
          /\ job[s].cmd = "open" => disputes[d].status \in {"none", "OPEN"}

DecisionsFit == \A d \in Disputes \ (raced \cup lost) : DecisionFits(d)

(* What is paid, but for races and lost commands.                          *)
PaidInv == Alone /\ RefundsFit /\ DecisionsFit

-----------------------------------------------------------------------------
(* The available balance is exact, also in the eyes of every session.      *)
Agrees(b) == b.available = b.current - b.hold

AvailableFits ==
    smeared \/ \A a \in Accounts : Agrees(bal[a]) /\ \A s \in Sessions : Agrees(View(s, a))

(* j, which opens a dispute, has posted its hold, and not recorded it.     *)
PlacesHold(j) == j.cmd = "open" /\ j.hold /\ j.pc = "record"

(* Dispute d has the hold posted under the key k, or its opener has.       *)
Claims(d, k) ==
    \/ disputes[d].holdKey = k
    \/ \E s \in Sessions : job[s].id = d /\ PlacesHold(job[s]) /\ job[s].key = k

(* What the property excuses, and a key about to be recorded twice.        *)
Excused ==
    \/ wiped \/ raced # {} \/ lost # {}
    \/ \E c, d \in Disputes : c # d /\ \E k \in OpenKeys : Claims(c, k) /\ Claims(d, k)

(* What dispute d holds of the partner's balance, given the disputes D and *)
(* the jobs J.                                                             *)
HeldBy(D, J, d) ==
    IF /\ D[d].hold \/ \E s \in Sessions : J[s].id = d /\ PlacesHold(J[s])
       /\ ~\E s \in Sessions : J[s].id = d /\ Freeing(J[s])
    THEN D[d].amount ELSE 0

HoldTotal(D, J) == SumOf([d \in Disputes |-> HeldBy(D, J, d)], Disputes)

(* s has cleared the holds, and not committed it.                          *)
Clearing(s) == job[s].cmd = "accept" /\ job[s].hold /\ "payable" \in held[s]

(* An accept with a hold has the balance locked from its flush to the      *)
(* commit that stores its decision.                                        *)
ClearFits(s) ==
    LET j == job[s] IN
    j.cmd = "accept" /\ j.hold =>
        /\ j.part = "refund" /\ j.pc # "record" => "payable" \notin held[s]
        /\ j.part = "refund" /\ j.pc = "record" => "payable" \in held[s]
        /\ j.part = "fee" /\ j.pc # "record" => "payable" \in held[s]

(* What the transaction of s has made of the hold of the partner.          *)
Change(s) == HoldMoved(job[s], "payable") - IF Clearing(s) THEN job[s].amount ELSE 0

ViewFits(s) == View(s, "payable").hold = bal["payable"].hold + Change(s)

(* What j has read of the dispute r and of the hold m is still true; h is  *)
(* what the session of j has locked.                                       *)
KnowsHold(j, r, h, m) ==
    /\ j.pc = "flush" => m.hold # 0
    /\ PlacesHold(j) => r # NoDispute
    /\ j.cmd = "reject" => j.hold = r.hold
    /\ j.cmd = "accept" =>
          IF r.status \in {"OPEN", "UNDER_REVIEW"}
          THEN j.hold = r.hold /\ (j.hold /\ j.pc = "record" => "payable" \in h)
          ELSE ~r.hold /\ "payable" \notin h

(* What s has read is still true.                                          *)
Knows(s) == KnowsHold(job[s], disputes[job[s].id], held[s], mine[s]["payable"])

(* Every hold that was posted belongs to a dispute.                        *)
HoldsClaimed == \A b \in batches : b.key[1] = "open" => Claims(b.subject, b.key[3])

(* The holds are those of the disputes, at every step.                     *)
HoldsFit ==
    /\ bal["payable"].hold = HoldTotal(disputes, job)
    /\ HoldsClaimed
    /\ \A s \in Sessions : ViewFits(s) /\ Knows(s)

(* The holds, but for what is excused.                                     *)
HoldsInv == AvailableFits /\ (\A s \in Sessions : ClearFits(s)) /\ (Excused \/ HoldsFit)

-----------------------------------------------------------------------------
(* Jobs, field by field.                                                   *)
Pcs == {"idle", "insert", "lookup", "post", "clear", "flush", "record"}

(* All but where the command is.                                           *)
Same(i, j) ==
    /\ i.cmd = j.cmd /\ i.id = j.id /\ i.key = j.key /\ i.amount = j.amount
    /\ i.closed = j.closed /\ i.hold = j.hold /\ i.seen = j.seen

(* The fields of a session that does nothing.                              *)
LEMMA IdleFields ==
    /\ Idle \in Job
    /\ Idle.pc = "idle" /\ Idle.cmd = "none" /\ Idle.part = "none" /\ Idle.id = NoId
    /\ Idle.key = NoId /\ Idle.amount = 0 /\ Idle.closed = FALSE /\ Idle.hold = FALSE
    /\ Idle.seen = 0 /\ Idle.step = 1
BY DEF Idle, Job, Commands, Parts, Ids

(* A session that does nothing, and nobody else, is at idle.               *)
LEMMA IdleIsIdle ==
    ASSUME NEW j, JobFits(j)
    PROVE  j = Idle <=> j.pc = "idle"
BY IdleFields DEF JobFits

(* A session that does nothing fits.                                       *)
LEMMA IdleFits == JobFits(Idle)
BY IdleFields DEF JobFits

(* Fields of a job that goes on.                                           *)
LEMMA GotoFields ==
    ASSUME NEW j \in Job, NEW p \in Pcs
    PROVE  LET i == [j EXCEPT !.pc = p] IN
           i \in Job /\ Same(i, j) /\ i.pc = p /\ i.part = j.part /\ i.step = j.step
BY DEF Job, Same, Pcs

(* Fields of a job that has posted a line.                                 *)
LEMMA StepFields ==
    ASSUME NEW j \in Job, j.step <= 2
    PROVE  LET i == [j EXCEPT !.step = @ + 1] IN
           i \in Job /\ Same(i, j) /\ i.pc = j.pc /\ i.part = j.part /\ i.step = j.step + 1
BY DEF Job, Same

(* Where a command goes after its posting.                                 *)
NextPc(j) ==
    IF j.cmd # "accept" THEN "record"
    ELSE IF j.part = "refund" /\ j.hold THEN "clear"
    ELSE IF j.part = "refund" /\ Fee > 0 THEN "lookup" ELSE "record"

NextPart(j) ==
    IF j.cmd = "accept" /\ j.part = "refund" /\ ~j.hold /\ Fee > 0 THEN "fee" ELSE j.part

MovedTo(j, p) == [j EXCEPT !.pc = p, !.step = 1]
MovedOn(j, p, q) == [j EXCEPT !.pc = p, !.part = q, !.step = 1]

(* Fields of a job that goes on with its first line.                       *)
LEMMA MoveFields ==
    ASSUME NEW j \in Job, NEW p \in Pcs, NEW i, i = MovedTo(j, p)
    PROVE  i \in Job /\ Same(i, j) /\ i.step = 1 /\ i.pc = p /\ i.part = j.part
<1>1. 1 \in 1..3
  OBVIOUS
<1>2. PICK n \in 1..3 : n = 1
  BY <1>1
<1>3. i = [j EXCEPT !.pc = p, !.step = n]
  BY <1>2 DEF MovedTo
<1>4. i.step = n /\ i.pc = p /\ i.part = j.part
  BY <1>3 DEF Job
<1>5. Same(i, j)
  BY <1>3 DEF Job, Same
<1>6. i \in Job
  BY <1>3 DEF Job, Pcs
<1>7. QED
  BY <1>2, <1>4, <1>5, <1>6

(* Fields of an accept that goes on with its fee.                          *)
LEMMA PartFields ==
    ASSUME NEW j \in Job, NEW p \in Pcs, NEW q \in Parts,
           NEW i, i = MovedOn(j, p, q)
    PROVE  i \in Job /\ Same(i, j) /\ i.step = 1 /\ i.pc = p /\ i.part = q
<1>1. 1 \in 1..3
  OBVIOUS
<1>2. PICK n \in 1..3 : n = 1
  BY <1>1
<1>3. i = [j EXCEPT !.pc = p, !.part = q, !.step = n]
  BY <1>2 DEF MovedOn
<1>4. i.step = n /\ i.pc = p /\ i.part = q
  BY <1>3 DEF Job
<1>5. Same(i, j)
  BY <1>3 DEF Job, Same
<1>6. i \in Job
  BY <1>3 DEF Job, Pcs
<1>7. QED
  BY <1>2, <1>4, <1>5, <1>6

(* AfterPosting, field by field.                                           *)
LEMMA AfterFields ==
    ASSUME NEW j \in Job
    PROVE  /\ AfterPosting(j) \in Job /\ Same(AfterPosting(j), j) /\ AfterPosting(j).step = 1
           /\ AfterPosting(j).pc = NextPc(j) /\ AfterPosting(j).part = NextPart(j)
<1> PICK i : i = AfterPosting(j)
  OBVIOUS
<1> SUFFICES i \in Job /\ Same(i, j) /\ i.step = 1 /\ i.pc = NextPc(j) /\ i.part = NextPart(j)
  OBVIOUS
<1>1. {"record", "clear", "lookup"} \subseteq Pcs /\ "fee" \in Parts
  BY DEF Pcs, Parts
<1>2. CASE j.cmd # "accept"
  <2>1. i = MovedTo(j, "record")
    BY <1>2 DEF AfterPosting, MovedTo
  <2>2. NextPc(j) = "record" /\ NextPart(j) = j.part
    BY <1>2 DEF NextPc, NextPart
  <2>3. i \in Job /\ Same(i, j) /\ i.step = 1 /\ i.pc = "record" /\ i.part = j.part
    BY <1>1, <2>1, MoveFields
  <2>4. QED
    BY <2>2, <2>3
<1>3. CASE j.cmd = "accept" /\ j.part = "refund" /\ j.hold
  <2>1. i = MovedTo(j, "clear")
    BY <1>3 DEF AfterPosting, MovedTo
  <2>2. NextPc(j) = "clear" /\ NextPart(j) = j.part
    BY <1>3 DEF NextPc, NextPart
  <2>3. i \in Job /\ Same(i, j) /\ i.step = 1 /\ i.pc = "clear" /\ i.part = j.part
    BY <1>1, <2>1, MoveFields
  <2>4. QED
    BY <2>2, <2>3
<1>4. CASE j.cmd = "accept" /\ j.part = "refund" /\ ~j.hold /\ Fee > 0
  <2>1. i = MovedOn(j, "lookup", "fee")
    BY <1>4 DEF AfterPosting, MovedOn
  <2>2. NextPc(j) = "lookup" /\ NextPart(j) = "fee"
    BY <1>4 DEF NextPc, NextPart
  <2>3. i \in Job /\ Same(i, j) /\ i.step = 1 /\ i.pc = "lookup" /\ i.part = "fee"
    BY <1>1, <2>1, PartFields
  <2>4. QED
    BY <2>2, <2>3
<1>5. CASE j.cmd = "accept" /\ ~(j.part = "refund" /\ (j.hold \/ Fee > 0))
  <2>1. i = MovedTo(j, "record")
    BY <1>5 DEF AfterPosting, MovedTo
  <2>2. NextPc(j) = "record" /\ NextPart(j) = j.part
    BY <1>5 DEF NextPc, NextPart
  <2>3. i \in Job /\ Same(i, j) /\ i.step = 1 /\ i.pc = "record" /\ i.part = j.part
    BY <1>1, <2>1, MoveFields
  <2>4. QED
    BY <2>2, <2>3
<1>6. QED
  BY <1>2, <1>3, <1>4, <1>5

-----------------------------------------------------------------------------
(* How a command begins.                                                   *)
Fields(j, pc, cmd, part, id, key, amount, closed, hold, seen) ==
    /\ j.pc = pc /\ j.cmd = cmd /\ j.part = part /\ j.id = id /\ j.key = key
    /\ j.amount = amount /\ j.closed = closed /\ j.hold = hold /\ j.seen = seen /\ j.step = 1

(* The jobs of the commands, field by field.                               *)
JobOf(pc, cmd, part, id, key, amount, closed, hold, seen, step) ==
    [pc |-> pc, cmd |-> cmd, part |-> part, id |-> id, key |-> key,
     amount |-> amount, closed |-> closed, hold |-> hold, seen |-> seen, step |-> step]

(* Fields of a job that has just begun.                                    *)
LEMMA JobOfFields ==
    ASSUME NEW p \in Pcs, NEW m \in Commands, NEW q \in Parts, NEW i \in Ids, NEW k \in Ids,
           NEW n \in Nat, NEW c \in BOOLEAN, NEW h \in BOOLEAN, NEW r \in Nat, NEW o \in 1..3,
           o = 1, NEW j, j = JobOf(p, m, q, i, k, n, c, h, r, o)
    PROVE  j \in Job /\ Fields(j, p, m, q, i, k, n, c, h, r)
<1>1. j \in Job
  BY DEF JobOf, Job, Pcs
<1>2. QED
  BY <1>1 DEF JobOf, Fields

(* The jobs of the commands.                                               *)
NewRefund(k, n, c, r) ==
    [Idle EXCEPT !.pc = "insert", !.cmd = "refund", !.part = "refund", 
                                   !.key = k, !.amount = n, !.closed = c, !.seen = r]
NewReversal(k, n, c) ==
    [Idle EXCEPT !.pc = "insert", !.cmd = "reversal", !.part = "reversal", 
                                   !.key = k, !.amount = n, !.closed = c]
NewHold(p, m, q, d, k, n, h) ==
    [Idle EXCEPT !.pc = p, !.cmd = m, !.part = q, !.id = d, 
                                   !.key = k, !.amount = n, !.hold = h]
NewAccept(d, k, n, c, h) ==
    [Idle EXCEPT !.pc = "lookup", !.cmd = "accept", !.part = "refund", !.id = d, 
                                   !.key = k, !.amount = n, !.closed = c, !.hold = h]
NewStatus(m, d) ==
    [Idle EXCEPT !.pc = "record", !.cmd = m, !.id = d]

(* The job of RequestRefund.                                               *)
LEMMA RefundJob ==
    ASSUME NEW k \in Ids, NEW n \in Nat, NEW c \in BOOLEAN, NEW r \in Nat, NEW j,
           j = NewRefund(k, n, c, r)
    PROVE  j \in Job /\ Fields(j, "insert", "refund", "refund", NoId, k, n, c, FALSE, r)
<1>0. PICK z \in Nat, o \in 1..3 : z = 0 /\ o = 1
  OBVIOUS
<1>1. PICK f \in BOOLEAN : f = FALSE
  BY Zenon
<1>2. "insert" \in Pcs /\ "refund" \in Commands /\ "refund" \in Parts /\ NoId \in Ids
  BY DEF Pcs, Commands, Parts, Ids
<1>3. j = JobOf("insert", "refund", "refund", NoId, k, n, c, f, r, o)
  BY <1>0, <1>1 DEF NewRefund, Idle, JobOf
<1>4. j \in Job /\ Fields(j, "insert", "refund", "refund", NoId, k, n, c, f, r)
  BY <1>0, <1>1, <1>2, <1>3, JobOfFields
<1>5. QED
  BY <1>0, <1>1, <1>4

(* The job of ReverseCapture.                                              *)
LEMMA ReversalJob ==
    ASSUME NEW k \in Ids, NEW n \in Nat, NEW c \in BOOLEAN, NEW j,
           j = NewReversal(k, n, c)
    PROVE  j \in Job /\ Fields(j, "insert", "reversal", "reversal", NoId, k, n, c, FALSE, 0)
<1>0. PICK z \in Nat, o \in 1..3 : z = 0 /\ o = 1
  OBVIOUS
<1>1. PICK f \in BOOLEAN : f = FALSE
  BY Zenon
<1>2. "insert" \in Pcs /\ "reversal" \in Commands /\ "reversal" \in Parts /\ NoId \in Ids
  BY DEF Pcs, Commands, Parts, Ids
<1>3. j = JobOf("insert", "reversal", "reversal", NoId, k, n, c, f, z, o)
  BY <1>0, <1>1 DEF NewReversal, Idle, JobOf
<1>4. j \in Job /\ Fields(j, "insert", "reversal", "reversal", NoId, k, n, c, f, z)
  BY <1>0, <1>1, <1>2, <1>3, JobOfFields
<1>5. QED
  BY <1>0, <1>1, <1>4

(* The job of OpenDispute.                                                 *)
LEMMA OpenJob ==
    ASSUME NEW p \in Pcs, NEW d \in Ids, NEW k \in Ids, NEW n \in Nat, NEW h \in BOOLEAN,
           NEW j, j = NewHold(p, "open", "hold", d, k, n, h)
    PROVE  j \in Job /\ Fields(j, p, "open", "hold", d, k, n, FALSE, h, 0)
<1>0. PICK z \in Nat, o \in 1..3 : z = 0 /\ o = 1
  OBVIOUS
<1>1. PICK f \in BOOLEAN : f = FALSE
  BY Zenon
<1>2. "open" \in Commands /\ "hold" \in Parts
  BY DEF Commands, Parts
<1>3. j = JobOf(p, "open", "hold", d, k, n, f, h, z, o)
  BY <1>0, <1>1 DEF NewHold, Idle, JobOf
<1>4. j \in Job /\ Fields(j, p, "open", "hold", d, k, n, f, h, z)
  BY <1>0, <1>1, <1>2, <1>3, JobOfFields
<1>5. QED
  BY <1>0, <1>1, <1>4

(* The job of Reject.                                                      *)
LEMMA RejectJob ==
    ASSUME NEW p \in Pcs, NEW d \in Ids, NEW k \in Ids, NEW n \in Nat, NEW h \in BOOLEAN,
           NEW j, j = NewHold(p, "reject", "release", d, k, n, h)
    PROVE  j \in Job /\ Fields(j, p, "reject", "release", d, k, n, FALSE, h, 0)
<1>0. PICK z \in Nat, o \in 1..3 : z = 0 /\ o = 1
  OBVIOUS
<1>1. PICK f \in BOOLEAN : f = FALSE
  BY Zenon
<1>2. "reject" \in Commands /\ "release" \in Parts
  BY DEF Commands, Parts
<1>3. j = JobOf(p, "reject", "release", d, k, n, f, h, z, o)
  BY <1>0, <1>1 DEF NewHold, Idle, JobOf
<1>4. j \in Job /\ Fields(j, p, "reject", "release", d, k, n, f, h, z)
  BY <1>0, <1>1, <1>2, <1>3, JobOfFields
<1>5. QED
  BY <1>0, <1>1, <1>4

(* The job of Accept.                                                      *)
LEMMA AcceptJob ==
    ASSUME NEW d \in Ids, NEW k \in Ids, NEW n \in Nat, NEW c \in BOOLEAN, NEW h \in BOOLEAN, NEW j,
           j = NewAccept(d, k, n, c, h)
    PROVE  j \in Job /\ Fields(j, "lookup", "accept", "refund", d, k, n, c, h, 0)
<1>0. PICK z \in Nat, o \in 1..3 : z = 0 /\ o = 1
  OBVIOUS
<1>1. PICK f \in BOOLEAN : f = FALSE
  BY Zenon
<1>2. "lookup" \in Pcs /\ "accept" \in Commands /\ "refund" \in Parts
  BY DEF Pcs, Commands, Parts, Ids
<1>3. j = JobOf("lookup", "accept", "refund", d, k, n, c, h, z, o)
  BY <1>0, <1>1 DEF NewAccept, Idle, JobOf
<1>4. j \in Job /\ Fields(j, "lookup", "accept", "refund", d, k, n, c, h, z)
  BY <1>0, <1>1, <1>2, <1>3, JobOfFields
<1>5. QED
  BY <1>0, <1>1, <1>4

(* The job of MoveToReview and Close.                                      *)
LEMMA StatusJob ==
    ASSUME NEW m \in Commands, NEW d \in Ids, NEW j,
           j = NewStatus(m, d)
    PROVE  j \in Job /\ Fields(j, "record", m, "none", d, NoId, 0, FALSE, FALSE, 0)
<1>0. PICK z \in Nat, o \in 1..3 : z = 0 /\ o = 1
  OBVIOUS
<1>1. PICK f \in BOOLEAN : f = FALSE
  BY Zenon
<1>2. "record" \in Pcs /\ "none" \in Parts /\ NoId \in Ids
  BY DEF Pcs, Commands, Parts, Ids
<1>3. j = JobOf("record", m, "none", d, NoId, z, f, f, z, o)
  BY <1>0, <1>1 DEF NewStatus, Idle, JobOf
<1>4. j \in Job /\ Fields(j, "record", m, "none", d, NoId, z, f, f, z)
  BY <1>0, <1>1, <1>2, <1>3, JobOfFields
<1>5. QED
  BY <1>0, <1>1, <1>4

(* What a command finds when it begins.                                    *)
FindsRefund(j) ==
    /\ j.cmd = "refund" /\ j.pc = "insert"
    /\ refunds[j.key] = NoRequest /\ WithinRemaining(j.amount) /\ j.seen = refunded

FindsReversal(j) == j.cmd = "reversal" /\ j.pc = "insert"

FindsNoDispute(j) ==
    /\ j.cmd = "open" /\ j.pc = IF j.hold THEN "lookup" ELSE "record"
    /\ disputes[j.id] = NoDispute /\ \A t \in Sessions : job[t].id # j.id

FindsOpen(j) ==
    /\ \/ j.cmd = "accept" /\ j.part = "refund" /\ j.pc = "lookup"
       \/ j.cmd = "reject" /\ j.pc = IF j.hold THEN "lookup" ELSE "record"
    /\ IsOpen(j.id) /\ j.amount = disputes[j.id].amount /\ j.hold = disputes[j.id].hold

FindsStatus(j) ==
    \/ j.cmd = "review" /\ disputes[j.id].status = "OPEN"
    \/ j.cmd = "close" /\ disputes[j.id].status \in {"ACCEPTED", "REJECTED"}

Begun(j) ==
    /\ JobFits(j) /\ j.step = 1 /\ j.pc \in {"insert", "lookup", "record"} /\ j.part # "fee"
    /\ j.pc = "record" => j.cmd \in {"open", "reject", "review", "close"} /\ ~j.hold
    /\ \/ FindsRefund(j) \/ FindsReversal(j) \/ FindsNoDispute(j)
       \/ FindsOpen(j) \/ FindsStatus(j)

(* A command that starts is a replay, which changes nothing, or begins a   *)
(* job that fits the rows it has read.                                     *)
LEMMA StartBegins ==
    ASSUME TypeOK, NEW s \in Sessions, Start(s)
    PROVE  UNCHANGED vars \/ \E j : Begin(s, j) /\ Begun(j)
<1> USE AmountsArePositive DEF AmountsArePositive
<1>1. CASE Replay(s)
  BY <1>1 DEF Replay
<1>2. ASSUME NEW k \in RefundKeys, NEW n \in Amounts, NEW c \in Closed, RequestRefund(s, k, n, c)
      PROVE  \E j : Begin(s, j) /\ Begun(j)
  <2>1. PICK j : j = NewRefund(k, n, c, refunded)
    OBVIOUS
  <2>2. k \in Ids /\ n \in Nat /\ c \in BOOLEAN /\ refunded \in Nat
    BY DEF Ids, TypeOK
  <2>3. j \in Job /\ Fields(j, "insert", "refund", "refund", NoId, k, n, c, FALSE, refunded)
    BY <2>1, <2>2, RefundJob
  <2>4. Begun(j)
    BY <1>2, <2>3 DEF Begun, JobFits, Fields, FindsRefund, RequestRefund
  <2>5. Begin(s, j)
    BY <1>2, <2>1 DEF RequestRefund, NewRefund
  <2>6. QED
    BY <2>4, <2>5
<1>3. ASSUME NEW k \in ReversalKeys, NEW c \in Closed, ReverseCapture(s, k, c)
      PROVE  \E j : Begin(s, j) /\ Begun(j)
  <2>1. PICK j : j = NewReversal(k, Captured, c)
    OBVIOUS
  <2>2. k \in Ids /\ Captured \in Nat /\ c \in BOOLEAN
    BY DEF Ids
  <2>3. j \in Job /\ Fields(j, "insert", "reversal", "reversal", NoId, k, Captured, c, FALSE, 0)
    BY <2>1, <2>2, ReversalJob
  <2>4. Begun(j)
    BY <2>3 DEF Begun, JobFits, Fields, FindsReversal
  <2>5. Begin(s, j)
    BY <1>3, <2>1 DEF ReverseCapture, NewReversal
  <2>6. QED
    BY <2>4, <2>5
<1>4. ASSUME NEW d \in Disputes, NEW k \in OpenKeys, NEW n \in Amounts, NEW h \in BOOLEAN,
             OpenDispute(s, d, k, n, h)
      PROVE  \E j : Begin(s, j) /\ Begun(j)
  <2>2. PICK p \in Pcs : p = IF h THEN "lookup" ELSE "record"
    BY DEF Pcs
  <2>3. d \in Ids /\ k \in Ids /\ n \in Nat /\ "open" \in Commands /\ "hold" \in Parts
    BY DEF Ids, Commands, Parts
  <2>4. PICK j : j = NewHold(p, "open", "hold", d, k, n, h)
    OBVIOUS
  <2>5. j \in Job /\ Fields(j, p, "open", "hold", d, k, n, FALSE, h, 0)
    BY <2>3, <2>4, OpenJob
  <2>6. JobFits(j)
    <3>1. CASE h
      BY <2>2, <2>5, <3>1 DEF JobFits, Fields
    <3>2. CASE ~h
      BY <2>2, <2>5, <3>2 DEF JobFits, Fields
    <3>3. QED
      BY <3>1, <3>2
  <2>7. Begun(j)
    BY <1>4, <2>2, <2>5, <2>6 DEF Begun, Fields, FindsNoDispute, OpenDispute
  <2>8. Begin(s, j)
    BY <1>4, <2>2, <2>4 DEF OpenDispute, NewHold
  <2>9. QED
    BY <2>7, <2>8
<1>5. ASSUME NEW d \in Disputes, NEW k \in DecisionKeys, NEW c \in Closed, Accept(s, d, k, c)
      PROVE  \E j : Begin(s, j) /\ Begun(j)
  <2>1. PICK n \in Nat, h \in BOOLEAN : n = disputes[d].amount /\ h = disputes[d].hold
    BY DEF TypeOK, Dispute
  <2>2. PICK j : j = NewAccept(d, k, n, c, h)
    OBVIOUS
  <2>3. d \in Ids /\ k \in Ids /\ c \in BOOLEAN
    BY DEF Ids
  <2>4. j \in Job /\ Fields(j, "lookup", "accept", "refund", d, k, n, c, h, 0)
    BY <2>2, <2>3, AcceptJob
  <2>5. Begun(j)
    BY <1>5, <2>1, <2>4 DEF Begun, JobFits, Fields, FindsOpen, Accept
  <2>6. Begin(s, j)
    BY <1>5, <2>1, <2>2 DEF Accept, NewAccept
  <2>7. QED
    BY <2>5, <2>6
<1>6. ASSUME NEW d \in Disputes, NEW k \in DecisionKeys, Reject(s, d, k)
      PROVE  \E j : Begin(s, j) /\ Begun(j)
  <2>1. PICK n \in Nat, h \in BOOLEAN : n = disputes[d].amount /\ h = disputes[d].hold
    BY DEF TypeOK, Dispute
  <2>2. PICK p \in Pcs : p = IF h THEN "lookup" ELSE "record"
    BY DEF Pcs
  <2>3. d \in Ids /\ k \in Ids /\ "reject" \in Commands /\ "release" \in Parts
    BY DEF Ids, Commands, Parts
  <2>4. PICK j : j = NewHold(p, "reject", "release", d, k, n, h)
    OBVIOUS
  <2>5. j \in Job /\ Fields(j, p, "reject", "release", d, k, n, FALSE, h, 0)
    BY <2>3, <2>4, RejectJob
  <2>6. JobFits(j)
    <3>1. CASE h
      BY <2>2, <2>5, <3>1 DEF JobFits, Fields
    <3>2. CASE ~h
      BY <2>2, <2>5, <3>2 DEF JobFits, Fields
    <3>3. QED
      BY <3>1, <3>2
  <2>7. Begun(j)
    BY <1>6, <2>1, <2>2, <2>5, <2>6 DEF Begun, Fields, FindsOpen, Reject
  <2>8. Begin(s, j)
    BY <1>6, <2>1, <2>2, <2>4 DEF Reject, NewHold
  <2>9. QED
    BY <2>7, <2>8
<1>7. ASSUME NEW d \in Disputes, MoveToReview(s, d) \/ Close(s, d)
      PROVE  \E j : Begin(s, j) /\ Begun(j)
  <2>1. PICK m \in {"review", "close"} :
           /\ Begin(s, NewStatus(m, d))
           /\ m = "review" => disputes[d].status = "OPEN"
           /\ m = "close" => disputes[d].status \in {"ACCEPTED", "REJECTED"}
    BY <1>7 DEF MoveToReview, Close, NewStatus
  <2>2. PICK j : j = NewStatus(m, d)
    OBVIOUS
  <2>3. m \in Commands /\ d \in Ids
    BY DEF Commands, Ids
  <2>4. j \in Job /\ Fields(j, "record", m, "none", d, NoId, 0, FALSE, FALSE, 0)
    BY <2>2, <2>3, StatusJob
  <2>5. Begun(j)
    BY <2>1, <2>4 DEF Begun, JobFits, Fields, FindsStatus
  <2>6. QED
    BY <2>1, <2>2, <2>5
<1>8. QED
  BY <1>1, <1>2, <1>3, <1>4, <1>5, <1>6, <1>7 DEF Start

-----------------------------------------------------------------------------
(* What the steps of s do to the jobs.                                     *)
OnlyJob(s) ==
    /\ job' \in [Sessions -> Job]
    /\ \A t \in Sessions \ {s} : job'[t] = job[t]

MovesTo(s, pc, part, step) ==
    /\ OnlyJob(s) /\ Same(job'[s], job[s])
    /\ job'[s].pc = pc /\ job'[s].part = part /\ job'[s].step = step

Ends(s) == OnlyJob(s) /\ job'[s] = Idle

(* A step that sets the job of one session.                                *)
LEMMA JobIsSet ==
    ASSUME TypeOK, NEW s \in Sessions, NEW j \in Job, job' = [job EXCEPT ![s] = j]
    PROVE  OnlyJob(s) /\ job'[s] = j
BY DEF TypeOK, OnlyJob

(* A session that begins was idle.                                         *)
LEMMA BeginJob ==
    ASSUME TypeOK, NEW s \in Sessions, NEW j \in Job, Begin(s, j)
    PROVE  OnlyJob(s) /\ job'[s] = j /\ job[s] = Idle
BY JobIsSet DEF Begin

(* InsertRequest fails on a known key, and goes on to the posting          *)
(* otherwise.                                                              *)
LEMMA InsertJob ==
    ASSUME TypeOK, NEW s \in Sessions, InsertRequest(s)
    PROVE  /\ job[s].pc = "insert"
           /\ \/ IsKnown(job[s]) /\ Ends(s)
              \/ ~IsKnown(job[s]) /\ MovesTo(s, "lookup", job[s].part, job[s].step)
<1>1. PICK j \in Job : j = job[s]
  BY DEF TypeOK
<1>2. CASE IsKnown(job[s])
  BY <1>2, JobIsSet, IdleFields DEF InsertRequest, Ends
<1>3. CASE ~IsKnown(job[s])
  <2>1. PICK i : i = [j EXCEPT !.pc = "lookup"]
    OBVIOUS
  <2>2. i \in Job /\ Same(i, j) /\ i.pc = "lookup" /\ i.part = j.part /\ i.step = j.step
    BY <2>1, GotoFields DEF Pcs
  <2>3. job' = [job EXCEPT ![s] = i]
    BY <1>1, <1>3, <2>1 DEF InsertRequest, Goto
  <2>4. OnlyJob(s) /\ job'[s] = i
    BY <2>2, <2>3, JobIsSet
  <2>5. QED
    BY <1>1, <1>3, <2>2, <2>4 DEF MovesTo, InsertRequest
<1>4. QED
  BY <1>2, <1>3

(* LookupBatch skips the posting or starts it.                             *)
LEMMA LookupJob ==
    ASSUME TypeOK, NEW s \in Sessions, LookupBatch(s)
    PROVE  /\ job[s].pc = "lookup"
           /\ \/ Posted(BatchKey(job[s])) /\ MovesTo(s, NextPc(job[s]), NextPart(job[s]), 1)
              \/ ~Posted(BatchKey(job[s])) /\ MovesTo(s, "post", job[s].part, job[s].step)
<1>1. PICK j \in Job : j = job[s]
  BY DEF TypeOK
<1>2. CASE Posted(BatchKey(j))
  <2>1. PICK i : i = AfterPosting(j)
    OBVIOUS
  <2>2. i \in Job /\ Same(i, j) /\ i.pc = NextPc(j) /\ i.part = NextPart(j) /\ i.step = 1
    BY <2>1, AfterFields
  <2>3. job' = [job EXCEPT ![s] = i]
    BY <1>1, <1>2, <2>1 DEF LookupBatch, TypeOK
  <2>4. OnlyJob(s) /\ job'[s] = i
    BY <2>2, <2>3, JobIsSet
  <2>5. QED
    BY <1>1, <1>2, <2>2, <2>4 DEF MovesTo, LookupBatch
<1>3. CASE ~Posted(BatchKey(j))
  <2>1. PICK i : i = [j EXCEPT !.pc = "post"]
    OBVIOUS
  <2>2. i \in Job /\ Same(i, j) /\ i.pc = "post" /\ i.part = j.part /\ i.step = j.step
    BY <2>1, GotoFields DEF Pcs
  <2>3. job' = [job EXCEPT ![s] = i]
    BY <1>1, <1>3, <2>1 DEF LookupBatch, TypeOK
  <2>4. OnlyJob(s) /\ job'[s] = i
    BY <2>2, <2>3, JobIsSet
  <2>5. QED
    BY <1>1, <1>3, <2>2, <2>4 DEF MovesTo, LookupBatch
<1>4. QED
  BY <1>1, <1>2, <1>3

(* PostLine counts the line.                                               *)
LEMMA PostLineJob ==
    ASSUME TypeOK, NEW s \in Sessions, PostLine(s)
    PROVE  /\ job[s].pc = "post" /\ job[s].step <= 2
           /\ MovesTo(s, "post", job[s].part, job[s].step + 1)
<1>1. PICK j \in Job : j = job[s]
  BY DEF TypeOK
<1>2. j.pc = "post" /\ j.step <= 2
  BY <1>1 DEF PostLine
<1>3. PICK i : i = [j EXCEPT !.step = @ + 1]
  OBVIOUS
<1>4. i \in Job /\ Same(i, j) /\ i.pc = j.pc /\ i.part = j.part /\ i.step = j.step + 1
  BY <1>2, <1>3, StepFields
<1>5. job' = [job EXCEPT ![s] = i]
  BY <1>1, <1>3 DEF PostLine
<1>6. OnlyJob(s) /\ job'[s] = i
  BY <1>4, <1>5, JobIsSet
<1>7. QED
  BY <1>1, <1>2, <1>4, <1>6 DEF MovesTo

(* CommitPosting goes on after the posting.                                *)
LEMMA CommitJob ==
    ASSUME TypeOK, NEW s \in Sessions, CommitPosting(s)
    PROVE  /\ job[s].pc = "post" /\ job[s].step = 3
           /\ MovesTo(s, NextPc(job[s]), NextPart(job[s]), 1)
<1>1. PICK j \in Job : j = job[s]
  BY DEF TypeOK
<1>2. PICK i : i = AfterPosting(j)
  OBVIOUS
<1>3. i \in Job /\ Same(i, j) /\ i.pc = NextPc(j) /\ i.part = NextPart(j) /\ i.step = 1
  BY <1>2, AfterFields
<1>4. job' = [job EXCEPT ![s] = i]
  BY <1>1, <1>2 DEF CommitPosting
<1>5. OnlyJob(s) /\ job'[s] = i
  BY <1>3, <1>4, JobIsSet
<1>6. QED
  BY <1>1, <1>3, <1>5 DEF MovesTo, CommitPosting

(* ReadHolds goes on to the flush.                                         *)
LEMMA ReadJob ==
    ASSUME TypeOK, NEW s \in Sessions, ReadHolds(s)
    PROVE  job[s].pc = "clear" /\ MovesTo(s, "flush", job[s].part, job[s].step)
<1>1. PICK j \in Job : j = job[s]
  BY DEF TypeOK
<1>2. PICK i : i = [j EXCEPT !.pc = "flush"]
  OBVIOUS
<1>3. i \in Job /\ Same(i, j) /\ i.pc = "flush" /\ i.part = j.part /\ i.step = j.step
  BY <1>2, GotoFields DEF Pcs
<1>4. job' = [job EXCEPT ![s] = i]
  BY <1>1, <1>2 DEF ReadHolds, Goto
<1>5. OnlyJob(s) /\ job'[s] = i
  BY <1>3, <1>4, JobIsSet
<1>6. QED
  BY <1>1, <1>3, <1>5 DEF MovesTo, ReadHolds

(* FlushHolds goes on to the fee, or to the record.                        *)
LEMMA FlushJob ==
    ASSUME TypeOK, NEW s \in Sessions, FlushHolds(s)
    PROVE  /\ job[s].pc = "flush"
           /\ MovesTo(s, IF Fee > 0 THEN "lookup" ELSE "record",
                         IF Fee > 0 THEN "fee" ELSE job[s].part, job[s].step)
<1>1. PICK j \in Job : j = job[s]
  BY DEF TypeOK
<1>2. PICK p, q : p = (IF Fee > 0 THEN "lookup" ELSE "record")
                  /\ q = (IF Fee > 0 THEN "fee" ELSE j.part)
  OBVIOUS
<1>3. PICK i : i = [j EXCEPT !.pc = IF Fee > 0 THEN "lookup" ELSE "record",
                             !.part = IF Fee > 0 THEN "fee" ELSE @]
  OBVIOUS
<1>4. i \in Job /\ Same(i, j) /\ i.pc = p /\ i.part = q /\ i.step = j.step
  <2>1. i = [j EXCEPT !.pc = p, !.part = q]
    BY <1>2, <1>3
  <2>2. p \in Pcs /\ q \in Parts
    BY <1>2 DEF Pcs, Parts, Job
  <2>3. QED
    BY <2>1, <2>2 DEF Job, Same, Pcs
<1>5. job' = [job EXCEPT ![s] = i]
  BY <1>1, <1>3 DEF FlushHolds, TypeOK
<1>6. OnlyJob(s) /\ job'[s] = i
  BY <1>4, <1>5, JobIsSet
<1>7. MovesTo(s, p, q, j.step)
  BY <1>1, <1>4, <1>6 DEF MovesTo
<1>8. QED
  BY <1>1, <1>2, <1>7 DEF FlushHolds

(* Record ends the command.                                                *)
LEMMA RecordJob ==
    ASSUME TypeOK, NEW s \in Sessions, Record(s)
    PROVE  job[s].pc = "record" /\ Ends(s)
BY JobIsSet, IdleFields DEF Record, Ends

(* So does an abort.                                                       *)
LEMMA AbortJob ==
    ASSUME TypeOK, NEW s \in Sessions, Abort(s)
    PROVE  job[s] # Idle /\ Ends(s)
BY JobIsSet, IdleFields DEF Abort, Ends

-----------------------------------------------------------------------------
(* Types and shapes.                                                       *)
LEMMA OneOf ==
    ASSUME NEW s \in Sessions, OnlyJob(s), \A t \in Sessions : JobFits(job[t]), JobFits(job'[s])
    PROVE  \A t \in Sessions : JobFits(job'[t])
BY DEF OnlyJob

(* A job that goes on after its posting.                                   *)
LEMMA AfterFits ==
    ASSUME NEW i \in Job, NEW j \in Job, JobFits(i), i.pc \in {"lookup", "post"},
           Same(j, i), j.pc = NextPc(i), j.part = NextPart(i), j.step = 1
    PROVE  JobFits(j)
<1> USE AmountsArePositive DEF AmountsArePositive
<1>1. i.cmd # "none" /\ j.cmd = i.cmd
  BY DEF JobFits, Same
<1>2. CASE i.cmd # "accept"
  BY <1>1, <1>2 DEF JobFits, Same, NextPc, NextPart
<1>3. CASE i.cmd = "accept"
  BY <1>1, <1>3 DEF JobFits, Same, NextPc, NextPart
<1>4. QED
  BY <1>2, <1>3

(* No step brings a session to a place its command does not have.          *)
LEMMA JobsFit ==
    ASSUME ShapeInv, NEW s \in Sessions, Continue(s) \/ Abort(s)
    PROVE  \A t \in Sessions : JobFits(job'[t])
<1> USE AmountsArePositive DEF AmountsArePositive
<1>1. TypeOK /\ \A t \in Sessions : JobFits(job[t])
  BY DEF ShapeInv
<1>2. PICK i \in Job : i = job[s] /\ JobFits(i)
  BY <1>1 DEF TypeOK
<1>3. ASSUME OnlyJob(s) PROVE \E j \in Job : j = job'[s]
  BY <1>3 DEF OnlyJob
<1>4. ASSUME Ends(s) PROVE \A t \in Sessions : JobFits(job'[t])
  BY <1>1, <1>4, IdleFits, OneOf DEF Ends
<1>5. CASE InsertRequest(s)
  <2>1. CASE MovesTo(s, "lookup", i.part, i.step)
    <3>1. PICK j \in Job : j = job'[s]
      BY <1>3, <2>1 DEF MovesTo
    <3>2. JobFits(j)
      BY <1>1, <1>2, <1>5, <2>1, <3>1, InsertJob DEF MovesTo, Same, JobFits
    <3>3. QED
      BY <1>1, <2>1, <3>1, <3>2, OneOf DEF MovesTo
  <2>2. QED
    BY <1>1, <1>2, <1>4, <1>5, <2>1, InsertJob
<1>6. CASE LookupBatch(s)
  <2>1. CASE MovesTo(s, NextPc(i), NextPart(i), 1)
    <3>1. PICK j \in Job : j = job'[s]
      BY <1>3, <2>1 DEF MovesTo
    <3>2. JobFits(j)
      BY <1>1, <1>2, <1>6, <2>1, <3>1, LookupJob, AfterFits DEF MovesTo
    <3>3. QED
      BY <1>1, <2>1, <3>1, <3>2, OneOf DEF MovesTo
  <2>2. CASE MovesTo(s, "post", i.part, i.step)
    <3>1. PICK j \in Job : j = job'[s]
      BY <1>3, <2>2 DEF MovesTo
    <3>2. JobFits(j)
      BY <1>1, <1>2, <1>6, <2>2, <3>1, LookupJob DEF MovesTo, Same, JobFits
    <3>3. QED
      BY <1>1, <2>2, <3>1, <3>2, OneOf DEF MovesTo
  <2>3. QED
    BY <1>1, <1>2, <1>6, <2>1, <2>2, LookupJob
<1>7. CASE PostLine(s)
  <2>1. MovesTo(s, "post", i.part, i.step + 1) /\ i.pc = "post"
    BY <1>1, <1>2, <1>7, PostLineJob
  <2>2. PICK j \in Job : j = job'[s]
    BY <1>3, <2>1 DEF MovesTo
  <2>3. JobFits(j)
    <3>1. j.pc = i.pc /\ j.part = i.part /\ Same(j, i)
      BY <1>2, <2>1, <2>2 DEF MovesTo
    <3>2. QED
      BY <1>2, <2>1, <3>1 DEF Same, JobFits
  <2>4. QED
    BY <1>1, <2>1, <2>2, <2>3, OneOf DEF MovesTo
<1>8. CASE CommitPosting(s)
  <2>1. MovesTo(s, NextPc(i), NextPart(i), 1) /\ i.pc = "post"
    BY <1>1, <1>2, <1>8, CommitJob
  <2>2. PICK j \in Job : j = job'[s]
    BY <1>3, <2>1 DEF MovesTo
  <2>3. JobFits(j)
    BY <1>2, <2>1, <2>2, AfterFits DEF MovesTo
  <2>4. QED
    BY <1>1, <2>1, <2>2, <2>3, OneOf DEF MovesTo
<1>9. CASE ReadHolds(s)
  <2>1. MovesTo(s, "flush", i.part, i.step) /\ i.pc = "clear"
    BY <1>1, <1>2, <1>9, ReadJob
  <2>2. PICK j \in Job : j = job'[s]
    BY <1>3, <2>1 DEF MovesTo
  <2>3. JobFits(j)
    BY <1>2, <2>1, <2>2 DEF MovesTo, Same, JobFits
  <2>4. QED
    BY <1>1, <2>1, <2>2, <2>3, OneOf DEF MovesTo
<1>10. CASE FlushHolds(s)
  <2>1. /\ MovesTo(s, IF Fee > 0 THEN "lookup" ELSE "record",
                      IF Fee > 0 THEN "fee" ELSE i.part, i.step)
        /\ i.pc = "flush"
    BY <1>1, <1>2, <1>10, FlushJob
  <2>2. PICK j \in Job : j = job'[s]
    BY <1>3, <2>1 DEF MovesTo
  <2>3. JobFits(j)
    <3>1. i.cmd = "accept" /\ i.part = "refund" /\ i.hold /\ i.step = 1
      BY <1>2, <2>1 DEF JobFits, Job, Commands
    <3>2. CASE Fee > 0
      BY <1>2, <2>1, <2>2, <3>1, <3>2 DEF MovesTo, Same, JobFits
    <3>3. CASE ~(Fee > 0)
      BY <1>2, <2>1, <2>2, <3>1, <3>3 DEF MovesTo, Same, JobFits
    <3>4. QED
      BY <3>2, <3>3
  <2>4. QED
    BY <1>1, <2>1, <2>2, <2>3, OneOf DEF MovesTo
<1>11. CASE Record(s)
  BY <1>1, <1>4, <1>11, RecordJob
<1>12. CASE Abort(s)
  BY <1>1, <1>4, <1>12, AbortJob
<1>13. QED
  BY <1>5, <1>6, <1>7, <1>8, <1>9, <1>10, <1>11, <1>12 DEF Continue, FailCollision

(* apply_entry, column by column.                                          *)
LEMMA BalanceFields ==
    ASSUME NEW b \in Balance, NEW part, NEW e \in Int
    PROVE  LET c == Applied(b, part, e) IN
           /\ c \in Balance
           /\ c.current = IF IsHold(part) THEN b.current ELSE b.current + e
           /\ c.hold = IF IsHold(part) THEN b.hold - e ELSE b.hold
           /\ c.available = IF IsHold(part) THEN b.available + e ELSE b.current + e - b.hold
<1>0. b.current \in Int /\ b.hold \in Int /\ b.available \in Int
  BY DEF Balance
<1>1. CASE IsHold(part)
  <2>1. PICK h \in Int, v \in Int : h = b.hold - e /\ v = b.available + e
    BY <1>0
  <2>2. PICK c : c = [b EXCEPT !.hold = h, !.available = v]
    OBVIOUS
  <2>3. Applied(b, part, e) = c
    BY <1>1, <2>1, <2>2 DEF Applied
  <2>4. c \in Balance /\ c.current = b.current /\ c.hold = h /\ c.available = v
    BY <2>2 DEF Balance
  <2>5. QED
    BY <1>1, <2>1, <2>3, <2>4
<1>2. CASE ~IsHold(part)
  <2>1. PICK h \in Int, v \in Int : h = b.current + e /\ v = b.current + e - b.hold
    BY <1>0
  <2>2. PICK c : c = [b EXCEPT !.current = h, !.available = v]
    OBVIOUS
  <2>3. Applied(b, part, e) = c
    BY <1>2, <2>1, <2>2 DEF Applied
  <2>4. c \in Balance /\ c.current = h /\ c.hold = b.hold /\ c.available = v
    BY <2>2 DEF Balance
  <2>5. QED
    BY <1>2, <2>1, <2>3, <2>4
<1>3. QED
  BY <1>1, <1>2

(* _clear_holds, column by column: the current balance is left alone.      *)
LEMMA ClearedFields ==
    ASSUME NEW b \in Balance, NEW c \in Balance
    PROVE  LET d == Cleared(b, c) IN
           /\ d \in Balance
           /\ d.current = b.current
           /\ d.hold = IF c.hold = 0 THEN b.hold ELSE 0
           /\ d.available = IF c.available = c.current THEN b.available ELSE c.current
<1>1. PICK h \in Int : h = IF c.hold = 0 THEN b.hold ELSE 0
  BY DEF Balance
<1>2. PICK a \in Int : a = IF c.available = c.current THEN b.available ELSE c.current
  BY DEF Balance
<1>3. Cleared(b, c) = [b EXCEPT !.hold = h, !.available = a]
  BY <1>1, <1>2 DEF Cleared
<1>4. PICK d : d = [b EXCEPT !.hold = h, !.available = a]
  OBVIOUS
<1>5. d \in Balance /\ d.current = b.current /\ d.hold = h /\ d.available = a
  BY <1>4 DEF Balance
<1>6. QED
  BY <1>1, <1>2, <1>3, <1>4, <1>5

(* The columns of a new balance.                                           *)
LEMMA ZeroFields == Zero \in Balance /\ Zero.current = 0 /\ Zero.hold = 0 /\ Zero.available = 0
BY DEF Zero, Balance

(* What a session sees of a balance is a balance.                          *)
LEMMA ViewType ==
    ASSUME TypeOK, NEW s \in Sessions, NEW a \in Accounts
    PROVE  View(s, a) \in Balance
BY DEF TypeOK, View

(* A commit leaves the balances as its session sees them.                  *)
LEMMA FlushedType ==
    ASSUME TypeOK, NEW s \in Sessions, NEW f, f = Flushed(s)
    PROVE  f \in [Accounts -> Balance] /\ \A a \in Accounts : f[a] = View(s, a)
BY ViewType DEF Flushed

(* What the steps do to the locks and to the copies of balances.           *)
OnlyMine(s) ==
    /\ held' \in [Sessions -> SUBSET Accounts]
    /\ mine' \in [Sessions -> [Accounts -> Balance]]
    /\ \A t \in Sessions \ {s} : held'[t] = held[t] /\ mine'[t] = mine[t]

(* A step that sets what one session has locked and made of it.            *)
LEMMA MineIsSet ==
    ASSUME TypeOK, NEW s \in Sessions, NEW h \in SUBSET Accounts, NEW m \in [Accounts -> Balance],
           held' = [held EXCEPT ![s] = h], mine' = [mine EXCEPT ![s] = m]
    PROVE  OnlyMine(s) /\ held'[s] = h /\ mine'[s] = m
BY DEF TypeOK, OnlyMine

(* A step that locks nothing.                                              *)
LEMMA MineIsKept ==
    ASSUME TypeOK, NEW s \in Sessions, UNCHANGED <<held, mine>>
    PROVE  OnlyMine(s)
BY DEF TypeOK, OnlyMine

(* The end of a transaction releases its balances.                         *)
LEMMA ReleaseMine ==
    ASSUME TypeOK, NEW s \in Sessions, Release(s)
    PROVE  OnlyMine(s) /\ held'[s] = {} /\ mine'[s] = [a \in Accounts |-> Zero]
<1>1. PICK m : m = [a \in Accounts |-> Zero]
  OBVIOUS
<1>2. m \in [Accounts -> Balance]
  BY <1>1, ZeroFields
<1>3. PICK h \in SUBSET Accounts : h = {}
  OBVIOUS
<1>4. QED
  BY <1>1, <1>2, <1>3, MineIsSet DEF Release

(* A posting is between accounts.                                          *)
LEMMA JobAccounts ==
    ASSUME NEW j
    PROVE  Source(j) \in Accounts /\ Target(j) \in Accounts /\ NextAccount(j) \in Accounts
<1>1. Source(j) \in Accounts
  BY DEF Source, Accounts
<1>2. Target(j) \in Accounts
  BY DEF Target, Accounts
<1>3. QED
  BY <1>1, <1>2 DEF NextAccount

(* The amount of a posting is a natural number.                            *)
LEMMA SizeType ==
    ASSUME NEW j \in Job
    PROVE  Size(j) \in Nat
BY AmountsArePositive DEF AmountsArePositive, Size, Job

(* The entry a line makes.                                                 *)
Entry(j) == IF j.step = 1 THEN -Size(j) ELSE Size(j)

(* PostLine locks one free balance and applies the entry to it.            *)
LEMMA PostLineMine ==
    ASSUME TypeOK, NEW s \in Sessions, PostLine(s)
    PROVE  LET a == NextAccount(job[s]) IN
           /\ OnlyMine(s) /\ held'[s] = held[s] \cup {a}
           /\ mine'[s][a] = Applied(View(s, a), job[s].part, Entry(job[s]))
           /\ \A b \in Accounts \ {a} : mine'[s][b] = mine[s][b]
           /\ Free(s, a)
<1>1. PICK j \in Job : j = job[s]
  BY DEF TypeOK
<1>2. PICK a \in Accounts : a = NextAccount(j)
  BY JobAccounts
<1>3. PICK v : v = Applied(View(s, a), j.part, Entry(j))
  OBVIOUS
<1>4. Entry(j) \in Int
  BY SizeType DEF Entry
<1>5. v \in Balance
  BY <1>3, <1>4, ViewType, BalanceFields
<1>6. PICK h \in SUBSET Accounts : h = held[s] \cup {a}
  BY DEF TypeOK
<1>7. PICK m \in [Accounts -> Balance] : m = [mine[s] EXCEPT ![a] = v]
  BY <1>5 DEF TypeOK
<1>8. held' = [held EXCEPT ![s] = h] /\ mine' = [mine EXCEPT ![s] = m] /\ Free(s, a)
  BY <1>1, <1>2, <1>3, <1>6, <1>7 DEF PostLine, Entry, TypeOK
<1>9. OnlyMine(s) /\ held'[s] = h /\ mine'[s] = m
  BY <1>8, MineIsSet
<1>10. mine[s] \in [Accounts -> Balance]
  BY DEF TypeOK
<1>11. m[a] = v /\ \A b \in Accounts \ {a} : m[b] = mine[s][b]
  BY <1>7, <1>10
<1>12. QED
  BY <1>1, <1>2, <1>3, <1>6, <1>8, <1>9, <1>11

Holders == {"payable", "reserve"}

(* ReadHolds copies the two balances and locks nothing.                    *)
LEMMA ReadMine ==
    ASSUME TypeOK, NEW s \in Sessions, ReadHolds(s)
    PROVE  /\ OnlyMine(s) /\ held'[s] = held[s]
           /\ \A a \in Holders : mine'[s][a] = bal[a]
<1>1. PICK m : m = [a \in Accounts |-> IF a \in {"payable", "reserve"} THEN bal[a] ELSE Zero]
  OBVIOUS
<1>2. m \in [Accounts -> Balance]
  BY <1>1, ZeroFields DEF TypeOK
<1>3. PICK h \in SUBSET Accounts : h = held[s]
  BY DEF TypeOK
<1>4. held' = [held EXCEPT ![s] = h] /\ mine' = [mine EXCEPT ![s] = m]
  BY <1>1, <1>3 DEF ReadHolds, TypeOK
<1>5. OnlyMine(s) /\ held'[s] = h /\ mine'[s] = m
  BY <1>2, <1>4, MineIsSet
<1>6. QED
  BY <1>1, <1>3, <1>5 DEF Holders, Accounts

(* FlushHolds locks both balances and clears them from the copies.         *)
LEMMA FlushMine ==
    ASSUME TypeOK, NEW s \in Sessions, FlushHolds(s)
    PROVE  /\ OnlyMine(s) /\ held'[s] = Holders
           /\ \A a \in Holders : Free(s, a) /\ mine'[s][a] = Cleared(bal[a], mine[s][a])
<1>1. PICK m : m = [a \in Accounts |-> IF a \in {"payable", "reserve"}
                                      THEN Cleared(bal[a], mine[s][a]) ELSE Zero]
  OBVIOUS
<1>2. \A a \in Accounts : Cleared(bal[a], mine[s][a]) \in Balance
  BY ClearedFields DEF TypeOK
<1>3. m \in [Accounts -> Balance]
  BY <1>1, <1>2, ZeroFields
<1>4. PICK h \in SUBSET Accounts : h = Holders
  BY DEF Holders, Accounts
<1>5. held' = [held EXCEPT ![s] = h] /\ mine' = [mine EXCEPT ![s] = m]
  BY <1>1, <1>4 DEF FlushHolds, TypeOK, Holders
<1>6. OnlyMine(s) /\ held'[s] = h /\ mine'[s] = m
  BY <1>3, <1>5, MineIsSet
<1>7. \A a \in Holders : Free(s, a)
  BY DEF FlushHolds, Holders
<1>8. QED
  BY <1>1, <1>4, <1>6, <1>7 DEF Holders, Accounts

-----------------------------------------------------------------------------
(* What the two commits of a command write.                                *)
Statuses == {"none", "OPEN", "UNDER_REVIEW", "ACCEPTED", "REJECTED", "CLOSED"}

OnlyDispute(i) ==
    /\ disputes' \in [Disputes -> Dispute]
    /\ \A d \in Disputes \ {i} : disputes'[d] = disputes[d]

(* Dispute d is decided by a command that found h for its hold.            *)
DecidedAs(d, status, h) ==
    /\ disputes'[d].status = status
    /\ disputes'[d].amount = disputes[d].amount /\ disputes'[d].holdKey = disputes[d].holdKey
    /\ disputes'[d].hold <=> disputes[d].hold /\ ~h

(* A step that sets the row of one dispute.                                *)
LEMMA DisputeIsSet ==
    ASSUME TypeOK, NEW d \in Disputes, NEW r \in Dispute, disputes' = [disputes EXCEPT ![d] = r]
    PROVE  OnlyDispute(d) /\ disputes'[d] = r
BY DEF TypeOK, OnlyDispute

(* The row of a dispute that accept or reject decides.                     *)
LEMMA DecidedFields ==
    ASSUME TypeOK, NEW j, NEW d \in Disputes, j.id = d, j.hold \in BOOLEAN,
           NEW status \in Statuses, disputes' = Decided(j, status)
    PROVE  OnlyDispute(d) /\ DecidedAs(d, status, j.hold)
<1>1. PICK o \in Dispute : o = disputes[d]
  BY DEF TypeOK
<1>2. PICK h \in BOOLEAN : h <=> o.hold /\ ~j.hold
  BY <1>1 DEF Dispute
<1>3. PICK r : r = [o EXCEPT !.status = status, !.hold = h]
  OBVIOUS
<1>4. r \in Dispute /\ r.status = status /\ r.amount = o.amount /\ r.holdKey = o.holdKey
      /\ r.hold = h
  BY <1>3 DEF Dispute, Statuses
<1>5. h = (o.hold /\ ~j.hold)
  BY <1>2
<1>6. disputes' = [disputes EXCEPT ![d] = r]
  BY <1>1, <1>3, <1>5 DEF Decided, TypeOK
<1>7. OnlyDispute(d) /\ disputes'[d] = r
  BY <1>4, <1>6, DisputeIsSet
<1>8. QED
  BY <1>1, <1>2, <1>4, <1>7 DEF DecidedAs

NewDispute(n) == [NoDispute EXCEPT !.status = "OPEN", !.amount = n]

(* The row of a dispute that is inserted with its hold.                    *)
LEMMA OpenFields ==
    ASSUME TypeOK, NEW d \in Disputes, NEW n \in Nat,
           disputes' = [disputes EXCEPT ![d] = NewDispute(n)]
    PROVE  /\ OnlyDispute(d) /\ disputes'[d].status = "OPEN" /\ disputes'[d].amount = n
           /\ ~disputes'[d].hold /\ disputes'[d].holdKey = NoId
<1>1. PICK r : r = NewDispute(n)
  OBVIOUS
<1>2. r = [status |-> "OPEN", amount |-> n, hold |-> FALSE, holdKey |-> NoId]
  BY <1>1 DEF NewDispute, NoDispute
<1>3. r \in Dispute
  BY <1>2 DEF Dispute, Ids
<1>4. OnlyDispute(d) /\ disputes'[d] = r
  BY <1>1, <1>3, DisputeIsSet
<1>5. QED
  BY <1>2, <1>4

(* A table of requests whose row k is written.                             *)
OnlyRequest(T, U, K, k) == U \in [K -> Request] /\ \A l \in K \ {k} : U[l] = T[l]

(* The requests T as the commit of the posting of j leaves them.           *)
Requested(j, cmd, K, T, U) ==
    IF j.cmd = cmd
    THEN /\ OnlyRequest(T, U, K, j.key)
         /\ U[j.key].status = "REQUESTED" /\ U[j.key].amount = j.amount
         /\ U[j.key].closed = j.closed
    ELSE U = T

(* ... and the final commit.                                               *)
Finished(j, cmd, K, T, U) ==
    IF j.cmd = cmd
    THEN /\ OnlyRequest(T, U, K, j.key)
         /\ U[j.key].status = "POSTED" /\ U[j.key].amount = T[j.key].amount
         /\ U[j.key].closed = T[j.key].closed
    ELSE U = T

(* The commit of a posting inserts the row of its request, and no other.   *)
LEMMA RequestedRow ==
    ASSUME NEW K, NEW T \in [K -> Request], NEW j \in Job, NEW cmd, j.cmd = cmd => j.key \in K,
           NEW U, U = IF j.cmd = cmd
                      THEN [T EXCEPT ![j.key] = [status |-> "REQUESTED",
                                                 amount |-> j.amount, closed |-> j.closed]]
                      ELSE T
    PROVE  Requested(j, cmd, K, T, U)
<1>1. PICK r : r = [status |-> "REQUESTED", amount |-> j.amount, closed |-> j.closed]
  OBVIOUS
<1>2. r \in Request
  BY <1>1 DEF Request, Job
<1>3. CASE j.cmd = cmd
  <2>1. U = [T EXCEPT ![j.key] = r]
    BY <1>1, <1>3
  <2>2. OnlyRequest(T, U, K, j.key) /\ U[j.key] = r
    BY <1>2, <1>3, <2>1 DEF OnlyRequest
  <2>3. QED
    BY <1>1, <1>3, <2>2 DEF Requested
<1>4. QED
  BY <1>3 DEF Requested

(* mark_posted writes the status of one row.                               *)
LEMMA FinishedRow ==
    ASSUME NEW K, NEW T \in [K -> Request], NEW j \in Job, NEW cmd, j.cmd = cmd => j.key \in K,
           NEW U, U = IF j.cmd = cmd THEN [T EXCEPT ![j.key].status = "POSTED"] ELSE T
    PROVE  Finished(j, cmd, K, T, U)
<1>1. CASE j.cmd = cmd
  <2>1. PICK o \in Request : o = T[j.key]
    BY <1>1
  <2>2. PICK r : r = [o EXCEPT !.status = "POSTED"]
    OBVIOUS
  <2>3. r \in Request /\ r.status = "POSTED" /\ r.amount = o.amount /\ r.closed = o.closed
    BY <2>2 DEF Request
  <2>4. U = [T EXCEPT ![j.key] = r]
    BY <1>1, <2>1, <2>2
  <2>5. OnlyRequest(T, U, K, j.key) /\ U[j.key] = r
    BY <1>1, <2>3, <2>4 DEF OnlyRequest
  <2>6. QED
    BY <1>1, <2>1, <2>3, <2>5 DEF Finished
<1>2. QED
  BY <1>1 DEF Finished

(* The batch of a posting.                                                 *)
IsBatchOf(b, j) ==
    /\ b \in Batch
    /\ b.key = BatchKey(j) /\ b.subject = Subject(j) /\ b.part = j.part
    /\ b.from = Source(j) /\ b.to = Target(j) /\ b.amount = Size(j)

(* What the key of a posting says of its command.                          *)
LEMMA KeyType ==
    ASSUME NEW j \in Job
    PROVE  /\ BatchKey(j) \in Commands \X Ids \X Ids \X Parts
           /\ BatchKey(j)[1] = j.cmd /\ BatchKey(j)[3] = j.key /\ BatchKey(j)[4] = j.part
           /\ BatchKey(j)[2] = IF j.cmd = "open" THEN NoId ELSE j.id
           /\ Subject(j) \in Ids \cup {"refund", "reversal"}
<1>1. PICK m, i, k, q : m = j.cmd /\ i = (IF j.cmd = "open" THEN NoId ELSE j.id)
                        /\ k = j.key /\ q = j.part
  OBVIOUS
<1>2. m \in Commands /\ i \in Ids /\ k \in Ids /\ q \in Parts
  BY <1>1 DEF Job, Ids
<1>3. BatchKey(j) = <<m, i, k, q>>
  BY <1>1 DEF BatchKey
<1>4. Subject(j) \in Ids \cup {"refund", "reversal"}
  BY DEF Subject, Job
<1>5. QED
  BY <1>1, <1>2, <1>3, <1>4

(* A commit adds one batch, whose key is new.                              *)
LEMMA CommitBatch ==
    ASSUME ShapeInv, NEW s \in Sessions, CommitPosting(s)
    PROVE  /\ ~Posted(BatchKey(job[s]))
           /\ \E b : b \notin batches /\ batches' = batches \cup {b} /\ IsBatchOf(b, job[s])
<1>1. PICK j \in Job : j = job[s]
  BY DEF ShapeInv, TypeOK
<1>2. ~Posted(BatchKey(j))
  BY <1>1 DEF CommitPosting, Collides
<1>3. PICK f \in BOOLEAN : f = Posted(BatchKey(j))
  BY DEF Posted
<1>4. PICK k, u, q, a, c, n : k = BatchKey(j) /\ u = Subject(j) /\ q = j.part /\ a = Source(j)
                              /\ c = Target(j) /\ n = Size(j)
  OBVIOUS
<1>5. /\ k \in Commands \X Ids \X Ids \X Parts /\ u \in Ids \cup {"refund", "reversal"}
      /\ q \in Parts /\ a \in Accounts /\ c \in Accounts /\ n \in Nat
  BY <1>4, KeyType, JobAccounts, SizeType DEF Job
<1>6. PICK b : b = [copy |-> f, key |-> k, subject |-> u, part |-> q, from |-> a,
                    to |-> c, amount |-> n]
  OBVIOUS
<1>7. b \in Batch
  BY <1>5, <1>6 DEF Batch
<1>8. IsBatchOf(b, j)
  BY <1>4, <1>6, <1>7 DEF IsBatchOf
<1>9. batches' = batches \cup {b}
  BY <1>1, <1>3, <1>4, <1>6 DEF CommitPosting
<1>10. b \notin batches
  BY <1>2, <1>4, <1>6 DEF Posted
<1>11. QED
  BY <1>1, <1>2, <1>8, <1>9, <1>10

(* The disputes as the commit of the posting of j leaves them.             *)
DisputeStored(j) ==
    /\ OnlyDispute(j.id)
    /\ j.cmd # "open" /\ j.part # "fee" => disputes' = disputes
    /\ j.cmd = "open" => /\ disputes'[j.id].status = "OPEN" /\ disputes'[j.id].amount = j.amount
                         /\ ~disputes'[j.id].hold /\ disputes'[j.id].holdKey = NoId
    /\ j.part = "fee" => DecidedAs(j.id, "ACCEPTED", j.hold)

(* The dispute that is opened, as the final commit leaves it.              *)
OpenedAs(j) ==
    LET d == disputes[j.id]
        e == disputes'[j.id] IN
    IF d = NoDispute
    THEN /\ e.status = "OPEN" /\ e.amount = j.amount /\ (e.hold <=> j.hold)
         /\ e.holdKey = IF j.hold THEN j.key ELSE NoId
    ELSE e.status = d.status /\ e.amount = d.amount /\ e.hold /\ e.holdKey = j.key

DisputeRecorded(j) ==
    /\ OnlyDispute(j.id)
    /\ j.cmd \notin {"open", "accept", "reject", "review", "close"} => disputes' = disputes
    /\ j.cmd = "open" => OpenedAs(j)
    /\ j.cmd = "accept" => DecidedAs(j.id, "ACCEPTED", j.hold)
    /\ j.cmd = "reject" => DecidedAs(j.id, "REJECTED", j.hold)
    /\ j.cmd = "review" => DecidedAs(j.id, "UNDER_REVIEW", FALSE)
    /\ j.cmd = "close" => DecidedAs(j.id, "CLOSED", FALSE)

(* A step that leaves the disputes alone.                                  *)
LEMMA UnchangedDisputes ==
    ASSUME TypeOK, disputes' = disputes
    PROVE  \A i : OnlyDispute(i)
BY DEF TypeOK, OnlyDispute

(* A step that writes the status of one dispute.                           *)
LEMMA StatusFields ==
    ASSUME TypeOK, NEW d \in Disputes, NEW status \in Statuses,
           disputes' = [disputes EXCEPT ![d].status = status]
    PROVE  OnlyDispute(d) /\ DecidedAs(d, status, FALSE)
<1>1. PICK o \in Dispute : o = disputes[d]
  BY DEF TypeOK
<1>2. PICK r : r = [o EXCEPT !.status = status]
  OBVIOUS
<1>3. r \in Dispute /\ r.status = status /\ r.amount = o.amount /\ r.holdKey = o.holdKey
      /\ r.hold = o.hold
  BY <1>2 DEF Dispute, Statuses
<1>4. disputes' = [disputes EXCEPT ![d] = r]
  BY <1>1, <1>2 DEF TypeOK
<1>5. OnlyDispute(d) /\ disputes'[d] = r
  BY <1>3, <1>4, DisputeIsSet
<1>6. QED
  BY <1>1, <1>3, <1>5 DEF DecidedAs

(* The row of a dispute that is recorded as open.                          *)
LEMMA OpenedFields ==
    ASSUME TypeOK, NEW j \in Job, j.id \in Disputes, disputes' = [disputes EXCEPT ![j.id] = Opened(@, j)]
    PROVE  OnlyDispute(j.id) /\ OpenedAs(j)
<1>1. PICK o \in Dispute : o = disputes[j.id]
  BY DEF TypeOK
<1>2. PICK r : r = Opened(o, j)
  OBVIOUS
<1>3. disputes' = [disputes EXCEPT ![j.id] = r]
  BY <1>1, <1>2 DEF TypeOK
<1>4. PICK k : k = IF j.hold THEN j.key ELSE NoId
  OBVIOUS
<1>5. CASE o = NoDispute
  <2>1. r = [status |-> "OPEN", amount |-> j.amount, hold |-> j.hold, holdKey |-> k]
    BY <1>2, <1>4, <1>5 DEF Opened
  <2>2. k \in Ids
    BY <1>4 DEF Job, Ids
  <2>3. r \in Dispute
    BY <2>1, <2>2 DEF Dispute, Job
  <2>4. OnlyDispute(j.id) /\ disputes'[j.id] = r
    BY <1>3, <2>3, DisputeIsSet
  <2>5. QED
    BY <1>1, <1>4, <1>5, <2>1, <2>4 DEF OpenedAs
<1>6. CASE o # NoDispute
  <2>1. PICK h \in BOOLEAN : h = TRUE
    BY Zenon
  <2>2. r = [o EXCEPT !.hold = h, !.holdKey = j.key]
    BY <1>2, <1>6, <2>1 DEF Opened
  <2>3. r \in Dispute /\ r.status = o.status /\ r.amount = o.amount /\ r.hold = h
        /\ r.holdKey = j.key
    BY <2>2 DEF Dispute, Job
  <2>4. OnlyDispute(j.id) /\ disputes'[j.id] = r
    BY <1>3, <2>3, DisputeIsSet
  <2>5. QED
    BY <1>1, <1>6, <2>1, <2>3, <2>4 DEF OpenedAs
<1>7. QED
  BY <1>5, <1>6

(* Jobs whose command is about a dispute.                                  *)
LEMMA AboutDispute ==
    ASSUME NEW j, JobFits(j)
    PROVE  /\ j.cmd \in {"open", "accept", "reject", "review", "close"} => j.id \in Disputes
           /\ j.part = "fee" => j.cmd = "accept" /\ j.id \in Disputes
           /\ j.cmd \in {"none", "refund", "reversal"} => j.id = NoId
BY IdleFields DEF JobFits, Job, Commands

(* The rows that the commit of a posting stores.                           *)
LEMMA CommitRows ==
    ASSUME ShapeInv, NEW s \in Sessions, CommitPosting(s)
    PROVE  /\ Requested(job[s], "refund", RefundKeys, refunds, refunds')
           /\ Requested(job[s], "reversal", ReversalKeys, reversals, reversals')
           /\ DisputeStored(job[s])
           /\ UNCHANGED <<refunded, adjustments, history>>
<1>1. PICK j \in Job : j = job[s] /\ JobFits(j)
  BY DEF ShapeInv, TypeOK
<1>2. StoreWithPosting(j) /\ UNCHANGED history
  BY <1>1 DEF CommitPosting
<1>3. TypeOK
  BY DEF ShapeInv
<1>4. Requested(j, "refund", RefundKeys, refunds, refunds')
  <2>1. refunds \in [RefundKeys -> Request] /\ (j.cmd = "refund" => j.key \in RefundKeys)
    BY <1>1, <1>3 DEF JobFits, TypeOK
  <2>2. QED
    BY <1>2, <2>1, RequestedRow DEF StoreWithPosting
<1>5. Requested(j, "reversal", ReversalKeys, reversals, reversals')
  <2>1. reversals \in [ReversalKeys -> Request] /\ (j.cmd = "reversal" => j.key \in ReversalKeys)
    BY <1>1, <1>3 DEF JobFits, TypeOK
  <2>2. QED
    BY <1>2, <2>1, RequestedRow DEF StoreWithPosting
<1>6. DisputeStored(j)
  <2>1. CASE j.cmd = "open"
    <3>1. j.id \in Disputes /\ j.part # "fee" /\ j.amount \in Nat
      BY <1>1, <2>1 DEF JobFits, Job
    <3>2. disputes' = [disputes EXCEPT ![j.id] = NewDispute(j.amount)]
      BY <1>2, <2>1, <3>1 DEF StoreWithPosting, NewDispute
    <3>3. QED
      BY <1>3, <2>1, <3>1, <3>2, OpenFields DEF DisputeStored
  <2>2. CASE j.part = "fee"
    <3>1. j.cmd = "accept" /\ j.id \in Disputes /\ j.hold \in BOOLEAN
      BY <1>1, <2>2, AboutDispute DEF Job
    <3>2. disputes' = Decided(j, "ACCEPTED")
      BY <1>2, <2>2, <3>1 DEF StoreWithPosting
    <3>3. OnlyDispute(j.id) /\ DecidedAs(j.id, "ACCEPTED", j.hold)
      BY <1>3, <3>1, <3>2, DecidedFields DEF Statuses
    <3>4. QED
      BY <2>2, <3>1, <3>3 DEF DisputeStored
  <2>3. CASE j.cmd # "open" /\ j.part # "fee"
    <3>1. disputes' = disputes
      BY <1>2, <2>3 DEF StoreWithPosting
    <3>2. QED
      BY <1>3, <2>3, <3>1, UnchangedDisputes DEF DisputeStored
  <2>4. QED
    BY <2>1, <2>2, <2>3
<1>7. QED
  BY <1>1, <1>2, <1>4, <1>5, <1>6 DEF StoreWithPosting

(* The rows that the second transaction stores.                            *)
LEMMA RecordRows ==
    ASSUME ShapeInv, NEW s \in Sessions, Record(s)
    PROVE  /\ Finished(job[s], "refund", RefundKeys, refunds, refunds')
           /\ Finished(job[s], "reversal", ReversalKeys, reversals, reversals')
           /\ DisputeRecorded(job[s])
           /\ adjustments' = adjustments \cup AdjustmentOf(job[s])
           /\ UNCHANGED <<batches, history>>
<1>1. PICK j \in Job : j = job[s] /\ JobFits(j)
  BY DEF ShapeInv, TypeOK
<1>2. TypeOK
  BY DEF ShapeInv
<1>3. Finished(j, "refund", RefundKeys, refunds, refunds')
  <2>1. refunds \in [RefundKeys -> Request] /\ (j.cmd = "refund" => j.key \in RefundKeys)
    BY <1>1, <1>2 DEF JobFits, TypeOK
  <2>2. refunds' = IF j.cmd = "refund" THEN [refunds EXCEPT ![j.key].status = "POSTED"] ELSE refunds
    BY <1>1 DEF Record
  <2>3. QED
    BY <2>1, <2>2, FinishedRow
<1>4. Finished(j, "reversal", ReversalKeys, reversals, reversals')
  <2>1. reversals \in [ReversalKeys -> Request] /\ (j.cmd = "reversal" => j.key \in ReversalKeys)
    BY <1>1, <1>2 DEF JobFits, TypeOK
  <2>2. reversals' = IF j.cmd = "reversal" THEN [reversals EXCEPT ![j.key].status = "POSTED"]
                     ELSE reversals
    BY <1>1 DEF Record
  <2>3. QED
    BY <2>1, <2>2, FinishedRow
<1>5. DisputeRecorded(j)
  <2>0. /\ j.cmd \in {"open", "accept", "reject", "review", "close"} => j.id \in Disputes
        /\ j.hold \in BOOLEAN
    BY <1>1, AboutDispute DEF Job
  <2>1. CASE j.cmd = "open"
    <3>1. disputes' = [disputes EXCEPT ![j.id] = Opened(@, j)]
      BY <1>1, <2>1 DEF Record
    <3>2. QED
      BY <1>2, <2>0, <2>1, <3>1, OpenedFields DEF DisputeRecorded
  <2>2. CASE j.cmd = "accept"
    <3>1. disputes' = Decided(j, "ACCEPTED")
      BY <1>1, <2>2 DEF Record
    <3>2. QED
      BY <1>2, <2>0, <2>2, <3>1, DecidedFields DEF DisputeRecorded, Statuses
  <2>3. CASE j.cmd = "reject"
    <3>1. disputes' = Decided(j, "REJECTED")
      BY <1>1, <2>3 DEF Record
    <3>2. QED
      BY <1>2, <2>0, <2>3, <3>1, DecidedFields DEF DisputeRecorded, Statuses
  <2>4. CASE j.cmd = "review"
    <3>1. disputes' = [disputes EXCEPT ![j.id].status = "UNDER_REVIEW"]
      BY <1>1, <2>4 DEF Record
    <3>2. QED
      BY <1>2, <2>0, <2>4, <3>1, StatusFields DEF DisputeRecorded, Statuses
  <2>5. CASE j.cmd = "close"
    <3>1. disputes' = [disputes EXCEPT ![j.id].status = "CLOSED"]
      BY <1>1, <2>5 DEF Record
    <3>2. QED
      BY <1>2, <2>0, <2>5, <3>1, StatusFields DEF DisputeRecorded, Statuses
  <2>6. CASE j.cmd \notin {"open", "accept", "reject", "review", "close"}
    <3>1. disputes' = disputes
      BY <1>1, <2>6 DEF Record
    <3>2. QED
      BY <1>2, <2>6, <3>1, UnchangedDisputes DEF DisputeRecorded
  <2>7. QED
    BY <2>1, <2>2, <2>3, <2>4, <2>5, <2>6
<1>6. QED
  BY <1>1, <1>3, <1>4, <1>5 DEF Record

(* The part of the types that is not about the sessions.                   *)
RowsType ==
    /\ refunds \in [RefundKeys -> Request]
    /\ reversals \in [ReversalKeys -> Request]
    /\ disputes \in [Disputes -> Dispute]
    /\ refunded \in Nat /\ begun \in Nat
    /\ adjustments \subseteq Commands \X Ids \X Ids
    /\ batches \subseteq Batch /\ IsFiniteSet(batches)
    /\ bal \in [Accounts -> Balance]
    /\ raced \subseteq Ids \cup {"refund", "reversal"}
    /\ lost \subseteq Ids \cup {"refund", "reversal"}
    /\ smeared \in BOOLEAN /\ wiped \in BOOLEAN

(* A step of s keeps the shape if it does so for s and locks only what is  *)
(* free.                                                                   *)
LEMMA ShapeIsKept ==
    ASSUME ShapeInv, NEW s \in Sessions, OnlyJob(s), OnlyMine(s), RowsType',
           \A t \in Sessions : JobFits(job'[t]), HeldFits(s)',
           \A t \in Sessions \ {s} : held'[s] \cap held[t] = {}
    PROVE  ShapeInv'
<1>1. \A t \in Sessions : HeldFits(t)'
  BY DEF OnlyJob, OnlyMine, ShapeInv, HeldFits
<1>2. LocksExclude'
  BY DEF OnlyMine, ShapeInv, LocksExclude
<1>3. \A t \in Sessions : (job[t] = Idle => held[t] = {})'
  BY <1>1, IdleFields DEF HeldFits
<1>4. TypeOK'
  BY <1>3 DEF TypeOK, RowsType, OnlyJob, OnlyMine
<1>5. QED
  BY <1>1, <1>2, <1>4 DEF ShapeInv, RowsType

(* The types of what is committed.                                         *)
LEMMA RowsTyped ==
    ASSUME ShapeInv
    PROVE  RowsType
BY DEF ShapeInv, TypeOK, RowsType

(* A step that leaves the locks alone, or gives them up.                   *)
LEMMA LocksAreApart ==
    ASSUME ShapeInv, NEW s \in Sessions, held'[s] \subseteq held[s]
    PROVE  \A t \in Sessions \ {s} : held'[s] \cap held[t] = {}
BY DEF ShapeInv, LocksExclude

(* Starting a command keeps the shape.                                     *)
LEMMA BeginShape ==
    ASSUME ShapeInv, NEW s \in Sessions, NEW j, Begin(s, j), Begun(j)
    PROVE  ShapeInv'
<1>1. TypeOK /\ j \in Job /\ JobFits(j) /\ JobFits(job[s])
  BY DEF ShapeInv, Begun, JobFits
<1>2. OnlyJob(s) /\ job'[s] = j /\ job[s] = Idle
  BY <1>1, BeginJob
<1>3. OnlyMine(s) /\ held'[s] = held[s] /\ held[s] = {}
  BY <1>1, <1>2, MineIsKept DEF Begin, TypeOK
<1>4. \A t \in Sessions : JobFits(job'[t])
  BY <1>1, <1>2, OneOf DEF ShapeInv
<1>5. RowsType'
  <2>1. Subject(j) \in Ids \cup {"refund", "reversal"}
    BY <1>1, KeyType
  <2>2. raced' \subseteq Ids \cup {"refund", "reversal"}
    BY <1>1, <2>1 DEF Begin, TypeOK
  <2>3. QED
    BY <2>2, RowsTyped DEF RowsType, Begin, rows, books
<1>6. HeldFits(s)'
  BY <1>3 DEF HeldFits
<1>7. QED
  BY <1>2, <1>3, <1>4, <1>5, <1>6, LocksAreApart, ShapeIsKept

(* A step that commits nothing keeps the types of what is committed.       *)
LEMMA RowsAreKept ==
    ASSUME RowsType, UNCHANGED <<rows, books, history>>
    PROVE  RowsType'
BY DEF RowsType, rows, books, history

(* InsertRequest keeps the shape.                                          *)
LEMMA InsertShape ==
    ASSUME ShapeInv, NEW s \in Sessions, InsertRequest(s)
    PROVE  ShapeInv'
<1>1. TypeOK /\ HeldFits(s)
  BY DEF ShapeInv
<1>2. OnlyJob(s) /\ job[s].pc = "insert"
  BY <1>1, InsertJob DEF Ends, MovesTo
<1>3. \A t \in Sessions : JobFits(job'[t])
  BY JobsFit DEF Continue
<1>4. OnlyMine(s) /\ held'[s] = held[s] /\ held[s] = {}
  BY <1>1, <1>2, MineIsKept DEF InsertRequest, HeldFits
<1>5. RowsType'
  BY RowsTyped, RowsAreKept DEF InsertRequest
<1>6. HeldFits(s)'
  BY <1>4 DEF HeldFits
<1>7. QED
  BY <1>2, <1>3, <1>4, <1>5, <1>6, LocksAreApart, ShapeIsKept

(* LookupBatch keeps the shape.                                            *)
LEMMA LookupShape ==
    ASSUME ShapeInv, NEW s \in Sessions, LookupBatch(s)
    PROVE  ShapeInv'
<1>1. TypeOK /\ HeldFits(s) /\ JobFits(job[s])
  BY DEF ShapeInv
<1>2. OnlyJob(s) /\ job[s].pc = "lookup"
  BY <1>1, LookupJob DEF MovesTo
<1>3. \A t \in Sessions : JobFits(job'[t])
  BY JobsFit DEF Continue
<1>4. OnlyMine(s) /\ held'[s] = held[s]
  BY <1>1, MineIsKept DEF LookupBatch
<1>5. RowsType'
  BY RowsTyped, RowsAreKept DEF LookupBatch
<1>6. HeldFits(s)'
  <2>1. CASE job[s].part # "fee"
    BY <1>1, <1>2, <1>4, <2>1 DEF HeldFits
  <2>2. CASE job[s].part = "fee"
    <3>1. job'[s].pc \in {"post", "record"}
      BY <1>1, <2>2, LookupJob, AboutDispute DEF NextPc, MovesTo
    <3>2. QED
      BY <3>1 DEF HeldFits
  <2>3. QED
    BY <2>1, <2>2
<1>7. QED
  BY <1>2, <1>3, <1>4, <1>5, <1>6, LocksAreApart, ShapeIsKept

(* PostLine keeps the shape: the balance it locks is free.                 *)
LEMMA PostLineShape ==
    ASSUME ShapeInv, NEW s \in Sessions, PostLine(s)
    PROVE  ShapeInv'
<1>1. TypeOK
  BY DEF ShapeInv
<1>2. OnlyJob(s) /\ job'[s].pc = "post"
  BY <1>1, PostLineJob DEF MovesTo
<1>3. \A t \in Sessions : JobFits(job'[t])
  BY JobsFit DEF Continue
<1>4. PICK a : OnlyMine(s) /\ held'[s] = held[s] \cup {a} /\ Free(s, a)
  BY <1>1, PostLineMine
<1>5. RowsType'
  BY RowsTyped, RowsAreKept DEF PostLine
<1>6. HeldFits(s)'
  BY <1>2 DEF HeldFits
<1>7. \A t \in Sessions \ {s} : held'[s] \cap held[t] = {}
  BY <1>4 DEF ShapeInv, LocksExclude, Free
<1>8. QED
  BY <1>2, <1>3, <1>4, <1>5, <1>6, <1>7, ShapeIsKept

(* CommitPosting keeps the shape.                                          *)
LEMMA CommitShape ==
    ASSUME ShapeInv, NEW s \in Sessions, CommitPosting(s)
    PROVE  ShapeInv'
<1>1. TypeOK
  BY DEF ShapeInv
<1>2. OnlyJob(s)
  BY <1>1, CommitJob DEF MovesTo
<1>3. \A t \in Sessions : JobFits(job'[t])
  BY JobsFit DEF Continue
<1>4. OnlyMine(s) /\ held'[s] = {}
  BY <1>1, ReleaseMine DEF CommitPosting
<1>5. RowsType'
  <2>1. batches' \subseteq Batch /\ IsFiniteSet(batches')
    <3>1. PICK b : batches' = batches \cup {b} /\ IsBatchOf(b, job[s])
      BY CommitBatch
    <3>2. IsFiniteSet(batches \cup {b})
      BY FS_AddElement DEF ShapeInv
    <3>3. QED
      BY <1>1, <3>1, <3>2 DEF IsBatchOf, TypeOK
  <2>2. refunds' \in [RefundKeys -> Request] /\ reversals' \in [ReversalKeys -> Request]
    BY <1>1, CommitRows DEF Requested, OnlyRequest, TypeOK
  <2>3. disputes' \in [Disputes -> Dispute]
    BY CommitRows DEF DisputeStored, OnlyDispute
  <2>4. bal' \in [Accounts -> Balance]
    BY <1>1, FlushedType DEF CommitPosting
  <2>5. UNCHANGED <<refunded, adjustments, history>>
    BY CommitRows
  <2>6. QED
    BY <2>1, <2>2, <2>3, <2>4, <2>5, RowsTyped DEF RowsType, history
<1>6. HeldFits(s)'
  BY <1>4 DEF HeldFits
<1>7. QED
  BY <1>2, <1>3, <1>4, <1>5, <1>6, LocksAreApart, ShapeIsKept

(* ReadHolds keeps the shape.                                              *)
LEMMA ReadShape ==
    ASSUME ShapeInv, NEW s \in Sessions, ReadHolds(s)
    PROVE  ShapeInv'
<1>1. TypeOK /\ HeldFits(s)
  BY DEF ShapeInv
<1>2. OnlyJob(s) /\ job[s].pc = "clear"
  BY <1>1, ReadJob DEF MovesTo
<1>3. \A t \in Sessions : JobFits(job'[t])
  BY JobsFit DEF Continue
<1>4. OnlyMine(s) /\ held'[s] = held[s] /\ held[s] = {}
  BY <1>1, <1>2, ReadMine DEF HeldFits
<1>5. RowsType'
  BY RowsTyped, RowsAreKept DEF ReadHolds
<1>6. HeldFits(s)'
  BY <1>4 DEF HeldFits
<1>7. QED
  BY <1>2, <1>3, <1>4, <1>5, <1>6, LocksAreApart, ShapeIsKept

(* FlushHolds keeps the shape: both balances are free.                     *)
LEMMA FlushShape ==
    ASSUME ShapeInv, NEW s \in Sessions, FlushHolds(s)
    PROVE  ShapeInv'
<1>1. TypeOK
  BY DEF ShapeInv
<1>2. OnlyJob(s) /\ (job'[s].pc = "record" \/ (job'[s].pc = "lookup" /\ job'[s].part = "fee"))
  <2>1. MovesTo(s, IF Fee > 0 THEN "lookup" ELSE "record",
                   IF Fee > 0 THEN "fee" ELSE job[s].part, job[s].step)
    BY <1>1, FlushJob
  <2>2. QED
    BY <2>1 DEF MovesTo
<1>3. \A t \in Sessions : JobFits(job'[t])
  BY JobsFit DEF Continue
<1>4. OnlyMine(s) /\ held'[s] = Holders /\ \A a \in Holders : Free(s, a)
  BY <1>1, FlushMine
<1>5. RowsType'
  <2>1. smeared' \in BOOLEAN /\ wiped' \in BOOLEAN
    BY <1>1 DEF FlushHolds, TypeOK
  <2>2. QED
    BY <2>1, RowsTyped DEF RowsType, FlushHolds, rows, books
<1>6. HeldFits(s)'
  BY <1>2 DEF HeldFits
<1>7. \A t \in Sessions \ {s} : held'[s] \cap held[t] = {}
  BY <1>4 DEF Free
<1>8. QED
  BY <1>2, <1>3, <1>4, <1>5, <1>6, <1>7, ShapeIsKept

(* Record keeps the shape.                                                 *)
LEMMA RecordShape ==
    ASSUME ShapeInv, NEW s \in Sessions, Record(s)
    PROVE  ShapeInv'
<1>1. TypeOK /\ job[s] \in Job
  BY DEF ShapeInv, TypeOK
<1>2. OnlyJob(s)
  BY <1>1, RecordJob DEF Ends
<1>3. \A t \in Sessions : JobFits(job'[t])
  BY JobsFit DEF Continue
<1>4. OnlyMine(s) /\ held'[s] = {}
  BY <1>1, ReleaseMine DEF Record
<1>5. RowsType'
  <2>1. adjustments' \subseteq Commands \X Ids \X Ids
    <3>1. job[s].cmd \in Commands /\ job[s].id \in Ids /\ job[s].key \in Ids
      BY <1>1 DEF Job
    <3>2. AdjustmentOf(job[s]) \subseteq Commands \X Ids \X Ids
      BY <3>1 DEF AdjustmentOf
    <3>3. QED
      BY <1>1, <3>2, RecordRows DEF TypeOK
  <2>2. refunds' \in [RefundKeys -> Request] /\ reversals' \in [ReversalKeys -> Request]
    BY <1>1, RecordRows DEF Finished, OnlyRequest, TypeOK
  <2>3. disputes' \in [Disputes -> Dispute]
    BY RecordRows DEF DisputeRecorded, OnlyDispute
  <2>4. bal' \in [Accounts -> Balance]
    BY <1>1, FlushedType DEF Record
  <2>5. UNCHANGED <<batches, history>>
    BY RecordRows
  <2>6. refunded' \in Nat
    <3>1. job[s].seen \in Nat /\ job[s].amount \in Nat /\ refunded \in Nat
      BY <1>1 DEF Job, TypeOK
    <3>2. refunded' = IF job[s].cmd = "refund" THEN job[s].seen + job[s].amount ELSE refunded
      BY DEF Record
    <3>3. QED
      BY <3>1, <3>2
  <2>7. QED
    BY <2>1, <2>2, <2>3, <2>4, <2>5, <2>6, RowsTyped DEF RowsType, history
<1>6. HeldFits(s)'
  BY <1>4 DEF HeldFits
<1>7. QED
  BY <1>2, <1>3, <1>4, <1>5, <1>6, LocksAreApart, ShapeIsKept

(* A rollback keeps the shape.                                             *)
LEMMA AbortShape ==
    ASSUME ShapeInv, NEW s \in Sessions, Abort(s)
    PROVE  ShapeInv'
<1>1. TypeOK /\ job[s] \in Job
  BY DEF ShapeInv, TypeOK
<1>2. OnlyJob(s)
  BY <1>1, AbortJob DEF Ends
<1>3. \A t \in Sessions : JobFits(job'[t])
  BY JobsFit
<1>4. OnlyMine(s) /\ held'[s] = {}
  BY <1>1, ReleaseMine DEF Abort
<1>5. RowsType'
  <2>1. Subject(job[s]) \in Ids \cup {"refund", "reversal"}
    BY <1>1, KeyType
  <2>2. lost' \subseteq Ids \cup {"refund", "reversal"}
    BY <1>1, <2>1 DEF Abort, TypeOK
  <2>3. QED
    BY <2>2, RowsTyped DEF RowsType, Abort, rows, books
<1>6. HeldFits(s)'
  BY <1>4 DEF HeldFits
<1>7. QED
  BY <1>2, <1>3, <1>4, <1>5, <1>6, LocksAreApart, ShapeIsKept

-----------------------------------------------------------------------------
(* Balances and batches.                                                   *)
LEMMA AmountType ==
    ASSUME NEW S, IsFiniteSet(S), S \subseteq Batch
    PROVE  AmountOf(S) \in Nat
<1>1. \A b \in S : [c \in S |-> c.amount][b] \in Nat
  BY DEF Batch
<1>2. QED
  BY <1>1, SumType DEF AmountOf

(* A batch adds its amount to a set of batches.                            *)
LEMMA AmountAdd ==
    ASSUME NEW S, IsFiniteSet(S), S \subseteq Batch, NEW b \in Batch, b \notin S
    PROVE  AmountOf(S \cup {b}) = AmountOf(S) + b.amount
<1> DEFINE T == S \cup {b}
           f == [c \in S |-> c.amount]
           g == [c \in T |-> c.amount]
<1>1. \A c \in T : g[c] \in Int /\ g[c] = c.amount
  BY DEF Batch
<1>2. \A c \in S : f[c] = g[c]
  OBVIOUS
<1>3. g[b] = b.amount /\ b.amount \in Int
  BY DEF Batch
<1>4. AmountOf(S) = SumOf(f, S) /\ AmountOf(S \cup {b}) = SumOf(g, S \cup {b})
  BY DEF AmountOf
<1>5. AmountOf(S) \in Int
  BY AmountType
<1>6. \A c \in S \cup {b} : g[c] \in Int
  BY <1>1
<1> HIDE DEF f, g, T
<1>7. SumOf(f, S) = SumOf(g, S)
  BY <1>2, SumSame
<1>8. SumOf(g, S \cup {b}) = g[b] + SumOf(g, S)
  BY <1>6, SumAdd
<1>9. QED
  BY <1>3, <1>4, <1>5, <1>7, <1>8

(* No batches, no amount.                                                  *)
LEMMA AmountEmpty == AmountOf({}) = 0
BY SumEmpty DEF AmountOf

(* A set of batches that the posting adds to, or not.                      *)
LEMMA AmountPosted ==
    ASSUME NEW S, IsFiniteSet(S), S \subseteq Batch, NEW b \in Batch, b \notin S,
           NEW P \in BOOLEAN, NEW T, T = IF P THEN S \cup {b} ELSE S
    PROVE  /\ AmountOf(S) \in Nat /\ b.amount \in Nat
           /\ AmountOf(T) = AmountOf(S) + IF P THEN b.amount ELSE 0
<1>1. AmountOf(S) \in Nat /\ b.amount \in Nat
  BY AmountType DEF Batch
<1>2. CASE P
  BY <1>1, <1>2, AmountAdd
<1>3. CASE ~P
  BY <1>1, <1>3
<1>4. QED
  BY <1>1, <1>2, <1>3

(* No posting is from an account to itself.                                *)
LEMMA TwoAccounts ==
    ASSUME NEW j
    PROVE  Source(j) # Target(j)
<1>1. CASE j.part = "hold"
  BY <1>1 DEF Source, Target
<1>2. CASE j.part = "release"
  BY <1>2 DEF Source, Target
<1>3. CASE j.part \notin {"hold", "release"}
  BY <1>3 DEF Source, Target
<1>4. QED
  BY <1>1, <1>2, <1>3

(* A posting that has not begun has moved nothing.                         *)
LEMMA MovedType ==
    ASSUME NEW j \in Job, NEW a
    PROVE  /\ Effect(j, a) \in Int /\ Moved(j, a) \in Int /\ HoldMoved(j, a) \in Int
           /\ j.pc # "post" => Effect(j, a) = 0
           /\ j.step = 1 => Effect(j, a) = 0
           /\ Effect(j, a) = 0 => Moved(j, a) = 0 /\ HoldMoved(j, a) = 0
<1>1. Size(j) \in Nat /\ j.step \in 1..3
  BY SizeType DEF Job
<1>2. Effect(j, a) \in Int /\ (j.pc # "post" => Effect(j, a) = 0) /\ (j.step = 1 => Effect(j, a) = 0)
  BY <1>1 DEF Effect
<1>3. QED
  BY <1>2 DEF Moved, HoldMoved

(* What another line adds to what is done.                                 *)
LEMMA EffectGrows ==
    ASSUME NEW i \in Job, NEW j \in Job, Same(j, i), i.pc = "post", i.step <= 2,
           j.pc = "post", j.part = i.part, j.step = i.step + 1, NEW a \in Accounts
    PROVE  Effect(j, a) = Effect(i, a) + IF a = NextAccount(i) THEN Entry(i) ELSE 0
<1>1. Source(j) = Source(i) /\ Target(j) = Target(i) /\ Size(j) = Size(i)
  BY DEF Same, Source, Target, Size
<1>2. Size(i) \in Nat /\ i.step \in 1..3 /\ Source(i) # Target(i)
  BY SizeType, TwoAccounts DEF Job
<1>3. CASE i.step = 1
  BY <1>1, <1>2, <1>3 DEF Effect, NextAccount, Entry
<1>4. CASE i.step = 2
  BY <1>1, <1>2, <1>4 DEF Effect, NextAccount, Entry
<1>5. QED
  BY <1>2, <1>3, <1>4

(* What is done when the posting is complete.                              *)
LEMMA EffectWhole ==
    ASSUME NEW j \in Job, j.pc = "post", j.step = 3, NEW a
    PROVE  Effect(j, a) = IF a = Source(j) THEN -Size(j) ELSE IF a = Target(j) THEN Size(j) ELSE 0
BY DEF Effect

(* What the other sessions see is not touched.                             *)
LEMMA ViewOfOthers ==
    ASSUME NEW s \in Sessions, NEW t \in Sessions, t # s, OnlyMine(s), NEW a \in Accounts,
           bal'[a] = bal[a] \/ a \in held[t]
    PROVE  View(t, a)' = View(t, a)
BY DEF OnlyMine, View

(* A step of s that commits nothing keeps CurrentFits if it does so for s. *)
LEMMA CurrentIsKept ==
    ASSUME CurrentFits, NEW s \in Sessions, OnlyJob(s), OnlyMine(s), bal' = bal,
           \A a \in Accounts : View(s, a)'.current = bal[a].current + Moved(job'[s], a)
    PROVE  CurrentFits'
<1>1. ASSUME NEW t \in Sessions, NEW a \in Accounts
      PROVE  View(t, a)'.current = bal'[a].current + Moved(job'[t], a)
  <2>1. CASE t = s
    BY <2>1
  <2>2. CASE t # s
    BY <2>2, ViewOfOthers DEF OnlyJob, CurrentFits
  <2>3. QED
    BY <2>1, <2>2
<1>2. QED
  BY <1>1 DEF CurrentFits

(* The transaction of s is committed.                                      *)
LEMMA ViewAfterCommit ==
    ASSUME ShapeInv, NEW s \in Sessions, OnlyMine(s), held'[s] = {}, bal' = Flushed(s),
           NEW a \in Accounts
    PROVE  /\ bal'[a] = View(s, a) /\ View(s, a)' = bal'[a]
           /\ \A t \in Sessions \ {s} :
                 View(t, a)' = IF a \in held[t] THEN View(t, a) ELSE bal'[a]
           /\ \A t \in Sessions \ {s} : a \in held[t] => bal'[a] = bal[a]
<1>1. TypeOK /\ LocksExclude
  BY DEF ShapeInv
<1>2. bal'[a] = View(s, a)
  BY <1>1, FlushedType
<1>3. View(s, a)' = bal'[a]
  BY DEF View
<1>4. ASSUME NEW t \in Sessions \ {s}
      PROVE  /\ View(t, a)' = IF a \in held[t] THEN View(t, a) ELSE bal'[a]
             /\ a \in held[t] => bal'[a] = bal[a]
  <2>1. a \in held[t] => a \notin held[s]
    BY <1>1 DEF LocksExclude
  <2>2. QED
    BY <1>2, <2>1 DEF OnlyMine, View
<1>5. QED
  BY <1>2, <1>3, <1>4

(* The commit of s makes of the balances what its posting has moved;       *)
(* nobody else has locked them.                                            *)
LEMMA CurrentAfterCommit ==
    ASSUME ShapeInv, CurrentFits, NEW s \in Sessions, OnlyJob(s), OnlyMine(s),
           held'[s] = {}, bal' = Flushed(s), job'[s].pc # "post"
    PROVE  /\ CurrentFits'
           /\ \A a \in Accounts : bal'[a].current = bal[a].current + Moved(job[s], a)
<1>1. TypeOK /\ job'[s] \in Job
  BY DEF ShapeInv, OnlyJob
<1>2. ASSUME NEW t \in Sessions, NEW a \in Accounts
      PROVE  /\ bal[a].current \in Int /\ Moved(job[t], a) \in Int
             /\ View(t, a).current = bal[a].current + Moved(job[t], a)
    BY <1>1, MovedType DEF TypeOK, Balance, CurrentFits
<1>3. ASSUME NEW a \in Accounts
      PROVE  bal'[a].current = bal[a].current + Moved(job[s], a) /\ bal'[a].current \in Int
  BY <1>2, ViewAfterCommit
<1>4. ASSUME NEW t \in Sessions, NEW a \in Accounts
      PROVE  View(t, a)'.current = bal'[a].current + Moved(job'[t], a)
  <2>1. CASE t = s
    <3>1. Moved(job'[s], a) = 0
      BY <1>1, MovedType
    <3>2. View(s, a)' = bal'[a]
      BY ViewAfterCommit
    <3>3. QED
      BY <1>3, <2>1, <3>1, <3>2
  <2>2. CASE t # s /\ a \in held[t]
    <3>1. View(t, a)' = View(t, a) /\ bal'[a] = bal[a] /\ job'[t] = job[t]
      BY <2>2, ViewAfterCommit DEF OnlyJob
    <3>2. QED
      BY <1>2, <3>1
  <2>3. CASE t # s /\ a \notin held[t]
    <3>1. View(t, a)' = bal'[a] /\ View(t, a) = bal[a] /\ job'[t] = job[t]
      BY <2>3, ViewAfterCommit DEF OnlyJob, View
    <3>2. Moved(job[t], a) = 0
      BY <1>2, <3>1
    <3>3. QED
      BY <1>3, <3>1, <3>2
  <2>4. QED
    BY <2>1, <2>2, <2>3
<1>5. QED
  BY <1>3, <1>4 DEF CurrentFits

(* A step that posts nothing and leaves the balances alone.                *)
LEMMA BooksAreKept ==
    ASSUME BooksInv, CurrentFits', UNCHANGED <<batches, bal>>
    PROVE  BooksInv'
BY DEF BooksInv, CurrentMatchesEntries, OneBatchPerKey, Money

(* Starting a command keeps the books.                                     *)
LEMMA BeginBooks ==
    ASSUME ShapeInv, BooksInv, NEW s \in Sessions, NEW j, Begin(s, j), Begun(j)
    PROVE  BooksInv'
<1>1. TypeOK /\ j \in Job /\ j.pc # "post" /\ CurrentFits
  BY DEF ShapeInv, Begun, JobFits, BooksInv
<1>2. OnlyJob(s) /\ job'[s] = j /\ job[s] = Idle
  BY <1>1, BeginJob
<1>3. OnlyMine(s) /\ UNCHANGED <<held, mine, batches, bal>>
  BY <1>1, MineIsKept DEF Begin, books
<1>4. \A a \in Accounts : View(s, a)'.current = bal[a].current + Moved(job'[s], a)
  <2>1. \A a \in Accounts : Moved(job[s], a) = 0 /\ Moved(job'[s], a) = 0
    BY <1>1, <1>2, MovedType, IdleFields
  <2>2. QED
    BY <1>1, <1>3, <2>1 DEF CurrentFits, View
<1>5. CurrentFits'
  BY <1>1, <1>2, <1>3, <1>4, CurrentIsKept
<1>6. QED
  BY <1>3, <1>5, BooksAreKept

(* So does every step that touches no balance.                             *)
LEMMA QuietBooks ==
    ASSUME ShapeInv, BooksInv, NEW s \in Sessions, OnlyJob(s), UNCHANGED <<books, held, mine>>,
           job[s].pc # "post", job'[s].pc = "post" => job'[s].step = 1
    PROVE  BooksInv'
<1>1. TypeOK /\ CurrentFits /\ job[s] \in Job /\ job'[s] \in Job
  BY DEF ShapeInv, BooksInv, OnlyJob, TypeOK
<1>2. OnlyMine(s) /\ UNCHANGED <<held, mine, batches, bal>>
  BY <1>1, MineIsKept DEF books
<1>3. \A a \in Accounts : Moved(job[s], a) = 0 /\ Moved(job'[s], a) = 0
  BY <1>1, MovedType
<1>4. \A a \in Accounts : View(s, a)'.current = bal[a].current + Moved(job'[s], a)
  BY <1>1, <1>2, <1>3 DEF CurrentFits, View
<1>5. CurrentFits'
  BY <1>1, <1>2, <1>4, CurrentIsKept
<1>6. QED
  BY <1>2, <1>5, BooksAreKept

(* InsertRequest keeps the books.                                          *)
LEMMA InsertBooks ==
    ASSUME ShapeInv, BooksInv, NEW s \in Sessions, InsertRequest(s)
    PROVE  BooksInv'
<1>1. TypeOK
  BY DEF ShapeInv
<1>2. OnlyJob(s) /\ job[s].pc = "insert" /\ job'[s].pc # "post"
  BY <1>1, InsertJob, IdleFields DEF Ends, MovesTo
<1>3. UNCHANGED <<books, held, mine>>
  BY DEF InsertRequest
<1>4. QED
  BY <1>2, <1>3, QuietBooks

(* LookupBatch keeps the books.                                            *)
LEMMA LookupBooks ==
    ASSUME ShapeInv, BooksInv, NEW s \in Sessions, LookupBatch(s)
    PROVE  BooksInv'
<1>1. TypeOK /\ JobFits(job[s]) /\ job[s].step \in 1..3
  BY DEF ShapeInv, TypeOK, Job
<1>2. OnlyJob(s) /\ job[s].pc = "lookup" /\ job'[s].step \in {1, job[s].step}
  BY <1>1, LookupJob DEF MovesTo
<1>3. job[s].step = 1
  BY <1>1, <1>2 DEF JobFits
<1>4. UNCHANGED <<books, held, mine>>
  BY DEF LookupBatch
<1>5. QED
  BY <1>2, <1>3, <1>4, QuietBooks

(* PostLine keeps the books: the line shows in the session's own view.     *)
LEMMA PostLineBooks ==
    ASSUME ShapeInv, BooksInv, NEW s \in Sessions, PostLine(s)
    PROVE  BooksInv'
<1>1. TypeOK /\ CurrentFits
  BY DEF ShapeInv, BooksInv
<1>2. PICK i \in Job, j \in Job : i = job[s] /\ j = job'[s]
  BY <1>1, PostLineJob DEF MovesTo, OnlyJob, TypeOK
<1>3. /\ OnlyJob(s) /\ Same(j, i) /\ i.pc = "post" /\ i.step <= 2
      /\ j.pc = "post" /\ j.part = i.part /\ j.step = i.step + 1
  BY <1>1, <1>2, PostLineJob DEF MovesTo
<1>4. PICK n \in Accounts : n = NextAccount(i)
  BY JobAccounts
<1>5. /\ OnlyMine(s) /\ held'[s] = held[s] \cup {n}
      /\ mine'[s][n] = Applied(View(s, n), i.part, Entry(i))
      /\ \A b \in Accounts \ {n} : mine'[s][b] = mine[s][b]
  BY <1>1, <1>2, <1>4, PostLineMine
<1>6. UNCHANGED <<batches, bal>>
  BY DEF PostLine, books
<1>7. Entry(i) \in Int
  BY SizeType DEF Entry
<1>8. ASSUME NEW a \in Accounts
      PROVE  View(s, a)'.current = bal[a].current + Moved(job'[s], a)
  <2>1. /\ View(s, a).current = bal[a].current + Moved(i, a)
        /\ bal[a].current \in Int /\ Moved(i, a) \in Int
    BY <1>1, <1>2, MovedType DEF CurrentFits, TypeOK, Balance
  <2>2. Effect(j, a) = Effect(i, a) + IF a = n THEN Entry(i) ELSE 0
    BY <1>3, <1>4, EffectGrows
  <2>3. Effect(i, a) \in Int
    BY MovedType
  <2>4. CASE a = n
    <3>1. View(s, a)' = Applied(View(s, a), i.part, Entry(i))
      BY <1>5, <2>4 DEF View
    <3>2. PICK v \in Balance : v = View(s, a)
      BY <1>1, ViewType
    <3>3. Applied(v, i.part, Entry(i)).current
             = IF IsHold(i.part) THEN v.current ELSE v.current + Entry(i)
      BY <1>7, BalanceFields
    <3>4. QED
      BY <1>2, <1>3, <1>7, <2>1, <2>2, <2>3, <2>4, <3>1, <3>2, <3>3 DEF Moved
  <2>5. CASE a # n
    <3>1. View(s, a)' = View(s, a)
      BY <1>5, <1>6, <2>5 DEF View
    <3>2. Moved(j, a) = Moved(i, a)
      BY <1>3, <2>2, <2>3, <2>5 DEF Moved
    <3>3. QED
      BY <1>2, <2>1, <3>1, <3>2
  <2>6. QED
    BY <2>4, <2>5
<1>9. CurrentFits'
  BY <1>1, <1>3, <1>5, <1>6, <1>8, CurrentIsKept
<1>10. QED
  BY <1>6, <1>9, BooksAreKept

(* CommitPosting keeps the books: the batch that is added is what the two  *)
(* balances have changed by, and its key is new.                           *)
LEMMA CommitBooks ==
    ASSUME ShapeInv, BooksInv, NEW s \in Sessions, CommitPosting(s)
    PROVE  BooksInv'
<1>1. TypeOK /\ CurrentFits /\ CurrentMatchesEntries /\ OneBatchPerKey
  BY DEF ShapeInv, BooksInv
<1>2. PICK j \in Job : j = job[s] /\ j.pc = "post" /\ j.step = 3
  BY <1>1, CommitJob DEF TypeOK
<1>3. OnlyJob(s) /\ job'[s].pc # "post"
  BY <1>1, CommitJob DEF MovesTo, NextPc
<1>4. OnlyMine(s) /\ held'[s] = {} /\ bal' = Flushed(s)
  BY <1>1, ReleaseMine DEF CommitPosting
<1>5. /\ CurrentFits'
      /\ \A a \in Accounts : bal'[a].current = bal[a].current + Moved(j, a)
  BY <1>1, <1>2, <1>3, <1>4, CurrentAfterCommit
<1>6. PICK b : b \notin batches /\ batches' = batches \cup {b} /\ IsBatchOf(b, j)
  BY <1>2, CommitBatch
<1>7. OneBatchPerKey'
  <2>1. \A c \in batches : c.key # b.key
    BY <1>2, <1>6, CommitBatch DEF Posted, IsBatchOf
  <2>2. QED
    BY <1>1, <1>6, <2>1 DEF OneBatchPerKey
<1>8. ASSUME NEW a \in Accounts
      PROVE  bal'[a].current = AmountOf({c \in Money' : c.to = a})
                                - AmountOf({c \in Money' : c.from = a})
  <2>1. PICK S, S1 : S = {c \in Money : c.to = a} /\ S1 = {c \in Money' : c.to = a}
    OBVIOUS
  <2>2. PICK R, R1 : R = {c \in Money : c.from = a} /\ R1 = {c \in Money' : c.from = a}
    OBVIOUS
  <2>3. PICK P \in BOOLEAN, Q \in BOOLEAN : /\ P <=> (~IsHold(j.part) /\ a = Target(j))
                                            /\ Q <=> (~IsHold(j.part) /\ a = Source(j))
    OBVIOUS
  <2>4. S1 = (IF P THEN S \cup {b} ELSE S) /\ R1 = (IF Q THEN R \cup {b} ELSE R)
    <3>1. Money' = IF IsHold(j.part) THEN Money ELSE Money \cup {b}
      BY <1>6 DEF Money, IsBatchOf
    <3>2. b.to = Target(j) /\ b.from = Source(j)
      BY <1>6 DEF IsBatchOf
    <3>3. QED
      BY <2>1, <2>2, <2>3, <3>1, <3>2
  <2>5. S \subseteq batches /\ R \subseteq batches
    BY <2>1, <2>2 DEF Money
  <2>6. IsFiniteSet(S) /\ IsFiniteSet(R) /\ b \notin S /\ b \notin R
        /\ S \subseteq Batch /\ R \subseteq Batch /\ b \in Batch
    BY <1>1, <1>6, <2>5, FS_Subset DEF ShapeInv, TypeOK, IsBatchOf
  <2>7. /\ AmountOf(S) \in Nat /\ b.amount \in Nat
        /\ AmountOf(S1) = AmountOf(S) + IF P THEN b.amount ELSE 0
    BY <2>4, <2>6, AmountPosted
  <2>8. /\ AmountOf(R) \in Nat
        /\ AmountOf(R1) = AmountOf(R) + IF Q THEN b.amount ELSE 0
    BY <2>4, <2>6, AmountPosted
  <2>9. bal[a].current = AmountOf(S) - AmountOf(R)
    BY <1>1, <2>1, <2>2 DEF CurrentMatchesEntries
  <2>10. Moved(j, a) = (IF P THEN b.amount ELSE 0) - (IF Q THEN b.amount ELSE 0)
    <3>1. b.amount = Size(j) /\ Source(j) # Target(j)
      BY <1>6, TwoAccounts DEF IsBatchOf
    <3>2. Effect(j, a) = IF a = Source(j) THEN -Size(j) ELSE IF a = Target(j) THEN Size(j) ELSE 0
      BY <1>2, EffectWhole
    <3>3. QED
      BY <2>3, <2>7, <3>1, <3>2 DEF Moved
  <2>11. bal'[a].current = bal[a].current + Moved(j, a)
    BY <1>5
  <2>12. AmountOf(S1) = AmountOf({c \in Money' : c.to = a})
         /\ AmountOf(R1) = AmountOf({c \in Money' : c.from = a})
    BY <2>1, <2>2
  <2>13. QED
    BY <2>7, <2>8, <2>9, <2>10, <2>11, <2>12
<1>9. QED
  BY <1>5, <1>7, <1>8 DEF BooksInv, CurrentMatchesEntries

(* ReadHolds keeps the books.                                              *)
LEMMA ReadBooks ==
    ASSUME ShapeInv, BooksInv, NEW s \in Sessions, ReadHolds(s)
    PROVE  BooksInv'
<1>1. TypeOK /\ CurrentFits /\ HeldFits(s)
  BY DEF ShapeInv, BooksInv
<1>2. OnlyJob(s) /\ job'[s].pc = "flush" /\ job[s].pc = "clear"
  BY <1>1, ReadJob DEF MovesTo
<1>3. OnlyMine(s) /\ held'[s] = {}
  BY <1>1, <1>2, ReadMine DEF HeldFits
<1>4. UNCHANGED <<batches, bal>>
  BY DEF ReadHolds, books
<1>5. \A a \in Accounts : View(s, a)'.current = bal[a].current + Moved(job'[s], a)
  <2>1. ASSUME NEW a \in Accounts
        PROVE  Moved(job'[s], a) = 0 /\ bal[a].current \in Int /\ View(s, a)' = bal[a]
    BY <1>1, <1>2, <1>3, <1>4, MovedType DEF OnlyJob, TypeOK, Balance, View
  <2>2. QED
    BY <2>1
<1>6. CurrentFits'
  BY <1>1, <1>2, <1>3, <1>4, <1>5, CurrentIsKept
<1>7. QED
  BY <1>4, <1>6, BooksAreKept

(* FlushHolds keeps the books: it never writes a current balance.          *)
LEMMA FlushBooks ==
    ASSUME ShapeInv, BooksInv, NEW s \in Sessions, FlushHolds(s)
    PROVE  BooksInv'
<1>1. TypeOK /\ CurrentFits /\ HeldFits(s)
  BY DEF ShapeInv, BooksInv
<1>2. OnlyJob(s) /\ job'[s].pc # "post" /\ job[s].pc = "flush"
  BY <1>1, FlushJob DEF MovesTo
<1>3. /\ OnlyMine(s) /\ held'[s] = Holders
      /\ \A a \in Holders : mine'[s][a] = Cleared(bal[a], mine[s][a])
  BY <1>1, FlushMine
<1>4. UNCHANGED <<batches, bal>>
  BY DEF FlushHolds, books
<1>5. ASSUME NEW a \in Accounts
      PROVE  View(s, a)'.current = bal[a].current + Moved(job'[s], a)
  <2>1. Moved(job'[s], a) = 0 /\ bal[a].current \in Int
    BY <1>1, <1>2, MovedType DEF OnlyJob, TypeOK, Balance
  <2>2. CASE a \in Holders
    <3>1. View(s, a)' = Cleared(bal[a], mine[s][a])
      BY <1>3, <2>2 DEF View
    <3>2. bal[a] \in Balance /\ mine[s][a] \in Balance
      BY <1>1 DEF TypeOK
    <3>3. Cleared(bal[a], mine[s][a]).current = bal[a].current
      BY <3>2, ClearedFields
    <3>4. QED
      BY <2>1, <3>1, <3>3
  <2>3. CASE a \notin Holders
    <3>1. View(s, a)' = bal[a]
      BY <1>3, <1>4, <2>3 DEF View
    <3>2. QED
      BY <2>1, <3>1
  <2>4. QED
    BY <2>2, <2>3
<1>6. CurrentFits'
  BY <1>1, <1>2, <1>3, <1>4, <1>5, CurrentIsKept
<1>7. QED
  BY <1>4, <1>6, BooksAreKept

(* Record keeps the books.                                                 *)
LEMMA RecordBooks ==
    ASSUME ShapeInv, BooksInv, NEW s \in Sessions, Record(s)
    PROVE  BooksInv'
<1>1. TypeOK /\ CurrentFits /\ job[s] \in Job
  BY DEF ShapeInv, BooksInv, TypeOK
<1>2. OnlyJob(s) /\ job'[s].pc # "post" /\ job[s].pc = "record"
  BY <1>1, RecordJob, IdleFields DEF Ends
<1>3. OnlyMine(s) /\ held'[s] = {} /\ bal' = Flushed(s) /\ batches' = batches
  BY <1>1, ReleaseMine DEF Record
<1>4. /\ CurrentFits'
      /\ \A a \in Accounts : bal'[a].current = bal[a].current + Moved(job[s], a)
  BY <1>1, <1>2, <1>3, CurrentAfterCommit
<1>5. \A a \in Accounts : bal'[a].current = bal[a].current
  BY <1>1, <1>2, <1>4, MovedType DEF TypeOK, Balance
<1>6. QED
  BY <1>3, <1>4, <1>5 DEF BooksInv, CurrentMatchesEntries, OneBatchPerKey, Money

(* A rollback keeps the books.                                             *)
LEMMA AbortBooks ==
    ASSUME ShapeInv, BooksInv, NEW s \in Sessions, Abort(s)
    PROVE  BooksInv'
<1>1. TypeOK /\ CurrentFits
  BY DEF ShapeInv, BooksInv
<1>2. OnlyJob(s) /\ job'[s] = Idle
  BY <1>1, AbortJob DEF Ends
<1>3. OnlyMine(s) /\ held'[s] = {} /\ UNCHANGED <<batches, bal>>
  BY <1>1, ReleaseMine DEF Abort, books
<1>4. ASSUME NEW a \in Accounts
      PROVE  View(s, a)'.current = bal[a].current + Moved(job'[s], a)
  <2>1. Moved(job'[s], a) = 0 /\ bal[a].current \in Int /\ View(s, a)' = bal[a]
    BY <1>1, <1>2, <1>3, MovedType, IdleFields DEF TypeOK, Balance, View
  <2>2. QED
    BY <2>1
<1>5. CurrentFits'
  BY <1>1, <1>2, <1>3, <1>4, CurrentIsKept
<1>6. QED
  BY <1>3, <1>5, BooksAreKept

-----------------------------------------------------------------------------
(* Refund requests and reversals.                                          *)
Kinds == {"refund", "reversal"}

(* The columns of a request that does not exist.                           *)
LEMMA NoRequestFields ==
    /\ NoRequest \in Request /\ NoRequest.status = "none" /\ NoRequest.amount = 0
    /\ ~NoRequest.closed
BY DEF NoRequest, Request

(* A step of s that writes none of the rows.                               *)
LEMMA RequestsQuiet ==
    ASSUME NEW cmd, NEW K, NEW T, NEW B, NEW J, NEW J1, NEW A, NEW s \in Sessions,
           RequestsFit(cmd, K, T, B, J, A), \A t \in Sessions \ {s} : J1[t] = J[t],
           \A k \in K : Carries(J1[s], cmd, k) =>
               T[k] = NoRequest /\ \A t \in Sessions \ {s} : ~Carries(J[t], cmd, k),
           J1[s].cmd = cmd /\ J1[s].pc = "record" => Stored(J1[s], T)
    PROVE  RequestsFit(cmd, K, T, B, J1, A)
<1>1. \A t \in Sessions, k \in K : Carries(J1[t], cmd, k) => T[k] = NoRequest
  BY DEF RequestsFit
<1>2. \A t, u \in Sessions, k \in K : Carries(J1[t], cmd, k) /\ Carries(J1[u], cmd, k) => t = u
  BY DEF RequestsFit
<1>3. \A t \in Sessions : J1[t].cmd = cmd /\ J1[t].pc = "record" => Stored(J1[t], T)
  BY DEF RequestsFit
<1>4. QED
  BY <1>1, <1>2, <1>3 DEF RequestsFit

(* The command of s goes on as it was.                                     *)
LEMMA StillCarries ==
    ASSUME NEW cmd, NEW K, NEW T, NEW B, NEW J, NEW J1, NEW A, NEW s \in Sessions,
           RequestsFit(cmd, K, T, B, J, A), \A t \in Sessions \ {s} : J1[t] = J[t],
           J1[s].cmd = J[s].cmd, J1[s].key = J[s].key, J[s].pc \in {"lookup", "post"},
           J1[s].pc \in {"lookup", "post"}
    PROVE  RequestsFit(cmd, K, T, B, J1, A)
<1>1. \A k \in K : Carries(J1[s], cmd, k) => Carries(J[s], cmd, k)
  BY DEF Carries
<1>2. \A k \in K : Carries(J1[s], cmd, k) =>
         T[k] = NoRequest /\ \A t \in Sessions \ {s} : ~Carries(J[t], cmd, k)
  BY <1>1 DEF RequestsFit
<1>3. J1[s].pc # "record"
  OBVIOUS
<1>4. QED
  BY <1>2, <1>3, RequestsQuiet

(* A command of another kind, or one that ends or has only begun.          *)
LEMMA RequestsOther ==
    ASSUME NEW cmd, NEW K, NEW T, NEW B, NEW J, NEW J1, NEW A, NEW s \in Sessions,
           RequestsFit(cmd, K, T, B, J, A), \A t \in Sessions \ {s} : J1[t] = J[t],
           J1[s].cmd # cmd \/ J1[s].pc \notin {"lookup", "post", "record"}
    PROVE  RequestsFit(cmd, K, T, B, J1, A)
<1>1. \A k \in K : ~Carries(J1[s], cmd, k)
  BY DEF Carries
<1>2. ~(J1[s].cmd = cmd /\ J1[s].pc = "record")
  OBVIOUS
<1>3. QED
  BY <1>1, <1>2, RequestsQuiet

(* The posting of j, the command of s, is committed.                       *)
Commits(cmd, K, T, U, B, B1, J, J1, s, j, b) ==
    /\ cmd \in Kinds /\ T \in [K -> Request] /\ s \in Sessions /\ j \in Job
    /\ \A t \in Sessions \ {s} : J1[t] = J[t]
    /\ \A t \in Sessions : J[t].cmd = cmd => J[t].key \in K
    /\ j = J[s] /\ JobFits(j) /\ j.pc = "post" /\ B1 = B \cup {b}
    /\ IsBatchOf(b, j) /\ Requested(j, cmd, K, T, U) /\ Same(J1[s], j) /\ J1[s].pc = NextPc(j)

(* The commit of a posting stores its request with it.                     *)
LEMMA RequestsCommit ==
    ASSUME NEW cmd, NEW K, NEW T, NEW U, NEW B, NEW B1, NEW J, NEW J1, NEW A, NEW s, NEW j, NEW b,
           RequestsFit(cmd, K, T, B, J, A), Commits(cmd, K, T, U, B, B1, J, J1, s, j, b)
    PROVE  RequestsFit(cmd, K, U, B1, J1, A)
<1> USE DEF Commits
<1>1. b.key[1] = j.cmd /\ b.key[3] = j.key
  BY KeyType DEF IsBatchOf
<1>2. CASE j.cmd # cmd
  <2>1. U = T /\ J1[s].cmd # cmd
    BY <1>2 DEF Requested, Same
  <2>2. RequestsFit(cmd, K, T, B1, J, A)
    <3>1. \A c \in B1 : c.key[1] = cmd => c \in B
      BY <1>1, <1>2
    <3>2. \A c \in B1 : c.key[1] = cmd => c.key[3] \in K /\ T[c.key[3]] # NoRequest
      BY <3>1 DEF RequestsFit
    <3>3. B \subseteq B1
      OBVIOUS
    <3>4. \A k \in K : T[k] # NoRequest =>
             \E c \in B1 : c.subject = cmd /\ c.key = RequestKey(cmd, k) /\ c.amount = T[k].amount
      BY <3>3 DEF RequestsFit
    <3>5. QED
      BY <3>2, <3>4 DEF RequestsFit
  <2>3. QED
    BY <2>1, <2>2, RequestsOther
<1>3. CASE j.cmd = cmd
  <2>1. PICK k \in K : k = j.key
    BY <1>3
  <2>2. /\ OnlyRequest(T, U, K, k) /\ U[k].status = "REQUESTED" /\ U[k].amount = j.amount
        /\ U[k].closed = j.closed
    BY <1>3, <2>1 DEF Requested
  <2>3. U[k] # NoRequest
    BY <2>2, NoRequestFields
  <2>4. Carries(J[s], cmd, k) /\ T[k] = NoRequest
    BY <1>3, <2>1 DEF Carries, RequestsFit
  <2>5. J1[s].pc = "record" /\ J1[s].cmd = cmd /\ J1[s].key = k /\ J1[s].amount = j.amount
        /\ J1[s].closed = j.closed
    BY <1>3, <2>1 DEF NextPc, Same, Kinds
  <2>6. b.subject = cmd /\ b.key = RequestKey(cmd, k) /\ b.amount = U[k].amount
    BY <1>3, <2>1, <2>2 DEF IsBatchOf, BatchKey, RequestKey, Subject, Size, JobFits, Kinds
  <2>7. \A l \in K : U[l] # NoRequest =>
           \E c \in B1 : c.subject = cmd /\ c.key = RequestKey(cmd, l) /\ c.amount = U[l].amount
    <3>1. ASSUME NEW l \in K, l # k, U[l] # NoRequest
          PROVE  \E c \in B : c.subject = cmd /\ c.key = RequestKey(cmd, l) /\ c.amount = U[l].amount
      BY <2>2, <3>1 DEF RequestsFit, OnlyRequest
    <3>2. QED
      BY <2>6, <3>1
  <2>8. \A c \in B1 : c.key[1] = cmd => c.key[3] \in K /\ U[c.key[3]] # NoRequest
    <3>1. ASSUME NEW c \in B, c.key[1] = cmd
          PROVE  c.key[3] \in K /\ U[c.key[3]] # NoRequest
      <4>1. c.key[3] \in K /\ T[c.key[3]] # NoRequest
        BY <3>1 DEF RequestsFit
      <4>2. QED
        BY <2>2, <2>3, <4>1 DEF OnlyRequest
    <3>2. QED
      BY <1>1, <2>1, <2>3, <3>1
  <2>9. \A t \in Sessions, l \in K : Carries(J1[t], cmd, l) => t # s /\ l # k /\ Carries(J[t], cmd, l)
    <3>1. \A l \in K : ~Carries(J1[s], cmd, l)
      BY <2>5 DEF Carries
    <3>2. QED
      BY <2>4, <3>1 DEF RequestsFit
  <2>10. \A t, u \in Sessions, l \in K : Carries(J1[t], cmd, l) /\ Carries(J1[u], cmd, l) => t = u
    BY <2>9 DEF RequestsFit
  <2>11. \A t \in Sessions, l \in K : Carries(J1[t], cmd, l) => U[l] = NoRequest
    BY <2>2, <2>9 DEF RequestsFit, OnlyRequest
  <2>12. ASSUME NEW t \in Sessions, J1[t].cmd = cmd, J1[t].pc = "record"
         PROVE  Stored(J1[t], U)
    <3>1. CASE t = s
      BY <2>2, <2>3, <2>5, <3>1 DEF Stored
    <3>2. CASE t # s
      <4>1. Stored(J[t], T)
        BY <2>12, <3>2 DEF RequestsFit
      <4>2. J[t].key # k
        BY <2>4, <4>1 DEF Stored
      <4>3. J[t].key \in K /\ J1[t] = J[t]
        BY <2>12, <3>2
      <4>4. QED
        BY <2>2, <4>1, <4>2, <4>3 DEF Stored, OnlyRequest
    <3>3. QED
      BY <3>1, <3>2
  <2>13. \A l \in K : U[l].status = "POSTED" /\ U[l].closed => <<cmd, NoId, l>> \in A
    BY <2>2 DEF OnlyRequest, RequestsFit
  <2>14. \A l \in K : U[l].status = "none" => U[l] = NoRequest
    BY <2>2 DEF OnlyRequest, RequestsFit
  <2>15. QED
    BY <2>7, <2>8, <2>10, <2>11, <2>12, <2>13, <2>14 DEF RequestsFit
<1>4. QED
  BY <1>2, <1>3

(* A command is recorded.                                                  *)
LEMMA RequestsRecord ==
    ASSUME NEW cmd \in Kinds, NEW K, NEW T \in [K -> Request], NEW U, NEW B, NEW J, NEW J1,
           NEW A, NEW A1, NEW s \in Sessions, NEW j \in Job,
           RequestsFit(cmd, K, T, B, J, A), \A t \in Sessions \ {s} : J1[t] = J[t],
           \A t \in Sessions : J[t].cmd = cmd => J[t].key \in K,
           j = J[s], JobFits(j), j.pc = "record", J1[s] = Idle,
           A1 = A \cup AdjustmentOf(j), Finished(j, cmd, K, T, U)
    PROVE  RequestsFit(cmd, K, U, B, J1, A1)
<1>1. RequestsFit(cmd, K, T, B, J1, A)
  <2>1. Idle.pc = "idle"
    BY IdleFields
  <2>2. QED
    BY <2>1, RequestsOther
<1>2. A \subseteq A1
  OBVIOUS
<1>3. CASE j.cmd # cmd
  <2>1. U = T
    BY <1>3 DEF Finished
  <2>2. QED
    BY <1>1, <1>2, <2>1 DEF RequestsFit
<1>4. CASE j.cmd = cmd
  <2>1. PICK k \in K : k = j.key
    BY <1>4
  <2>2. /\ OnlyRequest(T, U, K, k) /\ U[k].status = "POSTED"
        /\ U[k].amount = T[k].amount /\ U[k].closed = T[k].closed
    BY <1>4, <2>1 DEF Finished
  <2>3. U[k] # NoRequest
    BY <2>2, NoRequestFields
  <2>4. Stored(j, T)
    BY <1>4 DEF RequestsFit
  <2>5. U[k].closed => <<cmd, NoId, k>> \in A1
    <3>1. j.id = NoId
      BY <1>4 DEF JobFits, Kinds
    <3>2. QED
      BY <1>4, <2>1, <2>2, <2>4, <3>1 DEF Stored, AdjustmentOf
  <2>6. \A l \in K : U[l] # NoRequest =>
           \E c \in B : c.subject = cmd /\ c.key = RequestKey(cmd, l) /\ c.amount = U[l].amount
    <3>1. T[k] # NoRequest
      BY <2>1, <2>4 DEF Stored
    <3>2. \A l \in K : U[l] # NoRequest => T[l] # NoRequest /\ U[l].amount = T[l].amount
      BY <2>2, <3>1 DEF OnlyRequest
    <3>3. QED
      BY <3>2 DEF RequestsFit
  <2>7. \A c \in B : c.key[1] = cmd => c.key[3] \in K /\ U[c.key[3]] # NoRequest
    BY <2>2, <2>3 DEF OnlyRequest, RequestsFit
  <2>8. \A t \in Sessions, l \in K : Carries(J1[t], cmd, l) => U[l] = NoRequest
    BY <1>1, <2>1, <2>2, <2>4 DEF OnlyRequest, RequestsFit, Stored
  <2>9. ASSUME NEW t \in Sessions, J1[t].cmd = cmd, J1[t].pc = "record"
        PROVE  Stored(J1[t], U)
    <3>1. t # s
      BY <2>9, IdleFields
    <3>2. J1[t] = J[t] /\ J[t].key \in K /\ Stored(J[t], T)
      BY <2>9, <3>1 DEF RequestsFit
    <3>3. QED
      BY <2>2, <2>3, <3>2 DEF OnlyRequest, Stored
  <2>10. \A l \in K : U[l].status = "POSTED" /\ U[l].closed => <<cmd, NoId, l>> \in A1
    BY <1>2, <2>2, <2>5 DEF OnlyRequest, RequestsFit
  <2>11. \A l \in K : U[l].status = "none" => U[l] = NoRequest
    BY <2>2 DEF OnlyRequest, RequestsFit
  <2>12. QED
    BY <1>1, <2>6, <2>7, <2>8, <2>9, <2>10, <2>11 DEF RequestsFit
<1>5. QED
  BY <1>3, <1>4

RequestsInv ==
    /\ RequestsFit("refund", RefundKeys, refunds, batches, job, adjustments)
    /\ RequestsFit("reversal", ReversalKeys, reversals, batches, job, adjustments)

(* The key of a request is one of its kind.                                *)
LEMMA KeysFit ==
    ASSUME ShapeInv
    PROVE  \A t \in Sessions : /\ job[t].cmd = "refund" => job[t].key \in RefundKeys
                               /\ job[t].cmd = "reversal" => job[t].key \in ReversalKeys
BY DEF ShapeInv, JobFits

(* A step of s that commits nothing.                                       *)
Quiet(s) ==
    \/ \E j : Begin(s, j) /\ Begun(j)
    \/ InsertRequest(s) \/ LookupBatch(s) \/ PostLine(s) \/ ReadHolds(s) \/ FlushHolds(s)
    \/ Abort(s)

(* A step that commits nothing changes no row.                             *)
LEMMA QuietRows ==
    ASSUME NEW s \in Sessions, Quiet(s)
    PROVE  UNCHANGED <<rows, books>>
<1>1. CASE \E j : Begin(s, j) /\ Begun(j)
  BY <1>1 DEF Begin
<1>2. CASE InsertRequest(s)
  BY <1>2 DEF InsertRequest
<1>3. CASE LookupBatch(s)
  BY <1>3 DEF LookupBatch
<1>4. CASE PostLine(s)
  BY <1>4 DEF PostLine
<1>5. CASE ReadHolds(s)
  BY <1>5 DEF ReadHolds
<1>6. CASE FlushHolds(s)
  BY <1>6 DEF FlushHolds
<1>7. CASE Abort(s)
  BY <1>7 DEF Abort
<1>8. QED
  BY <1>1, <1>2, <1>3, <1>4, <1>5, <1>6, <1>7 DEF Quiet

(* Nor does it make a posting of a request that is stored.                 *)
LEMMA QuietKind ==
    ASSUME ShapeInv, NEW s \in Sessions, Quiet(s), NEW cmd \in Kinds, NEW K, NEW T,
           \A t \in Sessions : job[t].cmd = cmd => job[t].key \in K,
           job[s].cmd = cmd => (IsKnown(job[s]) <=> T[job[s].key] # NoRequest),
           RequestsFit(cmd, K, T, batches, job, adjustments)
    PROVE  RequestsFit(cmd, K, T, batches, job', adjustments)
<1>1. TypeOK /\ JobFits(job[s])
  BY DEF ShapeInv
<1>2. ASSUME OnlyJob(s), job'[s].cmd # cmd \/ job'[s].pc \notin {"lookup", "post", "record"}
      PROVE  RequestsFit(cmd, K, T, batches, job', adjustments)
  BY <1>2, RequestsOther DEF OnlyJob
<1>3. ASSUME Ends(s) PROVE RequestsFit(cmd, K, T, batches, job', adjustments)
  BY <1>2, <1>3, IdleFields DEF Ends
<1>4. CASE \E j : Begin(s, j) /\ Begun(j)
  <2>1. PICK j \in Job : Begin(s, j) /\ Begun(j)
    BY <1>4 DEF Begun, JobFits
  <2>2. OnlyJob(s) /\ job'[s] = j
    BY <1>1, <2>1, BeginJob
  <2>3. j.cmd # cmd \/ j.pc \notin {"lookup", "post", "record"}
    BY <2>1 DEF Begun, FindsRefund, FindsReversal, FindsNoDispute, FindsOpen, FindsStatus, Kinds
  <2>4. QED
    BY <1>2, <2>2, <2>3
<1>5. CASE InsertRequest(s)
  <2>1. CASE ~IsKnown(job[s]) /\ MovesTo(s, "lookup", job[s].part, job[s].step)
    <3>1. OnlyJob(s) /\ job'[s].cmd = job[s].cmd /\ job'[s].key = job[s].key
          /\ job'[s].pc = "lookup"
      BY <2>1 DEF MovesTo, Same
    <3>2. ASSUME NEW k \in K, Carries(job'[s], cmd, k)
          PROVE  T[k] = NoRequest /\ \A t \in Sessions \ {s} : ~Carries(job[t], cmd, k)
      <4>1. job[s].cmd = cmd /\ job[s].key = k
        BY <3>1, <3>2 DEF Carries
      <4>2. QED
        BY <1>5, <2>1, <4>1 DEF InsertRequest, Carries
    <3>3. QED
      BY <3>1, <3>2, RequestsQuiet DEF OnlyJob
  <2>2. QED
    BY <1>1, <1>3, <1>5, <2>1, InsertJob
<1>6. CASE LookupBatch(s)
  <2>1. CASE Posted(BatchKey(job[s])) /\ MovesTo(s, NextPc(job[s]), NextPart(job[s]), 1)
    <3>1. job[s].cmd # cmd
      <4>1. SUFFICES ASSUME job[s].cmd = cmd PROVE FALSE
        OBVIOUS
      <4>2. PICK b \in batches : b.key = BatchKey(job[s])
        BY <2>1 DEF Posted
      <4>3. b.key[1] = cmd /\ b.key[3] = job[s].key /\ job[s].key \in K
        BY <1>1, <4>1, <4>2, KeyType DEF TypeOK
      <4>4. Carries(job[s], cmd, job[s].key)
        BY <1>1, <1>6, <4>1, LookupJob DEF Carries
      <4>5. QED
        BY <4>2, <4>3, <4>4 DEF RequestsFit
    <3>2. QED
      BY <1>2, <2>1, <3>1 DEF MovesTo, Same
  <2>2. CASE MovesTo(s, "post", job[s].part, job[s].step)
    BY <1>1, <1>6, <2>2, LookupJob, StillCarries DEF MovesTo, Same, OnlyJob
  <2>3. QED
    BY <1>1, <1>6, <2>1, <2>2, LookupJob
<1>7. CASE PostLine(s)
  BY <1>1, <1>7, PostLineJob, StillCarries DEF MovesTo, Same, OnlyJob
<1>8. CASE ReadHolds(s)
  <2>1. MovesTo(s, "flush", job[s].part, job[s].step)
    BY <1>1, <1>8, ReadJob
  <2>2. QED
    BY <1>2, <2>1 DEF MovesTo
<1>9. CASE FlushHolds(s)
  <2>1. MovesTo(s, IF Fee > 0 THEN "lookup" ELSE "record",
                   IF Fee > 0 THEN "fee" ELSE job[s].part, job[s].step) /\ job[s].pc = "flush"
    BY <1>1, <1>9, FlushJob
  <2>2. job[s].cmd # cmd
    <3>1. job[s].pc = "flush"
      BY <2>1
    <3>2. job[s].cmd \notin {"refund", "reversal"}
      BY <1>1, <3>1 DEF JobFits
    <3>3. QED
      BY <3>2 DEF Kinds
  <2>3. QED
    BY <1>2, <2>1, <2>2 DEF MovesTo, Same
<1>10. CASE Abort(s)
  BY <1>1, <1>3, <1>10, AbortJob
<1>11. QED
  BY <1>4, <1>5, <1>6, <1>7, <1>8, <1>9, <1>10 DEF Quiet

(* The requests fit after a step that commits nothing.                     *)
LEMMA QuietRequests ==
    ASSUME ShapeInv, RequestsInv, NEW s \in Sessions, Quiet(s)
    PROVE  RequestsInv'
<1>1. UNCHANGED <<refunds, reversals, batches, adjustments>>
  BY QuietRows DEF rows, books
<1>2. job[s].cmd = "refund" => (IsKnown(job[s]) <=> refunds[job[s].key] # NoRequest)
  BY DEF IsKnown
<1>3. job[s].cmd = "reversal" => (IsKnown(job[s]) <=> reversals[job[s].key] # NoRequest)
  BY DEF IsKnown
<1>4. RequestsFit("refund", RefundKeys, refunds, batches, job', adjustments)
  BY <1>2, KeysFit, QuietKind DEF Kinds, RequestsInv
<1>5. RequestsFit("reversal", ReversalKeys, reversals, batches, job', adjustments)
  BY <1>3, KeysFit, QuietKind DEF Kinds, RequestsInv
<1>6. QED
  BY <1>1, <1>4, <1>5 DEF RequestsInv

(* The requests fit after the commit of a posting.                         *)
LEMMA CommitRequests ==
    ASSUME ShapeInv, RequestsInv, NEW s \in Sessions, CommitPosting(s)
    PROVE  RequestsInv'
<1>1. PICK j \in Job : j = job[s] /\ JobFits(j) /\ j.pc = "post"
  BY CommitJob DEF ShapeInv, TypeOK
<1>2. MovesTo(s, NextPc(j), NextPart(j), 1)
  BY <1>1, CommitJob DEF ShapeInv
<1>3. Same(job'[s], j) /\ job'[s].pc = NextPc(j) /\ \A t \in Sessions \ {s} : job'[t] = job[t]
  BY <1>1, <1>2 DEF MovesTo, OnlyJob
<1>4. PICK b : batches' = batches \cup {b} /\ IsBatchOf(b, j)
  BY <1>1, CommitBatch
<1>5. /\ Requested(j, "refund", RefundKeys, refunds, refunds')
      /\ Requested(j, "reversal", ReversalKeys, reversals, reversals')
      /\ adjustments' = adjustments
  BY <1>1, CommitRows
<1>7. RequestsFit("refund", RefundKeys, refunds', batches', job', adjustments)
  <2>1. "refund" \in Kinds /\ refunds \in [RefundKeys -> Request]
    BY DEF Kinds, ShapeInv, TypeOK
  <2>2. \A t \in Sessions : job[t].cmd = "refund" => job[t].key \in RefundKeys
    BY KeysFit
  <2>3. RequestsFit("refund", RefundKeys, refunds, batches, job, adjustments)
    BY DEF RequestsInv
  <2>4. Requested(j, "refund", RefundKeys, refunds, refunds')
    BY <1>5
  <2>5. Commits("refund", RefundKeys, refunds, refunds', batches, batches', job, job', s, j, b)
    BY <1>1, <1>3, <1>4, <2>1, <2>2, <2>4 DEF Commits
  <2>6. QED
    BY <2>3, <2>5, RequestsCommit
<1>8. RequestsFit("reversal", ReversalKeys, reversals', batches', job', adjustments)
  <2>1. "reversal" \in Kinds /\ reversals \in [ReversalKeys -> Request]
    BY DEF Kinds, ShapeInv, TypeOK
  <2>2. \A t \in Sessions : job[t].cmd = "reversal" => job[t].key \in ReversalKeys
    BY KeysFit
  <2>3. RequestsFit("reversal", ReversalKeys, reversals, batches, job, adjustments)
    BY DEF RequestsInv
  <2>4. Requested(j, "reversal", ReversalKeys, reversals, reversals')
    BY <1>5
  <2>5. Commits("reversal", ReversalKeys, reversals, reversals', batches, batches', job, job', s, j, b)
    BY <1>1, <1>3, <1>4, <2>1, <2>2, <2>4 DEF Commits
  <2>6. QED
    BY <2>3, <2>5, RequestsCommit
<1>9. QED
  BY <1>5, <1>7, <1>8 DEF RequestsInv

(* The requests fit after the second commit: what is marked POSTED has its *)
(* adjustment in the same transaction.                                     *)
LEMMA RecordRequests ==
    ASSUME ShapeInv, RequestsInv, NEW s \in Sessions, Record(s)
    PROVE  RequestsInv'
<1>1. PICK j \in Job : j = job[s] /\ JobFits(j) /\ j.pc = "record"
  BY RecordJob DEF ShapeInv, TypeOK
<1>2. job'[s] = Idle /\ \A t \in Sessions \ {s} : job'[t] = job[t]
  BY RecordJob DEF Ends, OnlyJob, ShapeInv
<1>3. /\ Finished(j, "refund", RefundKeys, refunds, refunds')
      /\ Finished(j, "reversal", ReversalKeys, reversals, reversals')
      /\ adjustments' = adjustments \cup AdjustmentOf(j) /\ batches' = batches
  BY <1>1, RecordRows
<1>4. refunds \in [RefundKeys -> Request] /\ reversals \in [ReversalKeys -> Request]
  BY DEF ShapeInv, TypeOK
<1>5. RequestsFit("refund", RefundKeys, refunds', batches, job', adjustments')
  BY <1>1, <1>2, <1>3, <1>4, KeysFit, RequestsRecord DEF Kinds, RequestsInv
<1>6. RequestsFit("reversal", ReversalKeys, reversals', batches, job', adjustments')
  BY <1>1, <1>2, <1>3, <1>4, KeysFit, RequestsRecord DEF Kinds, RequestsInv
<1>7. QED
  BY <1>3, <1>5, <1>6 DEF RequestsInv

-----------------------------------------------------------------------------
(* Disputes.                                                               *)
LEMMA NoDisputeFields ==
    /\ NoDispute.status = "none" /\ NoDispute.amount = 0
    /\ ~NoDispute.hold /\ NoDispute.holdKey = NoId
BY DEF NoDispute

(* A step that commits nothing: s ends, moves on or begins.                *)
LEMMA QuietJob ==
    ASSUME ShapeInv, NEW s \in Sessions, Quiet(s)
    PROVE  /\ OnlyJob(s)
           /\ \/ job'[s] = Idle
              \/ Same(job'[s], job[s]) /\ job[s].pc \in {"insert", "lookup", "post", "clear", "flush"}
              \/ Begun(job'[s]) /\ job[s] = Idle
<1>1. TypeOK
  BY DEF ShapeInv
<1>2. CASE \E j : Begin(s, j) /\ Begun(j)
  <2>1. PICK j \in Job : Begin(s, j) /\ Begun(j)
    BY <1>2 DEF Begun, JobFits
  <2>2. QED
    BY <1>1, <2>1, BeginJob
<1>3. CASE InsertRequest(s)
  BY <1>1, <1>3, InsertJob DEF Ends, MovesTo
<1>4. CASE LookupBatch(s)
  BY <1>1, <1>4, LookupJob DEF MovesTo
<1>5. CASE PostLine(s)
  BY <1>1, <1>5, PostLineJob DEF MovesTo
<1>6. CASE ReadHolds(s)
  BY <1>1, <1>6, ReadJob DEF MovesTo
<1>7. CASE FlushHolds(s)
  BY <1>1, <1>7, FlushJob DEF MovesTo
<1>8. CASE Abort(s)
  BY <1>1, <1>8, AbortJob DEF Ends
<1>9. QED
  BY <1>2, <1>3, <1>4, <1>5, <1>6, <1>7, <1>8 DEF Quiet

(* The dispute a command begins with.                                      *)
LEMMA BegunDispute ==
    ASSUME DisputesFit, NEW j \in Job, Begun(j), NEW d \in Disputes, j.id = d
    PROVE  /\ j.cmd = "open" => disputes[d] = NoDispute /\ \A t \in Sessions : job[t].id # d
           /\ j.cmd # "open" => Exists(d)
           /\ j.cmd \in {"accept", "reject"} => j.amount = disputes[d].amount
<1>1. /\ j.cmd = "refund" => FALSE
      /\ j.cmd = "reversal" => FALSE
  BY IdsAreDistinct DEF Begun, JobFits, IdsAreDistinct
<1>2. CASE FindsNoDispute(j)
  BY <1>2 DEF FindsNoDispute
<1>3. CASE FindsOpen(j)
  <2>1. Exists(d)
    BY <1>3 DEF FindsOpen, IsOpen, DisputesFit, StatusFits
  <2>2. QED
    BY <1>3, <2>1 DEF FindsOpen
<1>4. CASE FindsStatus(j)
  <2>1. Exists(d)
    BY <1>4 DEF FindsStatus, DisputesFit, StatusFits
  <2>2. QED
    BY <1>4, <2>1 DEF FindsStatus
<1>5. QED
  BY <1>1, <1>2, <1>3, <1>4 DEF Begun, FindsRefund, FindsReversal

(* The disputes fit after a step that commits nothing.                     *)
LEMMA QuietDisputes ==
    ASSUME ShapeInv, DisputesFit, NEW s \in Sessions, Quiet(s)
    PROVE  DisputesFit'
<1>1. disputes' = disputes /\ batches' = batches
  BY QuietRows DEF rows, books
<1>2. PICK i \in Job, j \in Job : i = job[s] /\ j = job'[s] /\ JobFits(i)
  BY QuietJob DEF ShapeInv, TypeOK, OnlyJob
<1>3. /\ \A t \in Sessions \ {s} : job'[t] = job[t]
      /\ \/ j = Idle
         \/ Same(j, i) /\ i.pc # "record"
         \/ Begun(j) /\ i = Idle
  BY <1>2, QuietJob DEF OnlyJob
<1>4. NoId \notin Disputes
  BY IdsAreDistinct DEF IdsAreDistinct
<1>5. StatusFits' /\ \A b \in batches' : BatchFits(b)'
  BY <1>1 DEF DisputesFit, StatusFits, BatchFits, Exists
<1>6. OpensFit'
  <2>1. CASE j = Idle
    <3>1. \A d \in Disputes : ~OpensOf(s, d)'
      BY <1>2, <2>1, IdleFields DEF OpensOf
    <3>2. QED
      BY <1>1, <1>3, <3>1 DEF DisputesFit, OpensFit, OpensOf, Exists
  <2>2. CASE Same(j, i) /\ i.pc # "record"
    <3>1. j.cmd = i.cmd /\ j.id = i.id /\ j.hold = i.hold /\ j.amount = i.amount
      BY <2>2 DEF Same
    <3>2. \A t \in Sessions, d \in Disputes : OpensOf(t, d)' <=> OpensOf(t, d)
      BY <1>2, <1>3, <3>1 DEF OpensOf
    <3>3. ASSUME NEW t \in Sessions, NEW d \in Disputes, OpensOf(t, d)'
          PROVE  /\ job'[t].pc # "record" \/ ~job'[t].hold => ~Exists(d)
                 /\ disputes[d].holdKey = NoId /\ ~disputes[d].hold
                 /\ Exists(d) => disputes[d].amount = job'[t].amount
      <4>1. CASE t = s
        BY <1>2, <2>2, <3>1, <3>2, <3>3, <4>1 DEF DisputesFit, OpensFit
      <4>2. CASE t # s
        BY <1>3, <3>2, <3>3, <4>2 DEF DisputesFit, OpensFit
      <4>3. QED
        BY <4>1, <4>2
    <3>4. QED
      BY <1>1, <3>2, <3>3 DEF DisputesFit, OpensFit, Exists
  <2>3. CASE Begun(j)
    <3>1. CASE j.cmd # "open"
      <4>1. \A d \in Disputes : ~OpensOf(s, d)'
        BY <1>2, <3>1 DEF OpensOf
      <4>2. QED
        BY <1>1, <1>3, <4>1 DEF DisputesFit, OpensFit, OpensOf, Exists
    <3>2. CASE j.cmd = "open"
      <4>1. PICK e \in Disputes : e = j.id
        BY <2>3, <3>2 DEF Begun, JobFits
      <4>2. disputes[e] = NoDispute /\ \A t \in Sessions : job[t].id # e
        BY <2>3, <3>2, <4>1, BegunDispute
      <4>3. \A t \in Sessions, d \in Disputes :
               OpensOf(t, d)' => IF t = s THEN d = e ELSE d # e /\ OpensOf(t, d)
        BY <1>2, <1>3, <4>1, <4>2 DEF OpensOf
      <4>4. ~Exists(e) /\ disputes[e].holdKey = NoId /\ ~disputes[e].hold
        BY <4>2, NoDisputeFields DEF Exists
      <4>5. ASSUME NEW t \in Sessions, NEW d \in Disputes, OpensOf(t, d)'
            PROVE  /\ job'[t].pc # "record" \/ ~job'[t].hold => ~Exists(d)
                   /\ disputes[d].holdKey = NoId /\ ~disputes[d].hold
                   /\ Exists(d) => disputes[d].amount = job'[t].amount
        <5>1. CASE t = s
          BY <4>3, <4>4, <4>5, <5>1
        <5>2. CASE t # s
          BY <1>3, <4>3, <4>5, <5>2 DEF DisputesFit, OpensFit
        <5>3. QED
          BY <5>1, <5>2
      <4>6. \A t, u \in Sessions, d \in Disputes : OpensOf(t, d)' /\ OpensOf(u, d)' => t = u
        BY <4>3 DEF DisputesFit, OpensFit
      <4>7. QED
        BY <1>1, <4>5, <4>6 DEF OpensFit, Exists
    <3>3. QED
      BY <3>1, <3>2
  <2>4. QED
    BY <1>3, <2>1, <2>2, <2>3
<1>7. WorksFit'
  <2>1. ASSUME NEW d \in Disputes, j.id = d, j.cmd # "open"
        PROVE  Exists(d) /\ (j.cmd \in {"accept", "reject"} => j.amount = disputes[d].amount)
    <3>1. CASE j = Idle
      BY <1>4, <2>1, <3>1, IdleFields
    <3>2. CASE Same(j, i)
      BY <1>2, <2>1, <3>2 DEF Same, DisputesFit, WorksFit
    <3>3. CASE Begun(j)
      BY <2>1, <3>3, BegunDispute
    <3>4. QED
      BY <1>3, <3>1, <3>2, <3>3
  <2>2. QED
    BY <1>1, <1>2, <1>3, <2>1 DEF DisputesFit, WorksFit, Exists
<1>8. PostedFit'
  <2>1. ASSUME PastRefund(j) PROVE RefundPosted(j.id)
    <3>1. j # Idle /\ ~Begun(j)
      BY <2>1, IdleFields DEF PastRefund, Begun, FindsRefund, FindsReversal, FindsNoDispute,
                              FindsOpen, FindsStatus
    <3>2. Same(j, i)
      BY <1>3, <3>1
    <3>3. CASE PastRefund(i)
      BY <1>2, <3>2, <3>3 DEF DisputesFit, PostedFit, Same
    <3>4. CASE ~PastRefund(i)
      <4>1. i.cmd = "accept" /\ i.part = "refund" /\ i.pc \in {"lookup", "post"} /\ i.id \in Disputes
        BY <1>2, <2>1, <3>2, <3>4 DEF PastRefund, Same, JobFits
      <4>2. i.pc = "lookup" /\ Posted(BatchKey(i))
        <5>1. i # Idle /\ j # Idle
          BY <3>1, <4>1, IdleFields
        <5>2. TypeOK
          BY DEF ShapeInv
        <5>3. ~InsertRequest(s) /\ ~ReadHolds(s) /\ ~FlushHolds(s)
          BY <1>2, <4>1 DEF InsertRequest, ReadHolds, FlushHolds
        <5>4. ~Abort(s) /\ ~\E k : Begin(s, k) /\ Begun(k)
          BY <1>2, <5>1, <5>2, AbortJob DEF Ends, Begin
        <5>5. ~PostLine(s)
          BY <1>2, <2>1, <3>4, <5>2, PostLineJob DEF MovesTo, Same, PastRefund
        <5>6. LookupBatch(s)
          BY <5>3, <5>4, <5>5 DEF Quiet
        <5>7. ~MovesTo(s, "post", i.part, i.step)
          BY <1>2, <2>1, <4>1 DEF MovesTo, PastRefund
        <5>8. QED
          BY <1>2, <5>2, <5>6, <5>7, LookupJob
      <4>3. PICK b \in batches : b.key = BatchKey(i)
        BY <4>2 DEF Posted
      <4>4. b.key[1] = "accept" /\ b.key[2] = i.id /\ b.key[4] = "refund"
        BY <4>1, <4>3, KeyType
      <4>5. b.subject = i.id /\ b.part = "refund" /\ b.amount = disputes[i.id].amount
        BY <4>4 DEF DisputesFit, BatchFits
      <4>6. QED
        BY <3>2, <4>5 DEF RefundPosted, Same
    <3>5. QED
      BY <3>3, <3>4
  <2>2. \A d : RefundPosted(d)' <=> RefundPosted(d)
    BY <1>1 DEF RefundPosted
  <2>3. \A t \in Sessions : PastRefund(job'[t]) => RefundPosted(job'[t].id)
    BY <1>2, <1>3, <2>1 DEF DisputesFit, PostedFit
  <2>4. QED
    BY <1>1, <2>2, <2>3 DEF DisputesFit, PostedFit
<1>9. QED
  BY <1>5, <1>6, <1>7, <1>8 DEF DisputesFit

(* Disputes are never deleted, and their amounts do not change.            *)
Persist ==
    \A d \in Disputes : Exists(d) => Exists(d)' /\ disputes'[d].amount = disputes[d].amount

(* What has been paid on a dispute stays in the ledger.                    *)
LEMMA RefundStaysPosted ==
    ASSUME Persist, batches \subseteq batches', NEW d \in Disputes, Exists(d), RefundPosted(d)
    PROVE  RefundPosted(d)'
BY DEF Persist, RefundPosted

(* A batch fits as long as its dispute persists.                           *)
LEMMA BatchesStayFit ==
    ASSUME Persist, NEW b \in batches, BatchFits(b)
    PROVE  BatchFits(b)'
<1>1. b.key[1] \in {"accept", "reject"} =>
         b.subject \in Disputes /\ Exists(b.subject)' /\ disputes'[b.subject].amount = disputes[b.subject].amount
  BY DEF BatchFits, Persist
<1>2. QED
  BY <1>1 DEF BatchFits

(* Nobody else works on a dispute that is being opened.                    *)
LEMMA OpensAlone ==
    ASSUME OpensFit, WorksFit, NEW s \in Sessions, NEW d \in Disputes, OpensOf(s, d), ~Exists(d),
           NEW t \in Sessions, job[t].id = d
    PROVE  t = s
BY DEF OpensFit, WorksFit, OpensOf

(* The batch of a command that fits.                                       *)
LEMMA NewBatchFits ==
    ASSUME NEW j \in Job, JobFits(j), j.pc = "post", NEW b, IsBatchOf(b, j),
           j.cmd \in {"accept", "reject"} => Exists(j.id)' /\ j.amount = disputes'[j.id].amount
    PROVE  BatchFits(b)'
<1>1. /\ b.key[1] = j.cmd /\ b.key[3] = j.key /\ b.key[4] = j.part /\ b.part = j.part
      /\ b.key[2] = IF j.cmd = "open" THEN NoId ELSE j.id
      /\ b.subject = Subject(j) /\ b.amount = Size(j)
  BY KeyType DEF IsBatchOf
<1>2. "refund" \notin Disputes /\ "reversal" \notin Disputes
  BY IdsAreDistinct DEF IdsAreDistinct
<1>3. j.cmd \in {"refund", "reversal", "open", "accept", "reject"}
  BY DEF JobFits, Job, Commands
<1>4. CASE j.cmd \in {"refund", "reversal"}
  BY <1>1, <1>2, <1>4 DEF BatchFits, JobFits, Subject
<1>5. CASE j.cmd = "open"
  BY <1>1, <1>2, <1>5 DEF BatchFits, JobFits, Subject
<1>6. CASE j.cmd \in {"accept", "reject"}
  BY <1>1, <1>2, <1>6 DEF BatchFits, JobFits, Subject, Size
<1>7. QED
  BY <1>3, <1>4, <1>5, <1>6

(* The commit of a posting deletes no dispute and changes no amount.       *)
LEMMA CommitPersists ==
    ASSUME ShapeInv, DisputesFit, NEW s \in Sessions, CommitPosting(s)
    PROVE  Persist
<1>1. PICK j \in Job : j = job[s] /\ JobFits(j) /\ j.pc = "post"
  BY CommitJob DEF ShapeInv, TypeOK
<1>2. DisputeStored(j)
  BY <1>1, CommitRows
<1>3. CASE j.cmd = "open"
  <2>1. j.id \in Disputes /\ ~Exists(j.id)
    BY <1>1, <1>3 DEF JobFits, DisputesFit, OpensFit, OpensOf
  <2>2. QED
    BY <1>2, <2>1 DEF DisputeStored, OnlyDispute, Persist, Exists
<1>4. CASE j.part = "fee"
  <2>1. DecidedAs(j.id, "ACCEPTED", j.hold) /\ OnlyDispute(j.id)
    BY <1>2, <1>4 DEF DisputeStored
  <2>2. QED
    BY <2>1, NoDisputeFields DEF DecidedAs, OnlyDispute, Persist, Exists
<1>5. CASE j.cmd # "open" /\ j.part # "fee"
  BY <1>2, <1>5 DEF DisputeStored, Persist, Exists
<1>6. QED
  BY <1>3, <1>4, <1>5

(* The disputes fit after the commit of a posting.                         *)
LEMMA CommitDisputes ==
    ASSUME ShapeInv, DisputesFit, NEW s \in Sessions, CommitPosting(s)
    PROVE  DisputesFit'
<1>1. PICK i \in Job, j \in Job : i = job[s] /\ j = job'[s] /\ JobFits(i) /\ i.pc = "post"
  BY CommitJob DEF ShapeInv, TypeOK, MovesTo, OnlyJob
<1>2. /\ \A t \in Sessions \ {s} : job'[t] = job[t]
      /\ Same(j, i) /\ j.pc = NextPc(i) /\ j.part = NextPart(i)
  BY <1>1, CommitJob DEF ShapeInv, MovesTo, OnlyJob
<1>3. /\ j.cmd = i.cmd /\ j.id = i.id /\ j.hold = i.hold /\ j.amount = i.amount
      /\ \A t \in Sessions : job'[t].cmd = job[t].cmd /\ job'[t].id = job[t].id
                             /\ job'[t].hold = job[t].hold /\ job'[t].amount = job[t].amount
  BY <1>1, <1>2 DEF Same
<1>4. PICK b : batches' = batches \cup {b} /\ IsBatchOf(b, i)
  BY <1>1, CommitBatch
<1>5. DisputeStored(i)
  BY <1>1, CommitRows
<1>6. Persist
  BY CommitPersists
<1>7. StatusFits /\ OpensFit /\ WorksFit /\ PostedFit
  BY DEF DisputesFit
<1>8. i.cmd = "open" => /\ i.id \in Disputes /\ i.hold /\ ~Exists(i.id) /\ OpensOf(s, i.id)
                        /\ i.amount \in Amounts /\ i.part # "fee"
  BY <1>1, <1>7 DEF JobFits, OpensFit, OpensOf
<1>9. i.part = "fee" => i.cmd = "accept" /\ i.id \in Disputes
  BY <1>1, AboutDispute
<1>10. \A d \in Disputes : disputes'[d] # disputes[d] => d = i.id /\ (i.cmd = "open" \/ i.part = "fee")
  BY <1>5 DEF DisputeStored, OnlyDispute
<1>11. StatusFits'
  <2>1. ASSUME NEW d \in Disputes
        PROVE  /\ disputes'[d].status = "none" <=> disputes'[d] = NoDispute
               /\ disputes'[d] # NoDispute => disputes'[d].amount \in Amounts
    <3>1. CASE disputes'[d] = disputes[d]
      BY <1>7, <3>1 DEF StatusFits, Exists
    <3>2. CASE d = i.id /\ i.cmd = "open"
      BY <1>5, <1>8, <3>2, NoDisputeFields DEF DisputeStored
    <3>3. CASE d = i.id /\ i.part = "fee"
      <4>1. Exists(d)
        BY <1>1, <1>7, <1>9, <3>3 DEF WorksFit
      <4>2. DecidedAs(d, "ACCEPTED", i.hold)
        BY <1>5, <3>3 DEF DisputeStored
      <4>3. QED
        BY <1>7, <4>1, <4>2, NoDisputeFields DEF DecidedAs, StatusFits
    <3>4. QED
      BY <1>10, <3>1, <3>2, <3>3
  <2>2. QED
    BY <2>1 DEF StatusFits, Exists
<1>12. OpensFit'
  <2>1. \A t \in Sessions, d \in Disputes : OpensOf(t, d)' <=> OpensOf(t, d)
    BY <1>3 DEF OpensOf
  <2>2. ASSUME NEW t \in Sessions, NEW d \in Disputes, OpensOf(t, d)
        PROVE  /\ job'[t].pc # "record" \/ ~job'[t].hold => disputes'[d] = NoDispute
               /\ disputes'[d].holdKey = NoId /\ ~disputes'[d].hold
               /\ disputes'[d] # NoDispute => disputes'[d].amount = job'[t].amount
    <3>1. CASE d = i.id /\ i.cmd = "open"
      <4>1. t = s
        BY <1>7, <1>8, <2>2, <3>1 DEF OpensFit
      <4>2. job'[t].pc = "record" /\ job'[t].hold /\ job'[t].amount = i.amount
        BY <1>1, <1>2, <1>3, <1>8, <3>1, <4>1 DEF NextPc
      <4>3. QED
        BY <1>5, <3>1, <4>2 DEF DisputeStored
    <3>2. CASE d = i.id /\ i.part = "fee"
      <4>1. Exists(d) /\ t # s
        BY <1>1, <1>7, <1>9, <2>2, <3>2 DEF WorksFit, OpensOf
      <4>2. job[t].pc = "record" /\ job[t].hold /\ job'[t] = job[t]
        BY <1>2, <1>7, <2>2, <4>1 DEF OpensFit
      <4>3. DecidedAs(d, "ACCEPTED", i.hold)
        BY <1>5, <3>2 DEF DisputeStored
      <4>4. QED
        BY <1>7, <2>2, <4>1, <4>2, <4>3 DEF DecidedAs, OpensFit
    <3>3. CASE disputes'[d] = disputes[d] /\ ~(d = i.id /\ i.cmd = "open")
      <4>1. t = s => FALSE
        BY <1>1, <2>2, <3>3 DEF OpensOf
      <4>2. QED
        BY <1>2, <1>7, <2>2, <3>3, <4>1 DEF OpensFit, Exists
    <3>4. QED
      BY <1>10, <3>1, <3>2, <3>3
  <2>3. QED
    BY <1>7, <2>1, <2>2 DEF OpensFit, Exists
<1>13. WorksFit'
  <2>1. ASSUME NEW t \in Sessions, NEW d \in Disputes, job[t].id = d, job[t].cmd # "open"
        PROVE  /\ Exists(d)'
               /\ job[t].cmd \in {"accept", "reject"} => job[t].amount = disputes'[d].amount
    BY <1>6, <1>7, <2>1 DEF WorksFit, Persist
  <2>2. QED
    BY <1>3, <2>1 DEF WorksFit
<1>14. \A c \in batches' : BatchFits(c)'
  <2>1. i.cmd \in {"accept", "reject"} => Exists(i.id)' /\ i.amount = disputes'[i.id].amount
    BY <1>1, <1>6, <1>7, AboutDispute DEF WorksFit, Persist
  <2>2. BatchFits(b)'
    BY <1>1, <1>4, <2>1, NewBatchFits
  <2>3. \A c \in batches : BatchFits(c)'
    BY <1>6, BatchesStayFit DEF DisputesFit
  <2>4. QED
    BY <1>4, <2>2, <2>3
<1>15. PostedFit'
  <2>1. batches \subseteq batches'
    BY <1>4
  <2>2. ASSUME NEW d \in Disputes, Exists(d), RefundPosted(d) PROVE RefundPosted(d)'
    BY <1>6, <2>1, <2>2, RefundStaysPosted
  <2>3. ASSUME NEW t \in Sessions, NEW e, e = job'[t].id, PastRefund(job'[t])
        PROVE  RefundPosted(e)'
    <3>1. job[t].cmd = "accept" /\ e \in Disputes /\ e = job[t].id
      BY <1>3, <2>3, AboutDispute DEF PastRefund, ShapeInv
    <3>2. Exists(e)
      BY <1>7, <3>1 DEF WorksFit
    <3>3. CASE PastRefund(job[t])
      BY <1>7, <2>2, <3>1, <3>2, <3>3 DEF PostedFit
    <3>4. CASE ~PastRefund(job[t])
      <4>1. t = s
        BY <1>2, <2>3, <3>4
      <4>2. i.part = "refund"
        BY <1>1, <3>1, <3>4, <4>1 DEF JobFits, PastRefund
      <4>3. b.subject = i.id /\ b.part = "refund" /\ b.amount = i.amount
        BY <1>1, <1>4, <3>1, <4>1, <4>2 DEF IsBatchOf, Subject, Size
      <4>4. i.amount = disputes[i.id].amount
        BY <1>1, <1>7, <3>1, <4>1 DEF WorksFit
      <4>5. b.amount = disputes'[i.id].amount /\ b \in batches'
        BY <1>1, <1>4, <1>6, <3>1, <3>2, <4>1, <4>3, <4>4 DEF Persist
      <4>6. QED
        BY <1>1, <3>1, <4>1, <4>3, <4>5 DEF RefundPosted
    <3>5. QED
      BY <3>3, <3>4
  <2>4. ASSUME NEW d \in Disputes, disputes'[d].status = "ACCEPTED"
        PROVE  RefundPosted(d)'
    <3>1. CASE disputes'[d] = disputes[d]
      <4>1. Exists(d) /\ RefundPosted(d)
        BY <1>7, <2>4, <3>1 DEF StatusFits, PostedFit
      <4>2. QED
        BY <2>2, <4>1
    <3>2. CASE d = i.id /\ i.cmd = "open"
      BY <1>5, <2>4, <3>2 DEF DisputeStored
    <3>3. CASE d = i.id /\ i.part = "fee"
      <4>1. Exists(d) /\ RefundPosted(d)
        BY <1>1, <1>7, <1>9, <3>3 DEF WorksFit, PostedFit, PastRefund
      <4>2. QED
        BY <2>2, <4>1
    <3>4. QED
      BY <1>10, <3>1, <3>2, <3>3
  <2>5. QED
    BY <2>3, <2>4 DEF PostedFit
<1>16. QED
  BY <1>11, <1>12, <1>13, <1>14, <1>15 DEF DisputesFit

(* What recording a command does to its dispute, when it has one.          *)
Statused(j) ==
    CASE j.cmd = "accept" -> "ACCEPTED"
      [] j.cmd = "reject" -> "REJECTED"
      [] j.cmd = "review" -> "UNDER_REVIEW"
      [] j.cmd = "close"  -> "CLOSED"
      [] OTHER            -> "none"

(* The second transaction writes the dispute of its command only.          *)
LEMMA RecordedDispute ==
    ASSUME NEW j \in Job, JobFits(j), DisputeRecorded(j), NEW d \in Disputes
    PROVE  /\ disputes'[d] # disputes[d] => d = j.id
           /\ d = j.id /\ j.cmd = "open" => OpenedAs(j)
           /\ d = j.id /\ j.cmd # "open" => Statused(j) # "none" /\ DecidedAs(d, Statused(j), j.hold)
<1>1. NoId \notin Disputes
  BY IdsAreDistinct DEF IdsAreDistinct
<1>2. d = j.id => j.cmd \in {"open", "accept", "reject", "review", "close"}
  BY <1>1, AboutDispute DEF Job, Commands
<1>3. CASE j.cmd \in {"review", "close"}
  <2>1. ~j.hold
    BY <1>3 DEF JobFits
  <2>2. QED
    BY <1>2, <1>3, <2>1 DEF DisputeRecorded, OnlyDispute, Statused, DecidedAs
<1>4. CASE j.cmd \notin {"review", "close"}
  BY <1>2, <1>4 DEF DisputeRecorded, OnlyDispute, Statused
<1>5. QED
  BY <1>3, <1>4

(* The second transaction deletes no dispute and changes no amount.        *)
LEMMA RecordPersists ==
    ASSUME ShapeInv, DisputesFit, NEW s \in Sessions, Record(s)
    PROVE  Persist
<1>1. PICK j \in Job : j = job[s] /\ JobFits(j)
  BY DEF ShapeInv, TypeOK
<1>2. DisputeRecorded(j)
  BY <1>1, RecordRows
<1>3. ASSUME NEW d \in Disputes, Exists(d)
      PROVE  Exists(d)' /\ disputes'[d].amount = disputes[d].amount
  <2>1. CASE d # j.id
    BY <1>1, <1>2, <1>3, <2>1, RecordedDispute DEF Exists
  <2>2. CASE d = j.id /\ j.cmd = "open"
    <3>1. OpenedAs(j)
      BY <1>1, <1>2, <2>2, RecordedDispute
    <3>2. disputes'[d].hold /\ disputes'[d].amount = disputes[d].amount
      BY <1>3, <2>2, <3>1 DEF OpenedAs, Exists
    <3>3. QED
      BY <3>2, NoDisputeFields DEF Exists
  <2>3. CASE d = j.id /\ j.cmd # "open"
    <3>1. Statused(j) # "none" /\ DecidedAs(d, Statused(j), j.hold)
      BY <1>1, <1>2, <2>3, RecordedDispute
    <3>2. QED
      BY <3>1, NoDisputeFields DEF Exists, DecidedAs
  <2>4. QED
    BY <2>1, <2>2, <2>3
<1>4. QED
  BY <1>3 DEF Persist

(* The disputes fit after the second commit: a dispute that becomes        *)
(* ACCEPTED has been paid.                                                 *)
LEMMA RecordDisputes ==
    ASSUME ShapeInv, DisputesFit, NEW s \in Sessions, Record(s)
    PROVE  DisputesFit'
<1>1. PICK j \in Job : j = job[s] /\ JobFits(j) /\ j.pc = "record"
  BY RecordJob DEF ShapeInv, TypeOK
<1>2. job'[s] = Idle /\ \A t \in Sessions \ {s} : job'[t] = job[t]
  BY RecordJob DEF ShapeInv, Ends, OnlyJob
<1>3. DisputeRecorded(j) /\ batches' = batches
  BY <1>1, RecordRows
<1>4. Persist
  BY RecordPersists
<1>5. StatusFits /\ OpensFit /\ WorksFit /\ PostedFit
  BY DEF DisputesFit
<1>6. \A d \in Disputes :
         /\ disputes'[d] # disputes[d] => d = j.id
         /\ d = j.id /\ j.cmd = "open" => OpenedAs(j)
         /\ d = j.id /\ j.cmd # "open" => Statused(j) # "none" /\ DecidedAs(d, Statused(j), j.hold)
  BY <1>1, <1>3, RecordedDispute
<1>7. NoId \notin Disputes
  BY IdsAreDistinct DEF IdsAreDistinct
<1>8. ASSUME NEW t \in Sessions, NEW d \in Disputes, job'[t].id = d PROVE t # s /\ job'[t] = job[t]
  BY <1>2, <1>7, <1>8, IdleFields
<1>9. StatusFits'
  <2>1. ASSUME NEW d \in Disputes
        PROVE  /\ disputes'[d].status = "none" <=> disputes'[d] = NoDispute
               /\ disputes'[d] # NoDispute => disputes'[d].amount \in Amounts
    <3>1. CASE d # j.id
      BY <1>5, <1>6, <3>1 DEF StatusFits, Exists
    <3>2. CASE d = j.id /\ j.cmd = "open" /\ disputes[d] = NoDispute
      <4>1. disputes'[d].status = "OPEN" /\ disputes'[d].amount = j.amount
        BY <1>6, <3>2 DEF OpenedAs
      <4>2. j.amount \in Amounts
        BY <1>1, <3>2 DEF JobFits
      <4>3. QED
        BY <4>1, <4>2, NoDisputeFields
    <3>3. CASE d = j.id /\ j.cmd = "open" /\ disputes[d] # NoDispute
      <4>1. disputes'[d].status = disputes[d].status /\ disputes'[d].amount = disputes[d].amount
        BY <1>6, <3>3 DEF OpenedAs
      <4>2. QED
        BY <1>5, <3>3, <4>1, NoDisputeFields DEF StatusFits, Exists
    <3>4. CASE d = j.id /\ j.cmd # "open"
      <4>1. Exists(d)
        BY <1>1, <1>5, <3>4 DEF WorksFit
      <4>2. Statused(j) # "none" /\ DecidedAs(d, Statused(j), j.hold)
        BY <1>6, <3>4
      <4>3. QED
        BY <1>5, <4>1, <4>2, NoDisputeFields DEF DecidedAs, StatusFits
    <3>5. QED
      BY <3>1, <3>2, <3>3, <3>4
  <2>2. QED
    BY <2>1 DEF StatusFits, Exists
<1>10. OpensFit'
  <2>1. ASSUME NEW t \in Sessions, NEW d \in Disputes, OpensOf(t, d)'
        PROVE  /\ OpensOf(t, d)
               /\ job'[t].pc # "record" \/ ~job'[t].hold => disputes'[d] = NoDispute
               /\ disputes'[d].holdKey = NoId /\ ~disputes'[d].hold
               /\ disputes'[d] # NoDispute => disputes'[d].amount = job'[t].amount
    <3>1. t # s /\ job'[t] = job[t] /\ OpensOf(t, d)
      BY <1>8, <2>1 DEF OpensOf
    <3>2. CASE d # j.id
      BY <1>5, <1>6, <3>1, <3>2 DEF OpensFit, Exists
    <3>3. CASE d = j.id
      <4>1. j.cmd # "open"
        BY <1>1, <1>5, <3>1, <3>3 DEF OpensFit, OpensOf
      <4>2. Exists(d)
        BY <1>1, <1>5, <3>3, <4>1 DEF WorksFit
      <4>3. DecidedAs(d, Statused(j), j.hold)
        BY <1>6, <3>3, <4>1
      <4>4. QED
        BY <1>5, <3>1, <4>2, <4>3 DEF OpensFit, DecidedAs
    <3>4. QED
      BY <3>2, <3>3
  <2>2. QED
    BY <1>5, <2>1 DEF OpensFit, Exists
<1>11. WorksFit'
  <2>1. ASSUME NEW t \in Sessions, NEW d \in Disputes, job'[t].id = d, job'[t].cmd # "open"
        PROVE  /\ Exists(d)'
               /\ job'[t].cmd \in {"accept", "reject"} => job'[t].amount = disputes'[d].amount
    <3>1. job'[t] = job[t]
      BY <1>8, <2>1
    <3>2. QED
      BY <1>4, <1>5, <2>1, <3>1 DEF WorksFit, Persist
  <2>2. QED
    BY <2>1 DEF WorksFit
<1>12. \A c \in batches' : BatchFits(c)'
  BY <1>3, <1>4, BatchesStayFit DEF DisputesFit
<1>13. PostedFit'
  <2>1. batches \subseteq batches'
    BY <1>3
  <2>2. ASSUME NEW d \in Disputes, Exists(d), RefundPosted(d) PROVE RefundPosted(d)'
    BY <1>4, <2>1, <2>2, RefundStaysPosted
  <2>3. ASSUME NEW t \in Sessions, NEW e, e = job'[t].id, PastRefund(job'[t])
        PROVE  RefundPosted(e)'
    <3>1. t # s /\ job'[t] = job[t]
      BY <1>2, <2>3, IdleFields DEF PastRefund
    <3>2. job[t].cmd = "accept" /\ e \in Disputes /\ e = job[t].id
      BY <2>3, <3>1, AboutDispute DEF PastRefund, ShapeInv
    <3>3. Exists(e) /\ RefundPosted(e)
      BY <1>5, <2>3, <3>1, <3>2 DEF WorksFit, PostedFit
    <3>4. QED
      BY <2>2, <3>2, <3>3
  <2>4. ASSUME NEW d \in Disputes, disputes'[d].status = "ACCEPTED"
        PROVE  RefundPosted(d)'
    <3>1. Exists(d) /\ RefundPosted(d)
      <4>1. CASE disputes[d].status = "ACCEPTED"
        BY <1>5, <4>1 DEF StatusFits, PostedFit
      <4>2. CASE disputes[d].status # "ACCEPTED"
        <5>1. d = j.id
          BY <1>6, <2>4, <4>2
        <5>2. j.cmd = "accept"
          <6>1. j.cmd # "open"
            BY <1>6, <2>4, <4>2, <5>1 DEF OpenedAs
          <6>2. Statused(j) = "ACCEPTED"
            BY <1>6, <2>4, <5>1, <6>1 DEF DecidedAs
          <6>3. QED
            BY <6>2 DEF Statused
        <5>3. QED
          BY <1>1, <1>5, <5>1, <5>2 DEF WorksFit, PostedFit, PastRefund
      <4>3. QED
        BY <4>1, <4>2
    <3>2. QED
      BY <2>2, <3>1
  <2>5. QED
    BY <2>3, <2>4 DEF PostedFit
<1>14. QED
  BY <1>9, <1>10, <1>11, <1>12, <1>13 DEF DisputesFit

-----------------------------------------------------------------------------
(* The ledger tells what was done.                                         *)
LedgerInv == ShapeInv /\ BooksInv /\ DoneInv

(* DoneInv by requests and disputes.                                       *)
LEMMA DoneParts == DoneInv <=> RequestsInv /\ DisputesFit
BY DEF DoneInv, RequestsInv

(* A step is one that commits nothing, one of the two commits, or stutters.*)
LEMMA StepKinds ==
    ASSUME TypeOK, [Next]_vars
    PROVE  \/ UNCHANGED vars
           \/ \E s \in Sessions : Quiet(s) \/ CommitPosting(s) \/ Record(s)
<1>1. ASSUME NEW s \in Sessions, Start(s) \/ Continue(s) \/ BreakDeadlock(s) \/ Abort(s)
      PROVE  UNCHANGED vars \/ Quiet(s) \/ CommitPosting(s) \/ Record(s)
  <2>1. CASE Start(s)
    BY <2>1, StartBegins DEF Quiet
  <2>2. CASE Continue(s)
    BY <2>2 DEF Continue, Quiet, FailCollision
  <2>3. CASE BreakDeadlock(s) \/ Abort(s)
    BY <2>3 DEF BreakDeadlock, Quiet
  <2>4. QED
    BY <1>1, <2>1, <2>2, <2>3
<1>2. CASE Exhausted
  BY <1>2 DEF Exhausted
<1>3. QED
  BY <1>1, <1>2 DEF Next

(* A stuttering step keeps the invariant of the ledger.                    *)
LEMMA StutterLedger ==
    ASSUME LedgerInv, UNCHANGED vars
    PROVE  LedgerInv'
<1> USE DEF vars, rows, books, history
<1>1. TypeOK' /\ IsFiniteSet(batches')
  BY DEF LedgerInv, ShapeInv, TypeOK
<1>2. ShapeInv'
  BY <1>1 DEF LedgerInv, ShapeInv, HeldFits, LocksExclude
<1>3. BooksInv'
  BY DEF LedgerInv, BooksInv, CurrentFits, CurrentMatchesEntries, OneBatchPerKey, Money, View
<1>4. RequestsInv'
  BY DEF LedgerInv, DoneInv, RequestsInv
<1>5. DisputesFit'
  BY DEF LedgerInv, DoneInv, DisputesFit, StatusFits, OpensFit, WorksFit, BatchFits, PostedFit,
         Exists, OpensOf, RefundPosted
<1>6. QED
  BY <1>2, <1>3, <1>4, <1>5 DEF LedgerInv, DoneInv, RequestsInv

(* So does a step that commits nothing,                                    *)
LEMMA QuietLedger ==
    ASSUME LedgerInv, NEW s \in Sessions, Quiet(s)
    PROVE  LedgerInv'
<1>1. ShapeInv /\ BooksInv /\ RequestsInv /\ DisputesFit
  BY DoneParts DEF LedgerInv
<1>2. ShapeInv' /\ BooksInv'
  <2>1. CASE \E j : Begin(s, j) /\ Begun(j)
    BY <1>1, <2>1, BeginShape, BeginBooks
  <2>2. CASE InsertRequest(s)
    BY <1>1, <2>2, InsertShape, InsertBooks
  <2>3. CASE LookupBatch(s)
    BY <1>1, <2>3, LookupShape, LookupBooks
  <2>4. CASE PostLine(s)
    BY <1>1, <2>4, PostLineShape, PostLineBooks
  <2>5. CASE ReadHolds(s)
    BY <1>1, <2>5, ReadShape, ReadBooks
  <2>6. CASE FlushHolds(s)
    BY <1>1, <2>6, FlushShape, FlushBooks
  <2>7. CASE Abort(s)
    BY <1>1, <2>7, AbortShape, AbortBooks
  <2>8. QED
    BY <2>1, <2>2, <2>3, <2>4, <2>5, <2>6, <2>7 DEF Quiet
<1>3. RequestsInv' /\ DisputesFit'
  BY <1>1, QuietRequests, QuietDisputes
<1>4. QED
  BY <1>2, <1>3 DEF LedgerInv, DoneInv, RequestsInv

(* and every other step.                                                   *)
LEMMA LedgerStep ==
    ASSUME LedgerInv, [Next]_vars
    PROVE  LedgerInv'
<1>1. ShapeInv /\ BooksInv /\ RequestsInv /\ DisputesFit /\ TypeOK
  BY DoneParts DEF LedgerInv, ShapeInv
<1>2. ASSUME NEW s \in Sessions, CommitPosting(s) PROVE LedgerInv'
  <2>1. ShapeInv' /\ BooksInv' /\ RequestsInv' /\ DisputesFit'
    BY <1>1, <1>2, CommitShape, CommitBooks, CommitRequests, CommitDisputes
  <2>2. QED
    BY <2>1 DEF LedgerInv, DoneInv, RequestsInv
<1>3. ASSUME NEW s \in Sessions, Record(s) PROVE LedgerInv'
  <2>1. ShapeInv' /\ BooksInv' /\ RequestsInv' /\ DisputesFit'
    BY <1>1, <1>3, RecordShape, RecordBooks, RecordRequests, RecordDisputes
  <2>2. QED
    BY <2>1 DEF LedgerInv, DoneInv, RequestsInv
<1>4. QED
  BY <1>1, <1>2, <1>3, StepKinds, StutterLedger, QuietLedger

(* The invariant of the ledger holds when the system starts.               *)
LEMMA LedgerStart ==
    ASSUME Init
    PROVE  LedgerInv
<1> USE DEF Init
<1>1. NoDispute \in Dispute /\ NoRequest \in Request /\ Zero \in Balance /\ Idle \in Job
  BY IdleFields, ZeroFields, NoRequestFields DEF NoDispute, Dispute, Ids
<1>2. TypeOK /\ IsFiniteSet(batches)
  BY <1>1, FS_EmptySet DEF TypeOK
<1>3. ShapeInv
  BY <1>2, IdleFits DEF ShapeInv, HeldFits, LocksExclude
<1>4. \A a \in Accounts, s \in Sessions : bal[a].current = 0 /\ View(s, a).current = 0
  BY ZeroFields DEF View
<1>5. \A s \in Sessions, a \in Accounts : Moved(job[s], a) = 0
  BY <1>1, MovedType, IdleFields
<1>6. Money = {}
  BY DEF Money
<1>7. CurrentMatchesEntries
  <2> SUFFICES ASSUME NEW a \in Accounts
               PROVE  bal[a].current = AmountOf({b \in Money : b.to = a})
                                         - AmountOf({b \in Money : b.from = a})
    BY DEF CurrentMatchesEntries
  <2>1. {b \in Money : b.to = a} = {} /\ {b \in Money : b.from = a} = {}
    BY <1>6
  <2>2. AmountOf({b \in Money : b.to = a}) = 0 /\ AmountOf({b \in Money : b.from = a}) = 0
    BY ONLY <2>1, AmountEmpty
  <2>3. bal[a].current = 0
    BY ZeroFields
  <2>4. QED
    BY ONLY <2>2, <2>3
<1>8. BooksInv
  BY <1>4, <1>5, <1>7 DEF BooksInv, CurrentFits, OneBatchPerKey
<1>9. RequestsInv
  BY IdleFields, NoRequestFields DEF RequestsInv, RequestsFit, Carries
<1>10. DisputesFit
  <2>1. \A s \in Sessions : job[s].cmd = "none" /\ job[s].id = NoId
    BY IdleFields
  <2>2. StatusFits
    BY NoDisputeFields DEF StatusFits, Exists
  <2>3. OpensFit /\ WorksFit
    BY <2>1, IdsAreDistinct DEF OpensFit, WorksFit, OpensOf, IdsAreDistinct
  <2>4. PostedFit
    BY <2>1, NoDisputeFields DEF PostedFit, PastRefund
  <2>5. QED
    BY <2>2, <2>3, <2>4 DEF DisputesFit
<1>11. QED
  BY <1>3, <1>8, <1>9, <1>10 DEF LedgerInv, DoneInv, RequestsInv

(* It implies the property.                                                *)
LEMMA LedgerFollows ==
    ASSUME LedgerInv
    PROVE  LedgerTellsWhatWasDone
<1>1. /\ RequestsFit("refund", RefundKeys, refunds, batches, job, adjustments)
      /\ RequestsFit("reversal", ReversalKeys, reversals, batches, job, adjustments)
      /\ PostedFit
  BY DEF LedgerInv, DoneInv, DisputesFit
<1>2. \A cmd, k : RequestKey(cmd, k)[3] = k
  BY DEF RequestKey
<1>3. ASSUME NEW k \in RefundKeys, refunds[k].status = "POSTED"
      PROVE  /\ \E b \in batches : b.subject = "refund" /\ b.key[3] = k /\ b.amount = refunds[k].amount
             /\ refunds[k].closed => <<"refund", NoId, k>> \in adjustments
  BY <1>1, <1>2, <1>3, NoRequestFields DEF RequestsFit
<1>4. ASSUME NEW k \in ReversalKeys, reversals[k].status = "POSTED"
      PROVE  /\ \E b \in batches : b.subject = "reversal" /\ b.key[3] = k
             /\ reversals[k].closed => <<"reversal", NoId, k>> \in adjustments
  BY <1>1, <1>2, <1>4, NoRequestFields DEF RequestsFit
<1>5. DoneIsPosted
  BY <1>1, <1>3, <1>4 DEF DoneIsPosted, PostedFit, RefundPosted
<1>6. QED
  BY <1>5 DEF LedgerInv, ShapeInv, BooksInv, LedgerTellsWhatWasDone

(* The current balance of every account is the sum of its entries, a key   *)
(* posts once, and a refund, reversal or accepted dispute that is reported *)
(* as done is in the ledger, with its adjustment in a closed period;       *)
(* whatever races, deadlocks, crashes between the two commits and is       *)
(* repeated.                                                               *)
THEOREM LedgerAlwaysTells == Spec => []LedgerTellsWhatWasDone
<1>1. Init => LedgerInv
  BY LedgerStart
<1>2. LedgerInv /\ [Next]_vars => LedgerInv'
  BY LedgerStep
<1>3. LedgerInv => LedgerTellsWhatWasDone
  BY LedgerFollows
<1>4. QED
  BY <1>1, <1>2, <1>3, PTL DEF Spec

-----------------------------------------------------------------------------
(* What is paid once.                                                      *)

(* A command stays with what it works on.                                  *)
LEMMA SubjectStays ==
    ASSUME NEW i, NEW j, Same(j, i)
    PROVE  Subject(j) = Subject(i)
BY DEF Same, Subject

(* What two commands work on is marked when the second begins, and what a  *)
(* command leaves half done when it is aborted.                            *)
LEMMA QuietHistory ==
    ASSUME ShapeInv, NEW s \in Sessions, Quiet(s)
    PROVE  /\ raced \subseteq raced' /\ lost \subseteq lost'
           /\ job[s] = Idle => \A t \in Sessions :
                 job[t] # Idle /\ Subject(job[t]) = Subject(job'[s]) => Subject(job'[s]) \in raced'
           /\ job'[s] = Idle /\ job[s] # Idle /\ HalfDone(job[s]) => Subject(job[s]) \in lost'
<1> USE DEF history
<1>1. TypeOK /\ JobFits(job[s])
  BY DEF ShapeInv
<1>2. CASE \E j : Begin(s, j) /\ Begun(j)
  <2>1. PICK j \in Job : Begin(s, j) /\ Begun(j)
    BY <1>2 DEF Begun, JobFits
  <2>2. job'[s] = j /\ job[s] = Idle
    BY <1>1, <2>1, BeginJob
  <2>3. lost' = lost /\ raced' = IF \E t \in Sessions : job[t] # Idle /\ Subject(job[t]) = Subject(j)
                                 THEN raced \cup {Subject(j)} ELSE raced
    BY <2>1 DEF Begin
  <2>4. QED
    BY <2>2, <2>3
<1>3. CASE InsertRequest(s)
  <2>1. UNCHANGED <<raced, lost>> /\ job[s].pc = "insert"
    BY <1>1, <1>3, InsertJob DEF InsertRequest
  <2>2. job[s] # Idle /\ ~HalfDone(job[s])
    BY <1>1, <2>1, AboutDispute, IdleFields DEF HalfDone, JobFits
  <2>3. QED
    BY <2>1, <2>2
<1>4. CASE LookupBatch(s) \/ PostLine(s) \/ ReadHolds(s) \/ FlushHolds(s)
  <2>1. UNCHANGED <<raced, lost>>
    BY <1>4 DEF LookupBatch, PostLine, ReadHolds, FlushHolds
  <2>2. job[s].pc # "idle" /\ job'[s].pc # "idle"
    <3>1. CASE LookupBatch(s)
      BY <1>1, <3>1, LookupJob DEF MovesTo, NextPc
    <3>2. CASE PostLine(s)
      BY <1>1, <3>2, PostLineJob DEF MovesTo
    <3>3. CASE ReadHolds(s)
      BY <1>1, <3>3, ReadJob DEF MovesTo
    <3>4. CASE FlushHolds(s)
      BY <1>1, <3>4, FlushJob DEF MovesTo
    <3>5. QED
      BY <1>4, <3>1, <3>2, <3>3, <3>4
  <2>3. QED
    BY <2>1, <2>2, IdleFields
<1>5. CASE Abort(s)
  BY <1>5 DEF Abort
<1>6. QED
  BY <1>2, <1>3, <1>4, <1>5 DEF Quiet

(* A command that begins and finds another one at work races.              *)
LEMMA QuietAlone ==
    ASSUME ShapeInv, Alone, NEW s \in Sessions, Quiet(s)
    PROVE  Alone'
<1>1. /\ \A t \in Sessions \ {s} : job'[t] = job[t]
      /\ \/ job'[s] = Idle
         \/ Same(job'[s], job[s]) /\ job[s].pc # "idle"
         \/ job[s] = Idle
  BY QuietJob DEF OnlyJob
<1>2. /\ raced \subseteq raced'
      /\ job[s] = Idle => \A t \in Sessions :
            job[t] # Idle /\ Subject(job[t]) = Subject(job'[s]) => Subject(job'[s]) \in raced'
  BY QuietHistory
<1>3. PICK I, J, R : I = job /\ J = job' /\ R = raced'
  OBVIOUS
<1>4. ASSUME NEW t \in Sessions, NEW u \in Sessions, t # u, J[t] # Idle, J[u] # Idle,
             Subject(J[t]) = Subject(J[u])
      PROVE  Subject(J[t]) \in R
  <2>1. CASE t # s /\ u # s
    BY <1>1, <1>2, <1>3, <1>4, <2>1 DEF Alone
  <2>2. CASE (t = s \/ u = s) /\ I[s] = Idle
    BY <1>1, <1>2, <1>3, <1>4, <2>2
  <2>3. CASE (t = s \/ u = s) /\ I[s] # Idle
    <3>1. Subject(J[s]) = Subject(I[s])
      BY <1>1, <1>3, <1>4, <2>3, SubjectStays
    <3>2. QED
      BY <1>1, <1>2, <1>3, <1>4, <2>3, <3>1 DEF Alone
  <2>4. QED
    BY <2>1, <2>2, <2>3
<1>5. QED
  BY <1>3, <1>4 DEF Alone

(* The commit of a posting is no race and loses nothing.                   *)
LEMMA CommitAlone ==
    ASSUME ShapeInv, Alone, NEW s \in Sessions, CommitPosting(s)
    PROVE  Alone' /\ UNCHANGED <<raced, lost>>
<1>1. /\ \A t \in Sessions \ {s} : job'[t] = job[t]
      /\ Same(job'[s], job[s]) /\ job[s].pc = "post"
  BY CommitJob DEF ShapeInv, OnlyJob, MovesTo
<1>2. UNCHANGED <<raced, lost>>
  BY DEF CommitPosting, history
<1>3. Subject(job'[s]) = Subject(job[s]) /\ job[s] # Idle
  BY <1>1, SubjectStays, IdleFields
<1>4. QED
  BY <1>1, <1>2, <1>3 DEF Alone

(* The second commit is no race and loses nothing.                         *)
LEMMA RecordAlone ==
    ASSUME ShapeInv, Alone, NEW s \in Sessions, Record(s)
    PROVE  Alone' /\ UNCHANGED <<raced, lost>>
<1>1. job'[s] = Idle /\ \A t \in Sessions \ {s} : job'[t] = job[t]
  BY RecordJob DEF ShapeInv, Ends, OnlyJob
<1>2. UNCHANGED <<raced, lost>>
  BY DEF Record, history
<1>3. QED
  BY <1>1, <1>2 DEF Alone

-----------------------------------------------------------------------------
(* Refunds of the operation.                                               *)

(* The posting of a refund that is not stored is not there either.         *)
LEMMA RefundIsNew ==
    ASSUME ShapeInv, RequestsInv, NEW s \in Sessions, job[s].cmd = "refund", job[s].pc = "lookup"
    PROVE  ~Posted(BatchKey(job[s]))
<1>1. PICK j \in Job : j = job[s] /\ JobFits(j)
  BY DEF ShapeInv, TypeOK
<1>2. j.key \in RefundKeys /\ Carries(j, "refund", j.key)
  BY <1>1 DEF JobFits, Carries
<1>3. refunds[j.key] = NoRequest
  BY <1>1, <1>2 DEF RequestsInv, RequestsFit
<1>4. BatchKey(j)[1] = "refund" /\ BatchKey(j)[3] = j.key
  BY <1>1, KeyType
<1>5. \A b \in batches : b.key # BatchKey(j)
  BY <1>3, <1>4 DEF RequestsInv, RequestsFit
<1>6. QED
  BY <1>1, <1>5 DEF Posted

(* A refund is at record only when it has committed its posting.           *)
LEMMA QuietRefund ==
    ASSUME ShapeInv, RequestsInv, NEW s \in Sessions, Quiet(s), Refunding(job'[s])
    PROVE  /\ job'[s].pc # "record"
           /\ \/ Same(job'[s], job[s]) /\ job[s].pc # "record"
              \/ FindsRefund(job'[s]) /\ job[s] = Idle
<1>1. TypeOK /\ JobFits(job[s])
  BY DEF ShapeInv
<1>2. CASE \E j : Begin(s, j) /\ Begun(j)
  <2>1. PICK j \in Job : Begin(s, j) /\ Begun(j)
    BY <1>2 DEF Begun, JobFits
  <2>2. job'[s] = j /\ job[s] = Idle
    BY <1>1, <2>1, BeginJob
  <2>3. FindsRefund(j) /\ j.pc # "record"
    BY <2>1, <2>2 DEF Begun, FindsRefund, FindsReversal, FindsNoDispute, FindsOpen, FindsStatus,
                      Refunding
  <2>4. QED
    BY <2>2, <2>3
<1>3. CASE InsertRequest(s)
  BY <1>1, <1>3, InsertJob, IdleFields DEF Ends, MovesTo, Refunding
<1>4. CASE LookupBatch(s)
  <2>1. job[s].pc = "lookup" /\ Same(job'[s], job[s])
    BY <1>1, <1>4, LookupJob DEF MovesTo
  <2>2. job[s].cmd = "refund"
    BY <2>1 DEF Refunding, Same
  <2>3. ~Posted(BatchKey(job[s]))
    BY <2>1, <2>2, RefundIsNew
  <2>4. QED
    BY <1>1, <1>4, <2>1, <2>3, LookupJob DEF MovesTo
<1>5. CASE PostLine(s)
  BY <1>1, <1>5, PostLineJob DEF MovesTo
<1>6. CASE ReadHolds(s)
  BY <1>1, <1>6, ReadJob DEF MovesTo
<1>7. CASE FlushHolds(s)
  <2>1. job[s].pc = "flush" /\ job[s].cmd = "refund"
    BY <1>1, <1>7, FlushJob DEF MovesTo, Refunding, Same
  <2>2. QED
    BY <1>1, <2>1 DEF JobFits
<1>8. CASE Abort(s)
  BY <1>1, <1>8, AbortJob, IdleFields DEF Ends, Refunding
<1>9. QED
  BY <1>2, <1>3, <1>4, <1>5, <1>6, <1>7, <1>8 DEF Quiet

(* The refunds fit after a step that commits nothing.                      *)
LEMMA QuietRefunds ==
    ASSUME ShapeInv, RequestsInv, RefundsFit, NEW s \in Sessions, Quiet(s)
    PROVE  RefundsFit'
<1>1. refunded' = refunded /\ batches' = batches
  BY QuietRows DEF rows, books
<1>2. PICK i \in Job, j \in Job : i = job[s] /\ j = job'[s] /\ JobFits(i)
  BY QuietJob DEF ShapeInv, TypeOK, OnlyJob
<1>3. \A t \in Sessions \ {s} : job'[t] = job[t]
  BY QuietJob DEF OnlyJob
<1>4. SUFFICES ASSUME "refund" \notin raced' \cup lost'
               PROVE  RefundsFit'
  BY DEF RefundsFit
<1>5. "refund" \notin raced \cup lost
  BY <1>4, QuietHistory
<1>6. Refunding(i) => i.pc # "record"
  <2>1. SUFFICES ASSUME Refunding(i), i.pc = "record" PROVE FALSE
    OBVIOUS
  <2>2. j = Idle /\ i # Idle
    BY <1>2, <2>1, QuietJob, IdleFields
  <2>3. HalfDone(i) /\ Subject(i) = "refund"
    BY <2>1 DEF Refunding, HalfDone, Subject
  <2>4. QED
    BY <1>2, <1>4, <2>2, <2>3, QuietHistory
<1>7. Refunding(j) => j.pc # "record" /\ j.seen = refunded /\ WithinRemaining(j.amount)
  <2>1. SUFFICES ASSUME Refunding(j)
                 PROVE  j.pc # "record" /\ j.seen = refunded /\ WithinRemaining(j.amount)
    OBVIOUS
  <2>2. j.pc # "record" /\ ((Same(j, i) /\ i.pc # "record") \/ FindsRefund(j))
    BY <1>2, <2>1, QuietRefund
  <2>3. CASE FindsRefund(j)
    BY <2>2, <2>3 DEF FindsRefund
  <2>4. CASE Same(j, i) /\ i.pc # "record"
    <3>1. Refunding(i) /\ j.seen = i.seen /\ j.amount = i.amount
      BY <2>1, <2>4 DEF Same, Refunding
    <3>2. QED
      BY <1>2, <1>5, <2>2, <2>4, <3>1 DEF RefundsFit
  <2>5. QED
    BY <2>2, <2>3, <2>4
<1>8. RefundTotal' = RefundTotal /\ \A n : WithinRemaining(n)' <=> WithinRemaining(n)
  BY <1>1 DEF RefundTotal, WithinRemaining
<1>9. \/ RefundTotal = refunded
      \/ \E t \in Sessions : Refunding(job'[t]) /\ job'[t].pc = "record"
  BY <1>2, <1>3, <1>5, <1>6 DEF RefundsFit
<1>10. ASSUME NEW t \in Sessions, Refunding(job'[t])
       PROVE  IF job'[t].pc = "record"
              THEN RefundTotal = job'[t].seen + job'[t].amount
              ELSE job'[t].seen = refunded /\ WithinRemaining(job'[t].amount)
  <2>1. CASE t = s
    BY <1>2, <1>7, <1>10, <2>1
  <2>2. CASE t # s
    BY <1>3, <1>5, <1>10, <2>2 DEF RefundsFit
  <2>3. QED
    BY <2>1, <2>2
<1>11. RefundTotal <= Captured
  BY <1>5 DEF RefundsFit
<1>12. QED
  BY <1>1, <1>8, <1>9, <1>10, <1>11 DEF RefundsFit

(* Nobody else refunds.                                                    *)
LEMMA RefundsAlone ==
    ASSUME Alone, "refund" \notin raced, NEW s \in Sessions, NEW t \in Sessions,
           Refunding(job[s]), Refunding(job[t])
    PROVE  s = t
<1>1. job[s] # Idle /\ job[t] # Idle /\ Subject(job[s]) = "refund" /\ Subject(job[t]) = "refund"
  BY IdleFields DEF Refunding, Subject
<1>2. QED
  BY <1>1 DEF Alone

(* What a posting adds to the refunds.                                     *)
LEMMA RefundGrows ==
    ASSUME ShapeInv, NEW s \in Sessions, CommitPosting(s)
    PROVE  /\ RefundTotal \in Nat
           /\ RefundTotal' = RefundTotal + IF Refunding(job[s]) THEN job[s].amount ELSE 0
<1>1. PICK j \in Job : j = job[s] /\ JobFits(j) /\ j.pc = "post"
  BY CommitJob DEF ShapeInv, TypeOK
<1>2. PICK b : b \notin batches /\ batches' = batches \cup {b} /\ IsBatchOf(b, j)
  BY <1>1, CommitBatch
<1>3. b \in Batch /\ b.subject = Subject(j) /\ b.amount = Size(j)
  BY <1>2 DEF IsBatchOf
<1>4. b.subject = "refund" <=> Refunding(j)
  <2>1. "refund" \notin Disputes
    BY IdsAreDistinct DEF IdsAreDistinct
  <2>2. j.cmd \notin {"refund", "reversal"} => j.id \in Disputes
    BY <1>1, AboutDispute DEF JobFits, Job, Commands
  <2>3. QED
    BY <1>3, <2>1, <2>2 DEF Subject, Refunding
<1>5. Refunding(j) => b.amount = j.amount
  BY <1>1, <1>3 DEF Refunding, Size, JobFits
<1>6. PICK S, T, P : /\ S = {c \in batches : c.subject = "refund"}
                     /\ T = {c \in batches' : c.subject = "refund"}
                     /\ P = (b.subject = "refund")
  OBVIOUS
<1>7. IsFiniteSet(S) /\ S \subseteq Batch /\ b \notin S /\ T = IF P THEN S \cup {b} ELSE S
  <2>1. IsFiniteSet(batches) /\ S \subseteq batches /\ batches \subseteq Batch
    BY <1>6 DEF ShapeInv, TypeOK
  <2>2. IsFiniteSet(S)
    BY <2>1, FS_Subset
  <2>3. QED
    BY <1>2, <1>6, <2>1, <2>2
<1>8. AmountOf(S) \in Nat /\ AmountOf(T) = AmountOf(S) + IF P THEN b.amount ELSE 0
  BY <1>3, <1>7, AmountPosted
<1>9. RefundTotal = AmountOf(S) /\ RefundTotal' = AmountOf(T)
  BY <1>6 DEF RefundTotal, AmountOf
<1>10. QED
  BY <1>1, <1>4, <1>5, <1>6, <1>8, <1>9

(* The refunds fit after the commit of a posting: the only refund in       *)
(* progress still knows what was refunded.                                 *)
LEMMA CommitRefunds ==
    ASSUME ShapeInv, Alone, RefundsFit, NEW s \in Sessions, CommitPosting(s)
    PROVE  RefundsFit'
<1>1. UNCHANGED <<raced, lost, refunded>>
  BY CommitAlone, CommitRows
<1>2. PICK i \in Job, j \in Job : i = job[s] /\ j = job'[s] /\ i.pc = "post" /\ JobFits(i)
  BY CommitJob DEF ShapeInv, TypeOK, MovesTo, OnlyJob
<1>3. /\ \A t \in Sessions \ {s} : job'[t] = job[t]
      /\ Same(j, i) /\ j.pc = NextPc(i)
  BY <1>2, CommitJob DEF ShapeInv, MovesTo, OnlyJob
<1>4. Refunding(j) <=> Refunding(i)
  BY <1>3 DEF Same, Refunding
<1>5. SUFFICES ASSUME "refund" \notin raced \cup lost
               PROVE  RefundsFit'
  BY <1>1 DEF RefundsFit
<1>6. \A n : WithinRemaining(n)' <=> WithinRemaining(n)
  BY <1>1 DEF WithinRemaining
<1>7. RefundTotal \in Nat /\ RefundTotal' = RefundTotal + IF Refunding(i) THEN i.amount ELSE 0
  BY <1>2, RefundGrows
<1>8. CASE ~Refunding(i)
  <2>1. RefundTotal' = RefundTotal
    BY <1>7, <1>8
  <2>2. \A t \in Sessions : Refunding(job'[t]) => job'[t] = job[t]
    BY <1>2, <1>3, <1>4, <1>8
  <2>3. \A t \in Sessions : Refunding(job[t]) => job'[t] = job[t]
    BY <1>2, <1>3, <1>8
  <2>4. QED
    BY <1>1, <1>5, <1>6, <2>1, <2>2, <2>3 DEF RefundsFit
<1>9. CASE Refunding(i)
  <2>1. \A t \in Sessions : Refunding(job[t]) => t = s
    BY <1>2, <1>5, <1>9, RefundsAlone
  <2>2. RefundTotal = refunded /\ i.seen = refunded /\ i.amount <= Captured - refunded
    BY <1>2, <1>5, <1>9, <2>1 DEF RefundsFit, WithinRemaining
  <2>3. j.seen = i.seen /\ j.amount = i.amount /\ j.pc = "record"
    BY <1>3, <1>9 DEF Same, NextPc, Refunding
  <2>4. Captured \in Nat /\ refunded \in Nat /\ i.amount \in Nat
    BY AmountsArePositive DEF AmountsArePositive, ShapeInv, TypeOK, Job
  <2>5. RefundTotal' = j.seen + j.amount /\ RefundTotal' <= Captured
    BY <1>7, <1>9, <2>2, <2>3, <2>4
  <2>6. \A t \in Sessions : Refunding(job'[t]) => t = s
    BY <1>3, <2>1
  <2>7. QED
    BY <1>2, <1>4, <1>9, <2>3, <2>5, <2>6 DEF RefundsFit
<1>10. QED
  BY <1>8, <1>9

(* The refunds fit after the second commit.                                *)
LEMMA RecordRefunds ==
    ASSUME ShapeInv, Alone, RefundsFit, NEW s \in Sessions, Record(s)
    PROVE  RefundsFit'
<1>1. UNCHANGED <<raced, lost, batches>>
  BY RecordAlone, RecordRows
<1>2. PICK j \in Job : j = job[s] /\ j.pc = "record"
  BY RecordJob DEF ShapeInv, TypeOK
<1>3. job'[s] = Idle /\ \A t \in Sessions \ {s} : job'[t] = job[t]
  BY RecordJob DEF ShapeInv, Ends, OnlyJob
<1>4. refunded' = IF Refunding(j) THEN j.seen + j.amount ELSE refunded
  BY <1>2 DEF Record, Refunding
<1>5. SUFFICES ASSUME "refund" \notin raced \cup lost
               PROVE  RefundsFit'
  BY <1>1 DEF RefundsFit
<1>6. RefundTotal' = RefundTotal /\ ~Refunding(job'[s])
  BY <1>1, <1>3, IdleFields DEF RefundTotal, Refunding
<1>7. CASE ~Refunding(j)
  <2>1. refunded' = refunded /\ \A n : WithinRemaining(n)' <=> WithinRemaining(n)
    BY <1>4, <1>7 DEF WithinRemaining
  <2>2. \A t \in Sessions : Refunding(job[t]) \/ Refunding(job'[t]) => job'[t] = job[t]
    BY <1>2, <1>3, <1>6, <1>7
  <2>3. QED
    BY <1>5, <1>6, <2>1, <2>2 DEF RefundsFit
<1>8. CASE Refunding(j)
  <2>1. \A t \in Sessions : Refunding(job[t]) => t = s
    BY <1>2, <1>5, <1>8, RefundsAlone
  <2>2. \A t \in Sessions : ~Refunding(job'[t])
    BY <1>3, <1>6, <2>1
  <2>3. RefundTotal <= Captured /\ RefundTotal = j.seen + j.amount
    BY <1>2, <1>5, <1>8 DEF RefundsFit
  <2>4. QED
    BY <1>4, <1>6, <1>8, <2>2, <2>3 DEF RefundsFit
<1>9. QED
  BY <1>7, <1>8

-----------------------------------------------------------------------------
(* Decisions on disputes.                                                  *)

(* Nobody else works on the dispute.                                       *)
LEMMA WorksAlone ==
    ASSUME ShapeInv, Alone, NEW d \in Disputes, d \notin raced, NEW s \in Sessions,
           NEW t \in Sessions, job[s].id = d, job[t].id = d
    PROVE  s = t
<1>1. NoId \notin Disputes /\ JobFits(job[s]) /\ JobFits(job[t])
  BY IdsAreDistinct DEF IdsAreDistinct, ShapeInv
<1>2. job[s] # Idle /\ job[t] # Idle
  BY <1>1, IdleFields
<1>3. job[s].cmd \notin {"refund", "reversal"} /\ job[t].cmd \notin {"refund", "reversal"}
  BY <1>1, AboutDispute
<1>4. Subject(job[s]) = d /\ Subject(job[t]) = d
  BY <1>3 DEF Subject
<1>5. QED
  BY <1>2, <1>4 DEF Alone

(* A decision is past its refund until it ends.                            *)
LEMMA QuietPast ==
    ASSUME ShapeInv, NEW s \in Sessions, Quiet(s), PastRefund(job[s]), job'[s] # Idle
    PROVE  PastRefund(job'[s])
<1>1. TypeOK /\ JobFits(job[s])
  BY DEF ShapeInv
<1>2. CASE \E j : Begin(s, j) /\ Begun(j)
  BY <1>2, IdleFields DEF PastRefund, Begin
<1>3. CASE InsertRequest(s)
  BY <1>1, <1>3, InsertJob DEF Ends, MovesTo, PastRefund, Same, JobFits
<1>4. CASE LookupBatch(s)
  <2>1. job[s].pc = "lookup" /\ Same(job'[s], job[s])
    BY <1>1, <1>4, LookupJob DEF MovesTo
  <2>2. job[s].part = "fee" /\ job[s].cmd = "accept"
    BY <2>1 DEF PastRefund
  <2>3. job'[s].part = "fee"
    BY <1>1, <1>4, <2>2, LookupJob DEF MovesTo, NextPart
  <2>4. QED
    BY <2>1, <2>2, <2>3 DEF PastRefund, Same
<1>5. CASE PostLine(s)
  BY <1>1, <1>5, PostLineJob DEF MovesTo, PastRefund, Same
<1>6. CASE ReadHolds(s)
  BY <1>1, <1>6, ReadJob DEF MovesTo, PastRefund, Same
<1>7. CASE FlushHolds(s)
  BY <1>1, <1>7, FlushJob DEF MovesTo, PastRefund, Same
<1>8. CASE Abort(s)
  BY <1>1, <1>8, AbortJob DEF Ends
<1>9. QED
  BY <1>2, <1>3, <1>4, <1>5, <1>6, <1>7, <1>8 DEF Quiet

(* A step that commits nothing keeps the decision on a dispute, unless it  *)
(* loses the command.                                                      *)
LEMMA QuietDecision ==
    ASSUME ShapeInv, DisputesFit, NEW s \in Sessions, Quiet(s),
           NEW d \in Disputes, d \notin lost', DecisionFits(d)
    PROVE  DecisionFits(d)'
<1>1. disputes' = disputes /\ batches' = batches
  BY QuietRows DEF rows, books
<1>2. PICK i \in Job, j \in Job : i = job[s] /\ j = job'[s] /\ JobFits(i)
  BY QuietJob DEF ShapeInv, TypeOK, OnlyJob
<1>3. /\ \A t \in Sessions \ {s} : job'[t] = job[t]
      /\ \/ j = Idle
         \/ Same(j, i) /\ i.pc # "record"
         \/ Begun(j) /\ i = Idle
  BY <1>2, QuietJob DEF OnlyJob
<1>4. NoId \notin Disputes
  BY IdsAreDistinct DEF IdsAreDistinct
<1>5. Paid(d)' = Paid(d) /\ Freed(d)' = Freed(d) /\ (IsOpen(d)' <=> IsOpen(d))
  BY <1>1 DEF Paid, Freed, IsOpen
<1>6. j = Idle /\ i.id = d => ~HalfDone(i)
  <2>1. i.id = d => i # Idle /\ Subject(i) = d
    BY <1>2, <1>4, AboutDispute, IdleFields DEF Subject
  <2>2. QED
    BY <1>2, <2>1, QuietHistory
<1>7. i.id = d /\ PastRefund(i) => j.id = d /\ PastRefund(j)
  <2>1. SUFFICES ASSUME i.id = d, PastRefund(i) PROVE j.id = d /\ PastRefund(j)
    OBVIOUS
  <2>2. HalfDone(i) /\ i # Idle
    BY <1>4, <2>1, IdleFields DEF PastRefund, HalfDone
  <2>3. j # Idle
    BY <1>6, <2>1, <2>2
  <2>4. PastRefund(j)
    BY <1>2, <2>1, <2>3, QuietPast
  <2>5. j.id = i.id
    BY <1>3, <2>2, <2>3 DEF Same
  <2>6. QED
    BY <2>1, <2>4, <2>5
<1>8. i.id = d => ~Freeing(i)
  <2>1. SUFFICES ASSUME i.id = d, Freeing(i) PROVE FALSE
    OBVIOUS
  <2>2. HalfDone(i) /\ i # Idle /\ i.pc = "record"
    BY <1>4, <2>1, IdleFields DEF Freeing, HalfDone
  <2>3. QED
    BY <1>3, <1>6, <2>1, <2>2
<1>9. /\ Paid(d) # {} => \/ disputes[d].status \in {"ACCEPTED", "CLOSED"}
                         \/ \E t \in Sessions : job'[t].id = d /\ PastRefund(job'[t])
      /\ Freed(d) # {} => \/ disputes[d].status \in {"REJECTED", "CLOSED"}
                          \/ \E t \in Sessions : job'[t].id = d /\ Freeing(job'[t])
  BY <1>2, <1>3, <1>7, <1>8 DEF DecisionFits
<1>10. j.id = d =>
          /\ j.cmd \in {"reject", "review", "accept"} => IsOpen(d)
          /\ j.cmd = "close" => disputes[d].status \in {"ACCEPTED", "REJECTED"}
          /\ j.cmd = "open" => disputes[d].status \in {"none", "OPEN"}
  <2>1. SUFFICES ASSUME j.id = d
                 PROVE  /\ j.cmd \in {"reject", "review", "accept"} => IsOpen(d)
                        /\ j.cmd = "close" => disputes[d].status \in {"ACCEPTED", "REJECTED"}
                        /\ j.cmd = "open" => disputes[d].status \in {"none", "OPEN"}
    OBVIOUS
  <2>2. CASE Same(j, i) /\ i.pc # "record"
    BY <1>2, <2>1, <2>2 DEF Same, DecisionFits, Accepted
  <2>3. CASE Begun(j)
    BY <2>1, <2>3, NoDisputeFields DEF Begun, FindsRefund, FindsReversal, FindsNoDispute, FindsOpen,
                                       FindsStatus, IsOpen
  <2>4. QED
    BY <1>3, <1>4, <2>1, <2>2, <2>3, IdleFields
<1>11. ASSUME NEW t \in Sessions, job'[t].id = d
       PROVE  /\ job'[t].cmd \in {"reject", "review"} => IsOpen(d)
              /\ job'[t].cmd = "accept" => IsOpen(d) \/ Accepted(job'[t], d)
              /\ job'[t].cmd = "close" => disputes[d].status \in {"ACCEPTED", "REJECTED"}
              /\ job'[t].cmd = "open" => disputes[d].status \in {"none", "OPEN"}
  <2>1. CASE t = s
    BY <1>2, <1>10, <1>11, <2>1
  <2>2. CASE t # s
    BY <1>3, <1>11, <2>2 DEF DecisionFits
  <2>3. QED
    BY <2>1, <2>2
<1>12. \A b, c \in Paid(d) : b = c
  BY DEF DecisionFits
<1>13. QED
  BY <1>1, <1>5, <1>9, <1>11, <1>12 DEF DecisionFits, Accepted

(* The other disputes are left alone.                                      *)
LEMMA OtherDecision ==
    ASSUME NEW s \in Sessions, NEW d \in Disputes, DecisionFits(d),
           \A t \in Sessions \ {s} : job'[t] = job[t], job[s].id # d, job'[s].id # d,
           disputes'[d] = disputes[d], Paid(d)' = Paid(d), Freed(d)' = Freed(d)
    PROVE  DecisionFits(d)'
<1>1. IsOpen(d)' <=> IsOpen(d)
  BY DEF IsOpen
<1>2. \A t \in Sessions : job'[t].id = d \/ job[t].id = d => job'[t] = job[t]
  OBVIOUS
<1>3. ASSUME NEW t \in Sessions, job'[t].id = d
      PROVE  /\ job'[t].cmd \in {"reject", "review"} => IsOpen(d)'
             /\ job'[t].cmd = "accept" => IsOpen(d)' \/ Accepted(job[t], d)
             /\ job'[t].cmd = "close" => disputes'[d].status \in {"ACCEPTED", "REJECTED"}
             /\ job'[t].cmd = "open" => disputes'[d].status \in {"none", "OPEN"}
  BY <1>1, <1>2, <1>3 DEF DecisionFits
<1>4. \A t \in Sessions : job'[t].id = d /\ Accepted(job[t], d) => Accepted(job[t], d)'
  BY <1>2 DEF Accepted
<1>5. /\ Paid(d)' # {} => \/ disputes'[d].status \in {"ACCEPTED", "CLOSED"}
                          \/ \E t \in Sessions : job'[t].id = d /\ PastRefund(job'[t])
      /\ Freed(d)' # {} => \/ disputes'[d].status \in {"REJECTED", "CLOSED"}
                           \/ \E t \in Sessions : job'[t].id = d /\ Freeing(job'[t])
  BY <1>2 DEF DecisionFits
<1>6. \A b, c \in Paid(d)' : b = c
  BY DEF DecisionFits
<1>7. QED
  BY <1>2, <1>3, <1>4, <1>5, <1>6 DEF DecisionFits

(* What is not decided is not paid, and its hold not released.             *)
LEMMA NotPaidYet ==
    ASSUME NEW s \in Sessions, NEW d \in Disputes, DecisionFits(d),
           \A t \in Sessions : job[t].id = d => t = s,
           disputes[d].status \in {"none", "OPEN", "UNDER_REVIEW"}
    PROVE  /\ ~PastRefund(job[s]) => Paid(d) = {}
           /\ ~Freeing(job[s]) => Freed(d) = {}
BY DEF DecisionFits

(* The commit of a posting is the only one to pay or to free its dispute.  *)
LEMMA CommitDecision ==
    ASSUME ShapeInv, DisputesFit, Alone, NEW s \in Sessions, CommitPosting(s),
           NEW d \in Disputes, d \notin raced, DecisionFits(d)
    PROVE  DecisionFits(d)'
<1>1. PICK i \in Job, j \in Job : i = job[s] /\ j = job'[s] /\ JobFits(i) /\ i.pc = "post"
  BY CommitJob DEF ShapeInv, TypeOK, MovesTo, OnlyJob
<1>2. /\ \A t \in Sessions \ {s} : job'[t] = job[t]
      /\ Same(j, i) /\ j.pc = NextPc(i) /\ j.part = NextPart(i)
  BY <1>1, CommitJob DEF ShapeInv, MovesTo, OnlyJob
<1>3. j.cmd = i.cmd /\ j.id = i.id /\ j.hold = i.hold
  BY <1>2 DEF Same
<1>4. PICK b : batches' = batches \cup {b} /\ IsBatchOf(b, i)
  BY <1>1, CommitBatch
<1>5. b.subject = Subject(i) /\ b.part = i.part
  BY <1>4 DEF IsBatchOf
<1>6. DisputeStored(i)
  BY <1>1, CommitRows
<1>7. /\ Subject(i) \in Disputes => Subject(i) = i.id
      /\ i.id \in Disputes => i.cmd \in {"open", "accept", "reject"}
  <2>1. {"refund", "reversal", NoId} \cap Disputes = {}
    BY IdsAreDistinct DEF IdsAreDistinct
  <2>2. i.id \in Disputes => i.cmd \in {"open", "accept", "reject"}
    BY <1>1, <2>1, AboutDispute DEF JobFits, Job, Commands
  <2>3. QED
    BY <2>1, <2>2 DEF Subject
<1>8. CASE i.id # d
  <2>1. disputes'[d] = disputes[d]
    BY <1>6, <1>8 DEF DisputeStored, OnlyDispute
  <2>2. Paid(d)' = Paid(d) /\ Freed(d)' = Freed(d)
    <3>1. b.subject # d
      BY <1>5, <1>7, <1>8
    <3>2. QED
      BY <1>4, <3>1 DEF Paid, Freed
  <2>3. QED
    BY <1>1, <1>2, <1>3, <1>8, <2>1, <2>2, OtherDecision
<1>9. CASE i.id = d
  <2>1. \A t \in Sessions : job[t].id = d => t = s
    BY <1>1, <1>9, WorksAlone
  <2>2. \A t \in Sessions : job'[t].id = d => t = s
    BY <1>2, <2>1
  <2>3. Subject(i) = d
    BY <1>7, <1>9 DEF Subject
  <2>4. ~PastRefund(i) \/ i.part = "fee"
    BY <1>1 DEF PastRefund
  <2>5. ~Freeing(i)
    BY <1>1 DEF Freeing
  <2>6. CASE i.cmd = "open"
    <3>1. disputes[d].status = "none" /\ i.part = "hold"
      BY <1>1, <1>9, <2>6 DEF DisputesFit, OpensFit, OpensOf, StatusFits, JobFits
    <3>2. Paid(d) = {} /\ Freed(d) = {}
      BY <1>1, <2>1, <2>5, <2>6, <3>1, NotPaidYet DEF PastRefund
    <3>3. Paid(d)' = {} /\ Freed(d)' = {}
      BY <1>4, <1>5, <3>1, <3>2 DEF Paid, Freed
    <3>4. disputes'[d].status = "OPEN"
      BY <1>6, <1>9, <2>6 DEF DisputeStored
    <3>5. QED
      BY <1>1, <1>3, <2>2, <2>6, <3>3, <3>4 DEF DecisionFits
  <2>7. CASE i.cmd = "accept" /\ i.part = "refund"
    <3>1. disputes' = disputes
      BY <1>6, <2>7 DEF DisputeStored
    <3>2. disputes[d].status \in {"OPEN", "UNDER_REVIEW"} /\ IsOpen(d)'
      BY <1>1, <1>9, <2>7, <3>1 DEF DecisionFits, Accepted, IsOpen
    <3>3. Paid(d) = {} /\ Freed(d) = {}
      BY <1>1, <2>1, <2>4, <2>5, <2>7, <3>2, NotPaidYet
    <3>4. Paid(d)' = {b} /\ Freed(d)' = {}
      BY <1>4, <1>5, <2>3, <2>7, <3>3 DEF Paid, Freed
    <3>5. PastRefund(j)
      BY <1>2, <1>3, <2>7 DEF PastRefund, NextPc, NextPart
    <3>6. QED
      BY <1>1, <1>3, <1>9, <2>2, <2>7, <3>2, <3>4, <3>5 DEF DecisionFits
  <2>8. CASE i.cmd = "accept" /\ i.part = "fee"
    <3>1. disputes[d].status \in {"OPEN", "UNDER_REVIEW"}
      BY <1>1, <1>9, <2>8 DEF DecisionFits, Accepted, IsOpen
    <3>2. Freed(d) = {}
      BY <1>1, <2>1, <2>5, <3>1, NotPaidYet
    <3>3. Paid(d)' = Paid(d) /\ Freed(d)' = {}
      BY <1>4, <1>5, <2>8, <3>2 DEF Paid, Freed
    <3>4. disputes'[d].status = "ACCEPTED"
      BY <1>6, <1>9, <2>8 DEF DisputeStored, DecidedAs
    <3>5. j.pc = "record" /\ j.part = "fee"
      BY <1>2, <2>8 DEF NextPc, NextPart
    <3>6. Accepted(j, d)'
      BY <3>4, <3>5 DEF Accepted
    <3>7. \A p, c \in Paid(d) : p = c
      BY DEF DecisionFits
    <3>8. QED
      BY <1>1, <1>3, <2>2, <2>8, <3>3, <3>4, <3>5, <3>7 DEF DecisionFits, Accepted
  <2>9. CASE i.cmd = "reject"
    <3>1. i.part = "release" /\ i.hold
      BY <1>1, <2>9 DEF JobFits
    <3>2. disputes' = disputes
      BY <1>6, <2>9, <3>1 DEF DisputeStored
    <3>3. disputes[d].status \in {"OPEN", "UNDER_REVIEW"} /\ IsOpen(d)'
      BY <1>1, <1>9, <2>9, <3>2 DEF DecisionFits, IsOpen
    <3>4. Paid(d) = {}
      BY <1>1, <2>1, <2>9, <3>3, NotPaidYet DEF PastRefund
    <3>5. Paid(d)' = {}
      BY <1>4, <1>5, <3>1, <3>4 DEF Paid
    <3>6. Freeing(j)
      BY <1>2, <1>3, <2>9, <3>1 DEF Freeing, NextPc
    <3>7. QED
      BY <1>1, <1>3, <1>9, <2>2, <2>9, <3>3, <3>5, <3>6 DEF DecisionFits
  <2>10. QED
    BY <1>1, <1>7, <1>9, <2>6, <2>7, <2>8, <2>9 DEF JobFits
<1>10. QED
  BY <1>8, <1>9

(* The second commit records what was paid or freed.                       *)
LEMMA RecordDecision ==
    ASSUME ShapeInv, DisputesFit, Alone, NEW s \in Sessions, Record(s),
           NEW d \in Disputes, d \notin raced, DecisionFits(d)
    PROVE  DecisionFits(d)'
<1>1. PICK j \in Job : j = job[s] /\ JobFits(j) /\ j.pc = "record"
  BY RecordJob DEF ShapeInv, TypeOK
<1>2. job'[s] = Idle /\ \A t \in Sessions \ {s} : job'[t] = job[t]
  BY RecordJob DEF ShapeInv, Ends, OnlyJob
<1>3. DisputeRecorded(j) /\ batches' = batches
  BY <1>1, RecordRows
<1>4. NoId \notin Disputes /\ Idle.id = NoId
  BY IdsAreDistinct, IdleFields DEF IdsAreDistinct
<1>5. Paid(d)' = Paid(d) /\ Freed(d)' = Freed(d)
  BY <1>3 DEF Paid, Freed
<1>6. CASE j.id # d
  <2>1. disputes'[d] = disputes[d]
    BY <1>3, <1>6 DEF DisputeRecorded, OnlyDispute
  <2>2. job'[s].id # d /\ job[s].id # d
    BY <1>1, <1>2, <1>4, <1>6
  <2>3. QED
    BY <1>2, <1>5, <2>1, <2>2, OtherDecision
<1>7. CASE j.id = d
  <2>1. \A t \in Sessions : job[t].id = d => t = s
    BY <1>1, <1>7, WorksAlone
  <2>2. \A t \in Sessions : job'[t].id # d
    BY <1>2, <1>4, <2>1
  <2>3. /\ d = j.id /\ j.cmd = "open" => OpenedAs(j)
        /\ j.cmd # "open" => Statused(j) # "none" /\ DecidedAs(d, Statused(j), j.hold)
    BY <1>1, <1>3, <1>7, RecordedDispute
  <2>4. \A b, c \in Paid(d) : b = c
    BY DEF DecisionFits
  <2>5. SUFFICES /\ Paid(d) # {} => disputes'[d].status \in {"ACCEPTED", "CLOSED"}
                 /\ Freed(d) # {} => disputes'[d].status \in {"REJECTED", "CLOSED"}
    BY <1>5, <2>2, <2>4 DEF DecisionFits
  <2>6. CASE j.cmd = "open"
    <3>1. disputes[d].status \in {"none", "OPEN"}
      BY <1>1, <1>7, <2>6 DEF DecisionFits
    <3>2. ~PastRefund(j) /\ ~Freeing(j)
      BY <2>6 DEF PastRefund, Freeing
    <3>3. QED
      BY <1>1, <2>1, <3>1, <3>2, NotPaidYet
  <2>7. CASE j.cmd = "accept"
    <3>1. disputes'[d].status = "ACCEPTED"
      BY <2>3, <2>7 DEF Statused, DecidedAs
    <3>2. disputes[d].status \in {"OPEN", "UNDER_REVIEW", "ACCEPTED"}
      BY <1>1, <1>7, <2>7 DEF DecisionFits, Accepted, IsOpen
    <3>3. ~Freeing(j)
      BY <2>7 DEF Freeing
    <3>4. Freed(d) = {}
      BY <1>1, <2>1, <3>2, <3>3 DEF DecisionFits
    <3>5. QED
      BY <3>1, <3>4
  <2>8. CASE j.cmd \in {"reject", "review"}
    <3>1. disputes[d].status \in {"OPEN", "UNDER_REVIEW"} /\ ~PastRefund(j)
      BY <1>1, <1>7, <2>8 DEF DecisionFits, IsOpen, PastRefund
    <3>2. Paid(d) = {}
      BY <1>1, <2>1, <3>1, NotPaidYet
    <3>3. j.cmd = "review" => Freed(d) = {}
      BY <1>1, <2>1, <3>1, NotPaidYet DEF Freeing
    <3>4. j.cmd = "reject" => disputes'[d].status = "REJECTED"
      BY <2>3 DEF Statused, DecidedAs
    <3>5. QED
      BY <2>8, <3>2, <3>3, <3>4
  <2>9. CASE j.cmd = "close"
    BY <2>3, <2>9 DEF Statused, DecidedAs
  <2>10. QED
    BY <1>1, <1>4, <1>7, <2>6, <2>7, <2>8, <2>9, AboutDispute DEF Job, Commands
<1>8. QED
  BY <1>6, <1>7

-----------------------------------------------------------------------------
PaidStepInv == LedgerInv /\ PaidInv

(* Every step keeps the invariant of what is paid.                         *)
LEMMA PaidStep ==
    ASSUME PaidStepInv, [Next]_vars
    PROVE  PaidStepInv'
<1>1. /\ ShapeInv /\ RequestsInv /\ DisputesFit /\ LedgerInv
      /\ Alone /\ RefundsFit /\ DecisionsFit
  BY DoneParts DEF PaidStepInv, LedgerInv, PaidInv
<1>2. LedgerInv'
  BY <1>1, LedgerStep
<1>3. CASE UNCHANGED vars
  <2>1. UNCHANGED <<job, batches, disputes, refunded, raced, lost>>
    BY <1>3 DEF vars, rows, books, history
  <2>2. Alone' /\ RefundsFit'
    BY <1>1, <2>1 DEF Alone, RefundsFit, RefundTotal, WithinRemaining
  <2>3. DecisionsFit'
    BY <1>1, <2>1 DEF DecisionsFit, DecisionFits, Paid, Freed, IsOpen, Accepted
  <2>4. QED
    BY <1>2, <2>2, <2>3 DEF PaidStepInv, PaidInv
<1>4. ASSUME NEW s \in Sessions, Quiet(s)
      PROVE  PaidInv'
  <2>1. raced \subseteq raced' /\ lost \subseteq lost'
    BY <1>1, <1>4, QuietHistory
  <2>2. DecisionsFit'
    BY <1>1, <1>4, <2>1, QuietDecision DEF DecisionsFit
  <2>3. QED
    BY <1>1, <1>4, <2>2, QuietAlone, QuietRefunds DEF PaidInv
<1>5. ASSUME NEW s \in Sessions, CommitPosting(s)
      PROVE  PaidInv'
  <2>1. Alone' /\ UNCHANGED <<raced, lost>>
    BY <1>1, <1>5, CommitAlone
  <2>2. DecisionsFit'
    BY <1>1, <1>5, <2>1, CommitDecision DEF DecisionsFit
  <2>3. QED
    BY <1>1, <1>5, <2>1, <2>2, CommitRefunds DEF PaidInv
<1>6. ASSUME NEW s \in Sessions, Record(s)
      PROVE  PaidInv'
  <2>1. Alone' /\ UNCHANGED <<raced, lost>>
    BY <1>1, <1>6, RecordAlone
  <2>2. DecisionsFit'
    BY <1>1, <1>6, <2>1, RecordDecision DEF DecisionsFit
  <2>3. QED
    BY <1>1, <1>6, <2>1, <2>2, RecordRefunds DEF PaidInv
<1>7. TypeOK
  BY <1>1 DEF ShapeInv
<1>8. QED
  BY <1>2, <1>3, <1>4, <1>5, <1>6, <1>7, StepKinds DEF PaidStepInv

(* It holds when the system starts.                                        *)
LEMMA PaidStart ==
    ASSUME Init
    PROVE  PaidStepInv
<1>1. LedgerInv
  BY LedgerStart
<1>2. batches = {} /\ refunded = 0 /\ \A s \in Sessions : job[s] = Idle
  BY DEF Init
<1>3. Alone
  BY <1>2 DEF Alone
<1>4. RefundsFit
  <2>1. {b \in batches : b.subject = "refund"} = {}
    BY <1>2
  <2>2. RefundTotal = 0
    BY <2>1, AmountEmpty DEF RefundTotal
  <2>3. \A s \in Sessions : ~Refunding(job[s])
    BY <1>2, IdleFields DEF Refunding
  <2>4. QED
    BY <1>2, <2>2, <2>3, AmountsArePositive DEF RefundsFit, AmountsArePositive
<1>5. DecisionsFit
  <2>1. \A d \in Disputes : Paid(d) = {} /\ Freed(d) = {}
    BY <1>2 DEF Paid, Freed
  <2>2. \A d \in Disputes, s \in Sessions : job[s].id # d
    BY <1>2, IdleFields, IdsAreDistinct DEF IdsAreDistinct
  <2>3. QED
    BY <2>1, <2>2 DEF DecisionsFit, DecisionFits
<1>6. QED
  BY <1>1, <1>3, <1>4, <1>5 DEF PaidStepInv, PaidInv

(* A set all of whose elements are equal.                                  *)
LEMMA AtMostOne ==
    ASSUME NEW S, \A b, c \in S : b = c
    PROVE  Cardinality(S) <= 1
<1>1. CASE S = {}
  BY <1>1, FS_EmptySet
<1>2. CASE S # {}
  <2>1. PICK b : b \in S
    BY <1>2
  <2>2. S = {b}
    BY <2>1
  <2>3. Cardinality({b}) = 1
    BY FS_Singleton
  <2>4. QED
    BY <2>2, <2>3
<1>3. QED
  BY <1>1, <1>2

(* It implies the property.                                                *)
LEMMA PaidFollows ==
    ASSUME PaidStepInv
    PROVE  NothingPaidTwice
<1>1. RefundsFit /\ DecisionsFit
  BY DEF PaidStepInv, PaidInv
<1>2. RefundsWithinCaptured
  BY <1>1 DEF RefundsFit, RefundTotal, RefundsWithinCaptured
<1>3. ASSUME NEW d \in Disputes \ (raced \cup lost)
      PROVE  /\ Cardinality(Paid(d)) <= 1
             /\ disputes[d].status = "REJECTED" => Paid(d) = {}
  <2>1. DecisionFits(d)
    BY <1>1 DEF DecisionsFit
  <2>2. \A b, c \in Paid(d) : b = c
    BY <2>1 DEF DecisionFits
  <2>3. Cardinality(Paid(d)) <= 1
    BY <2>2, AtMostOne
  <2>4. disputes[d].status = "REJECTED" => Paid(d) = {}
    BY <2>1 DEF DecisionFits, PastRefund, Accepted, IsOpen
  <2>5. QED
    BY <2>3, <2>4
<1>4. QED
  BY <1>2, <1>3 DEF NothingPaidTwice, DisputePaidOnce, Paid

(* No refund exceeds what was captured, and no dispute is paid twice or    *)
(* paid and rejected, unless two commands work on the same thing at once   *)
(* or one is lost between its two commits.                                 *)
THEOREM NothingIsPaidTwice == Spec => []NothingPaidTwice
<1>1. Init => PaidStepInv
  BY PaidStart
<1>2. PaidStepInv /\ [Next]_vars => PaidStepInv'
  BY PaidStep
<1>3. PaidStepInv => NothingPaidTwice
  BY PaidFollows
<1>4. QED
  BY <1>1, <1>2, <1>3, PTL DEF Spec

-----------------------------------------------------------------------------
(* Available balances.                                                     *)

(* A step of s that commits nothing changes at most what s sees.           *)
LEMMA AvailableIsKept ==
    ASSUME AvailableFits, NEW s \in Sessions, OnlyMine(s), bal' = bal, smeared => smeared',
           ~smeared' => \A a \in Accounts : Agrees(View(s, a)')
    PROVE  AvailableFits'
<1>1. SUFFICES ASSUME ~smeared' PROVE AvailableFits'
  BY DEF AvailableFits
<1>2. ~smeared
  BY <1>1
<1>3. ASSUME NEW a \in Accounts
      PROVE  Agrees(bal'[a]) /\ \A t \in Sessions : Agrees(View(t, a)')
  <2>1. \A t \in Sessions \ {s} : View(t, a)' = View(t, a)
    BY ViewOfOthers
  <2>2. Agrees(bal[a]) /\ \A t \in Sessions : Agrees(View(t, a))
    BY <1>2 DEF AvailableFits
  <2>3. PICK V, W : V = [t \in Sessions |-> View(t, a)] /\ W = [t \in Sessions |-> View(t, a)']
    OBVIOUS
  <2>4. \A t \in Sessions : Agrees(W[t])
    BY <1>1, <2>1, <2>2, <2>3
  <2>5. QED
    BY <2>2, <2>3, <2>4
<1>4. QED
  BY <1>3 DEF AvailableFits, Agrees

(* What s sees when it holds nothing.                                      *)
LEMMA AvailableFreed ==
    ASSUME AvailableFits, NEW s \in Sessions, OnlyMine(s), bal' = bal, smeared' = smeared,
           held'[s] = {}
    PROVE  AvailableFits'
<1>1. \A a \in Accounts : View(s, a)' = bal[a]
  BY DEF View
<1>2. ~smeared' => \A a \in Accounts : Agrees(View(s, a)')
  <2>1. PICK W : W = [a \in Accounts |-> View(s, a)']
    OBVIOUS
  <2>2. ~smeared' => \A a \in Accounts : Agrees(W[a])
    BY <1>1, <2>1 DEF AvailableFits
  <2>3. QED
    BY <2>1, <2>2
<1>3. QED
  BY <1>2, AvailableIsKept

(* An entry leaves the available balance what it has to be.                *)
LEMMA AppliedAgrees ==
    ASSUME NEW b \in Balance, Agrees(b), NEW part, NEW e \in Int
    PROVE  Agrees(Applied(b, part, e))
<1>1. PICK c : c = Applied(b, part, e)
  OBVIOUS
<1>2. /\ c.current = IF IsHold(part) THEN b.current ELSE b.current + e
      /\ c.hold = IF IsHold(part) THEN b.hold - e ELSE b.hold
      /\ c.available = IF IsHold(part) THEN b.available + e ELSE b.current + e - b.hold
  BY <1>1, BalanceFields
<1>3. b.current \in Int /\ b.hold \in Int /\ b.available \in Int
  BY DEF Balance
<1>4. Agrees(c)
  BY <1>2, <1>3 DEF Agrees
<1>5. QED
  BY <1>1, <1>4

(* So does clearing the holds of a balance that is what was read.          *)
LEMMA ClearedAgrees ==
    ASSUME NEW b \in Balance
    PROVE  Agrees(Cleared(b, b))
<1>1. PICK c : c = Cleared(b, b)
  OBVIOUS
<1>2. /\ c.current = b.current /\ c.hold = IF b.hold = 0 THEN b.hold ELSE 0
      /\ c.available = IF b.available = b.current THEN b.available ELSE b.current
  BY <1>1, ClearedFields
<1>3. b.current \in Int
  BY DEF Balance
<1>4. c.hold = 0 /\ c.available = c.current
  BY <1>2
<1>5. Agrees(c)
  BY <1>2, <1>3, <1>4 DEF Agrees
<1>6. QED
  BY <1>1, <1>5

(* An entry is a number.                                                   *)
LEMMA EntryType ==
    ASSUME NEW j \in Job
    PROVE  Entry(j) \in Int
BY SizeType DEF Entry

(* PostLine keeps available balances exact.                                *)
LEMMA PostLineAvailable ==
    ASSUME ShapeInv, AvailableFits, NEW s \in Sessions, PostLine(s)
    PROVE  AvailableFits'
<1>1. TypeOK
  BY DEF ShapeInv
<1>2. PICK j \in Job, c \in Accounts : j = job[s] /\ c = NextAccount(j)
  BY <1>1, JobAccounts DEF TypeOK
<1>3. /\ OnlyMine(s) /\ held'[s] = held[s] \cup {c}
      /\ mine'[s][c] = Applied(View(s, c), j.part, Entry(j))
      /\ \A b \in Accounts \ {c} : mine'[s][b] = mine[s][b]
  BY <1>1, <1>2, PostLineMine
<1>4. bal' = bal /\ smeared' = smeared
  BY DEF PostLine, books, history
<1>5. SUFFICES ASSUME ~smeared, NEW a \in Accounts
               PROVE  Agrees(View(s, a)')
  BY <1>3, <1>4, AvailableIsKept
<1>6. PICK v : v = View(s, a)
  OBVIOUS
<1>7. v \in Balance /\ Agrees(v)
  BY <1>1, <1>5, <1>6, ViewType DEF AvailableFits
<1>8. PICK w : w = View(s, a)'
  OBVIOUS
<1>9. w = IF a = c THEN Applied(v, j.part, Entry(j)) ELSE v
  BY <1>2, <1>3, <1>4, <1>6, <1>8 DEF View
<1>10. Agrees(w)
  BY <1>2, <1>7, <1>9, AppliedAgrees, EntryType
<1>11. QED
  BY <1>8, <1>10

(* So does FlushHolds, when the copies are up to date.                     *)
LEMMA FlushAvailable ==
    ASSUME ShapeInv, AvailableFits, NEW s \in Sessions, FlushHolds(s)
    PROVE  AvailableFits'
<1>1. TypeOK
  BY DEF ShapeInv
<1>2. /\ OnlyMine(s) /\ held'[s] = Holders
      /\ \A a \in Holders : mine'[s][a] = Cleared(bal[a], mine[s][a])
  BY <1>1, FlushMine
<1>3. bal' = bal /\ (smeared => smeared') /\ (~smeared' => \A a \in Holders : bal[a] = mine[s][a])
  BY DEF FlushHolds, books, Holders
<1>4. SUFFICES ASSUME ~smeared', NEW a \in Accounts
               PROVE  Agrees(View(s, a)')
  BY <1>2, <1>3, AvailableIsKept
<1>5. PICK b \in Balance : b = bal[a] /\ Agrees(b)
  BY <1>1, <1>3, <1>4 DEF AvailableFits, TypeOK
<1>6. PICK w : w = View(s, a)'
  OBVIOUS
<1>7. w = IF a \in Holders THEN Cleared(b, b) ELSE b
  BY <1>2, <1>3, <1>4, <1>5, <1>6 DEF View
<1>8. Agrees(w)
  BY <1>5, <1>7, ClearedAgrees
<1>9. QED
  BY <1>6, <1>8

(* The other steps that commit nothing.                                    *)
LEMMA QuietAvailable ==
    ASSUME ShapeInv, AvailableFits, NEW s \in Sessions, Quiet(s)
    PROVE  AvailableFits'
<1>1. TypeOK
  BY DEF ShapeInv
<1>2. bal' = bal
  BY QuietRows DEF books
<1>3. CASE UNCHANGED <<held, mine, smeared>>
  BY <1>2, <1>3 DEF AvailableFits, View
<1>4. CASE ReadHolds(s)
  <2>1. OnlyMine(s) /\ held'[s] = held[s] /\ job[s].pc = "clear" /\ smeared' = smeared
    BY <1>1, <1>4, ReadMine, ReadJob DEF ReadHolds, history
  <2>2. held[s] = {}
    BY <2>1 DEF ShapeInv, HeldFits
  <2>3. QED
    BY <1>2, <2>1, <2>2, AvailableFreed
<1>5. CASE Abort(s)
  <2>1. OnlyMine(s) /\ held'[s] = {} /\ smeared' = smeared
    BY <1>1, <1>5, ReleaseMine DEF Abort
  <2>2. QED
    BY <1>2, <2>1, AvailableFreed
<1>6. CASE (\E j : Begin(s, j)) \/ InsertRequest(s) \/ LookupBatch(s)
  BY <1>3, <1>6 DEF Begin, InsertRequest, LookupBatch, history
<1>7. QED
  BY <1>4, <1>5, <1>6, PostLineAvailable, FlushAvailable DEF Quiet

(* A commit makes what its session sees the balance.                       *)
LEMMA CommitAvailable ==
    ASSUME ShapeInv, AvailableFits, NEW s \in Sessions, CommitPosting(s) \/ Record(s)
    PROVE  AvailableFits'
<1>1. bal' = Flushed(s) /\ Release(s) /\ smeared' = smeared
  BY DEF CommitPosting, Record, history
<1>2. OnlyMine(s) /\ held'[s] = {}
  BY <1>1, ReleaseMine DEF ShapeInv
<1>3. SUFFICES ASSUME ~smeared PROVE AvailableFits'
  BY <1>1 DEF AvailableFits
<1>4. ASSUME NEW a \in Accounts
      PROVE  Agrees(bal'[a]) /\ \A t \in Sessions : Agrees(View(t, a)')
  <2>1. /\ bal'[a] = View(s, a) /\ View(s, a)' = bal'[a]
        /\ \A t \in Sessions \ {s} :
              View(t, a)' = IF a \in held[t] THEN View(t, a) ELSE bal'[a]
    BY <1>1, <1>2, ViewAfterCommit
  <2>2. \A t \in Sessions : Agrees(View(t, a))
    BY <1>3 DEF AvailableFits
  <2>3. PICK c, W : c = bal'[a] /\ W = [t \in Sessions |-> View(t, a)']
    OBVIOUS
  <2>4. Agrees(c) /\ \A t \in Sessions : Agrees(W[t])
    BY <2>1, <2>2, <2>3
  <2>5. QED
    BY <2>3, <2>4
<1>5. QED
  BY <1>4 DEF AvailableFits, Agrees

-----------------------------------------------------------------------------
(* The holds an accept has cleared.                                        *)
LEMMA ClearIsKept ==
    ASSUME \A t \in Sessions : ClearFits(t), NEW s \in Sessions, OnlyJob(s), OnlyMine(s),
           ClearFits(s)'
    PROVE  \A t \in Sessions : ClearFits(t)'
<1>1. \A t \in Sessions \ {s} : job'[t] = job[t] /\ held'[t] = held[t]
  BY DEF OnlyJob, OnlyMine
<1>2. QED
  BY <1>1 DEF ClearFits

(* The postings of an accept of a dispute with a hold.                     *)
LEMMA AcceptAccounts ==
    ASSUME NEW j \in Job, JobFits(j), j.cmd = "accept", j.hold
    PROVE  Source(j) # "payable" /\ Target(j) # "payable"
<1>1. j.part \in {"refund", "fee"}
  BY DEF JobFits
<1>2. QED
  BY <1>1 DEF Source, Target

(* A step that commits nothing clears holds only in FlushHolds.            *)
LEMMA QuietClear ==
    ASSUME ShapeInv, \A t \in Sessions : ClearFits(t), NEW s \in Sessions, Quiet(s)
    PROVE  \A t \in Sessions : ClearFits(t)'
<1>1. TypeOK /\ JobFits(job[s]) /\ HeldFits(s) /\ ClearFits(s)
  BY DEF ShapeInv
<1>2. PICK i \in Job, j \in Job : i = job[s] /\ j = job'[s]
  BY QuietJob DEF ShapeInv, TypeOK, OnlyJob
<1>3. OnlyJob(s)
  BY QuietJob
<1>4. CASE \E k : Begin(s, k) /\ Begun(k)
  <2>1. PICK k \in Job : Begin(s, k) /\ Begun(k)
    BY <1>4 DEF Begun, JobFits
  <2>2. UNCHANGED <<held, mine>>
    BY <2>1 DEF Begin
  <2>3. j = k /\ i = Idle
    BY <1>1, <1>2, <2>1, BeginJob
  <2>4. held[s] = {}
    BY <1>1, <1>2, <2>3, IdleFields DEF HeldFits
  <2>5. k.cmd = "accept" => k.part = "refund" /\ k.pc = "lookup"
    BY <2>1 DEF Begun, FindsRefund, FindsReversal, FindsNoDispute, FindsOpen, FindsStatus
  <2>6. ClearFits(s)'
    BY <1>2, <2>2, <2>3, <2>4, <2>5 DEF ClearFits
  <2>7. QED
    BY <1>1, <1>3, <2>2, <2>6, ClearIsKept, MineIsKept
<1>5. CASE InsertRequest(s) \/ Abort(s)
  <2>1. OnlyMine(s)
    BY <1>1, <1>5, MineIsKept, ReleaseMine DEF InsertRequest, Abort
  <2>2. j.cmd # "accept"
    <3>1. CASE InsertRequest(s)
      <4>1. i.pc = "insert" /\ (j = Idle \/ Same(j, i))
        BY <1>1, <1>2, <3>1, InsertJob DEF Ends, MovesTo
      <4>2. i.cmd # "accept"
        BY <1>1, <1>2, <4>1 DEF JobFits
      <4>3. QED
        BY <4>1, <4>2, IdleFields DEF Same
    <3>2. CASE Abort(s)
      BY <1>1, <1>2, <3>2, AbortJob, IdleFields DEF Ends
    <3>3. QED
      BY <1>5, <3>1, <3>2
  <2>3. ClearFits(s)'
    BY <1>2, <2>2 DEF ClearFits
  <2>4. QED
    BY <1>3, <2>1, <2>3, ClearIsKept
<1>6. CASE LookupBatch(s)
  <2>1. /\ UNCHANGED <<held, mine>> /\ i.pc = "lookup" /\ Same(j, i)
        /\ \/ j.pc = NextPc(i) /\ j.part = NextPart(i)
           \/ j.pc = "post" /\ j.part = i.part
    BY <1>1, <1>2, <1>6, LookupJob DEF LookupBatch, MovesTo
  <2>2. SUFFICES ASSUME j.cmd = "accept", j.hold PROVE ClearFits(s)'
    <3>1. ClearFits(s)'
      BY <1>2, <2>2 DEF ClearFits
    <3>2. QED
      BY <1>1, <1>3, <2>1, <3>1, ClearIsKept, MineIsKept
  <2>3. i.cmd = "accept" /\ i.hold
    BY <2>1, <2>2 DEF Same
  <2>4. i.part \in {"refund", "fee"}
    BY <1>1, <1>2, <2>3 DEF JobFits
  <2>5. CASE i.part = "refund"
    BY <1>1, <1>2, <2>1, <2>3, <2>5 DEF ClearFits, NextPc, NextPart
  <2>6. CASE i.part = "fee"
    BY <1>1, <1>2, <2>1, <2>3, <2>6 DEF ClearFits, NextPc, NextPart
  <2>7. QED
    BY <2>4, <2>5, <2>6
<1>7. CASE PostLine(s)
  <2>1. OnlyMine(s) /\ held'[s] = held[s] \cup {NextAccount(i)}
    BY <1>1, <1>2, <1>7, PostLineMine
  <2>2. i.pc = "post" /\ Same(j, i) /\ j.pc = "post" /\ j.part = i.part
    BY <1>1, <1>2, <1>7, PostLineJob DEF MovesTo
  <2>3. SUFFICES ASSUME j.cmd = "accept", j.hold PROVE ClearFits(s)'
    <3>1. ClearFits(s)'
      BY <1>2, <2>3 DEF ClearFits
    <3>2. QED
      BY <1>3, <2>1, <3>1, ClearIsKept
  <2>4. i.cmd = "accept" /\ i.hold
    BY <2>2, <2>3 DEF Same
  <2>5. NextAccount(i) # "payable"
    BY <1>1, <1>2, <2>4, AcceptAccounts DEF NextAccount
  <2>6. QED
    BY <1>1, <1>2, <2>1, <2>2, <2>4, <2>5 DEF ClearFits
<1>8. CASE ReadHolds(s)
  <2>1. OnlyMine(s) /\ held'[s] = held[s] /\ i.pc = "clear" /\ Same(j, i) /\ j.part = i.part
        /\ j.pc = "flush"
    BY <1>1, <1>2, <1>8, ReadMine, ReadJob DEF MovesTo
  <2>2. held'[s] = {} /\ i.part = "refund"
    BY <1>1, <1>2, <2>1 DEF HeldFits, JobFits, Job, Commands
  <2>3. ClearFits(s)'
    BY <1>2, <2>1, <2>2 DEF ClearFits
  <2>4. QED
    BY <1>3, <2>1, <2>3, ClearIsKept
<1>9. CASE FlushHolds(s)
  <2>1. OnlyMine(s) /\ held'[s] = Holders /\ i.pc = "flush" /\ Same(j, i)
        /\ j.pc = (IF Fee > 0 THEN "lookup" ELSE "record")
        /\ j.part = (IF Fee > 0 THEN "fee" ELSE i.part)
    BY <1>1, <1>2, <1>9, FlushMine, FlushJob DEF MovesTo
  <2>2. "payable" \in held'[s]
    BY <2>1 DEF Holders
  <2>3. Fee > 0 \/ j.pc = "record"
    BY <2>1
  <2>4. j.part = "refund" => j.pc = "record"
    BY <2>1
  <2>5. ClearFits(s)'
    BY <1>2, <2>2, <2>4 DEF ClearFits
  <2>6. QED
    BY <1>3, <2>1, <2>5, ClearIsKept
<1>10. QED
  BY <1>4, <1>5, <1>6, <1>7, <1>8, <1>9 DEF Quiet

(* No commit leaves holds cleared and not committed.                       *)
LEMMA CommitClear ==
    ASSUME ShapeInv, \A t \in Sessions : ClearFits(t), NEW s \in Sessions, CommitPosting(s) \/ Record(s)
    PROVE  \A t \in Sessions : ClearFits(t)'
<1>1. TypeOK /\ JobFits(job[s])
  BY DEF ShapeInv
<1>2. OnlyMine(s) /\ held'[s] = {}
  BY <1>1, ReleaseMine DEF CommitPosting, Record
<1>3. CASE Record(s)
  <2>1. OnlyJob(s) /\ job'[s].cmd = "none"
    BY <1>1, <1>3, RecordJob, IdleFields DEF Ends
  <2>2. ClearFits(s)'
    BY <2>1 DEF ClearFits
  <2>3. QED
    BY <1>2, <2>1, <2>2, ClearIsKept
<1>4. CASE CommitPosting(s)
  <2>1. PICK i \in Job, j \in Job : i = job[s] /\ j = job'[s]
    BY <1>1, <1>4, CommitJob DEF TypeOK, MovesTo, OnlyJob
  <2>2. /\ OnlyJob(s) /\ i.pc = "post" /\ Same(j, i) /\ j.pc = NextPc(i) /\ j.part = NextPart(i)
    BY <1>1, <1>4, <2>1, CommitJob DEF MovesTo
  <2>3. j.cmd = "accept" /\ j.hold => \/ j.part = "refund" /\ j.pc # "record"
                                      \/ j.part = "fee" /\ j.pc = "record"
    <3>1. SUFFICES ASSUME j.cmd = "accept", j.hold
                   PROVE  \/ j.part = "refund" /\ j.pc # "record"
                          \/ j.part = "fee" /\ j.pc = "record"
      OBVIOUS
    <3>2. i.cmd = "accept" /\ i.hold /\ i.part \in {"refund", "fee"}
      BY <1>1, <2>1, <2>2, <3>1 DEF Same, JobFits
    <3>3. QED
      BY <2>2, <3>2 DEF NextPc, NextPart
  <2>4. ClearFits(s)'
    BY <1>2, <2>1, <2>3 DEF ClearFits
  <2>5. QED
    BY <1>2, <2>2, <2>4, ClearIsKept
<1>5. QED
  BY <1>3, <1>4

-----------------------------------------------------------------------------
(* Holds: what the disputes hold in total.                                 *)
LEMMA HeldType ==
    ASSUME NEW D \in [Disputes -> Dispute], NEW J, NEW d \in Disputes
    PROVE  HeldBy(D, J, d) \in Nat
<1>1. D[d].amount \in Nat
  BY DEF Dispute
<1>2. QED
  BY <1>1 DEF HeldBy

(* A step of s does not change what other disputes hold.                   *)
LEMMA HeldByOthers ==
    ASSUME NEW D, NEW D1, NEW J, NEW J1, NEW s \in Sessions, NEW d,
           \A t \in Sessions \ {s} : J1[t] = J[t], J[s].id # d, J1[s].id # d, D1[d] = D[d]
    PROVE  HeldBy(D1, J1, d) = HeldBy(D, J, d)
<1>1. \A t \in Sessions : /\ J1[t].id = d /\ PlacesHold(J1[t]) <=> J[t].id = d /\ PlacesHold(J[t])
                          /\ J1[t].id = d /\ Freeing(J1[t]) <=> J[t].id = d /\ Freeing(J[t])
  OBVIOUS
<1>2. QED
  BY <1>1 DEF HeldBy

(* What a dispute holds that one command works on, or none.                *)
HeldWith(r, j) == IF (r.hold \/ PlacesHold(j)) /\ ~Freeing(j) THEN r.amount ELSE 0

(* What is held for a dispute that one session works on.                   *)
LEMMA HeldByOne ==
    ASSUME NEW D, NEW J, NEW d, NEW s \in Sessions, J[s].id = d,
           \A t \in Sessions : J[t].id = d => t = s
    PROVE  HeldBy(D, J, d) = HeldWith(D[d], J[s])
BY DEF HeldBy, HeldWith

(* What is held for a dispute that nobody works on.                        *)
LEMMA HeldByNone ==
    ASSUME NEW D, NEW J, NEW d, \A t \in Sessions : J[t].id # d
    PROVE  HeldBy(D, J, d) = IF D[d].hold THEN D[d].amount ELSE 0
BY DEF HeldBy

(* The total depends on what the disputes hold only.                       *)
LEMMA TotalSame ==
    ASSUME NEW D, NEW J, NEW D1, NEW J1, \A d \in Disputes : HeldBy(D1, J1, d) = HeldBy(D, J, d)
    PROVE  HoldTotal(D1, J1) = HoldTotal(D, J)
<1>1. [d \in Disputes |-> HeldBy(D1, J1, d)] = [d \in Disputes |-> HeldBy(D, J, d)]
  OBVIOUS
<1>2. QED
  BY <1>1 DEF HoldTotal

(* The total changes by what one dispute holds.                            *)
LEMMA TotalChanges ==
    ASSUME NEW D \in [Disputes -> Dispute], NEW J, NEW D1 \in [Disputes -> Dispute], NEW J1,
           NEW e \in Disputes, \A d \in Disputes \ {e} : HeldBy(D1, J1, d) = HeldBy(D, J, d)
    PROVE  HoldTotal(D1, J1) = HoldTotal(D, J) - HeldBy(D, J, e) + HeldBy(D1, J1, e)
<1>1. PICK f, g : /\ f = [d \in Disputes |-> HeldBy(D, J, d)]
                  /\ g = [d \in Disputes |-> HeldBy(D1, J1, d)]
  OBVIOUS
<1>2. \A d \in Disputes : f[d] = HeldBy(D, J, d) /\ g[d] = HeldBy(D1, J1, d)
  BY <1>1
<1>3. \A d \in Disputes : HeldBy(D, J, d) \in Int /\ HeldBy(D1, J1, d) \in Int
  BY HeldType
<1>4. /\ \A d \in Disputes : f[d] \in Int /\ g[d] \in Int
      /\ \A d \in Disputes \ {e} : f[d] = g[d]
  BY <1>2, <1>3
<1>5. IsFiniteSet(Disputes)
  BY FinitelyMany DEF FinitelyMany
<1>6. SumOf(g, Disputes) = SumOf(f, Disputes) - f[e] + g[e]
  BY <1>4, <1>5, SumUpdate
<1>7. QED
  BY <1>1, <1>2, <1>6 DEF HoldTotal

(* The total is at least what one dispute holds.                           *)
LEMMA TotalAtLeast ==
    ASSUME NEW D \in [Disputes -> Dispute], NEW J, NEW e \in Disputes
    PROVE  HoldTotal(D, J) \in Nat /\ HoldTotal(D, J) >= HeldBy(D, J, e)
<1>1. PICK f : f = [d \in Disputes |-> HeldBy(D, J, d)]
  OBVIOUS
<1>2. \A d \in Disputes : f[d] = HeldBy(D, J, d) /\ f[d] \in Nat /\ f[d] \in Int
  BY <1>1, HeldType
<1>3. IsFiniteSet(Disputes)
  BY FinitelyMany DEF FinitelyMany
<1>4. PICK R : R = Disputes \ {e}
  OBVIOUS
<1>5. IsFiniteSet(R) /\ \A d \in R : f[d] \in Nat
  BY <1>2, <1>3, <1>4, FS_RemoveElement
<1>6. SumOf(f, R) \in Nat
  BY <1>5, SumType
<1>7. SumOf(f, Disputes) = f[e] + SumOf(f, R)
  BY <1>2, <1>3, <1>4, SumRemove
<1>8. QED
  BY <1>1, <1>2, <1>6, <1>7 DEF HoldTotal

(* Without races every dispute has at most one command.                    *)
LEMMA OneWorks ==
    ASSUME ShapeInv, Alone, raced = {}, NEW d \in Disputes, NEW s \in Sessions, job[s].id = d
    PROVE  \A t \in Sessions : job[t].id = d => t = s
<1>1. d \notin raced
  OBVIOUS
<1>2. QED
  BY <1>1, WorksAlone

-----------------------------------------------------------------------------
(* The exceptions stay.                                                    *)

(* A command that is at record ends in a step that commits nothing only by *)
(* being aborted.                                                          *)
LEMMA QuietLoses ==
    ASSUME ShapeInv, NEW s \in Sessions, Quiet(s), PlacesHold(job[s]) \/ Freeing(job[s])
    PROVE  lost' # {}
<1>1. job[s].pc = "record" /\ job[s].hold /\ job[s] # Idle
  BY IdleFields DEF PlacesHold, Freeing
<1>2. job'[s] = Idle
  BY <1>1, QuietJob
<1>3. HalfDone(job[s])
  BY <1>1 DEF HalfDone
<1>4. QED
  BY <1>1, <1>2, <1>3, QuietHistory

(* The key of a hold stays with its dispute, unless its command is lost.   *)
LEMMA ClaimStays ==
    ASSUME ShapeInv, DisputesFit, NEW s \in Sessions, Quiet(s) \/ CommitPosting(s) \/ Record(s),
           NEW d \in Disputes, NEW k \in OpenKeys, Claims(d, k), lost' = {}
    PROVE  Claims(d, k)'
<1>1. k # NoId
  BY IdsAreDistinct DEF IdsAreDistinct
<1>2. TypeOK /\ OpensFit
  BY DEF ShapeInv, DisputesFit
<1>3. CASE Quiet(s)
  <2>1. disputes' = disputes
    BY <1>3, QuietRows DEF rows
  <2>2. \A t \in Sessions \ {s} : job'[t] = job[t]
    BY <1>3, QuietJob DEF OnlyJob
  <2>3. ~PlacesHold(job[s])
    BY <1>3, QuietLoses
  <2>4. QED
    BY <2>1, <2>2, <2>3 DEF Claims
<1>4. CASE CommitPosting(s)
  <2>1. PICK i \in Job : i = job[s] /\ i.pc = "post" /\ DisputeStored(i)
    BY <1>2, <1>4, CommitJob, CommitRows DEF TypeOK
  <2>2. \A t \in Sessions \ {s} : job'[t] = job[t]
    BY <1>2, <1>4, CommitJob DEF MovesTo, OnlyJob
  <2>3. ~PlacesHold(job[s])
    BY <2>1 DEF PlacesHold
  <2>4. disputes[d].holdKey = k => disputes'[d].holdKey = k
    <3>1. CASE i.id # d
      BY <2>1, <3>1 DEF DisputeStored, OnlyDispute
    <3>2. CASE i.id = d /\ i.cmd = "open"
      BY <1>1, <1>2, <2>1, <3>2 DEF OpensFit, OpensOf
    <3>3. CASE i.id = d /\ i.cmd # "open"
      BY <2>1, <3>3 DEF DisputeStored, DecidedAs
    <3>4. QED
      BY <3>1, <3>2, <3>3
  <2>5. QED
    BY <2>2, <2>3, <2>4 DEF Claims
<1>5. CASE Record(s)
  <2>1. PICK j \in Job : j = job[s] /\ j.pc = "record" /\ JobFits(j) /\ DisputeRecorded(j)
    BY <1>2, <1>5, RecordJob, RecordRows DEF ShapeInv, TypeOK
  <2>2. \A t \in Sessions \ {s} : job'[t] = job[t]
    BY <1>2, <1>5, RecordJob DEF Ends, OnlyJob
  <2>3. /\ disputes'[d] # disputes[d] => d = j.id
        /\ d = j.id /\ j.cmd = "open" => OpenedAs(j)
        /\ d = j.id /\ j.cmd # "open" => DecidedAs(d, Statused(j), j.hold)
    BY <2>1, RecordedDispute
  <2>4. disputes[d].holdKey = k => disputes'[d].holdKey = k
    <3>1. CASE j.id # d
      BY <2>3, <3>1
    <3>2. CASE j.id = d /\ j.cmd = "open"
      BY <1>1, <1>2, <2>1, <3>2 DEF OpensFit, OpensOf
    <3>3. CASE j.id = d /\ j.cmd # "open"
      BY <2>3, <3>3 DEF DecidedAs
    <3>4. QED
      BY <3>1, <3>2, <3>3
  <2>5. j.id = d /\ PlacesHold(j) /\ j.key = k => disputes'[d].holdKey = k
    BY <2>3 DEF PlacesHold, OpenedAs
  <2>6. QED
    BY <2>1, <2>2, <2>4, <2>5 DEF Claims
<1>6. QED
  BY <1>3, <1>4, <1>5

(* What excuses the holds once excuses them for ever.                      *)
LEMMA ExcusedStays ==
    ASSUME ShapeInv, DisputesFit, Alone, NEW s \in Sessions,
           Quiet(s) \/ CommitPosting(s) \/ Record(s), Excused
    PROVE  Excused'
<1>1. raced \subseteq raced' /\ lost \subseteq lost' /\ (wiped => wiped')
  <2>1. CASE Quiet(s)
    <3>1. wiped => wiped'
      BY <2>1 DEF Quiet, Begin, InsertRequest, LookupBatch, PostLine, ReadHolds, FlushHolds, Abort,
                  history
    <3>2. QED
      BY <2>1, <3>1, QuietHistory
  <2>2. CASE CommitPosting(s) \/ Record(s)
    BY <2>2 DEF CommitPosting, Record, history
  <2>3. QED
    BY <2>1, <2>2
<1>2. CASE wiped \/ raced # {} \/ lost # {}
  BY <1>1, <1>2 DEF Excused
<1>3. CASE lost' # {}
  BY <1>3 DEF Excused
<1>4. CASE /\ lost' = {}
           /\ \E c, d \in Disputes : c # d /\ \E k \in OpenKeys : Claims(c, k) /\ Claims(d, k)
  <2>1. PICK c \in Disputes, d \in Disputes, k \in OpenKeys : c # d /\ Claims(c, k) /\ Claims(d, k)
    BY <1>4
  <2>2. Claims(c, k)' /\ Claims(d, k)'
    BY <1>4, <2>1, ClaimStays
  <2>3. QED
    BY <2>1, <2>2 DEF Excused
<1>5. QED
  BY <1>2, <1>3, <1>4 DEF Excused

-----------------------------------------------------------------------------
(* Steps that commit nothing.                                              *)

(* How a command gets to record without a commit.                          *)
LEMMA QuietToRecord ==
    ASSUME ShapeInv, NEW s \in Sessions, Quiet(s), job[s] # Idle, job'[s].pc = "record"
    PROVE  /\ Same(job'[s], job[s])
           /\ \/ /\ job[s].pc = "lookup" /\ Posted(BatchKey(job[s])) /\ held'[s] = held[s]
                 /\ NextPc(job[s]) = "record"
              \/ job[s].pc = "flush" /\ held'[s] = Holders
<1>1. TypeOK /\ JobFits(job[s])
  BY DEF ShapeInv
<1>2. CASE \E j : Begin(s, j) /\ Begun(j)
  BY <1>2 DEF Begin
<1>3. CASE InsertRequest(s)
  BY <1>1, <1>3, InsertJob, IdleFields DEF Ends, MovesTo
<1>4. CASE LookupBatch(s)
  <2>1. held' = held
    BY <1>4 DEF LookupBatch
  <2>2. QED
    BY <1>1, <1>4, <2>1, LookupJob DEF MovesTo
<1>5. CASE PostLine(s)
  BY <1>1, <1>5, PostLineJob DEF MovesTo
<1>6. CASE ReadHolds(s)
  BY <1>1, <1>6, ReadJob DEF MovesTo
<1>7. CASE FlushHolds(s)
  BY <1>1, <1>7, FlushJob, FlushMine DEF MovesTo
<1>8. CASE Abort(s)
  BY <1>1, <1>8, AbortJob, IdleFields DEF Ends
<1>9. QED
  BY <1>2, <1>3, <1>4, <1>5, <1>6, <1>7, <1>8 DEF Quiet

(* A call that finds the hold of its key posted shares it with another     *)
(* dispute.                                                                *)
LEMMA SharedHold ==
    ASSUME ShapeInv, DisputesFit, HoldsClaimed, NEW s \in Sessions, Quiet(s), lost' = {},
           job[s].cmd = "open", job[s].pc = "lookup", Posted(BatchKey(job[s])), job[s].hold,
           Same(job'[s], job[s]), job'[s].pc = "record"
    PROVE  Excused'
<1>1. PICK i \in Job, j \in Job : i = job[s] /\ j = job'[s] /\ JobFits(i)
  BY QuietJob DEF ShapeInv, TypeOK, OnlyJob
<1>2. PICK k \in OpenKeys, d \in Disputes : k = i.key /\ d = i.id
  BY <1>1 DEF JobFits
<1>3. PICK b \in batches : b.key = BatchKey(i)
  BY <1>1 DEF Posted
<1>4. b.key[1] = "open" /\ b.key[3] = k
  BY <1>1, <1>2, <1>3, KeyType
<1>5. PICK c \in Disputes : c = b.subject
  BY <1>3, <1>4 DEF DisputesFit, BatchFits
<1>6. Claims(c, k)
  BY <1>3, <1>4, <1>5 DEF HoldsClaimed
<1>7. Claims(c, k)'
  BY <1>6, ClaimStays
<1>8. j.id = d /\ j.key = k /\ PlacesHold(j)
  BY <1>1, <1>2 DEF Same, PlacesHold
<1>9. Claims(d, k)'
  BY <1>1, <1>8 DEF Claims
<1>10. c # d
  <2>1. SUFFICES ASSUME Claims(d, k) PROVE FALSE
    BY <1>6
  <2>2. OpensFit /\ OpensOf(s, d) /\ k # NoId
    BY <1>1, <1>2, IdsAreDistinct DEF DisputesFit, OpensOf, IdsAreDistinct
  <2>3. disputes[d].holdKey # k
    BY <2>2 DEF OpensFit
  <2>4. \A t \in Sessions : job[t].id = d /\ PlacesHold(job[t]) => t = s
    BY <2>2 DEF OpensFit, OpensOf, PlacesHold
  <2>5. QED
    BY <2>1, <2>3, <2>4 DEF Claims, PlacesHold
<1>11. QED
  BY <1>7, <1>9, <1>10 DEF Excused

(* A reject that finds its release posted is a repetition of one that was  *)
(* lost.                                                                   *)
LEMMA ReleaseIsNew ==
    ASSUME ShapeInv, DisputesFit, NEW d \in Disputes, DecisionFits(d), NEW s \in Sessions,
           \A t \in Sessions : job[t].id = d => t = s,
           job[s].id = d, job[s].cmd = "reject", job[s].pc = "lookup"
    PROVE  ~Posted(BatchKey(job[s]))
<1>1. PICK i \in Job : i = job[s] /\ JobFits(i)
  BY DEF ShapeInv, TypeOK
<1>2. SUFFICES ASSUME NEW b \in batches, b.key = BatchKey(i) PROVE FALSE
  BY <1>1 DEF Posted
<1>3. b.key[1] = "reject" /\ b.key[2] = d
  BY <1>1, <1>2, KeyType
<1>4. b.subject = d /\ b.part = "release"
  BY <1>2, <1>3 DEF DisputesFit, BatchFits
<1>5. Freed(d) # {}
  BY <1>4 DEF Freed
<1>6. disputes[d].status \in {"OPEN", "UNDER_REVIEW"} /\ ~Freeing(job[s])
  BY DEF DecisionFits, IsOpen, Freeing
<1>7. Freed(d) = {}
  BY <1>6, NotPaidYet
<1>8. QED
  BY <1>5, <1>7

(* Such a step neither places nor frees a hold.                            *)
LEMMA QuietPlaces ==
    ASSUME PaidStepInv, HoldsClaimed, NEW s \in Sessions, Quiet(s), ~Excused'
    PROVE  /\ ~PlacesHold(job[s]) /\ ~Freeing(job[s])
           /\ ~PlacesHold(job'[s]) /\ ~Freeing(job'[s])
<1>1. ShapeInv /\ DisputesFit /\ Alone /\ DecisionsFit
  BY DoneParts DEF PaidStepInv, LedgerInv, PaidInv
<1>2. lost' = {} /\ raced' = {} /\ lost = {} /\ raced = {}
  BY <1>1, QuietHistory DEF Excused
<1>3. ~PlacesHold(job[s]) /\ ~Freeing(job[s])
  BY <1>1, <1>2, QuietLoses
<1>4. PICK i \in Job, j \in Job : i = job[s] /\ j = job'[s] /\ JobFits(i)
  BY <1>1, QuietJob DEF ShapeInv, TypeOK, OnlyJob
<1>5. SUFFICES ASSUME j.pc = "record", j.hold, j.cmd \in {"open", "reject"}
               PROVE  FALSE
  BY <1>3, <1>4 DEF PlacesHold, Freeing
<1>6. i # Idle
  BY <1>1, <1>4, <1>5, QuietJob, IdleFields DEF Begun
<1>7. /\ Same(j, i)
      /\ \/ i.pc = "lookup" /\ Posted(BatchKey(i))
         \/ i.pc = "flush"
  BY <1>1, <1>4, <1>5, <1>6, QuietToRecord
<1>8. i.cmd \in {"open", "reject"} /\ i.cmd = j.cmd /\ i.hold
  BY <1>5, <1>7 DEF Same
<1>9. i.pc = "lookup" /\ Posted(BatchKey(i)) /\ i.id \in Disputes
  BY <1>4, <1>7, <1>8 DEF JobFits
<1>10. CASE i.cmd = "open"
  BY <1>1, <1>2, <1>4, <1>5, <1>7, <1>8, <1>9, <1>10, SharedHold DEF PaidStepInv
<1>11. CASE i.cmd = "reject"
  <2>1. PICK d \in Disputes : d = i.id
    BY <1>9
  <2>2. \A t \in Sessions : job[t].id = d => t = s
    BY <1>1, <1>2, <1>4, <2>1, OneWorks
  <2>3. DecisionFits(d)
    BY <1>1, <1>2 DEF DecisionsFit
  <2>4. QED
    BY <1>1, <1>4, <1>9, <1>11, <2>1, <2>2, <2>3, ReleaseIsNew
<1>12. QED
  BY <1>8, <1>10, <1>11

(* A step that commits nothing leaves the holds exact: a hold that is      *)
(* found under its key is claimed by its dispute already.                  *)
LEMMA QuietTotal ==
    ASSUME PaidStepInv, HoldsFit, NEW s \in Sessions, Quiet(s), ~Excused'
    PROVE  bal'["payable"].hold = HoldTotal(disputes', job')
<1>1. disputes' = disputes /\ bal' = bal
  BY QuietRows DEF rows, books
<1>2. \A t \in Sessions \ {s} : job'[t] = job[t]
  BY QuietJob DEF OnlyJob, PaidStepInv, LedgerInv
<1>3. /\ ~PlacesHold(job[s]) /\ ~Freeing(job[s])
      /\ ~PlacesHold(job'[s]) /\ ~Freeing(job'[s])
  BY QuietPlaces DEF HoldsFit
<1>4. ASSUME NEW d \in Disputes
      PROVE  HeldBy(disputes, job', d) = HeldBy(disputes, job, d)
  <2>1. \A t \in Sessions : /\ PlacesHold(job'[t]) \/ PlacesHold(job[t]) => job'[t] = job[t]
                            /\ Freeing(job'[t]) \/ Freeing(job[t]) => job'[t] = job[t]
    BY <1>2, <1>3
  <2>2. /\ (\E t \in Sessions : job'[t].id = d /\ PlacesHold(job'[t]))
              <=> (\E t \in Sessions : job[t].id = d /\ PlacesHold(job[t]))
        /\ (\E t \in Sessions : job'[t].id = d /\ Freeing(job'[t]))
              <=> (\E t \in Sessions : job[t].id = d /\ Freeing(job[t]))
    BY <2>1
  <2>3. QED
    BY <2>2 DEF HeldBy
<1>5. HoldTotal(disputes, job') = HoldTotal(disputes, job)
  BY <1>4, TotalSame
<1>6. QED
  BY <1>1, <1>5 DEF HoldsFit

(* It leaves every hold claimed.                                           *)
LEMMA QuietClaims ==
    ASSUME PaidStepInv, HoldsFit, NEW s \in Sessions, Quiet(s), ~Excused'
    PROVE  HoldsClaimed'
<1>1. ShapeInv /\ DisputesFit
  BY DoneParts DEF PaidStepInv, LedgerInv
<1>2. batches' = batches /\ lost' = {}
  BY QuietRows DEF books, Excused
<1>3. ASSUME NEW b \in batches, b.key[1] = "open", NEW d, NEW k, d = b.subject, k = b.key[3]
      PROVE  Claims(d, k)'
  <2>1. d \in Disputes /\ k \in OpenKeys /\ Claims(d, k)
    BY <1>1, <1>3 DEF DisputesFit, BatchFits, HoldsFit, HoldsClaimed
  <2>2. QED
    BY <1>1, <1>2, <2>1, ClaimStays
<1>4. QED
  BY <1>2, <1>3 DEF HoldsClaimed

(* What the other sessions see and know.                                   *)
LEMMA ViewFitsOthers ==
    ASSUME NEW s \in Sessions, OnlyJob(s), OnlyMine(s), bal' = bal,
           NEW t \in Sessions, t # s, ViewFits(t)
    PROVE  ViewFits(t)'
<1>1. job'[t] = job[t] /\ held'[t] = held[t]
  BY DEF OnlyJob, OnlyMine
<1>2. View(t, "payable")' = View(t, "payable")
  BY ViewOfOthers DEF Accounts
<1>3. Change(t)' = Change(t)
  BY <1>1 DEF Change, Clearing
<1>4. QED
  BY <1>2, <1>3 DEF ViewFits

(* A step of s takes no knowledge from the others.                         *)
LEMMA KnowsOthers ==
    ASSUME NEW s \in Sessions, OnlyJob(s), OnlyMine(s), NEW t \in Sessions, t # s, Knows(t),
           disputes'[job[t].id] = disputes[job[t].id]
    PROVE  Knows(t)'
<1>1. job'[t] = job[t] /\ held'[t] = held[t] /\ mine'[t] = mine[t]
  BY DEF OnlyJob, OnlyMine
<1>2. QED
  BY <1>1 DEF Knows

(* A session that holds nothing sees what there is.                        *)
LEMMA ViewFreed ==
    ASSUME TypeOK, NEW s \in Sessions, NEW j \in Job, j = job'[s], held'[s] = {},
           j.pc # "post" \/ j.step = 1, bal'["payable"] \in Balance
    PROVE  ViewFits(s)'
<1>1. View(s, "payable")' = bal'["payable"]
  BY DEF View
<1>2. HoldMoved(j, "payable") = 0
  BY MovedType
<1>3. Change(s)' = 0
  BY <1>2 DEF Change, Clearing
<1>4. bal'["payable"].hold \in Int
  BY DEF Balance
<1>5. QED
  BY <1>1, <1>3, <1>4 DEF ViewFits

(* LookupBatch leaves the view of the holds exact.                         *)
LEMMA LookupView ==
    ASSUME ShapeInv, NEW s \in Sessions, ViewFits(s), LookupBatch(s)
    PROVE  ViewFits(s)'
<1>1. PICK i \in Job, j \in Job : i = job[s] /\ j = job'[s] /\ JobFits(i)
  BY LookupJob DEF ShapeInv, TypeOK, MovesTo, OnlyJob
<1>2. i.pc = "lookup" /\ Same(j, i) /\ (j.pc # "post" \/ j.step = 1)
  BY <1>1, LookupJob DEF ShapeInv, MovesTo, JobFits, Job
<1>3. UNCHANGED <<bal, held, mine>>
  BY DEF LookupBatch, books
<1>4. HoldMoved(i, "payable") = 0 /\ HoldMoved(j, "payable") = 0
  BY <1>1, <1>2, MovedType
<1>5. Clearing(s)' <=> Clearing(s)
  BY <1>1, <1>2, <1>3 DEF Clearing, Same
<1>6. j.amount = i.amount
  BY <1>2 DEF Same
<1>7. Change(s)' = Change(s)
  BY <1>1, <1>4, <1>5, <1>6 DEF Change
<1>8. View(s, "payable")' = View(s, "payable")
  BY <1>3 DEF View
<1>9. QED
  BY <1>3, <1>7, <1>8 DEF ViewFits

(* PostLine makes of the hold what its entry says.                         *)
LEMMA PostLineView ==
    ASSUME ShapeInv, NEW s \in Sessions, ViewFits(s), PostLine(s)
    PROVE  ViewFits(s)'
<1>1. TypeOK
  BY DEF ShapeInv
<1>2. PICK i \in Job, j \in Job, c \in Accounts :
         i = job[s] /\ j = job'[s] /\ JobFits(i) /\ c = NextAccount(i)
  BY <1>1, PostLineJob, JobAccounts DEF ShapeInv, TypeOK, MovesTo, OnlyJob
<1>3. /\ i.pc = "post" /\ i.step <= 2 /\ Same(j, i) /\ j.pc = "post" /\ j.part = i.part
      /\ j.step = i.step + 1
  BY <1>1, <1>2, PostLineJob DEF MovesTo
<1>4. /\ held'[s] = held[s] \cup {c}
      /\ mine'[s][c] = Applied(View(s, c), i.part, Entry(i))
      /\ \A b \in Accounts \ {c} : mine'[s][b] = mine[s][b]
  BY <1>1, <1>2, PostLineMine
<1>5. bal' = bal
  BY DEF PostLine, books
<1>6. "payable" \in Accounts
  BY DEF Accounts
<1>7. PICK v, w : v = View(s, "payable") /\ w = View(s, "payable")' /\ v \in Balance
  BY <1>1, <1>6, ViewType
<1>8. w = IF c = "payable" THEN Applied(v, i.part, Entry(i)) ELSE v
  BY <1>4, <1>5, <1>6, <1>7 DEF View
<1>9. Entry(i) \in Int /\ v.hold \in Int
  BY <1>7, EntryType DEF Balance
<1>10. w.hold = v.hold - IF c = "payable" /\ IsHold(i.part) THEN Entry(i) ELSE 0
  BY <1>7, <1>8, <1>9, BalanceFields
<1>11. /\ Effect(j, "payable") = Effect(i, "payable") + IF "payable" = c THEN Entry(i) ELSE 0
       /\ Effect(i, "payable") \in Int
  BY <1>2, <1>3, <1>6, EffectGrows, MovedType
<1>12. HoldMoved(j, "payable") = HoldMoved(i, "payable")
                                   - IF c = "payable" /\ IsHold(i.part) THEN Entry(i) ELSE 0
  BY <1>3, <1>9, <1>11 DEF HoldMoved
<1>13. Clearing(s)' <=> Clearing(s)
  <2>1. CASE i.cmd = "accept" /\ i.hold
    <3>1. c # "payable"
      BY <1>2, <2>1, AcceptAccounts DEF NextAccount
    <3>2. QED
      BY <1>2, <1>3, <1>4, <3>1 DEF Clearing, Same
  <2>2. CASE ~(i.cmd = "accept" /\ i.hold)
    BY <1>2, <1>3, <2>2 DEF Clearing, Same
  <2>3. QED
    BY <2>1, <2>2
<1>14. PICK x, n, y : /\ x = HoldMoved(i, "payable") /\ y = HoldMoved(j, "payable")
                      /\ n = i.amount /\ x \in Int /\ n \in Int
  BY MovedType DEF Job
<1>15. /\ Change(s) = x - (IF Clearing(s) THEN n ELSE 0)
       /\ Change(s)' = y - (IF Clearing(s) THEN n ELSE 0)
  BY <1>2, <1>3, <1>13, <1>14 DEF Change, Same
<1>16. v.hold = bal["payable"].hold + Change(s) /\ bal["payable"].hold \in Int
  BY <1>1, <1>6, <1>7 DEF ViewFits, TypeOK, Balance
<1>17. w.hold = bal["payable"].hold + Change(s)'
  BY <1>9, <1>10, <1>12, <1>14, <1>15, <1>16
<1>18. QED
  BY <1>5, <1>7, <1>17 DEF ViewFits

(* FlushHolds takes away exactly the hold of its own dispute, if it has    *)
(* wiped no other.                                                         *)
LEMMA FlushView ==
    ASSUME ShapeInv, NEW s \in Sessions, Knows(s), FlushHolds(s), ~wiped'
    PROVE  ViewFits(s)'
<1>1. TypeOK
  BY DEF ShapeInv
<1>2. PICK i \in Job, j \in Job : i = job[s] /\ j = job'[s] /\ JobFits(i)
  BY <1>1, FlushJob DEF ShapeInv, TypeOK, MovesTo, OnlyJob
<1>3. i.pc = "flush" /\ Same(j, i) /\ j.pc # "post"
  BY <1>1, <1>2, FlushJob DEF MovesTo
<1>4. i.cmd = "accept" /\ i.hold
  BY <1>2, <1>3 DEF JobFits, Job, Commands
<1>5. PICK b, m, w : /\ b = bal["payable"] /\ m = mine[s]["payable"] /\ w = View(s, "payable")'
                     /\ b \in Balance /\ m \in Balance
  BY <1>1 DEF TypeOK, Accounts
<1>6. w = Cleared(b, m) /\ "payable" \in held'[s]
  BY <1>1, <1>5, FlushMine DEF View, Holders
<1>7. m.hold # 0
  BY <1>2, <1>3, <1>5 DEF Knows, KnowsHold
<1>8. w.hold = 0
  BY <1>5, <1>6, <1>7, ClearedFields
<1>9. b.hold = i.amount /\ bal' = bal
  BY <1>2, <1>5 DEF FlushHolds, books
<1>10. Clearing(s)' /\ j.amount = i.amount
  BY <1>2, <1>3, <1>4, <1>6 DEF Clearing, Same
<1>11. HoldMoved(j, "payable") = 0
  BY <1>3, MovedType
<1>12. PICK n \in Int : n = i.amount
  BY DEF Job
<1>13. Change(s)' = 0 - n
  BY <1>2, <1>10, <1>11, <1>12 DEF Change
<1>14. w.hold = b.hold + Change(s)'
  BY <1>8, <1>9, <1>12, <1>13
<1>15. QED
  BY <1>5, <1>9, <1>14 DEF ViewFits

(* The views of the holds are exact after a step that commits nothing.     *)
LEMMA QuietViews ==
    ASSUME ShapeInv, \A t \in Sessions : ViewFits(t) /\ Knows(t), NEW s \in Sessions, Quiet(s), ~wiped'
    PROVE  \A t \in Sessions : ViewFits(t)'
<1>1. TypeOK /\ JobFits(job[s]) /\ HeldFits(s)
  BY DEF ShapeInv
<1>2. PICK i \in Job, j \in Job : i = job[s] /\ j = job'[s]
  BY QuietJob DEF ShapeInv, TypeOK, OnlyJob
<1>3. OnlyJob(s) /\ bal' = bal /\ bal'["payable"] \in Balance
  BY <1>1, QuietJob, QuietRows DEF books, TypeOK, Accounts
<1>4. OnlyMine(s) /\ ViewFits(s)'
  <2>1. CASE \E k : Begin(s, k) /\ Begun(k)
    <3>1. PICK k \in Job : Begin(s, k) /\ Begun(k)
      BY <2>1 DEF Begun, JobFits
    <3>2. UNCHANGED <<held, mine>> /\ j = k /\ i = Idle
      BY <1>1, <1>2, <3>1, BeginJob DEF Begin
    <3>3. held'[s] = {} /\ j.pc # "post"
      BY <1>1, <1>2, <3>1, <3>2, IdleFields DEF HeldFits, Begun
    <3>4. QED
      BY <1>1, <1>2, <1>3, <3>2, <3>3, ViewFreed, MineIsKept
  <2>2. CASE InsertRequest(s)
    <3>1. UNCHANGED <<held, mine>> /\ i.pc = "insert" /\ j.pc # "post"
      BY <1>1, <1>2, <2>2, InsertJob, IdleFields DEF InsertRequest, Ends, MovesTo
    <3>2. held'[s] = {}
      BY <1>1, <1>2, <3>1 DEF HeldFits
    <3>3. QED
      BY <1>1, <1>2, <1>3, <3>1, <3>2, ViewFreed, MineIsKept
  <2>3. CASE LookupBatch(s)
    BY <1>1, <2>3, LookupView, MineIsKept DEF LookupBatch
  <2>4. CASE PostLine(s)
    BY <1>1, <2>4, PostLineView, PostLineMine
  <2>5. CASE ReadHolds(s)
    <3>1. OnlyMine(s) /\ held'[s] = held[s] /\ i.pc = "clear" /\ j.pc # "post"
      BY <1>1, <1>2, <2>5, ReadMine, ReadJob DEF MovesTo
    <3>2. held'[s] = {}
      BY <1>1, <1>2, <3>1 DEF HeldFits
    <3>3. QED
      BY <1>1, <1>2, <1>3, <3>1, <3>2, ViewFreed
  <2>6. CASE FlushHolds(s)
    BY <1>1, <2>6, FlushView, FlushMine
  <2>7. CASE Abort(s)
    <3>1. OnlyMine(s) /\ held'[s] = {} /\ j.pc # "post"
      BY <1>1, <1>2, <2>7, ReleaseMine, AbortJob, IdleFields DEF Abort, Ends
    <3>2. QED
      BY <1>1, <1>2, <1>3, <3>1, ViewFreed
  <2>8. QED
    BY <2>1, <2>2, <2>3, <2>4, <2>5, <2>6, <2>7 DEF Quiet
<1>5. ASSUME NEW t \in Sessions PROVE ViewFits(t)'
  BY <1>3, <1>4, ViewFitsOthers
<1>6. QED
  BY <1>5

(* There is a hold to clear when an accept reads the balances.             *)
LEMMA ReadFindsHold ==
    ASSUME PaidStepInv, HoldsFit, raced = {}, lost = {}, NEW s \in Sessions, ReadHolds(s)
    PROVE  mine'[s]["payable"].hold # 0
<1>1. ShapeInv /\ TypeOK /\ DisputesFit /\ Alone /\ DecisionsFit
  BY DoneParts DEF PaidStepInv, LedgerInv, PaidInv, ShapeInv
<1>2. PICK i \in Job : i = job[s] /\ JobFits(i) /\ i.pc = "clear"
  BY <1>1, ReadJob DEF ShapeInv, TypeOK
<1>3. i.cmd = "accept" /\ i.hold
  BY <1>2 DEF JobFits, Job, Commands
<1>4. PICK d \in Disputes : d = i.id
  BY <1>2, <1>3 DEF JobFits
<1>5. disputes[d].status \in {"OPEN", "UNDER_REVIEW"}
  BY <1>1, <1>2, <1>3, <1>4 DEF DecisionsFit, DecisionFits, Accepted, IsOpen
<1>6. disputes[d].hold
  BY <1>2, <1>3, <1>4, <1>5 DEF HoldsFit, Knows, KnowsHold
<1>7. \A t \in Sessions : job[t].id = d => t = s
  BY <1>1, <1>2, <1>4, OneWorks
<1>8. HeldBy(disputes, job, d) = disputes[d].amount
  <2>1. HeldBy(disputes, job, d) = HeldWith(disputes[d], i)
    BY <1>2, <1>4, <1>7, HeldByOne
  <2>2. ~Freeing(i)
    BY <1>3 DEF Freeing
  <2>3. QED
    BY <1>6, <2>1, <2>2 DEF HeldWith
<1>9. disputes[d].amount \in Nat /\ disputes[d].amount > 0
  <2>1. disputes[d] # NoDispute
    BY <1>5, NoDisputeFields
  <2>2. disputes[d].amount \in Amounts
    BY <1>1, <2>1 DEF DisputesFit, StatusFits, Exists
  <2>3. \A n \in Amounts : n \in Nat /\ n # 0
    BY AmountsArePositive DEF AmountsArePositive
  <2>4. PICK n : n = disputes[d].amount
    OBVIOUS
  <2>5. n \in Nat /\ n # 0
    BY <2>2, <2>3, <2>4
  <2>6. n > 0
    BY ONLY <2>5
  <2>7. QED
    BY <2>4, <2>5, <2>6
<1>10. HoldTotal(disputes, job) \in Nat /\ HoldTotal(disputes, job) >= disputes[d].amount
  <2>1. disputes \in [Disputes -> Dispute]
    BY <1>1 DEF TypeOK
  <2>2. QED
    BY <1>8, <2>1, TotalAtLeast
<1>11. bal["payable"].hold # 0
  BY <1>9, <1>10 DEF HoldsFit
<1>12. QED
  BY <1>1, <1>11, ReadMine DEF Holders

(* What a command has read of its dispute is still true.                   *)
LEMMA QuietKnows ==
    ASSUME PaidStepInv, HoldsFit, \A t \in Sessions : ClearFits(t), NEW s \in Sessions, Quiet(s), ~Excused'
    PROVE  \A t \in Sessions : Knows(t)'
<1>1. ShapeInv /\ TypeOK /\ DisputesFit /\ Alone /\ DecisionsFit
  BY DoneParts DEF PaidStepInv, LedgerInv, PaidInv, ShapeInv
<1>2. PICK i \in Job, j \in Job : i = job[s] /\ j = job'[s] /\ JobFits(i)
  BY <1>1, QuietJob DEF ShapeInv, TypeOK, OnlyJob
<1>3. OnlyJob(s) /\ disputes' = disputes /\ batches' = batches
  BY <1>1, QuietJob, QuietRows DEF rows, books
<1>4. /\ \/ j = Idle
         \/ Same(j, i) /\ i.pc # "record" /\ i # Idle
         \/ Begun(j) /\ i = Idle
  BY <1>1, <1>2, QuietJob, IdleFields
<1>5. lost' = {} /\ raced' = {} /\ lost = {} /\ raced = {}
  BY <1>1, QuietHistory DEF Excused
<1>6. ~PlacesHold(j)
  BY <1>2, QuietPlaces DEF HoldsFit
<1>7. OnlyMine(s) /\ (j.pc = "flush" => mine'[s]["payable"].hold # 0)
  <2>1. CASE \E k : Begin(s, k) /\ Begun(k)
    <3>1. PICK k \in Job : Begin(s, k) /\ Begun(k)
      BY <2>1 DEF Begun, JobFits
    <3>2. UNCHANGED <<held, mine>> /\ j = k
      BY <1>1, <1>2, <3>1, BeginJob DEF Begin
    <3>3. QED
      BY <1>1, <3>1, <3>2, MineIsKept DEF Begun
  <2>2. CASE InsertRequest(s)
    BY <1>1, <1>2, <2>2, MineIsKept, InsertJob, IdleFields DEF InsertRequest, Ends, MovesTo
  <2>3. CASE LookupBatch(s)
    <3>1. j.pc \in {"lookup", "post", "clear", "record"}
      BY <1>1, <1>2, <2>3, LookupJob DEF MovesTo, NextPc
    <3>2. QED
      BY <1>1, <2>3, <3>1, MineIsKept DEF LookupBatch
  <2>4. CASE PostLine(s)
    BY <1>1, <1>2, <2>4, PostLineMine, PostLineJob DEF MovesTo
  <2>5. CASE ReadHolds(s)
    BY <1>1, <1>5, <2>5, ReadMine, ReadFindsHold
  <2>6. CASE FlushHolds(s)
    BY <1>1, <1>2, <2>6, FlushMine, FlushJob DEF MovesTo
  <2>7. CASE Abort(s)
    BY <1>1, <1>2, <2>7, ReleaseMine, AbortJob, IdleFields DEF Abort, Ends
  <2>8. QED
    BY <2>1, <2>2, <2>3, <2>4, <2>5, <2>6, <2>7 DEF Quiet
<1>8. j.cmd = "reject" => j.hold = disputes[j.id].hold
  <2>1. SUFFICES ASSUME j.cmd = "reject" PROVE j.hold = disputes[j.id].hold
    OBVIOUS
  <2>2. CASE Begun(j)
    BY <2>1, <2>2 DEF Begun, FindsRefund, FindsReversal, FindsNoDispute, FindsOpen, FindsStatus
  <2>3. CASE Same(j, i)
    BY <1>2, <2>1, <2>3 DEF Same, HoldsFit, Knows, KnowsHold
  <2>4. QED
    BY <1>4, <2>1, <2>2, <2>3, IdleFields
<1>9. j.cmd = "accept" => /\ disputes[j.id].status \in {"OPEN", "UNDER_REVIEW"}
                          /\ j.hold = disputes[j.id].hold
                          /\ j.hold /\ j.pc = "record" => "payable" \in held'[s]
  <2>1. SUFFICES ASSUME j.cmd = "accept"
                 PROVE  /\ disputes[j.id].status \in {"OPEN", "UNDER_REVIEW"}
                        /\ j.hold = disputes[j.id].hold
                        /\ j.hold /\ j.pc = "record" => "payable" \in held'[s]
    OBVIOUS
  <2>2. CASE Begun(j)
    BY <2>1, <2>2 DEF Begun, FindsRefund, FindsReversal, FindsNoDispute, FindsOpen, FindsStatus,
                      IsOpen
  <2>3. CASE Same(j, i) /\ i.pc # "record" /\ i # Idle
    <3>1. i.cmd = "accept" /\ i.id = j.id /\ i.hold = j.hold /\ i.id \in Disputes
      BY <1>2, <2>1, <2>3 DEF Same, JobFits
    <3>2. PICK d \in Disputes : d = i.id
      BY <3>1
    <3>3. disputes[d].status \in {"OPEN", "UNDER_REVIEW"}
      BY <1>1, <1>2, <1>5, <2>3, <3>1, <3>2 DEF DecisionsFit, DecisionFits, Accepted, IsOpen
    <3>4. i.hold = disputes[d].hold
      BY <1>2, <3>1, <3>2, <3>3 DEF HoldsFit, Knows, KnowsHold
    <3>5. ASSUME j.hold, j.pc = "record" PROVE "payable" \in held'[s]
      <4>1. \/ /\ i.pc = "lookup" /\ held'[s] = held[s] /\ NextPc(i) = "record"
            \/ i.pc = "flush" /\ held'[s] = Holders
        BY <1>1, <1>2, <2>3, <3>5, QuietToRecord
      <4>2. CASE i.pc = "lookup" /\ held'[s] = held[s] /\ NextPc(i) = "record"
        <5>1. i.part = "fee"
          BY <1>2, <3>1, <3>5, <4>2 DEF NextPc, JobFits
        <5>2. QED
          BY <1>2, <3>1, <3>5, <4>2, <5>1 DEF ClearFits
      <4>3. QED
        BY <4>1, <4>2 DEF Holders
    <3>6. QED
      BY <3>1, <3>2, <3>3, <3>4, <3>5
  <2>4. QED
    BY <1>4, <2>1, <2>2, <2>3, IdleFields
<1>10. Knows(s)'
  <2>1. KnowsHold(j, disputes[j.id], held'[s], mine'[s]["payable"])
    BY <1>6, <1>7, <1>8, <1>9 DEF KnowsHold
  <2>2. QED
    BY <1>2, <1>3, <2>1 DEF Knows
<1>11. ASSUME NEW t \in Sessions PROVE Knows(t)'
  <2>1. CASE t = s
    BY <1>10, <2>1
  <2>2. CASE t # s
    <3>1. Knows(t) /\ disputes'[job[t].id] = disputes[job[t].id]
      BY <1>3 DEF HoldsFit
    <3>2. QED
      BY <1>3, <1>7, <2>2, <3>1, KnowsOthers
  <2>3. QED
    BY <2>1, <2>2
<1>12. QED
  BY <1>11

(* A step that commits nothing keeps the holds exact.                      *)
LEMMA QuietHolds ==
    ASSUME PaidStepInv, HoldsInv, NEW s \in Sessions, Quiet(s)
    PROVE  HoldsInv'
<1>1. ShapeInv /\ DisputesFit /\ Alone /\ AvailableFits /\ (\A t \in Sessions : ClearFits(t))
  BY DoneParts DEF PaidStepInv, LedgerInv, PaidInv, HoldsInv
<1>2. AvailableFits' /\ (\A t \in Sessions : ClearFits(t)')
  BY <1>1, QuietAvailable, QuietClear
<1>3. SUFFICES ASSUME ~Excused' PROVE HoldsFit'
  BY <1>2 DEF HoldsInv
<1>4. HoldsFit
  BY <1>1, <1>3, ExcusedStays DEF HoldsInv
<1>5. ~wiped'
  BY <1>3 DEF Excused
<1>6. \A t \in Sessions : ViewFits(t)'
  BY <1>1, <1>4, <1>5, QuietViews DEF HoldsFit
<1>7. \A t \in Sessions : Knows(t)'
  BY <1>1, <1>3, <1>4, QuietKnows
<1>8. bal'["payable"].hold = HoldTotal(disputes', job') /\ HoldsClaimed'
  BY <1>3, <1>4, QuietTotal, QuietClaims
<1>9. HoldTotal(disputes, job)' = HoldTotal(disputes', job')
  BY DEF HoldTotal, HeldBy
<1>10. QED
  BY <1>6, <1>7, <1>8, <1>9 DEF HoldsFit

-----------------------------------------------------------------------------
(* The two commits.                                                        *)
LEMMA ChangeType ==
    ASSUME TypeOK, NEW s \in Sessions
    PROVE  Change(s) \in Int
<1>1. PICK j \in Job : j = job[s]
  BY DEF TypeOK
<1>2. HoldMoved(j, "payable") \in Int /\ j.amount \in Int
  BY MovedType DEF Job
<1>3. QED
  BY <1>1, <1>2 DEF Change

(* What s has made of the hold of the partner is what becomes of it.       *)
LEMMA CommitViews ==
    ASSUME ShapeInv, \A t \in Sessions : ViewFits(t), NEW s \in Sessions, OnlyJob(s), OnlyMine(s),
           held'[s] = {}, bal' = Flushed(s), job'[s].pc # "post"
    PROVE  /\ \A t \in Sessions : ViewFits(t)'
           /\ bal'["payable"].hold = bal["payable"].hold + Change(s)
<1>1. TypeOK /\ "payable" \in Accounts
  BY DEF ShapeInv, Accounts
<1>2. bal'["payable"] \in Balance /\ bal["payable"] \in Balance
  BY <1>1, FlushedType DEF TypeOK
<1>3. /\ bal'["payable"] = View(s, "payable")
      /\ \A t \in Sessions \ {s} :
            View(t, "payable")' = IF "payable" \in held[t] THEN View(t, "payable") ELSE bal'["payable"]
      /\ \A t \in Sessions \ {s} : "payable" \in held[t] => bal'["payable"] = bal["payable"]
  BY <1>1, ViewAfterCommit
<1>4. ViewFits(s)'
  BY <1>1, <1>2, ViewFreed DEF OnlyJob
<1>5. ASSUME NEW t \in Sessions, t # s PROVE ViewFits(t)'
  <2>1. job'[t] = job[t] /\ held'[t] = held[t]
    BY <1>5 DEF OnlyJob, OnlyMine
  <2>2. Change(t)' = Change(t)
    BY <2>1 DEF Change, Clearing
  <2>3. View(t, "payable").hold = bal["payable"].hold + Change(t)
    BY DEF ViewFits
  <2>4. CASE "payable" \in held[t]
    <3>1. View(t, "payable")' = View(t, "payable") /\ bal'["payable"] = bal["payable"]
      BY <1>3, <1>5, <2>4
    <3>2. QED
      BY <2>2, <2>3, <3>1 DEF ViewFits
  <2>5. CASE "payable" \notin held[t]
    <3>1. View(t, "payable") = bal["payable"]
      BY <2>5 DEF View
    <3>2. PICK x, y, z : /\ x = bal["payable"].hold /\ y = bal'["payable"].hold /\ z = Change(t)
                         /\ x \in Int /\ y \in Int /\ z \in Int
      BY <1>1, <1>2, ChangeType DEF Balance
    <3>3. x = x + z /\ x \in Int /\ y \in Int /\ z \in Int
      BY <2>3, <3>1, <3>2
    <3>4. z = 0 /\ y = y + z
      BY ONLY <3>3
    <3>5. View(t, "payable")' = bal'["payable"]
      BY <1>3, <1>5, <2>5
    <3>6. QED
      BY <2>2, <3>2, <3>4, <3>5 DEF ViewFits
  <2>6. QED
    BY <2>4, <2>5
<1>6. \A t \in Sessions : ViewFits(t)'
  BY <1>4, <1>5
<1>7. QED
  BY <1>3, <1>6 DEF ViewFits

(* What the others know of their own disputes stays true.                  *)
LEMMA KnowsAfter ==
    ASSUME ShapeInv, NEW s \in Sessions, OnlyJob(s), OnlyMine(s), NEW t \in Sessions, t # s, Knows(t),
           job[t].id \in Disputes => disputes'[job[t].id] = disputes[job[t].id]
    PROVE  Knows(t)'
<1>1. CASE job[t].id \in Disputes
  BY <1>1, KnowsOthers
<1>2. CASE job[t].id \notin Disputes
  <2>1. PICK j \in Job : j = job[t] /\ JobFits(j)
    BY DEF ShapeInv, TypeOK
  <2>2. job'[t] = job[t] /\ held'[t] = held[t] /\ mine'[t] = mine[t]
    BY DEF OnlyJob, OnlyMine
  <2>3. j.cmd \notin {"open", "accept", "reject"}
    BY <1>2, <2>1, AboutDispute
  <2>4. j.pc # "flush"
    BY <2>1, <2>3 DEF JobFits, Job, Commands
  <2>5. QED
    BY <2>1, <2>2, <2>3, <2>4 DEF Knows, KnowsHold, PlacesHold
<1>3. QED
  BY <1>1, <1>2

(* The commands on the disputes are alone.                                 *)
LEMMA KnowAfter ==
    ASSUME ShapeInv, Alone, raced = {}, \A t \in Sessions : Knows(t),
           NEW s \in Sessions, OnlyJob(s), OnlyMine(s), Knows(s)', OnlyDispute(job[s].id)
    PROVE  \A t \in Sessions : Knows(t)'
<1>1. ASSUME NEW t \in Sessions, t # s PROVE Knows(t)'
  <2>1. job[t].id \in Disputes => job[s].id # job[t].id
    BY <1>1, OneWorks
  <2>2. job[t].id \in Disputes => disputes'[job[t].id] = disputes[job[t].id]
    BY <2>1 DEF OnlyDispute
  <2>3. QED
    BY <1>1, <2>2, KnowsAfter
<1>2. QED
  BY <1>1

(* What a command makes of the total by what it does with its dispute.     *)
LEMMA TotalMoves ==
    ASSUME ShapeInv, Alone, raced = {}, NEW s \in Sessions, OnlyJob(s), NEW d \in Disputes,
           job[s].id = d, job'[s].id = d \/ job'[s] = Idle, OnlyDispute(d)
    PROVE  HoldTotal(disputes', job') = HoldTotal(disputes, job) - HeldWith(disputes[d], job[s])
                                          + HeldWith(disputes'[d], job'[s])
<1>1. PICK D \in [Disputes -> Dispute], D1 \in [Disputes -> Dispute] : D = disputes /\ D1 = disputes'
  BY DEF ShapeInv, TypeOK, OnlyDispute
<1>2. PICK J, J1 : J = job /\ J1 = job'
  OBVIOUS
<1>3. \A t \in Sessions \ {s} : J1[t] = J[t]
  BY <1>2 DEF OnlyJob
<1>4. \A e \in Disputes \ {d} : D1[e] = D[e]
  BY <1>1 DEF OnlyDispute
<1>5. J[s].id = d /\ \A t \in Sessions : J[t].id = d => t = s
  BY <1>2, OneWorks
<1>6. NoId \notin Disputes
  BY IdsAreDistinct DEF IdsAreDistinct
<1>7. ASSUME NEW e \in Disputes \ {d} PROVE HeldBy(D1, J1, e) = HeldBy(D, J, e)
  <2>1. J[s].id # e /\ J1[s].id # e
    BY <1>2, <1>5, <1>6, IdleFields
  <2>2. \A t \in Sessions :
           /\ J1[t].id = e /\ PlacesHold(J1[t]) <=> J[t].id = e /\ PlacesHold(J[t])
           /\ J1[t].id = e /\ Freeing(J1[t]) <=> J[t].id = e /\ Freeing(J[t])
    BY <1>3, <2>1
  <2>3. D1[e] = D[e]
    BY <1>4
  <2>4. QED
    BY <2>2, <2>3 DEF HeldBy
<1>8. HoldTotal(D1, J1) = HoldTotal(D, J) - HeldBy(D, J, d) + HeldBy(D1, J1, d)
  BY <1>7, TotalChanges
<1>9. HeldBy(D, J, d) = HeldWith(D[d], J[s])
  BY <1>5 DEF HeldBy, HeldWith
<1>10. HeldBy(D1, J1, d) = HeldWith(D1[d], J1[s])
  <2>1. CASE J1[s].id = d
    <3>1. \A t \in Sessions : J1[t].id = d => t = s
      BY <1>3, <1>5
    <3>2. QED
      BY <2>1, <3>1 DEF HeldBy, HeldWith
  <2>2. CASE J1[s] = Idle
    <3>1. \A t \in Sessions : J1[t].id # d
      BY <1>3, <1>5, <1>6, <2>2, IdleFields
    <3>2. ~PlacesHold(Idle) /\ ~Freeing(Idle)
      BY IdleFields DEF PlacesHold, Freeing
    <3>3. QED
      BY <2>2, <3>1, <3>2, HeldByNone DEF HeldWith
  <2>3. QED
    BY <1>2, <2>1, <2>2
<1>11. QED
  BY <1>1, <1>2, <1>8, <1>9, <1>10

(* A refund of the operation, or a reversal.                               *)
LEMMA TotalUntouched ==
    ASSUME ShapeInv, NEW s \in Sessions, OnlyJob(s), job[s].id = NoId, job'[s].id = NoId,
           disputes' = disputes
    PROVE  HoldTotal(disputes', job') = HoldTotal(disputes, job)
<1>1. NoId \notin Disputes
  BY IdsAreDistinct DEF IdsAreDistinct
<1>2. PICK D, J, J1 : D = disputes /\ J = job /\ J1 = job'
  OBVIOUS
<1>3. \A t \in Sessions \ {s} : J1[t] = J[t]
  BY <1>2 DEF OnlyJob
<1>4. \A d \in Disputes : HeldBy(D, J1, d) = HeldBy(D, J, d)
  BY <1>1, <1>2, <1>3, HeldByOthers
<1>5. HoldTotal(D, J1) = HoldTotal(D, J)
  BY <1>4, TotalSame
<1>6. QED
  BY <1>2, <1>5

(* What the postings of the commands do to the hold of the partner.        *)
LEMMA CommitChange ==
    ASSUME ShapeInv, NEW s \in Sessions, ClearFits(s), CommitPosting(s), NEW i \in Job, i = job[s]
    PROVE  /\ i.cmd = "open" => Change(s) = i.amount
           /\ i.cmd = "reject" => Change(s) = 0 - i.amount
           /\ i.cmd \in Kinds => Change(s) = 0
           /\ i.cmd = "accept" /\ i.part = "refund" => Change(s) = 0
           /\ i.cmd = "accept" /\ i.part = "fee" => Change(s) = IF i.hold THEN 0 - i.amount ELSE 0
<1>1. i.pc = "post" /\ i.step = 3 /\ JobFits(i)
  BY CommitJob DEF ShapeInv
<1>2. PICK n \in Int : n = i.amount
  BY DEF Job
<1>3. PICK x, y : /\ x = Effect(i, "payable") /\ x \in Int
                  /\ y = HoldMoved(i, "payable") /\ y = IF IsHold(i.part) THEN -x ELSE 0
  BY MovedType DEF HoldMoved
<1>4. Change(s) = y - (IF Clearing(s) THEN n ELSE 0)
  BY <1>2, <1>3 DEF Change
<1>5. i.cmd # "accept" \/ ~i.hold => ~Clearing(s)
  BY DEF Clearing
<1>0. y = 0 /\ ~Clearing(s) => Change(s) = 0
  <2>1. SUFFICES ASSUME y = 0, ~Clearing(s) PROVE Change(s) = 0
    OBVIOUS
  <2>2. (IF Clearing(s) THEN n ELSE 0) = 0
    BY <2>1
  <2>3. PICK c : c = IF Clearing(s) THEN n ELSE 0
    OBVIOUS
  <2>4. c = 0 /\ Change(s) = y - c
    BY <1>4, <2>2, <2>3
  <2>5. QED
    BY ONLY <2>1, <2>4
<1>6. CASE i.cmd = "open"
  <2>1. i.part = "hold"
    BY <1>1, <1>6 DEF JobFits
  <2>2. Source(i) = "payable" /\ Size(i) = n /\ IsHold(i.part)
    BY <1>2, <2>1 DEF Source, Size, IsHold
  <2>3. x = -n
    BY <1>1, <1>2, <1>3, <2>2, EffectWhole
  <2>4. y = n
    BY <1>2, <1>3, <2>2, <2>3
  <2>5. Change(s) = n
    BY <1>2, <1>4, <1>5, <1>6, <2>4
  <2>6. QED
    BY <1>2, <1>6, <2>5 DEF Kinds
<1>7. CASE i.cmd = "reject"
  <2>1. i.part = "release"
    BY <1>1, <1>7 DEF JobFits
  <2>2. Source(i) = "reserve" /\ Target(i) = "payable" /\ Size(i) = n /\ IsHold(i.part)
    BY <1>2, <2>1 DEF Source, Target, Size, IsHold
  <2>3. x = n
    BY <1>1, <1>2, <1>3, <2>2, EffectWhole
  <2>4. y = -n
    BY <1>2, <1>3, <2>2, <2>3
  <2>5. Change(s) = 0 - n
    BY <1>2, <1>4, <1>5, <1>7, <2>4
  <2>6. QED
    BY <1>2, <1>7, <2>5 DEF Kinds
<1>8. CASE i.cmd \in Kinds
  <2>1. ~IsHold(i.part)
    BY <1>1, <1>8 DEF JobFits, Kinds, IsHold
  <2>2. y = 0
    BY <1>3, <2>1
  <2>3. ~Clearing(s)
    BY <1>5, <1>8 DEF Kinds
  <2>4. Change(s) = 0
    BY <1>0, <2>2, <2>3
  <2>5. QED
    BY <1>8, <2>4 DEF Kinds
<1>9. CASE i.cmd = "accept"
  <2>1. i.part \in {"refund", "fee"}
    BY <1>1, <1>9 DEF JobFits
  <2>2. y = 0
    BY <1>3, <2>1 DEF IsHold
  <2>3. CASE i.part = "refund"
    <3>1. ~Clearing(s)
      BY <1>1, <1>9, <2>3 DEF ClearFits, Clearing
    <3>2. Change(s) = 0
      BY <1>0, <2>2, <3>1
    <3>3. QED
      BY <1>9, <2>3, <3>2 DEF Kinds
  <2>4. CASE i.part = "fee"
    <3>1. Clearing(s) <=> i.hold
      BY <1>1, <1>9, <2>4 DEF ClearFits, Clearing
    <3>2. Change(s) = IF i.hold THEN 0 - n ELSE 0
      BY <1>2, <1>4, <2>2, <3>1
    <3>3. QED
      BY <1>2, <1>9, <2>4, <3>2 DEF Kinds
  <2>5. QED
    BY <2>1, <2>3, <2>4
<1>10. QED
  BY <1>6, <1>7, <1>8, <1>9

(* The commit of a posting changes the total of the holds as it changes    *)
(* the balance.                                                            *)
LEMMA CommitTotal ==
    ASSUME PaidStepInv, HoldsFit, raced = {}, lost = {}, NEW s \in Sessions, ClearFits(s),
           CommitPosting(s)
    PROVE  HoldTotal(disputes', job') = HoldTotal(disputes, job) + Change(s) /\ Knows(s)'
<1>1. ShapeInv /\ TypeOK /\ DisputesFit /\ Alone /\ DecisionsFit
  BY DoneParts DEF PaidStepInv, LedgerInv, PaidInv, ShapeInv
<1>2. PICK i \in Job, j \in Job : i = job[s] /\ j = job'[s] /\ JobFits(i) /\ i.pc = "post"
  BY <1>1, CommitJob DEF ShapeInv, TypeOK, MovesTo, OnlyJob
<1>3. /\ OnlyJob(s) /\ Same(j, i) /\ j.pc = NextPc(i) /\ j.part = NextPart(i)
  BY <1>1, <1>2, CommitJob DEF MovesTo
<1>4. j.cmd = i.cmd /\ j.id = i.id /\ j.hold = i.hold /\ j.amount = i.amount
  BY <1>3 DEF Same
<1>5. DisputeStored(i) /\ OnlyDispute(i.id)
  BY <1>1, <1>2, CommitRows DEF DisputeStored
<1>6. held'[s] = {}
  BY <1>1, ReleaseMine DEF CommitPosting
<1>7. /\ i.cmd = "open" => Change(s) = i.amount
      /\ i.cmd = "reject" => Change(s) = 0 - i.amount
      /\ i.cmd \in Kinds => Change(s) = 0
      /\ i.cmd = "accept" /\ i.part = "refund" => Change(s) = 0
      /\ i.cmd = "accept" /\ i.part = "fee" => Change(s) = IF i.hold THEN 0 - i.amount ELSE 0
  BY <1>1, <1>2, CommitChange
<1>8. PICK X, Y, n : /\ X = HoldTotal(disputes, job) /\ Y = HoldTotal(disputes', job') /\ n = i.amount
                     /\ X \in Int /\ n \in Int
  <2>1. i.amount \in Int
    BY DEF Job
  <2>2. bal["payable"].hold \in Int
    BY <1>1 DEF TypeOK, Balance, Accounts
  <2>3. QED
    BY <2>1, <2>2 DEF HoldsFit
<1>9. j.pc # "flush"
  BY <1>3 DEF NextPc
<1>10. KnowsHold(i, disputes[i.id], held[s], mine[s]["payable"])
  BY <1>2 DEF HoldsFit, Knows
<1>11. SUFFICES Y = X + Change(s) /\ KnowsHold(j, disputes'[i.id], {}, mine'[s]["payable"])
  BY <1>2, <1>4, <1>6, <1>8 DEF Knows
<1>12. CASE i.cmd \in Kinds
  <2>1. i.id = NoId /\ i.part # "fee" /\ disputes' = disputes
    BY <1>2, <1>5, <1>12 DEF JobFits, Kinds, DisputeStored
  <2>2. Y = X
    BY <1>1, <1>2, <1>3, <1>4, <1>8, <2>1, TotalUntouched
  <2>3. KnowsHold(j, disputes'[i.id], {}, mine'[s]["payable"])
    BY <1>4, <1>9, <1>12 DEF KnowsHold, Kinds, PlacesHold
  <2>4. QED
    BY <1>7, <1>8, <1>12, <2>2, <2>3
<1>13. CASE i.cmd \notin Kinds
  <2>1. PICK d \in Disputes : d = i.id
    BY <1>2, <1>13, AboutDispute DEF JobFits, Job, Commands, Kinds
  <2>2. PICK r, q : r = disputes[d] /\ q = disputes'[d] /\ r \in Dispute
    BY <1>1 DEF TypeOK
  <2>3. Y = X - HeldWith(r, i) + HeldWith(q, j)
    BY <1>1, <1>2, <1>3, <1>4, <1>5, <1>8, <2>1, <2>2, TotalMoves
  <2>4. DecisionFits(d)
    BY <1>1 DEF DecisionsFit
  <2>5. CASE i.cmd = "open"
    <3>1. i.part = "hold" /\ i.hold /\ ~r.hold
      BY <1>1, <1>2, <2>1, <2>2, <2>5 DEF JobFits, DisputesFit, OpensFit, OpensOf
    <3>2. q.status = "OPEN" /\ q.amount = n
      BY <1>5, <1>8, <2>1, <2>2, <2>5 DEF DisputeStored
    <3>3. PlacesHold(j) /\ ~PlacesHold(i) /\ ~Freeing(j)
      BY <1>2, <1>3, <1>4, <2>5, <3>1 DEF PlacesHold, Freeing, NextPc
    <3>4. HeldWith(r, i) = 0 /\ HeldWith(q, j) = n
      BY <3>1, <3>2, <3>3 DEF HeldWith
    <3>5. KnowsHold(j, q, {}, mine'[s]["payable"])
      BY <1>4, <1>9, <2>5, <3>2, NoDisputeFields DEF KnowsHold
    <3>6. QED
      BY <1>7, <1>8, <2>1, <2>2, <2>3, <2>5, <3>4, <3>5
  <2>6. CASE i.cmd = "reject"
    <3>1. i.part = "release" /\ i.hold /\ r.hold /\ j.hold = r.hold
      BY <1>2, <1>4, <1>10, <2>1, <2>2, <2>6 DEF JobFits, KnowsHold
    <3>2. q = r /\ r.amount = n
      BY <1>1, <1>2, <1>5, <1>8, <2>1, <2>2, <2>6, <3>1 DEF DisputeStored, DisputesFit, WorksFit
    <3>3. Freeing(j) /\ ~Freeing(i) /\ ~PlacesHold(j)
      BY <1>2, <1>3, <1>4, <2>6, <3>1 DEF PlacesHold, Freeing, NextPc
    <3>4. HeldWith(r, i) = n /\ HeldWith(q, j) = 0
      BY <3>1, <3>2, <3>3 DEF HeldWith
    <3>5. KnowsHold(j, q, {}, mine'[s]["payable"])
      BY <1>4, <1>9, <2>6, <3>1, <3>2, <3>3 DEF KnowsHold
    <3>6. QED
      BY <1>7, <1>8, <2>1, <2>2, <2>3, <2>6, <3>4, <3>5
  <2>7. CASE i.cmd = "accept"
    <3>1. r.status \in {"OPEN", "UNDER_REVIEW"}
      BY <1>2, <2>1, <2>2, <2>4, <2>7 DEF DecisionFits, Accepted, IsOpen
    <3>2. i.hold = r.hold
      BY <1>10, <2>1, <2>2, <2>7, <3>1 DEF KnowsHold
    <3>3. ~Freeing(i) /\ ~Freeing(j) /\ ~PlacesHold(i) /\ ~PlacesHold(j)
      BY <1>4, <2>7 DEF Freeing, PlacesHold
    <3>4. r.amount = n
      BY <1>1, <1>2, <1>8, <2>1, <2>2, <2>7 DEF DisputesFit, WorksFit
    <3>5. HeldWith(r, i) = IF i.hold THEN n ELSE 0
      BY <3>2, <3>3, <3>4 DEF HeldWith
    <3>6. CASE i.part = "refund"
      <4>1. q = r
        BY <1>5, <2>2, <2>7, <3>6 DEF DisputeStored
      <4>2. HeldWith(q, j) = IF i.hold THEN n ELSE 0
        BY <3>2, <3>3, <3>4, <4>1 DEF HeldWith
      <4>3. j.hold => j.pc # "record"
        BY <1>3, <1>4, <2>7, <3>6 DEF NextPc
      <4>4. KnowsHold(j, q, {}, mine'[s]["payable"])
        BY <1>4, <1>9, <2>7, <3>1, <3>2, <3>3, <4>1, <4>3 DEF KnowsHold
      <4>5. QED
        BY <1>7, <1>8, <2>1, <2>2, <2>3, <2>7, <3>5, <3>6, <4>2, <4>4
    <3>7. CASE i.part = "fee"
      <4>1. q.status = "ACCEPTED" /\ ~q.hold
        BY <1>5, <2>1, <2>2, <3>2, <3>7 DEF DisputeStored, DecidedAs
      <4>2. HeldWith(q, j) = 0
        BY <3>3, <4>1 DEF HeldWith
      <4>3. KnowsHold(j, q, {}, mine'[s]["payable"])
        BY <1>4, <1>9, <2>7, <3>3, <4>1 DEF KnowsHold
      <4>4. QED
        BY <1>7, <1>8, <2>1, <2>2, <2>3, <2>7, <3>5, <3>7, <4>2, <4>3
    <3>8. QED
      BY <1>2, <2>7, <3>6, <3>7 DEF JobFits
  <2>8. QED
    BY <1>2, <1>13, <2>5, <2>6, <2>7 DEF JobFits, Job, Commands, Kinds
<1>14. QED
  BY <1>12, <1>13

(* A hold that is posted is claimed by the command that posts it.          *)
LEMMA CommitClaims ==
    ASSUME ShapeInv, DisputesFit, HoldsClaimed, NEW s \in Sessions, CommitPosting(s), lost' = {}
    PROVE  HoldsClaimed'
<1>1. PICK i \in Job, j \in Job : i = job[s] /\ j = job'[s] /\ JobFits(i) /\ i.pc = "post"
  BY CommitJob DEF ShapeInv, TypeOK, MovesTo, OnlyJob
<1>2. Same(j, i) /\ j.pc = NextPc(i)
  BY <1>1, CommitJob DEF ShapeInv, MovesTo
<1>3. PICK b : batches' = batches \cup {b} /\ IsBatchOf(b, i)
  BY <1>1, CommitBatch
<1>4. ASSUME NEW c \in batches, c.key[1] = "open", NEW d, NEW k, d = c.subject, k = c.key[3]
      PROVE  Claims(d, k)'
  <2>1. d \in Disputes /\ k \in OpenKeys /\ Claims(d, k)
    BY <1>4 DEF DisputesFit, BatchFits, HoldsClaimed
  <2>2. QED
    BY <2>1, ClaimStays
<1>5. ASSUME b.key[1] = "open", NEW d, NEW k, d = b.subject, k = b.key[3]
      PROVE  Claims(d, k)'
  <2>1. i.cmd = "open" /\ k = i.key /\ d = Subject(i)
    BY <1>3, <1>5, KeyType DEF IsBatchOf
  <2>2. d = i.id /\ i.hold
    BY <1>1, <2>1 DEF Subject, JobFits
  <2>3. PlacesHold(j) /\ j.id = d /\ j.key = k
    BY <1>2, <2>1, <2>2 DEF PlacesHold, Same, NextPc
  <2>4. QED
    BY <1>1, <2>3 DEF Claims
<1>6. QED
  BY <1>3, <1>4, <1>5 DEF HoldsClaimed

(* The commit of a posting keeps the holds exact.                          *)
LEMMA CommitHolds ==
    ASSUME PaidStepInv, HoldsInv, NEW s \in Sessions, CommitPosting(s)
    PROVE  HoldsInv'
<1>1. /\ ShapeInv /\ TypeOK /\ DisputesFit /\ Alone /\ AvailableFits
      /\ \A t \in Sessions : ClearFits(t)
  BY DoneParts DEF PaidStepInv, LedgerInv, PaidInv, HoldsInv, ShapeInv
<1>2. AvailableFits' /\ (\A t \in Sessions : ClearFits(t)')
  BY <1>1, CommitAvailable, CommitClear
<1>3. SUFFICES ASSUME ~Excused' PROVE HoldsFit'
  BY <1>2 DEF HoldsInv
<1>4. HoldsFit
  BY <1>1, <1>3, ExcusedStays DEF HoldsInv
<1>5. lost' = {} /\ lost = {} /\ raced = {}
  BY <1>1, <1>3, CommitAlone DEF Excused
<1>6. OnlyMine(s) /\ held'[s] = {} /\ bal' = Flushed(s)
  BY <1>1, ReleaseMine DEF CommitPosting
<1>7. OnlyJob(s) /\ job'[s].pc # "post"
  BY <1>1, CommitJob DEF MovesTo, NextPc
<1>8. /\ \A t \in Sessions : ViewFits(t)'
      /\ bal'["payable"].hold = bal["payable"].hold + Change(s)
  BY <1>1, <1>4, <1>6, <1>7, CommitViews DEF HoldsFit
<1>9. HoldTotal(disputes', job') = HoldTotal(disputes, job) + Change(s) /\ Knows(s)'
  BY <1>1, <1>4, <1>5, CommitTotal
<1>10. OnlyDispute(job[s].id)
  BY <1>1, CommitRows DEF DisputeStored
<1>11. \A t \in Sessions : Knows(t)'
  BY <1>1, <1>4, <1>5, <1>6, <1>7, <1>9, <1>10, KnowAfter DEF HoldsFit
<1>12. HoldsClaimed'
  BY <1>1, <1>4, <1>5, CommitClaims DEF HoldsFit
<1>13. HoldTotal(disputes, job)' = HoldTotal(disputes', job')
  BY DEF HoldTotal, HeldBy
<1>14. bal'["payable"].hold = HoldTotal(disputes', job')
  BY <1>4, <1>8, <1>9 DEF HoldsFit
<1>15. QED
  BY <1>8, <1>11, <1>12, <1>13, <1>14 DEF HoldsFit

(* The second commit changes the total of the holds as it changes the      *)
(* balance: only an accept has cleared any.                                *)
LEMMA RecordTotal ==
    ASSUME PaidStepInv, HoldsFit, raced = {}, lost = {}, NEW s \in Sessions, Record(s)
    PROVE  HoldTotal(disputes', job') = HoldTotal(disputes, job) + Change(s)
<1>1. ShapeInv /\ TypeOK /\ DisputesFit /\ Alone /\ DecisionsFit
  BY DoneParts DEF PaidStepInv, LedgerInv, PaidInv, ShapeInv
<1>2. PICK j \in Job : j = job[s] /\ JobFits(j) /\ j.pc = "record"
  BY <1>1, RecordJob DEF ShapeInv, TypeOK
<1>3. OnlyJob(s) /\ job'[s] = Idle
  BY <1>1, RecordJob DEF Ends
<1>4. DisputeRecorded(j) /\ OnlyDispute(j.id)
  BY <1>1, <1>2, RecordRows DEF DisputeRecorded
<1>5. PICK X, Y, n : /\ X = HoldTotal(disputes, job) /\ Y = HoldTotal(disputes', job') /\ n = j.amount
                     /\ X \in Int /\ n \in Int
  <2>1. j.amount \in Int
    BY DEF Job
  <2>2. bal["payable"].hold \in Int
    BY <1>1 DEF TypeOK, Balance, Accounts
  <2>3. QED
    BY <2>1, <2>2 DEF HoldsFit
<1>6. Clearing(s) => Change(s) = 0 - n
  <2>1. HoldMoved(j, "payable") = 0
    BY <1>2, MovedType
  <2>2. QED
    BY <1>2, <1>5, <2>1 DEF Change
<1>7. ~Clearing(s) => Change(s) = 0
  <2>1. HoldMoved(j, "payable") = 0
    BY <1>2, MovedType
  <2>2. QED
    BY <1>2, <2>1 DEF Change
<1>8. j.cmd # "accept" \/ ~j.hold => ~Clearing(s)
  BY <1>2 DEF Clearing
<1>9. KnowsHold(j, disputes[j.id], held[s], mine[s]["payable"])
  BY <1>2 DEF HoldsFit, Knows
<1>10. CASE j.cmd \in Kinds
  <2>1. j.id = NoId /\ disputes' = disputes /\ ~Clearing(s)
    BY <1>2, <1>4, <1>8, <1>10 DEF JobFits, Kinds, DisputeRecorded
  <2>2. Y = X
    BY <1>1, <1>2, <1>3, <1>5, <2>1, TotalUntouched, IdleFields
  <2>3. QED
    BY <1>5, <1>7, <2>1, <2>2
<1>11. CASE j.cmd \notin Kinds
  <2>1. PICK d \in Disputes : d = j.id
    BY <1>2, <1>11, AboutDispute DEF JobFits, Job, Commands, Kinds
  <2>2. PICK r, q : r = disputes[d] /\ q = disputes'[d] /\ r \in Dispute
    BY <1>1 DEF TypeOK
  <2>3. Y = X - HeldWith(r, j) + HeldWith(q, Idle)
    BY <1>1, <1>2, <1>3, <1>4, <1>5, <2>1, <2>2, TotalMoves
  <2>4. ~PlacesHold(Idle) /\ ~Freeing(Idle)
    BY IdleFields DEF PlacesHold, Freeing
  <2>5. DecisionFits(d)
    BY <1>1 DEF DecisionsFit
  <2>6. /\ j.cmd = "open" => OpenedAs(j)
        /\ j.cmd # "open" => DecidedAs(d, Statused(j), j.hold)
    BY <1>2, <1>4, <2>1, RecordedDispute
  <2>7. HeldWith(r, j) \in Nat
    BY <2>2 DEF HeldWith, Dispute
  <2>8. CASE j.cmd # "accept"
    <3>1. HeldWith(q, Idle) = HeldWith(r, j)
      <4>1. CASE j.cmd = "open" /\ j.hold
        <5>1. PlacesHold(j) /\ ~Freeing(j) /\ r # NoDispute
          BY <1>2, <1>9, <2>1, <2>2, <4>1 DEF PlacesHold, Freeing, KnowsHold
        <5>2. q.hold /\ q.amount = r.amount
          BY <2>1, <2>2, <2>6, <4>1, <5>1 DEF OpenedAs
        <5>3. QED
          BY <2>4, <5>1, <5>2 DEF HeldWith
      <4>2. CASE j.cmd = "open" /\ ~j.hold
        <5>1. r = NoDispute /\ ~r.hold
          BY <1>1, <1>2, <2>1, <2>2, <4>2 DEF DisputesFit, OpensFit, OpensOf, Exists
        <5>2. ~q.hold /\ ~PlacesHold(j)
          BY <2>1, <2>2, <2>6, <4>2, <5>1 DEF OpenedAs, PlacesHold
        <5>3. QED
          BY <2>4, <5>1, <5>2 DEF HeldWith
      <4>3. CASE j.cmd = "reject"
        <5>1. j.hold = r.hold /\ ~q.hold
          BY <1>9, <2>1, <2>2, <2>6, <4>3 DEF KnowsHold, DecidedAs
        <5>2. (j.hold => Freeing(j)) /\ ~PlacesHold(j)
          BY <1>2, <4>3 DEF Freeing, PlacesHold
        <5>3. QED
          BY <2>4, <5>1, <5>2 DEF HeldWith
      <4>4. CASE j.cmd \in {"review", "close"}
        <5>1. ~j.hold /\ ~Freeing(j) /\ ~PlacesHold(j)
          BY <1>2, <4>4 DEF JobFits, Freeing, PlacesHold
        <5>2. (q.hold <=> r.hold) /\ q.amount = r.amount
          BY <2>2, <2>6, <4>4, <5>1 DEF DecidedAs
        <5>3. QED
          BY <2>4, <5>1, <5>2 DEF HeldWith
      <4>5. QED
        BY <1>2, <1>11, <2>1, <2>8, <4>1, <4>2, <4>3, <4>4 DEF JobFits, Job, Commands, Kinds
    <3>2. Change(s) = 0
      BY <1>7, <1>8, <2>8
    <3>3. QED
      BY <1>5, <2>3, <2>7, <3>1, <3>2
  <2>9. CASE j.cmd = "accept"
    <3>1. ~Freeing(j) /\ ~PlacesHold(j)
      BY <2>9 DEF Freeing, PlacesHold
    <3>2. (q.hold <=> r.hold /\ ~j.hold) /\ r.amount = n
      BY <1>1, <1>2, <1>5, <2>1, <2>2, <2>6, <2>9 DEF DecidedAs, DisputesFit, WorksFit
    <3>3. CASE r.status \in {"OPEN", "UNDER_REVIEW"}
      <4>1. j.hold = r.hold /\ (j.hold => Clearing(s))
        BY <1>2, <1>9, <2>1, <2>2, <2>9, <3>3 DEF KnowsHold, Clearing
      <4>2. HeldWith(q, Idle) = 0 /\ HeldWith(r, j) = IF j.hold THEN n ELSE 0
        BY <2>4, <3>1, <3>2, <4>1 DEF HeldWith
      <4>3. CASE j.hold
        BY <1>5, <1>6, <2>3, <4>1, <4>2, <4>3
      <4>4. CASE ~j.hold
        BY <1>5, <1>7, <1>8, <2>3, <4>2, <4>4
      <4>5. QED
        BY <4>3, <4>4
    <3>4. CASE r.status \notin {"OPEN", "UNDER_REVIEW"}
      <4>1. ~r.hold /\ ~Clearing(s)
        BY <1>2, <1>9, <2>1, <2>2, <2>9, <3>4 DEF KnowsHold, Clearing
      <4>2. HeldWith(q, Idle) = 0 /\ HeldWith(r, j) = 0
        BY <2>4, <3>1, <3>2, <4>1 DEF HeldWith
      <4>3. QED
        BY <1>5, <1>7, <2>3, <4>1, <4>2
    <3>5. QED
      BY <3>3, <3>4
  <2>10. QED
    BY <2>8, <2>9
<1>12. QED
  BY <1>10, <1>11

(* The second commit keeps the holds exact.                                *)
LEMMA RecordHolds ==
    ASSUME PaidStepInv, HoldsInv, NEW s \in Sessions, Record(s)
    PROVE  HoldsInv'
<1>1. /\ ShapeInv /\ TypeOK /\ DisputesFit /\ Alone /\ AvailableFits
      /\ \A t \in Sessions : ClearFits(t)
  BY DoneParts DEF PaidStepInv, LedgerInv, PaidInv, HoldsInv, ShapeInv
<1>2. AvailableFits' /\ (\A t \in Sessions : ClearFits(t)')
  BY <1>1, CommitAvailable, CommitClear
<1>3. SUFFICES ASSUME ~Excused' PROVE HoldsFit'
  BY <1>2 DEF HoldsInv
<1>4. HoldsFit
  BY <1>1, <1>3, ExcusedStays DEF HoldsInv
<1>5. lost' = {} /\ lost = {} /\ raced = {}
  BY <1>1, <1>3, RecordAlone DEF Excused
<1>6. OnlyMine(s) /\ held'[s] = {} /\ bal' = Flushed(s) /\ batches' = batches
  BY <1>1, ReleaseMine DEF Record
<1>7. OnlyJob(s) /\ job'[s] = Idle /\ job'[s].pc # "post"
  BY <1>1, RecordJob, IdleFields DEF Ends
<1>8. /\ \A t \in Sessions : ViewFits(t)'
      /\ bal'["payable"].hold = bal["payable"].hold + Change(s)
  BY <1>1, <1>4, <1>6, <1>7, CommitViews DEF HoldsFit
<1>9. HoldTotal(disputes', job') = HoldTotal(disputes, job) + Change(s)
  BY <1>4, <1>5, RecordTotal
<1>10. OnlyDispute(job[s].id)
  BY <1>1, RecordRows DEF DisputeRecorded
<1>11. Knows(s)'
  BY <1>7, IdleFields DEF Knows, KnowsHold, PlacesHold
<1>12. \A t \in Sessions : Knows(t)'
  BY <1>1, <1>4, <1>5, <1>6, <1>7, <1>10, <1>11, KnowAfter DEF HoldsFit
<1>13. HoldsClaimed'
  <2>1. ASSUME NEW b \in batches, b.key[1] = "open", NEW d, NEW k, d = b.subject, k = b.key[3]
        PROVE  Claims(d, k)'
    <3>1. d \in Disputes /\ k \in OpenKeys /\ Claims(d, k)
      BY <1>1, <1>4, <2>1 DEF DisputesFit, BatchFits, HoldsFit, HoldsClaimed
    <3>2. QED
      BY <1>1, <1>5, <3>1, ClaimStays
  <2>2. QED
    BY <1>6, <2>1 DEF HoldsClaimed
<1>14. HoldTotal(disputes, job)' = HoldTotal(disputes', job')
  BY DEF HoldTotal, HeldBy
<1>15. bal'["payable"].hold = HoldTotal(disputes', job')
  BY <1>4, <1>8, <1>9 DEF HoldsFit
<1>16. QED
  BY <1>8, <1>12, <1>13, <1>14, <1>15 DEF HoldsFit

-----------------------------------------------------------------------------
(* The whole inductive invariant.                                          *)
HoldsStepInv == PaidStepInv /\ HoldsInv

(* It is about the variables only.                                         *)
LEMMA StutterHolds ==
    ASSUME HoldsInv, UNCHANGED vars
    PROVE  HoldsInv'
<1> USE DEF vars, rows, books, history
<1>1. AvailableFits'
  BY DEF HoldsInv, AvailableFits, View
<1>2. ASSUME NEW s \in Sessions PROVE ClearFits(s)'
  BY DEF HoldsInv, ClearFits
<1>3. SUFFICES ASSUME ~Excused' PROVE HoldsFit'
  BY <1>1, <1>2 DEF HoldsInv
<1>4. ~Excused
  BY <1>3 DEF Excused, Claims
<1>5. HoldsFit
  BY <1>4 DEF HoldsInv
<1>6. bal'["payable"].hold = HoldTotal(disputes, job)'
  <2>1. HoldTotal(disputes, job)' = HoldTotal(disputes, job)
    BY DEF HoldTotal, HeldBy
  <2>2. QED
    BY <1>5, <2>1 DEF HoldsFit
<1>7. HoldsClaimed'
  BY <1>5 DEF HoldsFit, HoldsClaimed, Claims
<1>8. ASSUME NEW s \in Sessions PROVE ViewFits(s)' /\ Knows(s)'
  <2>1. ViewFits(s) /\ Knows(s)
    BY <1>5 DEF HoldsFit
  <2>2. QED
    BY <2>1 DEF ViewFits, View, Change, Clearing, Knows
<1>9. QED
  BY <1>6, <1>7, <1>8 DEF HoldsFit

(* Every step keeps it.                                                    *)
LEMMA HoldsStep ==
    ASSUME HoldsStepInv, [Next]_vars
    PROVE  HoldsStepInv'
<1>1. PaidStepInv /\ HoldsInv /\ TypeOK
  BY DEF HoldsStepInv, PaidStepInv, LedgerInv, ShapeInv
<1>2. PaidStepInv'
  BY <1>1, PaidStep
<1>3. HoldsInv'
  BY <1>1, StepKinds, StutterHolds, QuietHolds, CommitHolds, RecordHolds
<1>4. QED
  BY <1>2, <1>3 DEF HoldsStepInv

(* Nothing is held when the system starts.                                 *)
LEMMA HoldsStart ==
    ASSUME Init
    PROVE  HoldsStepInv
<1>1. PaidStepInv
  BY PaidStart
<1>2. /\ batches = {}
      /\ \A s \in Sessions : job[s] = Idle /\ held[s] = {}
      /\ \A a \in Accounts : bal[a] = Zero
      /\ \A d \in Disputes : disputes[d] = NoDispute
  BY DEF Init
<1>3. Agrees(Zero)
  BY ZeroFields DEF Agrees
<1>4. \A s \in Sessions, a \in Accounts : View(s, a) = Zero
  BY <1>2 DEF View
<1>5. AvailableFits
  BY <1>2, <1>3, <1>4 DEF AvailableFits
<1>6. \A s \in Sessions : ClearFits(s)
  BY <1>2, IdleFields DEF ClearFits
<1>7. \A d \in Disputes : HeldBy(disputes, job, d) = 0
  BY <1>2, NoDisputeFields, IdleFields DEF HeldBy, PlacesHold
<1>8. HoldTotal(disputes, job) = 0
  <2>1. PICK f : f = [d \in Disputes |-> HeldBy(disputes, job, d)]
    OBVIOUS
  <2>2. \A d \in Disputes : f[d] = 0
    BY <1>7, <2>1
  <2>3. SumOf(f, Disputes) = 0
    BY <2>2, SumZero, FinitelyMany DEF FinitelyMany
  <2>4. QED
    BY <2>1, <2>3 DEF HoldTotal
<1>9. bal["payable"].hold = 0
  BY <1>2, ZeroFields DEF Accounts
<1>10. ASSUME NEW s \in Sessions PROVE ViewFits(s) /\ Knows(s)
  <2>1. job[s] = Idle /\ Idle.cmd = "none" /\ Idle.pc = "idle" /\ ~Idle.hold
    BY <1>2, IdleFields
  <2>2. HoldMoved(job[s], "payable") = 0 /\ ~Clearing(s)
    BY <2>1, IdleFields, MovedType DEF Clearing
  <2>3. Change(s) = 0
    BY <2>2 DEF Change
  <2>4. View(s, "payable").hold = 0
    BY <1>4, ZeroFields DEF Accounts
  <2>5. Knows(s)
    BY <2>1 DEF Knows, KnowsHold, PlacesHold
  <2>6. QED
    BY <1>9, <2>3, <2>4, <2>5 DEF ViewFits
<1>11. HoldsFit
  BY <1>2, <1>8, <1>9, <1>10 DEF HoldsFit, HoldsClaimed
<1>12. QED
  BY <1>1, <1>5, <1>6, <1>11 DEF HoldsStepInv, HoldsInv

(* Between commands, what the disputes hold is what their rows say.        *)
LEMMA RestingTotal ==
    ASSUME TypeOK, \A s \in Sessions : job[s] = Idle
    PROVE  HoldTotal(disputes, job) = SumOf([d \in Disputes |-> disputes[d].amount], Holding)
<1> DEFINE f == [d \in Disputes |-> HeldBy(disputes, job, d)]
           g == [d \in Disputes |-> disputes[d].amount]
<1>1. \A d \in Disputes, s \in Sessions : job[s].id # d
  BY IdleFields, IdsAreDistinct DEF IdsAreDistinct
<1>2. \A d \in Disputes : f[d] = IF disputes[d].hold THEN disputes[d].amount ELSE 0
  BY <1>1, HeldByNone
<1>3. \A d \in Disputes : f[d] \in Int
  BY HeldType DEF TypeOK
<1>4. Holding \subseteq Disputes /\ IsFiniteSet(Disputes) /\ IsFiniteSet(Holding)
  BY FinitelyMany, FS_Subset DEF Holding, FinitelyMany
<1>5. \A d \in Disputes \ Holding : f[d] = 0
  BY <1>2 DEF Holding
<1>6. \A d \in Holding : f[d] = g[d]
  BY <1>2 DEF Holding
<1> HIDE DEF f, g
<1>7. SumOf(f, Disputes) = SumOf(f, Holding)
  BY <1>3, <1>4, <1>5, SumFilter
<1>8. SumOf(f, Holding) = SumOf(g, Holding)
  BY <1>4, <1>6, SumSame
<1>9. QED
  BY <1>7, <1>8 DEF HoldTotal, f, g

(* The invariant implies the property.                                     *)
LEMMA HoldsFollow ==
    ASSUME HoldsStepInv
    PROVE  HoldsAreExact
<1>1. TypeOK /\ AvailableFits /\ (Excused \/ HoldsFit)
  BY DEF HoldsStepInv, PaidStepInv, LedgerInv, ShapeInv, HoldsInv
<1>2. AvailableExcludesHolds
  BY <1>1 DEF AvailableFits, Agrees, AvailableExcludesHolds
<1>3. HoldsMatchDisputes
  <2>1. SUFFICES ASSUME ~wiped, raced = {}, lost = {},
                        \A c, d \in Disputes : c # d /\ disputes[c].holdKey = disputes[d].holdKey
                                                  => disputes[c].holdKey = NoId,
                        \A s \in Sessions : job[s] = Idle
                 PROVE  bal["payable"].hold
                          = SumOf([d \in Disputes |-> disputes[d].amount], Holding)
    BY DEF HoldsMatchDisputes
  <2>2. \A d \in Disputes, k \in OpenKeys : Claims(d, k) => disputes[d].holdKey = k
    BY <2>1, IdleFields DEF Claims, PlacesHold
  <2>3. ~Excused
    BY <2>1, <2>2, IdsAreDistinct DEF Excused, IdsAreDistinct
  <2>4. bal["payable"].hold = HoldTotal(disputes, job)
    BY <1>1, <2>3 DEF HoldsFit
  <2>5. QED
    BY <1>1, <2>1, <2>4, RestingTotal
<1>4. QED
  BY <1>2, <1>3 DEF HoldsAreExact

(* The available balance is the current one less the holds, and between    *)
(* commands the holds of the partner are those of the disputes that have   *)
(* one, but for balances cleared from an outdated copy, holds an accept    *)
(* cleared for others, racing and lost commands and keys used twice.       *)
THEOREM HoldsStayExact == Spec => []HoldsAreExact
<1>1. Init => HoldsStepInv
  BY HoldsStart
<1>2. HoldsStepInv /\ [Next]_vars => HoldsStepInv'
  BY HoldsStep
<1>3. HoldsStepInv => HoldsAreExact
  BY HoldsFollow
<1>4. QED
  BY <1>1, <1>2, <1>3, PTL DEF Spec
=============================================================================
