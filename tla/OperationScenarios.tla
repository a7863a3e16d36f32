------------------------ MODULE OperationScenarios ------------------------
(***************************************************************************)
(* Refunds, reversals and disputes of a captured operation                 *)
(* (app/services/operations_scenarios) and the posting engine under them   *)
(* (app/services/ledger).  A command posts in one transaction, committed   *)
(* by apply_posting, and records the outcome in a second one.  The engine  *)
(* locks the balance of every line FOR UPDATE; refund requests, reversals, *)
(* disputes and the operation are read without a lock.                     *)
(*                                                                         *)
(* One operation with Captured captured; a job is the command a session    *)
(* executes.  Accounts exist.  A posting moves an amount from one account  *)
(* to another.  Callers never use an idempotency key for two commands, nor *)
(* a decision key for two disputes; they may repeat a command with its key.*)
(***************************************************************************)
EXTENDS Sums

CONSTANTS Sessions,
          RefundKeys,     \* idempotency keys
          ReversalKeys,
          OpenKeys,
          DecisionKeys,   \* of the decisions on one dispute
          Disputes,       \* dispute ids; bound: disputes opened
          Captured,       \* operation.captured_amount
          Amounts,        \* of refunds and disputes
          Closed,         \* settlement_closed of the requests
          Fee,            \* fee_amount of the disputes
          MaxCommands,    \* bound: commands begun
          NoId

ASSUME AmountsArePositive ==
    /\ Captured \in Nat \ {0}
    /\ Amounts \subseteq Nat \ {0}
    /\ Fee \in Nat
    /\ Closed \subseteq BOOLEAN
    /\ MaxCommands \in Nat

ASSUME FinitelyMany == IsFiniteSet(Disputes)

ASSUME IdsAreDistinct == NoId \notin OpenKeys /\ {"refund", "reversal", NoId} \cap Disputes = {}

Accounts == {"client", "payable", "reserve", "adjustment", "revenue"}

VARIABLES
    refunds,      \* refunds[k]: refund_requests
    reversals,    \* reversals[k]
    disputes,     \* disputes[d]
    refunded,     \* operation.refunded_amount
    adjustments,  \* financial_adjustments, by the command that wrote them
    batches,      \* posting_batches with their two lines
    bal,          \* bal[a]: account_balances
    job,          \* job[s]
    held,         \* held[s]: balances s has locked
    mine,         \* mine[s][a]: what s has made of a balance it holds
    begun,        \* number of commands begun
    raced,        \* history: what two commands have worked on at once
    lost,         \* history: what a command posted without recording it
    smeared,      \* history: holds were cleared from an outdated balance
    wiped         \* history: an accept cleared holds that were not its own

rows == <<refunds, reversals, disputes, refunded, adjustments>>
books == <<batches, bal>>
history == <<begun, raced, lost, smeared, wiped>>
vars == <<rows, books, job, held, mine, history>>

NoRequest == [status |-> "none", amount |-> 0, closed |-> FALSE]
NoDispute == [status |-> "none", amount |-> 0, hold |-> FALSE, holdKey |-> NoId]
Zero == [current |-> 0, hold |-> 0, available |-> 0]

Idle == [pc |-> "idle", cmd |-> "none", part |-> "none", id |-> NoId, key |-> NoId,
         amount |-> 0, closed |-> FALSE, hold |-> FALSE, seen |-> 0, step |-> 1]

Init ==
    /\ refunds = [k \in RefundKeys |-> NoRequest]
    /\ reversals = [k \in ReversalKeys |-> NoRequest]
    /\ disputes = [d \in Disputes |-> NoDispute]
    /\ refunded = 0 /\ adjustments = {} /\ batches = {}
    /\ bal = [a \in Accounts |-> Zero]
    /\ job = [s \in Sessions |-> Idle]
    /\ held = [s \in Sessions |-> {}]
    /\ mine = [s \in Sessions |-> [a \in Accounts |-> Zero]]
    /\ begun = 0
    /\ raced = {} /\ lost = {} /\ smeared = FALSE /\ wiped = FALSE

-----------------------------------------------------------------------------
(* What a command works on: the refunds or the reversals of the operation, *)
(* or one dispute.                                                         *)
Subject(j) == IF j.cmd \in {"refund", "reversal"} THEN j.cmd ELSE j.id

Begin(s, j) ==
    /\ job[s] = Idle
    /\ begun < MaxCommands
    /\ begun' = begun + 1
    /\ job' = [job EXCEPT ![s] = j]
    /\ raced' = IF \E t \in Sessions : job[t] # Idle /\ Subject(job[t]) = Subject(j)
                THEN raced \cup {Subject(j)} ELSE raced
    /\ UNCHANGED <<rows, books, held, mine, lost, smeared, wiped>>

Goto(s, pc) == job' = [job EXCEPT ![s].pc = pc]

(* The key apply_posting is called with.  A decision key stands for its    *)
(* dispute too; the key of a hold does not name the dispute it is for.     *)
BatchKey(j) == <<j.cmd, IF j.cmd = "open" THEN NoId ELSE j.id, j.key, j.part>>

Posted(key) == \E b \in batches : b.key = key

-----------------------------------------------------------------------------
(* The first half of the commands, up to apply_posting.                    *)

(* Mutant: the refunds made so far are not subtracted.                     *)
WithinCaptured(n) == n <= Captured

WithinRemaining(n) == n <= Captured - refunded

RequestRefund(s, k, n, closed) ==
    /\ refunds[k] = NoRequest
    /\ WithinRemaining(n)
    /\ Begin(s, [Idle EXCEPT !.pc = "insert", !.cmd = "refund", !.part = "refund",
                             !.key = k, !.amount = n, !.closed = closed,
                             !.seen = refunded])

(* existing_for_operation: only a reversal that is marked POSTED counts.   *)
ReverseCapture(s, k, closed) ==
    /\ reversals[k] = NoRequest
    /\ \A l \in ReversalKeys : reversals[l].status # "POSTED"
    /\ Begin(s, [Idle EXCEPT !.pc = "insert", !.cmd = "reversal", !.part = "reversal",
                             !.key = k, !.amount = Captured, !.closed = closed])

(* A key that is known: the stored request is returned.                    *)
Replay(s) ==
    /\ job[s] = Idle
    /\ \/ \E k \in RefundKeys : refunds[k] # NoRequest
       \/ \E k \in ReversalKeys : reversals[k] # NoRequest
    /\ UNCHANGED vars

IsKnown(j) == IF j.cmd = "refund" THEN refunds[j.key] # NoRequest
              ELSE reversals[j.key] # NoRequest

(* The row is flushed; the key is unique, so that an insert waits for the  *)
(* transaction that has inserted the same one and fails if it commits.     *)
InsertRequest(s) ==
    /\ job[s].pc = "insert"
    /\ \A t \in Sessions : ~(/\ job[t].pc \in {"lookup", "post"}
                             /\ job[t].cmd = job[s].cmd /\ job[t].key = job[s].key)
    /\ IF IsKnown(job[s]) THEN job' = [job EXCEPT ![s] = Idle] ELSE Goto(s, "lookup")
    /\ UNCHANGED <<rows, books, held, mine, history>>

(* open_dispute looks nothing up: every call opens a dispute of its own.   *)
OpenDispute(s, d, k, n, hold) ==
    /\ disputes[d] = NoDispute
    /\ \A t \in Sessions : job[t].id # d
    /\ Begin(s, [Idle EXCEPT !.pc = IF hold THEN "lookup" ELSE "record",
                             !.cmd = "open", !.part = "hold", !.id = d,
                             !.key = k, !.amount = n, !.hold = hold])

IsOpen(d) == disputes[d].status \in {"OPEN", "UNDER_REVIEW"}

Accept(s, d, k, closed) ==
    /\ IsOpen(d)
    /\ Begin(s, [Idle EXCEPT !.pc = "lookup", !.cmd = "accept", !.part = "refund",
                             !.id = d, !.key = k, !.amount = disputes[d].amount,
                             !.closed = closed, !.hold = disputes[d].hold])

Reject(s, d, k) ==
    /\ IsOpen(d)
    /\ Begin(s, [Idle EXCEPT !.pc = IF disputes[d].hold THEN "lookup" ELSE "record",
                             !.cmd = "reject", !.part = "release", !.id = d, !.key = k,
                             !.amount = disputes[d].amount, !.hold = disputes[d].hold])

(* move_to_review and close read the dispute and then write its status.    *)
MoveToReview(s, d) ==
    /\ disputes[d].status = "OPEN"
    /\ Begin(s, [Idle EXCEPT !.pc = "record", !.cmd = "review", !.id = d])

Close(s, d) ==
    /\ disputes[d].status \in {"ACCEPTED", "REJECTED"}
    /\ Begin(s, [Idle EXCEPT !.pc = "record", !.cmd = "close", !.id = d])

-----------------------------------------------------------------------------
(* apply_posting                                                           *)

(* The lines of a posting: from is debited, to is credited.                *)
Source(j) ==
    CASE j.part \in {"refund", "reversal"} /\ j.closed -> "adjustment"
      [] j.part = "release"                            -> "reserve"
      [] j.part \in {"refund", "fee"} /\ j.hold        -> "reserve"
      [] OTHER                                         -> "payable"

Target(j) ==
    CASE j.part = "hold"    -> "reserve"
      [] j.part = "release" -> "payable"
      [] j.part = "fee"     -> "revenue"
      [] OTHER              -> "client"

Size(j) == IF j.part = "fee" THEN Fee ELSE j.amount

IsHold(part) == part \in {"hold", "release"}

(* apply_entry, e being the credit (positive) or debit of the line.        *)
Applied(b, part, e) ==
    IF IsHold(part)
    THEN [b EXCEPT !.hold = @ - e, !.available = @ + e]
    ELSE [b EXCEPT !.current = @ + e, !.available = b.current + e - b.hold]

(* What comes after the posting of a job.                                  *)
AfterPosting(j) ==
    IF j.cmd # "accept" THEN [j EXCEPT !.pc = "record", !.step = 1]
    ELSE IF j.part = "refund" /\ j.hold THEN [j EXCEPT !.pc = "clear", !.step = 1]
    ELSE IF j.part = "refund" /\ Fee > 0
         THEN [j EXCEPT !.pc = "lookup", !.part = "fee", !.step = 1]
    ELSE [j EXCEPT !.pc = "record", !.step = 1]

(* existing_batch: a batch with the key is returned, nothing is committed. *)
LookupBatch(s) ==
    /\ job[s].pc = "lookup"
    /\ job' = [job EXCEPT ![s] = IF Posted(BatchKey(@)) THEN AfterPosting(@)
                                 ELSE [@ EXCEPT !.pc = "post"]]
    /\ UNCHANGED <<rows, books, held, mine, history>>

(* Mutant: the balances are read without FOR UPDATE.                       *)
NeverHeld(s, a) == TRUE

(* SELECT ... FOR UPDATE gets the balance.                                 *)
Free(s, a) == \A t \in Sessions \ {s} : a \notin held[t]

View(s, a) == IF a \in held[s] THEN mine[s][a] ELSE bal[a]

NextAccount(j) == IF j.step = 1 THEN Source(j) ELSE Target(j)

PostLine(s) ==
    LET j == job[s]
        a == NextAccount(j)
        e == IF j.step = 1 THEN -Size(j) ELSE Size(j) IN
    /\ j.pc = "post" /\ j.step <= 2
    /\ Free(s, a)
    /\ held' = [held EXCEPT ![s] = @ \cup {a}]
    /\ mine' = [mine EXCEPT ![s][a] = Applied(View(s, a), j.part, e)]
    /\ job' = [job EXCEPT ![s].step = @ + 1]
    /\ UNCHANGED <<rows, books, history>>

(* The balances s holds, as its commit leaves them.                        *)
Flushed(s) == [a \in Accounts |-> View(s, a)]

Release(s) ==
    /\ held' = [held EXCEPT ![s] = {}]
    /\ mine' = [mine EXCEPT ![s] = [a \in Accounts |-> Zero]]

(* Mutant: the dispute keeps its hold.                                     *)
DecidedOnHold(j, status) == [disputes EXCEPT ![j.id].status = status]

(* The dispute as accept or reject leaves it: hold_placed is written only  *)
(* if the command has found it set.                                        *)
Decided(j, status) ==
    [disputes EXCEPT ![j.id].status = status, ![j.id].hold = @ /\ ~j.hold]

(* Rows of the command that the commit of its posting stores as well.      *)
StoreWithPosting(j) ==
    /\ refunds' = IF j.cmd = "refund"
                  THEN [refunds EXCEPT ![j.key] = [status |-> "REQUESTED",
                                                   amount |-> j.amount, closed |-> j.closed]]
                  ELSE refunds
    /\ reversals' = IF j.cmd = "reversal"
                    THEN [reversals EXCEPT ![j.key] = [status |-> "REQUESTED",
                                                       amount |-> j.amount, closed |-> j.closed]]
                    ELSE reversals
    /\ disputes' = CASE j.cmd = "open" ->
                          [disputes EXCEPT ![j.id] = [NoDispute EXCEPT !.status = "OPEN",
                                                                       !.amount = j.amount]]
                     [] j.part = "fee" -> Decided(j, "ACCEPTED")
                     [] OTHER -> disputes
    /\ UNCHANGED <<refunded, adjustments>>

Collides(s) == Posted(BatchKey(job[s]))

CommitPosting(s) ==
    LET j == job[s] IN
    /\ j.pc = "post" /\ j.step = 3
    /\ ~Collides(s)
    /\ batches' = batches \cup {[copy |-> Posted(BatchKey(j)), key |-> BatchKey(j),
                                 subject |-> Subject(j), part |-> j.part, from |-> Source(j),
                                 to |-> Target(j), amount |-> Size(j)]}
    /\ bal' = Flushed(s)
    /\ StoreWithPosting(j)
    /\ Release(s)
    /\ job' = [job EXCEPT ![s] = AfterPosting(j)]
    /\ UNCHANGED history

-----------------------------------------------------------------------------
(* accept: _clear_holds reads the balances without a lock; they are written*)
(* with the next flush.  Only changed columns are written.                 *)

ReadHolds(s) ==
    /\ job[s].pc = "clear"
    /\ Goto(s, "flush")
    /\ mine' = [mine EXCEPT ![s] = [a \in Accounts |->
                   IF a \in {"payable", "reserve"} THEN bal[a] ELSE Zero]]
    /\ UNCHANGED <<rows, books, held, history>>

Cleared(now, copy) ==
    [now EXCEPT !.hold = IF copy.hold = 0 THEN @ ELSE 0,
                !.available = IF copy.available = copy.current THEN @ ELSE copy.current]

FlushHolds(s) ==
    LET copy == mine[s] IN
    /\ job[s].pc = "flush"
    /\ \A a \in {"payable", "reserve"} : Free(s, a)
    /\ held' = [held EXCEPT ![s] = {"payable", "reserve"}]
    /\ mine' = [mine EXCEPT ![s] = [a \in Accounts |->
                   IF a \in {"payable", "reserve"} THEN Cleared(bal[a], copy[a]) ELSE Zero]]
    /\ job' = [job EXCEPT ![s].pc = IF Fee > 0 THEN "lookup" ELSE "record",
                          ![s].part = IF Fee > 0 THEN "fee" ELSE @]
    /\ smeared' = (smeared \/ \E a \in {"payable", "reserve"} : bal[a] # copy[a])
    /\ wiped' = (wiped \/ bal["payable"].hold # job[s].amount)
    /\ UNCHANGED <<rows, books, begun, raced, lost>>

-----------------------------------------------------------------------------
(* The second transaction.                                                 *)

AdjustmentOf(j) == IF j.closed THEN {<<j.cmd, j.id, j.key>>} ELSE {}

(* The dispute is inserted with the posting of its hold, or now if it has  *)
(* none; a hold found under the key of an earlier call posts nothing.      *)
Opened(d, j) ==
    IF d = NoDispute
    THEN [status |-> "OPEN", amount |-> j.amount, hold |-> j.hold,
          holdKey |-> IF j.hold THEN j.key ELSE NoId]
    ELSE [d EXCEPT !.hold = TRUE, !.holdKey = j.key]

(* mark_posted, set_hold, set_status ... and the final commit.             *)
Record(s) ==
    LET j == job[s] IN
    /\ j.pc = "record"
    /\ refunds' = IF j.cmd = "refund" THEN [refunds EXCEPT ![j.key].status = "POSTED"]
                  ELSE refunds
    /\ refunded' = IF j.cmd = "refund" THEN j.seen + j.amount ELSE refunded
    /\ reversals' = IF j.cmd = "reversal" THEN [reversals EXCEPT ![j.key].status = "POSTED"]
                    ELSE reversals
    /\ disputes' = CASE j.cmd = "open" -> [disputes EXCEPT ![j.id] = Opened(@, j)]
                     [] j.cmd = "accept" -> Decided(j, "ACCEPTED")
                     [] j.cmd = "reject" -> Decided(j, "REJECTED")
                     [] j.cmd = "review" -> [disputes EXCEPT ![j.id].status = "UNDER_REVIEW"]
                     [] j.cmd = "close" -> [disputes EXCEPT ![j.id].status = "CLOSED"]
                     [] OTHER -> disputes
    /\ adjustments' = adjustments \cup AdjustmentOf(j)
    /\ bal' = Flushed(s)
    /\ Release(s)
    /\ job' = [job EXCEPT ![s] = Idle]
    /\ UNCHANGED <<batches, history>>

(* Something of the command is committed and not all of it.                *)
HalfDone(j) ==
    \/ j.pc \in {"clear", "flush"}
    \/ j.pc = "record" /\ (j.cmd \in {"refund", "reversal", "accept"} \/ j.hold)
    \/ j.part = "fee"

(* An exception (a key that collides, a deadlock) or a crash: the          *)
(* transaction in progress is rolled back and the request is over.         *)
Abort(s) ==
    /\ job[s] # Idle
    /\ job' = [job EXCEPT ![s] = Idle]
    /\ Release(s)
    /\ lost' = IF HalfDone(job[s]) THEN lost \cup {Subject(job[s])} ELSE lost
    /\ UNCHANGED <<rows, books, begun, raced, smeared, wiped>>

(* Mutant: nobody ends a deadlock.                                         *)
NoDeadlockTimeout(s, t) == FALSE

(* s waits for a balance t holds.                                          *)
WaitsFor(s, t) ==
    /\ s # t
    /\ job[s].pc = "post" /\ job[s].step <= 2
    /\ NextAccount(job[s]) \in held[t]

(* PostgreSQL ends a transaction that waits in a circle, e.g. a hold       *)
(* (payable, reserve) and a release (reserve, payable).                    *)
BreakDeadlock(s) ==
    /\ \E t \in Sessions : WaitsFor(s, t) /\ WaitsFor(t, s)
    /\ Abort(s)

FailCollision(s) ==
    /\ job[s].pc = "post" /\ job[s].step = 3
    /\ Collides(s)
    /\ Abort(s)

-----------------------------------------------------------------------------
Start(s) ==
    \/ \E k \in RefundKeys, n \in Amounts, c \in Closed : RequestRefund(s, k, n, c)
    \/ \E k \in ReversalKeys, c \in Closed : ReverseCapture(s, k, c)
    \/ Replay(s)
    \/ \E d \in Disputes, k \in OpenKeys, n \in Amounts, h \in BOOLEAN :
          OpenDispute(s, d, k, n, h)
    \/ \E d \in Disputes, k \in DecisionKeys :
          Reject(s, d, k) \/ \E c \in Closed : Accept(s, d, k, c)
    \/ \E d \in Disputes : MoveToReview(s, d) \/ Close(s, d)

Continue(s) ==
    \/ InsertRequest(s) \/ LookupBatch(s) \/ PostLine(s) \/ CommitPosting(s)
    \/ FailCollision(s) \/ ReadHolds(s) \/ FlushHolds(s) \/ Record(s)

(* Bound: no command is left and none is in progress.                      *)
Exhausted ==
    /\ begun = MaxCommands /\ \A s \in Sessions : job[s] = Idle
    /\ UNCHANGED vars

Next == Exhausted \/ \E s \in Sessions : Start(s) \/ Continue(s) \/ BreakDeadlock(s) \/ Abort(s)

Spec == Init /\ [][Next]_vars

(* A command that has begun goes on, and a deadlock is broken.             *)
FairSpec == Spec /\ \A s \in Sessions : WF_vars(Continue(s)) /\ WF_vars(BreakDeadlock(s))

-----------------------------------------------------------------------------
(* Properties.                                                             *)

Commands == {"none", "refund", "reversal", "open", "accept", "reject", "review", "close"}
Parts == {"none", "refund", "reversal", "hold", "release", "fee"}
Ids == RefundKeys \cup ReversalKeys \cup OpenKeys \cup DecisionKeys \cup Disputes \cup {NoId}
Balance == [current : Int, hold : Int, available : Int]
Request == [status : {"none", "REQUESTED", "POSTED"}, amount : Nat, closed : BOOLEAN]
Dispute == [status : {"none", "OPEN", "UNDER_REVIEW", "ACCEPTED", "REJECTED", "CLOSED"},
            amount : Nat, hold : BOOLEAN, holdKey : Ids]
Batch == [copy : BOOLEAN, key : Commands \X Ids \X Ids \X Parts,
          subject : Ids \cup {"refund", "reversal"}, part : Parts,
          from : Accounts, to : Accounts, amount : Nat]
Job == [pc : {"idle", "insert", "lookup", "post", "clear", "flush", "record"},
        cmd : Commands, part : Parts, id : Ids, key : Ids, amount : Nat,
        closed : BOOLEAN, hold : BOOLEAN, seen : Nat, step : 1..3]

(* Types; only a session that works holds balances.                        *)
TypeOK ==
    /\ refunds \in [RefundKeys -> Request]
    /\ reversals \in [ReversalKeys -> Request]
    /\ disputes \in [Disputes -> Dispute]
    /\ refunded \in Nat /\ begun \in Nat
    /\ adjustments \subseteq Commands \X Ids \X Ids
    /\ batches \subseteq Batch
    /\ bal \in [Accounts -> Balance]
    /\ job \in [Sessions -> Job]
    /\ held \in [Sessions -> SUBSET Accounts]
    /\ mine \in [Sessions -> [Accounts -> Balance]]
    /\ \A s \in Sessions : job[s] = Idle => held[s] = {}
    /\ raced \subseteq Ids \cup {"refund", "reversal"}
    /\ lost \subseteq Ids \cup {"refund", "reversal"}
    /\ smeared \in BOOLEAN /\ wiped \in BOOLEAN

AmountOf(S) == SumOf([b \in S |-> b.amount], S)

Money == {b \in batches : ~IsHold(b.part)}

(* The current balance of every account is the sum of its entries, however *)
(* postings race, deadlock and are repeated: BalanceService locks the row  *)
(* from the first read to the commit.                                      *)
CurrentMatchesEntries ==
    \A a \in Accounts :
        bal[a].current = AmountOf({b \in Money : b.to = a}) - AmountOf({b \in Money : b.from = a})

(* A command that is repeated with its key, after a crash or at the same   *)
(* time, posts once.                                                       *)
OneBatchPerKey == \A b, c \in batches : b.key = c.key => b = c

(* What is reported as done is in the ledger: a POSTED refund or reversal  *)
(* and an accepted dispute have a posting of their amount, and in a closed *)
(* period an adjustment as well.                                           *)
DoneIsPosted ==
    /\ \A k \in RefundKeys : refunds[k].status = "POSTED" =>
          /\ \E b \in batches : b.subject = "refund" /\ b.key[3] = k /\ b.amount = refunds[k].amount
          /\ refunds[k].closed => <<"refund", NoId, k>> \in adjustments
    /\ \A k \in ReversalKeys : reversals[k].status = "POSTED" =>
          /\ \E b \in batches : b.subject = "reversal" /\ b.key[3] = k
          /\ reversals[k].closed => <<"reversal", NoId, k>> \in adjustments
    /\ \A d \in Disputes : disputes[d].status = "ACCEPTED" =>
          \E b \in batches : b.subject = d /\ b.part = "refund" /\ b.amount = disputes[d].amount

(* Refunds exceed the captured amount only after two refunds were in       *)
(* progress at once or one was lost between its two commits.               *)
RefundsWithinCaptured ==
    "refund" \in raced \cup lost \/ AmountOf({b \in batches : b.subject = "refund"}) <= Captured

(* Likewise a dispute is paid twice, or paid and rejected, only then.      *)
DisputePaidOnce ==
    \A d \in Disputes \ (raced \cup lost) :
        LET paid == {b \in batches : b.subject = d /\ b.part = "refund"} IN
        /\ Cardinality(paid) <= 1
        /\ disputes[d].status = "REJECTED" => paid = {}

(* The available balance is the current one less the holds, unless an      *)
(* accept cleared the holds of a balance that had changed since it read it.*)
AvailableExcludesHolds ==
    smeared \/ \A a \in Accounts : bal[a].available = bal[a].current - bal[a].hold

Holding == {d \in Disputes : disputes[d].hold}

(* Between commands the holds are those of the disputes that have one. The *)
(* exceptions: an accept clears the holds of all disputes of the account;  *)
(* lost and racing commands; a dispute opened twice with one key.          *)
HoldsMatchDisputes ==
    \/ wiped \/ raced # {} \/ lost # {}
    \/ \E c, d \in Disputes : c # d /\ disputes[c].holdKey = disputes[d].holdKey
                             /\ disputes[c].holdKey # NoId
    \/ \E s \in Sessions : job[s] # Idle
    \/ bal["payable"].hold = SumOf([d \in Disputes |-> disputes[d].amount], Holding)

(* What is in the ledger is what the commands have done, each once,        *)
(* whatever crashes between its commits and is repeated.                   *)
LedgerTellsWhatWasDone ==
    TypeOK /\ CurrentMatchesEntries /\ OneBatchPerKey /\ DoneIsPosted

(* No more is paid than was captured or disputed, unless commands overlap  *)
(* or are lost between their commits.                                      *)
NothingPaidTwice == RefundsWithinCaptured /\ DisputePaidOnce

(* Holds and available balances agree with the disputes, but for what      *)
(* _clear_holds does to the disputes and postings of others.               *)
HoldsAreExact == AvailableExcludesHolds /\ HoldsMatchDisputes

(* Every command ends, also when a hold and a release wait for each other. *)
CommandEnds == \A s \in Sessions : job[s] # Idle ~> job[s] = Idle
=============================================================================
