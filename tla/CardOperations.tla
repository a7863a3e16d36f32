--------------------------- MODULE CardOperations ---------------------------
(***************************************************************************)
(* Card operations: the two services that write the table operations.      *)
(* app/services/transactions_service.py authorises, commits, reverses and  *)
(* refunds without locking a row, and posts an operation in a transaction  *)
(* of its own after the one that inserted it.  app/services/transactions.py*)
(* captures, refunds captures and reverses under SELECT ... FOR UPDATE.    *)
(* post_entry of app/repositories/ledger_repository.py keeps the balances. *)
(*                                                                         *)
(* A row is named by its operation id; a session is one request.  A request*)
(* that is refused changes nothing and is a disabled action.  There is one *)
(* client, one merchant and one currency, and their accounts exist.        *)
(***************************************************************************)
EXTENDS Sums

CONSTANTS Sessions,
          Ext,        \* ext_operation_id of authorisations
          Children,   \* ids of captures, refunds and reversals (uuid4)
          Amount,     \* amount of every authorisation
          Parts,      \* amounts of commits, captures and refunds
          Limit,      \* value of the contractual limit
          NoRow

ASSUME AmountsArePositive ==
    /\ Amount \in Nat \ {0}
    /\ Parts \subseteq Nat \ {0}
    /\ Limit \in Nat

(* An id from uuid4 is never the ext_operation_id of a client.             *)
ASSUME IdsAreDistinct == NoRow \notin Ext \cup Children /\ Ext \cap Children = {}

(* Bound: the requests and the operations are finitely many.               *)
ASSUME FinitelyMany == IsFiniteSet(Sessions) /\ IsFiniteSet(Ext) /\ IsFiniteSet(Children)

Accounts == {"client", "merchant"}
Rows == Ext \cup Children

VARIABLES
    row,        \* row[r]: the committed row, Absent before its insert
    entries,    \* committed ledger_entries
    balance,    \* balance[a]: committed account_balances.current_balance
    req,        \* req[s]: the request of session s
    got,        \* got[s]: balance post_entry has read, for its account
    written,    \* written[s]: entries and balances flushed by s
    contended,  \* history: rows two requests have worked on at once
    overlapped, \* history: accounts two postings have worked on at once
    rushed,     \* history: two authorisations have been checked at once
    lost        \* history: rows whose request ended without its posting

vars == <<row, entries, balance, req, got, written, contended, overlapped,
          rushed, lost>>
history == <<contended, overlapped, rushed, lost>>
books == <<entries, balance, got, written>>

(* A new row; a row of refund_operation is settled and refunded in full.   *)
NewRow(type, status, n, paid, p) ==
    [type |-> type, status |-> status, amount |-> n, settled |-> paid,
     captured |-> 0, refunded |-> paid, parent |-> p]

Absent == NewRow("none", "none", 0, 0, NoRow)

Exists(r) == row[r].type # "none"

Idle == [pc |-> "idle", row |-> NoRow, amount |-> 0, seen |-> Absent]

NothingRead == [account |-> "none", value |-> 0]

Init ==
    /\ row = [r \in Rows |-> Absent]
    /\ entries = {}
    /\ balance = [a \in Accounts |-> 0]
    /\ req = [s \in Sessions |-> Idle]
    /\ got = [s \in Sessions |-> NothingRead]
    /\ written = [s \in Sessions |-> {}]
    /\ contended = {} /\ overlapped = {} /\ rushed = FALSE /\ lost = {}

-----------------------------------------------------------------------------
(* Requests and rows.                                                      *)

Busy(r) == {s \in Sessions : req[s].row = r}

(* s begins to work on row r.                                              *)
Begin(s, pc, r, n) ==
    /\ req[s] = Idle
    /\ req' = [req EXCEPT ![s] = [pc |-> pc, row |-> r, amount |-> n,
                                  seen |-> row[r]]]
    /\ contended' = IF Busy(r) = {} THEN contended ELSE contended \cup {r}

Goto(s, pc) == req' = [req EXCEPT ![s].pc = pc]

Finish(s) == req' = [req EXCEPT ![s] = Idle]

SumOfRows(S) == SumOf([r \in Rows |-> row[r].amount], S)

Of(type, p) == {r \in Children : row[r].type = type /\ row[r].parent = p}

(* uuid4(): an id that is not in use; which one does not matter.           *)
NewId == CHOOSE c \in Children : ~Exists(c)

(* Bound: no request that inserts a child begins without an id for it.     *)
IdIsLeft ==
    Cardinality({t \in Sessions : req[t].pc \in {"refund", "locked"}})
        < Cardinality({c \in Children : ~Exists(c)})

(* Mutant: with_for_update() is forgotten.                                 *)
NeverLocked(r) == TRUE

(* Nobody holds the row FOR UPDATE: an UPDATE waits for it.                *)
RowFree(r) == \A s \in Sessions : ~(req[s].pc = "locked" /\ req[s].row = r)

-----------------------------------------------------------------------------
(* authorize_operation                                                     *)

SUCCESS_STATUSES == {"AUTHORIZED", "COMPLETED"}

(* _usage_value of a contractual limit.                                    *)
Usage == SumOfRows({r \in Rows : row[r].status \in SUCCESS_STATUSES})

Checked(s) == req[s].pc = "insert" /\ req[s].seen.status = "AUTHORIZED"

(* check_contractual_limits with one limit.                                *)
WithinContract == Usage + Amount <= Limit

(* References, decision engine, rules, limits and risk may decline for     *)
(* reasons of their own.                                                   *)
Verdicts == {"AUTHORIZED", "DECLINED"}

(* The checks; the last one reads the operations.                          *)
AuthorizeChecks(s, x) ==
    /\ ~Exists(x)
    /\ req[s] = Idle
    /\ \E status \in Verdicts :
          /\ status = "AUTHORIZED" => WithinContract
          /\ req' = [req EXCEPT ![s] =
                      [pc |-> "insert", row |-> x, amount |-> Amount,
                       seen |-> NewRow("none", status, 0, 0, NoRow)]]
    /\ contended' = IF Busy(x) = {} THEN contended ELSE contended \cup {x}
    /\ rushed' = (rushed \/ \E t \in Sessions : Checked(t))
    /\ UNCHANGED <<row, books, overlapped, lost>>

(* The same id again: the row is returned.                                 *)
AuthorizeReplay(s, x) ==
    /\ Exists(x) /\ req[s] = Idle
    /\ UNCHANGED vars

(* The insert, committed before anything is posted.                        *)
InsertOperation(s) ==
    LET x == req[s].row IN
    /\ Checked(s)
    /\ ~Exists(x)
    /\ row' = [row EXCEPT ![x] = NewRow("AUTH", "AUTHORIZED", Amount, 0, NoRow)]
    /\ Goto(s, "refresh")
    /\ UNCHANGED <<books, history>>

DeclineOperation(s) ==
    LET x == req[s].row IN
    /\ req[s].pc = "insert" /\ ~Checked(s)
    /\ ~Exists(x)
    /\ row' = [row EXCEPT ![x] = NewRow("DECLINE", "DECLINED", Amount, 0, NoRow)]
    /\ Finish(s)
    /\ UNCHANGED <<books, history>>

(* operations.operation_id is unique.                                      *)
InsertCollides(s) ==
    /\ req[s].pc = "insert"
    /\ Exists(req[s].row)
    /\ Finish(s)
    /\ UNCHANGED <<row, books, history>>

(* db.refresh: the row may have changed since the commit.                  *)
RefreshOperation(s) ==
    /\ req[s].pc = "refresh"
    /\ req' = [req EXCEPT ![s].pc = "post", ![s].seen = row[req[s].row]]
    /\ UNCHANGED <<row, books, history>>

-----------------------------------------------------------------------------
(* _perform_posting and _perform_refund_posting: two calls of post_entry   *)
(* and one commit.                                                         *)

IsRefund(s) == row[req[s].row].type = "REFUND"

(* The accounts in the order they are posted; the first is debited.        *)
Order(s) == IF IsRefund(s) THEN <<"merchant", "client">>
            ELSE <<"client", "merchant">>

NextAccount(s) == Order(s)[Cardinality(written[s]) + 1]

Posting(s) == req[s].pc = "post" /\ Cardinality(written[s]) < 2

ReadBalance(s) ==
    /\ Posting(s)
    /\ got[s] = NothingRead
    /\ got' = [got EXCEPT ![s] = [account |-> NextAccount(s),
                                  value   |-> balance[NextAccount(s)]]]
    /\ overlapped' =
          IF \E t \in Sessions \ {s} :
                \/ got[t].account = NextAccount(s)
                \/ \E w \in written[t] : w.account = NextAccount(s)
          THEN overlapped \cup {NextAccount(s)} ELSE overlapped
    /\ UNCHANGED <<row, entries, balance, req, written, contended, rushed, lost>>

(* Another session has flushed its new balance of the account.             *)
Holder(s) == {t \in Sessions \ {s} : \E w \in written[t] : w.account = got[s].account}

(* Signed effect of the n-th entry.                                        *)
Effect(s, n) == IF n = 1 THEN -req[s].amount ELSE req[s].amount

(* The entry is inserted and the balance updated; the row of the balance   *)
(* is locked by the UPDATE until the end of the transaction.               *)
WriteBalance(s) ==
    LET e == Effect(s, Cardinality(written[s]) + 1) IN
    /\ got[s] # NothingRead
    /\ Holder(s) = {}
    /\ written' = [written EXCEPT ![s] = @ \cup
                     {[row |-> req[s].row, account |-> got[s].account,
                       amount |-> e, after |-> got[s].value + e]}]
    /\ got' = [got EXCEPT ![s] = NothingRead]
    /\ UNCHANGED <<row, entries, balance, req, history>>

(* Commit and rollback both end the transaction.                           *)
Drop(s) ==
    /\ got' = [got EXCEPT ![s] = NothingRead]
    /\ written' = [written EXCEPT ![s] = {}]

EntryOf(w) == [row |-> w.row, account |-> w.account, amount |-> w.amount]

(* operation.status = POSTED is no change of an AUTHORIZED operation; it   *)
(* is written only if the copy of the session says something else.         *)
StatusAfterPosting(s) ==
    IF ~IsRefund(s) /\ req[s].seen.status # "AUTHORIZED" THEN "AUTHORIZED"
    ELSE row[req[s].row].status

(* Mutant: sync_balance is off for the credit.                             *)
DebitSynced(s) ==
    [a \in Accounts |->
       IF a = Order(s)[1] THEN (CHOOSE w \in written[s] : w.account = a).after
       ELSE balance[a]]

(* The balances s has flushed.                                             *)
Synced(s) ==
    [a \in Accounts |->
       IF \E w \in written[s] : w.account = a
       THEN (CHOOSE w \in written[s] : w.account = a).after
       ELSE balance[a]]

(* The commit.  An exception after it (refresh) is handled like a failure  *)
(* of the posting, but only in authorize_operation.                        *)
CommitPosting(s) ==
    LET r == req[s].row IN
    /\ req[s].pc = "post"
    /\ Cardinality(written[s]) = 2
    /\ RowFree(r)
    /\ entries' = entries \cup {EntryOf(w) : w \in written[s]}
    /\ balance' = Synced(s)
    /\ row' = [row EXCEPT ![r].status = StatusAfterPosting(s)]
    /\ Finish(s) \/ (~IsRefund(s) /\ Goto(s, "failed"))
    /\ Drop(s)
    /\ UNCHANGED history

(* An exception before the commit; one of two sessions that wait for each  *)
(* other's account (an authorisation debits the client first, a refund the *)
(* merchant) gets one from PostgreSQL.  authorize_operation catches it,    *)
(* refund_operation does not.                                              *)
PostingFails(s) ==
    /\ req[s].pc = "post"
    /\ IF IsRefund(s) THEN Finish(s) /\ lost' = lost \cup {req[s].row}
                      ELSE Goto(s, "failed") /\ UNCHANGED lost
    /\ Drop(s)
    /\ UNCHANGED <<row, entries, balance, contended, overlapped, rushed>>

(* Mutant: the operation whose posting failed keeps its status.            *)
FailureIsLogged(s) ==
    /\ req[s].pc = "failed"
    /\ Finish(s)
    /\ UNCHANGED <<row, books, history>>

DeclineFailed(s) ==
    /\ req[s].pc = "failed"
    /\ RowFree(req[s].row)
    /\ row' = [row EXCEPT ![req[s].row].status = "DECLINED"]
    /\ Finish(s)
    /\ UNCHANGED <<books, history>>

-----------------------------------------------------------------------------
(* commit_operation, reverse_operation, refund_operation: read and check,  *)
(* then write, without a lock.                                             *)

CommitChecks(s, o, n) ==
    /\ row[o].status = "AUTHORIZED"
    /\ n <= row[o].amount
    /\ Begin(s, "commit", o, n)
    /\ UNCHANGED <<row, books, overlapped, rushed, lost>>

CommitOperation(s) ==
    LET o == req[s].row IN
    /\ req[s].pc = "commit"
    /\ RowFree(o)
    /\ row' = [row EXCEPT ![o].status = "COMPLETED", ![o].settled = req[s].amount]
    /\ Finish(s)
    /\ UNCHANGED <<books, history>>

ReverseChecks(s, o) ==
    /\ row[o].status = "AUTHORIZED"
    /\ Begin(s, "reverse", o, 0)
    /\ UNCHANGED <<row, books, overlapped, rushed, lost>>

ReverseOperation(s) ==
    LET o == req[s].row IN
    /\ req[s].pc = "reverse"
    /\ RowFree(o)
    /\ row' = [row EXCEPT ![o].status = "REVERSED", ![o].type = "REVERSE"]
    /\ Finish(s)
    /\ UNCHANGED <<books, history>>

(* amount_settled or amount                                                *)
Refundable(p) == IF row[p].settled = 0 THEN row[p].amount ELSE row[p].settled

RefundFits(p, n) == SumOfRows(Of("REFUND", p)) + n <= Refundable(p)

RefundChecks(s, p, n) ==
    /\ row[p].status = "COMPLETED"
    /\ RefundFits(p, n)
    /\ IdIsLeft
    /\ Begin(s, "refund", p, n)
    /\ UNCHANGED <<row, books, overlapped, rushed, lost>>

(* The refund is committed as REFUNDED, then posted under its own id.      *)
InsertRefund(s) ==
    LET c == NewId  n == req[s].amount IN
    /\ req[s].pc = "refund"
    /\ row' = [row EXCEPT ![c] = NewRow("REFUND", "REFUNDED", n, n, req[s].row)]
    /\ req' = [req EXCEPT ![s].pc = "post", ![s].row = c, ![s].seen = row'[c]]
    /\ UNCHANGED <<books, history>>

-----------------------------------------------------------------------------
(* transactions.py: _get_operation_or_error locks the row; the checks read *)
(* what it returns.                                                        *)

Lock(s, r, n) ==
    /\ RowFree(r)
    /\ IdIsLeft
    /\ Begin(s, "locked", r, n)
    /\ UNCHANGED <<row, books, overlapped, rushed, lost>>

LockForCapture(s, o, n) ==
    /\ row[o].type = "AUTH"
    /\ row[o].status \in {"AUTHORIZED", "CAPTURED"}
    /\ n <= row[o].amount - row[o].captured
    /\ Lock(s, o, n)

(* Both rows are written from the copy that was locked.                    *)
CaptureOperation(s) ==
    LET c == NewId  o == req[s].row  seen == req[s].seen  sum == seen.captured + req[s].amount IN
    /\ req[s].pc = "locked" /\ req[s].amount > 0 /\ seen.type = "AUTH"
    /\ row' = [row EXCEPT
                ![c] = NewRow("CAPTURE", "CAPTURED", req[s].amount, 0, o),
                ![o].captured = sum,
                ![o].status = IF sum >= seen.amount THEN "CAPTURED" ELSE "AUTHORIZED"]
    /\ Finish(s)
    /\ UNCHANGED <<books, history>>

LockForRefund(s, c, n) ==
    /\ row[c].type = "CAPTURE"
    /\ row[c].status \in {"CAPTURED", "REFUNDED"}
    /\ n <= row[c].amount - row[c].refunded
    /\ Lock(s, c, n)

RefundCapture(s) ==
    LET c == NewId  o == req[s].row  seen == req[s].seen  sum == seen.refunded + req[s].amount IN
    /\ req[s].pc = "locked" /\ seen.type = "CAPTURE"
    /\ row' = [row EXCEPT
                ![c] = NewRow("REFUND", "REFUNDED", req[s].amount, 0, o),
                ![o].refunded = sum,
                ![o].status = IF sum >= seen.amount THEN "REFUNDED" ELSE "CAPTURED"]
    /\ Finish(s)
    /\ UNCHANGED <<books, history>>

(* reverse_auth looks at the captures, not at the status.                  *)
LockForReversal(s, o) ==
    /\ row[o].type = "AUTH"
    /\ Lock(s, o, 0)

ReverseAuth(s) ==
    LET c == NewId  o == req[s].row IN
    /\ req[s].pc = "locked" /\ req[s].amount = 0
    /\ Of("CAPTURE", o) = {}
    /\ row' = [row EXCEPT
                ![c] = NewRow("REVERSAL", "REVERSED", req[s].seen.amount, 0, o),
                ![o].status = "REVERSED"]
    /\ Finish(s)
    /\ UNCHANGED <<books, history>>

ReverseAuthRefused(s) ==
    /\ req[s].pc = "locked" /\ req[s].amount = 0
    /\ Of("CAPTURE", req[s].row) # {}
    /\ Finish(s)
    /\ UNCHANGED <<row, books, history>>

-----------------------------------------------------------------------------
(* The process dies or the connection is lost: what s has not committed is *)
(* rolled back.                                                            *)
Crash(s) ==
    /\ req[s] # Idle
    /\ Finish(s)
    /\ Drop(s)
    /\ lost' = IF req[s].pc \in {"refresh", "post", "failed"}
               THEN lost \cup {req[s].row} ELSE lost
    /\ UNCHANGED <<row, entries, balance, contended, overlapped, rushed>>

Start(s) ==
    \/ \E x \in Ext : AuthorizeReplay(s, x) \/ AuthorizeChecks(s, x)
    \/ \E x \in Ext : ReverseChecks(s, x) \/ LockForReversal(s, x)
    \/ \E x \in Ext, n \in Parts :
          CommitChecks(s, x, n) \/ RefundChecks(s, x, n) \/ LockForCapture(s, x, n)
    \/ \E c \in Children, n \in Parts : LockForRefund(s, c, n)

Continue(s) ==
    \/ InsertOperation(s) \/ DeclineOperation(s) \/ InsertCollides(s) \/ RefreshOperation(s)
    \/ ReadBalance(s) \/ WriteBalance(s) \/ CommitPosting(s) \/ DeclineFailed(s)
    \/ CommitOperation(s) \/ ReverseOperation(s) \/ ReverseAuthRefused(s)
    \/ InsertRefund(s) \/ CaptureOperation(s) \/ RefundCapture(s) \/ ReverseAuth(s)

Next == \E s \in Sessions :
    Start(s) \/ Continue(s) \/ PostingFails(s) \/ Crash(s)

Spec == Init /\ [][Next]_vars

-----------------------------------------------------------------------------
(* Properties.                                                             *)

Types == {"none", "AUTH", "DECLINE", "REVERSE", "CAPTURE", "REFUND", "REVERSAL"}
Statuses == {"none", "AUTHORIZED", "COMPLETED", "CAPTURED", "REVERSED",
             "REFUNDED", "DECLINED"}
RowType == [type : Types, status : Statuses, amount : Nat, settled : Nat,
            captured : Nat, refunded : Nat, parent : Rows \cup {NoRow}]

(* Types; a session that is not posting holds no balance.                  *)
TypeOK ==
    /\ row \in [Rows -> RowType]
    /\ entries \subseteq [row : Rows, account : Accounts, amount : Int]
    /\ balance \in [Accounts -> Int]
    /\ req \in [Sessions -> [pc : {"idle", "insert", "refresh", "post", "failed",
                                   "commit", "reverse", "refund", "locked"},
                             row : Rows \cup {NoRow}, amount : Nat, seen : RowType]]
    /\ got \in [Sessions -> [account : Accounts \cup {"none"}, value : Int]]
    /\ written \in [Sessions -> SUBSET [row : Rows, account : Accounts, amount : Int, after : Int]]
    /\ \A s \in Sessions : req[s].pc # "post" => written[s] = {} /\ got[s] = NothingRead
    /\ contended \subseteq Rows /\ overlapped \subseteq Accounts
    /\ rushed \in BOOLEAN /\ lost \subseteq Rows

EntriesOf(r) == {e \in entries : e.row = r}

(* A row has no ledger entries or one debit and one credit of its amount,  *)
(* for authorisations from the client to the merchant and for refunds back,*)
(* although the two calls of post_entry may be interrupted, fail, deadlock *)
(* and race.                                                               *)
PostingsAreWhole ==
    \A r \in Rows :
        LET n == IF row[r].type = "REFUND" THEN row[r].amount ELSE -row[r].amount IN
        \/ EntriesOf(r) = {}
        \/ EntriesOf(r) = {[row |-> r, account |-> "client", amount |-> n],
                          [row |-> r, account |-> "merchant", amount |-> -n]}

(* The balance of an account is the sum of its entries as long as no two   *)
(* postings have worked on it at once: crashes, failures and rollbacks do  *)
(* not disturb it, only the update without a lock does.                    *)
BalanceIsSum ==
    \A a \in Accounts \ overlapped :
        balance[a] = SumOf([e \in entries |-> e.amount], {e \in entries : e.account = a})

(* The refunds of an operation stay within what was settled, unless two    *)
(* requests have worked on it at once.                                     *)
RefundsWithinSettled ==
    \A p \in Ext \ contended : SumOfRows(Of("REFUND", p)) <= Refundable(p)

(* The contractual limit holds for the authorised and completed operations *)
(* unless two requests were in progress at once.                           *)
UsageWithinLimit ==
    ~rushed /\ contended = {} =>
        SumOfRows({x \in Ext : row[x].status \in {"AUTHORIZED", "COMPLETED"}}) <= Limit

(* captured_amount and refunded_amount are the sums of the captures and of *)
(* the refunds of a capture, and never exceed the amount, whatever other   *)
(* requests do meanwhile: these columns are written under the row lock.    *)
CapturesAddUp ==
    /\ \A o \in Ext :
          /\ row[o].captured = SumOfRows(Of("CAPTURE", o))
          /\ row[o].captured <= row[o].amount
    /\ \A c \in Children : row[c].type = "CAPTURE" =>
          /\ row[c].refunded = SumOfRows(Of("REFUND", c))
          /\ row[c].refunded <= row[c].amount

InPosting(r) == \E s \in Busy(r) : req[s].pc \in {"refresh", "post", "failed"}

(* An operation that counts as authorised, or a refund, without entries is *)
(* being posted, or its session was lost between the two commits, or other *)
(* requests worked on it before it was posted.                             *)
UnpostedIsLost ==
    \A r \in Rows \ (lost \cup contended) :
        /\ \/ row[r].status \in {"AUTHORIZED", "COMPLETED"}
           \/ row[r].type = "REFUND" /\ row[r].parent \in Ext
        /\ EntriesOf(r) = {}
        => InPosting(r)

(* Crashes, failures and deadlocks between the two commits of an operation *)
(* leave it posted in full or not at all, and without a posting only when  *)
(* its session was lost.                                                   *)
EveryOperationIsPosted == TypeOK /\ PostingsAreWhole /\ UnpostedIsLost

(* What was checked before a row was written holds afterwards: refunds,    *)
(* limits and captures are exceeded only where the code takes no lock and  *)
(* requests overlap, captures never.                                       *)
AmountsHold == RefundsWithinSettled /\ UsageWithinLimit /\ CapturesAddUp
=============================================================================
