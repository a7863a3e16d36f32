------------------------ MODULE CardOperationsProofs ------------------------
(***************************************************************************)
(* Proofs about CardOperations: for any number of requests, operations and *)
(* amounts, what is posted is posted in full, balances are the sums of     *)
(* their entries, and refunds, captures and the contractual limit hold,    *)
(* but for the races the history variables name.                           *)
(***************************************************************************)
EXTENDS CardOperations, SumsProofs

(* What the two services make of a row.                                    *)
RowFits(r) ==
    /\ ~Exists(r) => row[r] = Absent
    /\ r \in Ext =>
          /\ row[r].type \in {"none", "AUTH", "DECLINE", "REVERSE"}
          /\ Exists(r) => row[r].amount = Amount
          /\ row[r].type = "DECLINE" => row[r].status = "DECLINED"
          /\ row[r].status = "CAPTURED" => row[r].captured >= row[r].amount
    /\ r \in Children =>
          /\ row[r].type \in {"none", "CAPTURE", "REFUND", "REVERSAL"}
          /\ row[r].status \notin SUCCESS_STATUSES
          /\ Exists(r) => row[r].parent \in Rows /\ Exists(row[r].parent)

(* What a request may be in the middle of.                                 *)
ReqFits(s) ==
    LET q == req[s] IN
    /\ q.pc = "idle" => q.row = NoRow
    /\ q.pc = "insert" => q.row \in Ext
    /\ q.pc \in {"refresh", "failed", "commit", "reverse", "refund"} =>
          q.row \in Ext /\ row[q.row].type \in {"AUTH", "REVERSE"}
    /\ q.pc \in {"insert", "refresh"} => q.amount = Amount
    /\ q.pc \in {"refresh", "post"} =>
          /\ q.row \in Rows /\ q.amount = row[q.row].amount
          /\ row[q.row].type \in {"AUTH", "REVERSE", "REFUND"}
    /\ q.pc = "locked" =>
          /\ q.row \in Rows /\ q.seen = row[q.row]
          /\ row[q.row].type \in {"AUTH", "CAPTURE"}
          /\ row[q.row].type = "AUTH" /\ q.amount > 0 =>
                /\ row[q.row].status \in {"AUTHORIZED", "CAPTURED"}
                /\ q.amount <= row[q.row].amount - row[q.row].captured
          /\ row[q.row].type = "CAPTURE" =>
                q.amount > 0 /\ q.amount <= row[q.row].amount - row[q.row].refunded

LocksExclude ==
    \A s, t \in Sessions :
        req[s].pc = "locked" /\ req[t].pc = "locked" /\ req[s].row = req[t].row => s = t

Users == {t \in Sessions : req[t].pc \in {"refund", "locked"}}
Free == {c \in Children : ~Exists(c)}

(* There is an id for every request that will insert a child.              *)
IdsSuffice == Cardinality(Users) <= Cardinality(Free)

ShapeInv ==
    /\ TypeOK
    /\ \A r \in Rows : RowFits(r)
    /\ \A s \in Sessions : ReqFits(s)
    /\ LocksExclude /\ IdsSuffice

-----------------------------------------------------------------------------
Poster(s) == req[s].pc \in {"refresh", "post"}

(* A row is posted by one request, and has no entries before.              *)
PostersFit ==
    /\ \A s, t \in Sessions : Poster(s) /\ Poster(t) /\ req[s].row = req[t].row => s = t
    /\ \A s \in Sessions : Poster(s) => EntriesOf(req[s].row) = {}
    /\ \A r \in Rows : ~Exists(r) => EntriesOf(r) = {}

Flushed(s, n, v) ==
    [row |-> req[s].row, account |-> Order(s)[n], amount |-> Effect(s, n), after |-> v]

(* A request has flushed nothing, the debit, or the debit and the credit.  *)
WrittenFits(s) ==
    req[s].pc = "post" =>
        \/ written[s] = {} /\ got[s].account \in {"none", Order(s)[1]}
        \/ \E v \in Int : written[s] = {Flushed(s, 1, v)} /\ got[s].account \in {"none", Order(s)[2]}
        \/ \E v, u \in Int : written[s] = {Flushed(s, 1, v), Flushed(s, 2, u)} /\ got[s] = NothingRead

Works(s, a) == got[s].account = a \/ \E w \in written[s] : w.account = a

(* Nobody but the one request that works on an account moves its balance.  *)
BalancesFit ==
    \A a \in Accounts \ overlapped :
        /\ \A s, t \in Sessions : Works(s, a) /\ Works(t, a) => s = t
        /\ \A s \in Sessions : got[s].account = a => got[s].value = balance[a]
        /\ \A s \in Sessions : \A w \in written[s] :
              w.account = a => w.after = balance[a] + w.amount

PostInv ==
    /\ PostersFit
    /\ \A s \in Sessions : WrittenFits(s)
    /\ PostingsAreWhole
    /\ IsFiniteSet(entries) /\ BalancesFit /\ BalanceIsSum

-----------------------------------------------------------------------------
Alone ==
    \A s, t \in Sessions :
        req[s].row = req[t].row /\ req[s].row \in Rows \ contended => s = t

(* What a request has found of a row nobody else works on still holds.     *)
ChecksHold ==
    \A s \in Sessions :
        LET q == req[s] IN
        q.row \in Ext \ contended =>
            /\ q.pc \in {"commit", "reverse", "refresh", "post"} => row[q.row].status = "AUTHORIZED"
            /\ q.pc = "post" => q.seen.status = "AUTHORIZED"
            /\ q.pc = "refund" => row[q.row].status = "COMPLETED" /\ RefundFits(q.row, q.amount)

AloneInv == Alone /\ ChecksHold /\ UnpostedIsLost

NotYetRefunded ==
    \A p \in Ext \ contended :
        row[p].status \in {"AUTHORIZED", "CAPTURED"} => Of("REFUND", p) = {}

Used == {x \in Ext : row[x].status \in {"AUTHORIZED", "COMPLETED"}}

(* The limit has room for the operation that was checked last.             *)
LimitFits ==
    ~rushed /\ contended = {} =>
        /\ \A s, t \in Sessions : Checked(s) /\ Checked(t) => s = t
        /\ SumOfRows(Used) <= Limit
        /\ \A s \in Sessions : Checked(s) => SumOfRows(Used) + Amount <= Limit

AmountInv == RefundsWithinSettled /\ NotYetRefunded /\ CapturesAddUp /\ LimitFits

-----------------------------------------------------------------------------
ReqType == [pc : {"idle", "insert", "refresh", "post", "failed", "commit", "reverse", "refund",
                  "locked"},
            row : Rows \cup {NoRow}, amount : Nat, seen : RowType]

BooksOK ==
    /\ entries \subseteq [row : Rows, account : Accounts, amount : Int]
    /\ balance \in [Accounts -> Int]
    /\ got \in [Sessions -> [account : Accounts \cup {"none"}, value : Int]]
    /\ written \in [Sessions -> SUBSET [row : Rows, account : Accounts, amount : Int, after : Int]]

HistoryOK ==
    contended \subseteq Rows /\ overlapped \subseteq Accounts /\ rushed \in BOOLEAN /\ lost \subseteq Rows

OnlyPosting == \A s \in Sessions : req[s].pc # "post" => written[s] = {} /\ got[s] = NothingRead

(* TypeOK by rows, requests, books and history.                            *)
LEMMA TypesSplit ==
    TypeOK <=> /\ row \in [Rows -> RowType] /\ req \in [Sessions -> ReqType]
               /\ BooksOK /\ HistoryOK /\ OnlyPosting
BY DEF TypeOK, ReqType, BooksOK, HistoryOK, OnlyPosting

(* The same after a step.                                                  *)
LEMMA TypesSplitNext ==
    TypeOK' <=> /\ row' \in [Rows -> RowType] /\ req' \in [Sessions -> ReqType]
                /\ BooksOK' /\ HistoryOK' /\ OnlyPosting'
BY DEF TypeOK, ReqType, BooksOK, HistoryOK, OnlyPosting

(* Sets of sessions and of rows are finite.                                *)
LEMMA SetsAreFinite ==
    ASSUME NEW S, S \subseteq Sessions, NEW C, C \subseteq Rows
    PROVE  /\ IsFiniteSet(S) /\ IsFiniteSet(C)
           /\ Cardinality(S) \in Nat /\ Cardinality(C) \in Nat
<1>1. IsFiniteSet(Rows)
  BY FinitelyMany, FS_Union DEF FinitelyMany, Rows
<1>2. IsFiniteSet(S) /\ IsFiniteSet(C)
  BY <1>1, FinitelyMany, FS_Subset DEF FinitelyMany
<1>3. QED
  BY <1>2, FS_CardinalityType

(* What no step takes from a row that exists, and never from one that      *)
(* another request has locked.                                             *)
RowStep(s) ==
    /\ row' \in [Rows -> RowType]
    /\ \A r \in Rows : Exists(r) =>
          /\ Exists(r)' /\ row'[r].amount = row[r].amount /\ row'[r].parent = row[r].parent
          /\ \/ row'[r].type = row[r].type
             \/ row[r].type = "AUTH" /\ row'[r].type = "REVERSE"
    /\ \A t \in Sessions \ {s} : req[t].pc = "locked" => row'[req[t].row] = row[req[t].row]

(* A step of s keeps the shape if it does so for s, for the rows and for   *)
(* the ids that are left.                                                  *)
LEMMA ShapeStep ==
    ASSUME ShapeInv, NEW s \in Sessions, RowStep(s), TypeOK', \A r \in Rows : RowFits(r)',
           \A t \in Sessions \ {s} : req'[t] = req[t],
           ReqFits(s)',
           req'[s].pc = "locked" =>
              (req[s].pc = "locked" /\ req'[s].row = req[s].row) \/ RowFree(req'[s].row),
           IdsSuffice'
    PROVE  ShapeInv'
<1>1. ASSUME NEW t \in Sessions
      PROVE  ReqFits(t)'
  <2>1. CASE t = s
    BY <2>1
  <2>2. CASE t # s
    <3>1. ReqFits(t) /\ req'[t] = req[t] /\ req[t] \in ReqType
      BY <2>2, TypesSplit DEF ShapeInv
    <3>2. req[t].pc = "locked" => row'[req[t].row] = row[req[t].row]
      BY <2>2 DEF RowStep
    <3>3. \A r \in Rows : Exists(r) =>
             /\ Exists(r)' /\ row'[r].amount = row[r].amount
             /\ row[r].type \in {"AUTH", "REVERSE"} => row'[r].type \in {"AUTH", "REVERSE"}
             /\ row[r].type = "REFUND" => row'[r].type = "REFUND"
      BY DEF RowStep
    <3>4. \A r \in Ext : r \in Rows
      BY DEF Rows
    <3>5. req[t].pc \in {"refresh", "post", "failed", "commit", "reverse", "refund"} => Exists(req[t].row)
      BY <3>1 DEF ReqFits, Exists
    <3>6. QED
      BY <3>1, <3>2, <3>3, <3>4, <3>5 DEF ReqFits, Exists
  <2>3. QED
    BY <2>1, <2>2
<1>2. LocksExclude'
  BY DEF ShapeInv, LocksExclude, RowFree
<1>3. QED
  BY <1>1, <1>2 DEF ShapeInv

(* The ids that are left, as requests begin, insert and end.               *)
LEMMA IdsKept ==
    ASSUME ShapeInv, Users' \subseteq Users, Free' = Free
    PROVE  IdsSuffice'
<1>1. Users \subseteq Sessions /\ Free \subseteq Rows
  BY DEF Users, Free, Rows
<1>2. IsFiniteSet(Users) /\ Cardinality(Users) \in Nat /\ Cardinality(Free) \in Nat
  BY <1>1, SetsAreFinite
<1>3. Cardinality(Users') <= Cardinality(Users) /\ Cardinality(Users') \in Nat
  <2>1. IsFiniteSet(Users') /\ Cardinality(Users') <= Cardinality(Users)
    BY <1>2, FS_Subset
  <2>2. QED
    BY <2>1, FS_CardinalityType
<1>4. QED
  BY <1>2, <1>3 DEF ShapeInv, IdsSuffice

(* A request that begins when an id is left finds one when it inserts.     *)
LEMMA IdsReserved ==
    ASSUME ShapeInv, NEW s \in Sessions, Users' \subseteq Users \cup {s}, Free' = Free, IdIsLeft
    PROVE  IdsSuffice'
<1>1. Users \subseteq Sessions /\ Free \subseteq Rows /\ Users \cup {s} \subseteq Sessions
  BY DEF Users, Free, Rows
<1>2. /\ IsFiniteSet(Users) /\ Cardinality(Users) \in Nat /\ Cardinality(Free) \in Nat
      /\ IsFiniteSet(Users \cup {s}) /\ Cardinality(Users \cup {s}) \in Nat
  BY <1>1, SetsAreFinite
<1>3. Cardinality(Users \cup {s}) <= Cardinality(Users) + 1
  BY <1>2, FS_AddElement
<1>4. Cardinality(Users') <= Cardinality(Users \cup {s}) /\ Cardinality(Users') \in Nat
  <2> DEFINE T == Users \cup {s}
  <2>1. Users' \subseteq T /\ IsFiniteSet(T)
    BY <1>2
  <2> HIDE DEF T
  <2>2. IsFiniteSet(Users') /\ Cardinality(Users') <= Cardinality(T)
    BY <2>1, FS_Subset
  <2>3. QED
    BY <2>2, FS_CardinalityType DEF T
<1>5. Cardinality(Users) < Cardinality(Free)
  BY DEF IdIsLeft, Users, Free
<1>6. QED
  BY <1>2, <1>3, <1>4, <1>5 DEF IdsSuffice

(* A request that inserts uses up its own id.                              *)
LEMMA IdsUsed ==
    ASSUME ShapeInv, NEW s \in Users, NEW c \in Free, Users' = Users \ {s}, Free' = Free \ {c}
    PROVE  IdsSuffice'
<1>1. Users \subseteq Sessions /\ Free \subseteq Rows
  BY DEF Users, Free, Rows
<1>2. /\ IsFiniteSet(Users) /\ Cardinality(Users) \in Nat
      /\ IsFiniteSet(Free) /\ Cardinality(Free) \in Nat
  BY <1>1, SetsAreFinite
<1>3. /\ Cardinality(Users \ {s}) = Cardinality(Users) - 1
      /\ Cardinality(Free \ {c}) = Cardinality(Free) - 1
  BY <1>2, FS_RemoveElement
<1>4. QED
  BY <1>2, <1>3 DEF ShapeInv, IdsSuffice

(* A request that will insert a child finds an id for it.                  *)
LEMMA NewIdIsFree ==
    ASSUME ShapeInv, NEW s \in Users
    PROVE  NewId \in Free
<1>1. Users \subseteq Sessions /\ Free \subseteq Rows
  BY DEF Users, Free, Rows
<1>2. /\ IsFiniteSet(Users) /\ Cardinality(Users) \in Nat
      /\ IsFiniteSet(Free) /\ Cardinality(Free) \in Nat
  BY <1>1, SetsAreFinite
<1>3. Cardinality(Users) # 0
  BY <1>2, FS_EmptySet
<1>4. Cardinality(Free) # 0
  BY <1>2, <1>3 DEF ShapeInv, IdsSuffice
<1>5. Free # {}
  BY <1>4, FS_EmptySet
<1>6. QED
  BY <1>5 DEF NewId, Free

-----------------------------------------------------------------------------
(* Steps that change no row.                                               *)
LEMMA ShapeQuiet ==
    ASSUME ShapeInv, NEW s \in Sessions, NEW q \in ReqType, req' = [req EXCEPT ![s] = q], row' = row,
           BooksOK', HistoryOK', OnlyPosting', ReqFits(s)',
           q.pc = "locked" => RowFree(q.row),
           q.pc \in {"refund", "locked"} => IdIsLeft
    PROVE  ShapeInv'
<1>1. row \in [Rows -> RowType] /\ req \in [Sessions -> ReqType]
  BY TypesSplit DEF ShapeInv
<1>2. req' \in [Sessions -> ReqType] /\ req'[s] = q /\ \A t \in Sessions \ {s} : req'[t] = req[t]
  BY <1>1
<1>3. TypeOK'
  BY <1>1, <1>2, TypesSplitNext
<1>4. RowStep(s) /\ \A r \in Rows : RowFits(r)'
  BY <1>1 DEF RowStep, ShapeInv, RowFits, Exists
<1>5. Free' = Free
  BY DEF Free, Exists
<1>6. IdsSuffice'
  <2>1. CASE q.pc \in {"refund", "locked"}
    <3>1. Users' \subseteq Users \cup {s}
      BY <1>2 DEF Users
    <3>2. QED
      BY <1>5, <2>1, <3>1, IdsReserved
  <2>2. CASE q.pc \notin {"refund", "locked"}
    <3>1. Users' \subseteq Users
      BY <1>2, <2>2 DEF Users
    <3>2. QED
      BY <1>5, <3>1, IdsKept
  <2>3. QED
    BY <2>1, <2>2
<1>7. QED
  BY <1>2, <1>3, <1>4, <1>6, ShapeStep

(* The types of a row and of a request that do not exist.                  *)
LEMMA AbsentType == Absent \in RowType /\ Idle \in ReqType
<1>1. Absent \in RowType
  BY DEF Absent, NewRow, RowType, Types, Statuses
<1>2. QED
  BY <1>1 DEF Idle, ReqType

(* A request ends, or fails, without a change of a row.                    *)
LEMMA ShapeEnd ==
    ASSUME ShapeInv, NEW s \in Sessions,
           \/ InsertCollides(s) \/ ReverseAuthRefused(s) \/ Crash(s)
           \/ (PostingFails(s) /\ IsRefund(s))
    PROVE  ShapeInv'
<1>1. req' = [req EXCEPT ![s] = Idle] /\ row' = row
  BY DEF InsertCollides, ReverseAuthRefused, Crash, PostingFails, Finish
<1>2. /\ req \in [Sessions -> ReqType] /\ BooksOK /\ HistoryOK /\ OnlyPosting
  BY TypesSplit DEF ShapeInv
<1>3. \A t \in Sessions : req'[t] = IF t = s THEN Idle ELSE req[t]
  BY <1>1, <1>2
<1>4. /\ Idle.pc = "idle" /\ Idle.row = NoRow
      /\ NothingRead \in [account : Accounts \cup {"none"}, value : Int]
  BY DEF Idle, NothingRead
<1>5. CASE InsertCollides(s) \/ ReverseAuthRefused(s)
  <2>1. UNCHANGED <<entries, balance, got, written, contended, overlapped, rushed, lost>>
    BY <1>5 DEF InsertCollides, ReverseAuthRefused, books, history
  <2>2. written[s] = {} /\ got[s] = NothingRead
    BY <1>2, <1>5 DEF OnlyPosting, InsertCollides, ReverseAuthRefused
  <2>3. BooksOK' /\ HistoryOK' /\ OnlyPosting'
    BY <1>2, <1>3, <2>1, <2>2 DEF BooksOK, HistoryOK, OnlyPosting
  <2>4. ReqFits(s)'
    BY <1>3, <1>4 DEF ReqFits
  <2>5. QED
    BY <1>1, <1>4, <2>3, <2>4, AbsentType, ShapeQuiet
<1>6. CASE Crash(s) \/ PostingFails(s)
  <2>1. UNCHANGED <<entries, balance, contended, overlapped, rushed>>
    BY <1>6 DEF Crash, PostingFails
  <2>2. got' = [got EXCEPT ![s] = NothingRead] /\ written' = [written EXCEPT ![s] = {}]
    BY <1>6 DEF Crash, PostingFails, Drop
  <2>3. req[s].pc \in {"refresh", "post", "failed"} => req[s].row \in Rows
    BY DEF ShapeInv, ReqFits, Rows
  <2>4. lost' \subseteq lost \cup {req[s].row} /\ (lost' = lost \/ req[s].row \in Rows)
    BY <1>6, <2>3 DEF Crash, PostingFails
  <2>5. BooksOK' /\ HistoryOK'
    BY <1>2, <1>4, <2>1, <2>2, <2>4 DEF BooksOK, HistoryOK
  <2>6. OnlyPosting'
    BY <1>2, <1>3, <2>2 DEF OnlyPosting, BooksOK
  <2>7. ReqFits(s)'
    BY <1>3, <1>4 DEF ReqFits
  <2>8. QED
    BY <1>1, <1>4, <2>5, <2>6, <2>7, AbsentType, ShapeQuiet
<1>7. QED
  BY <1>5, <1>6

(* A posting that fails keeps the shape.                                   *)
LEMMA ShapeFails ==
    ASSUME ShapeInv, NEW s \in Sessions, PostingFails(s), ~IsRefund(s)
    PROVE  ShapeInv'
<1>1. req \in [Sessions -> ReqType] /\ BooksOK /\ HistoryOK /\ OnlyPosting
  BY TypesSplit DEF ShapeInv
<1> DEFINE q == [pc |-> "failed", row |-> req[s].row, amount |-> req[s].amount, seen |-> req[s].seen]
<1>2. q \in ReqType /\ req' = [req EXCEPT ![s] = q]
  BY <1>1 DEF PostingFails, Goto, ReqType
<1>3. /\ UNCHANGED <<row, entries, balance, contended, overlapped, rushed, lost>>
      /\ got' = [got EXCEPT ![s] = NothingRead] /\ written' = [written EXCEPT ![s] = {}]
  BY DEF PostingFails, Drop
<1>4. \A t \in Sessions : req'[t] = IF t = s THEN q ELSE req[t]
  BY <1>1, <1>2
<1>5. NothingRead \in [account : Accounts \cup {"none"}, value : Int]
  BY DEF NothingRead
<1>6. BooksOK' /\ HistoryOK'
  BY <1>1, <1>3, <1>5 DEF BooksOK, HistoryOK
<1>7. OnlyPosting'
  BY <1>1, <1>3, <1>4 DEF OnlyPosting, BooksOK
<1>8. /\ req[s].row \in Rows /\ Exists(req[s].row) /\ row[req[s].row].type \in {"AUTH", "REVERSE"}
      /\ RowFits(req[s].row)
  BY DEF ShapeInv, ReqFits, PostingFails, IsRefund, Exists
<1>9. req[s].row \in Ext
  BY <1>8 DEF RowFits, Rows
<1>10. ReqFits(s)'
  BY <1>3, <1>4, <1>8, <1>9 DEF ReqFits, Exists
<1> HIDE DEF q
<1>11. q.pc = "failed"
  BY DEF q
<1>12. QED
  BY <1>2, <1>3, <1>6, <1>7, <1>10, <1>11, ShapeQuiet

(* What a request has flushed is finite, and a balance it has read is one  *)
(* of an account.                                                          *)
FiniteInv ==
    /\ written = [s \in Sessions |-> written[s]] /\ got = [s \in Sessions |-> got[s]]
    /\ \A s \in Sessions :
          IsFiniteSet(written[s]) /\ (got[s].account = "none" => got[s] = NothingRead)

(* The account that is posted next.                                        *)
LEMMA NextIsAccount ==
    ASSUME FiniteInv, NEW s \in Sessions, Posting(s)
    PROVE  /\ Cardinality(written[s]) \in {0, 1}
           /\ NextAccount(s) \in Accounts
           /\ NextAccount(s) = IF Cardinality(written[s]) = 0 THEN Order(s)[1] ELSE Order(s)[2]
           /\ Order(s)[1] \in Accounts /\ Order(s)[2] \in Accounts /\ Order(s)[1] # Order(s)[2]
<1>1. Cardinality(written[s]) \in Nat
  BY FS_CardinalityType DEF FiniteInv
<1>2. Cardinality(written[s]) \in {0, 1}
  BY <1>1 DEF Posting
<1>3. Order(s)[1] \in Accounts /\ Order(s)[2] \in Accounts /\ Order(s)[1] # Order(s)[2]
  BY DEF Order, Accounts
<1>4. QED
  BY <1>2, <1>3 DEF NextAccount

(* Nothing is flushed when the system starts.                              *)
LEMMA FiniteInit == Init => FiniteInv
BY FS_EmptySet DEF Init, FiniteInv

(* No step flushes infinitely much.                                        *)
LEMMA FiniteNext == FiniteInv /\ [Next]_vars => FiniteInv'
<1> SUFFICES ASSUME FiniteInv, [Next]_vars
             PROVE  FiniteInv'
  OBVIOUS
<1>1. ASSUME written' = written, got' = got PROVE FiniteInv'
  BY <1>1 DEF FiniteInv
<1>2. ASSUME NEW s \in Sessions, WriteBalance(s)
      PROVE  FiniteInv'
  <2>1. PICK w : written' = [written EXCEPT ![s] = written[s] \cup {w}]
    BY <1>2 DEF WriteBalance
  <2>2. IsFiniteSet(written[s] \cup {w})
    BY FS_AddElement DEF FiniteInv
  <2>3. got' = [got EXCEPT ![s] = NothingRead]
    BY <1>2 DEF WriteBalance
  <2>4. QED
    BY <2>1, <2>2, <2>3 DEF FiniteInv
<1>3. ASSUME NEW s \in Sessions, Drop(s)
      PROVE  FiniteInv'
  BY <1>3, FS_EmptySet DEF FiniteInv, Drop
<1>4. ASSUME NEW s \in Sessions, ReadBalance(s)
      PROVE  FiniteInv'
  <2>1. NextAccount(s) # "none"
    BY <1>4, NextIsAccount DEF ReadBalance, Accounts
  <2>2. /\ written' = written
        /\ got' = [got EXCEPT ![s] = [account |-> NextAccount(s), value |-> balance[NextAccount(s)]]]
    BY <1>4 DEF ReadBalance
  <2>3. QED
    BY <2>1, <2>2 DEF FiniteInv
<1>5. CASE UNCHANGED vars
  BY <1>1, <1>5 DEF vars
<1>6. ASSUME NEW s \in Sessions, Start(s)
      PROVE  FiniteInv'
  BY <1>1, <1>6 DEF Start, AuthorizeReplay, vars, AuthorizeChecks, books, ReverseChecks, LockForReversal,
                    Lock, CommitChecks, RefundChecks, LockForCapture, LockForRefund
<1>7. ASSUME NEW s \in Sessions, Continue(s)
      PROVE  FiniteInv'
  BY <1>1, <1>2, <1>3, <1>4, <1>7 DEF Continue, InsertOperation, books, DeclineOperation,
        InsertCollides, RefreshOperation, CommitPosting, DeclineFailed, CommitOperation,
        ReverseOperation, ReverseAuthRefused, InsertRefund, CaptureOperation, RefundCapture, ReverseAuth
<1>8. QED
  BY <1>3, <1>5, <1>6, <1>7 DEF Next, PostingFails, Crash

-----------------------------------------------------------------------------
(* ReadBalance keeps the shape.                                            *)
LEMMA ShapeRead ==
    ASSUME FiniteInv, ShapeInv, NEW s \in Sessions, ReadBalance(s)
    PROVE  ShapeInv'
<1>1. /\ row \in [Rows -> RowType] /\ req \in [Sessions -> ReqType]
      /\ BooksOK /\ HistoryOK /\ OnlyPosting
  BY TypesSplit DEF ShapeInv
<1>2. UNCHANGED <<row, entries, balance, req, written, contended, rushed, lost>> /\ req[s].pc = "post"
  BY DEF ReadBalance, Posting
<1>3. NextAccount(s) \in Accounts
  BY NextIsAccount DEF ReadBalance
<1>4. [account |-> NextAccount(s), value |-> balance[NextAccount(s)]]
         \in [account : Accounts \cup {"none"}, value : Int]
  BY <1>1, <1>3 DEF BooksOK
<1>5. BooksOK'
  BY <1>1, <1>2, <1>4 DEF BooksOK, ReadBalance
<1>6. HistoryOK'
  BY <1>1, <1>2, <1>3 DEF HistoryOK, ReadBalance
<1>7. OnlyPosting'
  BY <1>1, <1>2 DEF OnlyPosting, ReadBalance, BooksOK
<1>8. TypeOK'
  BY <1>1, <1>2, <1>5, <1>6, <1>7, TypesSplitNext
<1>9. QED
  BY <1>2, <1>8 DEF ShapeInv, RowFits, ReqFits, Exists, LocksExclude, IdsSuffice, Users, Free

(* WriteBalance keeps the shape.                                           *)
LEMMA ShapeWrite ==
    ASSUME FiniteInv, ShapeInv, NEW s \in Sessions, WriteBalance(s)
    PROVE  ShapeInv'
<1>1. /\ row \in [Rows -> RowType] /\ req \in [Sessions -> ReqType]
      /\ BooksOK /\ HistoryOK /\ OnlyPosting
  BY TypesSplit DEF ShapeInv
<1>2. /\ UNCHANGED <<row, entries, balance, req, contended, overlapped, rushed, lost>>
      /\ req[s].pc = "post"
  BY <1>1 DEF WriteBalance, OnlyPosting, history
<1>3. req[s].row \in Rows /\ req[s].amount \in Nat
  BY <1>1, <1>2 DEF ShapeInv, ReqFits, ReqType
<1>4. got[s].account \in Accounts /\ got[s].value \in Int
  BY <1>1 DEF BooksOK, WriteBalance, FiniteInv
<1>5. \A n : Effect(s, n) \in Int
  BY <1>3 DEF Effect
<1> DEFINE e == Effect(s, Cardinality(written[s]) + 1)
           w == [row |-> req[s].row, account |-> got[s].account, amount |-> e, after |-> got[s].value + e]
<1>6. w \in [row : Rows, account : Accounts, amount : Int, after : Int]
  BY <1>3, <1>4, <1>5
<1>7. written' = [written EXCEPT ![s] = written[s] \cup {w}] /\ got' = [got EXCEPT ![s] = NothingRead]
  BY DEF WriteBalance
<1> HIDE DEF w
<1>8. NothingRead \in [account : Accounts \cup {"none"}, value : Int]
  BY DEF NothingRead
<1>9. BooksOK' /\ HistoryOK'
  BY <1>1, <1>2, <1>6, <1>7, <1>8 DEF BooksOK, HistoryOK
<1>10. OnlyPosting'
  BY <1>1, <1>2, <1>7 DEF OnlyPosting, BooksOK
<1>11. TypeOK'
  BY <1>1, <1>2, <1>9, <1>10, TypesSplitNext
<1>12. QED
  BY <1>2, <1>11 DEF ShapeInv, RowFits, ReqFits, Exists, LocksExclude, IdsSuffice, Users, Free

(* RefreshOperation keeps the shape.                                       *)
LEMMA ShapeRefresh ==
    ASSUME ShapeInv, NEW s \in Sessions, RefreshOperation(s)
    PROVE  ShapeInv'
<1>1. /\ row \in [Rows -> RowType] /\ req \in [Sessions -> ReqType]
      /\ BooksOK /\ HistoryOK /\ OnlyPosting
  BY TypesSplit DEF ShapeInv
<1>2. /\ UNCHANGED <<row, entries, balance, got, written, contended, overlapped, rushed, lost>>
      /\ req[s].pc = "refresh"
  BY DEF RefreshOperation, books, history
<1>3. req[s].row \in Rows /\ row[req[s].row] \in RowType /\ req[s] \in ReqType
  BY <1>1, <1>2 DEF ShapeInv, ReqFits
<1> DEFINE q == [pc |-> "post", row |-> req[s].row, amount |-> req[s].amount, seen |-> row[req[s].row]]
<1>4. q \in ReqType
  BY <1>3 DEF ReqType
<1>5. req' = [req EXCEPT ![s] = q]
  <2>1. req'[s] = q /\ \A t \in Sessions \ {s} : req'[t] = req[t]
    BY <1>1, <1>3 DEF RefreshOperation, ReqType
  <2>2. req' = [t \in Sessions |-> req'[t]]
    BY <1>1 DEF RefreshOperation
  <2> HIDE DEF q
  <2>3. QED
    BY <1>1, <2>1, <2>2
<1>6. \A t \in Sessions : req'[t] = IF t = s THEN q ELSE req[t]
  BY <1>1, <1>5
<1>7. BooksOK' /\ HistoryOK' /\ OnlyPosting'
  BY <1>1, <1>2, <1>6 DEF BooksOK, HistoryOK, OnlyPosting
<1>8. ReqFits(s)'
  BY <1>2, <1>6 DEF ShapeInv, ReqFits, Exists
<1>9. q.pc = "post"
  OBVIOUS
<1> HIDE DEF q
<1>10. QED
  BY <1>2, <1>4, <1>5, <1>7, <1>8, <1>9, ShapeQuiet

(* The checks of an authorisation keep the shape.                          *)
LEMMA ShapeAuthorize ==
    ASSUME ShapeInv, NEW s \in Sessions, NEW x \in Ext, AuthorizeChecks(s, x)
    PROVE  ShapeInv'
<1>1. /\ row \in [Rows -> RowType] /\ req \in [Sessions -> ReqType]
      /\ BooksOK /\ HistoryOK /\ OnlyPosting
  BY TypesSplit DEF ShapeInv
<1>2. UNCHANGED <<row, entries, balance, got, written, overlapped, lost>> /\ req[s] = Idle
  BY DEF AuthorizeChecks, books
<1>3. PICK status \in Verdicts :
         req' = [req EXCEPT ![s] = [pc |-> "insert", row |-> x, amount |-> Amount,
                                    seen |-> NewRow("none", status, 0, 0, NoRow)]]
  BY DEF AuthorizeChecks
<1> DEFINE q == [pc |-> "insert", row |-> x, amount |-> Amount,
                 seen |-> NewRow("none", status, 0, 0, NoRow)]
<1>4. q \in ReqType
  BY AmountsArePositive DEF AmountsArePositive, ReqType, NewRow, RowType, Types, Statuses, Verdicts, Rows
<1>5. \A t \in Sessions : req'[t] = IF t = s THEN q ELSE req[t]
  BY <1>1, <1>3
<1>6. BooksOK' /\ HistoryOK'
  BY <1>1, <1>2 DEF BooksOK, HistoryOK, AuthorizeChecks, Rows
<1>7. OnlyPosting'
  BY <1>1, <1>2, <1>5 DEF OnlyPosting, Idle
<1>8. ReqFits(s)' /\ q.pc = "insert"
  BY <1>5 DEF ReqFits
<1>9. req' = [req EXCEPT ![s] = q]
  BY <1>3
<1> HIDE DEF q
<1>10. QED
  BY <1>2, <1>4, <1>6, <1>7, <1>8, <1>9, ShapeQuiet

(* A request has read, and perhaps locked, a row that exists.              *)
LEMMA ShapeBegin ==
    ASSUME ShapeInv, NEW s \in Sessions, NEW pc \in {"commit", "reverse", "refund", "locked"},
           NEW r \in Rows, NEW n \in Nat, Begin(s, pc, r, n),
           UNCHANGED <<row, books, overlapped, rushed, lost>>,
           pc # "locked" => r \in Ext /\ row[r].type \in {"AUTH", "REVERSE"},
           pc \in {"refund", "locked"} => IdIsLeft,
           pc = "locked" =>
              /\ RowFree(r) /\ row[r].type \in {"AUTH", "CAPTURE"}
              /\ row[r].type = "AUTH" /\ n > 0 =>
                    row[r].status \in {"AUTHORIZED", "CAPTURED"} /\ n <= row[r].amount - row[r].captured
              /\ row[r].type = "CAPTURE" => n > 0 /\ n <= row[r].amount - row[r].refunded
    PROVE  ShapeInv'
<1>1. /\ row \in [Rows -> RowType] /\ req \in [Sessions -> ReqType]
      /\ BooksOK /\ HistoryOK /\ OnlyPosting
  BY TypesSplit DEF ShapeInv
<1>2. UNCHANGED <<row, entries, balance, got, written, overlapped, rushed, lost>> /\ req[s] = Idle
  BY DEF Begin, books
<1> DEFINE q == [pc |-> pc, row |-> r, amount |-> n, seen |-> row[r]]
<1>3. q \in ReqType /\ req' = [req EXCEPT ![s] = q]
  BY <1>1 DEF ReqType, Begin
<1>4. \A t \in Sessions : req'[t] = IF t = s THEN q ELSE req[t]
  BY <1>1, <1>3
<1>5. BooksOK' /\ HistoryOK'
  BY <1>1, <1>2 DEF BooksOK, HistoryOK, Begin
<1>6. OnlyPosting'
  BY <1>1, <1>2, <1>4 DEF OnlyPosting, Idle
<1>7. ReqFits(s)'
  BY <1>2, <1>4 DEF ReqFits, Exists
<1>8. q.pc = pc /\ q.row = r
  OBVIOUS
<1> HIDE DEF q
<1>9. QED
  BY <1>2, <1>3, <1>5, <1>6, <1>7, <1>8, ShapeQuiet

(* So does every request that begins.                                      *)
LEMMA ShapeStart ==
    ASSUME ShapeInv, NEW s \in Sessions, Start(s)
    PROVE  ShapeInv'
<1>1. /\ \A n \in Parts : n \in Nat /\ n > 0
      /\ \A x \in Ext : x \in Rows
      /\ \A c \in Children : c \in Rows
  BY AmountsArePositive DEF AmountsArePositive, Rows
<1>2. \A x \in Ext : row[x].status \in SUCCESS_STATUSES => row[x].type \in {"AUTH", "REVERSE"}
  BY <1>1 DEF ShapeInv, RowFits, Absent, NewRow, SUCCESS_STATUSES, Exists
<1>3. ASSUME NEW x \in Ext, AuthorizeReplay(s, x)
      PROVE  ShapeInv'
  <2>1. UNCHANGED <<row, entries, balance, req, got, written, contended, overlapped, rushed, lost>>
    BY <1>3 DEF AuthorizeReplay, vars
  <2>2. QED
    BY <2>1 DEF ShapeInv, TypeOK, RowFits, ReqFits, Exists, LocksExclude, IdsSuffice, Users, Free
<1>4. ASSUME NEW x \in Ext, AuthorizeChecks(s, x)
      PROVE  ShapeInv'
  BY <1>4, ShapeAuthorize
<1>5. ASSUME NEW x \in Ext, ReverseChecks(s, x)
      PROVE  ShapeInv'
  <2>1. Begin(s, "reverse", x, 0) /\ row[x].type \in {"AUTH", "REVERSE"}
    BY <1>1, <1>2, <1>5 DEF ReverseChecks, SUCCESS_STATUSES
  <2>2. QED
    BY <1>1, <1>5, <2>1, ShapeBegin DEF ReverseChecks
<1>6. ASSUME NEW x \in Ext, LockForReversal(s, x)
      PROVE  ShapeInv'
  BY <1>1, <1>6, ShapeBegin DEF LockForReversal, Lock
<1>7. ASSUME NEW x \in Ext, NEW n \in Parts, CommitChecks(s, x, n)
      PROVE  ShapeInv'
  <2>1. Begin(s, "commit", x, n) /\ row[x].type \in {"AUTH", "REVERSE"}
    BY <1>1, <1>2, <1>7 DEF CommitChecks, SUCCESS_STATUSES
  <2>2. QED
    BY <1>1, <1>7, <2>1, ShapeBegin DEF CommitChecks
<1>8. ASSUME NEW x \in Ext, NEW n \in Parts, RefundChecks(s, x, n)
      PROVE  ShapeInv'
  <2>1. Begin(s, "refund", x, n) /\ row[x].type \in {"AUTH", "REVERSE"} /\ IdIsLeft
    BY <1>1, <1>2, <1>8 DEF RefundChecks, SUCCESS_STATUSES
  <2>2. QED
    BY <1>1, <1>8, <2>1, ShapeBegin DEF RefundChecks
<1>9. ASSUME NEW x \in Ext, NEW n \in Parts, LockForCapture(s, x, n)
      PROVE  ShapeInv'
  BY <1>1, <1>9, ShapeBegin DEF LockForCapture, Lock
<1>10. ASSUME NEW c \in Children, NEW n \in Parts, LockForRefund(s, c, n)
       PROVE  ShapeInv'
  BY <1>1, <1>10, ShapeBegin DEF LockForRefund, Lock
<1>11. QED
  BY <1>3, <1>4, <1>5, <1>6, <1>7, <1>8, <1>9, <1>10 DEF Start

-----------------------------------------------------------------------------
(* Steps that change rows.                                                 *)

(* An existing row is written by a request that does not hold its lock.    *)
Rewritten(o, type, status, settled) ==
    /\ row' = [r \in Rows |-> row'[r]]
    /\ \A r \in Rows \ {o} : row'[r] = row[r]
    /\ row'[o] = [type |-> type, status |-> status, amount |-> row[o].amount, settled |-> settled,
                  captured |-> row[o].captured, refunded |-> row[o].refunded,
                  parent |-> row[o].parent]

(* Writing the status, the type or the settled amount of a row that is not *)
(* locked leaves every row fitting.                                        *)
LEMMA RowsRewritten ==
    ASSUME ShapeInv, NEW s \in Sessions, NEW o \in Rows, Exists(o), row[o].type # "DECLINE",
           RowFree(o),
           NEW type, NEW status \in Statuses, NEW settled \in Nat,
           Rewritten(o, type, status, settled),
           type = row[o].type \/ (row[o].type = "AUTH" /\ type = "REVERSE"),
           status \in {row[o].status} \cup (Statuses \ {"none", "CAPTURED"}),
           o \in Children => status \notin SUCCESS_STATUSES
    PROVE  RowStep(s) /\ (\A r \in Rows : RowFits(r)') /\ Free' = Free
<1>1. row \in [Rows -> RowType] /\ row[o] \in RowType
  BY TypesSplit DEF ShapeInv
<1>2. /\ row'[o].type = type /\ row'[o].status = status /\ row'[o].amount = row[o].amount
      /\ row'[o].captured = row[o].captured /\ row'[o].parent = row[o].parent
      /\ type # "none" /\ type \in Types
  BY <1>1 DEF Rewritten, Exists, RowType, Types
<1>3. row'[o] \in RowType
  BY <1>1, <1>2 DEF Rewritten, RowType
<1>4. row' \in [Rows -> RowType]
  BY <1>1, <1>3 DEF Rewritten
<1>5. \A r \in Rows : /\ Exists(r)' <=> Exists(r)
                      /\ row'[r].amount = row[r].amount /\ row'[r].parent = row[r].parent
                      /\ \/ row'[r].type = row[r].type
                         \/ row[r].type = "AUTH" /\ row'[r].type = "REVERSE"
  BY <1>2 DEF Rewritten, Exists
<1>6. \A t \in Sessions : req[t].pc = "locked" => req[t].row \in Rows /\ row'[req[t].row] = row[req[t].row]
  BY DEF ShapeInv, ReqFits, RowFree, Rewritten
<1>7. RowStep(s)
  BY <1>4, <1>5, <1>6 DEF RowStep
<1>8. ASSUME NEW r \in Rows PROVE RowFits(r)'
  <2>1. RowFits(r)
    BY DEF ShapeInv
  <2>2. CASE r = o
    <3>1. Exists(o)' /\ (o \in Children => Exists(row[o].parent)')
      BY <1>5, <2>1, <2>2 DEF RowFits
    <3>2. QED
      BY <1>2, <2>1, <2>2, <3>1 DEF RowFits, Exists
  <2>3. CASE r # o
    <3>1. row'[r] = row[r]
      BY <2>3 DEF Rewritten
    <3>2. Exists(r) /\ r \in Children => Exists(row[r].parent)'
      BY <1>5, <2>1 DEF RowFits
    <3>3. QED
      BY <2>1, <3>1, <3>2 DEF RowFits, Exists
  <2>4. QED
    BY <2>2, <2>3
<1>9. Free' = Free
  BY <1>5 DEF Free, Rows
<1>10. QED
  BY <1>7, <1>8, <1>9

(* An operation is inserted under the id its client has given it.          *)
LEMMA RowsInserted ==
    ASSUME ShapeInv, NEW s \in Sessions, NEW x \in Ext, ~Exists(x), NEW type \in {"AUTH", "DECLINE"},
           NEW status \in {"AUTHORIZED", "DECLINED"}, type = "DECLINE" => status = "DECLINED",
           row' = [row EXCEPT ![x] = NewRow(type, status, Amount, 0, NoRow)]
    PROVE  RowStep(s) /\ (\A r \in Rows : RowFits(r)') /\ Free' = Free
<1>1. row \in [Rows -> RowType] /\ x \in Rows /\ x \notin Children
  BY TypesSplit, IdsAreDistinct DEF ShapeInv, Rows, IdsAreDistinct
<1> DEFINE new == NewRow(type, status, Amount, 0, NoRow)
<1>2. new \in RowType
  BY AmountsArePositive DEF AmountsArePositive, NewRow, RowType, Types, Statuses
<1>3. new.type = type /\ new.status = status /\ new.amount = Amount /\ new.captured = 0
  BY DEF NewRow
<1> HIDE DEF new
<1>4. row' \in [Rows -> RowType] /\ row'[x] = new /\ \A r \in Rows \ {x} : row'[r] = row[r]
  BY <1>1, <1>2 DEF new
<1>5. \A r \in Rows : Exists(r) => r # x /\ Exists(r)' /\ row'[r] = row[r]
  BY <1>4 DEF Exists
<1>6. \A t \in Sessions : req[t].pc = "locked" => req[t].row \in Rows /\ Exists(req[t].row)
  BY DEF ShapeInv, ReqFits, Exists
<1>7. RowStep(s)
  BY <1>4, <1>5, <1>6 DEF RowStep
<1>8. ASSUME NEW r \in Rows PROVE RowFits(r)'
  <2>1. RowFits(r)
    BY DEF ShapeInv
  <2>2. CASE r = x
    BY <1>1, <1>3, <1>4, <2>2 DEF RowFits, Exists
  <2>3. CASE r # x
    <3>1. row'[r] = row[r]
      BY <1>4, <2>3
    <3>2. Exists(r) /\ r \in Children => Exists(row[r].parent)'
      BY <1>5, <2>1 DEF RowFits
    <3>3. QED
      BY <2>1, <3>1, <3>2 DEF RowFits, Exists
  <2>4. QED
    BY <2>2, <2>3
<1>9. Free' = Free
  BY <1>1, <1>4 DEF Free, Exists, Rows
<1>10. QED
  BY <1>7, <1>8, <1>9

(* A child is inserted, and what its request has locked is written.        *)
WithChild(c, o, new, status, captured, refunded) ==
    /\ row' = [r \in Rows |-> row'[r]]
    /\ \A r \in Rows \ {c, o} : row'[r] = row[r]
    /\ row'[c] = new
    /\ row'[o] = [type |-> row[o].type, status |-> status, amount |-> row[o].amount,
                  settled |-> row[o].settled, captured |-> captured, refunded |-> refunded,
                  parent |-> row[o].parent]

(* So does inserting a child and updating its parent, by the holder of the *)
(* parent's lock or without changing the parent.                           *)
LEMMA RowsWithChild ==
    ASSUME ShapeInv, NEW s \in Sessions, NEW c \in Free, NEW o \in Rows, Exists(o),
           row[o].type # "DECLINE",
           NEW type \in {"CAPTURE", "REFUND", "REVERSAL"}, NEW st \in {"CAPTURED", "REFUNDED", "REVERSED"},
           NEW n \in Nat, NEW paid \in Nat,
           NEW status \in Statuses, NEW captured \in Nat, NEW refunded \in Nat,
           WithChild(c, o, NewRow(type, st, n, paid, o), status, captured, refunded),
           \/ req[s].pc = "locked" /\ req[s].row = o
           \/ status = row[o].status /\ captured = row[o].captured /\ refunded = row[o].refunded,
           o \in Ext /\ status = "CAPTURED" => captured >= row[o].amount,
           o \in Children => status \notin SUCCESS_STATUSES
    PROVE  RowStep(s) /\ (\A r \in Rows : RowFits(r)') /\ Free' = Free \ {c}
<1>1. row \in [Rows -> RowType] /\ row[o] \in RowType
  BY TypesSplit DEF ShapeInv
<1>2. c \in Children /\ c \in Rows /\ c \notin Ext /\ ~Exists(c) /\ c # o
  BY IdsAreDistinct DEF IdsAreDistinct, Free, Rows
<1> DEFINE new == NewRow(type, st, n, paid, o)
<1>3. new \in RowType
  BY DEF NewRow, RowType, Types, Statuses
<1>4. new.type = type /\ new.status = st /\ new.parent = o
  BY DEF NewRow
<1>4a. row'[c] = new /\ row' = [r \in Rows |-> row'[r]] /\ \A r \in Rows \ {c, o} : row'[r] = row[r]
  BY DEF WithChild
<1> HIDE DEF new
<1>5. /\ row'[o].type = row[o].type /\ row'[o].status = status /\ row'[o].amount = row[o].amount
      /\ row'[o].captured = captured /\ row'[o].parent = row[o].parent /\ row'[o] \in RowType
  BY <1>1 DEF WithChild, RowType
<1>6. row' \in [Rows -> RowType]
  BY <1>1, <1>3, <1>4a, <1>5
<1>7. \A r \in Rows : Exists(r) => /\ r # c /\ Exists(r)' /\ row'[r].type = row[r].type
                                   /\ row'[r].amount = row[r].amount /\ row'[r].parent = row[r].parent
  BY <1>2, <1>4a, <1>5 DEF Exists
<1>8. \A t \in Sessions \ {s} : req[t].pc = "locked" =>
         req[t].row \in Rows /\ row'[req[t].row] = row[req[t].row]
  <2> SUFFICES ASSUME NEW t \in Sessions \ {s}, req[t].pc = "locked"
               PROVE  req[t].row \in Rows /\ row'[req[t].row] = row[req[t].row]
    OBVIOUS
  <2>1. req[t].row \in Rows /\ req[t].row # c
    BY <1>2 DEF ShapeInv, ReqFits, Exists
  <2>2. CASE req[s].pc = "locked" /\ req[s].row = o
    <3>1. req[t].row # o
      BY <2>2 DEF ShapeInv, LocksExclude
    <3>2. QED
      BY <1>4a, <2>1, <3>1
  <2>3. CASE status = row[o].status /\ captured = row[o].captured /\ refunded = row[o].refunded
    <3>1. row'[o] = row[o]
      BY <1>1, <2>3 DEF WithChild, RowType
    <3>2. QED
      BY <1>4a, <2>1, <3>1
  <2>4. QED
    BY <2>2, <2>3
<1>9. RowStep(s)
  BY <1>6, <1>7, <1>8 DEF RowStep
<1>10. ASSUME NEW r \in Rows PROVE RowFits(r)'
  <2>1. RowFits(r)
    BY DEF ShapeInv
  <2>2. CASE r = c
    BY <1>2, <1>4, <1>4a, <1>7, <2>2 DEF RowFits, Exists, SUCCESS_STATUSES
  <2>3. CASE r = o
    <3>1. Exists(o)' /\ (o \in Children => Exists(row[o].parent)' /\ row[o].parent \in Rows)
      BY <1>7, <2>1, <2>3 DEF RowFits
    <3>2. QED
      BY <1>5, <2>1, <2>3, <3>1 DEF RowFits, Exists
  <2>4. CASE r # c /\ r # o
    <3>1. row'[r] = row[r]
      BY <1>4a, <2>4
    <3>2. Exists(r) /\ r \in Children => Exists(row[r].parent)'
      BY <1>7, <2>1 DEF RowFits
    <3>3. QED
      BY <2>1, <3>1, <3>2 DEF RowFits, Exists
  <2>5. QED
    BY <2>2, <2>3, <2>4
<1>11. Free' = Free \ {c}
  <2>1. Exists(c)' /\ \A r \in Children \ {c} : Exists(r)' <=> Exists(r)
    BY <1>2, <1>4, <1>4a, <1>7 DEF Exists, Rows
  <2>2. QED
    BY <2>1 DEF Free
<1>12. QED
  BY <1>9, <1>10, <1>11

(* What the actions make of the rows.                                      *)
LEMMA WhatIsRewritten ==
    ASSUME ShapeInv, NEW s \in Sessions, NEW o, o = req[s].row
    PROVE  /\ CommitOperation(s) => Rewritten(o, row[o].type, "COMPLETED", req[s].amount)
           /\ ReverseOperation(s) => Rewritten(o, "REVERSE", "REVERSED", row[o].settled)
           /\ DeclineFailed(s) => Rewritten(o, row[o].type, "DECLINED", row[o].settled)
           /\ CommitPosting(s) => Rewritten(o, row[o].type, StatusAfterPosting(s), row[o].settled)
<1>1. row \in [Rows -> RowType]
  BY TypesSplit DEF ShapeInv
<1>2. req[s].pc \in {"commit", "reverse", "failed", "post"} => o \in Rows
  BY DEF ShapeInv, ReqFits, Rows
<1>3. CommitOperation(s) => Rewritten(o, row[o].type, "COMPLETED", req[s].amount)
  BY <1>1, <1>2, ZenonT(60) DEF CommitOperation, Rewritten, RowType
<1>4. ReverseOperation(s) => Rewritten(o, "REVERSE", "REVERSED", row[o].settled)
  BY <1>1, <1>2, ZenonT(60) DEF ReverseOperation, Rewritten, RowType
<1>5. DeclineFailed(s) => Rewritten(o, row[o].type, "DECLINED", row[o].settled)
  BY <1>1, <1>2 DEF DeclineFailed, Rewritten, RowType
<1>6. CommitPosting(s) => Rewritten(o, row[o].type, StatusAfterPosting(s), row[o].settled)
  BY <1>1, <1>2 DEF CommitPosting, Rewritten, RowType
<1>7. QED
  BY <1>3, <1>4, <1>5, <1>6

(* The child that each request inserts, under a fresh id, and what it      *)
(* makes of the parent: the loaded parent is the locked row.               *)
LEMMA WhatIsInserted ==
    ASSUME ShapeInv, NEW s \in Sessions, NEW o, o = req[s].row, NEW c, c = NewId,
           NEW n, n = req[s].amount,
           InsertRefund(s) \/ CaptureOperation(s) \/ RefundCapture(s) \/ ReverseAuth(s)
    PROVE  /\ c \in Free /\ o \in Rows /\ Exists(o) /\ c # o /\ s \in Users
           /\ row[o].type # "DECLINE"
           /\ InsertRefund(s) =>
                 WithChild(c, o, NewRow("REFUND", "REFUNDED", n, n, o), row[o].status,
                           row[o].captured, row[o].refunded)
           /\ CaptureOperation(s) =>
                 WithChild(c, o, NewRow("CAPTURE", "CAPTURED", n, 0, o),
                           IF row[o].captured + n >= row[o].amount THEN "CAPTURED" ELSE "AUTHORIZED",
                           row[o].captured + n, row[o].refunded)
           /\ RefundCapture(s) =>
                 WithChild(c, o, NewRow("REFUND", "REFUNDED", n, 0, o),
                           IF row[o].refunded + n >= row[o].amount THEN "REFUNDED" ELSE "CAPTURED",
                           row[o].captured, row[o].refunded + n)
           /\ ReverseAuth(s) =>
                 WithChild(c, o, NewRow("REVERSAL", "REVERSED", row[o].amount, 0, o), "REVERSED",
                           row[o].captured, row[o].refunded)
<1>1. row \in [Rows -> RowType]
  BY TypesSplit DEF ShapeInv
<1>2. req[s].pc \in {"refund", "locked"}
  BY DEF InsertRefund, CaptureOperation, RefundCapture, ReverseAuth
<1>3. o \in Rows /\ Exists(o) /\ row[o] \in RowType /\ row[o].type # "DECLINE"
  BY <1>1, <1>2 DEF ShapeInv, ReqFits, Rows, Exists
<1>4. req[s].pc = "locked" => req[s].seen = row[o]
  BY DEF ShapeInv, ReqFits
<1>5. s \in Users
  BY <1>2 DEF Users
<1>6. c \in Free /\ c \in Rows /\ c # o
  BY <1>3, <1>5, NewIdIsFree DEF Free, Rows
<1>7. InsertRefund(s) =>
         WithChild(c, o, NewRow("REFUND", "REFUNDED", n, n, o), row[o].status,
                   row[o].captured, row[o].refunded)
  <2> HAVE InsertRefund(s)
  <2>1. row' = [row EXCEPT ![c] = NewRow("REFUND", "REFUNDED", n, n, o)]
    BY DEF InsertRefund
  <2>2. row'[o] = row[o]
    BY <1>1, <1>3, <1>6, <2>1
  <2>3. row[o] = [type |-> row[o].type, status |-> row[o].status, amount |-> row[o].amount,
                  settled |-> row[o].settled, captured |-> row[o].captured, refunded |-> row[o].refunded,
                  parent |-> row[o].parent]
    BY <1>3 DEF RowType
  <2>4. /\ row' = [r \in Rows |-> row'[r]] /\ (\A r \in Rows \ {c, o} : row'[r] = row[r])
        /\ row'[c] = NewRow("REFUND", "REFUNDED", n, n, o)
    BY <1>1, <1>6, <2>1
  <2>5. QED
    BY <2>2, <2>3, <2>4 DEF WithChild
<1>8. CaptureOperation(s) =>
         WithChild(c, o, NewRow("CAPTURE", "CAPTURED", n, 0, o),
                   IF row[o].captured + n >= row[o].amount THEN "CAPTURED" ELSE "AUTHORIZED",
                   row[o].captured + n, row[o].refunded)
  BY <1>1, <1>3, <1>4, <1>6, ZenonT(60) DEF CaptureOperation, WithChild, RowType
<1>9. RefundCapture(s) =>
         WithChild(c, o, NewRow("REFUND", "REFUNDED", n, 0, o),
                   IF row[o].refunded + n >= row[o].amount THEN "REFUNDED" ELSE "CAPTURED",
                   row[o].captured, row[o].refunded + n)
  BY <1>1, <1>3, <1>4, <1>6, ZenonT(60) DEF RefundCapture, WithChild, RowType
<1>10. ReverseAuth(s) =>
          WithChild(c, o, NewRow("REVERSAL", "REVERSED", row[o].amount, 0, o), "REVERSED",
                    row[o].captured, row[o].refunded)
  BY <1>1, <1>3, <1>4, <1>6, ZenonT(60) DEF ReverseAuth, WithChild, RowType
<1>11. QED
  BY <1>3, <1>5, <1>6, <1>7, <1>8, <1>9, <1>10

(* A request writes its rows and ends, or goes on under another heading.   *)
LEMMA ShapeWrites ==
    ASSUME ShapeInv, NEW s \in Sessions, NEW q \in ReqType, req' = [req EXCEPT ![s] = q],
           q.pc \notin {"refund", "locked"},
           RowStep(s), \A r \in Rows : RowFits(r)', ReqFits(s)',
           Free' = Free \/ (s \in Users /\ \E c \in Free : Free' = Free \ {c}),
           BooksOK', HistoryOK', OnlyPosting'
    PROVE  ShapeInv'
<1>1. req \in [Sessions -> ReqType]
  BY TypesSplit DEF ShapeInv
<1>2. req' \in [Sessions -> ReqType] /\ req'[s] = q /\ \A t \in Sessions \ {s} : req'[t] = req[t]
  BY <1>1
<1>3. TypeOK'
  BY <1>2, TypesSplitNext DEF RowStep
<1>4. Users' = Users \ {s}
  BY <1>2 DEF Users
<1>5. IdsSuffice'
  <2>1. CASE Free' = Free
    BY <1>4, <2>1, IdsKept
  <2>2. ASSUME s \in Users, NEW c \in Free, Free' = Free \ {c}
        PROVE  IdsSuffice'
    BY <1>4, <2>2, IdsUsed
  <2>3. QED
    BY <2>1, <2>2
<1>6. QED
  BY <1>2, <1>3, <1>5, ShapeStep

(* A request that writes its rows and ends keeps the shape.                *)
LEMMA ShapeFinish ==
    ASSUME ShapeInv, NEW s \in Sessions, Finish(s), req[s].pc # "post",
           UNCHANGED <<books, history>>,
           RowStep(s), \A r \in Rows : RowFits(r)',
           Free' = Free \/ (s \in Users /\ \E c \in Free : Free' = Free \ {c})
    PROVE  ShapeInv'
<1>1. req \in [Sessions -> ReqType] /\ BooksOK /\ HistoryOK /\ OnlyPosting
  BY TypesSplit DEF ShapeInv
<1>2. req' = [req EXCEPT ![s] = Idle] /\ Idle \in ReqType
  BY AbsentType DEF Finish
<1>3. \A t \in Sessions : req'[t] = IF t = s THEN Idle ELSE req[t]
  BY <1>1, <1>2
<1>4. Idle.pc = "idle" /\ Idle.row = NoRow
  BY DEF Idle
<1>5. UNCHANGED <<entries, balance, got, written, contended, overlapped, rushed, lost>>
  BY DEF books, history
<1>6. BooksOK' /\ HistoryOK' /\ OnlyPosting'
  BY <1>1, <1>3, <1>5 DEF BooksOK, HistoryOK, OnlyPosting
<1>7. ReqFits(s)'
  BY <1>3, <1>4 DEF ReqFits
<1>8. QED
  BY <1>2, <1>4, <1>6, <1>7, ShapeWrites

(* Committing, reversing and declining an operation keep the shape.        *)
LEMMA ShapeRewrites ==
    ASSUME ShapeInv, NEW s \in Sessions, CommitOperation(s) \/ ReverseOperation(s) \/ DeclineFailed(s)
    PROVE  ShapeInv' /\ RowStep(s)
<1>1. PICK o : o = req[s].row
  OBVIOUS
<1>2. /\ o \in Rows /\ o \in Ext /\ o \notin Children /\ Exists(o) /\ RowFree(o)
      /\ row[o].type \in {"AUTH", "REVERSE"}
      /\ req[s].pc # "post" /\ Finish(s) /\ UNCHANGED <<books, history>>
  BY <1>1, IdsAreDistinct
     DEF ShapeInv, ReqFits, Rows, Exists, IdsAreDistinct, CommitOperation, ReverseOperation, DeclineFailed
<1>3. req[s].amount \in Nat /\ row[o] \in RowType
  BY <1>2, TypesSplit DEF ShapeInv, ReqType
<1>4. row[o].settled \in Nat /\ {"COMPLETED", "REVERSED", "DECLINED"} \subseteq Statuses \ {"none", "CAPTURED"}
  BY <1>3 DEF RowType, Statuses
<1>5. RowStep(s) /\ (\A r \in Rows : RowFits(r)') /\ Free' = Free
  <2>1. CASE CommitOperation(s)
    <3>1. Rewritten(o, row[o].type, "COMPLETED", req[s].amount)
      BY <1>1, <2>1, WhatIsRewritten
    <3>2. QED
      BY <1>2, <1>3, <1>4, <3>1, RowsRewritten
  <2>2. CASE ReverseOperation(s)
    <3>1. Rewritten(o, "REVERSE", "REVERSED", row[o].settled)
      BY <1>1, <2>2, WhatIsRewritten
    <3>2. QED
      BY <1>2, <1>4, <3>1, RowsRewritten
  <2>3. CASE DeclineFailed(s)
    <3>1. Rewritten(o, row[o].type, "DECLINED", row[o].settled)
      BY <1>1, <2>3, WhatIsRewritten
    <3>2. QED
      BY <1>2, <1>4, <3>1, RowsRewritten
  <2>4. QED
    BY <2>1, <2>2, <2>3
<1>6. QED
  BY <1>2, <1>5, ShapeFinish

(* Inserting an operation keeps the shape.                                 *)
LEMMA ShapeInserts ==
    ASSUME ShapeInv, NEW s \in Sessions, InsertOperation(s) \/ DeclineOperation(s)
    PROVE  ShapeInv' /\ RowStep(s)
<1>1. PICK x : x = req[s].row
  OBVIOUS
<1>2. req[s].pc = "insert" /\ x \in Ext /\ ~Exists(x) /\ req[s].amount = Amount
  BY <1>1 DEF ShapeInv, ReqFits, InsertOperation, DeclineOperation, Checked
<1>3. CASE DeclineOperation(s)
  <2>1. row' = [row EXCEPT ![x] = NewRow("DECLINE", "DECLINED", Amount, 0, NoRow)]
    BY <1>1, <1>3 DEF DeclineOperation
  <2>2. RowStep(s) /\ (\A r \in Rows : RowFits(r)') /\ Free' = Free
    BY <1>2, <2>1, RowsInserted
  <2>3. QED
    BY <1>2, <1>3, <2>2, ShapeFinish DEF DeclineOperation
<1>4. CASE InsertOperation(s)
  <2>1. row' = [row EXCEPT ![x] = NewRow("AUTH", "AUTHORIZED", Amount, 0, NoRow)]
    BY <1>1, <1>4 DEF InsertOperation
  <2>2. RowStep(s) /\ (\A r \in Rows : RowFits(r)') /\ Free' = Free
    BY <1>2, <2>1, RowsInserted
  <2>3. /\ row \in [Rows -> RowType] /\ req \in [Sessions -> ReqType]
        /\ BooksOK /\ HistoryOK /\ OnlyPosting
    BY TypesSplit DEF ShapeInv
  <2> DEFINE q == [pc |-> "refresh", row |-> x, amount |-> Amount, seen |-> req[s].seen]
  <2>4. q \in ReqType /\ req' = [req EXCEPT ![s] = q]
    <3>1. req[s] \in ReqType
      BY <2>3
    <3>2. q \in ReqType
      BY <1>1, <1>2, <3>1 DEF ReqType
    <3>3. req' = [req EXCEPT ![s] = [req[s] EXCEPT !.pc = "refresh"]]
      BY <1>4, <2>3 DEF InsertOperation, Goto
    <3>4. [req[s] EXCEPT !.pc = "refresh"] = q
      BY <1>1, <1>2, <3>1 DEF ReqType
    <3>5. QED
      BY <3>2, <3>3, <3>4
  <2>5. \A t \in Sessions : req'[t] = IF t = s THEN q ELSE req[t]
    BY <2>3, <2>4
  <2>6. UNCHANGED <<entries, balance, got, written, contended, overlapped, rushed, lost>>
    BY <1>4 DEF InsertOperation, books, history
  <2>7. BooksOK' /\ HistoryOK' /\ OnlyPosting'
    BY <1>2, <2>3, <2>5, <2>6 DEF BooksOK, HistoryOK, OnlyPosting
  <2>8. ReqFits(s)'
    <3>1. x \in Rows
      BY <1>2 DEF Rows
    <3>2. row'[x].type = "AUTH" /\ row'[x].amount = Amount
      BY <2>1, <2>3, <3>1 DEF NewRow
    <3>3. QED
      BY <1>2, <2>5, <3>1, <3>2 DEF ReqFits, Exists
  <2>9. q.pc = "refresh"
    OBVIOUS
  <2> HIDE DEF q
  <2>10. QED
    BY <2>2, <2>4, <2>7, <2>8, <2>9, ShapeWrites
<1>5. QED
  BY <1>3, <1>4

(* Capture, refund and reversal under the row lock keep the shape.         *)
LEMMA ShapeChildren ==
    ASSUME ShapeInv, NEW s \in Sessions, CaptureOperation(s) \/ RefundCapture(s) \/ ReverseAuth(s)
    PROVE  ShapeInv' /\ RowStep(s)
<1>1. PICK o : o = req[s].row
  OBVIOUS
<1>2. PICK c : c = NewId
  OBVIOUS
<1>3. PICK n : n = req[s].amount
  OBVIOUS
<1>4. /\ c \in Free /\ o \in Rows /\ Exists(o) /\ s \in Users /\ row[o].type # "DECLINE"
      /\ CaptureOperation(s) =>
            WithChild(c, o, NewRow("CAPTURE", "CAPTURED", n, 0, o),
                      IF row[o].captured + n >= row[o].amount THEN "CAPTURED" ELSE "AUTHORIZED",
                      row[o].captured + n, row[o].refunded)
      /\ RefundCapture(s) =>
            WithChild(c, o, NewRow("REFUND", "REFUNDED", n, 0, o),
                      IF row[o].refunded + n >= row[o].amount THEN "REFUNDED" ELSE "CAPTURED",
                      row[o].captured, row[o].refunded + n)
      /\ ReverseAuth(s) =>
            WithChild(c, o, NewRow("REVERSAL", "REVERSED", row[o].amount, 0, o), "REVERSED",
                      row[o].captured, row[o].refunded)
  BY <1>1, <1>2, <1>3, WhatIsInserted
<1>5. n \in Nat /\ row[o] \in RowType /\ req[s].pc = "locked"
  BY <1>3, <1>4, TypesSplit DEF ShapeInv, ReqType, CaptureOperation, RefundCapture, ReverseAuth
<1>6. /\ row[o].captured \in Nat /\ row[o].refunded \in Nat /\ row[o].amount \in Nat
      /\ row[o].captured + n \in Nat /\ row[o].refunded + n \in Nat
  BY <1>5 DEF RowType
<1>7. /\ row[o].type = "CAPTURE" => o \notin Ext
      /\ row[o].type = "AUTH" => o \notin Children
  BY <1>4 DEF ShapeInv, RowFits
<1>8. {"CAPTURED", "AUTHORIZED", "REFUNDED", "REVERSED"} \subseteq Statuses
  BY DEF Statuses
<1>9. RowStep(s) /\ (\A r \in Rows : RowFits(r)') /\ \E x \in Free : Free' = Free \ {x}
  <2>1. CASE CaptureOperation(s)
    <3> DEFINE st == IF row[o].captured + n >= row[o].amount THEN "CAPTURED" ELSE "AUTHORIZED"
    <3>1. row[o].type = "AUTH"
      BY <1>1, <1>5, <2>1 DEF ShapeInv, ReqFits, CaptureOperation
    <3>2. st \in Statuses /\ (st = "CAPTURED" => row[o].captured + n >= row[o].amount)
      BY <1>8
    <3>3. WithChild(c, o, NewRow("CAPTURE", "CAPTURED", n, 0, o), st, row[o].captured + n, row[o].refunded)
      BY <1>4, <2>1
    <3>4. PICK sum \in Nat : sum = row[o].captured + n
      BY <1>6
    <3> HIDE DEF st
    <3>5. /\ WithChild(c, o, NewRow("CAPTURE", "CAPTURED", n, 0, o), st, sum, row[o].refunded)
          /\ o \notin Children /\ (st = "CAPTURED" => sum >= row[o].amount)
      BY <1>7, <3>1, <3>2, <3>3, <3>4
    <3>6. RowStep(s) /\ (\A r \in Rows : RowFits(r)') /\ Free' = Free \ {c}
      BY <1>1, <1>4, <1>5, <1>6, <3>2, <3>5, RowsWithChild
    <3>7. QED
      BY <1>4, <3>6
  <2>2. CASE RefundCapture(s)
    <3> DEFINE st == IF row[o].refunded + n >= row[o].amount THEN "REFUNDED" ELSE "CAPTURED"
    <3>1. row[o].type = "CAPTURE"
      BY <1>1, <1>5, <2>2 DEF ShapeInv, ReqFits, RefundCapture
    <3>2. st \in Statuses /\ st \notin SUCCESS_STATUSES
      BY <1>8 DEF SUCCESS_STATUSES
    <3>3. WithChild(c, o, NewRow("REFUND", "REFUNDED", n, 0, o), st, row[o].captured, row[o].refunded + n)
      BY <1>4, <2>2
    <3>4. PICK sum \in Nat : sum = row[o].refunded + n
      BY <1>6
    <3> HIDE DEF st
    <3>5. WithChild(c, o, NewRow("REFUND", "REFUNDED", n, 0, o), st, row[o].captured, sum)
      BY <3>3, <3>4
    <3>6. o \notin Ext
      BY <1>7, <3>1
    <3>7. QED
      BY <1>1, <1>4, <1>5, <1>6, <3>2, <3>5, <3>6, RowsWithChild
  <2>3. CASE ReverseAuth(s)
    <3>1. "REVERSED" \notin SUCCESS_STATUSES
      BY DEF SUCCESS_STATUSES
    <3>2. QED
      BY <1>1, <1>4, <1>5, <1>6, <1>8, <2>3, <3>1, RowsWithChild
  <2>4. QED
    BY <2>1, <2>2, <2>3
<1>10. QED
  BY <1>4, <1>5, <1>9, ShapeFinish DEF CaptureOperation, RefundCapture, ReverseAuth

(* Inserting the refund of the first service keeps the shape.              *)
LEMMA ShapeInsertRefund ==
    ASSUME ShapeInv, NEW s \in Sessions, InsertRefund(s)
    PROVE  ShapeInv' /\ RowStep(s)
<1>1. PICK o : o = req[s].row
  OBVIOUS
<1>2. PICK c : c = NewId
  OBVIOUS
<1>3. PICK n : n = req[s].amount
  OBVIOUS
<1>4. /\ c \in Free /\ o \in Rows /\ Exists(o) /\ s \in Users /\ row[o].type # "DECLINE"
      /\ WithChild(c, o, NewRow("REFUND", "REFUNDED", n, n, o), row[o].status,
                   row[o].captured, row[o].refunded)
  BY <1>1, <1>2, <1>3, WhatIsInserted
<1>5. /\ row \in [Rows -> RowType] /\ req \in [Sessions -> ReqType]
      /\ BooksOK /\ HistoryOK /\ OnlyPosting
  BY TypesSplit DEF ShapeInv
<1>6. /\ n \in Nat /\ row[o].status \in Statuses /\ row[o].captured \in Nat /\ row[o].refunded \in Nat
      /\ c \in Children /\ c \in Rows
  BY <1>3, <1>4, <1>5 DEF ReqType, RowType, Free, Rows
<1>7. o \in Ext /\ RowFits(o) /\ o \notin Children
  BY <1>1, <1>4, IdsAreDistinct DEF ShapeInv, ReqFits, InsertRefund, IdsAreDistinct
<1>8. RowStep(s) /\ (\A r \in Rows : RowFits(r)') /\ Free' = Free \ {c}
  BY <1>4, <1>6, <1>7, RowsWithChild DEF RowFits
<1> DEFINE q == [pc |-> "post", row |-> c, amount |-> n, seen |-> row'[c]]
<1>9. row'[c] \in RowType
  BY <1>6, <1>8 DEF RowStep
<1>10. q \in ReqType
  BY <1>6, <1>9 DEF ReqType
<1>11. req'[s] = q /\ (\A t \in Sessions \ {s} : req'[t] = req[t]) /\ req' = [t \in Sessions |-> req'[t]]
  <2>1. PICK new : new = row'[c]
    OBVIOUS
  <2>2. req' = [req EXCEPT ![s].pc = "post", ![s].row = c, ![s].seen = new]
    BY <1>2, <2>1 DEF InsertRefund
  <2>3. req'[s] = [pc |-> "post", row |-> c, amount |-> n, seen |-> new]
    BY <1>3, <1>5, <2>2 DEF ReqType
  <2>4. QED
    BY <1>5, <2>1, <2>2, <2>3
<1>12. req' = [req EXCEPT ![s] = q] /\ q.pc = "post"
  BY <1>5, <1>11
<1>13. row'[c].type = "REFUND" /\ row'[c].amount = n
  BY <1>4 DEF WithChild, NewRow
<1>14. ReqFits(s)'
  BY <1>6, <1>11, <1>13 DEF ReqFits, Exists
<1>15. UNCHANGED <<entries, balance, got, written, contended, overlapped, rushed, lost>>
  BY DEF InsertRefund, books, history
<1>16. BooksOK' /\ HistoryOK' /\ OnlyPosting'
  BY <1>5, <1>11, <1>15 DEF BooksOK, HistoryOK, OnlyPosting
<1> HIDE DEF q
<1>17. PICK k : k = q
  OBVIOUS
<1>18. QED
  BY <1>4, <1>8, <1>10, <1>12, <1>14, <1>16, <1>17, ShapeWrites

(* What the commit of a posting makes of the books has its types.          *)
LEMMA BooksPosted ==
    ASSUME ShapeInv, NEW s \in Sessions, CommitPosting(s)
    PROVE  /\ BooksOK'
           /\ written'[s] = {} /\ got'[s] = NothingRead
           /\ \A t \in Sessions \ {s} : written'[t] = written[t] /\ got'[t] = got[t]
<1>1. BooksOK
  BY TypesSplit DEF ShapeInv
<1>2. written[s] \subseteq [row : Rows, account : Accounts, amount : Int, after : Int]
  BY <1>1 DEF BooksOK
<1>3. {EntryOf(w) : w \in written[s]} \subseteq [row : Rows, account : Accounts, amount : Int]
  BY <1>2 DEF EntryOf
<1>4. Synced(s) \in [Accounts -> Int]
  <2>1. ASSUME NEW a \in Accounts, NEW w \in written[s], w.account = a
        PROVE  (CHOOSE x \in written[s] : x.account = a).after \in Int
    <3>1. (CHOOSE x \in written[s] : x.account = a) \in written[s]
      BY <2>1
    <3>2. QED
      BY <1>2, <3>1
  <2>2. QED
    BY <1>1, <2>1 DEF Synced, BooksOK
<1>5. NothingRead \in [account : Accounts \cup {"none"}, value : Int]
  BY DEF NothingRead
<1>6. /\ entries' = entries \cup {EntryOf(w) : w \in written[s]} /\ balance' = Synced(s)
      /\ got' = [got EXCEPT ![s] = NothingRead] /\ written' = [written EXCEPT ![s] = {}]
  BY DEF CommitPosting, Drop
<1>7. QED
  BY <1>1, <1>3, <1>4, <1>5, <1>6 DEF BooksOK

(* The commit of a posting keeps the shape.                                *)
LEMMA ShapePosting ==
    ASSUME ShapeInv, NEW s \in Sessions, CommitPosting(s)
    PROVE  ShapeInv' /\ RowStep(s)
<1>1. PICK o : o = req[s].row
  OBVIOUS
<1>2. /\ row \in [Rows -> RowType] /\ req \in [Sessions -> ReqType]
      /\ HistoryOK /\ OnlyPosting /\ req[s] \in ReqType
  BY TypesSplit DEF ShapeInv
<1>3. /\ o \in Rows /\ Exists(o) /\ row[o].type \in {"AUTH", "REVERSE", "REFUND"}
      /\ RowFree(o) /\ row[o] \in RowType /\ RowFits(o)
  BY <1>1, <1>2 DEF ShapeInv, ReqFits, CommitPosting, Exists
<1>4. PICK status : status = StatusAfterPosting(s)
  OBVIOUS
<1>5. /\ status \in Statuses /\ status \in {row[o].status} \cup (Statuses \ {"none", "CAPTURED"})
      /\ row[o].settled \in Nat
      /\ row[o].type = "REFUND" => status = row[o].status
  BY <1>1, <1>3, <1>4 DEF StatusAfterPosting, RowType, IsRefund, Statuses
<1>6. o \in Children => status \notin SUCCESS_STATUSES
  BY <1>3, <1>5 DEF RowFits
<1>7. Rewritten(o, row[o].type, status, row[o].settled)
  BY <1>1, <1>4, WhatIsRewritten
<1>8. RowStep(s) /\ (\A r \in Rows : RowFits(r)') /\ Free' = Free
  BY <1>3, <1>5, <1>6, <1>7, RowsRewritten
<1>9. BooksOK' /\ HistoryOK'
  BY <1>2, BooksPosted DEF CommitPosting, history, HistoryOK
<1>10. ASSUME NEW q \in ReqType, req' = [req EXCEPT ![s] = q]
       PROVE  OnlyPosting' /\ req'[s] = q
  BY <1>2, <1>10, BooksPosted DEF OnlyPosting
<1>11. CASE Finish(s)
  <2>1. req' = [req EXCEPT ![s] = Idle] /\ Idle \in ReqType /\ Idle.pc = "idle" /\ Idle.row = NoRow
    BY <1>11, AbsentType DEF Finish, Idle
  <2>2. ReqFits(s)' /\ OnlyPosting'
    BY <1>10, <2>1 DEF ReqFits
  <2>3. QED
    BY <1>8, <1>9, <2>1, <2>2, ShapeWrites
<1>12. CASE ~IsRefund(s) /\ Goto(s, "failed")
  <2> DEFINE q == [pc |-> "failed", row |-> o, amount |-> req[s].amount, seen |-> req[s].seen]
  <2>1. q \in ReqType /\ req' = [req EXCEPT ![s] = q]
    <3>1. q \in ReqType
      BY <1>1, <1>2, <1>3 DEF ReqType
    <3>2. req' = [req EXCEPT ![s] = [req[s] EXCEPT !.pc = "failed"]]
      BY <1>2, <1>12 DEF Goto
    <3>3. [req[s] EXCEPT !.pc = "failed"] = q
      BY <1>1, <1>2 DEF ReqType
    <3>4. QED
      BY <3>1, <3>2, <3>3
  <2>2. OnlyPosting' /\ req'[s] = q
    BY <1>10, <2>1
  <2>3. row[o].type \in {"AUTH", "REVERSE"} /\ o \in Ext
    BY <1>1, <1>3, <1>12 DEF IsRefund, RowFits, Rows
  <2>4. row'[o].type = row[o].type
    BY <1>7 DEF Rewritten
  <2>5. ReqFits(s)' /\ q.pc = "failed"
    BY <2>2, <2>3, <2>4 DEF ReqFits
  <2> HIDE DEF q
  <2>6. QED
    BY <1>8, <1>9, <2>1, <2>2, <2>5, ShapeWrites
<1>13. QED
  BY <1>11, <1>12 DEF CommitPosting

(* The shape holds when the system starts.                                 *)
LEMMA ShapeInit == Init => ShapeInv
<1> SUFFICES ASSUME Init PROVE ShapeInv
  OBVIOUS
<1>1. /\ row \in [Rows -> RowType] /\ req \in [Sessions -> ReqType]
      /\ \A r \in Rows : row[r] = Absent
      /\ \A s \in Sessions : req[s] = Idle
  BY AbsentType DEF Init
<1>2. /\ Absent.type = "none" /\ Absent.status = "none" /\ Absent.captured = 0 /\ Absent.amount = 0
      /\ Idle.pc = "idle" /\ Idle.row = NoRow
  BY DEF Absent, NewRow, Idle
<1>3. BooksOK /\ HistoryOK /\ OnlyPosting
  <2>1. NothingRead \in [account : Accounts \cup {"none"}, value : Int]
    BY DEF NothingRead
  <2>2. BooksOK
    BY <2>1 DEF Init, BooksOK
  <2>3. HistoryOK /\ OnlyPosting
    BY DEF Init, HistoryOK, OnlyPosting
  <2>4. QED
    BY <2>2, <2>3
<1>4. TypeOK
  BY <1>1, <1>3, TypesSplit
<1>5. \A r \in Rows : RowFits(r)
  BY <1>1, <1>2 DEF RowFits, Exists, SUCCESS_STATUSES
<1>6. (\A s \in Sessions : ReqFits(s)) /\ LocksExclude
  BY <1>1, <1>2 DEF ReqFits, LocksExclude
<1>7. IdsSuffice
  <2>1. Users = {} /\ Free \subseteq Rows /\ Users \subseteq Sessions
    BY <1>1, <1>2 DEF Users, Free, Rows
  <2>2. Cardinality(Users) = 0
    BY <2>1, FS_EmptySet
  <2>3. Cardinality(Free) \in Nat
    BY <2>1, SetsAreFinite
  <2>4. QED
    BY <2>2, <2>3 DEF IdsSuffice
<1>8. QED
  BY <1>4, <1>5, <1>6, <1>7 DEF ShapeInv

(* Every step keeps the shape.                                             *)
LEMMA ShapeNext == FiniteInv /\ ShapeInv /\ [Next]_vars => ShapeInv'
<1> SUFFICES ASSUME FiniteInv, ShapeInv, [Next]_vars PROVE ShapeInv'
  OBVIOUS
<1>1. CASE UNCHANGED vars
  BY <1>1 DEF vars, ShapeInv, TypeOK, RowFits, ReqFits, Exists, LocksExclude, IdsSuffice, Users, Free
<1>2. ASSUME NEW s \in Sessions, Continue(s) PROVE ShapeInv'
  BY <1>2, ShapeInserts, ShapeEnd, ShapeRefresh, ShapeRead, ShapeWrite, ShapePosting, ShapeRewrites,
     ShapeInsertRefund, ShapeChildren DEF Continue
<1>3. ASSUME NEW s \in Sessions, PostingFails(s) PROVE ShapeInv'
  BY <1>3, ShapeEnd, ShapeFails
<1>4. QED
  BY <1>1, <1>2, <1>3, ShapeStart, ShapeEnd DEF Next

-----------------------------------------------------------------------------
(* What the sessions of a step have in common.                             *)

Acts(s) == Start(s) \/ Continue(s) \/ PostingFails(s) \/ Crash(s)

(* No step takes a row away, or writes one that somebody else has locked.  *)
LEMMA RowsStep ==
    ASSUME ShapeInv, NEW s \in Sessions, Acts(s)
    PROVE  RowStep(s)
<1>1. row \in [Rows -> RowType]
  BY TypesSplit DEF ShapeInv
<1>2. ASSUME row' = row PROVE RowStep(s)
  BY <1>1, <1>2 DEF RowStep, Exists
<1>3. CASE Start(s)
  BY <1>2, <1>3 DEF Start, AuthorizeReplay, vars, AuthorizeChecks, ReverseChecks, LockForReversal,
                    Lock, CommitChecks, RefundChecks, LockForCapture, LockForRefund
<1>4. CASE PostingFails(s) \/ Crash(s)
  BY <1>2, <1>4 DEF PostingFails, Crash
<1>5. CASE Continue(s)
  BY <1>2, <1>5, ShapeInserts, ShapePosting, ShapeRewrites, ShapeInsertRefund, ShapeChildren
     DEF Continue, InsertCollides, RefreshOperation, ReadBalance, WriteBalance, ReverseAuthRefused
<1>6. QED
  BY <1>3, <1>4, <1>5 DEF Acts

(* A step leaves the other requests alone.                                 *)
LEMMA OthersKept ==
    ASSUME ShapeInv, FiniteInv, NEW s \in Sessions, Acts(s), NEW t \in Sessions, t # s
    PROVE  req'[t] = req[t] /\ written'[t] = written[t] /\ got'[t] = got[t]
<1>1. /\ req \in [Sessions -> ReqType] /\ BooksOK
  BY TypesSplit DEF ShapeInv
<1>2. CASE Start(s)
  BY <1>1, <1>2 DEF Start, AuthorizeReplay, vars, AuthorizeChecks, books, ReverseChecks, LockForReversal,
                    Lock, CommitChecks, RefundChecks, LockForCapture, LockForRefund, Begin
<1>3. CASE PostingFails(s) \/ Crash(s)
  BY <1>1, <1>3 DEF PostingFails, Crash, Finish, Goto, Drop, BooksOK
<1>4. CASE InsertOperation(s) \/ DeclineOperation(s) \/ InsertCollides(s) \/ RefreshOperation(s)
  BY <1>1, <1>4 DEF InsertOperation, DeclineOperation, InsertCollides, RefreshOperation, books, Goto, Finish
<1>5. CASE ReadBalance(s) \/ WriteBalance(s) \/ CommitPosting(s)
  BY <1>1, <1>5 DEF ReadBalance, WriteBalance, CommitPosting, Goto, Finish, Drop, BooksOK
<1>6. CASE \/ DeclineFailed(s) \/ CommitOperation(s) \/ ReverseOperation(s) \/ ReverseAuthRefused(s)
           \/ CaptureOperation(s) \/ RefundCapture(s) \/ ReverseAuth(s)
  BY <1>1, <1>6 DEF DeclineFailed, CommitOperation, ReverseOperation, ReverseAuthRefused,
                    CaptureOperation, RefundCapture, ReverseAuth, Finish, books
<1>7. CASE InsertRefund(s)
  <2>1. PICK new : new = row'[NewId]
    OBVIOUS
  <2>2. req' = [req EXCEPT ![s].pc = "post", ![s].row = NewId, ![s].seen = new]
    BY <1>7, <2>1 DEF InsertRefund
  <2>3. QED
    BY <1>1, <1>7, <2>2 DEF InsertRefund, books
<1>8. QED
  BY <1>2, <1>3, <1>4, <1>5, <1>6, <1>7 DEF Acts, Continue

(* Rows that exist keep being refunds or not, and their amounts.           *)
LEMMA RefundsKept ==
    ASSUME NEW s \in Sessions, RowStep(s), NEW r \in Rows, Exists(r)
    PROVE  /\ Exists(r)' /\ row'[r].amount = row[r].amount
           /\ row'[r].type = "REFUND" <=> row[r].type = "REFUND"
BY DEF RowStep

-----------------------------------------------------------------------------
(* Steps that post nothing.                                                *)
LEMMA PostKept ==
    ASSUME ShapeInv, FiniteInv, PostInv, NEW s \in Sessions, RowStep(s),
           UNCHANGED <<entries, balance, overlapped>>,
           \A t \in Sessions \ {s} : req'[t] = req[t] /\ written'[t] = written[t] /\ got'[t] = got[t],
           written'[s] = {}, got'[s] = NothingRead,
           Poster(s)' => \/ Poster(s) /\ req'[s].row = req[s].row
                         \/ req'[s].row \in Rows /\ ~Exists(req'[s].row) /\ row'[req'[s].row].type # "none"
    PROVE  PostInv'
<1>1. \A t \in Sessions : Poster(t) => req[t].row \in Rows /\ Exists(req[t].row)
  BY DEF ShapeInv, ReqFits, Poster, Exists
<1>2. \A r : EntriesOf(r)' = EntriesOf(r)
  BY DEF EntriesOf
<1>3. PostersFit'
  <2>1. \A r \in Rows : Exists(r) => Exists(r)'
    BY DEF RowStep
  <2>2. ASSUME NEW t \in Sessions \ {s}
        PROVE  (Poster(t)' <=> Poster(t)) /\ req'[t].row = req[t].row
    BY <2>2 DEF Poster
  <2>3. \A t, u \in Sessions : Poster(t)' /\ Poster(u)' /\ req'[t].row = req'[u].row => t = u
    BY <1>1, <2>2 DEF PostInv, PostersFit
  <2>4. \A r \in Rows : ~Exists(r)' => EntriesOf(r)' = {}
    BY <1>2, <2>1 DEF PostInv, PostersFit
  <2>5. ASSUME NEW t \in Sessions, Poster(t)'
        PROVE  EntriesOf(req[t].row)' = {}
    <3>1. PICK r : r = req'[t].row
      OBVIOUS
    <3>2. EntriesOf(r) = {}
      BY <2>2, <2>5, <3>1 DEF PostInv, PostersFit
    <3>3. entries' = entries
      OBVIOUS
    <3>4. QED
      BY <3>1, <3>2, <3>3 DEF EntriesOf
  <2>6. QED
    BY <2>3, <2>4, <2>5 DEF PostersFit
<1>4. ASSUME NEW t \in Sessions
      PROVE  WrittenFits(t)'
  <2>1. CASE t = s
    BY <2>1 DEF WrittenFits, NothingRead
  <2>2. CASE t # s /\ req[t].pc = "post"
    <3>1. /\ req'[t] = req[t] /\ written'[t] = written[t] /\ got'[t] = got[t]
          /\ req[t].row \in Rows /\ Exists(req[t].row)
      BY <1>1, <2>2 DEF Poster
    <3>2. IsRefund(t)' <=> IsRefund(t)
      BY <3>1, RefundsKept DEF IsRefund
    <3>3. Order(t)' = Order(t) /\ \A n : Effect(t, n)' = Effect(t, n)
      BY <3>1, <3>2 DEF Order, Effect
    <3>4. \A n, v : Flushed(t, n, v)' = Flushed(t, n, v)
      BY <3>1, <3>3 DEF Flushed
    <3>5. WrittenFits(t)
      BY DEF PostInv
    <3>6. QED
      BY <3>1, <3>3, <3>4, <3>5 DEF WrittenFits
  <2>3. CASE t # s /\ req[t].pc # "post"
    BY <2>3 DEF WrittenFits
  <2>4. QED
    BY <2>1, <2>2, <2>3
<1>5. PostingsAreWhole'
  <2> SUFFICES ASSUME NEW r \in Rows,
                      NEW n, n = IF row'[r].type = "REFUND" THEN row'[r].amount ELSE -row'[r].amount
               PROVE  \/ EntriesOf(r)' = {}
                      \/ EntriesOf(r)' = {[row |-> r, account |-> "client", amount |-> n],
                                          [row |-> r, account |-> "merchant", amount |-> -n]}
    BY DEF PostingsAreWhole
  <2>1. CASE ~Exists(r)
    BY <1>2, <2>1 DEF PostInv, PostersFit
  <2>2. CASE Exists(r)
    <3>1. n = IF row[r].type = "REFUND" THEN row[r].amount ELSE -row[r].amount
      BY <2>2, RefundsKept
    <3>2. QED
      BY <1>2, <3>1 DEF PostInv, PostingsAreWhole
  <2>3. QED
    BY <2>1, <2>2
<1>6. BalancesFit'
  <2>1. \A t \in Sessions, a \in Accounts : Works(t, a)' => Works(t, a) /\ t # s
    BY DEF Works, NothingRead, Accounts
  <2>2. QED
    BY <2>1 DEF PostInv, BalancesFit, Works, NothingRead, Accounts
<1>7. BalanceIsSum' /\ IsFiniteSet(entries')
  BY DEF PostInv, BalanceIsSum
<1>8. QED
  BY <1>3, <1>4, <1>5, <1>6, <1>7 DEF PostInv

(* The cardinality of a pair.                                              *)
LEMMA TwoAreTwo ==
    ASSUME NEW x, NEW y, x # y
    PROVE  IsFiniteSet({x, y}) /\ Cardinality({x, y}) = 2
<1>1. IsFiniteSet({x}) /\ Cardinality({x}) = 1 /\ {x, y} = {x} \cup {y} /\ y \notin {x}
  BY FS_Singleton
<1>2. QED
  BY <1>1, FS_AddElement

(* How much of its posting a request has flushed.                          *)
LEMMA FlushedSoFar ==
    ASSUME PostInv, NEW s \in Sessions, req[s].pc = "post"
    PROVE  /\ Cardinality(written[s]) = 0 =>
                 written[s] = {} /\ got[s].account \in {"none", Order(s)[1]}
           /\ Cardinality(written[s]) = 1 =>
                 /\ \E v \in Int : written[s] = {Flushed(s, 1, v)}
                 /\ got[s].account \in {"none", Order(s)[2]}
           /\ Cardinality(written[s]) = 2 =>
                 /\ \E v, u \in Int : written[s] = {Flushed(s, 1, v), Flushed(s, 2, u)}
                 /\ got[s] = NothingRead
           /\ Cardinality(written[s]) \in {0, 1, 2}
<1>1. WrittenFits(s)
  BY DEF PostInv
<1>2. CASE written[s] = {} /\ got[s].account \in {"none", Order(s)[1]}
  BY <1>2, FS_EmptySet
<1>3. CASE \E v \in Int : written[s] = {Flushed(s, 1, v)} /\ got[s].account \in {"none", Order(s)[2]}
  <2>1. PICK x : written[s] = {x}
    BY <1>3
  <2>2. Cardinality(written[s]) = 1
    BY <2>1, FS_Singleton
  <2>3. QED
    BY <1>3, <2>2
<1>4. CASE \E v, u \in Int : written[s] = {Flushed(s, 1, v), Flushed(s, 2, u)} /\ got[s] = NothingRead
  <2>1. PICK v \in Int, u \in Int :
           written[s] = {Flushed(s, 1, v), Flushed(s, 2, u)} /\ got[s] = NothingRead
    BY <1>4
  <2>2. Flushed(s, 1, v) # Flushed(s, 2, u)
    <3>1. Flushed(s, 1, v).account = Order(s)[1] /\ Flushed(s, 2, u).account = Order(s)[2]
      BY DEF Flushed
    <3>2. Order(s)[1] # Order(s)[2]
      BY DEF Order
    <3>3. QED
      BY <3>1, <3>2
  <2>3. Cardinality(written[s]) = 2
    <3>1. PICK x, y : x = Flushed(s, 1, v) /\ y = Flushed(s, 2, u)
      OBVIOUS
    <3>2. Cardinality({x, y}) = 2
      BY <2>2, <3>1, TwoAreTwo
    <3>3. QED
      BY <2>1, <3>1, <3>2
  <2>4. QED
    BY <2>1, <2>3
<1>5. QED
  BY <1>1, <1>2, <1>3, <1>4 DEF WrittenFits

(* Reading and flushing leave what was posted alone.                       *)
LEMMA PostersKept ==
    ASSUME ShapeInv, PostInv, UNCHANGED <<row, req, entries, balance>>, NEW s \in Sessions,
           \A t \in Sessions \ {s} : written'[t] = written[t] /\ got'[t] = got[t],
           WrittenFits(s)', BalancesFit', overlapped \subseteq overlapped'
    PROVE  PostInv'
<1>1. PostersFit'
  BY DEF PostInv, PostersFit, Poster, EntriesOf, Exists
<1>2. ASSUME NEW t \in Sessions
      PROVE  WrittenFits(t)'
  <2>1. CASE t = s
    BY <2>1
  <2>2. CASE t # s
    <3>1. WrittenFits(t) /\ written'[t] = written[t] /\ got'[t] = got[t]
      BY <2>2 DEF PostInv
    <3>2. Order(t)' = Order(t) /\ \A n, v : Flushed(t, n, v)' = Flushed(t, n, v)
      BY DEF Order, IsRefund, Flushed, Effect
    <3>3. QED
      BY <3>1, <3>2 DEF WrittenFits
  <2>3. QED
    BY <2>1, <2>2
<1>3. PostingsAreWhole'
  BY DEF PostInv, PostingsAreWhole, EntriesOf
<1>4. BalanceIsSum' /\ IsFiniteSet(entries')
  BY DEF PostInv, BalanceIsSum
<1>5. QED
  BY <1>1, <1>2, <1>3, <1>4 DEF PostInv

(* ReadBalance keeps the postings.                                         *)
LEMMA PostRead ==
    ASSUME ShapeInv, FiniteInv, PostInv, NEW s \in Sessions, ReadBalance(s)
    PROVE  PostInv'
<1>1. PICK a : a = NextAccount(s)
  OBVIOUS
<1>2. /\ Cardinality(written[s]) \in {0, 1} /\ a \in Accounts
      /\ a = IF Cardinality(written[s]) = 0 THEN Order(s)[1] ELSE Order(s)[2]
  BY <1>1, NextIsAccount DEF ReadBalance
<1>3. /\ UNCHANGED <<row, req, entries, balance, written>> /\ req[s].pc = "post"
      /\ got[s] = NothingRead
      /\ got' = [got EXCEPT ![s] = [account |-> a, value |-> balance[a]]]
      /\ overlapped' = IF \E t \in Sessions \ {s} : Works(t, a) THEN overlapped \cup {a} ELSE overlapped
  BY <1>1 DEF ReadBalance, Posting, Works
<1>4. /\ got'[s].account = a /\ got'[s].value = balance[a]
      /\ \A t \in Sessions \ {s} : got'[t] = got[t]
  BY <1>3 DEF FiniteInv
<1>5. Order(s)' = Order(s) /\ \A n, v : Flushed(s, n, v)' = Flushed(s, n, v)
  BY <1>3 DEF Order, IsRefund, Flushed, Effect
<1>6. WrittenFits(s)'
  <2>1. CASE Cardinality(written[s]) = 0
    BY <1>2, <1>3, <1>4, <1>5, <2>1, FlushedSoFar DEF WrittenFits
  <2>2. CASE Cardinality(written[s]) = 1
    BY <1>2, <1>3, <1>4, <1>5, <2>2, FlushedSoFar DEF WrittenFits
  <2>3. QED
    BY <1>2, <2>1, <2>2
<1>7. BalancesFit'
  <2> SUFFICES ASSUME NEW b \in Accounts \ overlapped'
               PROVE  /\ \A t, u \in Sessions : Works(t, b)' /\ Works(u, b)' => t = u
                      /\ \A t \in Sessions : got'[t].account = b => got'[t].value = balance'[b]
                      /\ \A t \in Sessions : \A w \in written'[t] :
                            w.account = b => w.after = balance'[b] + w.amount
    BY DEF BalancesFit
  <2>1. b \in Accounts \ overlapped
    BY <1>3
  <2>2. \A t \in Sessions \ {s} : Works(t, b)' <=> Works(t, b)
    BY <1>3, <1>4 DEF Works
  <2>3. CASE b = a
    <3>1. \A t \in Sessions \ {s} : ~Works(t, b)
      BY <1>3, <2>3
    <3>2. QED
      BY <1>3, <1>4, <2>1, <2>2, <2>3, <3>1 DEF PostInv, BalancesFit, Works
  <2>4. CASE b # a
    <3>1. Works(s, b)' <=> Works(s, b)
      BY <1>3, <1>4, <2>4 DEF Works, NothingRead, Accounts
    <3>2. QED
      BY <1>3, <1>4, <2>1, <2>2, <2>4, <3>1 DEF PostInv, BalancesFit
  <2>5. QED
    BY <2>3, <2>4
<1>8. QED
  BY <1>3, <1>4, <1>6, <1>7, PostersKept

(* WriteBalance keeps the postings.                                        *)
LEMMA PostWrite ==
    ASSUME ShapeInv, FiniteInv, PostInv, NEW s \in Sessions, WriteBalance(s)
    PROVE  PostInv'
<1>1. BooksOK /\ OnlyPosting /\ req[s] \in ReqType
  BY TypesSplit DEF ShapeInv
<1>2. /\ UNCHANGED <<row, req, entries, balance, overlapped>> /\ req[s].pc = "post"
      /\ got[s] # NothingRead
  BY <1>1 DEF WriteBalance, OnlyPosting, history
<1>3. got[s].account # "none" /\ got[s].value \in Int /\ req[s].amount \in Nat
  BY <1>1, <1>2 DEF FiniteInv, BooksOK, ReqType
<1>4. PICK a, n, e, v : /\ a = got[s].account /\ n = Cardinality(written[s]) /\ e = Effect(s, n + 1)
                        /\ v = got[s].value + e
  OBVIOUS
<1> DEFINE w == [row |-> req[s].row, account |-> a, amount |-> e, after |-> v]
<1>5. written' = [written EXCEPT ![s] = written[s] \cup {w}] /\ got' = [got EXCEPT ![s] = NothingRead]
  BY <1>4 DEF WriteBalance
<1>6. /\ written'[s] = written[s] \cup {w} /\ got'[s] = NothingRead
      /\ \A t \in Sessions \ {s} : written'[t] = written[t] /\ got'[t] = got[t]
  BY <1>5 DEF FiniteInv
<1>7. n \in {0, 1} /\ e \in Int /\ v \in Int /\ a = Order(s)[n + 1] /\ w = Flushed(s, n + 1, v)
  <2>1. n \in {0, 1} /\ a = Order(s)[n + 1]
    BY <1>2, <1>3, <1>4, FlushedSoFar
  <2>2. e \in Int /\ v \in Int
    BY <1>3, <1>4 DEF Effect
  <2>3. QED
    BY <1>4, <2>1, <2>2 DEF Flushed
<1>8. w.account = a /\ w.amount = e /\ w.after = v
  OBVIOUS
<1> HIDE DEF w
<1>9. Order(s)' = Order(s) /\ \A k, u : Flushed(s, k, u)' = Flushed(s, k, u)
  BY <1>2 DEF Order, IsRefund, Flushed, Effect
<1>10. NothingRead.account = "none"
  BY DEF NothingRead
<1>11. WrittenFits(s)'
  <2>1. CASE n = 0
    <3>1. written[s] = {}
      BY <1>2, <1>4, <2>1, FlushedSoFar
    <3>2. n + 1 = 1
      BY <2>1
    <3>3. written'[s] = {Flushed(s, 1, v)}
      BY <1>6, <1>7, <3>1, <3>2
    <3>4. QED
      BY <1>6, <1>7, <1>9, <1>10, <3>3 DEF WrittenFits
  <2>2. CASE n = 1
    <3>1. PICK u \in Int : written[s] = {Flushed(s, 1, u)}
      BY <1>2, <1>4, <2>2, FlushedSoFar
    <3>2. written'[s] = {Flushed(s, 1, u), Flushed(s, 2, v)}
      BY <1>6, <1>7, <2>2, <3>1
    <3>3. QED
      BY <1>6, <1>7, <1>9, <3>2 DEF WrittenFits
  <2>3. QED
    BY <1>7, <2>1, <2>2
<1>12. BalancesFit'
  <2> SUFFICES ASSUME NEW b \in Accounts \ overlapped
               PROVE  /\ \A t, u \in Sessions : Works(t, b)' /\ Works(u, b)' => t = u
                      /\ \A t \in Sessions : got'[t].account = b => got'[t].value = balance[b]
                      /\ \A t \in Sessions : \A x \in written'[t] :
                            x.account = b => x.after = balance[b] + x.amount
    BY <1>2 DEF BalancesFit
  <2>1. \A t \in Sessions : Works(t, b)' => Works(t, b)
    BY <1>4, <1>6, <1>8, <1>10 DEF Works, Accounts
  <2>2. \A t \in Sessions : got'[t].account = b => got'[t].value = balance[b]
    BY <1>6, <1>10 DEF PostInv, BalancesFit, Accounts
  <2>3. a = b => v = balance[b] + e
    BY <1>4 DEF PostInv, BalancesFit
  <2>4. \A t \in Sessions : \A x \in written'[t] : x.account = b => x.after = balance[b] + x.amount
    BY <1>6, <1>8, <2>3 DEF PostInv, BalancesFit
  <2>5. QED
    BY <2>1, <2>2, <2>4 DEF PostInv, BalancesFit
<1>13. QED
  BY <1>2, <1>6, <1>11, <1>12, PostersKept

(* One entry more on an account.                                           *)
LEMMA SumOfEntriesGrows ==
    ASSUME NEW E, IsFiniteSet(E), E \subseteq [row : Rows, account : Accounts, amount : Int],
           NEW F, F \subseteq [row : Rows, account : Accounts, amount : Int], E \subseteq F,
           NEW e \in F, e \notin E, NEW a, e.account = a,
           \A x \in F : x.account = a => x \in E \/ x = e
    PROVE  SumOf([x \in F |-> x.amount], {x \in F : x.account = a})
              = SumOf([x \in E |-> x.amount], {x \in E : x.account = a}) + e.amount
<1> DEFINE f == [x \in E |-> x.amount]
           g == [x \in F |-> x.amount]
           S == {x \in E : x.account = a}
           T == {x \in F : x.account = a}
<1>1. /\ S \subseteq E /\ T = S \cup {e} /\ e \notin S
      /\ \A x \in S : f[x] = g[x] /\ f[x] \in Int
      /\ \A x \in S \cup {e} : g[x] \in Int
      /\ g[e] = e.amount /\ e.amount \in Int
  OBVIOUS
<1> HIDE DEF f, g, S, T
<1>2. IsFiniteSet(S)
  BY <1>1, FS_Subset
<1>3. SumOf(g, S \cup {e}) = g[e] + SumOf(g, S)
  BY <1>1, <1>2, SumAdd
<1>4. SumOf(f, S) = SumOf(g, S)
  BY <1>1, <1>2, SumSame
<1>5. SumOf(f, S) \in Int
  BY <1>1, <1>2, SumType
<1>6. SumOf(g, T) = SumOf(f, S) + e.amount
  BY <1>1, <1>3, <1>4, <1>5
<1>7. QED
  BY <1>6 DEF f, g, S, T

(* The commit of a posting adds the debit and the credit.                  *)
LEMMA WhatIsPosted ==
    ASSUME ShapeInv, FiniteInv, PostInv, NEW s \in Sessions, CommitPosting(s),
           NEW o, o = req[s].row, NEW n, n = req[s].amount
    PROVE  /\ o \in Rows /\ Exists(o) /\ n \in Nat /\ row[o].amount = n /\ EntriesOf(o) = {}
           /\ Order(s)[1] \in Accounts /\ Order(s)[2] \in Accounts /\ Order(s)[1] # Order(s)[2]
           /\ entries' = entries \cup {[row |-> o, account |-> Order(s)[1], amount |-> -n],
                                       [row |-> o, account |-> Order(s)[2], amount |-> n]}
           /\ \A a \in Accounts : Works(s, a)
           /\ \A a \in Accounts \ overlapped :
                 balance'[a] = balance[a] + (IF a = Order(s)[1] THEN -n ELSE n)
<1>1. req[s].pc = "post" /\ Cardinality(written[s]) = 2 /\ req[s] \in ReqType
  BY TypesSplit DEF CommitPosting, ShapeInv
<1>2. o \in Rows /\ Exists(o) /\ n \in Nat /\ row[o].amount = n /\ EntriesOf(o) = {}
  BY <1>1 DEF ShapeInv, ReqFits, PostInv, PostersFit, Poster, ReqType, Exists
<1>3. PICK v \in Int, u \in Int : written[s] = {Flushed(s, 1, v), Flushed(s, 2, u)}
  BY <1>1, FlushedSoFar
<1>4. PICK a1, a2 : a1 = Order(s)[1] /\ a2 = Order(s)[2]
  OBVIOUS
<1>5. Accounts = {a1, a2} /\ a1 # a2
  BY <1>4 DEF Order, Accounts
<1>6. PICK w1, w2 : w1 = Flushed(s, 1, v) /\ w2 = Flushed(s, 2, u)
  OBVIOUS
<1>7. /\ w1.row = o /\ w1.account = a1 /\ w1.amount = -n
      /\ w2.row = o /\ w2.account = a2 /\ w2.amount = n
  BY <1>4, <1>6 DEF Flushed, Effect
<1>8. written[s] = {w1, w2}
  BY <1>3, <1>6
<1>9. entries' = entries \cup {EntryOf(w1), EntryOf(w2)} /\ balance' = Synced(s)
  BY <1>8 DEF CommitPosting
<1>10. \A a \in Accounts : Works(s, a)
  BY <1>5, <1>7, <1>8 DEF Works
<1>11. ASSUME NEW a \in Accounts \ overlapped
       PROVE  balance'[a] = balance[a] + (IF a = a1 THEN -n ELSE n)
  <2>1. PICK w \in written[s] : w.account = a
    BY <1>5, <1>7, <1>8
  <2>2. (CHOOSE x \in written[s] : x.account = a) = w
    BY <1>5, <1>7, <1>8, <2>1
  <2>3. balance'[a] = w.after
    BY <1>9, <2>1, <2>2 DEF Synced
  <2>4. w.after = balance[a] + w.amount
    BY <1>11, <2>1 DEF PostInv, BalancesFit
  <2>5. w.amount = IF a = a1 THEN -n ELSE n
    BY <1>5, <1>7, <1>8, <2>1
  <2>6. QED
    BY <2>3, <2>4, <2>5
<1>12. QED
  BY <1>2, <1>4, <1>5, <1>7, <1>9, <1>10, <1>11 DEF EntryOf

(* The commit stores a whole posting.                                      *)
LEMMA PostCommit ==
    ASSUME ShapeInv, FiniteInv, PostInv, NEW s \in Sessions, CommitPosting(s)
    PROVE  PostInv'
<1>1. PICK o, n : o = req[s].row /\ n = req[s].amount
  OBVIOUS
<1>2. PICK a1, a2 : a1 = Order(s)[1] /\ a2 = Order(s)[2]
  OBVIOUS
<1> DEFINE e1 == [row |-> o, account |-> a1, amount |-> -n]
           e2 == [row |-> o, account |-> a2, amount |-> n]
<1>3. /\ o \in Rows /\ Exists(o) /\ n \in Nat /\ row[o].amount = n /\ EntriesOf(o) = {}
      /\ a1 \in Accounts /\ a2 \in Accounts /\ a1 # a2
      /\ entries' = entries \cup {e1, e2}
      /\ \A a \in Accounts : Works(s, a)
      /\ \A a \in Accounts \ overlapped : balance'[a] = balance[a] + (IF a = a1 THEN -n ELSE n)
  BY <1>1, <1>2, WhatIsPosted
<1>4. RowStep(s) /\ row'[o].type = row[o].type /\ row'[o].amount = n
  <2>1. RowStep(s)
    BY RowsStep DEF Acts, Continue
  <2>2. Rewritten(o, row[o].type, StatusAfterPosting(s), row[o].settled)
    BY <1>1, WhatIsRewritten
  <2>3. QED
    BY <1>3, <2>1, <2>2 DEF Rewritten
<1>5. /\ written'[s] = {} /\ got'[s] = NothingRead /\ BooksOK'
      /\ \A t \in Sessions \ {s} : written'[t] = written[t] /\ got'[t] = got[t] /\ req'[t] = req[t]
  BY BooksPosted, OthersKept DEF Acts, Continue
<1>6. req'[s].pc \in {"idle", "failed"} /\ overlapped' = overlapped
  <2>1. req \in [Sessions -> ReqType]
    BY TypesSplit DEF ShapeInv
  <2>2. QED
    BY <2>1 DEF CommitPosting, Finish, Goto, Idle, history, ReqType
<1>7. /\ EntriesOf(o)' = {e1, e2}
      /\ \A r : r # o => EntriesOf(r)' = EntriesOf(r)
      /\ e1 \notin entries /\ e2 \notin entries
  BY <1>3 DEF EntriesOf
<1>8. PostersFit'
  <2>1. \A t \in Sessions : Poster(t)' => t # s /\ Poster(t) /\ req'[t] = req[t]
    BY <1>5, <1>6 DEF Poster
  <2>2. \A r \in Rows : Exists(r) => Exists(r)'
    BY <1>4 DEF RowStep
  <2>3. Poster(s)
    BY DEF Poster, CommitPosting
  <2>4. ASSUME NEW t \in Sessions, Poster(t)'
        PROVE  EntriesOf(req[t].row)' = {}
    <3>1. PICK r : r = req[t].row
      OBVIOUS
    <3>2. r # o /\ EntriesOf(r) = {} /\ req'[t].row = r
      BY <1>1, <2>1, <2>3, <2>4, <3>1 DEF PostInv, PostersFit
    <3>3. EntriesOf(r)' = {}
      BY <1>7, <3>2
    <3>4. QED
      BY <3>2, <3>3 DEF EntriesOf
  <2>5. \A r \in Rows : ~Exists(r)' => EntriesOf(r)' = {}
    BY <1>3, <1>7, <2>2 DEF PostInv, PostersFit
  <2>6. QED
    BY <2>1, <2>4, <2>5 DEF PostInv, PostersFit
<1>9. ASSUME NEW t \in Sessions
      PROVE  WrittenFits(t)'
  <2>1. CASE t = s
    BY <1>6, <2>1 DEF WrittenFits
  <2>2. CASE t # s /\ req[t].pc = "post"
    <3>1. /\ req'[t] = req[t] /\ written'[t] = written[t] /\ got'[t] = got[t]
          /\ req[t].row \in Rows /\ Exists(req[t].row)
      BY <1>5, <2>2 DEF ShapeInv, ReqFits, Exists
    <3>2. IsRefund(t)' <=> IsRefund(t)
      BY <1>4, <3>1, RefundsKept DEF IsRefund
    <3>3. Order(t)' = Order(t) /\ \A k : Effect(t, k)' = Effect(t, k)
      BY <3>1, <3>2 DEF Order, Effect
    <3>4. \A k, v : Flushed(t, k, v)' = Flushed(t, k, v)
      BY <3>1, <3>3 DEF Flushed
    <3>5. WrittenFits(t)
      BY DEF PostInv
    <3>6. QED
      BY <3>1, <3>3, <3>4, <3>5 DEF WrittenFits
  <2>3. CASE t # s /\ req[t].pc # "post"
    BY <1>5, <2>3 DEF WrittenFits
  <2>4. QED
    BY <2>1, <2>2, <2>3
<1>10. PostingsAreWhole'
  <2> SUFFICES ASSUME NEW r \in Rows,
                      NEW k, k = IF row'[r].type = "REFUND" THEN row'[r].amount ELSE -row'[r].amount
               PROVE  \/ EntriesOf(r)' = {}
                      \/ EntriesOf(r)' = {[row |-> r, account |-> "client", amount |-> k],
                                          [row |-> r, account |-> "merchant", amount |-> -k]}
    BY DEF PostingsAreWhole
  <2>1. CASE r = o
    <3>1. CASE row[o].type = "REFUND"
      <4>1. k = n /\ a1 = "merchant" /\ a2 = "client"
        BY <1>1, <1>2, <1>4, <2>1, <3>1 DEF Order, IsRefund
      <4>2. QED
        BY <1>7, <2>1, <4>1
    <3>2. CASE row[o].type # "REFUND"
      <4>1. k = -n /\ a1 = "client" /\ a2 = "merchant" /\ -k = n
        BY <1>1, <1>2, <1>3, <1>4, <2>1, <3>2 DEF Order, IsRefund
      <4>2. QED
        BY <1>7, <2>1, <4>1
    <3>3. QED
      BY <3>1, <3>2
  <2>2. CASE r # o /\ ~Exists(r)
    BY <1>7, <2>2 DEF PostInv, PostersFit
  <2>3. CASE r # o /\ Exists(r)
    <3>1. k = IF row[r].type = "REFUND" THEN row[r].amount ELSE -row[r].amount
      BY <1>4, <2>3, RefundsKept
    <3>2. QED
      BY <1>7, <2>3, <3>1 DEF PostInv, PostingsAreWhole
  <2>4. QED
    BY <2>1, <2>2, <2>3
<1>11. BalancesFit'
  <2>1. ASSUME NEW a \in Accounts \ overlapped, NEW t \in Sessions
        PROVE  ~Works(t, a)'
    <3>1. CASE t = s
      BY <1>5, <3>1 DEF Works, NothingRead, Accounts
    <3>2. CASE t # s
      <4>1. ~Works(t, a)
        BY <1>3, <3>2 DEF PostInv, BalancesFit
      <4>2. QED
        BY <1>5, <3>2, <4>1 DEF Works
    <3>3. QED
      BY <3>1, <3>2
  <2>2. QED
    BY <1>6, <2>1 DEF BalancesFit, Works
<1>12. entries \subseteq [row : Rows, account : Accounts, amount : Int] /\ balance \in [Accounts -> Int]
  BY TypesSplit DEF ShapeInv, BooksOK
<1>13. entries' \subseteq [row : Rows, account : Accounts, amount : Int]
  BY <1>5 DEF BooksOK
<1>14. /\ e1 \in entries' /\ e1.account = a1 /\ e1.amount = -n
       /\ e2 \in entries' /\ e2.account = a2 /\ e2.amount = n
       /\ Accounts = {a1, a2} /\ entries \subseteq entries'
       /\ \A x \in entries' : x \in entries \/ x = e1 \/ x = e2
  BY <1>2, <1>3 DEF Accounts, Order
<1> HIDE DEF e1, e2
<1>15. IsFiniteSet(entries) /\ IsFiniteSet(entries')
  <2>1. IsFiniteSet(entries)
    BY DEF PostInv
  <2>2. IsFiniteSet(entries \cup {e1})
    BY <2>1, FS_AddElement
  <2>3. IsFiniteSet((entries \cup {e1}) \cup {e2})
    BY <2>2, FS_AddElement
  <2>4. (entries \cup {e1}) \cup {e2} = entries'
    BY <1>3
  <2>5. QED
    BY <2>1, <2>3, <2>4
<1>16. BalanceIsSum'
  <2> SUFFICES ASSUME NEW a \in Accounts \ overlapped
               PROVE  balance'[a] = SumOf([e \in entries' |-> e.amount], {e \in entries' : e.account = a})
    BY <1>6 DEF BalanceIsSum
  <2>1. balance[a] = SumOf([e \in entries |-> e.amount], {e \in entries : e.account = a})
    BY DEF PostInv, BalanceIsSum
  <2>2. PICK E, F : E = entries /\ F = entries'
    OBVIOUS
  <2>3. CASE a = a1
    <3>1. \A x \in F : x.account = a => x \in E \/ x = e1
      BY <1>3, <1>14, <2>2, <2>3
    <3>2. SumOf([x \in F |-> x.amount], {x \in F : x.account = a})
             = SumOf([x \in E |-> x.amount], {x \in E : x.account = a}) + e1.amount
      BY <1>7, <1>12, <1>13, <1>14, <1>15, <2>2, <2>3, <3>1, SumOfEntriesGrows
    <3>3. QED
      BY <1>3, <1>14, <2>1, <2>2, <2>3, <3>2
  <2>4. CASE a = a2
    <3>1. \A x \in F : x.account = a => x \in E \/ x = e2
      BY <1>3, <1>14, <2>2, <2>4
    <3>2. SumOf([x \in F |-> x.amount], {x \in F : x.account = a})
             = SumOf([x \in E |-> x.amount], {x \in E : x.account = a}) + e2.amount
      BY <1>7, <1>12, <1>13, <1>14, <1>15, <2>2, <2>4, <3>1, SumOfEntriesGrows
    <3>3. QED
      BY <1>3, <1>14, <2>1, <2>2, <2>4, <3>2
  <2>5. QED
    BY <1>14, <2>3, <2>4
<1>17. QED
  BY <1>8, <1>9, <1>10, <1>11, <1>15, <1>16 DEF PostInv

(* The other steps of a request post nothing.                              *)
LEMMA PostOther ==
    ASSUME ShapeInv, FiniteInv, PostInv, NEW s \in Sessions, Acts(s),
           ~ReadBalance(s), ~WriteBalance(s), ~CommitPosting(s)
    PROVE  PostInv'
<1>1. RowStep(s) /\ \A t \in Sessions \ {s} : /\ req'[t] = req[t] /\ written'[t] = written[t]
                                             /\ got'[t] = got[t]
  BY RowsStep, OthersKept
<1>2. req \in [Sessions -> ReqType] /\ BooksOK /\ OnlyPosting
  BY TypesSplit DEF ShapeInv
<1>3. ASSUME req[s].pc # "post", UNCHANGED <<entries, balance, got, written, overlapped>>,
             Poster(s)' => \/ Poster(s) /\ req'[s].row = req[s].row
                           \/ req'[s].row \in Rows /\ ~Exists(req'[s].row) /\ row'[req'[s].row].type # "none"
      PROVE  PostInv'
  <2>1. written'[s] = {} /\ got'[s] = NothingRead
    BY <1>2, <1>3 DEF OnlyPosting
  <2>2. QED
    BY <1>1, <1>3, <2>1, PostKept
<1>4. CASE Start(s)
  <2>1. CASE \E x \in Ext : AuthorizeReplay(s, x)
    <3>1. UNCHANGED <<row, entries, balance, got, written, overlapped, req>> /\ req[s] = Idle
      BY <2>1 DEF AuthorizeReplay, vars
    <3>2. req[s].pc # "post" /\ ~Poster(s)'
      BY <3>1 DEF Idle, Poster
    <3>3. QED
      BY <1>3, <3>1, <3>2
  <2>2. CASE ~\E x \in Ext : AuthorizeReplay(s, x)
    <3>1. UNCHANGED <<entries, balance, got, written, overlapped>> /\ req[s] = Idle
      BY <1>4, <2>2 DEF Start, AuthorizeChecks, books, ReverseChecks, LockForReversal,
                        Lock, CommitChecks, RefundChecks, LockForCapture, LockForRefund, Begin
    <3>2. req'[s].pc \in {"insert", "reverse", "locked", "commit", "refund"}
      BY <1>2, <1>4, <2>2 DEF Start, AuthorizeChecks, ReverseChecks, LockForReversal,
                        Lock, CommitChecks, RefundChecks, LockForCapture, LockForRefund, Begin
    <3>3. req[s].pc # "post" /\ ~Poster(s)'
      BY <3>1, <3>2 DEF Idle, Poster
    <3>4. QED
      BY <1>3, <3>1, <3>3
  <2>3. QED
    BY <2>1, <2>2
<1>5. CASE PostingFails(s) \/ Crash(s)
  <2>1. /\ UNCHANGED <<entries, balance, overlapped>>
        /\ got' = [got EXCEPT ![s] = NothingRead] /\ written' = [written EXCEPT ![s] = {}]
        /\ req' = [req EXCEPT ![s] = Idle] \/ req' = [req EXCEPT ![s].pc = "failed"]
    BY <1>5 DEF PostingFails, Crash, Drop, Finish, Goto
  <2>2. written'[s] = {} /\ got'[s] = NothingRead
    BY <1>2, <2>1 DEF BooksOK
  <2>3. req'[s].pc \in {"idle", "failed"}
    BY <1>2, <2>1 DEF Idle, ReqType
  <2>4. ~Poster(s)'
    BY <2>3 DEF Poster
  <2>5. QED
    BY <1>1, <2>1, <2>2, <2>4, PostKept
<1>6. CASE \/ DeclineOperation(s) \/ InsertCollides(s) \/ DeclineFailed(s) \/ CommitOperation(s)
           \/ ReverseOperation(s) \/ ReverseAuthRefused(s)
           \/ CaptureOperation(s) \/ RefundCapture(s) \/ ReverseAuth(s)
  <2>1. /\ UNCHANGED <<entries, balance, got, written, overlapped>>
        /\ req' = [req EXCEPT ![s] = Idle] /\ req[s].pc # "post"
    BY <1>6 DEF DeclineOperation, InsertCollides, DeclineFailed, CommitOperation, ReverseOperation,
           ReverseAuthRefused, CaptureOperation, RefundCapture, ReverseAuth, Finish, books, history
  <2>2. req'[s].pc = "idle"
    BY <1>2, <2>1 DEF Idle
  <2>3. ~Poster(s)'
    BY <2>2 DEF Poster
  <2>4. QED
    BY <1>3, <2>1, <2>3
<1>7. CASE InsertOperation(s)
  <2>1. /\ UNCHANGED <<entries, balance, got, written, overlapped>>
        /\ req' = [req EXCEPT ![s].pc = "refresh"] /\ req[s].pc = "insert" /\ ~Exists(req[s].row)
    BY <1>7 DEF InsertOperation, Checked, Goto, books, history
  <2>2. PICK x : x = req[s].row
    OBVIOUS
  <2>3. x \in Rows
    BY <2>1, <2>2 DEF ShapeInv, ReqFits, Rows
  <2>4. req'[s].row = x
    BY <1>2, <2>1, <2>2 DEF ReqType
  <2>5. row \in [Rows -> RowType]
    BY TypesSplit DEF ShapeInv
  <2>6. Exists(x)'
    BY <1>7, <2>2, <2>3, <2>5 DEF InsertOperation, NewRow, Exists
  <2>7. ~Exists(req'[s].row) /\ req'[s].row \in Rows /\ row'[req'[s].row].type # "none"
    BY <2>1, <2>2, <2>3, <2>4, <2>6 DEF Exists
  <2>8. QED
    BY <1>3, <2>1, <2>7 DEF Exists
<1>8. CASE RefreshOperation(s)
  <2>1. /\ UNCHANGED <<entries, balance, got, written, overlapped>>
        /\ req[s].pc = "refresh" /\ req'[s].row = req[s].row
    BY <1>2, <1>8 DEF RefreshOperation, books, history, ReqType
  <2>2. Poster(s)
    BY <2>1 DEF Poster
  <2>3. QED
    BY <1>3, <2>1, <2>2
<1>9. CASE InsertRefund(s)
  <2>1. UNCHANGED <<entries, balance, got, written, overlapped>> /\ req[s].pc = "refund"
    BY <1>9 DEF InsertRefund, books, history
  <2>2. PICK c, new : c = NewId /\ new = row'[NewId]
    OBVIOUS
  <2>3. c \in Rows /\ ~Exists(c)
    BY <2>1, <2>2, NewIdIsFree DEF Users, Free, Rows
  <2>4. req' = [req EXCEPT ![s].pc = "post", ![s].row = c, ![s].seen = new]
    BY <1>9, <2>2 DEF InsertRefund
  <2>5. req'[s].row = c
    BY <1>2, <2>4 DEF ReqType
  <2>6. row \in [Rows -> RowType]
    BY TypesSplit DEF ShapeInv
  <2>7. row'[c].type # "none"
    BY <1>9, <2>2, <2>3, <2>6 DEF InsertRefund, NewRow
  <2>8. QED
    BY <1>3, <2>1, <2>3, <2>5, <2>7 DEF Exists
<1>10. QED
  BY <1>4, <1>5, <1>6, <1>7, <1>8, <1>9 DEF Acts, Continue

(* The postings fit when the system starts.                                *)
LEMMA PostInit == Init => PostInv
<1> SUFFICES ASSUME Init PROVE PostInv
  OBVIOUS
<1>1. /\ entries = {} /\ balance = [a \in Accounts |-> 0] /\ \A s \in Sessions : req[s].pc = "idle"
      /\ \A s \in Sessions : got[s] = NothingRead /\ written[s] = {}
  BY DEF Init, Idle
<1>2. PostersFit /\ PostingsAreWhole
  BY <1>1 DEF PostersFit, Poster, EntriesOf, PostingsAreWhole
<1>3. \A s \in Sessions : WrittenFits(s)
  BY <1>1 DEF WrittenFits
<1>4. BalancesFit /\ IsFiniteSet(entries)
  BY <1>1, FS_EmptySet DEF BalancesFit, Works, NothingRead, Accounts
<1>5. BalanceIsSum
  <2> SUFFICES ASSUME NEW a \in Accounts
               PROVE  balance[a] = SumOf([e \in entries |-> e.amount], {e \in entries : e.account = a})
    BY DEF BalanceIsSum
  <2>1. {e \in entries : e.account = a} = {}
    BY <1>1
  <2>2. SumOf([e \in entries |-> e.amount], {}) = 0
    BY SumEmpty
  <2>3. QED
    BY <1>1, <2>1, <2>2
<1>6. QED
  BY <1>2, <1>3, <1>4, <1>5 DEF PostInv

(* Every step keeps the postings.                                          *)
LEMMA PostNext == FiniteInv /\ ShapeInv /\ PostInv /\ [Next]_vars => PostInv'
<1> SUFFICES ASSUME FiniteInv, ShapeInv, PostInv, [Next]_vars PROVE PostInv'
  OBVIOUS
<1>1. CASE UNCHANGED vars
  BY <1>1 DEF vars, PostInv, PostersFit, Poster, EntriesOf, Exists, WrittenFits, Flushed, Order, IsRefund,
              Effect, PostingsAreWhole, BalancesFit, Works, BalanceIsSum
<1>2. ASSUME NEW s \in Sessions, Acts(s) PROVE PostInv'
  BY <1>2, PostRead, PostWrite, PostCommit, PostOther
<1>3. QED
  BY <1>1, <1>2 DEF Next, Acts

-----------------------------------------------------------------------------
(* A step writes the row its request works on, and inserts children of it. *)

InsertsChild(s) == InsertRefund(s) \/ CaptureOperation(s) \/ RefundCapture(s) \/ ReverseAuth(s)

(* A request writes its own row and inserts children of it.                *)
LEMMA RowsTouched ==
    ASSUME ShapeInv, NEW s \in Sessions, Acts(s)
    PROVE  /\ \A r \in Rows \ {req[s].row} : Exists(r) \/ r \in Ext => row'[r] = row[r]
           /\ \A c \in Free : row'[c] = row[c] \/ (InsertsChild(s) /\ row'[c].parent = req[s].row)
<1>1. row \in [Rows -> RowType]
  BY TypesSplit DEF ShapeInv
<1>2. PICK o : o = req[s].row
  OBVIOUS
<1>3. /\ \A c \in Free : c \in Rows /\ c \in Children /\ ~Exists(c) /\ c \notin Ext
  BY IdsAreDistinct DEF Free, Rows, IdsAreDistinct
<1>4. CASE row' = row
  BY <1>4
<1>5. ASSUME NEW type, NEW status, NEW settled, Rewritten(o, type, status, settled), Exists(o)
      PROVE  /\ \A r \in Rows \ {o} : row'[r] = row[r]
             /\ \A c \in Free : row'[c] = row[c]
  BY <1>3, <1>5 DEF Rewritten
<1>6. CASE CommitOperation(s) \/ ReverseOperation(s) \/ DeclineFailed(s) \/ CommitPosting(s)
  <2>1. Exists(o)
    BY <1>2, <1>6 DEF ShapeInv, ReqFits, Exists, CommitOperation, ReverseOperation, DeclineFailed,
                      CommitPosting
  <2>2. \E type, status, settled : Rewritten(o, type, status, settled)
    BY <1>2, <1>6, WhatIsRewritten
  <2>3. QED
    BY <1>2, <1>5, <2>1, <2>2
<1>7. CASE InsertOperation(s) \/ DeclineOperation(s)
  <2>1. o \in Ext
    BY <1>2, <1>7 DEF ShapeInv, ReqFits, InsertOperation, DeclineOperation, Checked
  <2>2. \E new : row' = [row EXCEPT ![o] = new]
    BY <1>2, <1>7 DEF InsertOperation, DeclineOperation
  <2>3. QED
    BY <1>1, <1>2, <1>3, <2>1, <2>2
<1>8. CASE InsertsChild(s)
  <2>1. PICK c : c = NewId
    OBVIOUS
  <2>2. /\ c \in Free /\ o \in Rows /\ Exists(o) /\ c # o
        /\ \E type, st, n, paid, status, captured, refunded :
              WithChild(c, o, NewRow(type, st, n, paid, o), status, captured, refunded)
    BY <1>2, <1>8, <2>1, WhatIsInserted DEF InsertsChild
  <2>3. (\A r \in Rows \ {c, o} : row'[r] = row[r]) /\ row'[c].parent = o
    BY <2>2 DEF WithChild, NewRow
  <2>4. QED
    BY <1>2, <1>3, <1>8, <2>2, <2>3
<1>9. CASE Start(s)
  <2>1. row' = row
    BY <1>9 DEF Start, AuthorizeReplay, vars, AuthorizeChecks, ReverseChecks, LockForReversal,
                Lock, CommitChecks, RefundChecks, LockForCapture, LockForRefund
  <2>2. QED
    BY <1>4, <2>1
<1>10. QED
  BY <1>4, <1>6, <1>7, <1>8, <1>9
     DEF Acts, Continue, InsertsChild, PostingFails, Crash, InsertCollides, RefreshOperation, ReadBalance,
         WriteBalance, ReverseAuthRefused

(* The amount of a row, as a function.                                     *)
AmountOf == [r \in Rows |-> row[r].amount]

(* Amounts and their sums are natural numbers.                             *)
LEMMA AmountTypes ==
    ASSUME TypeOK
    PROVE  /\ \A r \in Rows : AmountOf[r] \in Nat /\ AmountOf[r] = row[r].amount
           /\ \A S : SumOfRows(S) = SumOf(AmountOf, S)
           /\ \A S \in SUBSET Rows : SumOfRows(S) \in Nat
<1>1. row \in [Rows -> RowType]
  BY DEF TypeOK
<1>2. \A r \in Rows : AmountOf[r] \in Nat /\ AmountOf[r] = row[r].amount
  BY <1>1 DEF AmountOf, RowType
<1>3. \A S : SumOfRows(S) = SumOf(AmountOf, S)
  BY DEF SumOfRows, AmountOf
<1>4. ASSUME NEW S \in SUBSET Rows PROVE SumOfRows(S) \in Nat
  <2>1. IsFiniteSet(S) /\ \A r \in S : AmountOf[r] \in Nat
    BY <1>2, SetsAreFinite
  <2>2. SumOf(AmountOf, S) \in Nat
    BY <2>1, SumType
  <2>3. QED
    BY <1>3, <2>2
<1>5. QED
  BY <1>2, <1>3, <1>4

(* The sum over rows that exist does not change: amounts are never         *)
(* rewritten.                                                              *)
LEMMA SumsKept ==
    ASSUME TypeOK, NEW s \in Sessions, RowStep(s), NEW S \in SUBSET Rows, \A r \in S : Exists(r)
    PROVE  SumOf([r \in Rows |-> row'[r].amount], S) = SumOfRows(S)
<1> DEFINE g == [r \in Rows |-> row'[r].amount]
<1>1. IsFiniteSet(S) /\ \A r \in S : g[r] = AmountOf[r]
  BY SetsAreFinite DEF RowStep, AmountOf
<1> HIDE DEF g
<1>2. SumOf(g, S) = SumOf(AmountOf, S)
  BY <1>1, SumSame
<1>3. QED
  BY <1>2, AmountTypes DEF g

(* The children of a row that is not there.                                *)
LEMMA AbsentHasNoChildren ==
    ASSUME ShapeInv, NEW p, NEW type, type # "none", p \in Rows => ~Exists(p)
    PROVE  Of(type, p) = {} /\ SumOfRows(Of(type, p)) = 0
<1>1. Of(type, p) = {}
  BY DEF Of, ShapeInv, RowFits, Exists, Rows
<1>2. QED
  BY <1>1, SumEmpty DEF SumOfRows

(* Captures, refunds and reversals of a row are rows that exist.           *)
LEMMA ChildrenAre ==
    ASSUME ShapeInv, NEW p, NEW type, type # "none"
    PROVE  Of(type, p) \in SUBSET Rows /\ \A r \in Of(type, p) : Exists(r)
BY DEF Of, Rows, Exists

(* Its children stay the same unless one is inserted.                      *)
LEMMA OfKept ==
    ASSUME ShapeInv, NEW s \in Sessions, RowStep(s), NEW p, NEW type, type # "none",
           \A c \in Free : row'[c].type = type => row'[c].parent # p
    PROVE  Of(type, p)' = Of(type, p) /\ SumOfRows(Of(type, p))' = SumOfRows(Of(type, p))
<1>1. ASSUME NEW c \in Children
      PROVE  (row'[c].type = type /\ row'[c].parent = p) <=> (row[c].type = type /\ row[c].parent = p)
  <2>1. CASE Exists(c)
    <3>1. row[c].type # "AUTH" /\ c \in Rows
      BY <2>1 DEF ShapeInv, RowFits, Rows
    <3>2. QED
      BY <2>1, <3>1 DEF RowStep
  <2>2. CASE ~Exists(c)
    BY <2>2 DEF Free, Exists
  <2>3. QED
    BY <2>1, <2>2
<1>2. Of(type, p)' = Of(type, p)
  BY <1>1 DEF Of
<1>3. SumOfRows(Of(type, p))' = SumOf([r \in Rows |-> row'[r].amount], Of(type, p))
  BY <1>2 DEF SumOfRows
<1>4. SumOf([r \in Rows |-> row'[r].amount], Of(type, p)) = SumOfRows(Of(type, p))
  BY ChildrenAre, SumsKept DEF ShapeInv
<1>5. QED
  BY <1>2, <1>3, <1>4

(* A new child adds its amount to the sum of its kind, and to no other.    *)
LEMMA OfGrows ==
    ASSUME ShapeInv, NEW s \in Sessions, RowStep(s), NEW p, NEW type, type # "none",
           NEW c \in Free, row'[c].type = type, row'[c].parent = p,
           \A d \in Free \ {c} : row'[d].type = type => row'[d].parent # p
    PROVE  SumOfRows(Of(type, p))' = SumOfRows(Of(type, p)) + row'[c].amount
<1>1. ASSUME NEW d \in Children \ {c}
      PROVE  (row'[d].type = type /\ row'[d].parent = p) <=> (row[d].type = type /\ row[d].parent = p)
  <2>1. CASE Exists(d)
    <3>1. row[d].type # "AUTH" /\ d \in Rows
      BY <2>1 DEF ShapeInv, RowFits, Rows
    <3>2. QED
      BY <2>1, <3>1 DEF RowStep
  <2>2. CASE ~Exists(d)
    BY <2>2 DEF Free, Exists
  <2>3. QED
    BY <2>1, <2>2
<1>2. c \in Children /\ c \in Rows /\ row[c].type # type
  BY DEF Free, Rows, Exists
<1>3. PICK S : S = Of(type, p)
  OBVIOUS
<1>4. Of(type, p)' = S \cup {c} /\ c \notin S
  BY <1>1, <1>2, <1>3 DEF Of
<1>5. S \in SUBSET Rows /\ (\A r \in S : Exists(r)) /\ IsFiniteSet(S)
  BY <1>3, ChildrenAre, SetsAreFinite
<1> DEFINE g == [r \in Rows |-> row'[r].amount]
<1>6. \A r \in Rows : g[r] \in Int /\ g[r] = row'[r].amount
  BY DEF RowStep, RowType
<1>7. SumOf(g, S) = SumOfRows(S)
  BY <1>5, SumsKept DEF ShapeInv
<1>8. SumOfRows(Of(type, p))' = SumOf(g, S \cup {c})
  BY <1>4 DEF SumOfRows
<1> HIDE DEF g
<1>9. SumOf(g, S \cup {c}) = g[c] + SumOf(g, S)
  BY <1>2, <1>4, <1>5, <1>6, SumAdd
<1>10. SumOfRows(S) \in Nat
  BY <1>5, AmountTypes DEF ShapeInv
<1>11. QED
  BY <1>2, <1>3, <1>6, <1>7, <1>8, <1>9, <1>10

-----------------------------------------------------------------------------
(* captured_amount and refunded_amount.                                    *)
LEMMA CapturesKept ==
    ASSUME ShapeInv, CapturesAddUp, NEW s \in Sessions, RowStep(s),
           \A r \in Rows : Exists(r) =>
              row'[r].captured = row[r].captured /\ row'[r].refunded = row[r].refunded,
           \A x \in Ext : ~Exists(x) => row'[x].captured = 0,
           \A c \in Free : row'[c].type # "CAPTURE" /\ (row'[c].type = "REFUND" => row'[c].parent \in Ext)
    PROVE  CapturesAddUp'
<1>1. /\ row' \in [Rows -> RowType]
      /\ \A r \in Rows : Exists(r) => row'[r].amount = row[r].amount
  BY DEF RowStep
<1>2. ASSUME NEW o \in Ext
      PROVE  row'[o].captured = SumOfRows(Of("CAPTURE", o))' /\ row'[o].captured <= row'[o].amount
  <2>1. SumOfRows(Of("CAPTURE", o))' = SumOfRows(Of("CAPTURE", o)) /\ o \in Rows
    BY OfKept DEF Rows
  <2>2. CASE Exists(o)
    BY <1>1, <2>1, <2>2 DEF CapturesAddUp
  <2>3. CASE ~Exists(o)
    BY <1>1, <2>1, <2>3, AbsentHasNoChildren DEF RowType
  <2>4. QED
    BY <2>2, <2>3
<1>3. ASSUME NEW c \in Children, row'[c].type = "CAPTURE"
      PROVE  row'[c].refunded = SumOfRows(Of("REFUND", c))' /\ row'[c].refunded <= row'[c].amount
  <2>1. c \notin Ext /\ c \in Rows
    BY IdsAreDistinct DEF IdsAreDistinct, Rows
  <2>2. SumOfRows(Of("REFUND", c))' = SumOfRows(Of("REFUND", c))
    BY <2>1, OfKept
  <2>3. Exists(c)
    BY <1>3 DEF Free
  <2>4. row[c].type = "CAPTURE"
    BY <1>3, <2>1, <2>3 DEF RowStep
  <2>5. QED
    BY <1>1, <2>1, <2>2, <2>3, <2>4 DEF CapturesAddUp
<1>4. QED
  BY <1>2, <1>3 DEF CapturesAddUp

(* A capture under the row lock keeps the sums of captures.                *)
LEMMA CaptureAddsUp ==
    ASSUME ShapeInv, CapturesAddUp, NEW s \in Sessions, CaptureOperation(s)
    PROVE  CapturesAddUp'
<1>1. PICK o, c, n : o = req[s].row /\ c = NewId /\ n = req[s].amount
  OBVIOUS
<1>2. /\ c \in Free /\ o \in Rows /\ Exists(o) /\ c # o
      /\ \E status : WithChild(c, o, NewRow("CAPTURE", "CAPTURED", n, 0, o), status,
                               row[o].captured + n, row[o].refunded)
  BY <1>1, WhatIsInserted
<1>3. /\ row'[c].type = "CAPTURE" /\ row'[c].amount = n /\ row'[c].refunded = 0 /\ row'[c].parent = o
      /\ row'[o].captured = row[o].captured + n /\ row'[o].refunded = row[o].refunded
      /\ row'[o].type = row[o].type
      /\ \A r \in Rows \ {c, o} : row'[r] = row[r]
  BY <1>2 DEF WithChild, NewRow
<1>4. RowStep(s)
  BY RowsStep DEF Acts, Continue
<1>5. /\ req[s].pc = "locked" /\ req[s].seen.type = "AUTH" /\ n > 0 /\ n \in Nat /\ row \in [Rows -> RowType]
      /\ row' \in [Rows -> RowType]
  BY <1>1, <1>4, TypesSplit DEF CaptureOperation, ShapeInv, ReqType, RowStep
<1>6. row[o].type = "AUTH" /\ n <= row[o].amount - row[o].captured /\ ReqFits(s)
  BY <1>1, <1>5 DEF ShapeInv, ReqFits
<1>7. /\ o \in Ext /\ o \notin Children /\ c \in Children /\ c \in Rows /\ c \notin Ext
      /\ ~Exists(c) /\ row[o] \in RowType
      /\ \A x \in Ext : x \in Rows
      /\ \A x \in Children : x \in Rows
  BY <1>2, <1>5, <1>6, IdsAreDistinct DEF ShapeInv, RowFits, Rows, IdsAreDistinct, Free
<1>8. \A d \in Free \ {c} : d \in Rows /\ row'[d] = row[d] /\ row[d].type = "none"
  BY <1>2, <1>3 DEF Free, Rows, Exists
<1>9. ASSUME NEW x \in Ext
      PROVE  row'[x].captured = SumOfRows(Of("CAPTURE", x))' /\ row'[x].captured <= row'[x].amount
  <2>1. CASE x = o
    <3>1. SumOfRows(Of("CAPTURE", o))' = SumOfRows(Of("CAPTURE", o)) + n
      BY <1>2, <1>3, <1>4, <1>8, OfGrows
    <3>2. row'[o].amount = row[o].amount
      BY <1>2, <1>4 DEF RowStep
    <3>3. QED
      BY <1>3, <1>5, <1>6, <1>7, <2>1, <3>1, <3>2 DEF CapturesAddUp, RowType
  <2>2. CASE x # o
    <3>1. SumOfRows(Of("CAPTURE", x))' = SumOfRows(Of("CAPTURE", x))
      BY <1>3, <1>4, <1>8, <2>2, OfKept
    <3>2. row'[x] = row[x]
      BY <1>3, <1>7, <2>2
    <3>3. QED
      BY <3>1, <3>2 DEF CapturesAddUp
  <2>3. QED
    BY <2>1, <2>2
<1>10. ASSUME NEW x \in Children, row'[x].type = "CAPTURE"
       PROVE  row'[x].refunded = SumOfRows(Of("REFUND", x))' /\ row'[x].refunded <= row'[x].amount
  <2>1. \A d \in Free : row'[d].type # "REFUND"
    BY <1>3, <1>8
  <2>2. SumOfRows(Of("REFUND", x))' = SumOfRows(Of("REFUND", x))
    BY <1>4, <2>1, OfKept
  <2>3. CASE x = c
    BY <1>3, <1>5, <1>7, <2>2, <2>3, AbsentHasNoChildren
  <2>4. CASE x # c
    <3>1. row'[x] = row[x]
      BY <1>3, <1>7, <2>4
    <3>2. QED
      BY <1>10, <2>2, <3>1 DEF CapturesAddUp
  <2>5. QED
    BY <2>3, <2>4
<1>11. QED
  BY <1>9, <1>10 DEF CapturesAddUp

(* So does a refund of a capture.                                          *)
LEMMA RefundAddsUp ==
    ASSUME ShapeInv, CapturesAddUp, NEW s \in Sessions, RefundCapture(s)
    PROVE  CapturesAddUp'
<1>1. PICK o, c, n : o = req[s].row /\ c = NewId /\ n = req[s].amount
  OBVIOUS
<1>2. /\ c \in Free /\ o \in Rows /\ Exists(o) /\ c # o
      /\ \E status : WithChild(c, o, NewRow("REFUND", "REFUNDED", n, 0, o), status,
                               row[o].captured, row[o].refunded + n)
  BY <1>1, WhatIsInserted
<1>3. /\ row'[c].type = "REFUND" /\ row'[c].amount = n /\ row'[c].parent = o
      /\ row'[o].refunded = row[o].refunded + n /\ row'[o].type = row[o].type
      /\ \A r \in Rows \ {c, o} : row'[r] = row[r]
  BY <1>2 DEF WithChild, NewRow
<1>4. RowStep(s)
  BY RowsStep DEF Acts, Continue
<1>5. /\ req[s].pc = "locked" /\ req[s].seen.type = "CAPTURE" /\ n \in Nat /\ row \in [Rows -> RowType]
  BY <1>1, <1>4, TypesSplit DEF RefundCapture, ShapeInv, ReqType
<1>6. row[o].type = "CAPTURE" /\ n <= row[o].amount - row[o].refunded
  BY <1>1, <1>5 DEF ShapeInv, ReqFits
<1>7. /\ o \in Children /\ o \notin Ext /\ c \in Children /\ c \in Rows /\ c \notin Ext
      /\ ~Exists(c) /\ row[o] \in RowType
      /\ \A x \in Ext : x \in Rows
      /\ \A x \in Children : x \in Rows
  BY <1>2, <1>5, <1>6, IdsAreDistinct DEF ShapeInv, RowFits, Rows, IdsAreDistinct, Free
<1>8. \A d \in Free \ {c} : d \in Rows /\ row'[d] = row[d] /\ row[d].type = "none"
  BY <1>2, <1>3 DEF Free, Rows, Exists
<1>9. ASSUME NEW x \in Ext
      PROVE  row'[x].captured = SumOfRows(Of("CAPTURE", x))' /\ row'[x].captured <= row'[x].amount
  <2>1. SumOfRows(Of("CAPTURE", x))' = SumOfRows(Of("CAPTURE", x))
    <3>1. \A d \in Free : row'[d].type # "CAPTURE"
      BY <1>3, <1>8
    <3>2. QED
      BY <1>4, <3>1, OfKept
  <2>2. row'[x] = row[x]
    BY <1>3, <1>7
  <2>3. QED
    BY <2>1, <2>2 DEF CapturesAddUp
<1>10. ASSUME NEW x \in Children, row'[x].type = "CAPTURE"
       PROVE  row'[x].refunded = SumOfRows(Of("REFUND", x))' /\ row'[x].refunded <= row'[x].amount
  <2>1. CASE x = o
    <3>1. SumOfRows(Of("REFUND", o))' = SumOfRows(Of("REFUND", o)) + n
      BY <1>2, <1>3, <1>4, <1>8, OfGrows
    <3>2. row'[o].amount = row[o].amount
      BY <1>2, <1>4 DEF RowStep
    <3>3. QED
      BY <1>3, <1>5, <1>6, <1>7, <2>1, <3>1, <3>2 DEF CapturesAddUp, RowType
  <2>2. CASE x # o
    <3>1. SumOfRows(Of("REFUND", x))' = SumOfRows(Of("REFUND", x))
      BY <1>3, <1>4, <1>8, <2>2, OfKept
    <3>2. x # c /\ row'[x] = row[x]
      BY <1>3, <1>7, <1>10, <2>2
    <3>3. QED
      BY <1>10, <3>1, <3>2 DEF CapturesAddUp
  <2>3. QED
    BY <2>1, <2>2
<1>11. QED
  BY <1>9, <1>10 DEF CapturesAddUp

(* A request that commits, reverses, declines or posts leaves the columns  *)
(* of captures and refunds alone.                                          *)
LEMMA CapturesNext ==
    ASSUME ShapeInv, CapturesAddUp, NEW s \in Sessions, Acts(s)
    PROVE  CapturesAddUp'
<1>1. row \in [Rows -> RowType] /\ RowStep(s)
  BY TypesSplit, RowsStep DEF ShapeInv
<1>2. PICK o, n : o = req[s].row /\ n = req[s].amount
  OBVIOUS
<1>3. /\ \A r \in Rows \ {o} : Exists(r) \/ r \in Ext => row'[r] = row[r]
      /\ \A c \in Free : row'[c] = row[c] \/ (InsertsChild(s) /\ row'[c].parent = o)
  BY <1>2, RowsTouched
<1>4. \A r \in Rows : ~Exists(r) => row[r].captured = 0 /\ row[r].type = "none"
  BY DEF ShapeInv, RowFits, Absent, NewRow
<1>5. (\A c \in Free : c \in Rows /\ ~Exists(c)) /\ \A x \in Ext : x \in Rows
  BY DEF Free, Rows
<1>6. ASSUME Exists(o) => row'[o].captured = row[o].captured /\ row'[o].refunded = row[o].refunded,
             ~Exists(o) => row'[o] = row[o] \/ row'[o].captured = 0,
             ~InsertsChild(s) \/ (o \in Ext /\ \A c \in Free : row'[c].type # "CAPTURE")
      PROVE  CapturesAddUp'
  <2>1. \A r \in Rows : Exists(r) => row'[r].captured = row[r].captured /\ row'[r].refunded = row[r].refunded
    BY <1>3, <1>6
  <2>2. \A x \in Ext : ~Exists(x) => row'[x].captured = 0
    BY <1>3, <1>4, <1>5, <1>6
  <2>3. \A c \in Free : row'[c].type # "CAPTURE" /\ (row'[c].type = "REFUND" => row'[c].parent \in Ext)
    BY <1>3, <1>4, <1>5, <1>6
  <2>4. QED
    BY <1>1, <2>1, <2>2, <2>3, CapturesKept
<1>7. CASE row' = row
  <2>1. \A c \in Free : row'[c].type = "none"
    BY <1>4, <1>5, <1>7
  <2>2. QED
    BY <1>1, <1>4, <1>5, <1>7, <2>1, CapturesKept
<1>8. CASE CommitOperation(s) \/ ReverseOperation(s) \/ DeclineFailed(s) \/ CommitPosting(s)
  <2>1. \E type, status, settled : Rewritten(o, type, status, settled)
    BY <1>2, <1>8, WhatIsRewritten
  <2>2. row'[o].captured = row[o].captured /\ row'[o].refunded = row[o].refunded
    BY <2>1 DEF Rewritten
  <2>3. Exists(o) /\ ~InsertsChild(s)
    BY <1>2, <1>8 DEF ShapeInv, ReqFits, Exists, CommitOperation, ReverseOperation, DeclineFailed,
         CommitPosting, InsertsChild, InsertRefund, CaptureOperation, RefundCapture, ReverseAuth
  <2>4. QED
    BY <1>6, <2>2, <2>3
<1>9. CASE InsertOperation(s) \/ DeclineOperation(s)
  <2>1. req[s].pc = "insert" /\ o \in Rows /\ ~Exists(o)
    BY <1>2, <1>9 DEF ShapeInv, ReqFits, InsertOperation, DeclineOperation, Checked, Rows
  <2>2. row'[o].captured = 0
    BY <1>1, <1>2, <1>9, <2>1 DEF InsertOperation, DeclineOperation, NewRow
  <2>3. ~InsertsChild(s)
    BY <2>1 DEF InsertsChild, InsertRefund, CaptureOperation, RefundCapture, ReverseAuth
  <2>4. QED
    BY <1>6, <2>1, <2>2, <2>3
<1>10. CASE InsertRefund(s) \/ ReverseAuth(s)
  <2>1. PICK c : c = NewId
    OBVIOUS
  <2>2. /\ c \in Free /\ o \in Rows /\ Exists(o) /\ c # o
        /\ InsertRefund(s) =>
              WithChild(c, o, NewRow("REFUND", "REFUNDED", n, n, o), row[o].status,
                        row[o].captured, row[o].refunded)
        /\ ReverseAuth(s) =>
              WithChild(c, o, NewRow("REVERSAL", "REVERSED", row[o].amount, 0, o), "REVERSED",
                        row[o].captured, row[o].refunded)
    BY <1>2, <1>10, <2>1, WhatIsInserted
  <2>3. /\ row'[o].captured = row[o].captured /\ row'[o].refunded = row[o].refunded
        /\ row'[c].type \in {"REFUND", "REVERSAL"} /\ (ReverseAuth(s) => row'[c].type = "REVERSAL")
        /\ \A r \in Rows \ {c, o} : row'[r] = row[r]
    BY <1>10, <2>2 DEF WithChild, NewRow
  <2>4. InsertRefund(s) => o \in Ext
    BY <1>2 DEF ShapeInv, ReqFits, InsertRefund
  <2>5. \A r \in Rows : Exists(r) => row'[r].captured = row[r].captured /\ row'[r].refunded = row[r].refunded
    BY <1>5, <2>2, <2>3
  <2>6. \A x \in Ext : ~Exists(x) => row'[x].captured = 0
    <3>1. \A x \in Ext : x # c
      BY <2>2, IdsAreDistinct DEF Free, IdsAreDistinct
    <3>2. QED
      BY <1>4, <1>5, <2>2, <2>3, <3>1
  <2>7. \A d \in Free : row'[d].type # "CAPTURE" /\ (row'[d].type = "REFUND" => row'[d].parent \in Ext)
    <3>1. \A d \in Free \ {c} : row'[d].type = "none"
      BY <1>4, <1>5, <2>2, <2>3
    <3>2. row'[c].type = "REFUND" => row'[c].parent \in Ext
      BY <1>10, <2>2, <2>3, <2>4 DEF WithChild, NewRow
    <3>3. QED
      BY <2>3, <3>1, <3>2
  <2>8. QED
    BY <1>1, <2>5, <2>6, <2>7, CapturesKept
<1>11. CASE Start(s)
  <2>1. row' = row
    BY <1>11 DEF Start, AuthorizeReplay, vars, AuthorizeChecks, ReverseChecks, LockForReversal,
                 Lock, CommitChecks, RefundChecks, LockForCapture, LockForRefund
  <2>2. QED
    BY <1>7, <2>1
<1>12. QED
  BY <1>7, <1>8, <1>9, <1>10, <1>11, CaptureAddsUp, RefundAddsUp
     DEF Acts, Continue, PostingFails, Crash, InsertCollides, RefreshOperation, ReadBalance, WriteBalance,
         ReverseAuthRefused

-----------------------------------------------------------------------------
(* Requests that work on a row alone.                                      *)

(* A request that comes to a row somebody works on makes it contended.     *)
LEMMA AloneMoves ==
    ASSUME ShapeInv, NEW s \in Sessions, Acts(s)
    PROVE  /\ contended \subseteq contended' /\ lost \subseteq lost'
           /\ req'[s].row \in Rows \ contended' =>
                 \/ req'[s].row = req[s].row /\ ~Start(s)
                 \/ \A t \in Sessions : req[t].row # req'[s].row
                 \/ \E x \in Ext : AuthorizeReplay(s, x)
<1>1. req \in [Sessions -> ReqType] /\ Idle.row \notin Rows
  BY TypesSplit, IdsAreDistinct DEF ShapeInv, Idle, Rows, IdsAreDistinct
<1>2. CASE Start(s)
  <2>1. ASSUME NEW x \in Ext, AuthorizeChecks(s, x)
        PROVE  /\ contended \subseteq contended' /\ lost' = lost /\ req'[s].row = x
               /\ x \in contended' \/ \A t \in Sessions : req[t].row # x
    BY <1>1, <2>1 DEF AuthorizeChecks, Busy
  <2>2. ASSUME NEW pc, NEW r, NEW n, Begin(s, pc, r, n), lost' = lost
        PROVE  /\ contended \subseteq contended' /\ lost' = lost /\ req'[s].row = r
               /\ r \in contended' \/ \A t \in Sessions : req[t].row # r
    BY <1>1, <2>2 DEF Begin, Busy
  <2>3. CASE \E x \in Ext : AuthorizeReplay(s, x)
    BY <2>3 DEF AuthorizeReplay, vars
  <2>4. CASE ~\E x \in Ext : AuthorizeReplay(s, x)
    BY <1>2, <2>1, <2>2, <2>4 DEF Start, ReverseChecks, LockForReversal, Lock, CommitChecks, RefundChecks,
                             LockForCapture, LockForRefund
  <2>5. QED
    BY <2>3, <2>4
<1>3. ASSUME ~Start(s), Continue(s)
      PROVE  contended' = contended /\ lost' = lost
  BY <1>3 DEF Continue, history, InsertOperation, DeclineOperation, InsertCollides, RefreshOperation,
       ReadBalance, WriteBalance, CommitPosting, DeclineFailed, CommitOperation, ReverseOperation,
       ReverseAuthRefused, InsertRefund, CaptureOperation, RefundCapture, ReverseAuth
<1>4. ASSUME PostingFails(s) \/ Crash(s)
      PROVE  contended' = contended /\ lost \subseteq lost'
  BY <1>4 DEF PostingFails, Crash
<1>5. CASE ~Start(s) /\ (req' = [req EXCEPT ![s] = Idle] \/ req' = req
                         \/ (\E pc : req' = [req EXCEPT ![s].pc = pc]) \/ RefreshOperation(s))
  <2>1. req'[s].row = req[s].row \/ req'[s].row = Idle.row
    BY <1>1, <1>5 DEF RefreshOperation, ReqType
  <2>2. QED
    BY <1>1, <1>3, <1>4, <1>5, <2>1 DEF Acts
<1>6. CASE ~Start(s) /\ InsertRefund(s)
  <2>1. PICK c, new : c = NewId /\ new = row'[NewId]
    OBVIOUS
  <2>2. c \in Children /\ ~Exists(c)
    BY <1>6, <2>1, NewIdIsFree DEF Users, Free, InsertRefund
  <2>3. req' = [req EXCEPT ![s].pc = "post", ![s].row = c, ![s].seen = new]
    BY <1>6, <2>1 DEF InsertRefund
  <2>4. req'[s].row = c
    BY <1>1, <2>3 DEF ReqType
  <2>5. ASSUME NEW t \in Sessions
        PROVE  req[t].row # c
    <3>1. ReqFits(t) /\ req[t] \in ReqType
      BY <1>1 DEF ShapeInv
    <3>2. c \notin Ext /\ c # NoRow
      BY <2>2, IdsAreDistinct DEF IdsAreDistinct
    <3>3. QED
      BY <2>2, <3>1, <3>2 DEF ReqFits, ReqType, Exists
  <2>6. QED
    BY <1>3, <1>6, <2>4, <2>5 DEF Continue
<1>7. QED
  BY <1>2, <1>5, <1>6 DEF Acts, Continue, PostingFails, Crash, Finish, Goto, InsertOperation,
       DeclineOperation, InsertCollides, ReadBalance, WriteBalance, CommitPosting, DeclineFailed,
       CommitOperation, ReverseOperation, ReverseAuthRefused, CaptureOperation, RefundCapture, ReverseAuth

(* One request at most works on a row that is not contended.               *)
LEMMA AloneNext ==
    ASSUME ShapeInv, FiniteInv, Alone, NEW s \in Sessions, Acts(s)
    PROVE  Alone'
<1>1. \A t \in Sessions \ {s} : req'[t] = req[t]
  BY OthersKept
<1>2. CASE \E x \in Ext : AuthorizeReplay(s, x)
  BY <1>2 DEF AuthorizeReplay, vars, Alone
<1>3. CASE ~\E x \in Ext : AuthorizeReplay(s, x)
  <2>1. /\ contended \subseteq contended'
        /\ req'[s].row \in Rows \ contended' =>
              req'[s].row = req[s].row \/ \A t \in Sessions : req[t].row # req'[s].row
    BY <1>3, AloneMoves
  <2>2. ASSUME NEW t \in Sessions \ {s}, req'[t].row = req'[s].row, req'[t].row \in Rows \ contended'
        PROVE  FALSE
    <3>1. req[t].row = req'[s].row /\ req[t].row \in Rows \ contended
      BY <1>1, <2>1, <2>2
    <3>2. req[s].row = req[t].row
      BY <2>1, <2>2, <3>1
    <3>3. QED
      BY <3>1, <3>2 DEF Alone
  <2>3. \A t, u \in Sessions \ {s} :
           req'[t].row = req'[u].row /\ req'[t].row \in Rows \ contended' => t = u
    BY <1>1, <2>1 DEF Alone
  <2>4. QED
    BY <2>2, <2>3 DEF Alone
<1>4. QED
  BY <1>2, <1>3

(* What another request has found of a row it works on alone.              *)
LEMMA OthersChecks ==
    ASSUME ShapeInv, FiniteInv, Alone, ChecksHold, NEW s \in Sessions, Acts(s),
           NEW t \in Sessions, t # s, NEW p, p = req[t].row, p \in Ext \ contended'
    PROVE  /\ req'[t] = req[t] /\ row'[p] = row[p] /\ p \in Ext \ contended
           /\ \A n : RefundFits(p, n)' <=> RefundFits(p, n)
<1>1. req'[t] = req[t] /\ contended \subseteq contended'
  BY OthersKept, AloneMoves
<1>2. p \in Rows /\ p # req[s].row
  BY <1>1 DEF Alone, Rows
<1>3. row'[p] = row[p]
  BY <1>2, RowsTouched
<1>4. \A c \in Free : row'[c].type = "REFUND" => row'[c].parent # p
  <2>1. \A c \in Free : row[c].type = "none"
    BY DEF Free, Exists
  <2>2. QED
    BY <1>2, <2>1, RowsTouched
<1>5. SumOfRows(Of("REFUND", p))' = SumOfRows(Of("REFUND", p))
  BY <1>4, RowsStep, OfKept
<1>6. Refundable(p)' = Refundable(p)
  BY <1>3 DEF Refundable
<1>7. QED
  BY <1>1, <1>3, <1>5, <1>6 DEF RefundFits

(* What a request has found on such a row still holds.                     *)
LEMMA ChecksNext ==
    ASSUME ShapeInv, FiniteInv, Alone, ChecksHold, NEW s \in Sessions, Acts(s)
    PROVE  ChecksHold'
<1> DEFINE Holds(t) ==
      req[t].row \in Ext \ contended =>
         /\ req[t].pc \in {"commit", "reverse", "refresh", "post"} => row[req[t].row].status = "AUTHORIZED"
         /\ req[t].pc = "post" => req[t].seen.status = "AUTHORIZED"
         /\ req[t].pc = "refund" =>
               row[req[t].row].status = "COMPLETED" /\ RefundFits(req[t].row, req[t].amount)
<1>0. req \in [Sessions -> ReqType] /\ row \in [Rows -> RowType] /\ \A x \in Ext : x \in Rows
  BY TypesSplit DEF ShapeInv, Rows
<1>1. \A t \in Sessions : Holds(t)
  BY DEF ChecksHold
<1>2. SUFFICES \A t \in Sessions : Holds(t)'
  BY DEF ChecksHold
<1>3. ASSUME NEW t \in Sessions, t # s
      PROVE  Holds(t)'
  <2> SUFFICES ASSUME req'[t].row \in Ext \ contended'
               PROVE  Holds(t)'
    OBVIOUS
  <2>1. PICK p, n : p = req[t].row /\ n = req[t].amount
    OBVIOUS
  <2>2. req'[t] = req[t]
    BY <1>3, OthersKept
  <2>3. /\ row'[p] = row[p] /\ p \in Ext \ contended /\ (RefundFits(p, n)' <=> RefundFits(p, n))
    BY <1>3, <2>1, <2>2, OthersChecks
  <2>4. RefundFits(req[t].row, req[t].amount)' <=> RefundFits(p, n)'
    BY <2>1, <2>2 DEF RefundFits, Of, Refundable
  <2>5. QED
    BY <1>1, <2>1, <2>2, <2>3, <2>4
<1>4. Holds(s)'
  <2>1. CASE req'[s].pc \notin {"commit", "reverse", "refresh", "post", "refund"}
    BY <2>1
  <2>2. ASSUME row' = row, req' = req, contended \subseteq contended'
        PROVE  Holds(s)'
    BY <1>1, <2>2 DEF RefundFits, SumOfRows, Of, Refundable
  <2>3. CASE Start(s)
    <3>1. ASSUME NEW x \in Ext, AuthorizeReplay(s, x) PROVE Holds(s)'
      BY <2>2, <3>1 DEF AuthorizeReplay, vars
    <3>2. ASSUME NEW x \in Ext, AuthorizeChecks(s, x) PROVE Holds(s)'
      BY <1>0, <2>1, <3>2 DEF AuthorizeChecks
    <3>3. ASSUME NEW pc, NEW r, NEW n, Begin(s, pc, r, n)
          PROVE  req'[s].pc = pc /\ req'[s].row = r /\ req'[s].amount = n
      BY <1>0, <3>3 DEF Begin
    <3>4. ASSUME NEW x \in Ext, ReverseChecks(s, x) PROVE Holds(s)'
      BY <3>3, <3>4 DEF ReverseChecks
    <3>5. ASSUME NEW x \in Ext, LockForReversal(s, x) PROVE Holds(s)'
      BY <2>1, <3>3, <3>5 DEF LockForReversal, Lock
    <3>6. ASSUME NEW x \in Ext, NEW n \in Parts, CommitChecks(s, x, n) PROVE Holds(s)'
      BY <3>3, <3>6 DEF CommitChecks
    <3>7. ASSUME NEW x \in Ext, NEW n \in Parts, RefundChecks(s, x, n) PROVE Holds(s)'
      <4>1. /\ req'[s].pc = "refund" /\ req'[s].row = x /\ req'[s].amount = n
            /\ row' = row /\ row[x].status = "COMPLETED" /\ RefundFits(x, n)
        BY <3>3, <3>7 DEF RefundChecks
      <4>2. RefundFits(req[s].row, req[s].amount)'
        BY <4>1 DEF RefundFits, SumOfRows, Of, Refundable
      <4>3. QED
        BY <4>1, <4>2
    <3>8. ASSUME NEW x \in Ext, NEW n \in Parts, LockForCapture(s, x, n) PROVE Holds(s)'
      BY <2>1, <3>3, <3>8 DEF LockForCapture, Lock
    <3>9. ASSUME NEW c \in Children, NEW n \in Parts, LockForRefund(s, c, n) PROVE Holds(s)'
      BY <2>1, <3>3, <3>9 DEF LockForRefund, Lock
    <3>10. QED
      BY <2>3, <3>1, <3>2, <3>4, <3>5, <3>6, <3>7, <3>8, <3>9 DEF Start
  <2>4. CASE req' = [req EXCEPT ![s] = Idle] \/ req' = [req EXCEPT ![s].pc = "failed"]
    <3>1. req'[s].pc \in {"idle", "failed"}
      BY <1>0, <2>4 DEF Idle, ReqType
    <3>2. QED
      BY <2>1, <3>1
  <2>5. CASE InsertOperation(s)
    <3>1. PICK x : x = req[s].row
      OBVIOUS
    <3>2. req'[s].row = x /\ req'[s].pc = "refresh" /\ x \in Rows
      BY <1>0, <2>5, <3>1 DEF InsertOperation, Goto, ReqType, Checked, ShapeInv, ReqFits
    <3>3. row'[x].status = "AUTHORIZED"
      BY <1>0, <2>5, <3>1, <3>2 DEF InsertOperation, NewRow
    <3>4. QED
      BY <3>2, <3>3
  <2>6. CASE RefreshOperation(s)
    <3>1. PICK x : x = req[s].row
      OBVIOUS
    <3>2. /\ req'[s].row = x /\ req'[s].pc = "post" /\ req'[s].seen = row[x] /\ row' = row
          /\ contended' = contended /\ req[s].pc = "refresh"
      BY <1>0, <2>6, <3>1 DEF RefreshOperation, ReqType, history
    <3>3. QED
      BY <1>1, <3>1, <3>2
  <2>7. CASE ReadBalance(s) \/ WriteBalance(s)
    BY <2>2, <2>7 DEF ReadBalance, WriteBalance, history
  <2>8. CASE InsertRefund(s)
    <3>1. PICK c, new : c = NewId /\ new = row'[NewId]
      OBVIOUS
    <3>2. c \notin Ext
      BY <2>8, <3>1, NewIdIsFree, IdsAreDistinct DEF Users, Free, InsertRefund, IdsAreDistinct
    <3>3. req' = [req EXCEPT ![s].pc = "post", ![s].row = c, ![s].seen = new]
      BY <2>8, <3>1 DEF InsertRefund
    <3>4. req'[s].row = c
      BY <1>0, <3>3 DEF ReqType
    <3>5. QED
      BY <3>2, <3>4
  <2>9. QED
    BY <2>3, <2>4, <2>5, <2>6, <2>7, <2>8 DEF Acts, Continue, PostingFails, Crash, Finish, Goto,
       DeclineOperation, InsertCollides, CommitPosting, DeclineFailed, CommitOperation,
       ReverseOperation, ReverseAuthRefused, CaptureOperation, RefundCapture, ReverseAuth
<1>5. QED
  BY <1>3, <1>4

-----------------------------------------------------------------------------
(* Operations that must have been posted.                                  *)

Owed(r) == row[r].status \in {"AUTHORIZED", "COMPLETED"} \/ (row[r].type = "REFUND" /\ row[r].parent \in Ext)
PostingPc == {"refresh", "post", "failed"}

(* Another request goes on posting its row; the one that acts does so too  *)
(* unless it leaves the row.                                               *)
LEMMA InPostingKept ==
    ASSUME ShapeInv, FiniteInv, NEW s \in Sessions, Acts(s), NEW r, InPosting(r),
           req[s].pc \in PostingPc /\ req[s].row = r => req'[s].pc \in PostingPc /\ req'[s].row = r
    PROVE  InPosting(r)'
<1>1. PICK t \in Sessions : req[t].row = r /\ req[t].pc \in PostingPc
  BY DEF InPosting, Busy, PostingPc
<1>2. req'[t].row = r /\ req'[t].pc \in PostingPc
  BY <1>1, OthersKept
<1>3. QED
  BY <1>1, <1>2 DEF InPosting, Busy, PostingPc

(* A row that stays as it is.                                              *)
LEMMA UnpostedKept ==
    ASSUME ShapeInv, FiniteInv, UnpostedIsLost, NEW s \in Sessions, Acts(s),
           NEW r \in Rows \ (lost' \cup contended'), row'[r] = row[r], entries \subseteq entries',
           req[s].pc \in PostingPc /\ req[s].row = r => req'[s].pc \in PostingPc /\ req'[s].row = r,
           Owed(r), EntriesOf(r)' = {}
    PROVE  InPosting(r)'
<1>1. EntriesOf(r) = {}
  BY DEF EntriesOf
<1>2. r \in Rows \ (lost \cup contended)
  BY AloneMoves
<1>3. InPosting(r)
  BY <1>1, <1>2 DEF UnpostedIsLost, Owed
<1>4. QED
  BY <1>3, InPostingKept

(* A request that is not posting works alone on a row that is posted.      *)
LEMMA AloneIsPosted ==
    ASSUME ShapeInv, Alone, UnpostedIsLost, NEW s \in Sessions, req[s].pc \notin PostingPc,
           NEW o, o = req[s].row, o \in Rows \ (lost \cup contended), Owed(o)
    PROVE  EntriesOf(o) # {}
<1> SUFFICES ASSUME EntriesOf(o) = {} PROVE FALSE
  OBVIOUS
<1>1. InPosting(o)
  BY DEF UnpostedIsLost, Owed
<1>2. PICK t \in Sessions : req[t].row = o /\ req[t].pc \in PostingPc
  BY <1>1 DEF InPosting, Busy, PostingPc
<1>3. QED
  BY <1>2 DEF Alone

(* Entries are only added, by the commit of a posting.                     *)
LEMMA EntriesGrow ==
    ASSUME NEW s \in Sessions, Acts(s)
    PROVE  entries \subseteq entries' /\ (entries' = entries \/ CommitPosting(s))
<1>1. CASE Start(s)
  BY <1>1 DEF Start, AuthorizeReplay, vars, AuthorizeChecks, books, ReverseChecks, LockForReversal,
              Lock, CommitChecks, RefundChecks, LockForCapture, LockForRefund
<1>2. CASE CommitPosting(s)
  BY <1>2 DEF CommitPosting
<1>3. QED
  BY <1>1, <1>2 DEF Acts, Continue, PostingFails, Crash, books, InsertOperation, DeclineOperation,
       InsertCollides, RefreshOperation, ReadBalance, WriteBalance, DeclineFailed, CommitOperation,
       ReverseOperation, ReverseAuthRefused, InsertRefund, CaptureOperation, RefundCapture, ReverseAuth

(* An operation with a new child counts only if it did before.             *)
LEMMA ParentKept ==
    ASSUME ShapeInv, NEW s \in Sessions, InsertsChild(s), NEW r, r = req[s].row
    PROVE  /\ r \in Rows /\ req[s].pc \in {"refund", "locked"}
           /\ row'[r].type = row[r].type /\ row[r].type # "REFUND"
           /\ row'[r].status \in {"AUTHORIZED", "COMPLETED"} => row[r].status = row'[r].status
<1>1. req \in [Sessions -> ReqType] /\ row \in [Rows -> RowType] /\ ReqFits(s)
  BY TypesSplit DEF ShapeInv
<1>2. PICK c, n : c = NewId /\ n = req[s].amount
  OBVIOUS
<1>3. /\ c # r /\ n \in Nat /\ r \in Rows
      /\ InsertRefund(s) =>
            WithChild(c, r, NewRow("REFUND", "REFUNDED", n, n, r), row[r].status,
                      row[r].captured, row[r].refunded)
      /\ CaptureOperation(s) =>
            WithChild(c, r, NewRow("CAPTURE", "CAPTURED", n, 0, r),
                      IF row[r].captured + n >= row[r].amount THEN "CAPTURED" ELSE "AUTHORIZED",
                      row[r].captured + n, row[r].refunded)
      /\ RefundCapture(s) =>
            WithChild(c, r, NewRow("REFUND", "REFUNDED", n, 0, r),
                      IF row[r].refunded + n >= row[r].amount THEN "REFUNDED" ELSE "CAPTURED",
                      row[r].captured, row[r].refunded + n)
      /\ ReverseAuth(s) =>
            WithChild(c, r, NewRow("REVERSAL", "REVERSED", row[r].amount, 0, r), "REVERSED",
                      row[r].captured, row[r].refunded)
  BY <1>1, <1>2, WhatIsInserted DEF InsertsChild, ReqType
<1>4. row[r] \in RowType /\ RowFits(r)
  BY <1>1, <1>3 DEF ShapeInv
<1>5. req[s].pc \in {"refund", "locked"}
  BY DEF InsertsChild, InsertRefund, CaptureOperation, RefundCapture, ReverseAuth
<1>6. row'[r].type = row[r].type /\ row[r].type # "REFUND"
  BY <1>1, <1>3, <1>5 DEF ReqFits, WithChild, InsertsChild
<1>7. ASSUME row'[r].status \in {"AUTHORIZED", "COMPLETED"}
      PROVE  row[r].status = row'[r].status
  <2>1. CASE InsertRefund(s)
    BY <1>3, <2>1 DEF WithChild
  <2>2. CASE CaptureOperation(s)
    <3>1. /\ req[s].pc = "locked" /\ n > 0 /\ row[r].type = "AUTH"
          /\ row[r].status \in {"AUTHORIZED", "CAPTURED"} /\ n <= row[r].amount - row[r].captured
      BY <1>1, <1>2, <2>2 DEF CaptureOperation, ReqFits
    <3>2. r \in Ext
      BY <1>3, <1>4, <3>1 DEF RowFits, Rows
    <3>3. row[r].status # "CAPTURED"
      BY <1>3, <1>4, <3>1, <3>2 DEF RowFits, RowType
    <3>4. row'[r].status \in {"CAPTURED", "AUTHORIZED"}
      BY <1>3, <2>2 DEF WithChild
    <3>5. QED
      BY <1>7, <3>1, <3>3, <3>4
  <2>3. CASE RefundCapture(s)
    BY <1>3, <1>7, <2>3 DEF WithChild
  <2>4. CASE ReverseAuth(s)
    BY <1>3, <1>7, <2>4 DEF WithChild
  <2>5. QED
    BY <2>1, <2>2, <2>3, <2>4 DEF InsertsChild
<1>8. QED
  BY <1>3, <1>5, <1>6, <1>7

(* The row a request works on.                                             *)
LEMMA UnpostedOwn ==
    ASSUME ShapeInv, FiniteInv, PostInv, Alone, ChecksHold, UnpostedIsLost, NEW s \in Sessions, Acts(s),
           NEW r, r = req[s].row, r \in Rows \ (lost' \cup contended'), Owed(r)', EntriesOf(r)' = {}
    PROVE  InPosting(r)'
<1>1. req \in [Sessions -> ReqType] /\ row \in [Rows -> RowType] /\ ReqFits(s) /\ RowFits(r)
  BY TypesSplit DEF ShapeInv
<1>2. entries \subseteq entries' /\ r \in Rows \ (lost \cup contended) /\ EntriesOf(r) = {}
  BY EntriesGrow, AloneMoves DEF EntriesOf
<1>3. ASSUME row'[r] = row[r], req[s].pc \in PostingPc => req'[s].pc \in PostingPc /\ req'[s].row = r
      PROVE  InPosting(r)'
  <2>1. Owed(r)
    BY <1>3 DEF Owed
  <2>2. QED
    BY <1>2, <1>3, <2>1, UnpostedKept
<1>4. ASSUME req'[s].row = r, req'[s].pc \in PostingPc
      PROVE  InPosting(r)'
  BY <1>4 DEF InPosting, Busy, PostingPc
<1>5. CASE Start(s) \/ InsertCollides(s) \/ ReverseAuthRefused(s)
  <2>1. row' = row
    BY <1>5 DEF Start, AuthorizeReplay, vars, AuthorizeChecks, ReverseChecks, LockForReversal,
           Lock, CommitChecks, RefundChecks, LockForCapture, LockForRefund, InsertCollides, ReverseAuthRefused
  <2>2. req[s].pc \notin PostingPc
    BY <1>5 DEF Start, AuthorizeReplay, AuthorizeChecks, ReverseChecks, LockForReversal, Begin, Idle,
           Lock, CommitChecks, RefundChecks, LockForCapture, LockForRefund, InsertCollides,
           ReverseAuthRefused, PostingPc
  <2>3. QED
    BY <1>3, <2>1, <2>2
<1>6. CASE Crash(s)
  <2>1. req[s].pc \notin PostingPc /\ row' = row
    BY <1>6 DEF Crash, PostingPc
  <2>2. QED
    BY <1>3, <2>1
<1>7. CASE PostingFails(s)
  <2>1. req' = [req EXCEPT ![s].pc = "failed"]
    BY <1>7 DEF PostingFails, Goto
  <2>2. req'[s].row = r /\ req'[s].pc = "failed"
    BY <1>1, <2>1 DEF ReqType
  <2>3. QED
    BY <1>4, <2>2 DEF PostingPc
<1>8. CASE InsertOperation(s) \/ RefreshOperation(s)
  <2>1. req'[s].row = r /\ req'[s].pc \in {"refresh", "post"}
    BY <1>1, <1>8 DEF InsertOperation, Goto, RefreshOperation, ReqType
  <2>2. QED
    BY <1>4, <2>1 DEF PostingPc
<1>9. CASE ReadBalance(s) \/ WriteBalance(s)
  <2>1. req' = req /\ row' = row
    BY <1>9 DEF ReadBalance, WriteBalance
  <2>2. QED
    BY <1>3, <2>1
<1>10. CASE CommitPosting(s)
  <2>1. PICK n : n = req[s].amount
    OBVIOUS
  <2>2. entries' = entries \cup {[row |-> r, account |-> Order(s)[1], amount |-> -n],
                                 [row |-> r, account |-> Order(s)[2], amount |-> n]}
    BY <1>10, <2>1, WhatIsPosted
  <2>3. [row |-> r, account |-> Order(s)[2], amount |-> n] \in entries'
    BY <2>2
  <2>4. EntriesOf(r)' # {}
    BY <2>3 DEF EntriesOf
  <2>5. QED
    BY <2>4
<1>11. CASE DeclineOperation(s)
  <2>1. row'[r].status = "DECLINED" /\ row'[r].type = "DECLINE"
    BY <1>1, <1>11 DEF DeclineOperation, NewRow
  <2>2. QED
    BY <2>1 DEF Owed
<1>12. CASE DeclineFailed(s) \/ ReverseOperation(s)
  <2>1. /\ DeclineFailed(s) => Rewritten(r, row[r].type, "DECLINED", row[r].settled)
        /\ ReverseOperation(s) => Rewritten(r, "REVERSE", "REVERSED", row[r].settled)
    BY WhatIsRewritten
  <2>2. row[r].type \in {"AUTH", "REVERSE"}
    BY <1>1, <1>12 DEF ReqFits, DeclineFailed, ReverseOperation
  <2>3. row'[r].status \in {"DECLINED", "REVERSED"} /\ row'[r].type \in {"AUTH", "REVERSE"}
    BY <1>12, <2>1, <2>2 DEF Rewritten
  <2>4. QED
    BY <2>3 DEF Owed
<1>13. CASE CommitOperation(s)
  <2>1. req[s].pc = "commit" /\ r \in Ext \ contended
    BY <1>1, <1>2, <1>13 DEF CommitOperation, ReqFits
  <2>2. row[r].status = "AUTHORIZED"
    BY <2>1 DEF ChecksHold
  <2>3. QED
    BY <1>2, <2>1, <2>2, AloneIsPosted DEF Owed, PostingPc
<1>14. CASE InsertsChild(s)
  <2>1. /\ req[s].pc \in {"refund", "locked"}
        /\ row'[r].type = row[r].type /\ row[r].type # "REFUND"
        /\ row'[r].status \in {"AUTHORIZED", "COMPLETED"} => row[r].status = row'[r].status
    BY <1>14, ParentKept
  <2>2. row[r].status \in {"AUTHORIZED", "COMPLETED"}
    BY <2>1 DEF Owed
  <2>3. QED
    BY <1>2, <2>1, <2>2, AloneIsPosted DEF Owed, PostingPc
<1>15. QED
  BY <1>5, <1>6, <1>7, <1>8, <1>9, <1>10, <1>11, <1>12, <1>13, <1>14 DEF Acts, Continue, InsertsChild

(* What is not posted is being posted or lost.                             *)
LEMMA UnpostedNext ==
    ASSUME ShapeInv, FiniteInv, PostInv, Alone, ChecksHold, UnpostedIsLost, NEW s \in Sessions, Acts(s)
    PROVE  UnpostedIsLost'
<1> SUFFICES ASSUME NEW r \in Rows \ (lost' \cup contended'), Owed(r)', EntriesOf(r)' = {}
             PROVE  InPosting(r)'
  BY DEF UnpostedIsLost, Owed
<1>1. CASE r = req[s].row
  BY <1>1, UnpostedOwn
<1>2. CASE r # req[s].row /\ row'[r] = row[r]
  <2>1. Owed(r)
    BY <1>2 DEF Owed
  <2>2. QED
    BY <1>2, <2>1, EntriesGrow, UnpostedKept
<1>3. CASE r # req[s].row /\ row'[r] # row[r]
  <2>1. r \in Free /\ InsertsChild(s)
    BY <1>3, RowsTouched DEF Free, Rows
  <2>2. PICK c, n, o : c = NewId /\ n = req[s].amount /\ o = req[s].row
    OBVIOUS
  <2>3. /\ InsertRefund(s) => \E st : WithChild(c, o, NewRow("REFUND", "REFUNDED", n, n, o), st,
                                                row[o].captured, row[o].refunded)
        /\ CaptureOperation(s) =>
              \E st : WithChild(c, o, NewRow("CAPTURE", "CAPTURED", n, 0, o), st,
                                row[o].captured + n, row[o].refunded)
        /\ RefundCapture(s) =>
              \E st : WithChild(c, o, NewRow("REFUND", "REFUNDED", n, 0, o), st,
                                row[o].captured, row[o].refunded + n)
        /\ ReverseAuth(s) =>
              \E st : WithChild(c, o, NewRow("REVERSAL", "REVERSED", row[o].amount, 0, o), st,
                                row[o].captured, row[o].refunded)
    BY <2>1, <2>2, WhatIsInserted DEF InsertsChild
  <2>4. r = c
    BY <1>3, <2>1, <2>2, <2>3 DEF InsertsChild, WithChild
  <2>5. CASE InsertRefund(s)
    <3>1. req \in [Sessions -> ReqType]
      BY TypesSplit DEF ShapeInv
    <3>2. PICK new : new = row'[NewId]
      OBVIOUS
    <3>3. req' = [req EXCEPT ![s].pc = "post", ![s].row = c, ![s].seen = new]
      BY <2>2, <2>5, <3>2 DEF InsertRefund
    <3>4. req'[s].row = r /\ req'[s].pc = "post"
      BY <2>4, <3>1, <3>3 DEF ReqType
    <3>5. QED
      BY <3>4 DEF InPosting, Busy
  <2>6. CASE CaptureOperation(s) \/ ReverseAuth(s)
    <3>1. row'[r].status \in {"CAPTURED", "REVERSED"} /\ row'[r].type \in {"CAPTURE", "REVERSAL"}
      <4>1. \/ row'[c] = NewRow("CAPTURE", "CAPTURED", n, 0, o)
            \/ row'[c] = NewRow("REVERSAL", "REVERSED", row[o].amount, 0, o)
        BY <2>3, <2>6 DEF WithChild
      <4>2. QED
        BY <2>4, <4>1 DEF NewRow
    <3>2. QED
      BY <3>1 DEF Owed
  <2>7. CASE RefundCapture(s)
    <3>1. row'[r].status = "REFUNDED" /\ row'[r].parent = o
      <4>1. row'[c] = NewRow("REFUND", "REFUNDED", n, 0, o)
        BY <2>3, <2>7 DEF WithChild
      <4>2. QED
        BY <2>4, <4>1 DEF NewRow
    <3>2. row[o].type = "CAPTURE" /\ o \in Rows
      BY <2>2, <2>7 DEF ShapeInv, ReqFits, RefundCapture
    <3>3. o \notin Ext
      BY <3>2 DEF ShapeInv, RowFits
    <3>4. QED
      BY <3>1, <3>3 DEF Owed
  <2>8. QED
    BY <2>1, <2>5, <2>6, <2>7 DEF InsertsChild
<1>4. QED
  BY <1>1, <1>2, <1>3

-----------------------------------------------------------------------------
(* Refunds of an operation and the contractual limit.                      *)

(* A row nobody else works on, when its children stay the same.            *)
LEMMA RefundsNext ==
    ASSUME ShapeInv, FiniteInv, Alone, ChecksHold, RefundsWithinSettled, NotYetRefunded,
           NEW s \in Sessions, Acts(s)
    PROVE  RefundsWithinSettled' /\ NotYetRefunded'
<1>1. /\ req \in [Sessions -> ReqType] /\ row \in [Rows -> RowType] /\ RowStep(s)
      /\ row' \in [Rows -> RowType]
  BY TypesSplit, RowsStep DEF ShapeInv, RowStep
<1>2. SUFFICES ASSUME NEW p \in Ext \ contended'
               PROVE  /\ SumOfRows(Of("REFUND", p))' <= Refundable(p)'
                      /\ row'[p].status \in {"AUTHORIZED", "CAPTURED"} => Of("REFUND", p)' = {}
  BY DEF RefundsWithinSettled, NotYetRefunded
<1>3. /\ p \in Rows /\ p \in Ext \ contended /\ RowFits(p)
      /\ row[p] \in RowType /\ row'[p] \in RowType
  BY <1>1, AloneMoves DEF Rows, ShapeInv
<1>4. /\ SumOfRows(Of("REFUND", p)) <= Refundable(p) /\ SumOfRows(Of("REFUND", p)) \in Nat
      /\ Refundable(p) \in Nat /\ Refundable(p)' \in Nat
      /\ row[p].status \in {"AUTHORIZED", "CAPTURED"} => Of("REFUND", p) = {}
  <2>1. SumOfRows(Of("REFUND", p)) \in Nat
    BY ChildrenAre, AmountTypes DEF ShapeInv
  <2>2. QED
    BY <1>3, <2>1 DEF RefundsWithinSettled, NotYetRefunded, Refundable, RowType
<1>5. \A c \in Free : row[c].type = "none" /\ c \in Rows /\ c # p
  BY IdsAreDistinct DEF Free, Exists, Rows, IdsAreDistinct
<1>6. \A c \in Free : row'[c] = row[c] \/ (InsertsChild(s) /\ row'[c].parent = req[s].row)
  BY RowsTouched
<1>7. ASSUME \A c \in Free : row'[c].type = "REFUND" => row'[c].parent # p,
             row'[p].settled = row[p].settled, row'[p].amount = row[p].amount,
             row'[p].status \in {"AUTHORIZED", "CAPTURED"} => row[p].status \in {"AUTHORIZED", "CAPTURED"}
      PROVE  /\ SumOfRows(Of("REFUND", p))' <= Refundable(p)'
             /\ row'[p].status \in {"AUTHORIZED", "CAPTURED"} => Of("REFUND", p)' = {}
  <2>1. /\ Of("REFUND", p)' = Of("REFUND", p)
        /\ SumOfRows(Of("REFUND", p))' = SumOfRows(Of("REFUND", p))
    BY <1>1, <1>7, OfKept
  <2>2. Refundable(p)' = Refundable(p)
    BY <1>7 DEF Refundable
  <2>3. QED
    BY <1>4, <1>7, <2>1, <2>2
<1>8. ASSUME ~InsertsChild(s), Of("REFUND", p) = {}
      PROVE  /\ SumOfRows(Of("REFUND", p))' <= Refundable(p)'
             /\ row'[p].status \in {"AUTHORIZED", "CAPTURED"} => Of("REFUND", p)' = {}
  <2>1. \A c \in Free : row'[c].type = "REFUND" => row'[c].parent # p
    BY <1>5, <1>6, <1>8
  <2>2. /\ Of("REFUND", p)' = Of("REFUND", p)
        /\ SumOfRows(Of("REFUND", p))' = SumOfRows(Of("REFUND", p))
    BY <1>1, <2>1, OfKept
  <2>3. SumOfRows(Of("REFUND", p)) = 0
    BY <1>8, SumEmpty DEF SumOfRows
  <2>4. QED
    BY <1>4, <1>8, <2>2, <2>3
<1>9. CASE p # req[s].row
  <2>1. row'[p] = row[p]
    BY <1>3, <1>9, RowsTouched
  <2>2. \A c \in Free : row'[c].type = "REFUND" => row'[c].parent # p
    BY <1>5, <1>6, <1>9
  <2>3. QED
    BY <1>7, <2>1, <2>2
<1>10. CASE p = req[s].row
  <2>1. CASE row' = row
    BY <1>5, <1>7, <2>1
  <2>2. CASE InsertOperation(s) \/ DeclineOperation(s)
    <3>1. ~Exists(p) /\ ~InsertsChild(s)
      BY <1>10, <2>2 DEF InsertOperation, DeclineOperation, Checked, InsertsChild, InsertRefund,
                         CaptureOperation, RefundCapture, ReverseAuth
    <3>2. QED
      BY <1>8, <3>1, AbsentHasNoChildren
  <2>3. CASE CommitPosting(s) \/ DeclineFailed(s) \/ ReverseOperation(s)
    <3>1. \E type, status : /\ Rewritten(p, type, status, row[p].settled)
                            /\ \/ status \in {"DECLINED", "REVERSED"}
                               \/ CommitPosting(s) /\ status = StatusAfterPosting(s)
      BY <1>10, <2>3, WhatIsRewritten
    <3>2. CommitPosting(s) => StatusAfterPosting(s) = row[p].status
      BY <1>3, <1>10 DEF ChecksHold, CommitPosting, StatusAfterPosting
    <3>3. /\ row'[p].settled = row[p].settled /\ row'[p].amount = row[p].amount
          /\ row'[p].status \in {"DECLINED", "REVERSED", row[p].status}
      BY <3>1, <3>2 DEF Rewritten
    <3>4. ~InsertsChild(s)
      BY <2>3 DEF CommitPosting, DeclineFailed, ReverseOperation, InsertsChild, InsertRefund,
                  CaptureOperation, RefundCapture, ReverseAuth
    <3>5. QED
      BY <1>5, <1>6, <1>7, <3>3, <3>4
  <2>4. CASE CommitOperation(s)
    <3>1. req[s].pc = "commit" /\ ~InsertsChild(s)
      BY <2>4 DEF CommitOperation, InsertsChild, InsertRefund, CaptureOperation, RefundCapture, ReverseAuth
    <3>2. row[p].status = "AUTHORIZED"
      BY <1>3, <1>10, <3>1 DEF ChecksHold
    <3>3. QED
      BY <1>4, <1>8, <3>1, <3>2
  <2>5. CASE InsertsChild(s)
    <3>1. PICK c, n : c = NewId /\ n = req[s].amount
      OBVIOUS
    <3>2. /\ c \in Free /\ c # p /\ n \in Nat
          /\ InsertRefund(s) =>
                WithChild(c, p, NewRow("REFUND", "REFUNDED", n, n, p), row[p].status,
                          row[p].captured, row[p].refunded)
          /\ CaptureOperation(s) =>
                WithChild(c, p, NewRow("CAPTURE", "CAPTURED", n, 0, p),
                          IF row[p].captured + n >= row[p].amount THEN "CAPTURED" ELSE "AUTHORIZED",
                          row[p].captured + n, row[p].refunded)
          /\ ReverseAuth(s) =>
                WithChild(c, p, NewRow("REVERSAL", "REVERSED", row[p].amount, 0, p), "REVERSED",
                          row[p].captured, row[p].refunded)
      BY <1>1, <1>10, <2>5, <3>1, WhatIsInserted DEF InsertsChild, ReqType
    <3>3. CASE InsertRefund(s)
      <4>1. WithChild(c, p, NewRow("REFUND", "REFUNDED", n, n, p), row[p].status,
                      row[p].captured, row[p].refunded)
        BY <3>2, <3>3
      <4>2. /\ row'[c] = NewRow("REFUND", "REFUNDED", n, n, p) /\ row'[p].status = row[p].status
            /\ row'[p].settled = row[p].settled /\ row'[p].amount = row[p].amount
            /\ \A d \in Free \ {c} : row'[d] = row[d]
        BY <1>5, <4>1 DEF WithChild
      <4>3. row'[c].type = "REFUND" /\ row'[c].parent = p /\ row'[c].amount = n
        BY <4>2 DEF NewRow
      <4>4. SumOfRows(Of("REFUND", p))' = SumOfRows(Of("REFUND", p)) + n
        BY <1>1, <1>5, <3>2, <4>2, <4>3, OfGrows
      <4>5. row[p].status = "COMPLETED" /\ RefundFits(p, n)
        BY <1>3, <1>10, <3>1, <3>3 DEF ChecksHold, InsertRefund
      <4>6. Refundable(p)' = Refundable(p)
        BY <4>2 DEF Refundable
      <4>7. QED
        BY <4>2, <4>4, <4>5, <4>6 DEF RefundFits
    <3>4. CASE CaptureOperation(s)
      <4>1. PICK st : WithChild(c, p, NewRow("CAPTURE", "CAPTURED", n, 0, p), st,
                                row[p].captured + n, row[p].refunded)
        BY <3>2, <3>4
      <4>2. /\ row'[c] = NewRow("CAPTURE", "CAPTURED", n, 0, p)
            /\ row'[p].settled = row[p].settled /\ row'[p].amount = row[p].amount
        BY <4>1 DEF WithChild
      <4>3. \A d \in Free \ {c} : row'[d] = row[d]
        BY <1>5, <4>1 DEF WithChild
      <4>4. row'[c].type = "CAPTURE"
        BY <4>2 DEF NewRow
      <4>5. row[p].status \in {"AUTHORIZED", "CAPTURED"}
        BY <1>10, <3>4 DEF ShapeInv, ReqFits, CaptureOperation
      <4>6. QED
        BY <1>5, <1>7, <4>2, <4>3, <4>4, <4>5
    <3>5. CASE ReverseAuth(s)
      <4>1. WithChild(c, p, NewRow("REVERSAL", "REVERSED", row[p].amount, 0, p), "REVERSED",
                      row[p].captured, row[p].refunded)
        BY <3>2, <3>5
      <4>2. /\ row'[c] = NewRow("REVERSAL", "REVERSED", row[p].amount, 0, p) /\ row'[p].status = "REVERSED"
            /\ row'[p].settled = row[p].settled /\ row'[p].amount = row[p].amount
        BY <4>1 DEF WithChild
      <4>3. \A d \in Free \ {c} : row'[d] = row[d]
        BY <1>5, <4>1 DEF WithChild
      <4>4. row'[c].type = "REVERSAL"
        BY <4>2 DEF NewRow
      <4>5. QED
        BY <1>5, <1>7, <4>2, <4>3, <4>4
    <3>6. CASE RefundCapture(s)
      BY <1>3, <1>10, <3>6 DEF ShapeInv, ReqFits, RefundCapture, RowFits
    <3>7. QED
      BY <2>5, <3>3, <3>4, <3>5, <3>6 DEF InsertsChild
  <2>6. CASE Start(s)
    <3>1. row' = row
      BY <2>6 DEF Start, AuthorizeReplay, vars, AuthorizeChecks, ReverseChecks, LockForReversal,
                  Lock, CommitChecks, RefundChecks, LockForCapture, LockForRefund
    <3>2. QED
      BY <2>1, <3>1
  <2>7. QED
    BY <2>1, <2>2, <2>3, <2>4, <2>5, <2>6
       DEF Acts, Continue, InsertsChild, PostingFails, Crash, InsertCollides, RefreshOperation, ReadBalance,
           WriteBalance, ReverseAuthRefused
<1>11. QED
  BY <1>9, <1>10

(* An operation stops counting, or nothing changes.                        *)
LEMMA LimitKept ==
    ASSUME ShapeInv, LimitFits, NEW s \in Sessions, RowStep(s), NEW o,
           rushed => rushed', contended \subseteq contended',
           ~rushed' /\ contended' = {} => Used' = Used \/ Used' = Used \ {o},
           \A t \in Sessions : Checked(t)' => Checked(t)
    PROVE  LimitFits'
<1> SUFFICES ASSUME ~rushed', contended' = {}
             PROVE  /\ \A t, u \in Sessions : Checked(t)' /\ Checked(u)' => t = u
                    /\ SumOfRows(Used)' <= Limit
                    /\ \A t \in Sessions : Checked(t)' => SumOfRows(Used)' + Amount <= Limit
  BY DEF LimitFits
<1>1. /\ \A t, u \in Sessions : Checked(t) /\ Checked(u) => t = u
      /\ SumOfRows(Used) <= Limit
      /\ \A t \in Sessions : Checked(t) => SumOfRows(Used) + Amount <= Limit
  BY DEF LimitFits
<1>2. Used \in SUBSET Rows /\ Used \ {o} \in SUBSET Rows /\ (\A r \in Used : Exists(r)) /\ IsFiniteSet(Used)
  <2>1. Used \in SUBSET Rows /\ \A r \in Used : Exists(r)
    BY DEF Used, Rows, ShapeInv, RowFits, Absent, NewRow
  <2>2. QED
    BY <2>1, SetsAreFinite
<1>3. PICK S : S = Used'
  OBVIOUS
<1>4. S \in SUBSET Rows /\ (S = Used \/ S = Used \ {o}) /\ \A r \in S : Exists(r)
  BY <1>2, <1>3
<1>5. SumOfRows(Used)' = SumOfRows(S)
  <2>1. SumOfRows(Used)' = SumOf([r \in Rows |-> row'[r].amount], S)
    BY <1>3 DEF SumOfRows
  <2>2. QED
    BY <1>4, <2>1, SumsKept DEF ShapeInv
<1>6. SumOfRows(S) <= SumOfRows(Used) /\ SumOfRows(S) \in Nat /\ SumOfRows(Used) \in Nat
  <2>1. SumOfRows(S) \in Nat /\ SumOfRows(Used) \in Nat
    BY <1>2, <1>4, AmountTypes DEF ShapeInv
  <2>2. CASE S = Used
    BY <2>1, <2>2
  <2>3. CASE S = Used \ {o} /\ o \in Used
    <3>1. \A r \in Used : AmountOf[r] \in Nat
      BY <1>2, AmountTypes DEF ShapeInv
    <3>2. \A r \in Used : AmountOf[r] \in Int
      BY <3>1
    <3>3. SumOf(AmountOf, Used) = AmountOf[o] + SumOf(AmountOf, Used \ {o})
      BY <1>2, <2>3, <3>2, SumRemove
    <3>4. SumOfRows(Used) = SumOf(AmountOf, Used) /\ SumOfRows(S) = SumOf(AmountOf, S)
      BY AmountTypes DEF ShapeInv
    <3>5. QED
      BY <2>1, <2>3, <3>1, <3>3, <3>4
  <2>4. CASE S = Used \ {o} /\ o \notin Used
    <3>1. S = Used
      BY <2>4
    <3>2. QED
      BY <2>2, <3>1
  <2>5. QED
    BY <1>4, <2>2, <2>3, <2>4
<1>7. Limit \in Nat /\ Amount \in Nat
  BY AmountsArePositive DEF AmountsArePositive
<1>8. QED
  BY <1>1, <1>5, <1>6, <1>7

(* The checks of an authorisation find room for it.                        *)
LEMMA LimitChecked ==
    ASSUME ShapeInv, FiniteInv, LimitFits, NEW s \in Sessions, NEW x \in Ext, AuthorizeChecks(s, x)
    PROVE  LimitFits'
<1>1. req \in [Sessions -> ReqType]
  BY TypesSplit DEF ShapeInv
<1>2. PICK status \in Verdicts :
         /\ status = "AUTHORIZED" => WithinContract
         /\ req' = [req EXCEPT ![s] = [pc |-> "insert", row |-> x, amount |-> Amount,
                                       seen |-> NewRow("none", status, 0, 0, NoRow)]]
  BY DEF AuthorizeChecks
<1>3. /\ req'[s].pc = "insert" /\ req'[s].seen.status = status
      /\ \A t \in Sessions \ {s} : req'[t] = req[t]
  BY <1>1, <1>2 DEF NewRow
<1>4. /\ row' = row /\ contended \subseteq contended' /\ req[s] = Idle
      /\ rushed' = (rushed \/ \E t \in Sessions : Checked(t))
  BY DEF AuthorizeChecks
<1>5. \A t \in Sessions \ {s} : Checked(t)' <=> Checked(t)
  BY <1>3 DEF Checked
<1>6. Checked(s)' <=> status = "AUTHORIZED"
  BY <1>3 DEF Checked
<1>7. Used' = Used /\ SumOfRows(Used)' = SumOfRows(Used)
  BY <1>4 DEF Used, SumOfRows
<1>8. Usage = SumOfRows(Used)
  <2>1. {r \in Rows : row[r].status \in SUCCESS_STATUSES} = Used
    BY DEF Used, SUCCESS_STATUSES, Rows, ShapeInv, RowFits
  <2>2. QED
    BY <2>1 DEF Usage
<1>9. status = "AUTHORIZED" => SumOfRows(Used) + Amount <= Limit
  BY <1>2, <1>8 DEF WithinContract
<1>10. QED
  BY <1>4, <1>5, <1>6, <1>7, <1>9 DEF LimitFits

(* An authorisation that was checked fits into the limit.                  *)
LEMMA LimitInserted ==
    ASSUME ShapeInv, LimitFits, NEW s \in Sessions, InsertOperation(s)
    PROVE  LimitFits'
<1>1. req \in [Sessions -> ReqType] /\ row \in [Rows -> RowType] /\ RowStep(s)
  BY TypesSplit, RowsStep DEF ShapeInv, Acts, Continue
<1>2. PICK x : x = req[s].row
  OBVIOUS
<1>3. /\ Checked(s) /\ ~Exists(x) /\ x \in Ext /\ x \in Rows
      /\ row' = [row EXCEPT ![x] = NewRow("AUTH", "AUTHORIZED", Amount, 0, NoRow)]
      /\ contended' = contended /\ rushed' = rushed
      /\ req' = [req EXCEPT ![s].pc = "refresh"]
  BY <1>2 DEF InsertOperation, Checked, ShapeInv, ReqFits, Rows, history, Goto
<1>4. /\ row'[x].status = "AUTHORIZED" /\ row'[x].amount = Amount
      /\ \A r \in Rows \ {x} : row'[r] = row[r]
  BY <1>1, <1>3 DEF NewRow
<1>5. ~Checked(s)' /\ \A t \in Sessions : Checked(t)' => Checked(t)
  BY <1>1, <1>3 DEF Checked, ReqType
<1>6. Used \in SUBSET Rows /\ x \notin Used /\ (\A r \in Used : Exists(r)) /\ IsFiniteSet(Used)
  <2>1. Used \in SUBSET Rows /\ \A r \in Used : Exists(r)
    BY DEF Used, Rows, ShapeInv, RowFits, Absent, NewRow
  <2>2. QED
    BY <1>3, <2>1, SetsAreFinite
<1>7. Used' = Used \cup {x}
  BY <1>3, <1>4 DEF Used, Rows
<1> DEFINE g == [r \in Rows |-> row'[r].amount]
<1>8. (\A r \in Rows : g[r] \in Int) /\ g[x] = Amount
  BY <1>1, <1>3, <1>4 DEF RowStep, RowType
<1>9. SumOfRows(Used)' = SumOf(g, Used \cup {x})
  BY <1>7 DEF SumOfRows
<1>10. SumOf(g, Used) = SumOfRows(Used)
  BY <1>1, <1>6, SumsKept DEF ShapeInv
<1> HIDE DEF g
<1>11. SumOf(g, Used \cup {x}) = g[x] + SumOf(g, Used)
  BY <1>3, <1>6, <1>8, SumAdd
<1>12. SumOfRows(Used) \in Nat /\ Limit \in Nat /\ Amount \in Nat
  BY <1>6, AmountTypes, AmountsArePositive DEF ShapeInv, AmountsArePositive
<1>13. SumOfRows(Used)' = SumOfRows(Used) + Amount
  BY <1>8, <1>9, <1>10, <1>11, <1>12
<1>14. QED
  <2> SUFFICES ASSUME ~rushed', contended' = {}
               PROVE  /\ \A t, u \in Sessions : Checked(t)' /\ Checked(u)' => t = u
                      /\ SumOfRows(Used)' <= Limit
                      /\ \A t \in Sessions : Checked(t)' => SumOfRows(Used)' + Amount <= Limit
    BY DEF LimitFits
  <2>1. /\ \A t, u \in Sessions : Checked(t) /\ Checked(u) => t = u
        /\ SumOfRows(Used) + Amount <= Limit
    BY <1>3 DEF LimitFits
  <2>2. \A t \in Sessions : ~Checked(t)'
    BY <1>3, <1>5, <2>1
  <2>3. QED
    BY <1>13, <2>1, <2>2

(* Every step keeps the limit, or is named by a history variable.          *)
LEMMA LimitNext ==
    ASSUME ShapeInv, FiniteInv, Alone, ChecksHold, LimitFits, NEW s \in Sessions, Acts(s)
    PROVE  LimitFits'
<1>1. req \in [Sessions -> ReqType] /\ row \in [Rows -> RowType] /\ RowStep(s)
  BY TypesSplit, RowsStep DEF ShapeInv
<1>2. PICK o : o = req[s].row
  OBVIOUS
<1>3. \A x \in Ext \ {o} : row'[x] = row[x]
  BY <1>2, RowsTouched DEF Rows
<1>4. contended \subseteq contended' /\ \A t \in Sessions \ {s} : req'[t] = req[t]
  BY AloneMoves, OthersKept
<1>5. ASSUME rushed => rushed',
             req'[s].pc # "insert" \/ req' = req,
             o \in Ext /\ contended' = {} /\ row'[o].status \in {"AUTHORIZED", "COMPLETED"}
                => row[o].status \in {"AUTHORIZED", "COMPLETED"}
      PROVE  LimitFits'
  <2>1. \A t \in Sessions : Checked(t)' => Checked(t)
    BY <1>4, <1>5 DEF Checked
  <2>2. contended' = {} => Used' = Used \/ Used' = Used \ {o}
    BY <1>3, <1>5 DEF Used
  <2>3. QED
    BY <1>1, <1>4, <1>5, <2>1, <2>2, LimitKept
<1>6. CASE Start(s)
  <2>1. CASE \E x \in Ext : AuthorizeChecks(s, x)
    BY <2>1, LimitChecked
  <2>2. CASE ~\E x \in Ext : AuthorizeChecks(s, x)
    <3>1. row' = row /\ rushed' = rushed
      BY <1>6, <2>2 DEF Start, AuthorizeReplay, vars, ReverseChecks, LockForReversal,
                        Lock, CommitChecks, RefundChecks, LockForCapture, LockForRefund
    <3>2. req'[s].pc # "insert" \/ req' = req
      BY <1>1, <1>6, <2>2 DEF Start, AuthorizeReplay, vars, ReverseChecks, LockForReversal, Begin,
                        Lock, CommitChecks, RefundChecks, LockForCapture, LockForRefund
    <3>3. QED
      BY <1>5, <3>1, <3>2
  <2>3. QED
    BY <2>1, <2>2
<1>7. ASSUME ~Start(s)
      PROVE  rushed' = rushed
  BY <1>7 DEF Acts, Continue, history, InsertOperation, DeclineOperation, InsertCollides, RefreshOperation,
       ReadBalance, WriteBalance, CommitPosting, DeclineFailed, CommitOperation, ReverseOperation,
       ReverseAuthRefused, InsertRefund, CaptureOperation, RefundCapture, ReverseAuth, PostingFails, Crash
<1>8. CASE InsertOperation(s)
  BY <1>8, LimitInserted
<1>9. ASSUME ~Start(s), ~InsertOperation(s)
      PROVE  req'[s].pc # "insert" \/ req' = req
  <2>1. CASE req' = [req EXCEPT ![s] = Idle] \/ req' = [req EXCEPT ![s].pc = "failed"] \/ req' = req
    BY <1>1, <2>1 DEF Idle, ReqType
  <2>2. CASE RefreshOperation(s)
    BY <1>1, <2>2 DEF RefreshOperation, ReqType
  <2>3. CASE InsertRefund(s)
    <3>1. PICK c, new : c = NewId /\ new = row'[NewId]
      OBVIOUS
    <3>2. req' = [req EXCEPT ![s].pc = "post", ![s].row = c, ![s].seen = new]
      BY <2>3, <3>1 DEF InsertRefund
    <3>3. QED
      BY <1>1, <3>2 DEF ReqType
  <2>4. QED
    BY <1>9, <2>1, <2>2, <2>3 DEF Acts, Continue, PostingFails, Crash, Finish, Goto, DeclineOperation,
       InsertCollides, ReadBalance, WriteBalance, CommitPosting, DeclineFailed, CommitOperation,
       ReverseOperation, ReverseAuthRefused, CaptureOperation, RefundCapture, ReverseAuth
<1>10. ASSUME ~Start(s), ~InsertOperation(s), o \in Ext, contended' = {},
              row'[o].status \in {"AUTHORIZED", "COMPLETED"}
       PROVE  row[o].status \in {"AUTHORIZED", "COMPLETED"}
  <2>1. o \in Ext \ contended /\ o \in Rows
    BY <1>4, <1>10 DEF Rows
  <2>2. CASE row' = row
    BY <1>10, <2>2
  <2>3. CASE CommitOperation(s) \/ CommitPosting(s)
    BY <1>2, <2>1, <2>3 DEF ChecksHold, CommitOperation, CommitPosting
  <2>4. CASE DeclineFailed(s) \/ ReverseOperation(s)
    <3>1. \E type, status : /\ Rewritten(o, type, status, row[o].settled)
                            /\ status \in {"DECLINED", "REVERSED"}
      BY <1>2, <2>4, WhatIsRewritten
    <3>2. QED
      BY <1>10, <3>1 DEF Rewritten
  <2>5. CASE DeclineOperation(s)
    BY <1>1, <1>2, <1>10, <2>1, <2>5 DEF DeclineOperation, NewRow
  <2>6. CASE InsertsChild(s)
    BY <1>2, <1>10, <2>6, ParentKept
  <2>7. QED
    BY <1>10, <2>2, <2>3, <2>4, <2>5, <2>6 DEF Acts, Continue, InsertsChild, PostingFails, Crash,
       InsertCollides, RefreshOperation, ReadBalance, WriteBalance, ReverseAuthRefused
<1>11. CASE ~Start(s) /\ ~InsertOperation(s)
  BY <1>5, <1>7, <1>9, <1>10, <1>11
<1>12. QED
  BY <1>6, <1>8, <1>11

-----------------------------------------------------------------------------
(* The inductive invariant.                                                *)
IInv == FiniteInv /\ ShapeInv /\ PostInv /\ AloneInv /\ AmountInv

(* The invariant holds when the system starts.                             *)
LEMMA InductiveInit == Init => IInv
<1> SUFFICES ASSUME Init PROVE IInv
  OBVIOUS
<1>1. FiniteInv /\ ShapeInv /\ PostInv
  BY FiniteInit, ShapeInit, PostInit
<1>2. /\ \A r \in Rows : row[r] = Absent /\ ~Exists(r)
      /\ \A s \in Sessions : req[s] = Idle
  BY DEF Init, Exists, Absent, NewRow
<1>3. /\ Absent.type = "none" /\ Absent.status = "none" /\ Absent.captured = 0 /\ Absent.amount = 0
      /\ Absent.settled = 0 /\ Idle.pc = "idle" /\ Idle.row \notin Rows /\ Idle.row \notin Ext
  BY IdsAreDistinct DEF Absent, NewRow, Idle, Rows, IdsAreDistinct
<1>4. AloneInv
  BY <1>2, <1>3 DEF AloneInv, Alone, ChecksHold, UnpostedIsLost
<1>5. \A r \in Rows : /\ Of("CAPTURE", r) = {} /\ SumOfRows(Of("CAPTURE", r)) = 0
                      /\ Of("REFUND", r) = {} /\ SumOfRows(Of("REFUND", r)) = 0
  BY <1>1, <1>2, AbsentHasNoChildren
<1>6. CapturesAddUp /\ RefundsWithinSettled /\ NotYetRefunded
  BY <1>2, <1>3, <1>5 DEF CapturesAddUp, RefundsWithinSettled, NotYetRefunded, Refundable, Rows
<1>7. LimitFits
  <2>1. Used = {} /\ \A s \in Sessions : ~Checked(s)
    BY <1>2, <1>3 DEF Used, Checked, Rows
  <2>2. SumOfRows(Used) = 0
    BY <2>1, SumEmpty DEF SumOfRows
  <2>3. QED
    BY <2>1, <2>2, AmountsArePositive DEF LimitFits, AmountsArePositive
<1>8. QED
  BY <1>1, <1>4, <1>6, <1>7 DEF IInv, AmountInv

(* Every step keeps it.                                                    *)
LEMMA InductiveNext == IInv /\ [Next]_vars => IInv'
<1> SUFFICES ASSUME IInv, [Next]_vars PROVE IInv'
  OBVIOUS
<1>1. FiniteInv' /\ ShapeInv' /\ PostInv'
  BY FiniteNext, ShapeNext, PostNext DEF IInv
<1>2. ASSUME NEW s \in Sessions, Acts(s)
      PROVE  AloneInv' /\ AmountInv'
  <2>1. Alone' /\ ChecksHold'
    BY <1>2, AloneNext, ChecksNext DEF IInv, AloneInv
  <2>2. UnpostedIsLost'
    BY <1>2, UnpostedNext DEF IInv, AloneInv
  <2>3. RefundsWithinSettled' /\ NotYetRefunded'
    BY <1>2, RefundsNext DEF IInv, AloneInv, AmountInv
  <2>4. CapturesAddUp' /\ LimitFits'
    BY <1>2, CapturesNext, LimitNext DEF IInv, AloneInv, AmountInv
  <2>5. QED
    BY <2>1, <2>2, <2>3, <2>4 DEF AloneInv, AmountInv
<1>3. CASE UNCHANGED vars
  <2>1. UNCHANGED <<row, entries, balance, req, got, written, contended, overlapped, rushed, lost>>
    BY <1>3 DEF vars
  <2>2. AloneInv'
    BY <2>1 DEF IInv, AloneInv, Alone, ChecksHold, RefundFits, SumOfRows, Of, Refundable,
                UnpostedIsLost, EntriesOf, InPosting, Busy
  <2>3. AmountInv'
    BY <2>1 DEF IInv, AmountInv, RefundsWithinSettled, NotYetRefunded, CapturesAddUp, LimitFits, SumOfRows,
                Of, Refundable, Checked, Used
  <2>4. QED
    BY <1>1, <2>2, <2>3 DEF IInv
<1>4. QED
  BY <1>1, <1>2, <1>3 DEF IInv, Next, Acts

(* It always holds.                                                        *)
LEMMA Inductive == Spec => []IInv
BY InductiveInit, InductiveNext, PTL DEF Spec

(* Crashes, failures and deadlocks between the two commits of              *)
(* authorize_operation and refund_operation leave an operation posted in   *)
(* full or not at all, and unposted only when its session was lost or      *)
(* other requests worked on it before.                                     *)
THEOREM OperationsArePosted == Spec => []EveryOperationIsPosted
<1>1. IInv => EveryOperationIsPosted
  BY DEF IInv, ShapeInv, PostInv, AloneInv, EveryOperationIsPosted
<1>2. QED
  BY <1>1, Inductive, PTL

(* post_entry keeps account_balances equal to the sum of ledger_entries    *)
(* on every account on which no two postings were under way at once.       *)
THEOREM BalancesAreSums == Spec => []BalanceIsSum
<1>1. IInv => BalanceIsSum
  BY DEF IInv, PostInv
<1>2. QED
  BY <1>1, Inductive, PTL

(* refund_operation, check_contractual_limits and the captures of          *)
(* transactions.py: what they check before they write holds afterwards.    *)
THEOREM AmountsHoldAlways == Spec => []AmountsHold
<1>1. IInv => AmountsHold
  BY DEF IInv, AmountInv, AmountsHold, UsageWithinLimit, LimitFits, Used
<1>2. QED
  BY <1>1, Inductive, PTL

=============================================================================
