--------------------------- MODULE InternalLedger ---------------------------
(***************************************************************************)
(* The tamper-evident internal ledger: InternalLedgerService of            *)
(* app/services/internal_ledger.py over the tables of                      *)
(* app/models/internal_ledger.py, used by concurrent database sessions.    *)
(*                                                                         *)
(* A session runs post_transaction one statement at a time inside a        *)
(* PostgreSQL READ COMMITTED transaction: a statement sees the committed   *)
(* rows and the session's own flushed rows.  Nothing locks the chain; what *)
(* keeps it a chain are the two unique constraints of the header table.    *)
(* SHA-256 is taken to be collision free, so a batch hash is modelled by   *)
(* everything that was hashed into it: the sequence of the batches from    *)
(* the genesis value on.                                                   *)
(***************************************************************************)
EXTENDS LedgerPostings

CONSTANTS Sessions,   \* database sessions (HTTP handlers, Celery workers)
          Tenants,
          Keys,       \* idempotency keys
          Batches,    \* the batches callers ask to post
          NoCall      \* the call of a session that is not posting

ASSUME BatchesAreSequences ==
    \A b \in Batches : b \in Seq({b[i] : i \in DOMAIN b})

ASSUME NoCallIsNoCall ==
    NoCall \notin [tenant : Tenants, key : Keys, batch : Batches]

VARIABLES
    txns,       \* committed internal_ledger_transactions
    entries,    \* committed internal_ledger_entries
    accounts,   \* committed internal_ledger_accounts
    mine,       \* mine[s]: rows s has flushed and not committed
    pc,         \* pc[s]: the next statement of s
    call,       \* call[s]: the arguments of the posting in progress
    seq,        \* seq[s]: result of _next_batch_sequence
    prev,       \* prev[s]: result of _last_batch_hash
    line        \* line[s]: the line whose account is looked up next

tables == <<txns, entries, accounts>>
locals == <<call, seq, prev, line>>
vars   == <<txns, entries, accounts, mine, pc, call, seq, prev, line>>

GENESIS_BATCH_HASH == <<>>

(* compute_batch_hash *)
BatchHash(previous, batch) == Append(previous, batch)

Hash    == Seq(Batches)
Call    == [tenant : Tenants, key : Keys, batch : Batches]
NoRows  == [txns |-> {}, entries |-> {}, accounts |-> {}]
States  == {"idle", "open", "seq", "hash", "insert", "accounts", "entries"}

(* What a SELECT of session s sees. *)
VisibleTxns(s)     == txns \cup mine[s].txns
VisibleAccounts(s) == accounts \cup mine[s].accounts

Init ==
    /\ txns = {} /\ entries = {} /\ accounts = {}
    /\ mine = [s \in Sessions |-> NoRows]
    /\ pc   = [s \in Sessions |-> "idle"]
    /\ call = [s \in Sessions |-> NoCall]
    /\ seq  = [s \in Sessions |-> 0]
    /\ prev = [s \in Sessions |-> GENESIS_BATCH_HASH]
    /\ line = [s \in Sessions |-> 0]

-----------------------------------------------------------------------------
(* The end of a call and of a database transaction.                        *)

ForgetCall(s) ==
    /\ call' = [call EXCEPT ![s] = NoCall]
    /\ seq'  = [seq EXCEPT ![s] = 0]
    /\ prev' = [prev EXCEPT ![s] = GENESIS_BATCH_HASH]
    /\ line' = [line EXCEPT ![s] = 0]

(* An exception leaves the service: the caller's transaction rolls back.   *)
Abort(s) ==
    /\ mine' = [mine EXCEPT ![s] = NoRows]
    /\ pc' = [pc EXCEPT ![s] = "idle"]
    /\ ForgetCall(s)
    /\ UNCHANGED tables

(* The call returns to the caller, whose transaction goes on.              *)
Return(s) ==
    /\ pc' = [pc EXCEPT ![s] = "open"]
    /\ ForgetCall(s)

-----------------------------------------------------------------------------
(* post_transaction up to the idempotency lookup of                        *)
(* _get_or_create_transaction.                                             *)

Existing(s, k) == {h \in VisibleTxns(s) : h.key = k}

SameAmount(h, b) == h.total = DebitSum(b) /\ h.currency = BatchCurrency(b)

Callable(s) == pc[s] \in {"idle", "open"}

PostTransaction(s, t, k, b) ==
    /\ Callable(s)
    /\ ValidBatch(b)
    /\ Existing(s, k) = {}
    /\ call' = [call EXCEPT ![s] = [tenant |-> t, key |-> k, batch |-> b]]
    /\ pc' = [pc EXCEPT ![s] = "seq"]
    /\ UNCHANGED <<txns, entries, accounts, mine, seq, prev, line>>

(* The key was posted before, by this or another tenant: the old header is *)
(* returned.                                                               *)
PostReplayed(s, k, b) ==
    /\ Callable(s)
    /\ ValidBatch(b)
    /\ \E h \in Existing(s, k) : SameAmount(h, b)
    /\ Return(s)
    /\ UNCHANGED <<tables, mine>>

(* ValueError: a malformed batch, or a known key with another amount or    *)
(* currency.                                                               *)
PostRejected(s, k, b) ==
    /\ Callable(s)
    /\ \/ ~ValidBatch(b)
       \/ \E h \in Existing(s, k) : ~SameAmount(h, b)
    /\ Abort(s)

-----------------------------------------------------------------------------
(* The header row.                                                         *)

TenantTxns(s) == {h \in VisibleTxns(s) : h.tenant = call[s].tenant}

IsLatest(h, rows) == h \in rows /\ \A g \in rows : g.seq <= h.seq

NextBatchSequence(s) ==
    /\ pc[s] = "seq"
    /\ \/ TenantTxns(s) = {} /\ seq' = [seq EXCEPT ![s] = 1]
       \/ \E h \in TenantTxns(s) :
             /\ IsLatest(h, TenantTxns(s))
             /\ seq' = [seq EXCEPT ![s] = h.seq + 1]
    /\ pc' = [pc EXCEPT ![s] = "hash"]
    /\ UNCHANGED <<txns, entries, accounts, mine, call, prev, line>>

(* A statement of its own: another session may have committed since the    *)
(* sequence number was read.                                               *)
LastBatchHash(s) ==
    /\ pc[s] = "hash"
    /\ \/ TenantTxns(s) = {} /\ prev' = [prev EXCEPT ![s] = GENESIS_BATCH_HASH]
       \/ \E h \in TenantTxns(s) :
             /\ IsLatest(h, TenantTxns(s))
             /\ prev' = [prev EXCEPT ![s] = h.hash]
    /\ pc' = [pc EXCEPT ![s] = "insert"]
    /\ UNCHANGED <<txns, entries, accounts, mine, call, seq, line>>

(* Mutant: batch_sequence is left to the column's server default.          *)
NewHeaderWithoutSequence(s) ==
    [tenant |-> call[s].tenant, key |-> call[s].key, seq |-> 0,
     prev |-> prev[s], hash |-> BatchHash(prev[s], call[s].batch),
     total |-> DebitSum(call[s].batch),
     currency |-> BatchCurrency(call[s].batch)]

NewHeader(s) ==
    [tenant   |-> call[s].tenant,
     key      |-> call[s].key,
     seq      |-> seq[s],
     prev     |-> prev[s],
     hash     |-> BatchHash(prev[s], call[s].batch),
     total    |-> DebitSum(call[s].batch),
     currency |-> BatchCurrency(call[s].batch)]

(* Mutants: one of the two unique constraints is missing.                  *)
ClashesOnKeyOnly(h, g)      == h.key = g.key
ClashesOnSequenceOnly(h, g) == h.tenant = g.tenant /\ h.seq = g.seq

(* uq_internal_ledger_batch_sequence and the unique idempotency_key.       *)
Clashes(h, g) ==
    \/ h.key = g.key
    \/ h.tenant = g.tenant /\ h.seq = g.seq

UniqueViolation(s) == \E h \in VisibleTxns(s) : Clashes(NewHeader(s), h)

(* PostgreSQL makes the INSERT wait for the transaction that holds an      *)
(* uncommitted row with the same unique value.                             *)
WaitsFor(s, r) ==
    /\ r # s
    /\ pc[s] = "insert"
    /\ ~UniqueViolation(s)
    /\ \E h \in mine[r].txns : Clashes(NewHeader(s), h)

InsertTransaction(s) ==
    /\ pc[s] = "insert"
    /\ ~UniqueViolation(s)
    /\ \A r \in Sessions : ~WaitsFor(s, r)
    /\ mine' = [mine EXCEPT ![s].txns = @ \cup {NewHeader(s)}]
    /\ pc' = [pc EXCEPT ![s] = "accounts"]
    /\ line' = [line EXCEPT ![s] = 1]
    /\ UNCHANGED <<txns, entries, accounts, call, seq, prev>>

(* IntegrityError, and the lookup by key finds the winner's row: the call  *)
(* is a replay (its amount is not compared this time).                     *)
InsertReplayed(s) ==
    /\ pc[s] = "insert"
    /\ UniqueViolation(s)
    /\ Existing(s, call[s].key) # {}
    /\ Return(s)
    /\ UNCHANGED <<tables, mine>>

(* Mutant: the sequence conflict is retried with the number read before.   *)
InsertRetriesSameSequence(s) ==
    /\ pc[s] = "insert"
    /\ UniqueViolation(s)
    /\ Existing(s, call[s].key) = {}
    /\ pc' = [pc EXCEPT ![s] = "hash"]
    /\ UNCHANGED <<tables, mine, locals>>

(* IntegrityError on the sequence number only: it is raised again.         *)
InsertRaises(s) ==
    /\ pc[s] = "insert"
    /\ UniqueViolation(s)
    /\ Existing(s, call[s].key) = {}
    /\ Abort(s)

(* PostgreSQL cancels one of the sessions that wait for each other.        *)
DeadlockAbort(s) ==
    /\ \E C \in SUBSET Sessions :
          s \in C /\ \A x \in C : \E y \in C : WaitsFor(x, y)
    /\ Abort(s)

-----------------------------------------------------------------------------
(* Accounts and entries.                                                   *)

Account(s, i) ==
    LET l == call[s].batch[i]
    IN  [tenant |-> call[s].tenant, type |-> l.type, client |-> l.client,
         currency |-> l.currency, by |-> call[s].key]

SameScope(a, b) ==
    /\ a.tenant = b.tenant /\ a.type = b.type
    /\ a.client = b.client /\ a.currency = b.currency

(* uq_internal_ledger_accounts_scope; NULL client ids never collide.       *)
AccountBlocked(s, a) ==
    /\ a.client # NoClient
    /\ \E r \in Sessions \ {s} : \E b \in mine[r].accounts : SameScope(a, b)

(* _ensure_account for the next line.  The id of a new row is modelled by  *)
(* the posting that created it (field by).                                 *)
EnsureAccount(s) ==
    /\ pc[s] = "accounts"
    /\ LET a == Account(s, line[s])
           found == {b \in VisibleAccounts(s) : SameScope(a, b)}
       IN  /\ found = {} => ~AccountBlocked(s, a)
           /\ mine' = IF found = {}
                      THEN [mine EXCEPT ![s].accounts = @ \cup {a}]
                      ELSE mine
    /\ line' = [line EXCEPT ![s] = @ + 1]
    /\ pc' = [pc EXCEPT ![s] = IF line[s] = Len(call[s].batch)
                               THEN "entries" ELSE "accounts"]
    /\ UNCHANGED <<txns, entries, accounts, call, seq, prev>>

(* Mutant: the last entry is not added to the session.                     *)
PostEntriesButLast(s) ==
    /\ pc[s] = "entries"
    /\ LET b == call[s].batch
       IN  mine' = [mine EXCEPT ![s].entries = @ \cup
              {[key |-> call[s].key, id |-> i, line |-> b[i]] :
                   i \in 1..(Len(b) - 1)}]
    /\ Return(s)
    /\ UNCHANGED tables

(* _post_entries.  Primary keys are random UUIDs: id is the rank of the    *)
(* entry when the batch is read ORDER BY id.                               *)
PostEntries(s) ==
    /\ pc[s] = "entries"
    /\ LET b == call[s].batch
       IN  \E rank \in [DOMAIN b -> DOMAIN b] :
             /\ \A i, j \in DOMAIN b : rank[i] = rank[j] => i = j
             /\ mine' = [mine EXCEPT ![s].entries = @ \cup
                   {[key |-> call[s].key, id |-> rank[i], line |-> b[i]] :
                        i \in DOMAIN b}]
    /\ Return(s)
    /\ UNCHANGED tables

-----------------------------------------------------------------------------
Commit(s) ==
    /\ pc[s] = "open"
    /\ txns' = txns \cup mine[s].txns
    /\ entries' = entries \cup mine[s].entries
    /\ accounts' = accounts \cup mine[s].accounts
    /\ mine' = [mine EXCEPT ![s] = NoRows]
    /\ pc' = [pc EXCEPT ![s] = "idle"]
    /\ UNCHANGED locals

(* The caller fails, its process crashes or the connection is lost.        *)
Rollback(s) ==
    /\ pc[s] # "idle"
    /\ Abort(s)

Posting(s) ==
    \/ NextBatchSequence(s) \/ LastBatchHash(s)
    \/ InsertTransaction(s) \/ InsertReplayed(s) \/ InsertRaises(s)
    \/ EnsureAccount(s) \/ PostEntries(s)

Next ==
    \E s \in Sessions :
        \/ \E t \in Tenants, k \in Keys, b \in Batches : PostTransaction(s, t, k, b)
        \/ \E k \in Keys, b \in Batches : PostReplayed(s, k, b) \/ PostRejected(s, k, b)
        \/ Posting(s)
        \/ Commit(s)
        \/ DeadlockAbort(s)
        \/ Rollback(s)

Spec == Init /\ [][Next]_vars

(* A handler that has started goes on; PostgreSQL wakes the waiter when    *)
(* the holder of the row ends, and it breaks deadlocks.                    *)
Fairness ==
    \A s \in Sessions :
        /\ WF_vars(Posting(s)) /\ WF_vars(Commit(s)) /\ WF_vars(DeadlockAbort(s))
        /\ SF_vars(InsertTransaction(s))

FairSpec == Spec /\ Fairness

-----------------------------------------------------------------------------
(* Properties.                                                             *)

Header ==
    [tenant : Tenants, key : Keys, seq : Nat \ {0}, prev : Hash, hash : Hash,
     total : {DebitSum(b) : b \in Batches},
     currency : {BatchCurrency(b) : b \in Batches}]

BatchLines == UNION {{b[i] : i \in DOMAIN b} : b \in Batches}

Entry == [key : Keys, id : Nat, line : BatchLines]

AccountRow ==
    {[tenant |-> t, type |-> l.type, client |-> l.client,
      currency |-> l.currency, by |-> k] :
         t \in Tenants, k \in Keys, l \in BatchLines}

Rows == [txns : SUBSET Header, entries : SUBSET Entry,
         accounts : SUBSET AccountRow]

(* Every table holds rows of its type and every session is at a statement  *)
(* of post_transaction.                                                    *)
TypeOK ==
    /\ txns \subseteq Header
    /\ entries \subseteq Entry
    /\ accounts \subseteq AccountRow
    /\ mine \in [Sessions -> Rows]
    /\ pc \in [Sessions -> States]
    /\ call \in [Sessions -> Call \cup {NoCall}]
    /\ seq \in [Sessions -> Nat]
    /\ prev \in [Sessions -> Hash]
    /\ line \in [Sessions -> Nat]

(* rows, restricted to one tenant, are a hash chain: numbered 1, 2, 3 ...  *)
(* without gap or repetition, each naming its predecessor's hash.          *)
IsChain(rows) ==
    /\ \A h \in rows : h.seq >= 1
    /\ \A h \in rows : \A n \in 1..(h.seq - 1) :
          \E g \in rows : g.tenant = h.tenant /\ g.seq = n
    /\ \A h, g \in rows : h.tenant = g.tenant /\ h.seq = g.seq => h = g
    /\ \A h \in rows : h.seq = 1 => h.prev = GENESIS_BATCH_HASH
    /\ \A h, g \in rows :
          h.tenant = g.tenant /\ h.seq = g.seq + 1 => h.prev = g.hash

(* Concurrent posters, whose reads of the sequence number and of the last  *)
(* hash are neither locked nor atomic, never fork, gap or mislink the      *)
(* committed chain of a tenant.                                            *)
ChainIntact == IsChain(txns)

(* The account lookup of _ensure_account never finds two rows for one      *)
(* scope, although the unique constraint does not cover NULL client ids.   *)
OneAccountPerScope ==
    \A a, b \in accounts : SameScope(a, b) => a = b

EntriesOf(h) == {e \in entries : e.key = h.key}

(* A committed header has its committed lines and no others: the batch     *)
(* that was hashed, in some order, with debits equal to credits.           *)
EntriesMatchHeader ==
    /\ \A e \in entries : \E h \in txns : h.key = e.key
    /\ \A h \in txns :
          LET b == h.hash[Len(h.hash)]
          IN  /\ Cardinality(EntriesOf(h)) = Len(b)
              /\ \A l \in {b[i] : i \in DOMAIN b} :
                    Cardinality({e \in EntriesOf(h) : e.line = l})
                      = Cardinality({i \in DOMAIN b : b[i] = l})

(* verify_ledger_chain(db, tenant_id=t): the lines of a batch are hashed   *)
(* again in the order of their ids.                                        *)
LinesById(h) ==
    [n \in 1..Cardinality(EntriesOf(h)) |->
        (CHOOSE e \in EntriesOf(h) : e.id = n).line]

VerifyLedgerChain(t) ==
    LET rows == {h \in txns : h.tenant = t}
    IN  /\ {h.seq : h \in rows} = 1..Cardinality(rows)
        /\ \A h \in rows :
              LET previous == IF h.seq = 1 THEN GENESIS_BATCH_HASH
                              ELSE (CHOOSE g \in rows : g.seq = h.seq - 1).hash
              IN  /\ h.prev = previous
                  /\ h.hash = BatchHash(previous, LinesById(h))

(* verify_ledger_chain rejects a ledger that only the service has written  *)
(* to for one reason only: the random ids of the entries of some batch are *)
(* not in the order in which its lines were posted and hashed.             *)
HonestLedgerVerifies ==
    \A t \in Tenants :
        (\A h \in txns : h.tenant = t => LinesById(h) = h.hash[Len(h.hash)])
           => VerifyLedgerChain(t)

(* The lines of every committed batch are complete and verify, but for the *)
(* order of their ids.                                                     *)
LinesVerify == EntriesMatchHeader /\ HonestLedgerVerifies

(* The promise to the users of the ledger.                                 *)
Log == [t \in Tenants |->
          LET rows == {h \in txns : h.tenant = t}
          IN  [n \in 1..Cardinality(rows) |->
                 LET h == CHOOSE g \in rows : g.seq = n
                 IN  [key |-> h.key, batch |-> h.hash[Len(h.hash)]]]]

Promise == INSTANCE ExactlyOnceLog WITH log <- Log

(* Every commit appends whole batches to the logs and every key is used    *)
(* once, whoever retries or races: the implementation of ExactlyOnceLog.   *)
ImplementsExactlyOnceLog == Promise!Spec

(* No poster waits for ever: a session that began a transaction ends it.   *)
PostingEnds == \A s \in Sessions : pc[s] # "idle" ~> pc[s] = "idle"
=============================================================================
