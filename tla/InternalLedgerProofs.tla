------------------------ MODULE InternalLedgerProofs ------------------------
(***************************************************************************)
(* The ledger chain for any number of sessions, tenants, keys and batches. *)
(*                                                                         *)
(* ChainIntact speaks of committed rows only and is not inductive: what a  *)
(* session has flushed, and what it read before inserting, must fit the    *)
(* committed chain too.  The strengthening rests on one observation: the   *)
(* two unique constraints let at most one session hold uncommitted headers *)
(* of a tenant (OneWriterPerTenant), because two such headers would need   *)
(* different numbers, and the smaller number is free for neither.          *)
(*                                                                         *)
(* The entries, and the exactly-once log that users are promised, need a   *)
(* second invariant over it (LinesInv): every header is followed by the    *)
(* entries of the batch it was hashed from, in the table and, but for the  *)
(* header of the call in progress, in every session; and no idempotency    *)
(* key is used twice, by whomever.                                         *)
(***************************************************************************)
EXTENDS InternalLedger, SequenceTheorems, FiniteSetTheorems, TLAPS

(* A session between two statements of post_transaction knows its call.    *)
LocalsOK ==
    \A s \in Sessions :
        /\ pc[s] \in {"seq", "hash", "insert", "accounts", "entries"} =>
              call[s] \in Call /\ call[s].batch # <<>>
        /\ pc[s] = "accounts" => line[s] \in DOMAIN call[s].batch

ViewsChained ==
    /\ IsChain(txns)
    /\ \A s \in Sessions : IsChain(VisibleTxns(s))

(* Two sessions never hold uncommitted headers of the same tenant.         *)
OneWriterPerTenant ==
    \A r, s \in Sessions : r # s =>
        \A h \in mine[r].txns, g \in mine[s].txns : h.tenant # g.tenant

(* Uncommitted headers come after the committed ones.                      *)
Fresh ==
    \A s \in Sessions : \A h \in mine[s].txns, g \in txns :
        h.tenant = g.tenant => g.seq < h.seq

HasRow(s, n) ==
    \E g \in VisibleTxns(s) : g.tenant = call[s].tenant /\ g.seq = n

(* The sequence number that was read leaves no gap.                        *)
SequenceReadBy(s) ==
    pc[s] \in {"hash", "insert"} =>
        /\ seq[s] >= 1
        /\ \A n \in 1..(seq[s] - 1) : HasRow(s, n)

SequenceRead == \A s \in Sessions : SequenceReadBy(s)

(* If the number is still free, the hash that was read is the hash of the  *)
(* predecessor: a hash of a later batch comes with a taken number.         *)
HashReadBy(s) ==
    pc[s] = "insert" /\ ~HasRow(s, seq[s]) =>
        /\ seq[s] = 1 => prev[s] = GENESIS_BATCH_HASH
        /\ \A g \in VisibleTxns(s) :
              g.tenant = call[s].tenant /\ seq[s] = g.seq + 1 => prev[s] = g.hash

HashRead == \A s \in Sessions : HashReadBy(s)

ChainInv ==
    /\ TypeOK
    /\ LocalsOK
    /\ ViewsChained
    /\ OneWriterPerTenant
    /\ Fresh
    /\ SequenceRead
    /\ HashRead

(* Uncommitted accounts belong to a tenant whose uncommitted header the    *)
(* session holds, and so does the call that looks accounts up.             *)
AccountsUnderHeader ==
    \A s \in Sessions :
        /\ \A a \in mine[s].accounts : \E h \in mine[s].txns : h.tenant = a.tenant
        /\ pc[s] \in {"accounts", "entries"} =>
              \E h \in mine[s].txns : h.tenant = call[s].tenant

OneAccountInView ==
    \A s \in Sessions : \A a, b \in VisibleAccounts(s) : SameScope(a, b) => a = b

AccountsInv == AccountsUnderHeader /\ OneAccountPerScope /\ OneAccountInView

-----------------------------------------------------------------------------
(* Type correctness.                                                       *)

(* The empty database has the right types.                                 *)
LEMMA TypeInit == Init => TypeOK /\ LocalsOK
  BY DEF Init, TypeOK, LocalsOK, NoRows, Rows, States, Hash, GENESIS_BATCH_HASH

(* An action that ends a call or a transaction keeps the types.            *)
LEMMA TypeAbort ==
    ASSUME TypeOK, LocalsOK, NEW s \in Sessions, Abort(s)
    PROVE  TypeOK' /\ LocalsOK'
  <1>1. TypeOK'
    BY DEF TypeOK, Abort, ForgetCall, tables, NoRows, Rows, States, Hash,
           GENESIS_BATCH_HASH
  <1>2. LocalsOK'
    BY DEF TypeOK, LocalsOK, Abort, ForgetCall, Call
  <1> QED BY <1>1, <1>2

(* A call that returns to its caller keeps the types.                      *)
LEMMA TypeReturn ==
    ASSUME TypeOK, LocalsOK, NEW s \in Sessions, Return(s), UNCHANGED tables,
           mine' \in [Sessions -> Rows]
    PROVE  TypeOK' /\ LocalsOK'
  <1>0. txns' = txns /\ entries' = entries /\ accounts' = accounts
    BY DEF tables
  <1>1. GENESIS_BATCH_HASH \in Hash
    BY DEF GENESIS_BATCH_HASH, Hash
  <1>2. /\ pc' \in [Sessions -> States]
        /\ call' \in [Sessions -> Call \cup {NoCall}]
        /\ seq' \in [Sessions -> Nat]
        /\ prev' \in [Sessions -> Hash]
        /\ line' \in [Sessions -> Nat]
    BY <1>1 DEF TypeOK, Return, ForgetCall, States
  <1>3. TypeOK'
    BY <1>0, <1>2 DEF TypeOK
  <1>4. LocalsOK'
    BY DEF TypeOK, LocalsOK, Return, ForgetCall, Call
  <1> QED BY <1>3, <1>4

(* The header _get_or_create_transaction builds is a header.               *)
LEMMA NewHeaderType ==
    ASSUME TypeOK, NEW s \in Sessions, call[s] \in Call, seq[s] >= 1
    PROVE  NewHeader(s) \in Header
  <1>1. /\ call[s].tenant \in Tenants /\ call[s].key \in Keys
        /\ call[s].batch \in Batches
    BY DEF Call
  <1>2. seq[s] \in Nat \ {0} /\ prev[s] \in Seq(Batches)
    BY DEF TypeOK, Hash
  <1>3. BatchHash(prev[s], call[s].batch) \in Hash
    BY <1>1, <1>2 DEF BatchHash, Hash
  <1> QED BY <1>1, <1>2, <1>3 DEF NewHeader, Header, Hash

(* The lines and account scopes of a call in progress are typed.           *)
LEMMA LineType ==
    ASSUME TypeOK, LocalsOK, NEW s \in Sessions, call[s] \in Call,
           NEW i \in DOMAIN call[s].batch
    PROVE  /\ call[s].batch[i] \in BatchLines
           /\ Account(s, i) \in AccountRow
  <1>1. call[s].batch \in Batches /\ call[s].tenant \in Tenants /\ call[s].key \in Keys
    BY DEF Call
  <1>2. call[s].batch[i] \in BatchLines
    BY <1>1 DEF BatchLines
  <1> QED BY <1>1, <1>2 DEF Account, AccountRow

(* Every step of every session keeps the types.                            *)
LEMMA TypeNext == TypeOK /\ LocalsOK /\ SequenceRead /\ [Next]_vars => TypeOK' /\ LocalsOK'
  <1> SUFFICES ASSUME TypeOK, LocalsOK, SequenceRead, [Next]_vars
               PROVE  TypeOK' /\ LocalsOK'
    OBVIOUS
  <1>1. CASE UNCHANGED vars
    BY <1>1 DEF vars, TypeOK, LocalsOK
  <1>2. ASSUME NEW s \in Sessions, NEW t \in Tenants, NEW k \in Keys,
               NEW b \in Batches, PostTransaction(s, t, k, b)
        PROVE  TypeOK' /\ LocalsOK'
    <2>1. TypeOK'
      BY <1>2 DEF PostTransaction, TypeOK, Call, States
    <2>2. b # <<>>
      BY <1>2 DEF PostTransaction, ValidBatch
    <2>3. LocalsOK'
      BY <1>2, <2>2 DEF PostTransaction, TypeOK, LocalsOK, Call
    <2> QED BY <2>1, <2>3
  <1>3. ASSUME NEW s \in Sessions, NEW k \in Keys, NEW b \in Batches,
               PostReplayed(s, k, b)
        PROVE  TypeOK' /\ LocalsOK'
    BY <1>3, TypeReturn DEF PostReplayed, TypeOK
  <1>4. ASSUME NEW s \in Sessions, NEW k \in Keys, NEW b \in Batches,
               PostRejected(s, k, b)
        PROVE  TypeOK' /\ LocalsOK'
    BY <1>4, TypeAbort DEF PostRejected
  <1>5. ASSUME NEW s \in Sessions, NextBatchSequence(s)
        PROVE  TypeOK' /\ LocalsOK'
    <2>1. \A h \in TenantTxns(s) : h.seq + 1 \in Nat
      BY DEF TypeOK, TenantTxns, VisibleTxns, Rows, Header
    <2>2. TypeOK'
      BY <1>5, <2>1 DEF NextBatchSequence, TypeOK, States
    <2>3. LocalsOK'
      BY <1>5 DEF NextBatchSequence, TypeOK, LocalsOK
    <2> QED BY <2>2, <2>3
  <1>6. ASSUME NEW s \in Sessions, LastBatchHash(s)
        PROVE  TypeOK' /\ LocalsOK'
    <2>1. /\ \A h \in TenantTxns(s) : h.hash \in Hash
          /\ GENESIS_BATCH_HASH \in Hash
      BY DEF TypeOK, TenantTxns, VisibleTxns, Rows, Header, Hash, GENESIS_BATCH_HASH
    <2>2. TypeOK'
      BY <1>6, <2>1 DEF LastBatchHash, TypeOK, States
    <2>3. LocalsOK'
      BY <1>6 DEF LastBatchHash, TypeOK, LocalsOK
    <2> QED BY <2>2, <2>3
  <1>7. ASSUME NEW s \in Sessions, InsertTransaction(s)
        PROVE  TypeOK' /\ LocalsOK'
    <2>1. /\ call[s] \in Call /\ call[s].batch # <<>> /\ seq[s] >= 1
      BY <1>7 DEF InsertTransaction, LocalsOK, SequenceRead, SequenceReadBy
    <2>2. NewHeader(s) \in Header
      BY <2>1, NewHeaderType
    <2>3. TypeOK'
      BY <1>7, <2>2 DEF InsertTransaction, TypeOK, States, Rows
    <2>4. 1 \in DOMAIN call[s].batch
      <3>1. call[s].batch \in Batches
        BY <2>1 DEF Call
      <3>2. call[s].batch \in Seq({call[s].batch[i] : i \in DOMAIN call[s].batch})
        BY <3>1, BatchesAreSequences
      <3>3. Len(call[s].batch) \in Nat \ {0}
        BY <2>1, <3>2, EmptySeq
      <3> QED BY <3>2, <3>3
    <2>5. LocalsOK'
      BY <1>7, <2>4 DEF InsertTransaction, TypeOK, LocalsOK
    <2> QED BY <2>3, <2>5
  <1>8. ASSUME NEW s \in Sessions, InsertReplayed(s)
        PROVE  TypeOK' /\ LocalsOK'
    BY <1>8, TypeReturn DEF InsertReplayed, TypeOK
  <1>9. ASSUME NEW s \in Sessions, InsertRaises(s)
        PROVE  TypeOK' /\ LocalsOK'
    BY <1>9, TypeAbort DEF InsertRaises
  <1>10. ASSUME NEW s \in Sessions, EnsureAccount(s)
         PROVE  TypeOK' /\ LocalsOK'
    <2>1. call[s] \in Call /\ line[s] \in DOMAIN call[s].batch
      BY <1>10 DEF EnsureAccount, LocalsOK
    <2>2. Account(s, line[s]) \in AccountRow
      BY <2>1, LineType
    <2>3. mine' \in [Sessions -> Rows]
      BY <1>10, <2>2 DEF EnsureAccount, TypeOK, Rows
    <2>4. TypeOK'
      BY <1>10, <2>3 DEF EnsureAccount, TypeOK, States
    <2>5. /\ Len(call[s].batch) \in Nat
          /\ DOMAIN call[s].batch = 1..Len(call[s].batch)
      <3>1. call[s].batch \in Batches
        BY <2>1 DEF Call
      <3>2. call[s].batch \in Seq({call[s].batch[i] : i \in DOMAIN call[s].batch})
        BY <3>1, BatchesAreSequences
      <3> QED BY <3>2
    <2>6. line[s] # Len(call[s].batch) => line[s] + 1 \in DOMAIN call[s].batch
      BY <2>1, <2>5
    <2>7. LocalsOK'
      BY <1>10, <2>6 DEF EnsureAccount, TypeOK, LocalsOK
    <2> QED BY <2>4, <2>7
  <1>11. ASSUME NEW s \in Sessions, PostEntries(s)
         PROVE  TypeOK' /\ LocalsOK'
    <2> DEFINE b == call[s].batch
    <2>1. call[s] \in Call /\ b \in Batches /\ call[s].key \in Keys
      BY <1>11 DEF PostEntries, LocalsOK, Call
    <2>2. b \in Seq({b[i] : i \in DOMAIN b})
      BY <2>1, BatchesAreSequences
    <2>3. DOMAIN b \subseteq Nat
      BY <2>2
    <2>4. \A i \in DOMAIN b : b[i] \in BatchLines
      BY <2>1 DEF BatchLines
    <2>5. PICK rank \in [DOMAIN b -> DOMAIN b] :
             mine' = [mine EXCEPT ![s].entries = @ \cup
                 {[key |-> call[s].key, id |-> rank[i], line |-> b[i]] :
                     i \in DOMAIN b}]
      BY <1>11 DEF PostEntries
    <2>6. {[key |-> call[s].key, id |-> rank[i], line |-> b[i]] : i \in DOMAIN b}
             \subseteq Entry
      BY <2>1, <2>3, <2>4 DEF Entry
    <2>7. mine' \in [Sessions -> Rows]
      BY <2>5, <2>6 DEF TypeOK, Rows
    <2> QED BY <1>11, <2>7, TypeReturn DEF PostEntries
  <1>12. ASSUME NEW s \in Sessions, Commit(s)
         PROVE  TypeOK' /\ LocalsOK'
    <2>1. TypeOK'
      BY <1>12 DEF Commit, TypeOK, locals, Rows, NoRows, States
    <2>2. LocalsOK'
      BY <1>12 DEF Commit, TypeOK, LocalsOK, locals
    <2> QED BY <2>1, <2>2
  <1>13. ASSUME NEW s \in Sessions, DeadlockAbort(s) \/ Rollback(s)
         PROVE  TypeOK' /\ LocalsOK'
    BY <1>13, TypeAbort DEF DeadlockAbort, Rollback
  <1> QED
    BY <1>1, <1>2, <1>3, <1>4, <1>5, <1>6, <1>7, <1>8, <1>9, <1>10, <1>11,
       <1>12, <1>13 DEF Next, Posting

-----------------------------------------------------------------------------
(* The chain.                                                              *)

(* What a SELECT returns is a numbered header.                             *)
LEMMA VisibleTypes ==
    ASSUME TypeOK, NEW s \in Sessions, NEW h \in VisibleTxns(s)
    PROVE  h \in Header /\ h.seq \in Nat /\ h.seq >= 1
  BY DEF TypeOK, VisibleTxns, Rows, Header

(* No session flushes or commits a header: the chain part is kept, also    *)
(* when a session's rows are rolled back.                                  *)
LEMMA ChainKept ==
    ASSUME ChainInv, txns' = txns,
           \A r \in Sessions : mine'[r].txns = mine[r].txns \/ mine'[r].txns = {}
    PROVE  ViewsChained' /\ OneWriterPerTenant' /\ Fresh'
  <1>1. \A r \in Sessions : VisibleTxns(r)' = VisibleTxns(r) \/ VisibleTxns(r)' = txns
    BY DEF VisibleTxns
  <1>2. IsChain(txns) /\ \A r \in Sessions : IsChain(VisibleTxns(r))
    BY DEF ChainInv, ViewsChained
  <1>3. ViewsChained'
    <2>1. IsChain(txns)'
      BY <1>2 DEF IsChain, GENESIS_BATCH_HASH
    <2>2. ASSUME NEW r \in Sessions PROVE IsChain(VisibleTxns(r))'
      <3>1. CASE VisibleTxns(r)' = VisibleTxns(r)
        BY <1>2, <3>1 DEF IsChain, GENESIS_BATCH_HASH
      <3>2. CASE VisibleTxns(r)' = txns
        BY <1>2, <3>2 DEF IsChain, GENESIS_BATCH_HASH
      <3> QED BY <1>1, <3>1, <3>2
    <2> QED BY <2>1, <2>2 DEF ViewsChained
  <1>4. OneWriterPerTenant'
    BY DEF ChainInv, OneWriterPerTenant
  <1>5. Fresh'
    BY DEF ChainInv, Fresh
  <1> QED BY <1>3, <1>4, <1>5

(* What r read stays right while other sessions extend the chain.          *)
LEMMA ReadsKept ==
    ASSUME ChainInv, TypeOK', ViewsChained', NEW r \in Sessions,
           pc'[r] = pc[r], call'[r] = call[r], seq'[r] = seq[r], prev'[r] = prev[r],
           VisibleTxns(r) \subseteq VisibleTxns(r)'
    PROVE  SequenceReadBy(r)' /\ HashReadBy(r)'
  <1>0. SequenceReadBy(r) /\ HashReadBy(r)
    BY DEF ChainInv, SequenceRead, HashRead
  <1>1. \A n : HasRow(r, n) => HasRow(r, n)'
    BY DEF HasRow
  <1>2. SequenceReadBy(r)'
    BY <1>0, <1>1 DEF SequenceReadBy
  <1>3. HashReadBy(r)'
    <2> SUFFICES ASSUME pc[r] = "insert", ~HasRow(r, seq[r])'
                 PROVE  /\ seq[r] = 1 => prev[r] = GENESIS_BATCH_HASH
                        /\ \A g \in VisibleTxns(r)' :
                              g.tenant = call[r].tenant /\ seq[r] = g.seq + 1
                                => prev[r] = g.hash
      BY DEF HashReadBy, GENESIS_BATCH_HASH
    <2>1. ~HasRow(r, seq[r])
      <3>1. HasRow(r, seq[r]) => HasRow(r, seq[r])'
        BY DEF HasRow
      <3> QED BY <3>1
    <2>2. ASSUME NEW g \in VisibleTxns(r)', g.tenant = call[r].tenant,
                 seq[r] = g.seq + 1
          PROVE  prev[r] = g.hash
      <3>1. g.seq \in Nat /\ g.seq >= 1 /\ seq[r] \in Nat
        BY DEF ChainInv, TypeOK, VisibleTxns, Rows, Header
      <3>2. g.seq \in 1..(seq[r] - 1)
        BY <2>2, <3>1
      <3>3. PICK f \in VisibleTxns(r) : f.tenant = call[r].tenant /\ f.seq = g.seq
        BY <1>0, <3>2 DEF SequenceReadBy, HasRow
      <3>4. f = g
        BY <2>2, <3>3 DEF ViewsChained, IsChain
      <3> QED BY <1>0, <2>1, <2>2, <3>3, <3>4 DEF HashReadBy
    <2> QED BY <1>0, <2>1, <2>2 DEF HashReadBy
  <1> QED BY <1>2, <1>3

ChainPart ==
    ViewsChained /\ OneWriterPerTenant /\ Fresh /\ SequenceRead /\ HashRead

(* Nothing of session r changes.                                           *)
Untouched(r) ==
    /\ mine'[r] = mine[r] /\ pc'[r] = pc[r] /\ call'[r] = call[r]
    /\ seq'[r] = seq[r] /\ prev'[r] = prev[r]

(* A step of s that reads nothing for a header and flushes none.           *)
LEMMA ChainQuiet ==
    ASSUME ChainInv, TypeOK', NEW s \in Sessions, txns' = txns,
           \A r \in Sessions \ {s} : Untouched(r),
           mine'[s].txns = mine[s].txns \/ mine'[s].txns = {},
           pc'[s] \notin {"hash", "insert"}
    PROVE  ChainPart'
  <1>1. ViewsChained' /\ OneWriterPerTenant' /\ Fresh'
    BY ChainKept DEF Untouched
  <1>2. ASSUME NEW r \in Sessions PROVE SequenceReadBy(r)' /\ HashReadBy(r)'
    <2>1. CASE r = s
      BY <2>1 DEF SequenceReadBy, HashReadBy
    <2>2. CASE r # s
      <3>1. Untouched(r)
        BY <2>2
      <3>2. VisibleTxns(r) \subseteq VisibleTxns(r)'
        BY <3>1 DEF Untouched, VisibleTxns
      <3> QED BY <1>1, <3>1, <3>2, ReadsKept DEF Untouched
    <2> QED BY <2>1, <2>2
  <1> QED BY <1>1, <1>2 DEF ChainPart, SequenceRead, HashRead

(* A step of s that only reads: s needs an argument of its own.            *)
LEMMA ChainReading ==
    ASSUME ChainInv, TypeOK', NEW s \in Sessions, txns' = txns, mine' = mine,
           \A r \in Sessions \ {s} : Untouched(r),
           SequenceReadBy(s)', HashReadBy(s)'
    PROVE  ChainPart'
  <1>1. ViewsChained' /\ OneWriterPerTenant' /\ Fresh'
    BY ChainKept
  <1>2. ASSUME NEW r \in Sessions PROVE SequenceReadBy(r)' /\ HashReadBy(r)'
    <2>1. CASE r = s
      BY <2>1
    <2>2. CASE r # s
      <3>1. Untouched(r)
        BY <2>2
      <3>2. VisibleTxns(r) \subseteq VisibleTxns(r)'
        BY <3>1 DEF Untouched, VisibleTxns
      <3> QED BY <1>1, <3>1, <3>2, ReadsKept DEF Untouched
    <2> QED BY <2>1, <2>2
  <1> QED BY <1>1, <1>2 DEF ChainPart, SequenceRead, HashRead

(* A rollback of any kind keeps the chain.                                 *)
LEMMA ChainAbort ==
    ASSUME ChainInv, TypeOK', NEW s \in Sessions, Abort(s)
    PROVE  ChainPart'
  <1>1. txns' = txns /\ mine'[s].txns = {} /\ pc'[s] = "idle"
    BY DEF Abort, tables, ChainInv, TypeOK, NoRows
  <1>2. \A r \in Sessions \ {s} : Untouched(r)
    BY DEF Untouched, Abort, ForgetCall, ChainInv, TypeOK
  <1> QED BY <1>1, <1>2, ChainQuiet

(* Returning to the caller keeps the chain.                                *)
LEMMA ChainReturn ==
    ASSUME ChainInv, TypeOK', NEW s \in Sessions, Return(s), txns' = txns,
           mine'[s].txns = mine[s].txns,
           \A r \in Sessions \ {s} : mine'[r] = mine[r]
    PROVE  ChainPart'
  <1>1. pc'[s] = "open"
    BY DEF Return, ChainInv, TypeOK
  <1>2. \A r \in Sessions \ {s} : Untouched(r)
    BY DEF Untouched, Return, ForgetCall, ChainInv, TypeOK
  <1> QED BY <1>1, <1>2, ChainQuiet

(* The number read by _next_batch_sequence leaves no gap.                  *)
LEMMA ChainNextBatchSequence ==
    ASSUME ChainInv, TypeOK', NEW s \in Sessions, NextBatchSequence(s)
    PROVE  ChainPart'
  <1>1. \A r \in Sessions \ {s} : Untouched(r)
    BY DEF Untouched, NextBatchSequence, ChainInv, TypeOK
  <1>2. /\ pc'[s] = "hash" /\ call'[s] = call[s] /\ mine' = mine /\ txns' = txns
        /\ VisibleTxns(s)' = VisibleTxns(s)
    BY DEF NextBatchSequence, ChainInv, TypeOK, VisibleTxns
  <1>3. HashReadBy(s)'
    BY <1>2 DEF HashReadBy
  <1>4. SequenceReadBy(s)'
    <2>1. CASE TenantTxns(s) = {} /\ seq' = [seq EXCEPT ![s] = 1]
      <3>1. seq'[s] = 1
        BY <2>1 DEF ChainInv, TypeOK
      <3> QED BY <3>1 DEF SequenceReadBy
    <2>2. CASE \E h \in TenantTxns(s) :
                  IsLatest(h, TenantTxns(s)) /\ seq' = [seq EXCEPT ![s] = h.seq + 1]
      <3>1. PICK h \in TenantTxns(s) : seq' = [seq EXCEPT ![s] = h.seq + 1]
        BY <2>2
      <3>2. h \in VisibleTxns(s) /\ h.tenant = call[s].tenant
        BY DEF TenantTxns
      <3>3. h.seq \in Nat /\ h.seq >= 1 /\ seq'[s] = h.seq + 1
        BY <3>1, <3>2, VisibleTypes DEF ChainInv, TypeOK
      <3>4. ASSUME NEW n \in 1..(seq'[s] - 1) PROVE HasRow(s, n)'
        <4>1. \E g \in VisibleTxns(s) : g.tenant = h.tenant /\ g.seq = n
          <5>1. CASE n = h.seq
            BY <5>1, <3>2
          <5>2. CASE n # h.seq
            <6>1. n \in 1..(h.seq - 1)
              BY <5>2, <3>3
            <6> QED BY <6>1, <3>2 DEF ChainInv, ViewsChained, IsChain
          <5> QED BY <5>1, <5>2
        <4> QED BY <4>1, <3>2, <1>2 DEF HasRow
      <3> QED BY <3>3, <3>4 DEF SequenceReadBy
    <2> QED BY <2>1, <2>2 DEF NextBatchSequence
  <1> QED BY <1>1, <1>2, <1>3, <1>4, ChainReading

(* The hash read by _last_batch_hash fits the number, if that is free.     *)
LEMMA ChainLastBatchHash ==
    ASSUME ChainInv, TypeOK', NEW s \in Sessions, LastBatchHash(s)
    PROVE  ChainPart'
  <1>1. \A r \in Sessions \ {s} : Untouched(r)
    BY DEF Untouched, LastBatchHash, ChainInv, TypeOK
  <1>2. /\ pc'[s] = "insert" /\ call'[s] = call[s] /\ mine' = mine /\ txns' = txns
        /\ VisibleTxns(s)' = VisibleTxns(s) /\ seq'[s] = seq[s]
    BY DEF LastBatchHash, ChainInv, TypeOK, VisibleTxns
  <1>3. seq[s] \in Nat /\ seq[s] >= 1 /\ \A n \in 1..(seq[s] - 1) : HasRow(s, n)
    BY DEF LastBatchHash, ChainInv, TypeOK, SequenceRead, SequenceReadBy
  <1>4. SequenceReadBy(s)'
    BY <1>2, <1>3 DEF SequenceReadBy, HasRow
  <1>5. HashReadBy(s)'
    <2> SUFFICES ASSUME ~HasRow(s, seq[s])
                 PROVE  /\ seq[s] = 1 => prev'[s] = GENESIS_BATCH_HASH
                        /\ \A g \in VisibleTxns(s) :
                              g.tenant = call[s].tenant /\ seq[s] = g.seq + 1
                                => prev'[s] = g.hash
      BY <1>2 DEF HashReadBy, HasRow, GENESIS_BATCH_HASH
    <2>1. CASE TenantTxns(s) = {} /\ prev' = [prev EXCEPT ![s] = GENESIS_BATCH_HASH]
      BY <2>1 DEF ChainInv, TypeOK, TenantTxns
    <2>2. CASE \E h \in TenantTxns(s) :
                  IsLatest(h, TenantTxns(s)) /\ prev' = [prev EXCEPT ![s] = h.hash]
      <3>1. PICK h \in TenantTxns(s) :
                IsLatest(h, TenantTxns(s)) /\ prev' = [prev EXCEPT ![s] = h.hash]
        BY <2>2
      <3>2. h \in VisibleTxns(s) /\ h.tenant = call[s].tenant /\ prev'[s] = h.hash
        BY <3>1 DEF TenantTxns, ChainInv, TypeOK
      <3>3. h.seq \in Nat /\ h.seq >= 1
        BY <3>2, VisibleTypes DEF ChainInv
      <3>4. h.seq < seq[s]
        <4>1. h.seq # seq[s]
          BY <3>2 DEF HasRow
        <4>2. ASSUME h.seq > seq[s] PROVE FALSE
          <5>1. seq[s] \in 1..(h.seq - 1)
            BY <4>2, <3>3, <1>3
          <5>2. \E g \in VisibleTxns(s) : g.tenant = h.tenant /\ g.seq = seq[s]
            BY <5>1, <3>2 DEF ChainInv, ViewsChained, IsChain
          <5> QED BY <5>2, <3>2 DEF HasRow
        <4> QED BY <4>1, <4>2, <3>3, <1>3
      <3>5. ASSUME NEW g \in VisibleTxns(s), g.tenant = call[s].tenant,
                   seq[s] = g.seq + 1
            PROVE  prev'[s] = g.hash
        <4>1. g.seq \in Nat
          BY VisibleTypes DEF ChainInv
        <4>2. g.seq <= h.seq
          BY <3>1, <3>5 DEF IsLatest, TenantTxns
        <4>3. g.seq = h.seq
          BY <4>1, <4>2, <3>3, <3>4, <3>5
        <4>4. g = h
          BY <4>3, <3>2, <3>5 DEF ChainInv, ViewsChained, IsChain
        <4> QED BY <4>4, <3>2
      <3> QED BY <3>3, <3>4, <3>5, <1>3
    <2> QED BY <2>1, <2>2 DEF LastBatchHash
  <1> QED BY <1>1, <1>2, <1>4, <1>5, ChainReading

(* The new header continues the chain its session sees, and no other       *)
(* session holds an uncommitted header of its tenant.                      *)
LEMMA ChainInsertTransaction ==
    ASSUME ChainInv, TypeOK', NEW s \in Sessions, InsertTransaction(s)
    PROVE  ChainPart'
  <1> DEFINE new == NewHeader(s)
  <1>1. /\ pc[s] = "insert" /\ ~UniqueViolation(s)
        /\ \A r \in Sessions : ~WaitsFor(s, r)
    BY DEF InsertTransaction
  <1>2. /\ mine'[s].txns = mine[s].txns \cup {new} /\ txns' = txns
        /\ pc'[s] = "accounts"
        /\ VisibleTxns(s)' = VisibleTxns(s) \cup {new}
    BY DEF InsertTransaction, ChainInv, TypeOK, VisibleTxns, Rows
  <1>3. \A r \in Sessions \ {s} : Untouched(r)
    BY DEF Untouched, InsertTransaction, ChainInv, TypeOK
  <1>4. /\ new.tenant = call[s].tenant /\ new.seq = seq[s] /\ new.prev = prev[s]
        /\ new.key = call[s].key
    BY DEF NewHeader
  <1>5. seq[s] \in Nat /\ seq[s] >= 1 /\ \A n \in 1..(seq[s] - 1) : HasRow(s, n)
    BY <1>1 DEF ChainInv, TypeOK, SequenceRead, SequenceReadBy
  <1>6. \A h \in VisibleTxns(s) : h.tenant = new.tenant => h.seq # new.seq
    BY <1>1 DEF UniqueViolation, Clashes
  <1>7. /\ seq[s] = 1 => new.prev = GENESIS_BATCH_HASH
        /\ \A g \in VisibleTxns(s) :
              g.tenant = new.tenant /\ new.seq = g.seq + 1 => new.prev = g.hash
    BY <1>1, <1>4, <1>6 DEF ChainInv, HashRead, HashReadBy, HasRow
  <1>8. \A r \in Sessions \ {s} : \A h \in mine[r].txns :
           h.tenant = new.tenant => h.seq # new.seq
    BY <1>1 DEF WaitsFor, Clashes
  <1>9. IsChain(VisibleTxns(s)) /\ \A h \in VisibleTxns(s) : h.seq \in Nat /\ h.seq >= 1
    BY VisibleTypes DEF ChainInv, ViewsChained
  <1>10. \A h \in VisibleTxns(s) : h.tenant = new.tenant => h.seq < new.seq
    <2> SUFFICES ASSUME NEW h \in VisibleTxns(s), h.tenant = new.tenant,
                        ~(h.seq < new.seq)
                 PROVE  FALSE
      OBVIOUS
    <2>1. new.seq \in 1..(h.seq - 1)
      BY <1>4, <1>5, <1>6, <1>9
    <2>2. \E g \in VisibleTxns(s) : g.tenant = h.tenant /\ g.seq = new.seq
      BY <2>1, <1>9 DEF IsChain
    <2> QED BY <2>2, <1>6
  <1>11. IsChain(VisibleTxns(s))'
    <2> DEFINE V == VisibleTxns(s)
               W == V \cup {new}
    <2>1. \A h \in W : h.seq >= 1
      BY <1>4, <1>5, <1>9
    <2>2. \A h \in W : \A n \in 1..(h.seq - 1) :
             \E g \in W : g.tenant = h.tenant /\ g.seq = n
      BY <1>4, <1>5, <1>9 DEF IsChain, HasRow
    <2>3. \A h, g \in W : h.tenant = g.tenant /\ h.seq = g.seq => h = g
      BY <1>6, <1>9 DEF IsChain
    <2>4. \A h \in W : h.seq = 1 => h.prev = GENESIS_BATCH_HASH
      BY <1>4, <1>7, <1>9 DEF IsChain
    <2>5. \A h, g \in W :
             h.tenant = g.tenant /\ h.seq = g.seq + 1 => h.prev = g.hash
      <3>1. ASSUME NEW h \in W, NEW g \in W, h.tenant = g.tenant, h.seq = g.seq + 1
            PROVE  h.prev = g.hash
        <4>1. CASE h \in V /\ g \in V
          BY <4>1, <3>1, <1>9 DEF IsChain
        <4>2. CASE h = new /\ g \in V
          BY <4>2, <3>1, <1>7
        <4>3. CASE g = new
          <5>1. h.seq \in Nat /\ new.seq \in Nat
            BY <1>4, <1>5, <1>9
          <5>2. h = new \/ h.seq < new.seq
            BY <3>1, <4>3, <1>10
          <5> QED BY <5>1, <5>2, <4>3, <3>1
        <4> QED BY <4>1, <4>2, <4>3
      <3> QED BY <3>1
    <2>6. VisibleTxns(s)' = W
      BY <1>2
    <2> HIDE DEF W
    <2> QED BY <2>1, <2>2, <2>3, <2>4, <2>5, <2>6 DEF IsChain, GENESIS_BATCH_HASH
  <1>12. ASSUME NEW r \in Sessions \ {s}, NEW h \in mine[r].txns
         PROVE  h.tenant # new.tenant
    <2> SUFFICES ASSUME h.tenant = new.tenant PROVE FALSE
      OBVIOUS
    <2>0. h \in VisibleTxns(r) /\ h.seq \in Nat /\ h.seq >= 1
      BY VisibleTypes DEF VisibleTxns, ChainInv
    <2>1. CASE h.seq < new.seq
      <3>1. h.seq \in 1..(seq[s] - 1)
        BY <2>0, <2>1, <1>4, <1>5
      <3>2. PICK g \in VisibleTxns(s) : g.tenant = call[s].tenant /\ g.seq = h.seq
        BY <3>1, <1>5 DEF HasRow
      <3>3. CASE g \in txns
        BY <3>2, <3>3, <1>4, <2>0 DEF ChainInv, Fresh
      <3>4. CASE g \in mine[s].txns
        BY <3>2, <3>4, <1>4 DEF ChainInv, OneWriterPerTenant
      <3> QED BY <3>3, <3>4 DEF VisibleTxns
    <2>2. CASE h.seq = new.seq
      BY <2>2, <1>8
    <2>3. CASE h.seq > new.seq
      <3>1. new.seq \in 1..(h.seq - 1)
        BY <2>0, <2>3, <1>4, <1>5
      <3>2. PICK g \in VisibleTxns(r) : g.tenant = h.tenant /\ g.seq = new.seq
        BY <2>0, <3>1 DEF ChainInv, ViewsChained, IsChain
      <3>3. CASE g \in txns
        BY <3>2, <3>3, <1>6 DEF VisibleTxns
      <3>4. CASE g \in mine[r].txns
        BY <3>2, <3>4, <1>8
      <3> QED BY <3>3, <3>4 DEF VisibleTxns
    <2> QED BY <2>0, <2>1, <2>2, <2>3, <1>4, <1>5
  <1>13. OneWriterPerTenant'
    <2> SUFFICES ASSUME NEW r \in Sessions, NEW q \in Sessions, r # q,
                        NEW h \in mine'[r].txns, NEW g \in mine'[q].txns
                 PROVE  h.tenant # g.tenant
      BY DEF OneWriterPerTenant
    <2>1. CASE r # s /\ q # s
      BY <2>1, <1>3 DEF Untouched, ChainInv, OneWriterPerTenant
    <2>2. CASE r = s /\ q # s
      BY <2>2, <1>2, <1>3, <1>12 DEF Untouched, ChainInv, OneWriterPerTenant
    <2>3. CASE r # s /\ q = s
      BY <2>3, <1>2, <1>3, <1>12 DEF Untouched, ChainInv, OneWriterPerTenant
    <2> QED BY <2>1, <2>2, <2>3
  <1>14. Fresh'
    <2> SUFFICES ASSUME NEW r \in Sessions, NEW h \in mine'[r].txns, NEW g \in txns,
                        h.tenant = g.tenant
                 PROVE  g.seq < h.seq
      BY <1>2 DEF Fresh
    <2>1. CASE h \in mine[r].txns
      BY <2>1 DEF ChainInv, Fresh
    <2>2. CASE r = s /\ h = new
      BY <2>2, <1>10 DEF VisibleTxns
    <2> QED BY <2>1, <2>2, <1>2, <1>3 DEF Untouched
  <1>15. ViewsChained'
    <2>1. IsChain(txns)'
      BY <1>2 DEF ChainInv, ViewsChained, IsChain, GENESIS_BATCH_HASH
    <2>2. ASSUME NEW r \in Sessions \ {s} PROVE IsChain(VisibleTxns(r))'
      <3>1. VisibleTxns(r)' = VisibleTxns(r)
        BY <1>2, <1>3 DEF Untouched, VisibleTxns
      <3> QED BY <3>1 DEF ChainInv, ViewsChained, IsChain, GENESIS_BATCH_HASH
    <2> QED BY <2>1, <2>2, <1>11 DEF ViewsChained
  <1>16. ASSUME NEW r \in Sessions PROVE SequenceReadBy(r)' /\ HashReadBy(r)'
    <2>1. CASE r = s
      BY <2>1, <1>2 DEF SequenceReadBy, HashReadBy
    <2>2. CASE r # s
      <3>1. Untouched(r)
        BY <2>2, <1>3
      <3>2. VisibleTxns(r) \subseteq VisibleTxns(r)'
        BY <3>1, <1>2 DEF Untouched, VisibleTxns
      <3> QED BY <1>15, <3>1, <3>2, ReadsKept DEF Untouched
    <2> QED BY <2>1, <2>2
  <1> QED BY <1>13, <1>14, <1>15, <1>16 DEF ChainPart, SequenceRead, HashRead

(* Committing the rows of s adds to the view of every other session rows   *)
(* of tenants that session holds no uncommitted header of.                 *)
LEMMA ChainCommit ==
    ASSUME ChainInv, TypeOK', NEW s \in Sessions, Commit(s)
    PROVE  ChainPart'
  <1>1. /\ txns' = VisibleTxns(s) /\ mine'[s].txns = {} /\ pc'[s] = "idle"
    BY DEF Commit, ChainInv, TypeOK, VisibleTxns, NoRows
  <1>2. \A r \in Sessions \ {s} : Untouched(r)
    BY DEF Untouched, Commit, locals, ChainInv, TypeOK
  <1>3. OneWriterPerTenant'
    BY <1>1, <1>2 DEF Untouched, ChainInv, OneWriterPerTenant
  <1>4. Fresh'
    BY <1>1, <1>2 DEF Untouched, ChainInv, Fresh, OneWriterPerTenant, VisibleTxns
  <1>5. IsChain(txns)'
    BY <1>1 DEF ChainInv, ViewsChained, IsChain, GENESIS_BATCH_HASH
  <1>6. ASSUME NEW r \in Sessions \ {s}
        PROVE  IsChain(VisibleTxns(r))'
    <2> DEFINE V == VisibleTxns(s)
               U == VisibleTxns(r)
               W == U \cup V
    <2>1. VisibleTxns(r)' = W
      BY <1>1, <1>2 DEF Untouched, VisibleTxns
    <2>2. IsChain(U) /\ IsChain(V)
      BY DEF ChainInv, ViewsChained
    <2>3. \A h \in W : h.seq \in Nat
      BY VisibleTypes DEF ChainInv
    <2>4. ASSUME NEW h \in W, NEW g \in W, h.tenant = g.tenant
          PROVE  (h \in U /\ g \in U) \/ (h \in V /\ g \in V)
      BY <2>4 DEF VisibleTxns, ChainInv, OneWriterPerTenant
    <2>5. /\ \A h \in W : h.seq >= 1
          /\ \A h \in W : h.seq = 1 => h.prev = GENESIS_BATCH_HASH
      BY <2>2 DEF IsChain
    <2>6. \A h \in W : \A n \in 1..(h.seq - 1) :
             \E g \in W : g.tenant = h.tenant /\ g.seq = n
      BY <2>2 DEF IsChain
    <2>7. \A h, g \in W : h.tenant = g.tenant /\ h.seq = g.seq => h = g
      BY <2>2, <2>4 DEF IsChain
    <2>8. \A h, g \in W :
             h.tenant = g.tenant /\ h.seq = g.seq + 1 => h.prev = g.hash
      BY <2>2, <2>4 DEF IsChain
    <2> HIDE DEF W
    <2> QED BY <2>1, <2>5, <2>6, <2>7, <2>8 DEF IsChain, GENESIS_BATCH_HASH
  <1>7. IsChain(VisibleTxns(s))'
    <2>1. VisibleTxns(s)' = VisibleTxns(s)
      BY <1>1 DEF VisibleTxns
    <2> QED BY <2>1 DEF ChainInv, ViewsChained, IsChain, GENESIS_BATCH_HASH
  <1>8. ViewsChained'
    BY <1>5, <1>6, <1>7 DEF ViewsChained
  <1>9. ASSUME NEW r \in Sessions PROVE SequenceReadBy(r)' /\ HashReadBy(r)'
    <2>1. CASE r = s
      BY <2>1, <1>1 DEF SequenceReadBy, HashReadBy
    <2>2. CASE r # s
      <3>1. Untouched(r)
        BY <2>2, <1>2
      <3>2. VisibleTxns(r) \subseteq VisibleTxns(r)'
        BY <3>1, <1>1 DEF Untouched, VisibleTxns
      <3> QED BY <1>8, <3>1, <3>2, ReadsKept DEF Untouched
    <2> QED BY <2>1, <2>2
  <1> QED BY <1>3, <1>4, <1>8, <1>9 DEF ChainPart, SequenceRead, HashRead

(* The empty database satisfies the invariant.                             *)
LEMMA ChainInvInit == Init => ChainInv
  <1> SUFFICES ASSUME Init PROVE ChainInv
    OBVIOUS
  <1>1. \A s \in Sessions : VisibleTxns(s) = {} /\ mine[s].txns = {} /\ pc[s] = "idle"
    BY DEF Init, VisibleTxns, NoRows
  <1>2. ViewsChained
    BY <1>1 DEF Init, ViewsChained, IsChain
  <1>3. OneWriterPerTenant /\ Fresh /\ SequenceRead /\ HashRead
    BY <1>1 DEF OneWriterPerTenant, Fresh, SequenceRead, SequenceReadBy, HashRead, HashReadBy
  <1> QED BY <1>2, <1>3, TypeInit DEF ChainInv

(* Every step of every session keeps the invariant.                        *)
LEMMA ChainInvNext == ChainInv /\ [Next]_vars => ChainInv'
  <1> SUFFICES ASSUME ChainInv, [Next]_vars PROVE ChainInv'
    OBVIOUS
  <1>0. TypeOK' /\ LocalsOK'
    BY TypeNext DEF ChainInv
  <1>1. CASE UNCHANGED vars
    BY <1>1 DEF vars, ChainInv, TypeOK, LocalsOK, ViewsChained, IsChain, VisibleTxns,
                OneWriterPerTenant, Fresh, SequenceRead, SequenceReadBy, HashRead,
                HashReadBy, HasRow, GENESIS_BATCH_HASH
  <1>2. ASSUME NEW s \in Sessions, NEW t \in Tenants, NEW k \in Keys,
               NEW b \in Batches, PostTransaction(s, t, k, b)
        PROVE  ChainPart'
    <2>1. txns' = txns /\ mine' = mine /\ pc'[s] = "seq"
      BY <1>2 DEF PostTransaction, ChainInv, TypeOK
    <2>2. \A r \in Sessions \ {s} : Untouched(r)
      BY <1>2 DEF Untouched, PostTransaction, ChainInv, TypeOK
    <2> QED BY <1>0, <2>1, <2>2, ChainQuiet
  <1>3. ASSUME NEW s \in Sessions, NEW k \in Keys, NEW b \in Batches,
               PostReplayed(s, k, b)
        PROVE  ChainPart'
    BY <1>0, <1>3, ChainReturn DEF PostReplayed, tables
  <1>4. ASSUME NEW s \in Sessions, NEW k \in Keys, NEW b \in Batches,
               PostRejected(s, k, b)
        PROVE  ChainPart'
    BY <1>0, <1>4, ChainAbort DEF PostRejected
  <1>5. ASSUME NEW s \in Sessions, NextBatchSequence(s) PROVE ChainPart'
    BY <1>0, <1>5, ChainNextBatchSequence
  <1>6. ASSUME NEW s \in Sessions, LastBatchHash(s) PROVE ChainPart'
    BY <1>0, <1>6, ChainLastBatchHash
  <1>7. ASSUME NEW s \in Sessions, InsertTransaction(s) PROVE ChainPart'
    BY <1>0, <1>7, ChainInsertTransaction
  <1>8. ASSUME NEW s \in Sessions, InsertReplayed(s) PROVE ChainPart'
    BY <1>0, <1>8, ChainReturn DEF InsertReplayed, tables
  <1>9. ASSUME NEW s \in Sessions, InsertRaises(s) \/ DeadlockAbort(s) \/ Rollback(s)
        PROVE  ChainPart'
    BY <1>0, <1>9, ChainAbort DEF InsertRaises, DeadlockAbort, Rollback
  <1>10. ASSUME NEW s \in Sessions, EnsureAccount(s) PROVE ChainPart'
    <2>1. /\ txns' = txns /\ mine'[s].txns = mine[s].txns
          /\ pc'[s] \in {"accounts", "entries"}
      BY <1>10 DEF EnsureAccount, ChainInv, TypeOK, Rows
    <2>2. \A r \in Sessions \ {s} : Untouched(r)
      BY <1>10 DEF Untouched, EnsureAccount, ChainInv, TypeOK
    <2> QED BY <1>0, <2>1, <2>2, ChainQuiet
  <1>11. ASSUME NEW s \in Sessions, PostEntries(s) PROVE ChainPart'
    <2>1. /\ Return(s) /\ txns' = txns /\ mine'[s].txns = mine[s].txns
          /\ \A r \in Sessions \ {s} : mine'[r] = mine[r]
      BY <1>11 DEF PostEntries, tables, ChainInv, TypeOK, Rows
    <2> QED BY <1>0, <2>1, ChainReturn
  <1>12. ASSUME NEW s \in Sessions, Commit(s) PROVE ChainPart'
    BY <1>0, <1>12, ChainCommit
  <1>13. CASE Next
    BY <1>13, <1>0, <1>2, <1>3, <1>4, <1>5, <1>6, <1>7, <1>8, <1>9, <1>10, <1>11,
       <1>12 DEF Next, Posting, ChainInv, ChainPart
  <1> QED BY <1>1, <1>13

(* The inductive invariant of post_transaction holds in every behaviour.   *)
THEOREM ChainInvariant == Spec => []ChainInv
  BY ChainInvInit, ChainInvNext, PTL DEF Spec

(* Rows keep their types whatever the sessions do.                         *)
THEOREM TypeCorrect == Spec => []TypeOK
  <1>1. ChainInv => TypeOK
    BY DEF ChainInv
  <1> QED BY <1>1, ChainInvariant, PTL

(* The committed chain of every tenant is never forked, gapped or          *)
(* mislinked by racing calls of post_transaction.                          *)
THEOREM ChainNeverForks == Spec => []ChainIntact
  <1>1. ChainInv => ChainIntact
    BY DEF ChainInv, ViewsChained, ChainIntact
  <1> QED BY <1>1, ChainInvariant, PTL

-----------------------------------------------------------------------------
(* The accounts.  The unique constraint does not cover the accounts of the *)
(* platform (client_id NULL); what keeps them unique is that a session     *)
(* looks them up while it holds the only uncommitted header of the tenant. *)

(* The empty database has no two accounts.                                 *)
LEMMA AccountsInvInit == Init => AccountsInv
  BY DEF Init, AccountsInv, AccountsUnderHeader, OneAccountPerScope,
         OneAccountInView, VisibleAccounts, NoRows

(* s adds no account: it keeps or loses its rows.                          *)
LEMMA AccountsQuiet ==
    ASSUME AccountsInv, NEW s \in Sessions, accounts' = accounts,
           \A r \in Sessions \ {s} : Untouched(r),
           \/ /\ mine'[s].accounts = mine[s].accounts
              /\ mine[s].txns \subseteq mine'[s].txns
           \/ mine'[s].accounts = {},
           pc'[s] \in {"accounts", "entries"} =>
               \E h \in mine'[s].txns : h.tenant = call'[s].tenant
    PROVE  AccountsInv'
  <1>1. AccountsUnderHeader'
    <2> SUFFICES ASSUME NEW r \in Sessions
                 PROVE  /\ \A a \in mine'[r].accounts :
                              \E h \in mine'[r].txns : h.tenant = a.tenant
                        /\ pc'[r] \in {"accounts", "entries"} =>
                              \E h \in mine'[r].txns : h.tenant = call'[r].tenant
      BY DEF AccountsUnderHeader
    <2>1. CASE r = s
      BY <2>1 DEF AccountsInv, AccountsUnderHeader
    <2>2. CASE r # s
      BY <2>2 DEF Untouched, AccountsInv, AccountsUnderHeader
    <2> QED BY <2>1, <2>2
  <1>2. OneAccountPerScope'
    BY DEF AccountsInv, OneAccountPerScope, SameScope
  <1>3. \A r \in Sessions : VisibleAccounts(r)' \subseteq VisibleAccounts(r)
    BY DEF VisibleAccounts, Untouched
  <1>4. OneAccountInView'
    BY <1>3 DEF AccountsInv, OneAccountInView, SameScope
  <1> QED BY <1>1, <1>2, <1>4 DEF AccountsInv

(* A rollback of any kind keeps the accounts unique.                       *)
LEMMA AccountsAbort ==
    ASSUME ChainInv, AccountsInv, NEW s \in Sessions, Abort(s)
    PROVE  AccountsInv'
  <1>1. accounts' = accounts /\ mine'[s].accounts = {} /\ pc'[s] = "idle"
    BY DEF Abort, tables, ChainInv, TypeOK, NoRows
  <1>2. \A r \in Sessions \ {s} : Untouched(r)
    BY DEF Untouched, Abort, ForgetCall, ChainInv, TypeOK
  <1> QED BY <1>1, <1>2, AccountsQuiet

(* Returning to the caller keeps the accounts unique.                      *)
LEMMA AccountsReturn ==
    ASSUME ChainInv, AccountsInv, NEW s \in Sessions, Return(s), accounts' = accounts,
           mine'[s].txns = mine[s].txns, mine'[s].accounts = mine[s].accounts,
           \A r \in Sessions \ {s} : mine'[r] = mine[r]
    PROVE  AccountsInv'
  <1>1. pc'[s] = "open"
    BY DEF Return, ChainInv, TypeOK
  <1>2. \A r \in Sessions \ {s} : Untouched(r)
    BY DEF Untouched, Return, ForgetCall, ChainInv, TypeOK
  <1> QED BY <1>1, <1>2, AccountsQuiet

(* Accounts of different sessions are in different scopes.                 *)
LEMMA AccountsApart ==
    ASSUME ChainInv, AccountsInv, NEW r \in Sessions, NEW s \in Sessions, r # s,
           NEW a \in mine[r].accounts, NEW b \in mine[s].accounts
    PROVE  ~SameScope(a, b)
  <1>1. PICK h \in mine[r].txns : h.tenant = a.tenant
    BY DEF AccountsInv, AccountsUnderHeader
  <1>2. PICK g \in mine[s].txns : g.tenant = b.tenant
    BY DEF AccountsInv, AccountsUnderHeader
  <1>3. h.tenant # g.tenant
    BY DEF ChainInv, OneWriterPerTenant
  <1> QED BY <1>1, <1>2, <1>3 DEF SameScope

(* _ensure_account inserts a row only for a scope nobody else inserts.     *)
LEMMA AccountsEnsure ==
    ASSUME ChainInv, AccountsInv, NEW s \in Sessions, EnsureAccount(s)
    PROVE  AccountsInv'
  <1> DEFINE a == Account(s, line[s])
             found == {b \in VisibleAccounts(s) : SameScope(a, b)}
  <1>1. /\ accounts' = accounts /\ mine'[s].txns = mine[s].txns
        /\ pc[s] = "accounts" /\ call'[s] = call[s]
    BY DEF EnsureAccount, ChainInv, TypeOK, Rows
  <1>2. \A r \in Sessions \ {s} : Untouched(r)
    BY DEF Untouched, EnsureAccount, ChainInv, TypeOK
  <1>3. PICK h \in mine[s].txns : h.tenant = call[s].tenant
    BY <1>1 DEF AccountsInv, AccountsUnderHeader
  <1>4. CASE found # {}
    <2>1. mine' = mine
      BY <1>4 DEF EnsureAccount
    <2> QED BY <2>1, <1>1, <1>2, <1>3, AccountsQuiet
  <1>5. CASE found = {}
    <2>1. mine'[s].accounts = mine[s].accounts \cup {a}
      BY <1>5 DEF EnsureAccount, ChainInv, TypeOK, Rows
    <2>2. a.tenant = call[s].tenant
      BY DEF Account
    <2>3. AccountsUnderHeader'
      <3> SUFFICES ASSUME NEW r \in Sessions
                   PROVE  /\ \A b \in mine'[r].accounts :
                                \E g \in mine'[r].txns : g.tenant = b.tenant
                          /\ pc'[r] \in {"accounts", "entries"} =>
                                \E g \in mine'[r].txns : g.tenant = call'[r].tenant
        BY DEF AccountsUnderHeader
      <3>1. CASE r = s
        BY <3>1, <1>1, <1>3, <2>1, <2>2 DEF AccountsInv, AccountsUnderHeader
      <3>2. CASE r # s
        BY <3>2, <1>2 DEF Untouched, AccountsInv, AccountsUnderHeader
      <3> QED BY <3>1, <3>2
    <2>4. OneAccountPerScope'
      BY <1>1 DEF AccountsInv, OneAccountPerScope, SameScope
    <2>5. \A r \in Sessions \ {s} : VisibleAccounts(r)' = VisibleAccounts(r)
      BY <1>1, <1>2 DEF Untouched, VisibleAccounts
    <2>6. VisibleAccounts(s)' = VisibleAccounts(s) \cup {a}
      BY <1>1, <2>1 DEF VisibleAccounts
    <2>7. \A b \in VisibleAccounts(s) : ~SameScope(a, b) /\ ~SameScope(b, a)
      BY <1>5 DEF SameScope
    <2>8. OneAccountInView'
      BY <2>5, <2>6, <2>7 DEF AccountsInv, OneAccountInView, SameScope
    <2> QED BY <2>3, <2>4, <2>8 DEF AccountsInv
  <1> QED BY <1>4, <1>5

(* Committing the accounts of one session keeps them unique for all.       *)
LEMMA AccountsCommit ==
    ASSUME ChainInv, AccountsInv, NEW s \in Sessions, Commit(s)
    PROVE  AccountsInv'
  <1>1. /\ accounts' = VisibleAccounts(s) /\ mine'[s].accounts = {}
        /\ mine'[s].txns = {} /\ pc'[s] = "idle"
    BY DEF Commit, ChainInv, TypeOK, VisibleAccounts, NoRows
  <1>2. \A r \in Sessions \ {s} : Untouched(r)
    BY DEF Untouched, Commit, locals, ChainInv, TypeOK
  <1>3. AccountsUnderHeader'
    BY <1>1, <1>2 DEF Untouched, AccountsInv, AccountsUnderHeader
  <1>4. OneAccountPerScope'
    BY <1>1 DEF AccountsInv, OneAccountInView, OneAccountPerScope, SameScope
  <1>5. ASSUME NEW r \in Sessions, NEW a \in VisibleAccounts(r)',
               NEW b \in VisibleAccounts(r)', SameScope(a, b)
        PROVE  a = b
    <2>1. CASE r = s
      BY <2>1, <1>1, <1>5 DEF VisibleAccounts, AccountsInv, OneAccountInView
    <2>2. CASE r # s
      <3>1. VisibleAccounts(r)' = VisibleAccounts(r) \cup mine[s].accounts
        BY <2>2, <1>1, <1>2 DEF Untouched, VisibleAccounts
      <3>2. CASE a \in VisibleAccounts(r) /\ b \in VisibleAccounts(r)
        BY <3>2, <1>5 DEF AccountsInv, OneAccountInView
      <3>3. CASE a \in VisibleAccounts(s) /\ b \in VisibleAccounts(s)
        BY <3>3, <1>5 DEF AccountsInv, OneAccountInView
      <3>4. ~(a \in mine[r].accounts /\ b \in mine[s].accounts)
        BY <2>2, <1>5, AccountsApart
      <3>5. ~(b \in mine[r].accounts /\ a \in mine[s].accounts)
        BY <2>2, <1>5, AccountsApart DEF SameScope
      <3> QED BY <3>1, <3>2, <3>3, <3>4, <3>5 DEF VisibleAccounts
    <2> QED BY <2>1, <2>2
  <1>6. OneAccountInView'
    BY <1>5 DEF OneAccountInView, SameScope
  <1> QED BY <1>3, <1>4, <1>6 DEF AccountsInv

(* Every step of every session keeps the accounts unique.                  *)
LEMMA AccountsInvNext == ChainInv /\ AccountsInv /\ [Next]_vars => AccountsInv'
  <1> SUFFICES ASSUME ChainInv, AccountsInv, [Next]_vars PROVE AccountsInv'
    OBVIOUS
  <1>1. CASE UNCHANGED vars
    BY <1>1 DEF vars, AccountsInv, AccountsUnderHeader, OneAccountPerScope,
                OneAccountInView, VisibleAccounts, SameScope
  <1>2. ASSUME NEW s \in Sessions,
               \/ NextBatchSequence(s) \/ LastBatchHash(s)
               \/ \E t \in Tenants, k \in Keys, b \in Batches : PostTransaction(s, t, k, b)
        PROVE  AccountsInv'
    <2>1. accounts' = accounts /\ mine' = mine /\ pc'[s] \in {"seq", "hash", "insert"}
      BY <1>2 DEF PostTransaction, NextBatchSequence, LastBatchHash, ChainInv, TypeOK
    <2>2. \A r \in Sessions \ {s} : Untouched(r)
      BY <1>2 DEF Untouched, PostTransaction, NextBatchSequence, LastBatchHash,
                  ChainInv, TypeOK
    <2> QED BY <2>1, <2>2, AccountsQuiet
  <1>3. ASSUME NEW s \in Sessions,
               \/ InsertReplayed(s)
               \/ \E k \in Keys, b \in Batches : PostReplayed(s, k, b)
        PROVE  AccountsInv'
    BY <1>3, AccountsReturn DEF PostReplayed, InsertReplayed, tables
  <1>4. ASSUME NEW s \in Sessions,
               \/ InsertRaises(s) \/ DeadlockAbort(s) \/ Rollback(s)
               \/ \E k \in Keys, b \in Batches : PostRejected(s, k, b)
        PROVE  AccountsInv'
    BY <1>4, AccountsAbort DEF PostRejected, InsertRaises, DeadlockAbort, Rollback
  <1>5. ASSUME NEW s \in Sessions, InsertTransaction(s) PROVE AccountsInv'
    <2>1. /\ accounts' = accounts /\ mine'[s].accounts = mine[s].accounts
          /\ mine'[s].txns = mine[s].txns \cup {NewHeader(s)} /\ call'[s] = call[s]
      BY <1>5 DEF InsertTransaction, ChainInv, TypeOK, Rows
    <2>2. NewHeader(s).tenant = call[s].tenant
      BY DEF NewHeader
    <2>3. \A r \in Sessions \ {s} : Untouched(r)
      BY <1>5 DEF Untouched, InsertTransaction, ChainInv, TypeOK
    <2> QED BY <2>1, <2>2, <2>3, AccountsQuiet
  <1>6. ASSUME NEW s \in Sessions, EnsureAccount(s) PROVE AccountsInv'
    BY <1>6, AccountsEnsure
  <1>7. ASSUME NEW s \in Sessions, PostEntries(s) PROVE AccountsInv'
    <2>1. /\ Return(s) /\ accounts' = accounts /\ mine'[s].txns = mine[s].txns
          /\ mine'[s].accounts = mine[s].accounts
          /\ \A r \in Sessions \ {s} : mine'[r] = mine[r]
      BY <1>7 DEF PostEntries, tables, ChainInv, TypeOK, Rows
    <2> QED BY <2>1, AccountsReturn
  <1>8. ASSUME NEW s \in Sessions, Commit(s) PROVE AccountsInv'
    BY <1>8, AccountsCommit
  <1>9. CASE Next
    BY <1>9, <1>2, <1>3, <1>4, <1>5, <1>6, <1>7, <1>8 DEF Next, Posting
  <1> QED BY <1>1, <1>9

(* Racing calls of _ensure_account never leave two rows for one scope, not *)
(* even for the platform's accounts, which the constraint does not cover.  *)
THEOREM AccountsStayUnique == Spec => []OneAccountPerScope
  <1>1. Spec => []AccountsInv
    BY AccountsInvInit, AccountsInvNext, ChainInvariant, PTL DEF Spec
  <1>2. AccountsInv => OneAccountPerScope
    BY DEF AccountsInv
  <1> QED BY <1>1, <1>2, PTL

-----------------------------------------------------------------------------
(* The lines of a batch.  ChainInv says nothing of keys and entries.       *)

(* The batch a header was hashed from.                                     *)
BatchOf(h) == h.hash[Len(h.hash)]

HashedFrom(h) == \E b \in Batches : h.hash = BatchHash(h.prev, b)

(* E holds the entries of h, ranked by random ids, and no others of its    *)
(* key.                                                                    *)
Whole(h, E) ==
    LET b == BatchOf(h) IN
    \E rank \in [DOMAIN b -> DOMAIN b] :
        /\ \A i, j \in DOMAIN b : rank[i] = rank[j] => i = j
        /\ {e \in E : e.key = h.key} =
              {[key |-> h.key, id |-> rank[i], line |-> b[i]] : i \in DOMAIN b}

Writing(s) == pc[s] \in {"accounts", "entries"}

(* The headers s has flushed have their entries, but for the header of the *)
(* call in progress, which has none.                                       *)
SessionLines(s) ==
    /\ IsFiniteSet(mine[s].txns)
    /\ \A h \in mine[s].txns :
          /\ HashedFrom(h)
          /\ IF Writing(s) /\ h.key = call[s].key
             THEN BatchOf(h) = call[s].batch /\ \A e \in mine[s].entries : e.key # h.key
             ELSE Whole(h, mine[s].entries)
    /\ \A e \in mine[s].entries : \E h \in mine[s].txns : h.key = e.key
    /\ Writing(s) => \E h \in mine[s].txns : h.key = call[s].key

TableLines ==
    /\ IsFiniteSet(txns)
    /\ \A h \in txns : HashedFrom(h) /\ Whole(h, entries)
    /\ \A e \in entries : \E h \in txns : h.key = e.key

(* The unique idempotency_key: no two headers share a key, committed or    *)
(* not, whoever wrote them.                                                *)
KeysOnce ==
    /\ \A h, g \in txns : h.key = g.key => h = g
    /\ \A s \in Sessions : \A h, g \in VisibleTxns(s) : h.key = g.key => h = g
    /\ \A r, s \in Sessions : r # s =>
          \A h \in mine[r].txns, g \in mine[s].txns : h.key # g.key

LinesInv == TableLines /\ KeysOnce /\ \A s \in Sessions : SessionLines(s)

-----------------------------------------------------------------------------
(* The empty database satisfies the invariant.                             *)
LEMMA LinesInit == Init => LinesInv
  <1> SUFFICES ASSUME Init PROVE LinesInv
    OBVIOUS
  <1>1. TableLines
    BY FS_EmptySet DEF Init, TableLines
  <1>2. \A s \in Sessions : mine[s].txns = {} /\ mine[s].entries = {} /\ ~Writing(s)
    BY DEF Init, NoRows, Writing
  <1>3. KeysOnce
    BY <1>2 DEF Init, KeysOnce, VisibleTxns
  <1>4. \A s \in Sessions : SessionLines(s)
    BY <1>2, FS_EmptySet DEF SessionLines
  <1> QED
    BY <1>1, <1>3, <1>4 DEF LinesInv

(* What a header was hashed from is its last batch.                        *)
LEMMA LastBatch ==
    ASSUME NEW previous \in Hash, NEW b \in Batches
    PROVE  LET x == BatchHash(previous, b) IN x[Len(x)] = b
  BY DEF Hash, BatchHash

(* A header carries the hash of its predecessor and of its own batch.      *)
LEMMA BatchOfHeader ==
    ASSUME NEW h \in Header, HashedFrom(h)
    PROVE  /\ BatchOf(h) \in Batches /\ h.hash = BatchHash(h.prev, BatchOf(h))
           /\ Len(BatchOf(h)) \in Nat /\ DOMAIN BatchOf(h) = 1..Len(BatchOf(h))
  <1>1. PICK b \in Batches : h.hash = BatchHash(h.prev, b)
    BY DEF HashedFrom
  <1>2. h.prev \in Hash
    BY DEF Header
  <1>3. BatchOf(h) = b
    BY <1>1, <1>2, LastBatch DEF BatchOf
  <1>4. b \in Seq({b[i] : i \in DOMAIN b})
    BY BatchesAreSequences
  <1> QED
    BY <1>1, <1>3, <1>4

(* The lines of a session nothing of which changes.                        *)
LEMMA SessionLinesKept ==
    ASSUME NEW r \in Sessions, SessionLines(r),
           mine'[r].txns = mine[r].txns, mine'[r].entries = mine[r].entries,
           Writing(r) => call'[r] = call[r],
           Writing(r)' = Writing(r)
    PROVE  SessionLines(r)'
  BY DEF SessionLines, HashedFrom, BatchOf, Whole, BatchHash

(* The lines of a session that has flushed nothing.                        *)
LEMMA NothingFlushed ==
    ASSUME NEW s \in Sessions, mine'[s] = NoRows, ~Writing(s)'
    PROVE  SessionLines(s)'
  BY FS_EmptySet DEF SessionLines, NoRows

(* The lines of a session that is between two calls.                       *)
LEMMA BatchesOfSession ==
    ASSUME NEW s \in Sessions, NEW T, NEW E, mine'[s].txns = T, mine'[s].entries = E,
           ~Writing(s)', IsFiniteSet(T),
           \A h \in T : HashedFrom(h) /\ Whole(h, E),
           \A e \in E : \E h \in T : h.key = e.key
    PROVE  SessionLines(s)'
  BY DEF SessionLines, HashedFrom, BatchOf, Whole, BatchHash

(* A step of s that flushes no header: its own lines need an argument.     *)
LEMMA LinesQuiet ==
    ASSUME LinesInv, NEW s \in Sessions, txns' = txns, entries' = entries,
           \A r \in Sessions \ {s} : Untouched(r),
           mine'[s].txns \subseteq mine[s].txns, SessionLines(s)'
    PROVE  LinesInv'
  <1>1. TableLines'
    BY DEF LinesInv, TableLines, HashedFrom, BatchOf, Whole, BatchHash
  <1>2. KeysOnce'
    <2>1. \A r \in Sessions : mine'[r].txns \subseteq mine[r].txns
      BY DEF Untouched
    <2>2. \A r \in Sessions : VisibleTxns(r)' \subseteq VisibleTxns(r)
      BY <2>1 DEF VisibleTxns
    <2> QED
      BY <2>1, <2>2 DEF LinesInv, KeysOnce
  <1>3. ASSUME NEW r \in Sessions \ {s}
        PROVE  SessionLines(r)'
    <2>1. SessionLines(r) /\ Untouched(r)
      BY DEF LinesInv
    <2> QED
      BY <2>1, SessionLinesKept DEF Untouched, Writing
  <1> QED
    BY <1>1, <1>2, <1>3 DEF LinesInv

(* A rollback of any kind keeps the lines whole.                           *)
LEMMA LinesAbort ==
    ASSUME ChainInv, LinesInv, NEW s \in Sessions, Abort(s)
    PROVE  LinesInv'
  <1>1. txns' = txns /\ entries' = entries /\ mine'[s] = NoRows /\ pc'[s] = "idle"
    BY DEF Abort, tables, ChainInv, TypeOK
  <1>2. \A r \in Sessions \ {s} : Untouched(r)
    BY DEF Untouched, Abort, ForgetCall, ChainInv, TypeOK
  <1>3. SessionLines(s)'
    BY <1>1, NothingFlushed DEF Writing
  <1>4. mine'[s].txns \subseteq mine[s].txns
    BY <1>1 DEF NoRows
  <1> QED
    BY <1>1, <1>2, <1>3, <1>4, LinesQuiet

(* Reading, looking up and returning a replay.                             *)
LEMMA LinesReading ==
    ASSUME ChainInv, LinesInv, NEW s \in Sessions,
           \/ NextBatchSequence(s) \/ LastBatchHash(s) \/ InsertReplayed(s)
           \/ \E t \in Tenants, k \in Keys, b \in Batches : PostTransaction(s, t, k, b)
           \/ \E k \in Keys, b \in Batches : PostReplayed(s, k, b)
    PROVE  LinesInv'
  <1>1. /\ txns' = txns /\ entries' = entries /\ mine' = mine
        /\ pc[s] \in {"idle", "open", "seq", "hash", "insert"}
        /\ pc'[s] \in {"seq", "hash", "insert", "open"}
    <2>1. pc \in [Sessions -> States]
      BY DEF ChainInv, TypeOK
    <2>2. CASE NextBatchSequence(s) \/ LastBatchHash(s)
      BY <2>1, <2>2 DEF NextBatchSequence, LastBatchHash
    <2>3. CASE InsertReplayed(s)
      BY <2>1, <2>3 DEF InsertReplayed, Return, tables
    <2>4. CASE \E t \in Tenants, k \in Keys, b \in Batches : PostTransaction(s, t, k, b)
      BY <2>1, <2>4 DEF PostTransaction, Callable
    <2>5. CASE \E k \in Keys, b \in Batches : PostReplayed(s, k, b)
      BY <2>1, <2>5 DEF PostReplayed, Callable, Return, tables
    <2> QED
      BY <2>2, <2>3, <2>4, <2>5
  <1>2. \A r \in Sessions \ {s} : Untouched(r)
    <2>1. /\ pc \in [Sessions -> States] /\ call \in [Sessions -> Call \cup {NoCall}]
          /\ seq \in [Sessions -> Nat] /\ prev \in [Sessions -> Hash]
          /\ line \in [Sessions -> Nat]
      BY DEF ChainInv, TypeOK
    <2>2. CASE NextBatchSequence(s)
      BY <1>1, <2>1, <2>2 DEF NextBatchSequence, Untouched
    <2>3. CASE LastBatchHash(s)
      BY <1>1, <2>1, <2>3 DEF LastBatchHash, Untouched
    <2>4. CASE InsertReplayed(s)
      BY <1>1, <2>1, <2>4 DEF InsertReplayed, Return, ForgetCall, Untouched
    <2>5. CASE \E t \in Tenants, k \in Keys, b \in Batches : PostTransaction(s, t, k, b)
      BY <1>1, <2>1, <2>5 DEF PostTransaction, Untouched
    <2>6. CASE \E k \in Keys, b \in Batches : PostReplayed(s, k, b)
      BY <1>1, <2>1, <2>6 DEF PostReplayed, Return, ForgetCall, Untouched
    <2> QED
      BY <2>2, <2>3, <2>4, <2>5, <2>6
  <1>3. SessionLines(s) /\ ~Writing(s) /\ ~Writing(s)'
    BY <1>1 DEF LinesInv, Writing
  <1>4. SessionLines(s)'
    <2>1. mine'[s].txns = mine[s].txns /\ mine'[s].entries = mine[s].entries
      BY <1>1
    <2>2. Writing(s)' = Writing(s)
      BY <1>1 DEF Writing
    <2> QED
      BY <1>3, <2>1, <2>2, SessionLinesKept
  <1> QED
    BY <1>1, <1>2, <1>4, LinesQuiet

(* _ensure_account writes no line.                                         *)
LEMMA LinesEnsure ==
    ASSUME ChainInv, LinesInv, NEW s \in Sessions, EnsureAccount(s)
    PROVE  LinesInv'
  <1>1. /\ txns' = txns /\ entries' = entries /\ call' = call
        /\ mine'[s].txns = mine[s].txns /\ mine'[s].entries = mine[s].entries
        /\ pc[s] = "accounts" /\ pc'[s] \in {"accounts", "entries"}
    BY DEF EnsureAccount, ChainInv, TypeOK, Rows
  <1>2. \A r \in Sessions \ {s} : Untouched(r)
    BY DEF Untouched, EnsureAccount, ChainInv, TypeOK
  <1>3. SessionLines(s) /\ Writing(s) /\ Writing(s)'
    BY <1>1 DEF LinesInv, Writing
  <1>4. SessionLines(s)'
    BY <1>1, <1>3, SessionLinesKept
  <1> QED
    BY <1>1, <1>2, <1>4, LinesQuiet

(* The new header has a new key, and no entries yet.                       *)
LEMMA LinesInsert ==
    ASSUME ChainInv, LinesInv, NEW s \in Sessions, InsertTransaction(s)
    PROVE  LinesInv'
  <1> DEFINE h == NewHeader(s)
             k == call[s].key
  <1>1. /\ txns' = txns /\ entries' = entries /\ call' = call
        /\ mine'[s].txns = mine[s].txns \cup {h} /\ mine'[s].entries = mine[s].entries
        /\ pc[s] = "insert" /\ pc'[s] = "accounts"
    BY DEF InsertTransaction, ChainInv, TypeOK, Rows
  <1>2. \A r \in Sessions \ {s} : Untouched(r)
    BY DEF Untouched, InsertTransaction, ChainInv, TypeOK
  <1>3. /\ h.key = k /\ call[s] \in Call /\ h.prev = prev[s] /\ prev[s] \in Hash
        /\ h.hash = BatchHash(prev[s], call[s].batch)
    BY <1>1 DEF NewHeader, ChainInv, LocalsOK, TypeOK
  <1>4. \A g \in VisibleTxns(s) : g.key # k
    BY <1>3 DEF InsertTransaction, UniqueViolation, Clashes
  <1>5. \A r \in Sessions \ {s} : \A g \in mine[r].txns : g.key # k
    BY <1>1, <1>3 DEF InsertTransaction, WaitsFor, Clashes
  <1>6. HashedFrom(h) /\ BatchOf(h) = call[s].batch
    BY <1>3, LastBatch DEF HashedFrom, BatchOf, Call
  <1> HIDE DEF h, k
  <1>7. TableLines'
    BY <1>1 DEF LinesInv, TableLines, HashedFrom, BatchOf, Whole, BatchHash
  <1>8. KeysOnce'
    <2>1. VisibleTxns(s)' = VisibleTxns(s) \cup {h}
      BY <1>1 DEF VisibleTxns
    <2>2. \A r \in Sessions \ {s} : VisibleTxns(r)' = VisibleTxns(r)
      BY <1>1, <1>2 DEF VisibleTxns, Untouched
    <2>3. \A g1, g2 \in txns' : g1.key = g2.key => g1 = g2
      BY <1>1 DEF LinesInv, KeysOnce
    <2>4. \A r \in Sessions : \A g1, g2 \in VisibleTxns(r)' : g1.key = g2.key => g1 = g2
      BY <1>3, <1>4, <2>1, <2>2 DEF LinesInv, KeysOnce
    <2>5. \A q, r \in Sessions : q # r =>
             \A g1 \in mine'[q].txns, g2 \in mine'[r].txns : g1.key # g2.key
      BY <1>1, <1>2, <1>3, <1>5 DEF LinesInv, KeysOnce, Untouched
    <2> QED
      BY <2>3, <2>4, <2>5 DEF KeysOnce
  <1>9. ASSUME NEW r \in Sessions \ {s}
        PROVE  SessionLines(r)'
    <2>1. SessionLines(r) /\ Untouched(r)
      BY <1>2 DEF LinesInv
    <2> QED
      BY <2>1, SessionLinesKept DEF Untouched, Writing
  <1>10. SessionLines(s)'
    <2>1. SessionLines(s) /\ ~Writing(s)
      BY <1>1 DEF LinesInv, Writing
    <2>2. IsFiniteSet(mine'[s].txns)
      <3>1. IsFiniteSet(mine[s].txns \cup {h})
        BY <2>1, FS_AddElement DEF SessionLines
      <3> QED
        BY <1>1, <3>1
    <2>3. \A g \in mine[s].txns : /\ HashedFrom(g) /\ Whole(g, mine[s].entries)
                                  /\ g.key # k
      BY <1>4, <2>1 DEF SessionLines, VisibleTxns
    <2>4. \A e \in mine[s].entries : e.key # k /\ \E g \in mine[s].txns : g.key = e.key
      BY <2>1, <2>3 DEF SessionLines
    <2>5. ASSUME NEW g \in mine'[s].txns
          PROVE  /\ HashedFrom(g)
                 /\ IF Writing(s)' /\ g.key = call'[s].key
                    THEN BatchOf(g) = call'[s].batch /\ \A e \in mine'[s].entries : e.key # g.key
                    ELSE Whole(g, mine'[s].entries)
      <3>1. CASE g = h
        BY <1>1, <1>3, <1>6, <2>4, <3>1 DEF Writing, k
      <3>2. CASE g \in mine[s].txns
        BY <1>1, <2>3, <3>2 DEF k
      <3> QED
        BY <1>1, <3>1, <3>2
    <2>6. /\ \A e \in mine'[s].entries : \E g \in mine'[s].txns : g.key = e.key
          /\ \E g \in mine'[s].txns : g.key = call'[s].key
      BY <1>1, <1>3, <2>4 DEF k
    <2> QED
      BY <2>2, <2>5, <2>6 DEF SessionLines, HashedFrom, BatchOf, Whole, BatchHash
  <1> QED
    BY <1>7, <1>8, <1>9, <1>10 DEF LinesInv

(* _post_entries completes the batch of the call.                          *)
LEMMA LinesPost ==
    ASSUME ChainInv, LinesInv, NEW s \in Sessions, PostEntries(s)
    PROVE  LinesInv'
  <1> DEFINE b == call[s].batch
             k == call[s].key
  <1>1. PICK rank \in [DOMAIN b -> DOMAIN b] :
           /\ \A i, j \in DOMAIN b : rank[i] = rank[j] => i = j
           /\ mine' = [mine EXCEPT ![s].entries = @ \cup
                 {[key |-> k, id |-> rank[i], line |-> b[i]] : i \in DOMAIN b}]
    BY DEF PostEntries
  <1> DEFINE new == {[key |-> k, id |-> rank[i], line |-> b[i]] : i \in DOMAIN b}
  <1>2. /\ txns' = txns /\ entries' = entries /\ pc[s] = "entries" /\ pc'[s] = "open"
        /\ mine'[s].txns = mine[s].txns /\ mine'[s].entries = mine[s].entries \cup new
    <2>1. mine \in [Sessions -> Rows] /\ pc \in [Sessions -> States]
      BY DEF ChainInv, TypeOK
    <2>2. txns' = txns /\ entries' = entries /\ pc[s] = "entries" /\ pc'[s] = "open"
      BY <2>1 DEF PostEntries, Return, tables
    <2> HIDE DEF new
    <2>3. mine'[s] = [mine[s] EXCEPT !.entries = @ \cup new]
      BY <1>1, <2>1 DEF new
    <2>4. mine[s] \in Rows
      BY <2>1
    <2>5. PICK m : m = mine[s]
      OBVIOUS
    <2>6. PICK n : n = m.entries \cup new
      OBVIOUS
    <2>7. mine'[s] = [m EXCEPT !.entries = n] /\ m \in Rows
      BY <2>3, <2>4, <2>5, <2>6
    <2>8. mine'[s].txns = m.txns /\ mine'[s].entries = n
      BY <2>7 DEF Rows
    <2> QED
      BY <2>2, <2>5, <2>6, <2>8
  <1>3. \A r \in Sessions \ {s} : Untouched(r)
    BY <1>1 DEF Untouched, PostEntries, Return, ForgetCall, ChainInv, TypeOK
  <1>4. \A e \in new : e.key = k
    OBVIOUS
  <1>5. SessionLines(s) /\ Writing(s) /\ ~Writing(s)'
    BY <1>2 DEF LinesInv, Writing
  <1>6. ASSUME NEW h \in mine[s].txns
        PROVE  Whole(h, mine[s].entries \cup new)
    <2>1. CASE h.key = k
      <3>1. BatchOf(h) = b /\ \A e \in mine[s].entries : e.key # k
        BY <1>5, <2>1 DEF SessionLines
      <3>2. {e \in mine[s].entries \cup new : e.key = k} = new
        BY <1>4, <3>1
      <3> HIDE DEF b, k
      <3> QED
        BY <1>1, <2>1, <3>1, <3>2 DEF Whole
    <2>2. CASE h.key # k
      <3>1. Whole(h, mine[s].entries)
        BY <1>5, <2>2 DEF SessionLines
      <3>2. {e \in mine[s].entries \cup new : e.key = h.key}
            = {e \in mine[s].entries : e.key = h.key}
        BY <1>4, <2>2
      <3> HIDE DEF new
      <3> QED
        BY <3>1, <3>2 DEF Whole
    <2> QED
      BY <2>1, <2>2
  <1>7. \A e \in mine[s].entries \cup new : \E h \in mine[s].txns : h.key = e.key
    BY <1>4, <1>5 DEF SessionLines
  <1>8. IsFiniteSet(mine[s].txns) /\ \A h \in mine[s].txns : HashedFrom(h)
    BY <1>5 DEF SessionLines
  <1> HIDE DEF new, b, k
  <1>9. SessionLines(s)'
    BY <1>2, <1>5, <1>6, <1>7, <1>8, BatchesOfSession
  <1> QED
    BY <1>2, <1>3, <1>9, LinesQuiet

(* A commit adds whole batches with new keys.                              *)
LEMMA LinesCommit ==
    ASSUME ChainInv, LinesInv, NEW s \in Sessions, Commit(s)
    PROVE  LinesInv'
  <1>1. /\ txns' = txns \cup mine[s].txns /\ entries' = entries \cup mine[s].entries
        /\ mine'[s] = NoRows /\ pc[s] = "open" /\ pc'[s] = "idle"
    BY DEF Commit, ChainInv, TypeOK
  <1>2. \A r \in Sessions \ {s} : Untouched(r)
    BY DEF Untouched, Commit, locals, ChainInv, TypeOK
  <1>3. TableLines /\ SessionLines(s) /\ KeysOnce /\ ~Writing(s)
    BY <1>1 DEF LinesInv, Writing
  <1>4. \A h \in txns, g \in mine[s].txns : h.key # g.key
    <2> SUFFICES ASSUME NEW h \in txns, NEW g \in mine[s].txns, h.key = g.key
                 PROVE  FALSE
      OBVIOUS
    <2>1. h = g
      BY <1>3 DEF KeysOnce, VisibleTxns
    <2>2. g.seq \in Nat
      BY DEF ChainInv, TypeOK, Rows, Header
    <2> QED
      BY <2>1, <2>2 DEF ChainInv, Fresh
  <1>5. TableLines'
    <2>1. IsFiniteSet(txns')
      <3>1. IsFiniteSet(txns \cup mine[s].txns)
        BY <1>3, FS_Union DEF TableLines, SessionLines
      <3> QED
        BY <1>1, <3>1
    <2>2. ASSUME NEW h \in txns'
          PROVE  HashedFrom(h) /\ Whole(h, entries')
      <3>1. CASE h \in txns
        <4>1. HashedFrom(h) /\ Whole(h, entries)
          BY <1>3, <3>1 DEF TableLines
        <4>2. \A e \in mine[s].entries : e.key # h.key
          BY <1>3, <1>4, <3>1 DEF SessionLines
        <4>3. {e \in entries' : e.key = h.key} = {e \in entries : e.key = h.key}
          BY <1>1, <4>2
        <4> QED
          BY <4>1, <4>3 DEF Whole
      <3>2. CASE h \in mine[s].txns
        <4>1. HashedFrom(h) /\ Whole(h, mine[s].entries)
          BY <1>3, <3>2 DEF SessionLines
        <4>2. \A e \in entries : e.key # h.key
          BY <1>3, <1>4, <3>2 DEF TableLines
        <4>3. {e \in entries' : e.key = h.key} = {e \in mine[s].entries : e.key = h.key}
          BY <1>1, <4>2
        <4> QED
          BY <4>1, <4>3 DEF Whole
      <3> QED
        BY <1>1, <3>1, <3>2
    <2>3. \A e \in entries' : \E h \in txns' : h.key = e.key
      BY <1>1, <1>3 DEF TableLines, SessionLines
    <2> QED
      BY <2>1, <2>2, <2>3 DEF TableLines, HashedFrom, BatchOf, Whole, BatchHash
  <1>6. KeysOnce'
    <2>1. txns' = VisibleTxns(s) /\ VisibleTxns(s)' = VisibleTxns(s)
      BY <1>1 DEF VisibleTxns, NoRows
    <2>2. \A r \in Sessions \ {s} : VisibleTxns(r)' = VisibleTxns(r) \cup mine[s].txns
      BY <1>1, <1>2 DEF VisibleTxns, Untouched
    <2>3. \A h, g \in txns' : h.key = g.key => h = g
      BY <1>3, <2>1 DEF KeysOnce
    <2>4. ASSUME NEW r \in Sessions, NEW h \in VisibleTxns(r)', NEW g \in VisibleTxns(r)',
                 h.key = g.key
          PROVE  h = g
      <3>1. CASE r = s
        BY <1>3, <2>1, <2>4, <3>1 DEF KeysOnce
      <3>2. CASE r # s
        <4>1. /\ h \in txns \cup mine[r].txns \cup mine[s].txns
              /\ g \in txns \cup mine[r].txns \cup mine[s].txns
          BY <2>2, <3>2 DEF VisibleTxns
        <4>2. ~(h \in mine[r].txns /\ g \in mine[s].txns)
              /\ ~(g \in mine[r].txns /\ h \in mine[s].txns)
          BY <1>3, <2>4, <3>2 DEF KeysOnce
        <4>3. (h \in VisibleTxns(r) /\ g \in VisibleTxns(r))
              \/ (h \in VisibleTxns(s) /\ g \in VisibleTxns(s))
          BY <4>1, <4>2 DEF VisibleTxns
        <4> QED
          BY <1>3, <2>4, <4>3 DEF KeysOnce
      <3> QED
        BY <3>1, <3>2
    <2>5. \A q, r \in Sessions : q # r =>
             \A h \in mine'[q].txns, g \in mine'[r].txns : h.key # g.key
      BY <1>1, <1>2, <1>3 DEF KeysOnce, Untouched, NoRows
    <2> QED
      BY <2>3, <2>4, <2>5 DEF KeysOnce
  <1>7. ASSUME NEW r \in Sessions
        PROVE  SessionLines(r)'
    <2>1. CASE r = s
      BY <1>1, <2>1, NothingFlushed DEF Writing
    <2>2. CASE r # s
      <3>1. SessionLines(r) /\ Untouched(r)
        BY <1>2, <2>2 DEF LinesInv
      <3> QED
        BY <3>1, SessionLinesKept DEF Untouched, Writing
    <2> QED
      BY <2>1, <2>2
  <1> QED
    BY <1>5, <1>6, <1>7 DEF LinesInv

(* Every step of every session keeps the invariant.                        *)
LEMMA LinesNext == ChainInv /\ LinesInv /\ [Next]_vars => LinesInv'
  <1> SUFFICES ASSUME ChainInv, LinesInv, [Next]_vars PROVE LinesInv'
    OBVIOUS
  <1>1. CASE UNCHANGED vars
    <2>1. TableLines' /\ KeysOnce'
      BY <1>1 DEF vars, LinesInv, TableLines, KeysOnce, HashedFrom, BatchOf, Whole,
                  BatchHash, VisibleTxns
    <2>2. \A s \in Sessions : SessionLines(s)'
      BY <1>1, SessionLinesKept DEF vars, LinesInv, Writing
    <2> QED
      BY <2>1, <2>2 DEF LinesInv
  <1>2. CASE Next
    BY <1>2, LinesAbort, LinesReading, LinesInsert, LinesEnsure, LinesPost, LinesCommit
    DEF Next, Posting, PostRejected, InsertRaises, DeadlockAbort, Rollback
  <1> QED
    BY <1>1, <1>2

(* The lines stay whole in every reachable state.                          *)
LEMMA LinesInvariant == Spec => [](ChainInv /\ LinesInv)
  BY LinesInit, LinesNext, ChainInvariant, PTL DEF Spec

-----------------------------------------------------------------------------
(* Counting the lines of a batch, and the batches of a tenant.             *)

(* Two sets that f matches element by element are of one size.             *)
LEMMA Matched ==
    ASSUME NEW S, NEW T, IsFiniteSet(S), NEW f \in [S -> T],
           \A x, y \in S : f[x] = f[y] => x = y,
           \A y \in T : \E x \in S : f[x] = y
    PROVE  IsFiniteSet(T) /\ Cardinality(T) = Cardinality(S)
  <1>1. f \in Bijection(S, T)
    BY DEF Bijection, Injection, Surjection, IsInjective
  <1>2. ExistsBijection(S, T)
    BY <1>1 DEF ExistsBijection
  <1> QED
    BY <1>2, FS_Bijection

(* A whole batch has as many entries as lines, and so has each line of it. *)
LEMMA WholeCounts ==
    ASSUME NEW h \in Header, HashedFrom(h), NEW E, Whole(h, E)
    PROVE  LET b == BatchOf(h)
               F == {e \in E : e.key = h.key}
           IN  /\ Cardinality(F) = Len(b)
               /\ \A l \in {b[i] : i \in DOMAIN b} :
                     Cardinality({e \in F : e.line = l}) = Cardinality({i \in DOMAIN b : b[i] = l})
  <1> DEFINE b == BatchOf(h)
             F == {e \in E : e.key = h.key}
  <1>1. Len(b) \in Nat /\ DOMAIN b = 1..Len(b)
    BY BatchOfHeader
  <1>2. PICK rank \in [DOMAIN b -> DOMAIN b] :
           /\ \A i, j \in DOMAIN b : rank[i] = rank[j] => i = j
           /\ F = {[key |-> h.key, id |-> rank[i], line |-> b[i]] : i \in DOMAIN b}
    BY DEF Whole
  <1> DEFINE f == [i \in DOMAIN b |-> [key |-> h.key, id |-> rank[i], line |-> b[i]]]
  <1>3. /\ f \in [DOMAIN b -> F] /\ \A y \in F : \E i \in DOMAIN b : f[i] = y
        /\ \A i, j \in DOMAIN b : f[i] = f[j] => i = j
        /\ \A i \in DOMAIN b : f[i].line = b[i]
    <2> HIDE DEF b, F
    <2>1. \A i \in DOMAIN b : /\ f[i] = [key |-> h.key, id |-> rank[i], line |-> b[i]]
                              /\ f[i].id = rank[i] /\ f[i].line = b[i]
      OBVIOUS
    <2>2. \A i, j \in DOMAIN b : f[i] = f[j] => i = j
      BY <1>2, <2>1
    <2>3. f \in [DOMAIN b -> F]
      BY <1>2
    <2>4. \A y \in F : \E i \in DOMAIN b : f[i] = y
      BY <1>2, <2>1
    <2> HIDE DEF f
    <2> QED
      BY <2>1, <2>2, <2>3, <2>4
  <1> HIDE DEF b, F, f
  <1>4. IsFiniteSet(DOMAIN b) /\ Cardinality(DOMAIN b) = Len(b)
    <2>1. PICK n \in Nat : n = Len(b)
      BY <1>1
    <2>2. IsFiniteSet(1..n) /\ Cardinality(1..n) = n
      BY FS_Interval
    <2> QED
      BY <1>1, <2>1, <2>2
  <1>5. Cardinality(F) = Len(b)
    BY <1>3, <1>4, Matched
  <1>6. ASSUME NEW l
        PROVE  Cardinality({e \in F : e.line = l}) = Cardinality({i \in DOMAIN b : b[i] = l})
    <2> DEFINE S == {i \in DOMAIN b : b[i] = l}
               T == {e \in F : e.line = l}
               g == [i \in S |-> f[i]]
    <2>1. IsFiniteSet(S)
      BY <1>4, FS_Subset
    <2>2. /\ g \in [S -> T] /\ \A i, j \in S : g[i] = g[j] => i = j
          /\ \A y \in T : \E i \in S : g[i] = y
      BY <1>3
    <2> HIDE DEF S, T, g
    <2>3. Cardinality(T) = Cardinality(S)
      BY <2>1, <2>2, Matched
    <2> QED
      BY <2>3 DEF S, T
  <1> QED
    BY <1>5, <1>6 DEF b, F

(* Numbers without gap or repetition are 1 up to their count.              *)
LEMMA DenseSeqs ==
    ASSUME NEW R, IsFiniteSet(R), \A h \in R : h.seq \in Nat \ {0},
           \A h \in R : \A n \in 1..(h.seq - 1) : \E g \in R : g.seq = n,
           \A h, g \in R : h.seq = g.seq => h = g
    PROVE  Cardinality(R) \in Nat /\ {h.seq : h \in R} = 1..Cardinality(R)
  <1> DEFINE S == {h.seq : h \in R}
             f == [h \in R |-> h.seq]
             n == Cardinality(R)
  <1>1. /\ f \in [R -> S] /\ \A h, g \in R : f[h] = f[g] => h = g
        /\ \A y \in S : \E h \in R : f[h] = y
    OBVIOUS
  <1>2. \A y \in S : y \in Nat \ {0} /\ 1..y \subseteq S
    <2> SUFFICES ASSUME NEW h \in R, NEW k \in 1..h.seq
                 PROVE  h.seq \in Nat \ {0} /\ k \in S
      OBVIOUS
    <2>1. CASE k = h.seq
      BY <2>1
    <2>2. CASE k # h.seq
      <3>1. k \in 1..(h.seq - 1)
        BY <2>2
      <3> QED
        BY <3>1
    <2> QED
      BY <2>1, <2>2
  <1> HIDE DEF S, f
  <1>3. IsFiniteSet(S) /\ Cardinality(S) = n
    BY <1>1, Matched
  <1>4. n \in Nat
    BY FS_CardinalityType
  <1> HIDE DEF n
  <1>5. ASSUME NEW y \in S
        PROVE  y \in 1..n
    <2>1. y \in Nat \ {0} /\ 1..y \subseteq S
      BY <1>2
    <2>2. Cardinality(1..y) = y /\ IsFiniteSet(1..y)
      BY <2>1, FS_Interval
    <2>3. Cardinality(1..y) <= Cardinality(S)
      BY <1>3, <2>1, FS_Subset
    <2> QED
      BY <1>3, <1>4, <2>1, <2>2, <2>3
  <1>6. IsFiniteSet(1..n) /\ Cardinality(1..n) = n /\ S \subseteq 1..n
    BY <1>4, <1>5, FS_Interval
  <1>7. S = 1..n
    BY <1>3, <1>6, FS_Subset
  <1> QED
    BY <1>4, <1>7 DEF S, n

(* The committed batches of one tenant.                                    *)
TenantRows(t) == {h \in txns : h.tenant = t}

(* The batches of a tenant are numbered from 1 to their count.             *)
LEMMA TenantNumbers ==
    ASSUME ChainInv, LinesInv, NEW t \in Tenants
    PROVE  /\ IsFiniteSet(TenantRows(t)) /\ Cardinality(TenantRows(t)) \in Nat
           /\ {h.seq : h \in TenantRows(t)} = 1..Cardinality(TenantRows(t))
           /\ \A h, g \in TenantRows(t) : h.seq = g.seq => h = g
  <1> DEFINE R == TenantRows(t)
  <1>1. IsFiniteSet(R)
    <2>1. IsFiniteSet(txns) /\ R \subseteq txns
      BY DEF LinesInv, TableLines, TenantRows
    <2> HIDE DEF R
    <2> QED
      BY <2>1, FS_Subset
  <1>2. \A h \in R : h.seq \in Nat \ {0}
    BY DEF TenantRows, ChainInv, TypeOK, Header
  <1>3. \A h \in R : \A n \in 1..(h.seq - 1) : \E g \in R : g.seq = n
    BY DEF TenantRows, ChainInv, ViewsChained, IsChain
  <1>4. \A h, g \in R : h.seq = g.seq => h = g
    BY DEF TenantRows, ChainInv, ViewsChained, IsChain
  <1> HIDE DEF R
  <1>5. Cardinality(R) \in Nat /\ {h.seq : h \in R} = 1..Cardinality(R)
    BY <1>1, <1>2, <1>3, <1>4, DenseSeqs
  <1> QED
    BY <1>1, <1>4, <1>5 DEF R

(* Every committed batch is there whole, and verify_ledger_chain can fail  *)
(* it only for the order of its ids.                                       *)
LEMMA LinesOfTheTable == ChainInv /\ LinesInv => LinesVerify
  <1> SUFFICES ASSUME ChainInv, LinesInv PROVE LinesVerify
    OBVIOUS
  <1>1. EntriesMatchHeader
    <2>1. \A e \in entries : \E h \in txns : h.key = e.key
      BY DEF LinesInv, TableLines
    <2>2. ASSUME NEW h \in txns
          PROVE  LET b == h.hash[Len(h.hash)]
                 IN  /\ Cardinality(EntriesOf(h)) = Len(b)
                     /\ \A l \in {b[i] : i \in DOMAIN b} :
                           Cardinality({e \in EntriesOf(h) : e.line = l})
                             = Cardinality({i \in DOMAIN b : b[i] = l})
      <3>1. h \in Header /\ HashedFrom(h) /\ Whole(h, entries)
        BY DEF ChainInv, TypeOK, LinesInv, TableLines
      <3> QED
        BY <3>1, WholeCounts DEF EntriesOf, BatchOf
    <2> QED
      BY <2>1, <2>2 DEF EntriesMatchHeader
  <1>2. HonestLedgerVerifies
    <2> SUFFICES ASSUME NEW t \in Tenants,
                        \A h \in txns : h.tenant = t => LinesById(h) = h.hash[Len(h.hash)]
                 PROVE  VerifyLedgerChain(t)
      BY DEF HonestLedgerVerifies
    <2> DEFINE rows == TenantRows(t)
    <2>1. {h.seq : h \in rows} = 1..Cardinality(rows)
      BY TenantNumbers
    <2>2. ASSUME NEW h \in rows
          PROVE  LET previous == IF h.seq = 1 THEN GENESIS_BATCH_HASH
                                 ELSE (CHOOSE g \in rows : g.seq = h.seq - 1).hash
                 IN  h.prev = previous /\ h.hash = BatchHash(previous, LinesById(h))
      <3>1. /\ h \in txns /\ h.tenant = t /\ h \in Header /\ h.seq \in Nat \ {0}
            /\ HashedFrom(h) /\ LinesById(h) = BatchOf(h)
        BY DEF TenantRows, ChainInv, TypeOK, Header, LinesInv, TableLines, BatchOf
      <3>2. h.hash = BatchHash(h.prev, LinesById(h))
        BY <3>1, BatchOfHeader
      <3>3. CASE h.seq = 1
        <4>1. h.prev = GENESIS_BATCH_HASH
          BY <3>1, <3>3 DEF ChainInv, ViewsChained, IsChain
        <4> QED
          BY <3>2, <3>3, <4>1
      <3>4. CASE h.seq # 1
        <4> DEFINE g == CHOOSE x \in rows : x.seq = h.seq - 1
        <4>1. h.seq - 1 \in 1..(h.seq - 1)
          BY <3>1, <3>4
        <4>2. \E x \in rows : x.seq = h.seq - 1
          BY <3>1, <4>1 DEF ChainInv, ViewsChained, IsChain, TenantRows
        <4>3. g \in rows /\ g.seq = h.seq - 1
          BY <4>2
        <4> HIDE DEF g
        <4>4. g \in txns /\ g.tenant = h.tenant /\ h.seq = g.seq + 1
          BY <3>1, <4>3 DEF TenantRows
        <4>5. h.prev = g.hash
          BY <3>1, <4>4 DEF ChainInv, ViewsChained, IsChain
        <4> QED
          BY <3>2, <3>4, <4>5 DEF g
      <3> QED
        BY <3>3, <3>4
    <2> QED
      BY <2>1, <2>2 DEF VerifyLedgerChain, TenantRows
  <1> QED
    BY <1>1, <1>2 DEF LinesVerify

(* A committed header has its committed lines and no others, whoever       *)
(* raced or crashed, and verify_ledger_chain rejects an honest ledger for  *)
(* the order of random entry ids only.                                     *)
THEOREM LinesAlwaysVerify == Spec => []LinesVerify
  BY LinesInvariant, LinesOfTheTable, PTL

-----------------------------------------------------------------------------
(* The ledger implements the exactly-once log.                             *)

(* Position n of a tenant's log is its committed batch number n.           *)
LogOf(t) ==
    /\ Log[t] \in Seq(Promise!Record)
    /\ \A h \in TenantRows(t) :
          /\ h.seq \in 1..Len(Log[t])
          /\ Log[t][h.seq] = [key |-> h.key, batch |-> BatchOf(h)]
    /\ \A n \in 1..Len(Log[t]) : \E h \in TenantRows(t) : h.seq = n

LogIsTable == Log = [t \in Tenants |-> Log[t]] /\ \A t \in Tenants : LogOf(t)

(* The log that users see is what the header table holds.                  *)
LEMMA LogIsRead == ChainInv /\ LinesInv => LogIsTable
  <1> SUFFICES ASSUME ChainInv, LinesInv PROVE LogIsTable
    OBVIOUS
  <1>1. Log = [t \in Tenants |-> Log[t]]
    BY DEF Log
  <1>2. ASSUME NEW t \in Tenants
        PROVE  LogOf(t)
    <2> DEFINE R == TenantRows(t)
               at(n) == CHOOSE g \in R : g.seq = n
    <2>1. PICK N \in Nat : N = Cardinality(R)
      BY TenantNumbers
    <2>2. {h.seq : h \in R} = 1..N /\ \A h, g \in R : h.seq = g.seq => h = g
      BY <2>1, TenantNumbers
    <2>3. Log[t] = [n \in 1..N |-> [key |-> at(n).key, batch |-> at(n).hash[Len(at(n).hash)]]]
      BY <2>1 DEF Log, TenantRows
    <2>4. \A n \in 1..N : at(n) \in R /\ at(n).seq = n
      BY <2>2
    <2>5. \A h \in R : h.seq \in 1..N /\ at(h.seq) = h
      BY <2>2
    <2>6. \A h \in R : h.key \in Keys /\ BatchOf(h) \in Batches
      BY BatchOfHeader DEF TenantRows, ChainInv, TypeOK, Header, LinesInv, TableLines
    <2> HIDE DEF at, R
    <2>7. ASSUME NEW n \in 1..N
          PROVE  Log[t][n] = [key |-> at(n).key, batch |-> BatchOf(at(n))]
      <3>1. PICK g : g = at(n)
        OBVIOUS
      <3>2. Log[t][n] = [key |-> g.key, batch |-> g.hash[Len(g.hash)]]
        BY <2>3, <3>1
      <3> QED
        BY <3>1, <3>2 DEF BatchOf
    <2>8. ASSUME NEW n \in 1..N
          PROVE  Log[t][n] \in Promise!Record
      <3>1. PICK g \in R : g = at(n)
        BY <2>4
      <3>2. PICK b \in Batches : b = BatchOf(g)
        BY <2>6
      <3>3. Log[t][n] = [key |-> g.key, batch |-> b] /\ g.key \in Keys
        BY <2>6, <2>7, <3>1, <3>2
      <3> QED
        BY <3>3 DEF Promise!Record
    <2>9. Log[t] \in Seq(Promise!Record) /\ Len(Log[t]) = N
      <3>1. DOMAIN Log[t] = 1..N /\ Log[t] = [n \in 1..N |-> Log[t][n]]
        BY <2>3
      <3>2. Log[t] \in [1..N -> Promise!Record]
        BY <2>8, <3>1
      <3> QED
        BY <3>2
    <2> QED
      BY <2>4, <2>5, <2>7, <2>9 DEF LogOf, R
  <1> QED
    BY <1>1, <1>2 DEF LogIsTable

(* The same of the next state.                                             *)
LEMMA LogIsReadNext == (ChainInv /\ LinesInv)' => LogIsTable'
  BY LogIsRead, PTL

(* No committed header is removed or rewritten.                            *)
LEMMA RowsAreKept ==
    ASSUME [Next]_vars
    PROVE  txns \subseteq txns'
  <1>1. CASE UNCHANGED vars
    BY <1>1 DEF vars
  <1>2. CASE Next
    BY <1>2 DEF Next, Posting, PostTransaction, PostReplayed, PostRejected,
         NextBatchSequence, LastBatchHash, InsertTransaction, InsertReplayed, InsertRaises,
         EnsureAccount, PostEntries, Commit, DeadlockAbort, Rollback, Abort, tables
  <1> QED
    BY <1>1, <1>2

(* A step of the ledger only appends to the logs.                          *)
LEMMA StepAppends ==
    ASSUME ChainInv, LinesInv, ChainInv', LinesInv', [Next]_vars
    PROVE  Promise!AppendBatches
  <1>1. LogIsTable /\ LogIsTable'
    BY LogIsRead, LogIsReadNext
  <1>2. ASSUME NEW t \in Tenants
        PROVE  TenantRows(t) \subseteq TenantRows(t)'
    BY RowsAreKept DEF TenantRows
  <1>3. Log' \in [Tenants -> Seq(Promise!Record)]
    BY <1>1 DEF LogIsTable, LogOf
  <1>4. ASSUME NEW t \in Tenants
        PROVE  Promise!IsExtension(Log'[t], Log[t])
    <2>1. LogOf(t) /\ LogOf(t)' /\ TenantRows(t) \subseteq TenantRows(t)'
      BY <1>1, <1>2 DEF LogIsTable
    <2>2. PICK l \in Seq(Promise!Record), k \in Seq(Promise!Record) : l = Log[t] /\ k = Log'[t]
      BY <2>1 DEF LogOf
    <2>3. ASSUME NEW n \in 1..Len(l)
          PROVE  n \in 1..Len(k) /\ k[n] = l[n]
      <3>1. PICK h \in TenantRows(t) : h.seq = n
        BY <2>1, <2>2 DEF LogOf
      <3>2. l[n] = [key |-> h.key, batch |-> BatchOf(h)]
        BY <2>1, <2>2, <3>1 DEF LogOf
      <3>3. n \in 1..Len(k) /\ k[n] = [key |-> h.key, batch |-> BatchOf(h)]
        BY <2>1, <2>2, <3>1 DEF LogOf, BatchOf
      <3> QED
        BY <3>2, <3>3
    <2>4. Len(k) >= Len(l)
      <3>1. Len(k) \in Nat /\ Len(l) \in Nat
        OBVIOUS
      <3>2. CASE Len(l) = 0
        BY <3>1, <3>2
      <3>3. CASE Len(l) # 0
        <4>1. Len(l) \in 1..Len(l)
          BY <3>1, <3>3
        <4>2. Len(l) \in 1..Len(k)
          BY <2>3, <4>1
        <4> QED
          BY <3>1, <4>2
      <3> QED
        BY <3>2, <3>3
    <2> QED
      BY <2>2, <2>3, <2>4 DEF Promise!IsExtension
  <1>5. Promise!UsedOnce(Log')
    <2> SUFFICES ASSUME NEW t \in Tenants, NEW u \in Tenants,
                        NEW m \in 1..Len(Log'[t]), NEW n \in 1..Len(Log'[u]),
                        Log'[t][m].key = Log'[u][n].key
                 PROVE  t = u /\ m = n
      BY DEF Promise!UsedOnce
    <2>1. LogOf(t)' /\ LogOf(u)'
      BY <1>1 DEF LogIsTable
    <2>2. PICK h \in TenantRows(t)' : h.seq = m
      BY <2>1 DEF LogOf
    <2>3. PICK g \in TenantRows(u)' : g.seq = n
      BY <2>1 DEF LogOf
    <2>4. Log'[t][m].key = h.key /\ Log'[u][n].key = g.key
      <3>1. Log'[t][m] = [key |-> h.key, batch |-> h.hash[Len(h.hash)]]
        BY <2>1, <2>2 DEF LogOf, BatchOf
      <3>2. Log'[u][n] = [key |-> g.key, batch |-> g.hash[Len(g.hash)]]
        BY <2>1, <2>3 DEF LogOf, BatchOf
      <3> QED
        BY <3>1, <3>2
    <2>5. h \in txns' /\ g \in txns' /\ h.tenant = t /\ g.tenant = u
      BY <2>2, <2>3 DEF TenantRows
    <2>6. h = g
      BY <2>4, <2>5 DEF LinesInv, KeysOnce
    <2> QED
      BY <2>2, <2>3, <2>5, <2>6
  <1> QED
    BY <1>3, <1>4, <1>5 DEF Promise!AppendBatches

(* Every commit appends whole batches to the logs of their tenants, keeps  *)
(* what was there, and uses every idempotency key once.                    *)
THEOREM ImplementsLog == Spec => ImplementsExactlyOnceLog
  <1>1. Init => Promise!Init
    <2> SUFFICES ASSUME Init PROVE Log = [t \in Tenants |-> <<>>]
      BY DEF Promise!Init
    <2>1. LogIsTable
      BY ChainInvInit, LinesInit, LogIsRead
    <2>2. ASSUME NEW t \in Tenants
          PROVE  Log[t] = <<>>
      <3>1. LogOf(t) /\ TenantRows(t) = {}
        BY <2>1 DEF LogIsTable, Init, TenantRows
      <3>2. Log[t] \in Seq(Promise!Record) /\ ~(\E n \in 1..Len(Log[t]) : TRUE)
        BY <3>1 DEF LogOf
      <3>3. Len(Log[t]) \in Nat
        BY <3>2
      <3>4. Len(Log[t]) = 0
        <4>1. CASE Len(Log[t]) # 0
          <5>1. 1 \in 1..Len(Log[t])
            BY <3>3, <4>1
          <5> QED
            BY <3>2, <5>1
        <4> QED
          BY <4>1
      <3> QED
        BY <3>2, <3>4, EmptySeq
    <2> QED
      BY <2>1, <2>2 DEF LogIsTable
  <1>2. /\ ChainInv /\ LinesInv /\ (ChainInv /\ LinesInv)' /\ [Next]_vars
        => [Promise!AppendBatches]_Log
    BY StepAppends
  <1> QED
    BY <1>1, <1>2, LinesInvariant, PTL DEF Spec, ImplementsExactlyOnceLog, Promise!Spec
=============================================================================
