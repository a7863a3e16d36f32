--------------------------- MODULE DeliveryProofs ---------------------------
(***************************************************************************)
(* Proofs about the two modules that deliver events, which share nothing   *)
(* but this file.                                                          *)
(*                                                                         *)
(* EventOutbox, for any number of events and workers and any batch size    *)
(* and retry limit: its invariants, and that it implements                 *)
(* DeliveryPromise.                                                        *)
(*                                                                         *)
(* WebhookDelivery, for any number of sessions, events, replays and        *)
(* attempts: what a stored delivery says is true and leads on, an event is *)
(* sent twice only for one of the reasons recorded, a replay is whole, and *)
(* one alert is open at most.                                              *)
(***************************************************************************)
EXTENDS EventOutbox, WebhookDelivery, FiniteSetTheorems, SequenceTheorems, TLAPS

-----------------------------------------------------------------------------
(* EventOutbox.                                                            *)

(* A card is committed together with its event.                            *)
CardsHaveEvents ==
    \A e \in OutboxEvents : e \in cards <=> status[e] \notin {"absent", "inserted"}

(* A row is locked while it is worked on, by one worker only.              *)
LocksExclude ==
    /\ \A w \in Workers, e \in OutboxEvents : work[w][e] # "free" => status[e] = "pending"
    /\ \A w, v \in Workers, e \in OutboxEvents :
          work[w][e] # "free" /\ work[v][e] # "free" => w = v

(* What is recorded, or about to be, as published is in the stream.        *)
OkIsDelivered ==
    \A e \in OutboxEvents :
        /\ status[e] = "published" => copies[e] > 0
        /\ \A w \in Workers : work[w][e] = "ok" => copies[e] > 0

(* The copies no worker accounts for.                                      *)
CopiesCounted ==
    \A e \in OutboxEvents :
        /\ copies[e] <= 1 + unrecorded[e]
        /\ \/ copies[e] <= unrecorded[e]
           \/ status[e] = "published"
           \/ \E w \in Workers : work[w][e] = "ok"

OutboxInv ==
    /\ OutboxTypeOK
    /\ CardsHaveEvents
    /\ LocksExclude
    /\ OkIsDelivered
    /\ CopiesCounted
    /\ GivenUpWhenExhausted

(* Mutual exclusion of workers, as used by every step of a batch.          *)
LEMMA HolderIsAlone ==
    ASSUME LocksExclude, NEW w \in Workers, NEW v \in Workers, NEW e \in OutboxEvents,
           work[w][e] # "free", v # w
    PROVE  work[v][e] = "free" /\ status[e] = "pending"
  BY DEF LocksExclude

(* The initial state has the invariant ...                                 *)
LEMMA OutboxInitInv == OutboxInit => OutboxInv
  <1> SUFFICES ASSUME OutboxInit PROVE OutboxInv
    OBVIOUS
  <1> USE BoundsAreNaturals
  <1>1. OutboxTypeOK
    BY DEF OutboxInit, OutboxTypeOK, NoWork, Settled
  <1>2. CardsHaveEvents /\ LocksExclude
    BY DEF OutboxInit, CardsHaveEvents, LocksExclude, NoWork
  <1>3. OkIsDelivered /\ CopiesCounted /\ GivenUpWhenExhausted
    BY DEF OutboxInit, OkIsDelivered, CopiesCounted, GivenUpWhenExhausted, NoWork
  <1> QED
    BY <1>1, <1>2, <1>3 DEF OutboxInv

(* ... a request and the end of a backoff keep it ...                      *)
LEMMA CardRequestInv ==
    ASSUME OutboxInv, NEW e \in OutboxEvents, CardRequest(e) \/ BackoffExpires(e)
    PROVE  OutboxInv'
  <1> USE BoundsAreNaturals DEF OutboxInv, Settled
  <1>1. CASE InsertCard(e)
    <2> USE <1>1 DEF InsertCard
    <2>1. OutboxTypeOK'
      BY DEF OutboxTypeOK
    <2>2. CardsHaveEvents' /\ LocksExclude'
      BY DEF OutboxTypeOK, CardsHaveEvents, LocksExclude
    <2>3. OkIsDelivered' /\ CopiesCounted' /\ GivenUpWhenExhausted'
      BY DEF OutboxTypeOK, OkIsDelivered, CopiesCounted, GivenUpWhenExhausted
    <2> QED BY <2>1, <2>2, <2>3
  <1>2. CASE CommitCard(e)
    <2> USE <1>2 DEF CommitCard
    <2>1. OutboxTypeOK'
      BY DEF OutboxTypeOK
    <2>2. CardsHaveEvents' /\ LocksExclude'
      BY DEF OutboxTypeOK, CardsHaveEvents, LocksExclude
    <2>3. OkIsDelivered' /\ CopiesCounted' /\ GivenUpWhenExhausted'
      BY DEF OutboxTypeOK, OkIsDelivered, CopiesCounted, GivenUpWhenExhausted
    <2> QED BY <2>1, <2>2, <2>3
  <1>3. CASE RollbackCard(e)
    <2> USE <1>3 DEF RollbackCard
    <2>1. OutboxTypeOK'
      BY DEF OutboxTypeOK
    <2>2. CardsHaveEvents' /\ LocksExclude'
      BY DEF OutboxTypeOK, CardsHaveEvents, LocksExclude
    <2>3. OkIsDelivered' /\ CopiesCounted' /\ GivenUpWhenExhausted'
      BY DEF OutboxTypeOK, OkIsDelivered, CopiesCounted, GivenUpWhenExhausted
    <2> QED BY <2>1, <2>2, <2>3
  <1>4. CASE InsertRefused(e)
    BY <1>4 DEF InsertRefused, outboxVars, OutboxTypeOK, CardsHaveEvents, LocksExclude,
                OkIsDelivered, CopiesCounted, GivenUpWhenExhausted
  <1>5. CASE BackoffExpires(e)
    BY <1>5 DEF BackoffExpires, OutboxTypeOK, CardsHaveEvents, LocksExclude,
                OkIsDelivered, CopiesCounted, GivenUpWhenExhausted
  <1> QED
    BY <1>1, <1>2, <1>3, <1>4, <1>5 DEF CardRequest

(* ... so does the fetching of a batch: it takes no row another worker has ...*)
LEMMA FetchBatchInv ==
    ASSUME OutboxInv, NEW w \in Workers, FetchBatch(w) \/ FetchNothing(w)
    PROVE  OutboxInv'
  <1> USE DEF OutboxInv
  <1>1. CASE FetchBatch(w)
    <2>1. PICK S \in SUBSET OutboxEvents :
             /\ IsBatch(S)
             /\ work' = [work EXCEPT ![w] =
                           [e \in OutboxEvents |-> IF e \in S THEN "todo" ELSE "free"]]
      BY <1>1 DEF FetchBatch
    <2>2. UNCHANGED <<cards, outboxRows, copies, clock, crashes, unrecorded>>
      BY <1>1 DEF FetchBatch
    <2>3. \A e \in S : status[e] = "pending" /\ \A v \in Workers : work[v][e] = "free"
      BY <2>1 DEF IsBatch, Fetchable, Locked
    <2>4. OutboxTypeOK' /\ CardsHaveEvents' /\ GivenUpWhenExhausted'
      BY <2>1, <2>2 DEF OutboxTypeOK, CardsHaveEvents, GivenUpWhenExhausted, outboxRows
    <2>5. \A v \in Workers, e \in OutboxEvents :
             work'[v][e] = IF v = w THEN (IF e \in S THEN "todo" ELSE "free")
                           ELSE work[v][e]
      BY <2>1 DEF OutboxTypeOK
    <2>6. LocksExclude'
      BY <2>2, <2>3, <2>5 DEF LocksExclude, outboxRows
    <2>7. \A e \in OutboxEvents : work[w][e] = "free"
      BY <1>1 DEF FetchBatch, NoWork
    <2>8. OkIsDelivered' /\ CopiesCounted'
      BY <2>2, <2>5, <2>7 DEF OkIsDelivered, CopiesCounted, outboxRows
    <2> QED
      BY <2>4, <2>6, <2>8
  <1>2. CASE FetchNothing(w)
    BY <1>2 DEF FetchNothing, outboxVars, OutboxTypeOK, CardsHaveEvents, LocksExclude,
                OkIsDelivered, CopiesCounted, GivenUpWhenExhausted
  <1> QED
    BY <1>1, <1>2

(* ... an attempt to publish, however it ends ...                          *)
LEMMA PublishAttemptInv ==
    ASSUME OutboxInv, NEW w \in Workers, NEW e \in OutboxEvents, PublishAttempt(w, e)
    PROVE  OutboxInv'
  <1> USE DEF OutboxInv
  <1>1. work[w][e] = "todo" /\ UNCHANGED <<cards, outboxRows>>
    BY DEF PublishAttempt, Publish, PublishFails, AnswerLost, IsNext
  <1>2. PICK result \in {"ok", "error"} :
           /\ work' = [work EXCEPT ![w][e] = result]
           /\ \/ /\ result = "ok"
                 /\ copies' = [copies EXCEPT ![e] = @ + 1]
                 /\ unrecorded' = unrecorded
              \/ /\ result = "error"
                 /\ copies' = copies
                 /\ unrecorded' = unrecorded
              \/ /\ result = "error"
                 /\ copies' = [copies EXCEPT ![e] = @ + 1]
                 /\ unrecorded' = [unrecorded EXCEPT ![e] = @ + 1]
    BY DEF PublishAttempt, Publish, PublishFails, AnswerLost
  <1>3. clock' = clock /\ crashes' = crashes
    BY DEF PublishAttempt, Publish, PublishFails, AnswerLost
  <1>4. \A v \in Workers, f \in OutboxEvents :
           work'[v][f] = IF v = w /\ f = e THEN result ELSE work[v][f]
    BY <1>2 DEF OutboxTypeOK
  <1>5. OutboxTypeOK' /\ CardsHaveEvents' /\ GivenUpWhenExhausted'
    <2>1. work' \in [Workers -> [OutboxEvents -> {"free", "todo", "ok", "error"}]]
      BY <1>2 DEF OutboxTypeOK
    <2>2. copies' \in [OutboxEvents -> Nat] /\ unrecorded' \in [OutboxEvents -> Nat]
      BY <1>2 DEF OutboxTypeOK
    <2>3. OutboxTypeOK'
      BY <1>1, <1>3, <2>1, <2>2 DEF OutboxTypeOK, outboxRows
    <2> QED
      BY <1>1, <2>3 DEF CardsHaveEvents, GivenUpWhenExhausted, outboxRows
  <1>6. LocksExclude'
    BY <1>1, <1>4 DEF LocksExclude, outboxRows
  <1>7. status[e] = "pending" /\ \A v \in Workers : work[v][e] # "ok"
    BY <1>1, HolderIsAlone DEF LocksExclude
  <1>8. OkIsDelivered'
    BY <1>1, <1>2, <1>4, <1>7 DEF OkIsDelivered, OutboxTypeOK, outboxRows
  <1>9. CopiesCounted'
    <2> SUFFICES ASSUME NEW f \in OutboxEvents
                 PROVE  /\ copies'[f] <= 1 + unrecorded'[f]
                        /\ \/ copies'[f] <= unrecorded'[f]
                           \/ status'[f] = "published"
                           \/ \E v \in Workers : work'[v][f] = "ok"
      BY DEF CopiesCounted
    <2>1. CASE f = e
      <3>1. copies[e] <= unrecorded[e] /\ copies[e] \in Nat /\ unrecorded[e] \in Nat
        BY <1>7 DEF CopiesCounted, OutboxTypeOK
      <3>2. result = "ok" => work'[w][e] = "ok"
        BY <1>4
      <3> QED
        BY <1>2, <2>1, <3>1, <3>2 DEF OutboxTypeOK
    <2>2. CASE f # e
      <3>1. copies'[f] = copies[f] /\ unrecorded'[f] = unrecorded[f]
        BY <1>2, <2>2 DEF OutboxTypeOK
      <3>2. \A v \in Workers : work'[v][f] = work[v][f]
        BY <1>4, <2>2
      <3> QED
        BY <1>1, <3>1, <3>2 DEF CopiesCounted, outboxRows
    <2> QED
      BY <2>1, <2>2
  <1> QED
    BY <1>5, <1>6, <1>8, <1>9

(* ... the commit of a batch: what it settles is locked by it alone ...    *)
LEMMA CommitBatchInv ==
    ASSUME OutboxInv, NEW w \in Workers, CommitBatch(w)
    PROVE  OutboxInv'
  <1> USE BoundsAreNaturals DEF OutboxInv
  <1>1. \A v \in Workers, e \in OutboxEvents :
           work'[v][e] = IF v = w THEN "free" ELSE work[v][e]
    BY DEF CommitBatch, OutboxTypeOK, NoWork
  <1>2. \A e \in OutboxEvents : work[w][e] \in {"free", "ok", "error"}
    BY DEF CommitBatch, OutboxTypeOK
  <1>3. \A e \in OutboxEvents :
           /\ work[w][e] = "free" => status'[e] = status[e] /\ retries'[e] = retries[e]
           /\ work[w][e] = "ok" => status'[e] = "published" /\ retries'[e] = retries[e]
           /\ work[w][e] = "error" =>
                 /\ retries'[e] = retries[e] + 1
                 /\ status'[e] = IF retries[e] + 1 > MaxRetries THEN "failed"
                                 ELSE "pending"
    BY <1>2 DEF CommitBatch, NewStatus, GivesUp
  <1>4. \A e \in OutboxEvents : work[w][e] # "free" =>
           status[e] = "pending" /\ retries[e] \in 0..MaxRetries
    BY DEF LocksExclude, GivenUpWhenExhausted, OutboxTypeOK
  <1>5. UNCHANGED <<cards, stamp, copies, clock, crashes, unrecorded>>
    BY DEF CommitBatch
  <1>6. OutboxTypeOK'
    <2>1. status' \in [OutboxEvents -> {"absent", "inserted", "pending"} \cup Settled]
      BY <1>2, <1>3 DEF CommitBatch, OutboxTypeOK, Settled
    <2>2. retries' \in [OutboxEvents -> 0..(MaxRetries + 1)]
      BY <1>2, <1>3, <1>4 DEF CommitBatch, OutboxTypeOK
    <2>3. due' \in [OutboxEvents -> BOOLEAN]
      BY DEF CommitBatch, OutboxTypeOK
    <2>4. work' \in [Workers -> [OutboxEvents -> {"free", "todo", "ok", "error"}]]
      BY DEF CommitBatch, OutboxTypeOK, NoWork
    <2> QED
      BY <1>5, <2>1, <2>2, <2>3, <2>4 DEF OutboxTypeOK
  <1>7. CardsHaveEvents'
    BY <1>2, <1>3, <1>4, <1>5 DEF CardsHaveEvents
  <1>8. LocksExclude'
    <2>1. ASSUME NEW v \in Workers, NEW e \in OutboxEvents, work'[v][e] # "free"
          PROVE  status'[e] = "pending"
      <3>1. v # w /\ work[v][e] # "free"
        BY <1>1, <2>1
      <3>2. work[w][e] = "free"
        BY <3>1 DEF LocksExclude
      <3> QED
        BY <1>3, <3>1, <3>2 DEF LocksExclude
    <2> QED
      BY <1>1, <2>1 DEF LocksExclude
  <1>9. OkIsDelivered'
    BY <1>1, <1>2, <1>3, <1>5 DEF OkIsDelivered
  <1>10. CopiesCounted'
    BY <1>1, <1>2, <1>3, <1>4, <1>5 DEF CopiesCounted
  <1>11. GivenUpWhenExhausted'
    BY <1>2, <1>3, <1>4 DEF GivenUpWhenExhausted, OutboxTypeOK
  <1> QED
    BY <1>6, <1>7, <1>8, <1>9, <1>10, <1>11

(* ... and the loss of a batch: its deliveries become unrecorded ones.     *)
LEMMA LoseBatchInv ==
    ASSUME OutboxInv, NEW w \in Workers, LoseBatch(w)
    PROVE  OutboxInv'
  <1> USE DEF OutboxInv
  <1>1. \A v \in Workers, e \in OutboxEvents :
           work'[v][e] = IF v = w THEN "free" ELSE work[v][e]
    BY DEF LoseBatch, OutboxTypeOK, NoWork
  <1>2. UNCHANGED <<cards, outboxRows, copies, clock>>
    BY DEF LoseBatch
  <1>3. \A e \in OutboxEvents :
           unrecorded'[e] = IF work[w][e] = "ok" THEN unrecorded[e] + 1 ELSE unrecorded[e]
    BY DEF LoseBatch
  <1>4. OutboxTypeOK'
    BY <1>2 DEF LoseBatch, OutboxTypeOK, NoWork, outboxRows
  <1>5. CardsHaveEvents' /\ GivenUpWhenExhausted'
    BY <1>2 DEF CardsHaveEvents, GivenUpWhenExhausted, outboxRows
  <1>6. LocksExclude'
    BY <1>1, <1>2 DEF LocksExclude, outboxRows
  <1>7. OkIsDelivered'
    BY <1>1, <1>2 DEF OkIsDelivered, outboxRows
  <1>8. CopiesCounted'
    BY <1>1, <1>2, <1>3 DEF CopiesCounted, OutboxTypeOK, outboxRows
  <1> QED
    BY <1>4, <1>5, <1>6, <1>7, <1>8

(* Hence every step keeps the invariant.                                   *)
LEMMA OutboxNextInv == OutboxInv /\ [OutboxNext]_outboxVars => OutboxInv'
  <1> SUFFICES ASSUME OutboxInv, [OutboxNext]_outboxVars PROVE OutboxInv'
    OBVIOUS
  <1>1. CASE UNCHANGED outboxVars
    BY <1>1 DEF OutboxInv, outboxVars, OutboxTypeOK, CardsHaveEvents, LocksExclude, OkIsDelivered,
                CopiesCounted, GivenUpWhenExhausted
  <1>2. ASSUME NEW e \in OutboxEvents, CardRequest(e) \/ BackoffExpires(e) PROVE OutboxInv'
    BY <1>2, CardRequestInv
  <1>3. ASSUME NEW w \in Workers, RunOnce(w) \/ LoseBatch(w) PROVE OutboxInv'
    BY <1>3, FetchBatchInv, PublishAttemptInv, CommitBatchInv, LoseBatchInv DEF RunOnce
  <1> QED
    BY <1>1, <1>2, <1>3 DEF OutboxNext

(* The invariant of the outbox holds in every reachable state.             *)
THEOREM OutboxInvariant == OutboxSpec => []OutboxInv
  BY OutboxInitInv, OutboxNextInv, PTL DEF OutboxSpec

(* Rows, counters and locks keep their types; no event is tried more often *)
(* than MAX_RETRIES + 1 times with a recorded failure.                     *)
THEOREM OutboxTypeCorrect == OutboxSpec => []OutboxTypeOK
  <1>1. OutboxInv => OutboxTypeOK
    BY DEF OutboxInv
  <1> QED
    BY OutboxInvariant, <1>1, PTL

(* However many workers there are, whatever the stream holds beyond one    *)
(* copy of an event is owed to a lost batch or a lost answer.              *)
THEOREM DuplicatesExplained == OutboxSpec => []DuplicatesAreUnrecorded
  <1>1. OutboxInv => DuplicatesAreUnrecorded
    BY DEF OutboxInv, CopiesCounted, DuplicatesAreUnrecorded
  <1> QED
    BY OutboxInvariant, <1>1, PTL

(* For any number of workers and any MAX_RETRIES, _process_event gives an  *)
(* event up after MAX_RETRIES + 1 recorded failures, no sooner or later.   *)
THEOREM GivenUpExactly == OutboxSpec => []GivenUpWhenExhausted
  <1>1. OutboxInv => GivenUpWhenExhausted
    BY DEF OutboxInv
  <1> QED
    BY <1>1, OutboxInvariant, PTL

-----------------------------------------------------------------------------
(* Every step of the outbox is a step of DeliveryPromise or a stutter.     *)
LEMMA StepKeepsPromise ==
    ASSUME OutboxInv, [OutboxNext]_outboxVars
    PROVE  [Promise!Next]_(Promise!vars)
  <1> DEFINE Pub == {x \in OutboxEvents : status[x] = "published"}
             Ab  == {x \in OutboxEvents : status[x] = "failed"}
             Del == {x \in OutboxEvents : copies[x] > 0}
  <1> USE DEF OutboxInv
  <1>0. ASSUME cards' = cards, status' = status, copies' = copies
        PROVE  UNCHANGED Promise!vars
    BY <1>0 DEF Promise!vars
  <1>1. CASE UNCHANGED outboxVars
    BY <1>0, <1>1 DEF outboxVars
  <1>2. ASSUME NEW e \in OutboxEvents, CardRequest(e) \/ BackoffExpires(e)
        PROVE  [Promise!Next]_(Promise!vars)
    <2>1. CASE CommitCard(e)
      <3>1. e \notin cards
        BY <2>1 DEF CommitCard, CardsHaveEvents
      <3>2. Pub' = Pub /\ Ab' = Ab /\ Del' = Del /\ cards' = cards \cup {e}
        BY <2>1 DEF CommitCard, OutboxTypeOK
      <3>3. Promise!Accept(e)
        BY <3>1, <3>2 DEF Promise!Accept
      <3> QED
        BY <3>3 DEF Promise!Next
    <2>2. CASE InsertCard(e) \/ RollbackCard(e)
      <3>1. Pub' = Pub /\ Ab' = Ab /\ Del' = Del /\ cards' = cards
        BY <2>2 DEF InsertCard, RollbackCard, OutboxTypeOK
      <3> QED
        BY <3>1 DEF Promise!vars
    <2>3. CASE InsertRefused(e) \/ BackoffExpires(e)
      BY <1>0, <2>3 DEF InsertRefused, BackoffExpires, outboxVars
    <2> QED
      BY <1>2, <2>1, <2>2, <2>3 DEF CardRequest
  <1>3. ASSUME NEW w \in Workers, RunOnce(w) \/ LoseBatch(w)
        PROVE  [Promise!Next]_(Promise!vars)
    <2>1. CASE FetchBatch(w) \/ FetchNothing(w) \/ LoseBatch(w)
      BY <1>0, <2>1 DEF FetchBatch, FetchNothing, LoseBatch, outboxRows, outboxVars
    <2>2. ASSUME NEW e \in OutboxEvents, PublishAttempt(w, e)
          PROVE  [Promise!Next]_(Promise!vars)
      <3>1. cards' = cards /\ status' = status /\ work[w][e] = "todo"
        BY <2>2 DEF PublishAttempt, Publish, PublishFails, AnswerLost, outboxRows, IsNext
      <3>2. CASE copies' = copies
        BY <1>0, <3>1, <3>2
      <3>3. CASE copies' = [copies EXCEPT ![e] = @ + 1]
        <4>1. Del' = Del \cup {e}
          BY <3>3 DEF OutboxTypeOK
        <4>2. status[e] = "pending" /\ e \in cards
          BY <3>1 DEF LocksExclude, CardsHaveEvents
        <4>3. Promise!Deliver(e)
          BY <3>1, <4>1, <4>2 DEF Promise!Deliver, Promise!Open
        <4> QED
          BY <4>3 DEF Promise!Next
      <3> QED
        BY <2>2, <3>2, <3>3 DEF PublishAttempt, Publish, PublishFails, AnswerLost
    <2>3. CASE CommitBatch(w)
      <3> DEFINE P == {x \in OutboxEvents : work[w][x] = "ok"}
                 A == {x \in OutboxEvents : work[w][x] = "error" /\ GivesUp(retries[x] + 1)}
      <3>1. \A x \in P \cup A : x \in cards /\ status[x] = "pending"
        BY DEF LocksExclude, CardsHaveEvents
      <3>2. P \subseteq Del
        BY DEF OkIsDelivered
      <3>3. cards' = cards /\ Del' = Del
        BY <2>3 DEF CommitBatch
      <3>4. \A x \in OutboxEvents : work[w][x] \in {"free", "ok", "error"}
        BY <2>3 DEF CommitBatch, OutboxTypeOK
      <3>5. \A x \in OutboxEvents : status'[x] = NewStatus(x, work[w][x])
        BY <2>3 DEF CommitBatch
      <3>6. Pub' = Pub \cup P
        <4>1. \A x \in OutboxEvents :
                 status'[x] = "published" <=> status[x] = "published" \/ x \in P
          BY <3>1, <3>4, <3>5 DEF NewStatus, LocksExclude
        <4> QED
          BY <4>1
      <3>7. Ab' = Ab \cup A
        <4>1. \A x \in OutboxEvents :
                 status'[x] = "failed" <=> status[x] = "failed" \/ x \in A
          BY <3>1, <3>4, <3>5 DEF NewStatus, LocksExclude
        <4> QED
          BY <4>1
      <3>8. Promise!Settle(P, A)
        BY <3>1, <3>2, <3>3, <3>6, <3>7 DEF Promise!Settle, Promise!Open
      <3>9. P \in SUBSET OutboxEvents /\ A \in SUBSET OutboxEvents
        OBVIOUS
      <3> HIDE DEF P, A
      <3>10. \E p, a \in SUBSET OutboxEvents : Promise!Settle(p, a)
        BY <3>8, <3>9 DEF Promise!Settle
      <3> QED
        BY <3>10 DEF Promise!Next
    <2> QED
      BY <1>3, <2>1, <2>2, <2>3 DEF RunOnce
  <1> QED
    BY <1>1, <1>2, <1>3 DEF OutboxNext

(* The outbox implements DeliveryPromise: nothing is delivered for a       *)
(* request that was rolled back, nothing is marked published that is not   *)
(* in the stream, and nothing that is settled is touched again.            *)
THEOREM ImplementsPromise == OutboxSpec => KeepsDeliveryPromise
  <1>1. OutboxInit => Promise!Init
    BY DEF OutboxInit, Promise!Init
  <1>2. OutboxInv /\ [OutboxNext]_outboxVars => [Promise!Next]_(Promise!vars)
    BY StepKeepsPromise
  <1> QED
    BY <1>1, <1>2, OutboxInvariant, PTL DEF OutboxSpec, KeepsDeliveryPromise, Promise!Spec

-----------------------------------------------------------------------------
(* WebhookDelivery.                                                        *)

-----------------------------------------------------------------------------
(* The inductive invariant.                                                *)

RowTypes ==
    [status : {"none", "PENDING", "PAUSED", "DELIVERED", "FAILED", "DEAD"},
     attempt : Nat, retry : Retries]

JobTypes ==
    [pc : Pcs, cur : Deliveries \cup {NoDelivery}, todo : SUBSET Deliveries,
     rows : [Deliveries -> RowTypes], paused : BOOLEAN, active : BOOLEAN,
     replay : 0..MaxReplays, alerts : SUBSET (1..MaxCommands)]

(* A session that has sent, or found the endpoint closed, and not recorded *)
(* it yet.                                                                 *)
Sent == {"disabled", "paused", "ok", "error"}

(* Types, those of what a session has loaded included.                     *)
TypeInv ==
    /\ TypeOK
    /\ replays \in Seq(SUBSET Deliveries) /\ Len(replays) <= MaxReplays
    /\ job \in [Sessions -> JobTypes]
    /\ begun \in Nat

(* What the pc of a job says about the rest of it.                         *)
JobShape(j) ==
    /\ j.pc \in Sent \cup {"enqueue", "retry"} => j.cur \in Deliveries
    /\ j.pc = "copy" <=> j.replay # 0
    /\ j.pc = "copy" => j.replay <= Len(replays) /\ j.todo = replays[j.replay]

JobInv == \A s \in Sessions : JobShape(job[s])

(* Job j has the delivery d in hand to be sent, or to be recorded.         *)
Carries(j, d) ==
    \/ j.pc \in Sent \cup {"work"} /\ d \in j.todo
    \/ j.pc \in Sent /\ d = j.cur

(* A row is stored before it is carried, queued, or repeated, and not      *)
(* before it is inserted.                                                  *)
StoreInv ==
    /\ \A d \in Deliveries : rows[d].status = "none" => rows[d] = NoRow
    /\ \A d \in Deliveries : tasks[d] > 0 => rows[d] # NoRow
    /\ \A s \in Sessions, d \in Deliveries : Carries(job[s], d) => rows[d] # NoRow
    /\ \A s \in Sessions : job[s].pc = "retry" => rows[job[s].cur] # NoRow
    /\ \A s \in Sessions :
          job[s].pc = "enqueue" => rows[job[s].cur] = NoRow /\ job[s].cur[2] = 0
    /\ \A s, t \in Sessions :
          job[s].pc = "enqueue" /\ job[t].pc = "enqueue" /\ job[s].cur = job[t].cur => s = t

(* What a stored row says is true and leads on.                            *)
RowOK(d) ==
    rows[d] # NoRow =>
        /\ rows[d].status = "DELIVERED" => received[EventOf(d)] > 0
        /\ rows[d].status = "PAUSED" => endpoint.paused \/ d \in stale
        /\ rows[d].status \in {"PENDING", "FAILED"} => rows[d].retry # "none" \/ d \in gaveUp \cup mixed

(* What is about to be stored as delivered has been received.              *)
RowInv ==
    /\ \A d \in Deliveries : RowOK(d)
    /\ \A s \in Sessions : job[s].pc = "ok" => received[EventOf(job[s].cur)] > 0

(* An event that is not excused has one delivery, which one session at     *)
(* most carries, and once.                                                 *)
AloneInv ==
    \A e \in Events \ excused :
        /\ \A r \in (0..MaxReplays) \ {0} : rows[<<e, r>>] = NoRow
        /\ \A s, t \in Sessions :
              Carries(job[s], <<e, 0>>) /\ Carries(job[t], <<e, 0>>) => s = t
        /\ \A s \in Sessions :
              Carries(job[s], <<e, 0>>) => job[s].rows[<<e, 0>>].status # "DELIVERED"
        /\ \A s \in Sessions :
              job[s].pc \in Sent /\ job[s].cur = <<e, 0>> => <<e, 0>> \notin job[s].todo

(* Once it is received, it is stored as delivered or about to be, and      *)
(* nobody else carries it.                                                 *)
OnceInv ==
    \A e \in Events \ excused :
        /\ received[e] <= 1
        /\ received[e] = 1 =>
              /\ \/ rows[<<e, 0>>].status = "DELIVERED"
                 \/ \E s \in Sessions : job[s].pc = "ok" /\ job[s].cur = <<e, 0>>
              /\ \A s \in Sessions :
                    Carries(job[s], <<e, 0>>) => job[s].pc = "ok" /\ job[s].cur = <<e, 0>>

IInv ==
    TypeInv /\ JobInv /\ StoreInv /\ RowInv /\ AloneInv /\ OnceInv /\ ReplayIsWhole /\ OneOpenAlert

-----------------------------------------------------------------------------
(* Deliveries, jobs and rows.                                              *)

(* A delivery is an event and the number of the replay it is of.           *)
LEMMA DeliveryIsPair ==
    /\ \A d \in Deliveries : /\ EventOf(d) \in Events /\ d[2] \in 0..MaxReplays
                             /\ d = <<EventOf(d), d[2]>>
    /\ \A e \in Events, r \in 0..MaxReplays :
          <<e, r>> \in Deliveries /\ EventOf(<<e, r>>) = e
    /\ \A e \in Events : <<e, 0>> \in Deliveries /\ EventOf(<<e, 0>>) = e
BY LimitsAreNaturals DEF LimitsAreNaturals, Deliveries, EventOf

(* The type of a delivery that is not stored.                              *)
LEMMA NoRowType == NoRow \in RowTypes /\ NoRow.status = "none" /\ NoRow.retry = "none"
BY DEF NoRow, RowTypes, Retries

(* A session that does nothing carries nothing.                            *)
LEMMA IdleType ==
    /\ Idle \in JobTypes
    /\ Idle.pc = "idle" /\ Idle.replay = 0 /\ Idle.todo = {}
    /\ \A d \in Deliveries : ~Carries(Idle, d)
BY NoRowType, LimitsAreNaturals DEF LimitsAreNaturals, Idle, JobTypes, Nothing, Pcs, Carries, Sent

(* Loaded rows are as stored.                                              *)
LEMMA LoadedType ==
    ASSUME TypeInv, NEW S
    PROVE  /\ Loaded(S) \in [Deliveries -> RowTypes]
           /\ \A d \in Deliveries : d \in S => Loaded(S)[d] = rows[d]
BY NoRowType DEF TypeInv, TypeOK, Loaded, RowTypes

(* What a session makes of a row: never an unsaved one, DELIVERED only     *)
(* after an answer, and FAILED with a time to retry unless the endpoint    *)
(* was disabled.                                                           *)
LEMMA ResultType ==
    ASSUME NEW pc \in Sent, NEW old \in RowTypes
    PROVE  /\ Result(pc, old) \in RowTypes
           /\ Result(pc, old).status \notin {"none", "PENDING"}
           /\ Result(pc, old).status = "DELIVERED" <=> pc = "ok"
           /\ Result(pc, old).status = "PAUSED" <=> pc = "paused"
           /\ Result(pc, old).status = "FAILED" =>
                 Result(pc, old).retry # "none" \/ pc = "disabled"
<1> DEFINE n == old.attempt + 1
<1>1. n \in Nat /\ old.attempt \in Nat
  BY DEF RowTypes
<1>2. NextRetry(n) \in {"none", "later"}
  BY DEF NextRetry
<1> HIDE DEF n
<1>3. CASE pc = "disabled"
  <2>1. Result(pc, old) = [old EXCEPT !.attempt = n, !.status = "FAILED", !.retry = NextRetry(n)]
    BY <1>3 DEF Result, n
  <2>2. QED
    BY <1>1, <1>2, <1>3, <2>1 DEF RowTypes, Retries
<1>4. CASE pc = "paused"
  <2>1. Result(pc, old) = [old EXCEPT !.status = "PAUSED", !.retry = "none"]
    BY <1>4 DEF Result
  <2>2. QED
    BY <1>4, <2>1 DEF RowTypes, Retries
<1>5. CASE pc = "ok"
  <2>1. Result(pc, old) = [old EXCEPT !.attempt = n, !.status = "DELIVERED", !.retry = "none"]
    BY <1>5 DEF Result, n
  <2>2. QED
    BY <1>1, <1>5, <2>1 DEF RowTypes, Retries
<1>6. CASE pc = "error" /\ NextRetry(n) = "none"
  <2>1. Result(pc, old) = [old EXCEPT !.attempt = n, !.status = "DEAD"]
    BY <1>6 DEF Result, n
  <2>2. QED
    BY <1>1, <1>6, <2>1 DEF RowTypes, Retries
<1>7. CASE pc = "error" /\ NextRetry(n) # "none"
  <2>1. Result(pc, old) = [old EXCEPT !.attempt = n, !.status = "FAILED", !.retry = "later"]
    BY <1>7 DEF Result, n
  <2>2. QED
    BY <1>1, <1>7, <2>1 DEF RowTypes, Retries
<1>8. QED
  BY <1>3, <1>4, <1>5, <1>6, <1>7 DEF Sent

(* An UPDATE writes a column or leaves it.                                 *)
LEMMA WrittenType ==
    ASSUME TypeInv, NEW d \in Deliveries, NEW old \in RowTypes, NEW new \in RowTypes
    PROVE  /\ Written(d, old, new) \in RowTypes
           /\ Written(d, old, new).status =
                 IF new.status = old.status THEN rows[d].status ELSE new.status
<1>1. rows[d] \in RowTypes
  BY DEF TypeInv, TypeOK, RowTypes
<1>2. QED
  BY <1>1 DEF Written, RowTypes

(* The row of a new delivery waits, or is paused with its endpoint.        *)
LEMMA NewRowType ==
    ASSUME NEW j \in JobTypes
    PROVE  /\ NewRow(j) \in RowTypes
           /\ NewRow(j).status = IF j.paused THEN "PAUSED" ELSE "PENDING"
           /\ NewRow(j).retry = IF j.paused THEN "none" ELSE "due"
           /\ NewRow(j) # NoRow
BY DEF NewRow, NoRow, RowTypes, Retries, JobTypes

(* A session that does nothing fits.                                       *)
LEMMA IdleShape == JobShape(Idle)
BY DEF Idle, JobShape, Sent

(* A step that gives session s the job j.                                  *)
LEMMA JobKept ==
    ASSUME TypeInv, JobInv, NEW s \in Sessions, NEW j \in JobTypes, Become(s, j),
           JobShape(j), replays' = replays
    PROVE  /\ job' \in [Sessions -> JobTypes]
           /\ job'[s] = j
           /\ \A t \in Sessions \ {s} : job'[t] = job[t]
           /\ JobInv'
<1>1. /\ job' \in [Sessions -> JobTypes]
      /\ job'[s] = j
      /\ \A t \in Sessions \ {s} : job'[t] = job[t]
  BY DEF TypeInv, Become
<1>2. ASSUME NEW t \in Sessions
      PROVE  JobShape(job[t])'
  <2>1. JobShape(job[t]) /\ JobShape(j)
    BY DEF JobInv
  <2>2. job'[t] = job[t] \/ job'[t] = j
    BY <1>1
  <2>3. QED
    BY <2>1, <2>2 DEF JobShape
<1>3. QED
  BY <1>1, <1>2 DEF JobInv

(* What loaded, attempted and recorded deliveries make of a job.           *)
LEMMA WorkJob ==
    ASSUME TypeInv, NEW S \in SUBSET Deliveries
    PROVE  LET j == [Idle EXCEPT !.pc = "work", !.todo = S, !.rows = Loaded(S)]
           IN  j \in JobTypes /\ JobShape(j) /\ j.pc = "work" /\ j.todo = S /\ j.rows = Loaded(S)
BY IdleType, LoadedType DEF JobTypes, JobShape, Idle, Sent, Pcs

(* The job of a task that has recorded an answer.                          *)
LEMMA RecordJob ==
    ASSUME NEW j \in JobTypes, JobShape(j), j.pc \in Sent, NEW d \in Deliveries
    PROVE  LET k == [j EXCEPT !.pc = "work", !.cur = NoDelivery, !.rows[d] = NoRow]
           IN  /\ k \in JobTypes /\ JobShape(k) /\ k.pc = "work" /\ k.todo = j.todo
               /\ \A f \in Deliveries : f # d => k.rows[f] = j.rows[f]
<1> DEFINE R == [j.rows EXCEPT ![d] = NoRow]
           k == [j EXCEPT !.pc = "work", !.cur = NoDelivery, !.rows[d] = NoRow]
<1>1. j.rows \in [Deliveries -> RowTypes] /\ j.replay = 0
  BY DEF JobTypes, JobShape, Sent
<1>2. R \in [Deliveries -> RowTypes] /\ \A f \in Deliveries : f # d => R[f] = j.rows[f]
  BY <1>1, NoRowType
<1>3. k = [j EXCEPT !.pc = "work", !.cur = NoDelivery, !.rows = R]
  BY DEF JobTypes
<1> HIDE DEF R
<1>4. QED
  BY <1>1, <1>2, <1>3 DEF JobTypes, JobShape, Sent, Pcs

-----------------------------------------------------------------------------
(* What a step that gives session s the job j must show of each part of    *)
(* the invariant.                                                          *)

(* A step of s keeps StoreInv if what s carries afterwards is stored.      *)
LEMMA StoreKept ==
    ASSUME JobInv, StoreInv, NEW s \in Sessions, NEW j, job'[s] = j,
           \A t \in Sessions \ {s} : job'[t] = job[t],
           \A d \in Deliveries : rows'[d].status = "none" => rows'[d] = NoRow,
           \A d \in Deliveries : rows[d] # NoRow => rows'[d] # NoRow,
           \A d \in Deliveries : tasks'[d] > 0 => rows'[d] # NoRow,
           \A d \in Deliveries : Carries(j, d) => rows'[d] # NoRow,
           j.pc = "retry" => rows'[j.cur] # NoRow,
           j.pc = "enqueue" => /\ rows'[j.cur] = NoRow /\ j.cur[2] = 0
                               /\ \A t \in Sessions \ {s} : job[t].cur # j.cur,
           \A t \in Sessions \ {s} : job[t].pc = "enqueue" => rows'[job[t].cur] = NoRow
    PROVE  StoreInv'
<1>1. \A t \in Sessions, d \in Deliveries : Carries(job'[t], d) => rows'[d] # NoRow
  BY DEF StoreInv
<1>2. ASSUME NEW t \in Sessions, job'[t].pc = "retry"
      PROVE  rows'[job'[t].cur] # NoRow
  <2>1. CASE t = s
    BY <1>2, <2>1
  <2>2. CASE t # s
    <3>1. job[t].pc = "retry" /\ job'[t] = job[t]
      BY <1>2, <2>2
    <3>2. job[t].cur \in Deliveries
      BY <3>1 DEF JobInv, JobShape
    <3>3. QED
      BY <3>1, <3>2 DEF StoreInv
  <2>3. QED
    BY <2>1, <2>2
<1>3. ASSUME NEW t \in Sessions, job'[t].pc = "enqueue"
      PROVE  rows'[job'[t].cur] = NoRow /\ job'[t].cur[2] = 0
  BY <1>3 DEF StoreInv
<1>4. ASSUME NEW t \in Sessions, NEW u \in Sessions, job'[t].pc = "enqueue",
             job'[u].pc = "enqueue", job'[t].cur = job'[u].cur
      PROVE  t = u
  BY <1>4 DEF StoreInv
<1>5. QED
  BY <1>1, <1>2, <1>3, <1>4 DEF StoreInv, Carries

(* A step of s keeps AloneInv if s takes up only what nobody else carries. *)
LEMMA AloneKept ==
    ASSUME AloneInv, NEW s \in Sessions, NEW j, job'[s] = j,
           \A t \in Sessions \ {s} : job'[t] = job[t],
           excused \subseteq excused',
           \A e \in Events \ excused', r \in (0..MaxReplays) \ {0} : rows'[<<e, r>>] = NoRow,
           \A e \in Events \ excused' :
              Carries(j, <<e, 0>>) =>
                 /\ \/ Carries(job[s], <<e, 0>>)
                    \/ \A t \in Sessions \ {s} : ~Carries(job[t], <<e, 0>>)
                 /\ j.rows[<<e, 0>>].status # "DELIVERED"
                 /\ j.pc \in Sent /\ j.cur = <<e, 0>> => <<e, 0>> \notin j.todo
    PROVE  AloneInv'
<1>1. ASSUME NEW e \in Events \ excused', NEW t \in Sessions, NEW u \in Sessions,
             Carries(job'[t], <<e, 0>>), Carries(job'[u], <<e, 0>>)
      PROVE  t = u
  <2>1. e \in Events \ excused
    OBVIOUS
  <2>2. QED
    BY <1>1, <2>1 DEF AloneInv
<1>2. ASSUME NEW e \in Events \ excused', NEW t \in Sessions, Carries(job'[t], <<e, 0>>)
      PROVE  job'[t].rows[<<e, 0>>].status # "DELIVERED"
  <2>1. e \in Events \ excused
    OBVIOUS
  <2>2. QED
    BY <1>2, <2>1 DEF AloneInv
<1>3. ASSUME NEW e \in Events \ excused', NEW t \in Sessions,
             job'[t].pc \in Sent, job'[t].cur = <<e, 0>>
      PROVE  <<e, 0>> \notin job'[t].todo
  <2>1. e \in Events \ excused
    OBVIOUS
  <2>2. CASE t = s
    <3>1. Carries(j, <<e, 0>>)
      BY <1>3, <2>2 DEF Carries
    <3>2. QED
      BY <1>3, <2>2, <3>1
  <2>3. CASE t # s
    BY <1>3, <2>1, <2>3 DEF AloneInv
  <2>4. QED
    BY <2>2, <2>3
<1>4. QED
  BY <1>1, <1>2, <1>3 DEF AloneInv, Carries

(* A step of s keeps OnceInv if nothing new is received.                   *)
LEMMA OnceKept ==
    ASSUME OnceInv, NEW s \in Sessions, NEW j, job'[s] = j,
           \A t \in Sessions \ {s} : job'[t] = job[t],
           excused \subseteq excused',
           \A e \in Events \ excused' :
              /\ received'[e] = received[e]
              /\ received[e] = 1 =>
                    /\ Carries(j, <<e, 0>>) => j.pc = "ok" /\ j.cur = <<e, 0>>
                    /\ rows[<<e, 0>>].status = "DELIVERED" => rows'[<<e, 0>>].status = "DELIVERED"
                    /\ job[s].pc = "ok" /\ job[s].cur = <<e, 0>> =>
                          \/ j.pc = "ok" /\ j.cur = <<e, 0>>
                          \/ rows'[<<e, 0>>].status = "DELIVERED"
    PROVE  OnceInv'
<1>1. SUFFICES ASSUME NEW e \in Events \ excused'
      PROVE  /\ received'[e] <= 1
             /\ received'[e] = 1 =>
                /\ \/ rows'[<<e, 0>>].status = "DELIVERED"
                   \/ \E t \in Sessions : job'[t].pc = "ok" /\ job'[t].cur = <<e, 0>>
                /\ \A t \in Sessions :
                      Carries(job'[t], <<e, 0>>) => job'[t].pc = "ok" /\ job'[t].cur = <<e, 0>>
  BY DEF OnceInv, Carries
<1>2. e \in Events \ excused /\ received'[e] = received[e]
  OBVIOUS
<1>3. received'[e] <= 1
  BY <1>2 DEF OnceInv
<1>4. ASSUME received'[e] = 1
      PROVE  \/ rows'[<<e, 0>>].status = "DELIVERED"
             \/ \E t \in Sessions : job'[t].pc = "ok" /\ job'[t].cur = <<e, 0>>
  <2>1. CASE rows[<<e, 0>>].status = "DELIVERED"
    BY <1>2, <1>4, <2>1
  <2>2. CASE \E t \in Sessions : job[t].pc = "ok" /\ job[t].cur = <<e, 0>>
    BY <1>2, <1>4, <2>2
  <2>3. QED
    BY <1>2, <1>4, <2>1, <2>2 DEF OnceInv
<1>5. ASSUME received'[e] = 1, NEW t \in Sessions, Carries(job'[t], <<e, 0>>)
      PROVE  job'[t].pc = "ok" /\ job'[t].cur = <<e, 0>>
  BY <1>2, <1>5 DEF OnceInv
<1>6. QED
  BY <1>3, <1>4, <1>5

(* A step of s keeps the replays whole if no delivery is taken away and s  *)
(* does not leave a replay unfinished.                                     *)
LEMMA ReplaysKept ==
    ASSUME TypeInv, JobInv, ReplayIsWhole, NEW s \in Sessions, NEW j, job'[s] = j,
           \A t \in Sessions \ {s} : job'[t] = job[t],
           replays' = replays, cut \subseteq cut',
           \A d \in Deliveries : rows[d] # NoRow => rows'[d] # NoRow,
           \A r \in (1..Len(replays)) \ cut' :
              job[s].replay = r =>
                 \/ j.replay = r
                 \/ \A d \in replays[r] : <<EventOf(d), r>> \in Stored'
                 \/ \E d, f \in replays[r] : d # f /\ EventOf(d) = EventOf(f)
    PROVE  ReplayIsWhole'
<1>1. SUFFICES ASSUME NEW r \in (1..Len(replays)) \ cut'
      PROVE  \/ \E t \in Sessions : job'[t].replay = r
             \/ \A d \in replays[r] : <<EventOf(d), r>> \in Stored'
             \/ \E d, f \in replays[r] : d # f /\ EventOf(d) = EventOf(f)
  BY DEF ReplayIsWhole
<1>2. \A d \in Stored : d \in Stored'
  BY DEF Stored
<1>3. CASE \E t \in Sessions : job[t].replay = r
  BY <1>3
<1>4. CASE \A d \in replays[r] : <<EventOf(d), r>> \in Stored
  BY <1>2, <1>4
<1>5. CASE \E d, f \in replays[r] : d # f /\ EventOf(d) = EventOf(f)
  BY <1>5
<1>6. QED
  BY <1>3, <1>4, <1>5 DEF ReplayIsWhole

(* A step of s that stores nothing keeps RowInv.                           *)
LEMMA RowsKept ==
    ASSUME RowInv, NEW s \in Sessions, NEW j, job'[s] = j, j.pc # "ok",
           \A t \in Sessions \ {s} : job'[t] = job[t],
           endpoint'.paused = endpoint.paused,
           UNCHANGED <<rows, received, stale, mixed, gaveUp>>
    PROVE  RowInv'
<1>1. \A d \in Deliveries : RowOK(d)'
  BY DEF RowInv, RowOK
<1>2. ASSUME NEW t \in Sessions, job'[t].pc = "ok"
      PROVE  received'[EventOf(job'[t].cur)] > 0
  BY <1>2 DEF RowInv
<1>3. QED
  BY <1>1, <1>2 DEF RowInv

-----------------------------------------------------------------------------
(* Every action keeps the invariant.                                       *)

(* A task loads the stored rows S.                                         *)
LEMMA LoadInv ==
    ASSUME IInv, NEW s \in Sessions, job[s] = Idle, NEW S \in SUBSET Stored,
           Become(s, [Idle EXCEPT !.pc = "work", !.todo = S, !.rows = Loaded(S)]),
           UNCHANGED <<tables, received, begun, stale, mixed, gaveUp, cut, raced>>,
           tasks' \in [Deliveries -> Nat], \A d \in Deliveries : tasks'[d] > 0 => tasks[d] > 0,
           excused \subseteq excused', excused' \subseteq Events,
           \A d \in S : rows[d].status = "DELIVERED" \/ Held(s, EventOf(d)) => EventOf(d) \in excused'
    PROVE  IInv'
<1> DEFINE j == [Idle EXCEPT !.pc = "work", !.todo = S, !.rows = Loaded(S)]
<1>1. S \subseteq Deliveries
  BY DEF Stored
<1>2. j \in JobTypes /\ JobShape(j) /\ j.pc = "work" /\ j.todo = S /\ j.rows = Loaded(S)
  BY <1>1, WorkJob DEF IInv
<1> HIDE DEF j
<1>3. Become(s, j) /\ replays' = replays
  BY DEF j, tables
<1>4. /\ job' \in [Sessions -> JobTypes] /\ job'[s] = j /\ JobInv'
      /\ \A t \in Sessions \ {s} : job'[t] = job[t]
  BY <1>2, <1>3, JobKept DEF IInv
<1>5. TypeInv'
  BY <1>4 DEF IInv, TypeInv, TypeOK, tables, JobTypes
<1>6. StoreInv'
  <2>1. \A d \in Deliveries : Carries(j, d) => rows[d] # NoRow
    BY <1>2 DEF Carries, Sent, Stored
  <2>2. rows' = rows /\ StoreInv /\ JobInv
    BY DEF tables, IInv
  <2>3. \A d \in Deliveries : tasks'[d] > 0 => rows'[d] # NoRow
    BY <2>2 DEF StoreInv
  <2>4. QED
    BY <1>2, <1>4, <2>1, <2>2, <2>3, StoreKept DEF StoreInv
<1>7. RowInv'
  BY <1>2, <1>4, RowsKept DEF IInv, tables
<1>8. ASSUME NEW e \in Events \ excused', Carries(j, <<e, 0>>)
      PROVE  /\ <<e, 0>> \in S /\ ~Held(s, e)
             /\ j.rows[<<e, 0>>] = rows[<<e, 0>>] /\ rows[<<e, 0>>].status # "DELIVERED"
  <2>1. <<e, 0>> \in S /\ EventOf(<<e, 0>>) = e
    BY <1>2, <1>8, DeliveryIsPair DEF Carries, Sent
  <2>2. QED
    BY <1>1, <1>2, <2>1, LoadedType DEF IInv
<1>9. ASSUME NEW e \in Events, ~Held(s, e)
      PROVE  \A t \in Sessions \ {s} : /\ ~Carries(job[t], <<e, 0>>)
                                       /\ job[t].cur # <<e, 0>>
  BY <1>9, DeliveryIsPair DEF Held, Carries
<1>10. AloneInv'
  <2>1. AloneInv /\ rows' = rows
    BY DEF IInv, tables
  <2>2. \A e \in Events \ excused', r \in (0..MaxReplays) \ {0} : rows'[<<e, r>>] = NoRow
    BY <2>1 DEF AloneInv
  <2>3. j.pc \notin Sent
    BY <1>2 DEF Sent
  <2>4. QED
    BY <1>4, <1>8, <1>9, <2>1, <2>2, <2>3, AloneKept
<1>11. OnceInv'
  <2>1. OnceInv /\ rows' = rows /\ received' = received
    BY DEF IInv, tables
  <2>2. ASSUME NEW e \in Events \ excused', received[e] = 1, Carries(j, <<e, 0>>)
        PROVE  FALSE
    <3>1. PICK t \in Sessions : job[t].pc = "ok" /\ job[t].cur = <<e, 0>>
      BY <1>8, <2>1, <2>2 DEF OnceInv
    <3>2. t # s
      BY <3>1, IdleType
    <3>3. QED
      BY <1>8, <1>9, <2>2, <3>1, <3>2
  <2>3. job[s].pc # "ok"
    BY IdleType
  <2>4. QED
    BY <1>4, <2>1, <2>2, <2>3, OnceKept
<1>12. ReplayIsWhole'
  <2>1. job[s].replay = 0
    BY IdleType
  <2>2. QED
    BY <1>3, <1>4, <2>1, ReplaysKept DEF IInv, tables
<1>13. OneOpenAlert'
  BY DEF IInv, OneOpenAlert, tables
<1>14. QED
  BY <1>4, <1>5, <1>6, <1>7, <1>10, <1>11, <1>12, <1>13 DEF IInv

(* The sweep keeps the invariant.                                          *)
LEMMA SweepInv ==
    ASSUME IInv, NEW s \in Sessions, Sweep(s)
    PROVE  IInv'
<1>1. Pending \in SUBSET Stored /\ \A d \in Pending : rows[d].status # "DELIVERED"
  BY DEF Pending
<1>2. excused \subseteq excused' /\ excused' \subseteq Events
  BY DEF Sweep, IInv, TypeInv, TypeOK
<1>3. \A d \in Pending : Held(s, EventOf(d)) => EventOf(d) \in excused'
  BY <1>1, DeliveryIsPair DEF Sweep, Stored
<1>4. tasks' \in [Deliveries -> Nat] /\ tasks' = tasks
  BY DEF Sweep, IInv, TypeInv, TypeOK
<1>5. QED
  BY <1>1, <1>2, <1>3, <1>4, LoadInv DEF Sweep

(* Taking a task keeps the invariant.                                      *)
LEMMA TakeInv ==
    ASSUME IInv, NEW s \in Sessions, NEW d \in Deliveries, Take(s, d)
    PROVE  IInv'
<1>1. {d} \in SUBSET Stored
  BY DEF Take, IInv, StoreInv, Stored
<1>2. tasks' \in [Deliveries -> Nat] /\ \A f \in Deliveries : tasks'[f] > 0 => tasks[f] > 0
  BY DEF Take, IInv, TypeInv, TypeOK
<1>3. excused \subseteq excused' /\ excused' \subseteq Events
  BY DeliveryIsPair DEF Take, IInv, TypeInv, TypeOK
<1>4. \A f \in {d} : rows[f].status = "DELIVERED" \/ Held(s, EventOf(f)) => EventOf(f) \in excused'
  BY DEF Take
<1>5. QED
  BY <1>1, <1>2, <1>3, <1>4, LoadInv DEF Take

(* A step that stores no delivery and leaves s without one to send.        *)
LEMMA QuietKept ==
    ASSUME IInv, NEW s \in Sessions, NEW j, job'[s] = j,
           \A t \in Sessions \ {s} : job'[t] = job[t],
           endpoint'.paused = endpoint.paused,
           UNCHANGED <<rows, tasks, received, stale, mixed, gaveUp>>,
           \A d \in Deliveries : ~Carries(j, d), j.pc # "ok",
           j.pc = "retry" => rows[j.cur] # NoRow,
           j.pc = "enqueue" => /\ rows[j.cur] = NoRow /\ j.cur[2] = 0
                               /\ \A t \in Sessions \ {s} : job[t].cur # j.cur,
           excused \subseteq excused',
           \A e \in Events \ excused' : ~(job[s].pc = "ok" /\ job[s].cur = <<e, 0>>)
    PROVE  StoreInv' /\ RowInv' /\ AloneInv' /\ OnceInv'
<1>1. StoreInv'
  BY StoreKept DEF IInv, StoreInv
<1>2. RowInv'
  BY RowsKept DEF IInv
<1>3. \A e \in Events : ~Carries(j, <<e, 0>>)
  BY DeliveryIsPair
<1>4. AloneInv'
  <2>1. \A e \in Events \ excused', r \in (0..MaxReplays) \ {0} : rows'[<<e, r>>] = NoRow
    BY DEF IInv, AloneInv
  <2>2. QED
    BY <1>3, <2>1, AloneKept DEF IInv
<1>5. OnceInv'
  BY <1>3, OnceKept DEF IInv
<1>6. QED
  BY <1>1, <1>2, <1>4, <1>5

(* A request that begins keeps the invariant.                              *)
LEMMA RequestInv ==
    ASSUME IInv, NEW s \in Sessions,
           NEW cmd \in {"enqueue", "retry", "pause", "resume", "enable", "disable"},
           NEW d \in Deliveries \cup {NoDelivery}, Request(s, cmd, d),
           cmd \in {"enqueue", "retry"} => d \in Deliveries,
           cmd = "retry" => rows[d] # NoRow,
           cmd = "enqueue" => /\ rows[d] = NoRow /\ d[2] = 0
                              /\ \A t \in Sessions \ {s} : job[t].cur # d
    PROVE  IInv'
<1> DEFINE j == [Idle EXCEPT !.pc = cmd, !.cur = d, !.rows = Loaded({d}),
                             !.paused = endpoint.paused, !.active = endpoint.active]
<1>1. /\ j \in JobTypes /\ JobShape(j) /\ j.pc = cmd /\ j.cur = d
      /\ \A f \in Deliveries : ~Carries(j, f)
  <2>1. endpoint.paused \in BOOLEAN /\ endpoint.active \in BOOLEAN
    BY DEF IInv, TypeInv, TypeOK
  <2>2. Loaded({d}) \in [Deliveries -> RowTypes]
    BY LoadedType DEF IInv
  <2>3. QED
    BY <2>1, <2>2, IdleType DEF JobTypes, JobShape, Idle, Sent, Pcs, Carries
<1> HIDE DEF j
<1>2. Become(s, j) /\ replays' = replays /\ job[s] = Idle /\ excused' = excused
  BY DEF j, tables, Request
<1>3. /\ job' \in [Sessions -> JobTypes] /\ job'[s] = j /\ JobInv'
      /\ \A t \in Sessions \ {s} : job'[t] = job[t]
  BY <1>1, <1>2, JobKept DEF IInv
<1>4. TypeInv'
  BY <1>3 DEF IInv, TypeInv, TypeOK, tables, JobTypes, Request, Counted
<1>5. UNCHANGED <<endpoint, rows, tasks, received, stale, mixed, gaveUp, alerts, raced, cut>>
  BY DEF Request, tables
<1>6. job[s].pc = "idle" /\ job[s].replay = 0
  BY <1>2, IdleType
<1>7. StoreInv' /\ RowInv' /\ AloneInv' /\ OnceInv'
  BY <1>1, <1>2, <1>3, <1>5, <1>6, QuietKept
<1>8. ReplayIsWhole'
  BY <1>2, <1>3, <1>5, <1>6, ReplaysKept DEF IInv
<1>9. OneOpenAlert'
  BY <1>5 DEF IInv, OneOpenAlert
<1>10. QED
  BY <1>3, <1>4, <1>7, <1>8, <1>9 DEF IInv

(* A replay is committed with its selection, and its number is new.        *)
LEMMA SelectReplayInv ==
    ASSUME IInv, NEW s \in Sessions, NEW onlyFailed \in BOOLEAN, SelectReplay(s, onlyFailed)
    PROVE  IInv'
<1>1. PICK S \in SUBSET Deliveries :
         /\ replays' = Append(replays, S)
         /\ Become(s, [Idle EXCEPT !.pc = "copy", !.todo = S, !.replay = Len(replays) + 1,
                                   !.paused = endpoint.paused])
  BY DEF SelectReplay, Stored
<1> DEFINE n == Len(replays) + 1
           j == [Idle EXCEPT !.pc = "copy", !.todo = S, !.replay = n, !.paused = endpoint.paused]
<1>2. /\ replays \in Seq(SUBSET Deliveries) /\ Len(replays) \in Nat
      /\ Len(replays) < MaxReplays /\ MaxReplays \in Nat
  BY LimitsAreNaturals DEF LimitsAreNaturals, SelectReplay, IInv, TypeInv
<1>3. /\ replays' \in Seq(SUBSET Deliveries) /\ Len(replays') = n /\ n \in 1..MaxReplays
      /\ replays'[n] = S /\ \A r \in 1..Len(replays) : replays'[r] = replays[r]
  BY <1>1, <1>2
<1>4. endpoint.paused \in BOOLEAN
  BY DEF IInv, TypeInv, TypeOK
<1>5. /\ j \in JobTypes /\ j.pc = "copy" /\ j.replay = n /\ j.todo = S
      /\ \A d \in Deliveries : ~Carries(j, d)
  <2>1. n \in 0..MaxReplays
    BY <1>3
  <2> HIDE DEF n
  <2>2. QED
    BY <1>4, <2>1, IdleType DEF JobTypes, Idle, Pcs, Carries, Sent
<1>6. Become(s, j)
  BY <1>1
<1> HIDE DEF j
<1>7. /\ job' \in [Sessions -> JobTypes] /\ job'[s] = j
      /\ \A t \in Sessions \ {s} : job'[t] = job[t]
  BY <1>5, <1>6 DEF Become, IInv, TypeInv
<1>8. TypeInv'
  <2>1. \A r \in 1..Len(replays') : replays'[r] \subseteq Deliveries
    BY <1>3
  <2>2. Len(replays') <= MaxReplays
    BY <1>3
  <2>3. QED
    BY <1>3, <1>7, <2>1, <2>2 DEF IInv, TypeInv, TypeOK, JobTypes, SelectReplay, Counted
<1>9. JobInv'
  <2>1. ASSUME NEW t \in Sessions
        PROVE  JobShape(job[t])'
    <3>1. CASE t = s
      BY <1>3, <1>5, <1>7, <3>1 DEF JobShape, Sent
    <3>2. CASE t # s
      <4>1. JobShape(job[t]) /\ job'[t] = job[t] /\ job[t].replay \in 0..MaxReplays
        BY <1>7, <3>2 DEF IInv, JobInv, TypeInv, JobTypes
      <4>2. QED
        BY <1>2, <1>3, <4>1 DEF JobShape
    <3>3. QED
      BY <3>1, <3>2
  <2>2. QED
    BY <2>1 DEF JobInv
<1>10. UNCHANGED <<endpoint, rows, alerts, tasks, received, stale, mixed, gaveUp, excused, cut, raced>>
  BY DEF SelectReplay
<1>11. job[s].pc = "idle" /\ job[s].replay = 0
  BY IdleType DEF SelectReplay
<1>12. StoreInv' /\ RowInv' /\ AloneInv' /\ OnceInv'
  BY <1>5, <1>7, <1>10, <1>11, QuietKept
<1>13. ReplayIsWhole'
  <2>1. SUFFICES ASSUME NEW r \in (1..Len(replays')) \ cut'
        PROVE  \/ \E t \in Sessions : job'[t].replay = r
               \/ \A d \in replays'[r] : <<EventOf(d), r>> \in Stored'
               \/ \E d, f \in replays'[r] : d # f /\ EventOf(d) = EventOf(f)
    BY DEF ReplayIsWhole
  <2>2. CASE r = n
    BY <1>5, <1>7, <2>2
  <2>3. CASE r # n
    <3>1. r \in (1..Len(replays)) \ cut /\ replays'[r] = replays[r] /\ Stored' = Stored
      BY <1>2, <1>3, <1>10, <2>3 DEF Stored
    <3>2. CASE \E t \in Sessions : job[t].replay = r
      <4>1. PICK t \in Sessions : job[t].replay = r
        BY <3>2
      <4>2. t # s
        BY <1>11, <3>1, <4>1
      <4>3. QED
        BY <1>7, <4>1, <4>2
    <3>3. CASE ~\E t \in Sessions : job[t].replay = r
      BY <3>1, <3>3 DEF IInv, ReplayIsWhole
    <3>4. QED
      BY <3>2, <3>3
  <2>4. QED
    BY <2>2, <2>3
<1>14. OneOpenAlert'
  BY <1>10 DEF IInv, OneOpenAlert
<1>15. QED
  BY <1>8, <1>9, <1>12, <1>13, <1>14 DEF IInv

(* Loading the open alerts keeps the invariant.                            *)
LEMMA LoadAlertsInv ==
    ASSUME IInv, NEW s \in Sessions, LoadAlerts(s)
    PROVE  IInv'
<1>1. PICK pc \in {"trigger", "resolve"} :
         Become(s, [Idle EXCEPT !.pc = pc, !.alerts = alerts])
  BY DEF LoadAlerts
<1> DEFINE j == [Idle EXCEPT !.pc = pc, !.alerts = alerts]
<1>2. /\ j \in JobTypes /\ JobShape(j) /\ j.pc = pc
      /\ \A f \in Deliveries : ~Carries(j, f)
  BY IdleType DEF Idle, JobTypes, JobShape, Pcs, Carries, Sent, IInv, TypeInv, TypeOK
<1>3. Become(s, j)
  BY <1>1
<1> HIDE DEF j
<1>4. replays' = replays /\ job[s] = Idle /\ excused' = excused
  BY DEF tables, LoadAlerts
<1>5. /\ job' \in [Sessions -> JobTypes] /\ job'[s] = j /\ JobInv'
      /\ \A t \in Sessions \ {s} : job'[t] = job[t]
  BY <1>2, <1>3, <1>4, JobKept DEF IInv
<1>6. TypeInv'
  BY <1>5 DEF IInv, TypeInv, TypeOK, tables, JobTypes, LoadAlerts, Counted
<1>7. UNCHANGED <<endpoint, rows, tasks, received, stale, mixed, gaveUp, alerts, raced, cut>>
  BY DEF LoadAlerts, tables
<1>8. job[s].pc = "idle" /\ job[s].replay = 0
  BY <1>4, IdleType
<1>9. StoreInv' /\ RowInv' /\ AloneInv' /\ OnceInv'
  BY <1>2, <1>4, <1>5, <1>7, <1>8, QuietKept
<1>10. ReplayIsWhole'
  BY <1>4, <1>5, <1>7, <1>8, ReplaysKept DEF IInv
<1>11. OneOpenAlert'
  BY <1>7 DEF IInv, OneOpenAlert
<1>12. QED
  BY <1>5, <1>6, <1>9, <1>10, <1>11 DEF IInv

(* A handler or a task that ends without storing a delivery.               *)
LEMMA EndInv ==
    ASSUME IInv, NEW s \in Sessions, Become(s, Idle), TypeOK', OneOpenAlert',
           endpoint'.paused = endpoint.paused,
           UNCHANGED <<rows, replays, tasks, received, stale, mixed, gaveUp>>,
           begun' \in Nat, cut \subseteq cut', excused \subseteq excused',
           job[s].replay = 0 \/ job[s].replay \in cut',
           \A e \in Events \ excused' : ~(job[s].pc = "ok" /\ job[s].cur = <<e, 0>>)
    PROVE  IInv'
<1>1. /\ job' \in [Sessions -> JobTypes] /\ job'[s] = Idle /\ JobInv'
      /\ \A t \in Sessions \ {s} : job'[t] = job[t]
  BY IdleType, IdleShape, JobKept DEF IInv
<1>2. TypeInv'
  BY <1>1 DEF IInv, TypeInv
<1>3. StoreInv' /\ RowInv' /\ AloneInv' /\ OnceInv'
  BY <1>1, IdleType, QuietKept
<1>4. ReplayIsWhole'
  BY <1>1, ReplaysKept DEF IInv
<1>5. QED
  BY <1>1, <1>2, <1>3, <1>4 DEF IInv

(* Enabling and disabling the endpoint keep the invariant.                 *)
LEMMA EnableOrDisableInv ==
    ASSUME IInv, NEW s \in Sessions, EnableOrDisable(s)
    PROVE  IInv'
<1>1. /\ Become(s, Idle) /\ job[s].pc \in {"enable", "disable"}
      /\ UNCHANGED <<rows, replays, alerts, tasks, received, begun, stale, mixed, gaveUp, excused, cut, raced>>
  BY DEF EnableOrDisable, history
<1>2. endpoint' \in [active : BOOLEAN, paused : BOOLEAN] /\ endpoint'.paused = endpoint.paused
  BY DEF EnableOrDisable, EndpointWith, IInv, TypeInv, TypeOK
<1>3. job' \in [Sessions -> JobTypes]
  BY <1>1, IdleType, IdleShape, JobKept DEF IInv
<1>4. TypeOK' /\ OneOpenAlert'
  BY <1>1, <1>2, <1>3 DEF IInv, TypeInv, TypeOK, OneOpenAlert, JobTypes
<1>5. job[s].replay = 0 /\ job[s].pc # "ok"
  BY <1>1 DEF IInv, JobInv, JobShape
<1>6. begun' \in Nat
  BY <1>1 DEF IInv, TypeInv
<1>7. QED
  BY <1>1, <1>2, <1>4, <1>5, <1>6, EndInv

(* A crash keeps the invariant.                                            *)
LEMMA CrashInv ==
    ASSUME IInv, NEW s \in Sessions, Crash(s)
    PROVE  IInv'
<1>1. /\ Become(s, Idle)
      /\ UNCHANGED <<endpoint, rows, replays, alerts, tasks, received, stale, mixed, gaveUp, raced>>
      /\ cut' = IF job[s].pc = "copy" THEN cut \cup {job[s].replay} ELSE cut
      /\ excused' = IF job[s].pc = "ok" THEN excused \cup {EventOf(job[s].cur)} ELSE excused
      /\ begun' = begun + 1
  BY DEF Crash, tables, Counted
<1>2. job' \in [Sessions -> JobTypes]
  BY <1>1, IdleType, IdleShape, JobKept DEF IInv
<1>3. /\ job[s].pc = "copy" => job[s].replay \in 1..MaxReplays
      /\ job[s].pc # "copy" => job[s].replay = 0
      /\ job[s].pc = "ok" => job[s].cur \in Deliveries
  BY DEF IInv, JobInv, JobShape, TypeInv, JobTypes, Sent
<1>4. TypeOK' /\ OneOpenAlert'
  <2>1. cut' \subseteq 1..MaxReplays
    BY <1>1, <1>3 DEF IInv, TypeInv, TypeOK
  <2>2. excused' \subseteq Events
    BY <1>1, <1>3, DeliveryIsPair DEF IInv, TypeInv, TypeOK
  <2>3. QED
    BY <1>1, <1>2, <2>1, <2>2 DEF IInv, TypeInv, TypeOK, OneOpenAlert, JobTypes
<1>5. \A e \in Events \ excused' : ~(job[s].pc = "ok" /\ job[s].cur = <<e, 0>>)
  BY <1>1, DeliveryIsPair
<1>6. begun' \in Nat
  BY <1>1 DEF IInv, TypeInv
<1>7. cut \subseteq cut' /\ excused \subseteq excused' /\ (job[s].replay = 0 \/ job[s].replay \in cut')
  BY <1>1, <1>3
<1>8. QED
  BY <1>1, <1>4, <1>5, <1>6, <1>7, EndInv

(* An alert is opened by a handler that has seen none.                     *)
LEMMA OpenAlertInv ==
    ASSUME IInv, NEW s \in Sessions, OpenAlert(s)
    PROVE  IInv'
<1>1. /\ Become(s, Idle) /\ job[s].pc = "trigger"
      /\ UNCHANGED <<endpoint, rows, replays, tasks, received, begun, stale, mixed, gaveUp, excused, cut>>
  BY DEF OpenAlert
<1>2. job' \in [Sessions -> JobTypes]
  BY <1>1, IdleType, IdleShape, JobKept DEF IInv
<1>3. alerts' \subseteq 1..MaxCommands /\ OneOpenAlert'
  <2>1. CASE NoneOpen(job[s].alerts)
    <3>1. PICK a \in 1..MaxCommands :
             alerts' = alerts \cup {a} /\ raced' = (raced \/ alerts # job[s].alerts)
      BY <2>1 DEF OpenAlert
    <3>2. CASE alerts = {}
      <4>1. alerts' = {a}
        BY <3>1, <3>2
      <4>2. Cardinality(alerts') = 1
        BY <4>1, FS_Singleton
      <4>3. QED
        BY <4>1, <4>2 DEF OneOpenAlert
    <3>3. CASE alerts # {}
      <4>1. raced'
        BY <2>1, <3>1, <3>3 DEF NoneOpen
      <4>2. QED
        BY <3>1, <4>1 DEF OneOpenAlert, IInv, TypeInv, TypeOK
    <3>4. QED
      BY <3>2, <3>3
  <2>2. CASE ~NoneOpen(job[s].alerts)
    BY <2>2 DEF OpenAlert, IInv, TypeInv, TypeOK, OneOpenAlert
  <2>3. QED
    BY <2>1, <2>2
<1>4. TypeOK'
  BY <1>1, <1>2, <1>3 DEF IInv, TypeInv, TypeOK, JobTypes
<1>5. job[s].replay = 0 /\ job[s].pc # "ok"
  BY <1>1 DEF IInv, JobInv, JobShape
<1>6. begun' \in Nat
  BY <1>1 DEF IInv, TypeInv
<1>7. QED
  BY <1>1, <1>3, <1>4, <1>5, <1>6, EndInv

(* Resolving an alert keeps the invariant.                                 *)
LEMMA ResolveAlertInv ==
    ASSUME IInv, NEW s \in Sessions, ResolveAlert(s)
    PROVE  IInv'
<1>1. /\ Become(s, Idle) /\ job[s].pc = "resolve"
      /\ UNCHANGED <<endpoint, rows, replays, tasks, received, begun, stale, mixed, gaveUp, excused, cut, raced>>
  BY DEF ResolveAlert, history
<1>2. job' \in [Sessions -> JobTypes]
  BY <1>1, IdleType, IdleShape, JobKept DEF IInv
<1>3. alerts' \subseteq alerts
  BY DEF ResolveAlert
<1>4. OneOpenAlert'
  <2>1. IsFiniteSet(alerts)
    <3>1. IsFiniteSet(1..MaxCommands)
      BY LimitsAreNaturals, FS_Interval DEF LimitsAreNaturals
    <3>2. QED
      BY <3>1, FS_Subset DEF IInv, TypeInv, TypeOK
  <2>2. /\ Cardinality(alerts') <= Cardinality(alerts)
        /\ Cardinality(alerts) \in Nat /\ Cardinality(alerts') \in Nat
    BY <1>3, <2>1, FS_Subset, FS_CardinalityType
  <2>3. QED
    BY <1>1, <2>2 DEF IInv, OneOpenAlert
<1>5. TypeOK'
  BY <1>1, <1>2, <1>3 DEF IInv, TypeInv, TypeOK, JobTypes
<1>6. job[s].replay = 0 /\ job[s].pc # "ok"
  BY <1>1 DEF IInv, JobInv, JobShape
<1>7. begun' \in Nat
  BY <1>1 DEF IInv, TypeInv
<1>8. QED
  BY <1>1, <1>4, <1>5, <1>6, <1>7, EndInv

(* A delivery of an event that is not excused is its first.                *)
LEMMA FirstDelivery ==
    ASSUME IInv, NEW d \in Deliveries, rows[d] # NoRow, EventOf(d) \notin excused
    PROVE  d = <<EventOf(d), 0>>
<1> DEFINE e == EventOf(d)
<1>1. e \in Events \ excused /\ \E r \in 0..MaxReplays : d = <<e, r>>
  BY DeliveryIsPair
<1> HIDE DEF e
<1>2. PICK r \in 0..MaxReplays : d = <<e, r>>
  BY <1>1
<1>3. r = 0
  BY <1>1, <1>2 DEF IInv, AloneInv
<1>4. QED
  BY <1>2, <1>3 DEF e

(* Sending keeps the invariant, before the outcome is stored.              *)
LEMMA AttemptInv ==
    ASSUME IInv, NEW s \in Sessions, NEW d \in Deliveries, Attempt(s, d)
    PROVE  IInv'
<1> DEFINE e == EventOf(d)
<1>1. PICK pc \in Sent, arrives \in BOOLEAN :
         /\ pc = "ok" => arrives
         /\ pc \in {"disabled", "paused"} => ~arrives
         /\ Become(s, [job[s] EXCEPT !.todo = @ \ {d}, !.cur = d, !.pc = pc])
         /\ received' = IF arrives /\ received[e] < Many
                        THEN [received EXCEPT ![e] = @ + 1] ELSE received
         /\ excused' = IF arrives /\ pc = "error" THEN excused \cup {e} ELSE excused
  BY DEF Attempt, Sent
<1>2. /\ job[s].pc = "work" /\ d \in job[s].todo
      /\ UNCHANGED <<endpoint, rows, replays, alerts, tasks, begun, stale, mixed, gaveUp, cut, raced>>
  BY DEF Attempt, tables
<1>3. e \in Events /\ d = <<e, d[2]>>
  BY DeliveryIsPair
<1> DEFINE k == [job[s] EXCEPT !.todo = @ \ {d}, !.cur = d, !.pc = pc]
<1>4. /\ k \in JobTypes /\ JobShape(k) /\ k.pc = pc /\ k.cur = d
      /\ k.todo = job[s].todo \ {d} /\ k.rows = job[s].rows
  <2>1. PICK j \in JobTypes : j = job[s]
    BY DEF IInv, TypeInv
  <2>2. JobShape(j)
    BY <2>1 DEF IInv, JobInv
  <2>3. d \in Deliveries /\ j.replay = 0 /\ j.todo \in SUBSET Deliveries
    BY <1>2, <2>1, <2>2 DEF JobTypes, JobShape
  <2>4. k = [j EXCEPT !.todo = j.todo \ {d}, !.cur = d, !.pc = pc]
    BY <2>1
  <2>5. QED
    BY <1>2, <2>1, <2>2, <2>3, <2>4 DEF JobTypes, JobShape, Sent, Pcs
<1>5. Become(s, k)
  BY <1>1
<1> HIDE DEF k, e
<1>6. /\ job' \in [Sessions -> JobTypes] /\ job'[s] = k /\ JobInv'
      /\ \A t \in Sessions \ {s} : job'[t] = job[t]
  BY <1>2, <1>4, <1>5, JobKept DEF IInv
<1>7. /\ received \in [Events -> 0..2] /\ received' \in [Events -> 0..2]
      /\ \A f \in Events : f # e => received'[f] = received[f]
      /\ arrives => received'[e] > 0
      /\ ~arrives => received' = received
      /\ \A f \in Events : received[f] > 0 => received'[f] > 0
      /\ arrives /\ received[e] = 0 => received'[e] = 1
  <2>1. received \in [Events -> 0..2]
    BY DEF IInv, TypeInv, TypeOK, Many
  <2>2. QED
    BY <1>1, <1>3, <2>1 DEF Many
<1>8. excused \subseteq excused' /\ excused' \subseteq Events
  BY <1>1, <1>3 DEF IInv, TypeInv, TypeOK
<1>9. TypeInv'
  BY <1>2, <1>6, <1>7, <1>8 DEF IInv, TypeInv, TypeOK, JobTypes, Many
<1>10. Carries(job[s], d) /\ rows[d] # NoRow
  BY <1>2 DEF Carries, IInv, StoreInv
<1>11. ASSUME NEW f \in Deliveries, Carries(k, f)
       PROVE  Carries(job[s], f)
  BY <1>2, <1>4, <1>11 DEF Carries
<1>12. StoreInv'
  <2>1. \A f \in Deliveries : Carries(k, f) => rows'[f] # NoRow
    BY <1>2, <1>11 DEF IInv, StoreInv
  <2>2. k.pc \notin {"retry", "enqueue"}
    BY <1>4 DEF Sent
  <2>3. QED
    BY <1>2, <1>6, <2>1, <2>2, StoreKept DEF IInv, StoreInv
<1>13. RowInv'
  <2>1. \A f \in Deliveries : RowOK(f)'
    BY <1>2, <1>7, DeliveryIsPair DEF IInv, RowInv, RowOK
  <2>2. ASSUME NEW t \in Sessions, job'[t].pc = "ok"
        PROVE  received'[EventOf(job'[t].cur)] > 0
    <3>1. CASE t = s
      BY <1>1, <1>4, <1>6, <1>7, <2>2, <3>1 DEF e
    <3>2. CASE t # s
      <4>1. job'[t] = job[t] /\ received[EventOf(job[t].cur)] > 0
        BY <1>6, <2>2, <3>2 DEF IInv, RowInv
      <4>2. job[t].cur \in Deliveries
        BY <2>2, <4>1 DEF IInv, JobInv, JobShape, Sent
      <4>3. EventOf(job[t].cur) \in Events
        BY <4>2, DeliveryIsPair
      <4>4. QED
        BY <1>7, <4>1, <4>3
    <3>3. QED
      BY <3>1, <3>2
  <2>3. QED
    BY <2>1, <2>2 DEF RowInv
<1>14. AloneInv'
  <2>1. \A f \in Events \ excused', r \in (0..MaxReplays) \ {0} : rows'[<<f, r>>] = NoRow
    BY <1>2, <1>8 DEF IInv, AloneInv
  <2>2. ASSUME NEW f \in Events \ excused', Carries(k, <<f, 0>>)
        PROVE  /\ Carries(job[s], <<f, 0>>)
               /\ k.rows[<<f, 0>>].status # "DELIVERED"
               /\ k.cur = <<f, 0>> => <<f, 0>> \notin k.todo
    <3>1. Carries(job[s], <<f, 0>>)
      BY <1>11, <2>2, DeliveryIsPair
    <3>2. QED
      BY <1>4, <1>8, <3>1 DEF IInv, AloneInv
  <2>3. QED
    BY <1>6, <1>8, <2>1, <2>2, AloneKept DEF IInv
<1>15. OnceInv'
  <2>1. SUFFICES ASSUME NEW f \in Events \ excused'
        PROVE  /\ received'[f] <= 1
               /\ received'[f] = 1 =>
                  /\ \/ rows'[<<f, 0>>].status = "DELIVERED"
                     \/ \E t \in Sessions : job'[t].pc = "ok" /\ job'[t].cur = <<f, 0>>
                  /\ \A t \in Sessions :
                        Carries(job'[t], <<f, 0>>) => job'[t].pc = "ok" /\ job'[t].cur = <<f, 0>>
    BY DEF OnceInv, Carries
  <2>2. f \in Events \ excused /\ received[f] <= 1 /\ received[f] \in 0..2
    BY <1>7, <1>8 DEF IInv, OnceInv
  <2>3. Carries(job[s], <<f, 0>>) => received[f] = 0
    BY <1>2, <2>2 DEF IInv, OnceInv
  <2>4. CASE f # e
    <3>1. received'[f] = received[f]
      BY <1>7, <2>4
    <3>2. ~Carries(job[s], <<f, 0>>) \/ received[f] = 0
      BY <2>3
    <3>3. ASSUME received[f] = 1, NEW t \in Sessions, Carries(job'[t], <<f, 0>>)
          PROVE  job'[t].pc = "ok" /\ job'[t].cur = <<f, 0>>
      <4>1. t # s
        BY <1>6, <1>11, <3>2, <3>3, DeliveryIsPair
      <4>2. QED
        BY <1>6, <2>2, <3>3, <4>1 DEF IInv, OnceInv
    <3>4. ASSUME received[f] = 1
          PROVE  \/ rows'[<<f, 0>>].status = "DELIVERED"
                 \/ \E t \in Sessions : job'[t].pc = "ok" /\ job'[t].cur = <<f, 0>>
      <4>1. CASE rows[<<f, 0>>].status = "DELIVERED"
        BY <1>2, <4>1
      <4>2. CASE \E t \in Sessions : job[t].pc = "ok" /\ job[t].cur = <<f, 0>>
        <5>1. PICK t \in Sessions : job[t].pc = "ok" /\ job[t].cur = <<f, 0>>
          BY <4>2
        <5>2. t # s
          BY <1>2, <5>1
        <5>3. QED
          BY <1>6, <5>1, <5>2
      <4>3. QED
        BY <2>2, <3>4, <4>1, <4>2 DEF IInv, OnceInv
    <3>5. QED
      BY <2>2, <3>1, <3>3, <3>4
  <2>5. CASE f = e
    <3>1. d = <<f, 0>>
      BY <1>10, <2>2, <2>5, FirstDelivery DEF e
    <3>2. received[f] = 0
      BY <1>10, <2>3, <3>1
    <3>3. CASE arrives
      <4>1. pc = "ok" /\ received'[f] = 1
        BY <1>1, <1>7, <2>5, <3>2, <3>3 DEF Sent
      <4>2. job'[s].pc = "ok" /\ job'[s].cur = <<f, 0>>
        BY <1>4, <1>6, <3>1, <4>1
      <4>3. ASSUME NEW t \in Sessions, Carries(job'[t], <<f, 0>>)
            PROVE  t = s
        BY <1>6, <1>10, <2>2, <3>1, <4>3 DEF IInv, AloneInv
      <4>4. QED
        BY <4>1, <4>2, <4>3
    <3>4. CASE ~arrives
      BY <1>7, <3>2, <3>4
    <3>5. QED
      BY <3>3, <3>4
  <2>6. QED
    BY <2>4, <2>5
<1>16. ReplayIsWhole'
  <2>1. job[s].replay = 0
    BY <1>2 DEF IInv, JobInv, JobShape
  <2>2. QED
    BY <1>2, <1>6, <2>1, ReplaysKept DEF IInv
<1>17. OneOpenAlert'
  BY <1>2 DEF IInv, OneOpenAlert
<1>18. QED
  BY <1>6, <1>9, <1>12, <1>13, <1>14, <1>15, <1>16, <1>17 DEF IInv

(* A handler that stores deliveries and ends.                              *)
LEMMA StoreAndEndInv ==
    ASSUME IInv, NEW s \in Sessions, Become(s, Idle),
           job[s].pc \in {"enqueue", "retry", "pause", "resume", "copy"},
           UNCHANGED <<replays, alerts, received, begun, cut, raced, gaveUp>>,
           endpoint' \in [active : BOOLEAN, paused : BOOLEAN],
           rows' \in [Deliveries -> RowTypes], tasks' \in [Deliveries -> Nat],
           stale' \subseteq Deliveries, excused \subseteq excused', excused' \subseteq Events,
           \A d \in Deliveries : rows'[d].status = "none" => rows'[d] = NoRow,
           \A d \in Deliveries : rows[d] # NoRow => rows'[d] # NoRow,
           \A d \in Deliveries : tasks'[d] > 0 => rows'[d] # NoRow,
           \A t \in Sessions \ {s} : job[t].pc = "enqueue" => rows'[job[t].cur] = NoRow,
           \A d \in Deliveries : RowOK(d)',
           \A e \in Events \ excused', r \in (0..MaxReplays) \ {0} : rows'[<<e, r>>] = NoRow,
           \A e \in Events \ excused' :
              rows[<<e, 0>>].status = "DELIVERED" => rows'[<<e, 0>>].status = "DELIVERED",
           \A r \in (1..Len(replays)) \ cut :
              job[s].replay = r =>
                 \/ \A d \in replays[r] : <<EventOf(d), r>> \in Stored'
                 \/ \E d, f \in replays[r] : d # f /\ EventOf(d) = EventOf(f)
    PROVE  IInv'
<1>1. /\ job' \in [Sessions -> JobTypes] /\ job'[s] = Idle /\ JobInv'
      /\ \A t \in Sessions \ {s} : job'[t] = job[t]
  BY IdleType, IdleShape, JobKept DEF IInv
<1>2. TypeInv'
  BY <1>1 DEF IInv, TypeInv, TypeOK, JobTypes, RowTypes
<1>3. StoreInv'
  BY <1>1, IdleType, StoreKept DEF IInv
<1>4. RowInv'
  <2>1. \A t \in Sessions : job'[t].pc = "ok" => received'[EventOf(job'[t].cur)] > 0
    BY <1>1, IdleType DEF IInv, RowInv
  <2>2. QED
    BY <2>1 DEF RowInv
<1>5. \A e \in Events : ~Carries(Idle, <<e, 0>>)
  BY IdleType, DeliveryIsPair
<1>6. AloneInv'
  BY <1>1, <1>5, AloneKept DEF IInv
<1>7. OnceInv'
  BY <1>1, <1>5, OnceKept DEF IInv
<1>8. ReplayIsWhole'
  BY <1>1, ReplaysKept DEF IInv
<1>9. OneOpenAlert'
  BY DEF IInv, OneOpenAlert
<1>10. QED
  BY <1>1, <1>2, <1>3, <1>4, <1>6, <1>7, <1>8, <1>9 DEF IInv

(* A row that is left alone stays true.                                    *)
LEMMA RowOKKept ==
    ASSUME NEW d \in Deliveries, RowOK(d), rows'[d] = rows[d], received' = received,
           endpoint' = endpoint, stale \subseteq stale', mixed \subseteq mixed',
           gaveUp \subseteq gaveUp'
    PROVE  RowOK(d)'
BY DEF RowOK

(* A new row is paused, or is due.                                         *)
LEMMA NewRowOK ==
    ASSUME NEW d \in Deliveries, NEW j \in JobTypes, rows'[d] = NewRow(j),
           endpoint \in [active : BOOLEAN, paused : BOOLEAN],
           endpoint' = endpoint, NEW S, d \in S, StaleIf(j, S)
    PROVE  RowOK(d)'
<1>1. /\ rows'[d].status = IF j.paused THEN "PAUSED" ELSE "PENDING"
      /\ rows'[d].retry = IF j.paused THEN "none" ELSE "due"
  BY NewRowType
<1>2. j.paused \in BOOLEAN
  BY DEF JobTypes
<1>3. j.paused => endpoint'.paused \/ d \in stale'
  BY <1>2 DEF StaleIf
<1>4. QED
  BY <1>1, <1>2, <1>3 DEF RowOK

(* Storing a new delivery keeps the invariant.                             *)
LEMMA EnqueueDeliveryInv ==
    ASSUME IInv, NEW s \in Sessions, EnqueueDelivery(s)
    PROVE  IInv'
<1>1. PICK j \in JobTypes : j = job[s]
  BY DEF IInv, TypeInv
<1>2. /\ j.pc = "enqueue" /\ Become(s, Idle) /\ StaleIf(j, {j.cur}) /\ Notify(j.cur)
      /\ rows' = [rows EXCEPT ![j.cur] = NewRow(j)]
      /\ UNCHANGED <<endpoint, replays, alerts, received, begun, mixed, gaveUp, excused, cut, raced>>
  BY <1>1 DEF EnqueueDelivery
<1>3. PICK d \in Deliveries : d = j.cur
  BY <1>1, <1>2 DEF IInv, JobInv, JobShape
<1>4. /\ rows \in [Deliveries -> RowTypes] /\ rows[d] = NoRow /\ d[2] = 0
      /\ tasks \in [Deliveries -> Nat] /\ endpoint \in [active : BOOLEAN, paused : BOOLEAN]
      /\ excused \subseteq Events /\ stale \subseteq Deliveries
      /\ \A t \in Sessions \ {s} : job[t].pc = "enqueue" => job[t].cur # d
  BY <1>1, <1>2, <1>3 DEF IInv, TypeInv, TypeOK, RowTypes, StoreInv
<1>5. /\ rows' \in [Deliveries -> RowTypes] /\ rows'[d] = NewRow(j) /\ NewRow(j) # NoRow
      /\ NewRow(j).status # "none"
      /\ \A f \in Deliveries : f # d => rows'[f] = rows[f]
  BY <1>2, <1>3, <1>4, NewRowType
<1>6. /\ tasks' \in [Deliveries -> Nat]
      /\ \A f \in Deliveries : f # d => tasks'[f] = tasks[f]
  BY <1>2, <1>3, <1>4 DEF Notify
<1>7. stale' \subseteq Deliveries /\ stale \subseteq stale'
  BY <1>2, <1>3, <1>4 DEF StaleIf
<1>8. \A f \in Deliveries : rows'[f].status = "none" => rows'[f] = NoRow
  BY <1>5 DEF IInv, StoreInv
<1>9. \A f \in Deliveries : rows[f] # NoRow => rows'[f] # NoRow
  BY <1>5
<1>10. \A f \in Deliveries : tasks'[f] > 0 => rows'[f] # NoRow
  BY <1>5, <1>6 DEF IInv, StoreInv
<1>11. ASSUME NEW t \in Sessions \ {s}, job[t].pc = "enqueue"
       PROVE  rows'[job[t].cur] = NoRow
  <2>1. job[t].cur \in Deliveries /\ job[t].cur # d /\ rows[job[t].cur] = NoRow
    BY <1>4, <1>11 DEF IInv, JobInv, JobShape, StoreInv
  <2>2. QED
    BY <1>5, <2>1
<1>12. ASSUME NEW f \in Deliveries
       PROVE  RowOK(f)'
  <2>1. CASE f = d
    <3>1. f \in {j.cur} /\ rows'[f] = NewRow(j)
      BY <1>3, <1>5, <2>1
    <3>2. QED
      BY <1>2, <1>4, <3>1, NewRowOK
  <2>2. CASE f # d
    <3>1. RowOK(f)
      BY DEF IInv, RowInv
    <3>2. QED
      BY <1>2, <1>5, <1>7, <2>2, <3>1, RowOKKept
  <2>3. QED
    BY <2>1, <2>2
<1>13. ASSUME NEW e \in Events \ excused, NEW r \in (0..MaxReplays) \ {0}
       PROVE  rows'[<<e, r>>] = NoRow
  <2>1. <<e, r>> \in Deliveries /\ <<e, r>> # d
    BY <1>4, DeliveryIsPair
  <2>2. QED
    BY <1>5, <2>1 DEF IInv, AloneInv
<1>14. ASSUME NEW e \in Events, rows[<<e, 0>>].status = "DELIVERED"
       PROVE  rows'[<<e, 0>>].status = "DELIVERED"
  <2>1. <<e, 0>> \in Deliveries /\ <<e, 0>> # d
    BY <1>4, <1>14, DeliveryIsPair, NoRowType
  <2>2. QED
    BY <1>5, <1>14, <2>1
<1>15. job[s].replay = 0
  BY <1>1, <1>2 DEF IInv, JobInv, JobShape
<1>16. /\ excused \subseteq excused' /\ excused' \subseteq Events
       /\ \A e \in Events \ excused', r \in (0..MaxReplays) \ {0} : rows'[<<e, r>>] = NoRow
  BY <1>2, <1>4, <1>13
<1>17. \A e \in Events \ excused' :
          rows[<<e, 0>>].status = "DELIVERED" => rows'[<<e, 0>>].status = "DELIVERED"
  BY <1>14
<1>18. \A t \in Sessions \ {s} : job[t].pc = "enqueue" => rows'[job[t].cur] = NoRow
  BY <1>11
<1>19. /\ job[s].pc \in {"enqueue", "retry", "pause", "resume", "copy"}
       /\ endpoint' \in [active : BOOLEAN, paused : BOOLEAN]
       /\ \A f \in Deliveries : RowOK(f)'
  BY <1>1, <1>2, <1>4, <1>12
<1>20. QED
  BY <1>2, <1>5, <1>6, <1>7, <1>8, <1>9, <1>10, <1>15, <1>16, <1>17, <1>18, <1>19, StoreAndEndInv

(* What retry_delivery writes is due or paused, or is a mixture.           *)
LEMMA RetryDeliveryInv ==
    ASSUME IInv, NEW s \in Sessions, RetryDelivery(s)
    PROVE  IInv'
<1>1. PICK j \in JobTypes : j = job[s]
  BY DEF IInv, TypeInv
<1>2. j.pc = "retry" /\ j.pc \notin {"copy"}
  BY <1>1 DEF RetryDelivery
<1>3. PICK d \in Deliveries : d = j.cur
  BY <1>1, <1>2 DEF IInv, JobInv, JobShape
<1>4. PICK old \in RowTypes : old = j.rows[d]
  BY DEF JobTypes
<1>5. PICK new \in RowTypes : /\ new = [NewRow(j) EXCEPT !.attempt = old.attempt]
                              /\ new.status = IF j.paused THEN "PAUSED" ELSE "PENDING"
                              /\ new.retry = IF j.paused THEN "none" ELSE "due"
  <2>1. old.attempt \in Nat
    BY DEF RowTypes
  <2>2. PICK r : r = NewRow(j)
    OBVIOUS
  <2>3. /\ r \in RowTypes
        /\ r.status = IF j.paused THEN "PAUSED" ELSE "PENDING"
        /\ r.retry = IF j.paused THEN "none" ELSE "due"
    BY <2>2, NewRowType
  <2>4. PICK new : new = [r EXCEPT !.attempt = old.attempt]
    OBVIOUS
  <2>5. /\ new \in RowTypes
        /\ new.status = IF j.paused THEN "PAUSED" ELSE "PENDING"
        /\ new.retry = IF j.paused THEN "none" ELSE "due"
    BY <2>1, <2>3, <2>4 DEF RowTypes
  <2>6. QED
    BY <2>2, <2>4, <2>5
<1>6. PICK w : w = Written(d, old, new)
  OBVIOUS
<1>7. /\ rows' = [rows EXCEPT ![d] = w]
      /\ mixed' = IF w = new THEN mixed ELSE mixed \cup {d}
      /\ StaleIf(j, {d}) /\ excused' = excused \cup {EventOf(d)}
      /\ UNCHANGED tasks \/ Notify(d)
      /\ Become(s, Idle)
      /\ UNCHANGED <<endpoint, replays, alerts, received, begun, gaveUp, cut, raced>>
  BY <1>1, <1>3, <1>4, <1>5, <1>6 DEF RetryDelivery, Mixes
<1>8. /\ w \in RowTypes
      /\ w.status = IF new.status = old.status THEN rows[d].status ELSE new.status
  BY <1>6, WrittenType DEF IInv
<1>9. /\ rows \in [Deliveries -> RowTypes] /\ rows[d] # NoRow
      /\ tasks \in [Deliveries -> Nat] /\ endpoint \in [active : BOOLEAN, paused : BOOLEAN]
      /\ excused \subseteq Events /\ stale \subseteq Deliveries /\ EventOf(d) \in Events
  BY <1>1, <1>2, <1>3, DeliveryIsPair DEF IInv, TypeInv, TypeOK, RowTypes, StoreInv
<1>10. w.status # "none" /\ w # NoRow
  <2>1. rows[d].status # "none" /\ new.status # "none"
    BY <1>5, <1>9 DEF IInv, StoreInv
  <2>2. QED
    BY <1>8, <2>1, NoRowType
<1>11. /\ rows' \in [Deliveries -> RowTypes] /\ rows'[d] = w
       /\ \A f \in Deliveries : f # d => rows'[f] = rows[f]
  BY <1>7, <1>8, <1>9
<1>12. /\ tasks' \in [Deliveries -> Nat]
       /\ \A f \in Deliveries : f # d => tasks'[f] = tasks[f]
  BY <1>7, <1>9 DEF Notify
<1>13. stale' \subseteq Deliveries /\ stale \subseteq stale' /\ mixed \subseteq mixed'
  BY <1>7, <1>9 DEF StaleIf
<1>14. \A f \in Deliveries : rows'[f].status = "none" => rows'[f] = NoRow
  BY <1>10, <1>11 DEF IInv, StoreInv
<1>15. \A f \in Deliveries : rows[f] # NoRow => rows'[f] # NoRow
  BY <1>10, <1>11
<1>16. \A f \in Deliveries : tasks'[f] > 0 => rows'[f] # NoRow
  BY <1>10, <1>11, <1>12 DEF IInv, StoreInv
<1>17. ASSUME NEW t \in Sessions \ {s}, job[t].pc = "enqueue"
       PROVE  rows'[job[t].cur] = NoRow
  <2>1. job[t].cur \in Deliveries /\ rows[job[t].cur] = NoRow
    BY <1>17 DEF IInv, JobInv, JobShape, StoreInv
  <2>2. QED
    BY <1>9, <1>11, <2>1
<1>18. ASSUME NEW f \in Deliveries
       PROVE  RowOK(f)'
  <2>1. RowOK(f)
    BY DEF IInv, RowInv
  <2>2. CASE f = d
    <3>1. j.paused \in BOOLEAN /\ endpoint.paused \in BOOLEAN
      BY <1>9 DEF JobTypes
    <3>2. w.status = "DELIVERED" => received'[EventOf(d)] > 0
      BY <1>5, <1>7, <1>8, <1>9, <2>1, <2>2 DEF RowOK
    <3>3. w.status = "PAUSED" => endpoint'.paused \/ d \in stale'
      BY <1>5, <1>7, <1>8, <1>9, <1>13, <2>1, <2>2, <3>1 DEF RowOK, StaleIf
    <3>4. w.status \in {"PENDING", "FAILED"} => w.retry # "none" \/ d \in mixed'
      <4>1. CASE w = new
        BY <1>5, <3>1, <4>1
      <4>2. CASE w # new
        BY <1>7, <4>2
      <4>3. QED
        BY <4>1, <4>2
    <3>5. QED
      BY <1>11, <2>2, <3>2, <3>3, <3>4 DEF RowOK
  <2>3. CASE f # d
    BY <1>7, <1>11, <1>13, <2>1, <2>3, RowOKKept
  <2>4. QED
    BY <2>2, <2>3
<1>19. ASSUME NEW e \in Events \ excused', NEW r \in 0..MaxReplays
       PROVE  rows'[<<e, r>>] = rows[<<e, r>>] /\ e \in Events \ excused
  <2>1. <<e, r>> \in Deliveries /\ <<e, r>> # d
    BY <1>7, DeliveryIsPair
  <2>2. QED
    BY <1>7, <1>11, <2>1
<1>20. \A e \in Events \ excused', r \in (0..MaxReplays) \ {0} : rows'[<<e, r>>] = NoRow
  BY <1>19 DEF IInv, AloneInv
<1>21. \A e \in Events \ excused' :
          rows[<<e, 0>>].status = "DELIVERED" => rows'[<<e, 0>>].status = "DELIVERED"
  BY <1>19, LimitsAreNaturals DEF LimitsAreNaturals
<1>22. job[s].replay = 0
  BY <1>1, <1>2 DEF IInv, JobInv, JobShape
<1>23. excused \subseteq excused' /\ excused' \subseteq Events
  BY <1>7, <1>9
<1>24. QED
  BY <1>1, <1>2, <1>7, <1>9, <1>11, <1>12, <1>13, <1>14, <1>15, <1>16, <1>17, <1>18, <1>20, <1>21,
     <1>22, <1>23, StoreAndEndInv

(* After a pause none waits for a retry, after a resume none is paused.    *)
LEMMA PauseOrResumeInv ==
    ASSUME IInv, NEW s \in Sessions, PauseOrResume(s)
    PROVE  IInv'
<1>1. PICK j \in JobTypes : j = job[s]
  BY DEF IInv, TypeInv
<1>2. PICK pause \in BOOLEAN : pause = (j.pc = "pause")
  OBVIOUS
<1>3. /\ j.pc \in {"pause", "resume"} /\ Become(s, Idle) /\ StaleIf(j, Stored)
      /\ endpoint' = EndpointWith("paused", j.paused, pause)
      /\ rows' = Moved(IF pause THEN "PAUSED" ELSE "PENDING")
      /\ UNCHANGED <<replays, alerts, tasks, received, begun, mixed, gaveUp, excused, cut, raced>>
  BY <1>1, <1>2 DEF PauseOrResume
<1>4. /\ rows \in [Deliveries -> RowTypes] /\ tasks \in [Deliveries -> Nat]
      /\ endpoint \in [active : BOOLEAN, paused : BOOLEAN]
      /\ excused \subseteq Events /\ stale \subseteq Deliveries
  BY DEF IInv, TypeInv, TypeOK, RowTypes
<1>5. j.paused \in BOOLEAN
  BY DEF JobTypes
<1>6. /\ endpoint' \in [active : BOOLEAN, paused : BOOLEAN]
      /\ j.paused = endpoint.paused => endpoint'.paused = pause
      /\ j.paused # endpoint.paused => Stored \subseteq stale'
      /\ stale \subseteq stale' /\ stale' \subseteq Deliveries
  BY <1>3, <1>4, <1>5 DEF EndpointWith, StaleIf, Stored
<1>7. ASSUME NEW d \in Deliveries
      PROVE  /\ rows'[d] \in RowTypes
             /\ rows'[d] = NoRow <=> rows[d] = NoRow
             /\ rows'[d].status = "none" => rows'[d] = NoRow
             /\ rows[d].status = "DELIVERED" <=> rows'[d].status = "DELIVERED"
             /\ pause => rows'[d].status \notin {"PENDING", "FAILED"}
             /\ ~pause => /\ rows'[d].status # "PAUSED"
                          /\ rows'[d] = rows[d] \/ rows'[d].retry = "due"
  <2>1. PICK r \in RowTypes : r = rows[d]
    BY <1>4
  <2>2. PICK n : n = rows'[d]
    OBVIOUS
  <2>3. /\ n = CASE pause /\ r.status \in {"PENDING", "FAILED"} ->
                       [r EXCEPT !.status = "PAUSED", !.retry = "none"]
               [] ~pause /\ r.status = "PAUSED" ->
                       [r EXCEPT !.status = "PENDING", !.retry = "due"]
               [] OTHER -> r
    BY <1>3, <2>1, <2>2 DEF Moved
  <2>4. r.status = "none" <=> r = NoRow
    BY <2>1, NoRowType DEF IInv, StoreInv
  <2>5. CASE pause /\ r.status \in {"PENDING", "FAILED"}
    <3>1. n = [r EXCEPT !.status = "PAUSED", !.retry = "none"]
      BY <2>3, <2>5
    <3>2. n \in RowTypes /\ n.status = "PAUSED" /\ n # NoRow
      BY <3>1, NoRowType DEF RowTypes, Retries
    <3>3. QED
      BY <2>1, <2>2, <2>4, <2>5, <3>2
  <2>6. CASE ~pause /\ r.status = "PAUSED"
    <3>1. n = [r EXCEPT !.status = "PENDING", !.retry = "due"]
      BY <2>3, <2>6
    <3>2. n \in RowTypes /\ n.status = "PENDING" /\ n # NoRow /\ n.retry = "due"
      BY <3>1, NoRowType DEF RowTypes, Retries
    <3>3. QED
      BY <2>1, <2>2, <2>4, <2>6, <3>2
  <2>7. CASE ~(pause /\ r.status \in {"PENDING", "FAILED"}) /\ ~(~pause /\ r.status = "PAUSED")
    <3>1. n = r
      BY <2>3, <2>7
    <3>2. QED
      BY <2>1, <2>2, <2>4, <2>7, <3>1
  <2>8. QED
    BY <2>5, <2>6, <2>7
<1>8. rows' \in [Deliveries -> RowTypes]
  <2>1. DOMAIN rows' = Deliveries /\ rows' = [d \in Deliveries |-> rows'[d]]
    BY <1>3 DEF Moved
  <2>2. QED
    BY <1>7, <2>1
<1>9. ASSUME NEW d \in Deliveries
      PROVE  RowOK(d)'
  <2>1. RowOK(d)
    BY DEF IInv, RowInv
  <2>2. SUFFICES ASSUME rows'[d] # NoRow
        PROVE  /\ rows'[d].status = "DELIVERED" => received'[EventOf(d)] > 0
               /\ rows'[d].status = "PAUSED" => endpoint'.paused \/ d \in stale'
               /\ rows'[d].status \in {"PENDING", "FAILED"} =>
                     rows'[d].retry # "none" \/ d \in gaveUp' \cup mixed'
    BY DEF RowOK
  <2>3. d \in Stored /\ rows[d] # NoRow
    BY <1>7, <2>2 DEF Stored
  <2>4. rows'[d].status = "DELIVERED" => received'[EventOf(d)] > 0
    BY <1>3, <1>7, <2>1, <2>3 DEF RowOK
  <2>5. rows'[d].status = "PAUSED" => endpoint'.paused \/ d \in stale'
    BY <1>4, <1>5, <1>6, <1>7, <2>3
  <2>6. rows'[d].status \in {"PENDING", "FAILED"} =>
           rows'[d].retry # "none" \/ d \in gaveUp' \cup mixed'
    BY <1>3, <1>7, <2>1, <2>3 DEF RowOK
  <2>7. QED
    BY <2>4, <2>5, <2>6
<1>10. \A d \in Deliveries : tasks'[d] > 0 => rows'[d] # NoRow
  BY <1>3, <1>7 DEF IInv, StoreInv
<1>11. ASSUME NEW t \in Sessions \ {s}, job[t].pc = "enqueue"
       PROVE  rows'[job[t].cur] = NoRow
  <2>1. job[t].cur \in Deliveries /\ rows[job[t].cur] = NoRow
    BY <1>11 DEF IInv, JobInv, JobShape, StoreInv
  <2>2. QED
    BY <1>7, <2>1
<1>12. \A e \in Events \ excused', r \in (0..MaxReplays) \ {0} : rows'[<<e, r>>] = NoRow
  <2>1. \A e \in Events, r \in (0..MaxReplays) \ {0} : <<e, r>> \in Deliveries
    BY DeliveryIsPair
  <2>2. QED
    BY <1>3, <1>7, <2>1 DEF IInv, AloneInv
<1>13. \A e \in Events \ excused' :
          rows[<<e, 0>>].status = "DELIVERED" => rows'[<<e, 0>>].status = "DELIVERED"
  BY <1>7, DeliveryIsPair
<1>14. job[s].replay = 0 /\ job[s].pc \in {"enqueue", "retry", "pause", "resume", "copy"}
  BY <1>1, <1>3 DEF IInv, JobInv, JobShape
<1>15. tasks' \in [Deliveries -> Nat] /\ excused \subseteq excused' /\ excused' \subseteq Events
  BY <1>3, <1>4
<1>16. QED
  BY <1>3, <1>6, <1>7, <1>8, <1>9, <1>10, <1>11, <1>12, <1>13, <1>14, <1>15, StoreAndEndInv

(* A replay copies every delivery it has selected, or none.                *)
LEMMA CopyReplayInv ==
    ASSUME IInv, NEW s \in Sessions, CopyReplay(s)
    PROVE  IInv'
<1>1. PICK j \in JobTypes : j = job[s]
  BY DEF IInv, TypeInv
<1>2. PICK C : C = IF CopiesClash(j.todo) THEN {} ELSE {<<EventOf(d), j.replay>> : d \in j.todo}
  OBVIOUS
<1>3. /\ j.pc = "copy" /\ Become(s, Idle) /\ StaleIf(j, C)
      /\ rows' = [d \in Deliveries |-> IF d \in C THEN NewRow(j) ELSE rows[d]]
      /\ excused' = excused \cup {EventOf(d) : d \in C}
      /\ UNCHANGED <<endpoint, replays, alerts, tasks, received, begun, mixed, gaveUp, cut, raced>>
  BY <1>1, <1>2 DEF CopyReplay
<1>4. /\ rows \in [Deliveries -> RowTypes] /\ tasks \in [Deliveries -> Nat]
      /\ endpoint \in [active : BOOLEAN, paused : BOOLEAN]
      /\ excused \subseteq Events /\ stale \subseteq Deliveries
  BY DEF IInv, TypeInv, TypeOK, RowTypes
<1>5. /\ j.replay \in 1..MaxReplays /\ j.replay <= Len(replays)
      /\ j.todo = replays[j.replay] /\ j.todo \subseteq Deliveries
  BY <1>1, <1>3 DEF IInv, JobInv, JobShape, JobTypes
<1>6. ASSUME NEW d \in C
      PROVE  d \in Deliveries /\ EventOf(d) \in Events /\ EventOf(d) \in excused' /\ d[2] # 0
  <2>1. PICK f \in j.todo : d = <<EventOf(f), j.replay>>
    BY <1>2
  <2>2. EventOf(f) \in Events /\ j.replay \in 0..MaxReplays
    BY <1>5, DeliveryIsPair
  <2>3. QED
    BY <1>3, <1>5, <2>1, <2>2, DeliveryIsPair
<1>7. PICK new \in RowTypes : new = NewRow(j) /\ new # NoRow /\ new.status \in {"PAUSED", "PENDING"}
  <2>1. NewRow(j) \in RowTypes /\ NewRow(j) # NoRow /\ NewRow(j).status \in {"PAUSED", "PENDING"}
    BY NewRowType
  <2>2. QED
    BY <2>1
<1>8. /\ rows' \in [Deliveries -> RowTypes]
      /\ \A d \in Deliveries : rows'[d] = IF d \in C THEN new ELSE rows[d]
  BY <1>3, <1>4, <1>7
<1>9. stale' \subseteq Deliveries /\ stale \subseteq stale' /\ excused \subseteq excused' /\ excused' \subseteq Events
  BY <1>3, <1>4, <1>6 DEF StaleIf
<1>10. \A d \in Deliveries : rows'[d].status = "none" => rows'[d] = NoRow
  BY <1>7, <1>8 DEF IInv, StoreInv
<1>11. \A d \in Deliveries : rows[d] # NoRow => rows'[d] # NoRow
  BY <1>7, <1>8
<1>12. \A d \in Deliveries : tasks'[d] > 0 => rows'[d] # NoRow
  BY <1>3, <1>11 DEF IInv, StoreInv
<1>13. ASSUME NEW t \in Sessions \ {s}, job[t].pc = "enqueue"
       PROVE  rows'[job[t].cur] = NoRow
  <2>1. job[t].cur \in Deliveries /\ rows[job[t].cur] = NoRow /\ job[t].cur[2] = 0
    BY <1>13 DEF IInv, JobInv, JobShape, StoreInv
  <2>2. QED
    BY <1>6, <1>8, <2>1
<1>14. ASSUME NEW d \in Deliveries
       PROVE  RowOK(d)'
  <2>1. CASE d \in C
    BY <1>3, <1>4, <1>7, <1>8, <2>1, NewRowOK
  <2>2. CASE d \notin C
    <3>1. RowOK(d)
      BY DEF IInv, RowInv
    <3>2. QED
      BY <1>3, <1>8, <1>9, <2>2, <3>1, RowOKKept
  <2>3. QED
    BY <2>1, <2>2
<1>15. ASSUME NEW e \in Events \ excused', NEW r \in 0..MaxReplays
       PROVE  rows'[<<e, r>>] = rows[<<e, r>>]
  <2>1. <<e, r>> \in Deliveries /\ <<e, r>> \notin C
    BY <1>6, DeliveryIsPair
  <2>2. QED
    BY <1>8, <2>1
<1>16. \A e \in Events \ excused', r \in (0..MaxReplays) \ {0} : rows'[<<e, r>>] = NoRow
  BY <1>9, <1>15 DEF IInv, AloneInv
<1>17. \A e \in Events \ excused' :
          rows[<<e, 0>>].status = "DELIVERED" => rows'[<<e, 0>>].status = "DELIVERED"
  BY <1>15, LimitsAreNaturals DEF LimitsAreNaturals
<1>18. ASSUME NEW r \in (1..Len(replays)) \ cut, job[s].replay = r
       PROVE  \/ \A d \in replays[r] : <<EventOf(d), r>> \in Stored'
              \/ \E d, f \in replays[r] : d # f /\ EventOf(d) = EventOf(f)
  <2>1. r = j.replay /\ replays[r] = j.todo
    BY <1>1, <1>5, <1>18
  <2>2. CASE CopiesClash(j.todo)
    BY <2>1, <2>2 DEF CopiesClash
  <2>3. CASE ~CopiesClash(j.todo)
    <3>1. \A d \in j.todo : <<EventOf(d), r>> \in C
      BY <1>2, <2>1, <2>3
    <3>2. \A d \in C : d \in Stored'
      BY <1>6, <1>7, <1>8 DEF Stored
    <3>3. QED
      BY <2>1, <3>1, <3>2
  <2>4. QED
    BY <2>2, <2>3
<1>19. /\ job[s].pc \in {"enqueue", "retry", "pause", "resume", "copy"}
       /\ tasks' \in [Deliveries -> Nat] /\ endpoint' \in [active : BOOLEAN, paused : BOOLEAN]
  BY <1>1, <1>3, <1>4
<1>20. QED
  BY <1>3, <1>8, <1>9, <1>10, <1>11, <1>12, <1>13, <1>14, <1>16, <1>17, <1>18, <1>19, StoreAndEndInv

(* What a task stores of an attempt: the only session that carries an      *)
(* event that is not excused stores what became of it.                     *)
LEMMA RecordInv ==
    ASSUME IInv, NEW s \in Sessions, Record(s)
    PROVE  IInv'
<1>1. PICK j \in JobTypes : j = job[s]
  BY DEF IInv, TypeInv
<1>2. j.pc \in Sent /\ JobShape(j)
  BY <1>1 DEF Record, Sent, IInv, JobInv
<1>3. PICK d \in Deliveries : d = j.cur
  BY <1>2 DEF JobShape
<1>4. PICK old \in RowTypes : old = j.rows[d]
  BY DEF JobTypes
<1>5. PICK new : new = Result(j.pc, old)
  OBVIOUS
<1>6. /\ new \in RowTypes /\ new.status \notin {"none", "PENDING"}
      /\ new.status = "DELIVERED" <=> j.pc = "ok"
      /\ new.status = "PAUSED" <=> j.pc = "paused"
      /\ new.status = "FAILED" => new.retry # "none" \/ j.pc = "disabled"
  BY <1>2, <1>5, ResultType
<1>7. PICK w : w = Written(d, old, new)
  OBVIOUS
<1>8. /\ w \in RowTypes
      /\ w.status = IF new.status = old.status THEN rows[d].status ELSE new.status
  BY <1>6, <1>7, WrittenType DEF IInv
<1>9. PICK k : k = IF j.todo = {} THEN Idle
                   ELSE [j EXCEPT !.pc = "work", !.cur = NoDelivery, !.rows[d] = NoRow]
  OBVIOUS
<1>10. /\ k \in JobTypes /\ JobShape(k) /\ k.pc \in {"idle", "work"} /\ k.replay = 0
       /\ \A f \in Deliveries : Carries(k, f) => f \in j.todo /\ (f # d => k.rows[f] = j.rows[f])
  <2>1. CASE j.todo = {}
    BY <1>9, <2>1, IdleType, IdleShape
  <2>2. CASE j.todo # {}
    <3>1. k = [j EXCEPT !.pc = "work", !.cur = NoDelivery, !.rows[d] = NoRow]
      BY <1>9, <2>2
    <3>2. /\ k \in JobTypes /\ JobShape(k) /\ k.pc = "work" /\ k.todo = j.todo
          /\ \A f \in Deliveries : f # d => k.rows[f] = j.rows[f]
      BY <1>2, <3>1, RecordJob
    <3>3. QED
      BY <3>2 DEF Carries, Sent, JobShape
  <2>3. QED
    BY <2>1, <2>2
<1>11. /\ rows' = [rows EXCEPT ![d] = w]
       /\ mixed' = IF w = new THEN mixed ELSE mixed \cup {d}
       /\ gaveUp' = IF j.pc = "disabled" /\ new.retry = "none" THEN gaveUp \cup {d} ELSE gaveUp
       /\ stale' = IF j.pc = "paused" /\ ~endpoint.paused THEN stale \cup {d} ELSE stale
       /\ Become(s, k)
       /\ UNCHANGED <<endpoint, replays, alerts, tasks, received, begun, excused, cut, raced>>
  BY <1>1, <1>3, <1>4, <1>5, <1>7, <1>9 DEF Record, Mixes
<1>12. /\ job' \in [Sessions -> JobTypes] /\ job'[s] = k /\ JobInv'
       /\ \A t \in Sessions \ {s} : job'[t] = job[t]
  BY <1>10, <1>11, JobKept DEF IInv
<1>13. /\ rows \in [Deliveries -> RowTypes] /\ stale \subseteq Deliveries /\ gaveUp \subseteq Deliveries
       /\ endpoint \in [active : BOOLEAN, paused : BOOLEAN] /\ EventOf(d) \in Events
  BY DeliveryIsPair DEF IInv, TypeInv, TypeOK, RowTypes
<1>14. Carries(job[s], d) /\ rows[d] # NoRow /\ rows[d].status # "none"
  <2>1. Carries(job[s], d)
    BY <1>1, <1>2, <1>3 DEF Carries
  <2>2. QED
    BY <2>1 DEF IInv, StoreInv
<1>15. w.status # "none" /\ w # NoRow
  BY <1>6, <1>8, <1>14, NoRowType
<1>16. /\ rows' \in [Deliveries -> RowTypes] /\ rows'[d] = w
       /\ \A f \in Deliveries : f # d => rows'[f] = rows[f]
  BY <1>8, <1>11, <1>13
<1>17. /\ stale \subseteq stale' /\ stale' \subseteq Deliveries
       /\ gaveUp \subseteq gaveUp' /\ gaveUp' \subseteq Deliveries /\ mixed \subseteq mixed'
  BY <1>11, <1>13
<1>18. TypeInv'
  BY <1>11, <1>12, <1>16, <1>17 DEF IInv, TypeInv, TypeOK, JobTypes, RowTypes
<1>19. \A f \in Deliveries : Carries(k, f) => Carries(job[s], f)
  BY <1>1, <1>2, <1>10 DEF Carries
<1>20. StoreInv'
  <2>1. \A f \in Deliveries : rows'[f].status = "none" => rows'[f] = NoRow
    BY <1>15, <1>16 DEF IInv, StoreInv
  <2>2. \A f \in Deliveries : rows[f] # NoRow => rows'[f] # NoRow
    BY <1>15, <1>16
  <2>3. \A f \in Deliveries : tasks'[f] > 0 => rows'[f] # NoRow
    BY <1>11, <2>2 DEF IInv, StoreInv
  <2>4. \A f \in Deliveries : Carries(k, f) => rows'[f] # NoRow
    BY <1>19, <2>2 DEF IInv, StoreInv
  <2>5. ASSUME NEW t \in Sessions \ {s}, job[t].pc = "enqueue"
        PROVE  rows'[job[t].cur] = NoRow
    <3>1. job[t].cur \in Deliveries /\ rows[job[t].cur] = NoRow
      BY <2>5 DEF IInv, JobInv, JobShape, StoreInv
    <3>2. QED
      BY <1>14, <1>16, <3>1
  <2>6. k.pc # "retry" /\ k.pc # "enqueue"
    BY <1>10
  <2>7. QED
    BY <1>12, <2>1, <2>2, <2>3, <2>4, <2>5, <2>6, StoreKept DEF IInv
<1>21. RowInv'
  <2>1. ASSUME NEW f \in Deliveries
        PROVE  RowOK(f)'
    <3>1. RowOK(f)
      BY DEF IInv, RowInv
    <3>2. CASE f # d
      BY <1>11, <1>16, <1>17, <3>1, <3>2, RowOKKept
    <3>3. CASE f = d
      <4>1. w.status = "DELIVERED" => received'[EventOf(d)] > 0
        <5>1. j.pc = "ok" => received[EventOf(d)] > 0
          BY <1>1, <1>3 DEF IInv, RowInv
        <5>2. rows[d].status = "DELIVERED" => received[EventOf(d)] > 0
          BY <1>14, <3>1, <3>3 DEF RowOK
        <5>3. QED
          BY <1>6, <1>8, <1>11, <5>1, <5>2
      <4>2. w.status = "PAUSED" => endpoint'.paused \/ d \in stale'
        <5>1. j.pc = "paused" => endpoint'.paused \/ d \in stale'
          BY <1>11
        <5>2. rows[d].status = "PAUSED" => endpoint'.paused \/ d \in stale'
          BY <1>11, <1>14, <1>17, <3>1, <3>3 DEF RowOK
        <5>3. QED
          BY <1>6, <1>8, <5>1, <5>2
      <4>3. w.status \in {"PENDING", "FAILED"} => w.retry # "none" \/ d \in gaveUp' \cup mixed'
        <5>1. CASE w = new
          BY <1>6, <1>11, <5>1
        <5>2. CASE w # new
          BY <1>11, <5>2
        <5>3. QED
          BY <5>1, <5>2
      <4>4. QED
        BY <1>16, <3>3, <4>1, <4>2, <4>3 DEF RowOK
    <3>4. QED
      BY <3>2, <3>3
  <2>2. \A t \in Sessions : job'[t].pc = "ok" => received'[EventOf(job'[t].cur)] > 0
    BY <1>10, <1>11, <1>12 DEF IInv, RowInv
  <2>3. QED
    BY <2>1, <2>2 DEF RowInv
<1>22. ASSUME NEW e \in Events \ excused, NEW f \in Deliveries, f = <<e, 0>>
       PROVE  /\ Carries(k, f) => /\ Carries(job[s], f)
                                  /\ f # d /\ k.rows[f].status # "DELIVERED"
              /\ f = d => old.status # "DELIVERED"
  <2>1. f = d => f \notin j.todo
    BY <1>1, <1>2, <1>3, <1>22 DEF IInv, AloneInv
  <2>2. Carries(job[s], f) => j.rows[f].status # "DELIVERED"
    BY <1>1, <1>22 DEF IInv, AloneInv
  <2>3. QED
    BY <1>4, <1>10, <1>14, <1>19, <2>1, <2>2
<1>23. AloneInv'
  <2>1. ASSUME NEW e \in Events \ excused', NEW r \in (0..MaxReplays) \ {0}
        PROVE  rows'[<<e, r>>] = NoRow
    <3>1. <<e, r>> \in Deliveries /\ rows[<<e, r>>] = NoRow
      BY <1>11, DeliveryIsPair DEF IInv, AloneInv
    <3>2. QED
      BY <1>14, <1>16, <3>1
  <2>2. ASSUME NEW e \in Events \ excused', Carries(k, <<e, 0>>)
        PROVE  Carries(job[s], <<e, 0>>) /\ k.rows[<<e, 0>>].status # "DELIVERED"
    <3>1. PICK f \in Deliveries : f = <<e, 0>>
      BY DeliveryIsPair
    <3>2. QED
      BY <1>11, <1>22, <2>2, <3>1
  <2>3. k.pc \notin Sent
    BY <1>10 DEF Sent
  <2>4. QED
    BY <1>11, <1>12, <2>1, <2>2, <2>3, AloneKept DEF IInv
<1>24. OnceInv'
  <2>1. ASSUME NEW e \in Events \ excused, received[e] = 1
        PROVE  /\ ~Carries(k, <<e, 0>>)
               /\ rows[<<e, 0>>].status = "DELIVERED" => rows'[<<e, 0>>].status = "DELIVERED"
               /\ job[s].pc = "ok" /\ job[s].cur = <<e, 0>> => rows'[<<e, 0>>].status = "DELIVERED"
    <3>1. PICK f \in Deliveries : f = <<e, 0>>
      BY DeliveryIsPair
    <3>2. Carries(job[s], f) => j.pc = "ok" /\ f = d
      BY <1>1, <1>3, <2>1, <3>1 DEF IInv, OnceInv
    <3>3. f = d => rows'[f].status = "DELIVERED"
      BY <1>6, <1>8, <1>14, <1>16, <1>22, <3>1, <3>2
    <3>4. QED
      BY <1>1, <1>3, <1>16, <1>22, <3>1, <3>2, <3>3
  <2>2. \A e \in Events \ excused' : e \in Events \ excused /\ received'[e] = received[e]
    BY <1>11
  <2>3. excused \subseteq excused'
    BY <1>11
  <2>4. QED
    BY <1>12, <2>1, <2>2, <2>3, OnceKept DEF IInv
<1>25. ReplayIsWhole'
  <2>1. job[s].replay = 0
    BY <1>1, <1>2 DEF JobShape, Sent
  <2>2. \A f \in Deliveries : rows[f] # NoRow => rows'[f] # NoRow
    BY <1>15, <1>16
  <2>3. QED
    BY <1>11, <1>12, <2>1, <2>2, ReplaysKept DEF IInv
<1>26. OneOpenAlert'
  BY <1>11 DEF IInv, OneOpenAlert
<1>27. QED
  BY <1>12, <1>18, <1>20, <1>21, <1>23, <1>24, <1>25, <1>26 DEF IInv

(* The time of the next attempt comes.                                     *)
LEMMA TimePassesInv ==
    ASSUME IInv, NEW d \in Deliveries, TimePasses(d)
    PROVE  IInv'
<1>1. /\ rows[d].retry = "later" /\ rows' = [rows EXCEPT ![d].retry = "due"]
      /\ UNCHANGED <<endpoint, replays, alerts, tasks, job, received, begun, stale, mixed, gaveUp,
                     excused, cut, raced>>
  BY DEF TimePasses, history
<1>2. rows \in [Deliveries -> RowTypes]
  BY DEF IInv, TypeInv, TypeOK, RowTypes
<1>3. rows[d] # NoRow /\ rows[d].status # "none"
  BY <1>1, NoRowType DEF IInv, StoreInv
<1>4. /\ rows' \in [Deliveries -> RowTypes]
      /\ rows'[d].status = rows[d].status /\ rows'[d].retry = "due" /\ rows'[d] # NoRow
      /\ \A f \in Deliveries : f # d => rows'[f] = rows[f]
  <2>1. rows'[d] = [rows[d] EXCEPT !.retry = "due"] /\ \A f \in Deliveries : f # d => rows'[f] = rows[f]
    BY <1>1, <1>2
  <2>2. PICK r \in RowTypes : r = rows[d]
    BY <1>2
  <2>3. [r EXCEPT !.retry = "due"] \in RowTypes
    BY DEF RowTypes, Retries
  <2>4. rows'[d] \in RowTypes /\ rows'[d].status = rows[d].status /\ rows'[d].retry = "due"
    BY <2>1, <2>2, <2>3 DEF RowTypes
  <2>5. QED
    BY <1>1, <1>2, <2>1, <2>4, NoRowType
<1>5. \A f \in Deliveries : /\ rows'[f].status = rows[f].status
                            /\ rows'[f] = NoRow <=> rows[f] = NoRow
  BY <1>3, <1>4
<1>6. TypeInv'
  BY <1>1, <1>4 DEF IInv, TypeInv, TypeOK, RowTypes
<1>7. JobInv'
  BY <1>1 DEF IInv, JobInv, JobShape
<1>8. StoreInv'
  <2>1. \A f \in Deliveries : rows'[f].status = "none" => rows'[f] = NoRow
    BY <1>5 DEF IInv, StoreInv
  <2>2. \A f \in Deliveries : tasks'[f] > 0 => rows'[f] # NoRow
    BY <1>1, <1>5 DEF IInv, StoreInv
  <2>3. \A s \in Sessions, f \in Deliveries : Carries(job'[s], f) => rows'[f] # NoRow
    BY <1>1, <1>5 DEF IInv, StoreInv
  <2>4. ASSUME NEW s \in Sessions, job[s].pc \in {"retry", "enqueue"}
        PROVE  rows'[job[s].cur] = NoRow <=> rows[job[s].cur] = NoRow
    <3>1. job[s].cur \in Deliveries
      BY <2>4 DEF IInv, JobInv, JobShape
    <3>2. QED
      BY <1>5, <3>1
  <2>5. QED
    BY <1>1, <2>1, <2>2, <2>3, <2>4 DEF IInv, StoreInv, Carries
<1>9. RowInv'
  <2>1. ASSUME NEW f \in Deliveries
        PROVE  RowOK(f)'
    <3>1. RowOK(f)
      BY DEF IInv, RowInv
    <3>2. CASE f = d
      BY <1>1, <1>3, <1>4, <3>1, <3>2 DEF RowOK
    <3>3. CASE f # d
      BY <1>1, <1>4, <3>1, <3>3, RowOKKept
    <3>4. QED
      BY <3>2, <3>3
  <2>2. QED
    BY <1>1, <2>1 DEF IInv, RowInv
<1>10. \A e \in Events, r \in 0..MaxReplays : <<e, r>> \in Deliveries
  BY DeliveryIsPair
<1>11. AloneInv'
  BY <1>1, <1>5, <1>10 DEF IInv, AloneInv, Carries
<1>12. OnceInv'
  BY <1>1, <1>5, DeliveryIsPair DEF IInv, OnceInv, Carries
<1>13. ReplayIsWhole'
  <2>1. Stored' = Stored
    BY <1>5 DEF Stored
  <2>2. QED
    BY <1>1, <2>1 DEF IInv, ReplayIsWhole
<1>14. OneOpenAlert'
  BY <1>1 DEF IInv, OneOpenAlert
<1>15. QED
  BY <1>6, <1>7, <1>8, <1>9, <1>11, <1>12, <1>13, <1>14 DEF IInv

-----------------------------------------------------------------------------
(* The theorems.                                                           *)

(* The invariant holds when the system starts.                             *)
LEMMA InitInv == Init => IInv
<1> SUFFICES ASSUME Init
             PROVE  IInv
  OBVIOUS
<1>1. /\ endpoint = [active |-> TRUE, paused |-> FALSE] /\ rows = Nothing /\ replays = <<>>
      /\ alerts = {} /\ tasks = [d \in Deliveries |-> 0] /\ job = [s \in Sessions |-> Idle]
      /\ received = [e \in Events |-> 0] /\ begun = 0 /\ stale = {} /\ mixed = {} /\ gaveUp = {}
      /\ excused = {} /\ cut = {} /\ raced = FALSE
  BY DEF Init
<1>2. \A d \in Deliveries : rows[d] = NoRow
  BY <1>1 DEF Nothing
<1>3. rows \in [Deliveries -> RowTypes]
  BY <1>1, NoRowType DEF Nothing
<1>4. job \in [Sessions -> JobTypes] /\ \A s \in Sessions : job[s] = Idle
  BY <1>1, IdleType
<1>5. TypeInv
  <2>1. replays \in Seq(SUBSET Deliveries) /\ Len(replays) = 0 /\ MaxReplays \in Nat
    BY <1>1, LimitsAreNaturals DEF LimitsAreNaturals
  <2>2. QED
    BY <1>1, <1>3, <1>4, <2>1 DEF TypeInv, TypeOK, JobTypes, RowTypes, Many
<1>6. JobInv
  BY <1>4, IdleShape DEF JobInv
<1>7. StoreInv
  BY <1>1, <1>2, <1>4, IdleType DEF StoreInv
<1>8. RowInv
  BY <1>2, <1>4, IdleType DEF RowInv, RowOK
<1>9. \A e \in Events, r \in 0..MaxReplays : <<e, r>> \in Deliveries
  BY DeliveryIsPair
<1>10. AloneInv
  <2>1. \A e \in Events : ~Carries(Idle, <<e, 0>>)
    BY IdleType, DeliveryIsPair
  <2>2. QED
    BY <1>2, <1>4, <1>9, <2>1, IdleType DEF AloneInv
<1>11. OnceInv
  BY <1>1 DEF OnceInv
<1>12. ReplayIsWhole
  BY <1>1 DEF ReplayIsWhole
<1>13. OneOpenAlert
  <2>1. Cardinality(alerts) = 0
    BY <1>1, FS_EmptySet
  <2>2. QED
    BY <2>1 DEF OneOpenAlert
<1>14. QED
  BY <1>5, <1>6, <1>7, <1>8, <1>10, <1>11, <1>12, <1>13 DEF IInv

(* It is about the variables only.                                         *)
LEMMA StutterInv ==
    ASSUME IInv, UNCHANGED vars
    PROVE  IInv'
<1>1. UNCHANGED <<endpoint, rows, replays, alerts, tasks, job, received, begun, stale, mixed, gaveUp,
                  excused, cut, raced>>
  BY DEF vars, tables, history
<1>2. TypeInv' /\ JobInv' /\ StoreInv'
  BY <1>1 DEF IInv, TypeInv, TypeOK, JobInv, JobShape, StoreInv, Carries
<1>3. RowInv' /\ AloneInv' /\ OnceInv'
  BY <1>1 DEF IInv, RowInv, RowOK, AloneInv, OnceInv, Carries
<1>4. ReplayIsWhole' /\ OneOpenAlert'
  BY <1>1 DEF IInv, ReplayIsWhole, OneOpenAlert, Stored
<1>5. QED
  BY <1>2, <1>3, <1>4 DEF IInv

(* Every request or task that begins keeps the invariant.                  *)
LEMMA StartInv ==
    ASSUME IInv, NEW s \in Sessions, Start(s)
    PROVE  IInv'
<1>1. ASSUME NEW e \in Events, rows[<<e, 0>>] = NoRow,
             \A t \in Sessions : job[t].cur # <<e, 0>>, Request(s, "enqueue", <<e, 0>>)
      PROVE  IInv'
  <2>1. PICK d \in Deliveries : d = <<e, 0>>
    BY DeliveryIsPair
  <2>2. rows[d] = NoRow /\ d[2] = 0 /\ \A t \in Sessions \ {s} : job[t].cur # d
    BY <1>1, <2>1
  <2>3. Request(s, "enqueue", d) /\ d \in Deliveries \cup {NoDelivery}
    BY <1>1, <2>1
  <2>4. QED
    BY <2>2, <2>3, RequestInv
<1>2. ASSUME NEW d \in Stored, Request(s, "retry", d)
      PROVE  IInv'
  <2>1. d \in Deliveries /\ rows[d] # NoRow /\ d \in Deliveries \cup {NoDelivery}
    BY DEF Stored
  <2>2. QED
    BY <1>2, <2>1, RequestInv
<1>3. ASSUME NEW cmd \in {"pause", "resume", "enable", "disable"}, Request(s, cmd, NoDelivery)
      PROVE  IInv'
  <2>1. /\ cmd \in {"enqueue", "retry", "pause", "resume", "enable", "disable"}
        /\ cmd \notin {"enqueue", "retry"} /\ NoDelivery \in Deliveries \cup {NoDelivery}
    OBVIOUS
  <2>2. QED
    BY <1>3, <2>1, RequestInv
<1>4. QED
  BY <1>1, <1>2, <1>3, SelectReplayInv, LoadAlertsInv DEF Start

(* Every step keeps the invariant.                                         *)
LEMMA NextInv == IInv /\ [Next]_vars => IInv'
<1> SUFFICES ASSUME IInv, [Next]_vars
             PROVE  IInv'
  OBVIOUS
<1>1. CASE UNCHANGED vars
  BY <1>1, StutterInv
<1>2. CASE Exhausted
  BY <1>2, StutterInv DEF Exhausted
<1>3. ASSUME NEW d \in Deliveries, TimePasses(d)
      PROVE  IInv'
  BY <1>3, TimePassesInv
<1>4. ASSUME NEW s \in Sessions, Start(s) \/ Handle(s) \/ Deliver(s) \/ Sweep(s) \/ Crash(s)
      PROVE  IInv'
  <2>1. CASE Start(s)
    BY <2>1, StartInv
  <2>2. CASE Handle(s)
    BY <2>2, EnqueueDeliveryInv, RetryDeliveryInv, PauseOrResumeInv, EnableOrDisableInv,
       CopyReplayInv, OpenAlertInv, ResolveAlertInv DEF Handle
  <2>3. CASE Deliver(s)
    BY <2>3, AttemptInv, RecordInv DEF Deliver
  <2>4. CASE Sweep(s)
    BY <2>4, SweepInv
  <2>5. CASE Crash(s)
    BY <2>5, CrashInv
  <2>6. QED
    BY <1>4, <2>1, <2>2, <2>3, <2>4, <2>5
<1>5. ASSUME NEW s \in Sessions, NEW d \in Deliveries, Take(s, d)
      PROVE  IInv'
  BY <1>5, TakeInv
<1>6. QED
  BY <1>1, <1>2, <1>3, <1>4, <1>5 DEF Next

(* The invariant always holds.                                             *)
LEMMA InvHolds == Spec => []IInv
BY InitInv, NextInv, PTL DEF Spec

(* What a stored delivery says is true and leads on, whichever sessions    *)
(* stored its columns: DELIVERED was received, PAUSED belongs to a paused  *)
(* endpoint, PENDING and FAILED have a time to retry, but for the races    *)
(* and the disabled endpoint that are recorded.                            *)
THEOREM DeliveriesAreTrue == Spec => []RowsAreTrue
<1>1. IInv => RowsAreTrue
  <2> SUFFICES ASSUME IInv
               PROVE  RowsAreTrue
    OBVIOUS
  <2>1. \A d \in Deliveries : RowOK(d)
    BY DEF IInv, RowInv
  <2>2. DeliveredWasReceived /\ NoneStranded
    BY <2>1 DEF DeliveredWasReceived, NoneStranded, Stored, RowOK
  <2>3. TypeOK
    BY DEF IInv, TypeInv
  <2>4. QED
    BY <2>2, <2>3 DEF RowsAreTrue
<1>2. QED
  BY <1>1, InvHolds, PTL

(* An event that nobody asked to repeat, whose answer was not lost, whose  *)
(* message did not come late and that no two sessions had loaded at once   *)
(* reaches the receiver once at most.                                      *)
THEOREM EventsAreSentOnce == Spec => []SentOnce
<1>1. IInv => SentOnce
  BY DEF IInv, OnceInv, SentOnce
<1>2. QED
  BY <1>1, InvHolds, PTL

(* A replay whose request was not cut off has copied all it selected, or   *)
(* its selection clashed and it copied none.                               *)
THEOREM ReplaysAreWhole == Spec => []ReplayIsWhole
<1>1. IInv => ReplayIsWhole
  BY DEF IInv
<1>2. QED
  BY <1>1, InvHolds, PTL

(* evaluate_alerts keeps one alert open at most, unless two evaluations    *)
(* overlap.                                                                *)
THEOREM AlertsAreSingle == Spec => []OneOpenAlert
<1>1. IInv => OneOpenAlert
  BY DEF IInv
<1>2. QED
  BY <1>1, InvHolds, PTL
=============================================================================
