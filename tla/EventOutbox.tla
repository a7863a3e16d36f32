---------------------------- MODULE EventOutbox ----------------------------
(***************************************************************************)
(* The transactional outbox: publish_event of app/services/event_outbox.py *)
(* as create_card (app/api/routes/cards.py) uses it, and the workers of    *)
(* app/event_worker.py that move the rows to a Redis stream.               *)
(*                                                                         *)
(* An event is identified by its unique idempotency key, here the card it  *)
(* announces.  The stream is modelled by the number of copies of every     *)
(* event it holds: order and payload are not looked at.  Wall-clock time   *)
(* is the stamp of a row (only its order counts) and, for the backoff, a   *)
(* flag that tells whether next_attempt_at has passed.                     *)
(***************************************************************************)
EXTENDS Integers, FiniteSets

CONSTANTS OutboxEvents,
          Workers,      \* processes running event_worker.run_forever
          BatchSize,    \* EVENT_OUTBOX_BATCH_SIZE
          MaxRetries,   \* EVENT_OUTBOX_MAX_RETRIES
          MaxStamp,     \* bound: requests that reach the database
          MaxCrashes    \* bound: lost workers and failed commits

ASSUME BoundsAreNaturals ==
    /\ BatchSize \in Nat \ {0}
    /\ MaxRetries \in Nat
    /\ MaxStamp \in Nat
    /\ MaxCrashes \in Nat

VARIABLES
    cards,       \* committed cards
    status,      \* status[e]: of the outbox row, "absent" or "inserted"
                 \* before its transaction is committed
    stamp,       \* stamp[e]: created_at
    retries,     \* retries[e]
    due,         \* due[e]: next_attempt_at <= now
    work,        \* work[w][e]: what w, which has locked the row, did with e
    copies,      \* copies[e]: entries of the stream for e
    clock,       \* the current time
    crashes,     \* how often a batch was lost
    unrecorded   \* unrecorded[e]: deliveries no worker has seen succeed

outboxRows == <<status, stamp, retries, due>>
outboxVars == <<cards, status, stamp, retries, due, work, copies, clock, crashes,
                unrecorded>>

Settled == {"published", "failed"}

NoWork == [e \in OutboxEvents |-> "free"]

OutboxInit ==
    /\ cards = {}
    /\ status  = [e \in OutboxEvents |-> "absent"]
    /\ stamp   = [e \in OutboxEvents |-> 0]
    /\ retries = [e \in OutboxEvents |-> 0]
    /\ due     = [e \in OutboxEvents |-> TRUE]
    /\ work    = [w \in Workers |-> NoWork]
    /\ copies  = [e \in OutboxEvents |-> 0]
    /\ clock = 0 /\ crashes = 0
    /\ unrecorded = [e \in OutboxEvents |-> 0]

-----------------------------------------------------------------------------
(* create_card: the card and its event are inserted by one transaction.    *)
(* created_at is the time the transaction began.                           *)

InsertCard(e) ==
    /\ status[e] = "absent"
    /\ clock < MaxStamp
    /\ clock' = clock + 1
    /\ stamp' = [stamp EXCEPT ![e] = clock]
    /\ status' = [status EXCEPT ![e] = "inserted"]
    /\ UNCHANGED <<cards, retries, due, work, copies, crashes, unrecorded>>

CommitCard(e) ==
    /\ status[e] = "inserted"
    /\ cards' = cards \cup {e}
    /\ status' = [status EXCEPT ![e] = "pending"]
    /\ UNCHANGED <<stamp, retries, due, work, copies, clock, crashes, unrecorded>>

RollbackCard(e) ==
    /\ status[e] = "inserted"
    /\ status' = [status EXCEPT ![e] = "absent"]
    /\ UNCHANGED <<cards, stamp, retries, due, work, copies, clock, crashes,
                   unrecorded>>

(* The same card again: uq_event_outbox_idempotency refuses the row, and   *)
(* the transaction with it.                                                *)
InsertRefused(e) ==
    /\ e \in cards
    /\ UNCHANGED outboxVars

-----------------------------------------------------------------------------
(* event_worker.run_once                                                   *)

(* Mutant: rows other workers are busy with are not left out.              *)
NeverLocked(e) == FALSE

(* The row is locked FOR UPDATE by a worker.                               *)
Locked(e) == \E w \in Workers : work[w][e] # "free"

Fetchable == {e \in OutboxEvents : status[e] = "pending" /\ due[e] /\ ~Locked(e)}

(* ORDER BY created_at LIMIT BATCH_SIZE FOR UPDATE SKIP LOCKED.            *)
IsBatch(S) ==
    /\ S \subseteq Fetchable
    /\ S # {}
    /\ Cardinality(S) <= BatchSize
    /\ S = Fetchable \/ Cardinality(S) = BatchSize
    /\ \A e \in S, f \in Fetchable \ S : stamp[e] <= stamp[f]

FetchBatch(w) ==
    /\ work[w] = NoWork
    /\ \E S \in SUBSET OutboxEvents :
          /\ IsBatch(S)
          /\ work' = [work EXCEPT ![w] =
                        [e \in OutboxEvents |-> IF e \in S THEN "todo" ELSE "free"]]
    /\ UNCHANGED <<cards, outboxRows, copies, clock, crashes, unrecorded>>

(* Nothing to do: the worker sleeps.                                       *)
FetchNothing(w) ==
    /\ work[w] = NoWork
    /\ Fetchable = {}
    /\ UNCHANGED outboxVars

(* The for loop of run_once has come to e.                                 *)
IsNext(w, e) ==
    /\ work[w][e] = "todo"
    /\ \A f \in OutboxEvents : work[w][f] = "todo" => stamp[e] <= stamp[f]

(* _process_event: XADD succeeds.                                          *)
Publish(w, e) ==
    /\ IsNext(w, e)
    /\ copies' = [copies EXCEPT ![e] = @ + 1]
    /\ work' = [work EXCEPT ![w][e] = "ok"]
    /\ UNCHANGED <<cards, outboxRows, clock, crashes, unrecorded>>

(* ... or raises, before Redis has executed it ...                         *)
PublishFails(w, e) ==
    /\ IsNext(w, e)
    /\ work' = [work EXCEPT ![w][e] = "error"]
    /\ UNCHANGED <<cards, outboxRows, copies, clock, crashes, unrecorded>>

(* ... or after that, when only the answer is lost.                        *)
AnswerLost(w, e) ==
    /\ IsNext(w, e)
    /\ copies' = [copies EXCEPT ![e] = @ + 1]
    /\ unrecorded' = [unrecorded EXCEPT ![e] = @ + 1]
    /\ work' = [work EXCEPT ![w][e] = "error"]
    /\ UNCHANGED <<cards, outboxRows, clock, crashes>>

(* Mutant: an event that keeps failing is tried for ever.                  *)
NeverGivesUp(n) == FALSE

(* Mutant: the last retry is left out.                                     *)
GivesUpEarly(n) == n >= MaxRetries

(* retries > MAX_RETRIES, n being the failures so far.                     *)
GivesUp(n) == n > MaxRetries

(* Mutant: the status is set although XADD raised.                         *)
PublishedAnyhow(e, result) ==
    IF result \in {"ok", "error"} THEN "published" ELSE status[e]

(* The status _process_event gives an event.                               *)
NewStatus(e, result) ==
    CASE result = "ok"    -> "published"
      [] result = "error" -> IF GivesUp(retries[e] + 1) THEN "failed" ELSE "pending"
      [] OTHER            -> status[e]

(* The commit at the end of the batch records all of it.                   *)
CommitBatch(w) ==
    /\ work[w] # NoWork
    /\ \A e \in OutboxEvents : work[w][e] # "todo"
    /\ status'  = [e \in OutboxEvents |-> NewStatus(e, work[w][e])]
    /\ retries' = [e \in OutboxEvents |->
                      IF work[w][e] = "error" THEN retries[e] + 1 ELSE retries[e]]
    /\ due'     = [e \in OutboxEvents |-> work[w][e] # "error" /\ due[e]]
    /\ work'    = [work EXCEPT ![w] = NoWork]
    /\ UNCHANGED <<cards, stamp, copies, clock, crashes, unrecorded>>

(* The worker dies or its commit fails: the locks are released and nothing *)
(* of the batch is recorded, the failures neither.                         *)
LoseBatch(w) ==
    /\ work[w] # NoWork
    /\ crashes < MaxCrashes
    /\ crashes' = crashes + 1
    /\ unrecorded' = [e \in OutboxEvents |->
                         IF work[w][e] = "ok" THEN unrecorded[e] + 1 ELSE unrecorded[e]]
    /\ work' = [work EXCEPT ![w] = NoWork]
    /\ UNCHANGED <<cards, outboxRows, copies, clock>>

(* Mutant: an event that has failed once is never due again.               *)
BackoffLasts(e) ==
    /\ status[e] = "pending" /\ ~due[e] /\ due[e]
    /\ UNCHANGED outboxVars

(* compute_backoff: its schedule is finite, so next_attempt_at passes.     *)
BackoffExpires(e) ==
    /\ status[e] = "pending" /\ ~due[e]
    /\ due' = [due EXCEPT ![e] = TRUE]
    /\ UNCHANGED <<cards, status, stamp, retries, work, copies, clock, crashes,
                   unrecorded>>

-----------------------------------------------------------------------------
CardRequest(e) == InsertCard(e) \/ CommitCard(e) \/ RollbackCard(e) \/ InsertRefused(e)

PublishAttempt(w, e) == Publish(w, e) \/ PublishFails(w, e) \/ AnswerLost(w, e)

RunOnce(w) ==
    \/ FetchBatch(w) \/ FetchNothing(w)
    \/ (\E e \in OutboxEvents : PublishAttempt(w, e)) \/ CommitBatch(w)

OutboxNext ==
    \/ \E e \in OutboxEvents : CardRequest(e) \/ BackoffExpires(e)
    \/ \E w \in Workers : RunOnce(w) \/ LoseBatch(w)

OutboxSpec == OutboxInit /\ [][OutboxNext]_outboxVars

(* run_forever polls again after every exception, and time passes.         *)
OutboxFairness ==
    /\ \A w \in Workers : WF_outboxVars(RunOnce(w))
    /\ \A e \in OutboxEvents : WF_outboxVars(BackoffExpires(e))

OutboxFairSpec == OutboxSpec /\ OutboxFairness

-----------------------------------------------------------------------------
(* Properties.                                                             *)

(* Types, and the limit of the retry counter: MAX_RETRIES failures lead to *)
(* another attempt, one more to the end.                                   *)
OutboxTypeOK ==
    /\ cards \subseteq OutboxEvents
    /\ status \in [OutboxEvents -> {"absent", "inserted", "pending"} \cup Settled]
    /\ stamp \in [OutboxEvents -> Nat]
    /\ retries \in [OutboxEvents -> 0..(MaxRetries + 1)]
    /\ due \in [OutboxEvents -> BOOLEAN]
    /\ work \in [Workers -> [OutboxEvents -> {"free", "todo", "ok", "error"}]]
    /\ copies \in [OutboxEvents -> Nat]
    /\ clock \in Nat /\ crashes \in Nat
    /\ unrecorded \in [OutboxEvents -> Nat]

(* Concurrent workers do not deliver an event twice: whatever the stream   *)
(* holds beyond one copy was delivered by a worker that did not live to    *)
(* record it, or without an answer from Redis.                             *)
DuplicatesAreUnrecorded == \A e \in OutboxEvents : copies[e] <= 1 + unrecorded[e]

(* An event is given up only after MAX_RETRIES + 1 recorded failures, and  *)
(* then it is.                                                             *)
GivenUpWhenExhausted ==
    \A e \in OutboxEvents : status[e] = "failed" <=> retries[e] = MaxRetries + 1

Promise == INSTANCE DeliveryPromise
             WITH Events    <- OutboxEvents,
                  accepted  <- cards,
                  delivered <- {e \in OutboxEvents : copies[e] > 0},
                  published <- {e \in OutboxEvents : status[e] = "published"},
                  abandoned <- {e \in OutboxEvents : status[e] = "failed"}

(* The outbox keeps the promise of DeliveryPromise, through rolled back    *)
(* requests, lost batches and lost answers.                                *)
KeepsDeliveryPromise == Promise!Spec

(* The event of every committed card is published or given up in the end.  *)
EventSettles == \A e \in OutboxEvents : e \in cards ~> status[e] \in Settled
=============================================================================
