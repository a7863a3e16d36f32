-------------------------- MODULE WebhookDelivery --------------------------
(***************************************************************************)
(* Deliveries to one webhook endpoint of the integration hub               *)
(* (neft_integration_hub/services/webhooks.py): the tasks webhook.deliver, *)
(* sent by a handler, and webhook.retry, started every minute, and the     *)
(* handlers that send test events, repeat and replay deliveries, pause,    *)
(* resume and disable the endpoint and evaluate its alerts.                *)
(*                                                                         *)
(* No row is locked.  A session keeps the rows it has loaded, and its      *)
(* commit writes the columns that differ from what it loaded.  A delivery  *)
(* is its event and its replay, 0 for none.  Of the three kinds of alerts  *)
(* DELIVERY_FAILURE is modelled; the other two are stored the same way.    *)
(***************************************************************************)
EXTENDS Integers, Sequences, FiniteSets

CONSTANTS Sessions,      \* Celery workers and request handlers
          Events,        \* ids of test events
          MaxReplays,    \* bound: replays asked for
          MaxAttempts,   \* WEBHOOK_MAX_ATTEMPTS
          AlertAbove,    \* WEBHOOK_ALERT_FAILURE_THRESHOLD
          MaxCommands,   \* bound: requests and crashes
          NoDelivery

ASSUME LimitsAreNaturals ==
    /\ MaxAttempts \in Nat \ {0} /\ AlertAbove \in Nat
    /\ MaxReplays \in Nat /\ MaxCommands \in Nat

Deliveries == Events \X (0..MaxReplays)
EventOf(d) == d[1]

VARIABLES
    endpoint,  \* its columns status ("active") and delivery_paused ("paused")
    rows,      \* rows[d]: webhook_deliveries
    replays,   \* webhook_replays: what each has selected
    alerts,    \* open rows of webhook_alerts
    tasks,     \* tasks[d]: queued messages webhook.deliver
    job,       \* job[s]: what s works on
    received,  \* received[e]: how often the receiver got e, up to Many
    begun,     \* number of requests and crashes
    stale,     \* history: rows whose status came from an endpoint that had changed
    mixed,     \* history: rows with columns of two sessions that wrote at once
    gaveUp,    \* history: rows a disabled endpoint has used up
    excused,   \* history: events with a reason to be sent again
    cut,       \* history: replays whose request was cut off
    raced      \* history: an alert was opened although they had changed

tables == <<endpoint, rows, replays, alerts>>
history == <<begun, stale, mixed, gaveUp, excused, cut, raced>>
vars == <<tables, tasks, job, received, history>>

Many == 2   \* bound: more often is not told apart

NoRow == [status |-> "none", attempt |-> 0, retry |-> "none"]
Nothing == [d \in Deliveries |-> NoRow]
Idle == [pc |-> "idle", cur |-> NoDelivery, todo |-> {}, rows |-> Nothing,
         paused |-> FALSE, active |-> TRUE, replay |-> 0, alerts |-> {}]

Init ==
    /\ endpoint = [active |-> TRUE, paused |-> FALSE]
    /\ rows = Nothing
    /\ replays = <<>>
    /\ alerts = {}
    /\ tasks = [d \in Deliveries |-> 0]
    /\ job = [s \in Sessions |-> Idle]
    /\ received = [e \in Events |-> 0]
    /\ begun = 0 /\ stale = {} /\ mixed = {} /\ gaveUp = {} /\ excused = {}
    /\ cut = {} /\ raced = FALSE

Stored == {d \in Deliveries : rows[d] # NoRow}

(* The rows a session has loaded.                                          *)
Loaded(S) == [d \in Deliveries |-> IF d \in S THEN rows[d] ELSE NoRow]

Become(s, j) == job' = [job EXCEPT ![s] = j]

-----------------------------------------------------------------------------
(* The tasks.                                                              *)

(* Mutant: delivered rows with a time to retry are sent as well.           *)
PendingOrDelivered ==
    {d \in Stored : rows[d].retry # "later" /\ ~endpoint.paused
                    /\ rows[d].status \in {"PENDING", "FAILED", "DELIVERED"}}

(* pending_deliveries                                                      *)
Pending ==
    {d \in Stored : rows[d].retry = "due" /\ ~endpoint.paused
                    /\ rows[d].status \in {"PENDING", "FAILED"}}

(* Some other session has loaded a delivery of event e, too.               *)
Held(s, e) ==
    \E t \in Sessions \ {s}, d \in Deliveries :
        EventOf(d) = e /\ (d \in job[t].todo \/ d = job[t].cur)

(* webhook.retry loads all rows that are due.                              *)
Sweep(s) ==
    /\ job[s] = Idle
    /\ Pending # {}
    /\ Become(s, [Idle EXCEPT !.pc = "work", !.todo = Pending, !.rows = Loaded(Pending)])
    /\ excused' = excused \cup {e \in Events : Held(s, e) /\ \E d \in Pending : EventOf(d) = e}
    /\ UNCHANGED <<tables, tasks, received, begun, stale, mixed, gaveUp, cut, raced>>

(* webhook.deliver loads its row, whatever became of it since.             *)
Take(s, d) ==
    /\ job[s] = Idle
    /\ tasks[d] > 0
    /\ tasks' = [tasks EXCEPT ![d] = @ - 1]
    /\ Become(s, [Idle EXCEPT !.pc = "work", !.todo = {d}, !.rows = Loaded({d})])
    /\ excused' = IF rows[d].status = "DELIVERED" \/ Held(s, EventOf(d))
                  THEN excused \cup {EventOf(d)} ELSE excused
    /\ UNCHANGED <<tables, received, begun, stale, mixed, gaveUp, cut, raced>>

(* deliver_webhook finds the endpoint disabled or paused, or sends: the    *)
(* request reaches the receiver or not, and so does the answer.            *)
Attempt(s, d) ==
    LET e == EventOf(d) IN
    /\ job[s].pc = "work" /\ d \in job[s].todo
    /\ \E pc \in {"disabled", "paused", "ok", "error"}, arrives \in BOOLEAN :
          /\ pc = "disabled" <=> ~endpoint.active
          /\ pc = "paused" <=> endpoint.active /\ endpoint.paused
          /\ pc = "ok" => arrives
          /\ pc \in {"disabled", "paused"} => ~arrives
          /\ Become(s, [job[s] EXCEPT !.todo = @ \ {d}, !.cur = d, !.pc = pc])
          /\ received' = IF arrives /\ received[e] < Many
                         THEN [received EXCEPT ![e] = @ + 1] ELSE received
          /\ excused' = IF arrives /\ pc = "error" THEN excused \cup {e} ELSE excused
    /\ UNCHANGED <<tables, tasks, begun, stale, mixed, gaveUp, cut, raced>>

(* _next_retry                                                             *)
NextRetry(n) == IF n >= MaxAttempts THEN "none" ELSE "later"

(* Mutant: attempts are not counted.                                       *)
ResultUncounted(pc, old) ==
    CASE pc = "disabled" -> [old EXCEPT !.status = "FAILED", !.retry = "later"]
      [] pc = "paused"   -> [old EXCEPT !.status = "PAUSED", !.retry = "none"]
      [] pc = "ok"       -> [old EXCEPT !.status = "DELIVERED", !.retry = "none"]
      [] OTHER           -> [old EXCEPT !.status = "FAILED", !.retry = "later"]

(* What deliver_webhook makes of the row it has loaded.                    *)
Result(pc, old) ==
    LET n == old.attempt + 1 IN
    CASE pc = "disabled" -> [old EXCEPT !.attempt = n, !.status = "FAILED", !.retry = NextRetry(n)]
      [] pc = "paused"   -> [old EXCEPT !.status = "PAUSED", !.retry = "none"]
      [] pc = "ok"       -> [old EXCEPT !.attempt = n, !.status = "DELIVERED", !.retry = "none"]
      [] pc = "error" /\ NextRetry(n) = "none" -> [old EXCEPT !.attempt = n, !.status = "DEAD"]
      [] OTHER           -> [old EXCEPT !.attempt = n, !.status = "FAILED", !.retry = "later"]

(* UPDATE of the columns in which new differs from old.  A time to retry   *)
(* that is assigned (not for DEAD) differs from every other.               *)
Written(d, old, new) ==
    [rows[d] EXCEPT !.status = IF new.status = old.status THEN @ ELSE new.status,
                    !.attempt = IF new.attempt = old.attempt THEN @ ELSE new.attempt,
                    !.retry = IF new.status = "DEAD" \/ (new.retry = "none" /\ old.retry = "none")
                              THEN @ ELSE new.retry]

Mixes(d, old, new) ==
    mixed' = IF Written(d, old, new) = new THEN mixed ELSE mixed \cup {d}

Record(s) ==
    LET j == job[s]
        d == j.cur
        new == Result(j.pc, j.rows[d])
    IN
    /\ j.pc \in {"disabled", "paused", "ok", "error"}
    /\ rows' = [rows EXCEPT ![d] = Written(d, j.rows[d], new)]
    /\ Mixes(d, j.rows[d], new)
    /\ gaveUp' = IF j.pc = "disabled" /\ new.retry = "none" THEN gaveUp \cup {d} ELSE gaveUp
    /\ stale' = IF j.pc = "paused" /\ ~endpoint.paused THEN stale \cup {d} ELSE stale
    /\ Become(s, IF j.todo = {} THEN Idle
                 ELSE [j EXCEPT !.pc = "work", !.cur = NoDelivery, !.rows[d] = NoRow])
    /\ UNCHANGED <<endpoint, replays, alerts, tasks, received, begun, excused, cut, raced>>

TimePasses(d) ==
    /\ rows[d].retry = "later"
    /\ rows' = [rows EXCEPT ![d].retry = "due"]
    /\ UNCHANGED <<endpoint, replays, alerts, tasks, job, received, history>>

-----------------------------------------------------------------------------
(* The handlers.                                                           *)
Counted == begun < MaxCommands /\ begun' = begun + 1

(* The handler loads the endpoint, and the delivery.                       *)
Request(s, cmd, d) ==
    /\ job[s] = Idle
    /\ Counted
    /\ Become(s, [Idle EXCEPT !.pc = cmd, !.cur = d, !.rows = Loaded({d}),
                              !.paused = endpoint.paused, !.active = endpoint.active])
    /\ UNCHANGED <<tables, tasks, received, stale, mixed, gaveUp, excused, cut, raced>>

(* A new row is paused if the endpoint was when it was loaded.             *)
NewRow(j) ==
    [status |-> IF j.paused THEN "PAUSED" ELSE "PENDING", attempt |-> 0,
     retry |-> IF j.paused THEN "none" ELSE "due"]

StaleIf(j, S) == stale' = IF j.paused # endpoint.paused THEN stale \cup S ELSE stale

(* celery_app.send_task, if the handler lives to call it.                  *)
Notify(d) == tasks' = [tasks EXCEPT ![d] = @ + 1] \/ UNCHANGED tasks

(* test_webhook_endpoint, test_webhook_delivery: enqueue_delivery.         *)
EnqueueDelivery(s) ==
    LET j == job[s] IN
    /\ j.pc = "enqueue"
    /\ rows' = [rows EXCEPT ![j.cur] = NewRow(j)]
    /\ StaleIf(j, {j.cur})
    /\ Notify(j.cur)
    /\ Become(s, Idle)
    /\ UNCHANGED <<endpoint, replays, alerts, received, begun, mixed, gaveUp, excused, cut, raced>>

(* retry_delivery                                                          *)
RetryDelivery(s) ==
    LET j == job[s]
        d == j.cur
        new == [NewRow(j) EXCEPT !.attempt = j.rows[d].attempt]
    IN
    /\ j.pc = "retry"
    /\ rows' = [rows EXCEPT ![d] = Written(d, j.rows[d], new)]
    /\ Mixes(d, j.rows[d], new)
    /\ StaleIf(j, {d})
    /\ excused' = excused \cup {EventOf(d)}
    /\ IF rows'[d].retry = "none" THEN UNCHANGED tasks ELSE Notify(d)
    /\ Become(s, Idle)
    /\ UNCHANGED <<endpoint, replays, alerts, received, begun, gaveUp, cut, raced>>

(* The column c of the endpoint is written if it changes.                  *)
EndpointWith(c, old, new) == IF old = new THEN endpoint ELSE [endpoint EXCEPT ![c] = new]

(* Mutant: the paused deliveries are left as they are.                     *)
MovedButPaused(to) ==
    [d \in Deliveries |->
        IF to = "PAUSED" /\ rows[d].status \in {"PENDING", "FAILED"}
        THEN [rows[d] EXCEPT !.status = "PAUSED", !.retry = "none"] ELSE rows[d]]

(* The UPDATE of all rows by pause_endpoint and resume_endpoint.           *)
Moved(to) ==
    [d \in Deliveries |->
        CASE to = "PAUSED" /\ rows[d].status \in {"PENDING", "FAILED"} ->
                [rows[d] EXCEPT !.status = "PAUSED", !.retry = "none"]
          [] to = "PENDING" /\ rows[d].status = "PAUSED" ->
                [rows[d] EXCEPT !.status = "PENDING", !.retry = "due"]
          [] OTHER -> rows[d]]

(* pause_endpoint, resume_endpoint                                         *)
PauseOrResume(s) ==
    LET pause == job[s].pc = "pause" IN
    /\ job[s].pc \in {"pause", "resume"}
    /\ endpoint' = EndpointWith("paused", job[s].paused, pause)
    /\ rows' = Moved(IF pause THEN "PAUSED" ELSE "PENDING")
    /\ StaleIf(job[s], Stored)
    /\ Become(s, Idle)
    /\ UNCHANGED <<replays, alerts, tasks, received, begun, mixed, gaveUp, excused, cut, raced>>

(* update_endpoint                                                         *)
EnableOrDisable(s) ==
    /\ job[s].pc \in {"enable", "disable"}
    /\ endpoint' = EndpointWith("active", job[s].active, job[s].pc = "enable")
    /\ Become(s, Idle)
    /\ UNCHANGED <<rows, replays, alerts, tasks, received, history>>

(* schedule_replay selects all deliveries, replays included, or those that *)
(* failed, and commits the replay ...                                      *)
SelectReplay(s, onlyFailed) ==
    LET S == IF onlyFailed THEN {d \in Stored : rows[d].status \in {"FAILED", "DEAD"}}
             ELSE Stored
    IN
    /\ job[s] = Idle
    /\ Len(replays) < MaxReplays
    /\ Counted
    /\ replays' = Append(replays, S)
    /\ Become(s, [Idle EXCEPT !.pc = "copy", !.todo = S, !.replay = Len(replays) + 1,
                              !.paused = endpoint.paused])
    /\ UNCHANGED <<endpoint, rows, alerts, tasks, received, stale, mixed, gaveUp, excused, cut,
                   raced>>

(* Mutant: the key of a delivery is its event.                             *)
EventsAreUnique(S) == S # {}

(* uq_webhook_delivery_event refuses copies of S with one replay: the      *)
(* selection holds an event and a replay of it.                            *)
CopiesClash(S) == \E d, f \in S : d # f /\ EventOf(d) = EventOf(f)

(* ... and inserts a copy of each delivery, or raises.                     *)
CopyReplay(s) ==
    LET j == job[s]
        Copies == IF CopiesClash(j.todo) THEN {} ELSE {<<EventOf(d), j.replay>> : d \in j.todo}
    IN
    /\ j.pc = "copy"
    /\ rows' = [d \in Deliveries |-> IF d \in Copies THEN NewRow(j) ELSE rows[d]]
    /\ StaleIf(j, Copies)
    /\ excused' = excused \cup {EventOf(d) : d \in Copies}
    /\ Become(s, Idle)
    /\ UNCHANGED <<endpoint, replays, alerts, tasks, received, begun, mixed, gaveUp, cut, raced>>

-----------------------------------------------------------------------------
(* evaluate_alerts, of the handler get_webhook_sla.                        *)
LoadAlerts(s) ==
    LET failed == Cardinality({d \in Stored : rows[d].status \in {"FAILED", "DEAD"}})
    IN
    /\ job[s] = Idle
    /\ Counted
    /\ Become(s, [Idle EXCEPT !.pc = IF failed > AlertAbove THEN "trigger" ELSE "resolve",
                              !.alerts = alerts])
    /\ UNCHANGED <<tables, tasks, received, stale, mixed, gaveUp, excused, cut, raced>>

(* Mutant: an alert is opened although one is open.                        *)
NeverOpen(S) == TRUE

NoneOpen(S) == S = {}

OpenAlert(s) ==
    /\ job[s].pc = "trigger"
    /\ IF NoneOpen(job[s].alerts)
       THEN \E a \in 1..MaxCommands :
               /\ a \notin alerts /\ \A t \in Sessions : a \notin job[t].alerts
               /\ alerts' = alerts \cup {a}
               /\ raced' = (raced \/ alerts # job[s].alerts)
       ELSE UNCHANGED <<alerts, raced>>
    /\ Become(s, Idle)
    /\ UNCHANGED <<endpoint, rows, replays, tasks, received, begun, stale, mixed, gaveUp, excused,
                   cut>>

ResolveAlert(s) ==
    /\ job[s].pc = "resolve"
    /\ \/ job[s].alerts = {} /\ UNCHANGED alerts
       \/ \E a \in job[s].alerts : alerts' = alerts \ {a}
    /\ Become(s, Idle)
    /\ UNCHANGED <<endpoint, rows, replays, tasks, received, history>>

-----------------------------------------------------------------------------
(* Requests of partners.  A test event has a new id.                       *)
Start(s) ==
    \/ \E e \in Events :
          /\ rows[<<e, 0>>] = NoRow
          /\ \A t \in Sessions : job[t].cur # <<e, 0>>
          /\ Request(s, "enqueue", <<e, 0>>)
    \/ \E d \in Stored : Request(s, "retry", d)
    \/ \E cmd \in {"pause", "resume", "enable", "disable"} : Request(s, cmd, NoDelivery)
    \/ \E onlyFailed \in BOOLEAN : SelectReplay(s, onlyFailed)
    \/ LoadAlerts(s)

Handle(s) ==
    \/ EnqueueDelivery(s) \/ RetryDelivery(s)
    \/ PauseOrResume(s) \/ EnableOrDisable(s)
    \/ CopyReplay(s)
    \/ OpenAlert(s) \/ ResolveAlert(s)

Deliver(s) == (\E d \in Deliveries : Attempt(s, d)) \/ Record(s)

(* A process dies.  Its message is acknowledged and gone.                  *)
Crash(s) ==
    /\ job[s] # Idle
    /\ Counted
    /\ cut' = IF job[s].pc = "copy" THEN cut \cup {job[s].replay} ELSE cut
    /\ excused' = IF job[s].pc = "ok" THEN excused \cup {EventOf(job[s].cur)} ELSE excused
    /\ Become(s, Idle)
    /\ UNCHANGED <<tables, tasks, received, stale, mixed, gaveUp, raced>>

(* Bound: no request is left and nothing is in progress.                   *)
Exhausted ==
    /\ begun = MaxCommands /\ \A s \in Sessions : job[s] = Idle
    /\ UNCHANGED vars

Next ==
    \/ Exhausted
    \/ \E d \in Deliveries : TimePasses(d)
    \/ \E s \in Sessions :
          \/ Start(s) \/ Handle(s) \/ Deliver(s) \/ Sweep(s) \/ Crash(s)
          \/ \E d \in Deliveries : Take(s, d)

Spec == Init /\ [][Next]_vars

(* Handlers and tasks run on, beat starts webhook.retry every minute and   *)
(* the time of the next attempt comes.                                     *)
Fairness ==
    /\ \A s \in Sessions : WF_vars(Handle(s) \/ Deliver(s) \/ Sweep(s))
    /\ \A d \in Deliveries : WF_vars(TimePasses(d))

FairSpec == Spec /\ Fairness

-----------------------------------------------------------------------------
Retries == {"none", "due", "later"}
Pcs == {"idle", "work", "disabled", "paused", "ok", "error",
        "enqueue", "retry", "pause", "resume", "enable", "disable",
        "copy", "trigger", "resolve"}

(* Types.  The status SENT, which deliver_webhook assigns, is not stored.  *)
TypeOK ==
    /\ endpoint \in [active : BOOLEAN, paused : BOOLEAN]
    /\ rows \in [Deliveries -> [status : {"none", "PENDING", "PAUSED", "DELIVERED", "FAILED", "DEAD"},
                                attempt : Nat, retry : Retries]]
    /\ \A r \in 1..Len(replays) : replays[r] \subseteq Deliveries
    /\ alerts \subseteq 1..MaxCommands
    /\ tasks \in [Deliveries -> Nat]
    /\ \A s \in Sessions : job[s].pc \in Pcs /\ job[s].todo \subseteq Deliveries
    /\ received \in [Events -> 0..Many]
    /\ stale \subseteq Deliveries /\ gaveUp \subseteq Deliveries
    /\ excused \subseteq Events /\ cut \subseteq 1..MaxReplays

(* What is stored as DELIVERED has reached the receiver, whoever stored it.*)
DeliveredWasReceived ==
    \A d \in Stored : rows[d].status = "DELIVERED" => received[EventOf(d)] > 0

(* The receiver gets an event twice only if it was repeated on purpose, an *)
(* answer was lost, the message of a delivery came after its delivery, or  *)
(* two sessions had loaded it at once.                                     *)
SentOnce == \A e \in Events \ excused : received[e] <= 1

(* A delivery is paused only while its endpoint is, unless its status was  *)
(* taken from an endpoint that had changed; and what is pending or failed  *)
(* has a time to retry, unless a disabled endpoint used up its attempts or *)
(* the row is a mixture of what two sessions stored at once.               *)
NoneStranded ==
    \A d \in Stored :
        /\ rows[d].status = "PAUSED" => endpoint.paused \/ d \in stale
        /\ rows[d].status \in {"PENDING", "FAILED"} => rows[d].retry # "none" \/ d \in gaveUp \cup mixed

(* What a row says is true and leads on, whoever stored it.                *)
RowsAreTrue == TypeOK /\ DeliveredWasReceived /\ NoneStranded

(* A replay that was not cut off has copied every delivery it selected,    *)
(* unless it selected an event and a replay of it: then it copies none.    *)
ReplayIsWhole ==
    \A r \in (1..Len(replays)) \ cut :
        \/ \E s \in Sessions : job[s].replay = r
        \/ \A d \in replays[r] : <<EventOf(d), r>> \in Stored
        \/ \E d, f \in replays[r] : d # f /\ EventOf(d) = EventOf(f)

(* One alert is open at most, unless two evaluations overlap.              *)
OneOpenAlert == raced \/ Cardinality(alerts) <= 1

(* A delivery is delivered or given up at last, unless its endpoint is     *)
(* paused or it is stranded, although concurrent attempts can set its      *)
(* attempts back and revive a dead one.                                    *)
DeliverySettles ==
    \A d \in Deliveries :
        rows[d].status \in {"PENDING", "FAILED"} ~>
            \/ rows[d].status \in {"DELIVERED", "DEAD"}
            \/ endpoint.paused \/ d \in stale \cup mixed \cup gaveUp
=============================================================================
