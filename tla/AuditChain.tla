----------------------------- MODULE AuditChain -----------------------------
(***************************************************************************)
(* The audit log (app/services/audit_service.py): one chain of a tenant.   *)
(* AuditService.audit reads the latest record without a lock and inserts a *)
(* successor, which becomes visible when the transaction of the caller     *)
(* commits; nothing forbids two successors of one record.                  *)
(*                                                                         *)
(* A record stands for the run of records one transaction appends.  Its id *)
(* stands for its hash as well: the hash covers the id and all other data. *)
(***************************************************************************)
EXTENDS Integers

CONSTANTS Sessions,
          Ids,      \* random primary keys; bound: the records written
          Clock     \* what datetime.now may return, on any machine

ASSUME IdsAreNumbers == Ids \subseteq Nat \ {0} /\ Clock \subseteq Nat

VARIABLES
    log,    \* audit_log
    tip,    \* tip[s]: what _latest_record has returned to s
    forked  \* history: a record was written that does not follow the latest

auditVars == <<log, tip, forked>>

Genesis == [id |-> 0, ts |-> 0, prev |-> 0]

(* ORDER BY ts, id                                                         *)
Before(q, r) == q.ts < r.ts \/ (q.ts = r.ts /\ q.id < r.id)

(* r is the latest record of S, or there is none and r is Genesis.         *)
IsLatest(r, S) ==
    \/ S = {} /\ r = Genesis
    \/ r \in S /\ \A q \in S : q = r \/ Before(q, r)

AuditInit == log = {} /\ tip = [s \in Sessions |-> Genesis] /\ forked = FALSE

(* The records a session may read as the latest.                           *)
Visible == log \cup {Genesis}

ReadLatest(s) ==
    /\ \E r \in Visible : IsLatest(r, log) /\ tip' = [tip EXCEPT ![s] = r]
    /\ UNCHANGED <<log, forked>>

(* Mutant: the clock is trusted.                                           *)
ClockStamp(last, now) == now

(* The time stamp of a record after last.                                  *)
Stamp(last, now) == IF now > last.ts THEN now ELSE last.ts + 1

(* Mutant: every record is written as the first one.                       *)
LinkToGenesis(s) == Genesis.id

Link(s) == tip[s].id

(* The record that s has flushed is committed.                             *)
AppendRecord(s) ==
    /\ \E i \in Ids, now \in Clock :
          /\ \A r \in log : r.id # i
          /\ log' = log \cup {[id |-> i, ts |-> Stamp(tip[s], now), prev |-> Link(s)]}
    /\ forked' = (forked \/ ~IsLatest(tip[s], log))
    /\ tip' = [tip EXCEPT ![s] = Genesis]

(* The transaction is rolled back.                                         *)
Discard(s) ==
    /\ tip' = [tip EXCEPT ![s] = Genesis]
    /\ UNCHANGED <<log, forked>>

AuditNext == \E s \in Sessions : ReadLatest(s) \/ AppendRecord(s) \/ Discard(s)

AuditSpec == AuditInit /\ [][AuditNext]_auditVars

-----------------------------------------------------------------------------
(* The link verify_chain expects of r among the records S of its range.    *)
Expected(r, S) ==
    LET below == {q \in S : Before(q, r)} IN
    IF below = {} THEN {Genesis.id} ELSE {q.id : q \in {p \in below : IsLatest(p, below)}}

(* verify_chain of the records from ts n on.                               *)
Verifies(n) ==
    LET S == {r \in log : r.ts >= n} IN \A r \in S : r.prev \in Expected(r, S)

-----------------------------------------------------------------------------
(* Every record follows one that is stored and older, also after forks and *)
(* rollbacks: nobody chains to a record that was never committed.          *)
LinksAreStored ==
    \A r \in log : \E q \in Visible : q.id = r.prev /\ q.ts < r.ts

(* The whole log verifies, unless a record was written after another than  *)
(* the latest, i.e. two transactions audited at the same time.             *)
HonestLogVerifies == forked \/ Verifies(0)

(* verify_chain starts every range with GENESIS: it accepts a range of an  *)
(* honest log only if the range is empty or begins with the first record.  *)
OnlyWholeLogVerifies ==
    forked \/ \A r \in log : Verifies(r.ts) <=> r.prev = Genesis.id
=============================================================================
