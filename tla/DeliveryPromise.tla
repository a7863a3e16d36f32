-------------------------- MODULE DeliveryPromise --------------------------
(***************************************************************************)
(* What a transactional outbox promises to the consumers of its stream:    *)
(* only events of committed business rows are delivered, an event is       *)
(* marked published only after it was delivered, and an event that is      *)
(* settled, published or given up, is never touched again.                 *)
(***************************************************************************)
CONSTANT Events

VARIABLES accepted,    \* events whose business row is committed
          delivered,   \* events the stream holds at least once
          published,   \* events settled as published
          abandoned    \* events settled as failed

vars == <<accepted, delivered, published, abandoned>>

Init == accepted = {} /\ delivered = {} /\ published = {} /\ abandoned = {}

Open == accepted \ (published \cup abandoned)

Accept(e) ==
    /\ e \notin accepted
    /\ accepted' = accepted \cup {e}
    /\ UNCHANGED <<delivered, published, abandoned>>

Deliver(e) ==
    /\ e \in Open
    /\ delivered' = delivered \cup {e}
    /\ UNCHANGED <<accepted, published, abandoned>>

(* A batch of events is settled at once.                                   *)
Settle(P, A) ==
    /\ P \subseteq Open \cap delivered
    /\ A \subseteq Open \ P
    /\ published' = published \cup P
    /\ abandoned' = abandoned \cup A
    /\ UNCHANGED <<accepted, delivered>>

Next ==
    \/ \E e \in Events : Accept(e) \/ Deliver(e)
    \/ \E P, A \in SUBSET Events : Settle(P, A)

Spec == Init /\ [][Next]_vars
=============================================================================
