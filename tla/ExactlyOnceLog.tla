--------------------------- MODULE ExactlyOnceLog ---------------------------
(***************************************************************************)
(* What the internal ledger promises its users, without sessions, hashes   *)
(* or constraints: per tenant an append-only log of batches, in which a    *)
(* batch stays where it was written and an idempotency key is used once.   *)
(***************************************************************************)
EXTENDS Integers, Sequences

CONSTANTS Tenants, Keys, Batches

VARIABLE log    \* log[t]: the batches of tenant t, oldest first

Record == [key : Keys, batch : Batches]

Init == log = [t \in Tenants |-> <<>>]

(* A database transaction may carry several batches, of several tenants.   *)
IsExtension(new, old) ==
    /\ Len(new) >= Len(old)
    /\ \A n \in 1..Len(old) : new[n] = old[n]

UsedOnce(l) ==
    \A t, u \in Tenants : \A m \in 1..Len(l[t]), n \in 1..Len(l[u]) :
        l[t][m].key = l[u][n].key => t = u /\ m = n

AppendBatches ==
    /\ log' \in [Tenants -> Seq(Record)]
    /\ \A t \in Tenants : IsExtension(log'[t], log[t])
    /\ UsedOnce(log')

Spec == Init /\ [][AppendBatches]_log
=============================================================================
