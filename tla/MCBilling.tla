----------------------------- MODULE MCBilling ------------------------------
(***************************************************************************)
(* Small instances of BillingFlows and BillingRun for TLC.  The two share  *)
(* no table, so their steps commute; a behaviour of this specification is  *)
(* one of the flows or one of the runs, and the other stays as it began.   *)
(***************************************************************************)
EXTENDS BillingFlows, BillingRun, TLC

CONSTANTS s1, s2, t1, t2, i1, k1, r1, r2, n1, j1, j2, o1, o2

SmallPrice == (o1 :> 1) @@ (o2 :> 2)

BillingInit == Init /\ RunInit

BillingNext ==
    \/ Next /\ RunInit /\ UNCHANGED runVars
    \/ RunNext /\ Init /\ UNCHANGED vars

allVars == <<vars, runVars>>

BillingSpec ==
    /\ BillingInit /\ [][BillingNext]_allVars
    /\ \A s \in Sessions : WF_allVars(Step(s) /\ UNCHANGED runVars)

(* Every command of the flows ends, and the runs of BillingRun never wait  *)
(* for each other in a circle.                                             *)
NobodyWaitsForever == CommandEnds /\ []RunsNeverDeadlock
=============================================================================
