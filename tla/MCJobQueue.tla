----------------------------- MODULE MCJobQueue -----------------------------
(***************************************************************************)
(* Instances of JobQueue: two processes of one worker each on one table.   *)
(***************************************************************************)
EXTENDS JobQueue, TLC

CONSTANTS w1, w2, p1, p2

(* Each worker is a process of its own, so a crash takes one of them.      *)
OneEach == [w \in Workers |-> IF w = w1 THEN p1 ELSE p2]

(* The two are alike: swapping both workers and both processes changes     *)
(* nothing a safety property can tell.                                     *)
Swap == {(w1 :> w2) @@ (w2 :> w1) @@ (p1 :> p2) @@ (p2 :> p1)}

(* A plain kind, "mail", and a transactional one, "pay".                   *)
LeaseKinds == {"mail", "pay"}
LeasePriority == [k \in LeaseKinds |-> IF k = "pay" THEN 0 ELSE 1]
LeaseTimes == [k \in LeaseKinds |-> 1]
LeaseDelays == [k \in LeaseKinds |-> {0}]
LeasePeriod == [k \in LeaseKinds |-> 1]

(* Two schedules: "skip" drops a missed tick and holds its key through the *)
(* run, "queue" catches up and lets the key go.                            *)
TickKinds == {"skip", "queue"}
TickPriority == [k \in TickKinds |-> 1]
TickTimes == [k \in TickKinds |-> IF k = "skip" THEN 0 ELSE 1]
TickDelays == [k \in TickKinds |-> {0}]
TickPeriod == [k \in TickKinds |-> IF k = "skip" THEN 1 ELSE 2]
=============================================================================
