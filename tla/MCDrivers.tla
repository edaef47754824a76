----------------------------- MODULE MCDrivers -----------------------------
(* Instances of the comparison harnesses for TLC.                          *)
EXTENDS Drivers

MCPort == [c \in Cands |-> 1]
MCProcs == [c \in Cands |-> IF c = "bun8" THEN 2 ELSE 1]
TwoOrder == <<"bun1", "bun8">>
MCSteps == <<1, 2, 4>>
=============================================================================
