------------------------------- MODULE MCRoom -------------------------------
(* Instances of Room for TLC.                                              *)
EXTENDS Room, TLC

CONSTANTS c1, c2, c3, f1, f2

UnitSizes == [p \in Posts |-> 1]
SecondIsBig == [p \in Posts |-> IF p = 2 THEN 2 ELSE 1]

(* Two fibers that only speak, or two sockets, are as good as each other.  *)
Swap == Permutations({f1, f2}) \cup Permutations({c2, c3})
=============================================================================
