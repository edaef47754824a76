---------------------------- MODULE MCIdempotent ----------------------------
(* Instances of Idempotent for TLC.                                        *)
EXTENDS Idempotent, TLC

CONSTANT Other  \* the request that carries the key by mistake

MCBody == [r \in Requests |-> IF r = Other THEN "other" ELSE "same"]

Swap == Permutations(Requests \ {Other})
=============================================================================
