------------------------------ MODULE FairGate ------------------------------
(* What a Gate promises: AtOnce turns, lent out first come, first served.  *)
EXTENDS Integers, Sequences, FiniteSets

CONSTANTS Callers, AtOnce

VARIABLES
    line,   \* who waits, oldest first
    turn    \* who has a turn

vars == <<line, turn>>

Idle(c) == c \notin turn /\ \A i \in DOMAIN line : line[i] # c
Spare == line = <<>> /\ Cardinality(turn) < AtOnce

Init == line = <<>> /\ turn = {}

Pass(c) == Idle(c) /\ Spare /\ turn' = turn \cup {c} /\ UNCHANGED line
Queue(c) == Idle(c) /\ ~Spare /\ line' = Append(line, c) /\ UNCHANGED turn

(* A caller gives its place up; those behind it move up.                   *)
Quit(c) ==
    /\ \E i \in DOMAIN line :
         /\ line[i] = c
         /\ line' = [j \in 1..(Len(line) - 1) |-> line[IF j < i THEN j ELSE j + 1]]
    /\ UNCHANGED turn

(* A turn goes straight to the oldest waiter.                              *)
Return(c) ==
    /\ c \in turn
    /\ \/ line = <<>> /\ turn' = turn \ {c} /\ UNCHANGED line
       \/ line # <<>> /\ turn' = (turn \ {c}) \cup {Head(line)} /\ line' = Tail(line)

Next == \E c \in Callers : Pass(c) \/ Queue(c) \/ Quit(c) \/ Return(c)

Spec == Init /\ [][Next]_vars
=============================================================================
