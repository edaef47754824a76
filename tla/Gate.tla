-------------------------------- MODULE Gate --------------------------------
(***************************************************************************)
(* A Gate (http/bulkhead.zig): a lock that lets AtOnce callers through and *)
(* parks the rest in a linked list of nodes, each on its waiter's stack.   *)
(*                                                                         *)
(* `leave` hands the turn to the oldest waiter and signals its condition.  *)
(* The waiter may be leaving already: its condition has ended by a timeout *)
(* or a cancellation and it is on its way back to the Gate's lock.  Each   *)
(* action below is what one caller does under one hold of that lock, or    *)
(* (Stir) the end of its wait outside it.  A caller refused the lock by a  *)
(* cancellation, and enterWithin(0) finding no turn, change nothing and    *)
(* are left out.                                                           *)
(***************************************************************************)
EXTENDS Integers, Sequences, FiniteSets

CONSTANTS
    Callers,    \* the fibers that use the Gate
    Nil,        \* the null pointer
    Asked       \* what `open` was asked to let through at once

ASSUME GateAssumption ==
    /\ IsFiniteSet(Callers)
    /\ Nil \notin Callers
    /\ Asked \in Nat

VARIABLES
    free,       \* _free
    head,       \* _head
    tail,       \* _tail
    waiting,    \* _waiting
    next,       \* Waiter.next of each caller's node
    granted,    \* Waiter.granted of each caller's node
    limited,    \* whether the caller set a limit to its wait
    woke,       \* how the wait on Waiter.wake ended, "no" while it goes on
    at,         \* where each caller is
    before      \* history: who was in line when this caller joined it

vars == <<free, head, tail, waiting, next, granted, limited, woke, at, before>>

Pointer == Callers \cup {Nil}
Ends == {"signal", "timeout", "cancel"}

(* open: zero is read as one.                                              *)
AtOnce == IF Asked > 1 THEN Asked ELSE 1

(* The callers a turn can still be handed to: parked and not named yet.    *)
InLine == {c \in Callers : at[c] = "parked" /\ ~granted[c]}

(* The callers a turn belongs to, from the instant `leave` names them.     *)
Holders == {c \in Callers : at[c] = "inside" \/ (at[c] = "parked" /\ granted[c])}

(* Those in line that came before c.                                       *)
Ahead(c) == before[c] \cap InLine

TypeOK ==
    /\ free \in Nat
    /\ head \in Pointer
    /\ tail \in Pointer
    /\ waiting \in Nat
    /\ next \in [Callers -> Pointer]
    /\ granted \in [Callers -> BOOLEAN]
    /\ limited \in [Callers -> BOOLEAN]
    /\ woke \in [Callers -> Ends \cup {"no"}]
    /\ at \in [Callers -> {"outside", "parked", "inside"}]
    /\ before \in [Callers -> SUBSET Callers]

Init ==
    /\ free = AtOnce
    /\ head = Nil
    /\ tail = Nil
    /\ waiting = 0
    /\ next = [c \in Callers |-> Nil]
    /\ granted = [c \in Callers |-> FALSE]
    /\ limited = [c \in Callers |-> FALSE]
    /\ woke = [c \in Callers |-> "no"]
    /\ at = [c \in Callers |-> "outside"]
    /\ before = [c \in Callers |-> {}]

-----------------------------------------------------------------------------

(* handOn, by c: the turn goes to the head of the line, or to the Gate.    *)
HandOnFree(c) ==
    /\ free' = free + 1
    /\ granted' = [granted EXCEPT ![c] = FALSE]
    /\ UNCHANGED <<head, tail, waiting>>
HandOnNewest(c) ==
    \/ head = Nil /\ HandOnFree(c)
    \/ /\ head # Nil
       /\ IF head = tail THEN head' = Nil /\ tail' = Nil
                         ELSE tail' \in {p \in InLine : next[p] = tail} /\ UNCHANGED head
       /\ waiting' = waiting - 1
       /\ granted' = [granted EXCEPT ![tail] = TRUE, ![c] = FALSE]
       /\ UNCHANGED free
HandOn(c) ==
    \/ /\ head = Nil
       /\ free' = free + 1
       /\ granted' = [granted EXCEPT ![c] = FALSE]
       /\ UNCHANGED <<head, tail, waiting>>
    \/ /\ head # Nil
       /\ head' = next[head]
       /\ tail' = IF next[head] = Nil THEN Nil ELSE tail
       /\ waiting' = waiting - 1
       /\ granted' = [granted EXCEPT ![head] = TRUE, ![c] = FALSE]
       /\ UNCHANGED free

(* unlink: the head, or c's predecessor in the list, skips c.  The walk    *)
(* finds c in the list because it is there (LineInOrder below).            *)
Predecessors(c) == {p \in InLine : next[p] = c}
UnlinkKeepingTail(c) ==
    /\ \/ /\ head = c
          /\ head' = next[c]
          /\ next' = [next EXCEPT ![c] = Nil]
       \/ /\ head # c
          /\ \E p \in Predecessors(c) : next' = [next EXCEPT ![p] = next[c], ![c] = Nil]
          /\ UNCHANGED head
    /\ waiting' = waiting - 1
    /\ UNCHANGED tail
Unlink(c) ==
    /\ \/ /\ head = c
          /\ head' = next[c]
          /\ tail' = IF tail = c THEN Nil ELSE tail
          /\ next' = [next EXCEPT ![c] = Nil]
       \/ /\ head # c
          /\ \E p \in Predecessors(c) :
               /\ tail' = IF tail = c THEN p ELSE tail
               /\ next' = [next EXCEPT ![p] = next[c], ![c] = Nil]
          /\ UNCHANGED head
    /\ waiting' = waiting - 1

(* wait: a free turn is taken only while nobody is in line.                *)
Enter(c) ==
    /\ at[c] = "outside"
    /\ head = Nil /\ free > 0
    /\ free' = free - 1
    /\ at' = [at EXCEPT ![c] = "inside"]
    /\ UNCHANGED <<head, tail, waiting, next, granted, limited, woke, before>>

(* wait: otherwise the caller's node goes to the end of the line.          *)
Park(c, limit) ==
    /\ at[c] = "outside"
    /\ ~(head = Nil /\ free > 0)
    /\ \/ tail = Nil /\ head' = c /\ UNCHANGED next
       \/ tail # Nil /\ next' = [next EXCEPT ![tail] = c] /\ UNCHANGED head
    /\ tail' = c
    /\ waiting' = waiting + 1
    /\ limited' = [limited EXCEPT ![c] = limit]
    /\ at' = [at EXCEPT ![c] = "parked"]
    /\ before' = [d \in Callers |-> IF d = c THEN InLine ELSE before[d] \ {c}]
    /\ UNCHANGED <<free, granted, woke>>

(* The wait on the condition ends: by the signal of the hand-over, by the  *)
(* limit when no signal claimed the waiter first, or by a cancellation.    *)
Stir(c, why) ==
    /\ at[c] = "parked" /\ woke[c] = "no"
    /\ \/ why = "signal" /\ granted[c]
       \/ why = "timeout" /\ limited[c] /\ ~granted[c]
       \/ why = "cancel"
    /\ woke' = [woke EXCEPT ![c] = why]
    /\ UNCHANGED <<free, head, tail, waiting, next, granted, limited, at, before>>

(* wait, with the lock again: what `granted` says decides.                 *)
TakeTurn(c) ==
    /\ at[c] = "parked" /\ woke[c] \in {"signal", "timeout"} /\ granted[c]
    /\ at' = [at EXCEPT ![c] = "inside"]
    /\ woke' = [woke EXCEPT ![c] = "no"]
    /\ next' = [next EXCEPT ![c] = Nil]
    /\ granted' = [granted EXCEPT ![c] = FALSE]
    /\ limited' = [limited EXCEPT ![c] = FALSE]
    /\ UNCHANGED <<free, head, tail, waiting, before>>

PassOnKept(c) ==
    /\ at[c] = "parked" /\ woke[c] = "cancel" /\ granted[c]
    /\ at' = [at EXCEPT ![c] = "outside"]
    /\ woke' = [woke EXCEPT ![c] = "no"]
    /\ next' = [next EXCEPT ![c] = Nil]
    /\ granted' = [granted EXCEPT ![c] = FALSE]
    /\ limited' = [limited EXCEPT ![c] = FALSE]
    /\ UNCHANGED <<free, head, tail, waiting, before>>
PassOn(c) ==
    /\ at[c] = "parked" /\ woke[c] = "cancel" /\ granted[c]
    /\ HandOn(c)
    /\ at' = [at EXCEPT ![c] = "outside"]
    /\ woke' = [woke EXCEPT ![c] = "no"]
    /\ next' = [next EXCEPT ![c] = Nil]
    /\ limited' = [limited EXCEPT ![c] = FALSE]
    /\ UNCHANGED before

GiveUp(c) ==
    /\ at[c] = "parked" /\ woke[c] \in {"timeout", "cancel"} /\ ~granted[c]
    /\ Unlink(c)
    /\ at' = [at EXCEPT ![c] = "outside"]
    /\ woke' = [woke EXCEPT ![c] = "no"]
    /\ limited' = [limited EXCEPT ![c] = FALSE]
    /\ UNCHANGED <<free, granted, before>>

(* leave.                                                                  *)
Leave(c) ==
    /\ at[c] = "inside"
    /\ HandOn(c)
    /\ at' = [at EXCEPT ![c] = "outside"]
    /\ UNCHANGED <<next, limited, woke, before>>

Step(c) ==
    \/ Enter(c)
    \/ \E limit \in BOOLEAN : Park(c, limit)
    \/ \E why \in Ends : Stir(c, why)
    \/ TakeTurn(c)
    \/ PassOn(c)
    \/ GiveUp(c)
    \/ Leave(c)

Next == \E c \in Callers : Step(c)

Spec == Init /\ [][Next]_vars

(* The Engine runs a fiber that was signalled, a fiber that can take the   *)
(* Gate's lock takes it, and a caller inside leaves (`defer gate.leave()`  *)
(* around a call that ends).                                               *)
FairSpec ==
    /\ Spec
    /\ \A c \in Callers :
         /\ WF_vars(Stir(c, "signal"))
         /\ WF_vars(TakeTurn(c))
         /\ WF_vars(PassOn(c))
         /\ WF_vars(GiveUp(c))
         /\ WF_vars(Leave(c))

-----------------------------------------------------------------------------

(* No turn is lost or made: whatever races, the free ones and the owned    *)
(* ones are the AtOnce the Gate was opened with, and a turn lies free only *)
(* while nobody waits for one (the comment on _free).                      *)
TurnsAreKept ==
    /\ free + Cardinality(Holders) = AtOnce
    /\ free > 0 => InLine = {}

(* The list is the line: from head to tail the nodes of exactly those who  *)
(* wait, in the order they came, with _waiting their number.  In           *)
(* particular no pointer leads to a node whose waiter has gone.            *)
LineInOrder ==
    /\ waiting = Cardinality(InLine)
    /\ head = Nil <=> InLine = {}
    /\ tail = Nil <=> InLine = {}
    /\ head # Nil => head \in InLine /\ Ahead(head) = {}
    /\ tail # Nil => tail \in InLine /\ InLine = Ahead(tail) \cup {tail}
    /\ \A c \in InLine :
         IF c = tail THEN next[c] = Nil
                     ELSE /\ next[c] \in InLine
                          /\ Ahead(next[c]) = Ahead(c) \cup {c}

(* Turns go in the order of arrival: whoever comes by one, on entering or  *)
(* by being named, leaves nobody behind in line who came before.           *)
OrderOfArrival ==
    [][\A c \in Callers :
         c \in Holders' \ Holders =>
            IF c \in InLine THEN Ahead(c) = {} ELSE InLine = {}]_vars

(* Everyone who waits is let in or goes: nobody waits for ever behind      *)
(* callers that arrive later, give up or are cancelled.                    *)
NobodyWaitsForEver ==
    \A c \in Callers : at[c] = "parked" ~> at[c] # "parked"

(* The list of nodes, walked from _head.                                   *)
Line ==
    LET node[i \in 1..waiting] == IF i = 1 THEN head ELSE next[node[i - 1]]
    IN  [i \in 1..waiting |-> node[i]]

Promise == INSTANCE FairGate WITH line <- Line, turn <- Holders

(* The Gate implements the first-come, first-served one: its list is the   *)
(* line, a turn belongs to the waiter `leave` named, and each hold of the  *)
(* Gate's lock is one step of that specification or none.                  *)
KeepsItsPromise == Promise!Spec
=============================================================================
