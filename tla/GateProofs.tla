----------------------------- MODULE GateProofs -----------------------------
(***************************************************************************)
(* Proofs that a Gate of any size, with any number of callers, keeps its   *)
(* turns and its line.                                                     *)
(*                                                                         *)
(* The argument is by the inductive invariant Inv: the list of nodes says  *)
(* about each node who is ahead of it (LineInOrder), so taking out its     *)
(* head, or any other node, leaves a list that says the same of those that *)
(* remain.  That needs the record of arrivals to be an order (Arrivals)    *)
(* and a caller that does not wait to have no node (NoNode).               *)
(*                                                                         *)
(* The same invariant shows that the Gate implements FairGate: the list of *)
(* nodes read as a sequence is the abstract line, the callers that hold a  *)
(* turn are its holders, and each action of the code is a step of it or    *)
(* leaves it alone (GateKeepsItsPromise).                                  *)
(***************************************************************************)
EXTENDS Gate, FiniteSetTheorems, SequenceTheorems, WellFoundedInduction, TLAPS

(* A caller that is not parked has no node.                                *)
NoNode ==
    \A c \in Callers : at[c] # "parked" => ~granted[c] /\ next[c] = Nil /\ woke[c] = "no"

(* Nobody came before itself, and no two callers each before the other.    *)
Arrivals ==
    \A c, d \in Callers : c \in before[d] => d \notin before[c]

Inv == TypeOK /\ NoNode /\ Arrivals /\ LineInOrder /\ TurnsAreKept

-----------------------------------------------------------------------------

(* The sets of callers the counts are about are finite.                    *)
LEMMA Finite ==
    /\ IsFiniteSet(InLine) /\ Cardinality(InLine) \in Nat
    /\ IsFiniteSet(Holders) /\ Cardinality(Holders) \in Nat
<1>1. InLine \subseteq Callers /\ Holders \subseteq Callers
  BY DEF InLine, Holders
<1> QED
  BY <1>1, GateAssumption, FS_Subset, FS_CardinalityType

(* open leaves the Gate at least one turn.                                 *)
LEMMA AtOnceType == AtOnce \in Nat \ {0}
BY GateAssumption DEF AtOnce

(* The head of the line is taken out of it: by handOn, which names it, or  *)
(* by unlink.                                                              *)
LEMMA DropHead ==
    ASSUME TypeOK, Arrivals, LineInOrder, head # Nil,
           InLine' = InLine \ {head},
           before' = before,
           \A d \in InLine \ {head} : next'[d] = next[d],
           head' = next[head],
           tail' = IF next[head] = Nil THEN Nil ELSE tail,
           waiting' = waiting - 1
    PROVE  LineInOrder'
<1> DEFINE h == head
<1>1. h \in InLine /\ Ahead(h) = {} /\ tail # Nil /\ tail \in InLine /\ InLine = Ahead(tail) \cup {tail}
  BY DEF LineInOrder
<1>2. \A d : Ahead(d)' = Ahead(d) \ {h}
  BY DEF Ahead
<1>3. waiting' = Cardinality(InLine')
  BY <1>1, Finite, FS_RemoveElement DEF LineInOrder
<1>4. Nil \notin InLine
  BY GateAssumption DEF InLine
<1>5. CASE h = tail
  <2>1. next[h] = Nil /\ InLine = {h}
    BY <1>1, <1>5 DEF LineInOrder
  <2>2. InLine' = {} /\ head' = Nil /\ tail' = Nil
    BY <2>1
  <2> QED
    BY <2>2, <1>3 DEF LineInOrder
<1>6. CASE h # tail
  <2>1. next[h] \in InLine /\ Ahead(next[h]) = {h} /\ next[h] # Nil
    BY <1>1, <1>6, <1>4 DEF LineInOrder
  <2>2. next[h] # h
    BY <2>1, <1>1
  <2>3. head' \in InLine' /\ Ahead(head)' = {} /\ head' # Nil
    BY <2>1, <2>2, <1>2
  <2>4. tail' = tail /\ tail \in InLine' /\ InLine' = Ahead(tail)' \cup {tail'}
    BY <2>1, <1>1, <1>2, <1>6
  <2>5. ASSUME NEW c \in InLine', c # tail
        PROVE  next'[c] \in InLine' /\ Ahead(next[c])' = Ahead(c)' \cup {c}
    <3>1. c \in InLine /\ c # h /\ next'[c] = next[c]
      BY <2>5
    <3>2. next[c] \in InLine /\ Ahead(next[c]) = Ahead(c) \cup {c}
      BY <3>1, <2>5 DEF LineInOrder
    <3>3. next[c] # h
      BY <3>2, <1>1
    <3>4. Ahead(next[c])' = Ahead(next[c]) \ {h}
      BY <3>1 DEF Ahead
    <3> QED
      BY <3>1, <3>2, <3>3, <3>4, <1>2
  <2>6. next'[tail] = Nil
    BY <1>1, <1>6 DEF LineInOrder
  <2> QED
    BY <1>3, <1>4, <2>3, <2>4, <2>5, <2>6 DEF LineInOrder
<1> QED
  BY <1>5, <1>6

(* Any other node is taken out of the line by unlink: p, the one before    *)
(* it, takes over what it led to.                                          *)
LEMMA DropOther ==
    ASSUME TypeOK, Arrivals, LineInOrder,
           NEW c \in InLine, c # head,
           NEW p \in InLine, next[p] = c,
           InLine' = InLine \ {c},
           before' = before,
           next' = [next EXCEPT ![p] = next[c], ![c] = Nil],
           head' = head,
           tail' = IF tail = c THEN p ELSE tail,
           waiting' = waiting - 1
    PROVE  LineInOrder'
<1>1. /\ head # Nil /\ head \in InLine /\ Ahead(head) = {}
      /\ tail # Nil /\ tail \in InLine /\ InLine = Ahead(tail) \cup {tail}
  BY DEF LineInOrder
<1>2. \A d : Ahead(d)' = Ahead(d) \ {c}
  BY DEF Ahead
<1>3. waiting' = Cardinality(InLine')
  BY Finite, FS_RemoveElement DEF LineInOrder
<1>4. Nil \notin InLine /\ InLine \subseteq Callers
  BY GateAssumption DEF InLine
<1>5. p # tail /\ Ahead(c) = Ahead(p) \cup {p}
  BY <1>4 DEF LineInOrder
<1>6. \A d, e \in InLine : d \in Ahead(e) => e \notin Ahead(d)
  BY <1>4 DEF Arrivals, Ahead
<1>7. c # p /\ c \notin Ahead(p) /\ c \notin Ahead(c)
  BY <1>5, <1>6
<1>8. p \in InLine' /\ Ahead(p)' = Ahead(p)
  BY <1>2, <1>7 DEF Ahead
<1>9. next'[p] = next[c]
  BY <1>4, <1>7 DEF TypeOK
<1>10. head' \in InLine' /\ Ahead(head)' = {} /\ tail' \in InLine'
  BY <1>1, <1>2, <1>7 DEF Ahead
<1>11. InLine' = Ahead(tail)' \cup {tail'}
  <2>1. CASE tail = c
    BY <2>1, <1>1, <1>5, <1>7, <1>8 DEF Ahead
  <2>2. CASE tail # c
    <3>1. Ahead(tail)' = Ahead(tail) \ {c}
      BY <2>2 DEF Ahead
    <3> QED
      BY <3>1, <2>2, <1>1
  <2> QED
    BY <2>1, <2>2
<1>12. ASSUME NEW d \in InLine', d # p, d # tail
       PROVE  next'[d] \in InLine' /\ Ahead(next[d])' = Ahead(d)' \cup {d} /\ d # tail'
  <2>1. d \in InLine /\ d # c /\ next'[d] = next[d] /\ d \in Callers
    BY <1>12, <1>4 DEF TypeOK
  <2>2. next[d] \in InLine /\ Ahead(next[d]) = Ahead(d) \cup {d}
    BY <2>1, <1>12 DEF LineInOrder
  <2>3. next[d] # c
    BY <2>1, <2>2, <1>5, <1>6, <1>12
  <2>4. Ahead(next[d])' = Ahead(next[d]) \ {c}
    BY <2>1 DEF Ahead
  <2>5. Ahead(d)' = Ahead(d) \ {c}
    BY <1>2
  <2>6. Ahead(next[d])' = Ahead(d)' \cup {d}
    BY <2>1, <2>2, <2>4, <2>5
  <2>7. next'[d] \in InLine'
    BY <2>1, <2>2, <2>3
  <2> QED
    BY <2>6, <2>7, <1>12
<1>13. ASSUME tail # c
       PROVE  next'[p] \in InLine' /\ Ahead(next[p])' = Ahead(p)' \cup {p} /\ p # tail'
  <2>1. next[c] \in InLine /\ Ahead(next[c]) = Ahead(c) \cup {c}
    BY <1>13 DEF LineInOrder
  <2>2. next[c] # c
    BY <2>1, <1>7
  <2>3. Ahead(next[p])' = Ahead(next[c]) \ {c}
    BY <1>9 DEF Ahead
  <2>4. Ahead(next[p])' = Ahead(p)' \cup {p}
    BY <2>1, <2>3, <1>5, <1>7, <1>8
  <2>5. next'[p] \in InLine'
    BY <2>1, <2>2, <1>9
  <2> QED
    BY <2>4, <2>5, <1>5, <1>13
<1>14. tail = c => next'[p] = Nil
  BY <1>9 DEF LineInOrder
<1>15. tail # c => next'[tail] = Nil
  BY <1>1, <1>4, <1>5 DEF LineInOrder, TypeOK
<1>16. \A d \in InLine' :
         IF d = tail' THEN next'[d] = Nil
                      ELSE next'[d] \in InLine' /\ Ahead(next[d])' = Ahead(d)' \cup {d}
  BY <1>12, <1>13, <1>14, <1>15
<1>17. head' # Nil /\ tail' # Nil /\ InLine' # {}
  BY <1>1, <1>4, <1>10
<1> QED
  BY <1>3, <1>10, <1>11, <1>16, <1>17 DEF LineInOrder

(* The line is left alone by a step that touches no node in it.            *)
LEMMA SameLine ==
    ASSUME LineInOrder, InLine' = InLine, head' = head, tail' = tail, waiting' = waiting,
           before' = before, \A c \in InLine : next'[c] = next[c]
    PROVE  LineInOrder'
<1>1. \A d : Ahead(d)' = Ahead(d)
  BY DEF Ahead
<1>2. \A c \in InLine : Ahead(next[c])' = Ahead(next[c])
  BY DEF Ahead
<1>3. Ahead(head)' = Ahead(head) /\ Ahead(tail)' = Ahead(tail)
  BY DEF Ahead
<1> QED
  BY <1>1, <1>2, <1>3 DEF LineInOrder

(* c, whose turn it is, hands it on and goes: in leave, or when it was     *)
(* cancelled as it was named.                                              *)
LEMMA TurnHandedOn ==
    ASSUME Inv, NEW c \in Holders, HandOn(c),
           at' = [at EXCEPT ![c] = "outside"],
           next' = [next EXCEPT ![c] = Nil],
           before' = before
    PROVE  /\ LineInOrder' /\ TurnsAreKept'
           /\ \A d \in Holders' \ Holders : d \in InLine /\ Ahead(d) = {}
<1>1. c \in Callers /\ c \notin InLine /\ InLine \subseteq Callers /\ Nil \notin InLine
  BY GateAssumption DEF Holders, InLine
<1>2. \A d \in InLine : next'[d] = next[d]
  BY <1>1 DEF Inv, TypeOK
<1>3. CASE head = Nil
  <2>1. /\ free' = free + 1 /\ head' = head /\ tail' = tail /\ waiting' = waiting
        /\ granted' = [granted EXCEPT ![c] = FALSE]
    BY <1>3 DEF HandOn
  <2>2. InLine' = InLine
    BY <1>1, <2>1 DEF InLine, Inv, TypeOK
  <2>3. Holders' = Holders \ {c}
    BY <1>1, <2>1 DEF Holders, Inv, TypeOK
  <2>4. LineInOrder'
    BY <1>2, <2>1, <2>2, SameLine DEF Inv
  <2>5. Cardinality(Holders') = Cardinality(Holders) - 1
    BY <2>3, Finite, FS_RemoveElement
  <2>6. InLine' = {}
    BY <1>3, <2>2 DEF Inv, LineInOrder
  <2>7. AtOnce' = AtOnce /\ free \in Nat
    BY DEF AtOnce, Inv, TypeOK
  <2>8. TurnsAreKept'
    BY <2>1, <2>5, <2>6, <2>7, Finite, AtOnceType DEF Inv, TurnsAreKept
  <2> QED
    BY <2>3, <2>4, <2>8
<1>4. CASE head # Nil
  <2>1. /\ free' = free /\ head' = next[head] /\ waiting' = waiting - 1
        /\ tail' = IF next[head] = Nil THEN Nil ELSE tail
        /\ granted' = [granted EXCEPT ![head] = TRUE, ![c] = FALSE]
    BY <1>4 DEF HandOn
  <2>2. head \in InLine /\ Ahead(head) = {} /\ head \in Callers /\ head # c
    BY <1>1, <1>4 DEF Inv, LineInOrder
  <2>3. /\ granted'[head] /\ ~granted'[c]
        /\ \A d \in Callers : d # head /\ d # c => granted'[d] = granted[d]
        /\ at'[c] = "outside"
        /\ \A d \in Callers : d # c => at'[d] = at[d]
    BY <1>1, <2>1, <2>2 DEF Inv, TypeOK
  <2>4. InLine' = InLine \ {head}
    BY <1>1, <2>2, <2>3 DEF InLine
  <2>5. Holders' = (Holders \ {c}) \cup {head}
    BY <1>1, <2>2, <2>3 DEF Holders, InLine
  <2>6. head \notin Holders
    BY <2>2 DEF Holders, InLine
  <2>7. LineInOrder'
    BY <1>2, <1>4, <2>1, <2>4, DropHead DEF Inv
  <2>8. IsFiniteSet(Holders \ {c}) /\ Cardinality(Holders \ {c}) = Cardinality(Holders) - 1
    BY Finite, FS_RemoveElement
  <2>9. Cardinality(Holders') = Cardinality(Holders)
    <3> DEFINE Rest == Holders \ {c}
    <3>1. Cardinality(Rest \cup {head}) = Cardinality(Rest) + 1
      <4>1. head \notin Rest /\ IsFiniteSet(Rest)
        BY <2>6, <2>8
      <4> HIDE DEF Rest
      <4> QED
        BY <4>1, FS_AddElement
    <3> QED
      BY <3>1, <2>5, <2>8, Finite
  <2>10. AtOnce' = AtOnce /\ free \in Nat
    BY DEF AtOnce, Inv, TypeOK
  <2>11. free > 0 => InLine = {}
    BY DEF Inv, TurnsAreKept
  <2>12. TurnsAreKept'
    BY <2>1, <2>2, <2>9, <2>10, <2>11 DEF Inv, TurnsAreKept
  <2> QED
    BY <2>2, <2>5, <2>7, <2>12
<1> QED
  BY <1>3, <1>4

(* A step that moves nobody into or out of the line or a turn leaves the   *)
(* count of turns as it was.                                               *)
LEMMA SameTurns ==
    ASSUME TurnsAreKept, InLine' = InLine, Holders' = Holders, free' = free
    PROVE  TurnsAreKept'
BY DEF TurnsAreKept, AtOnce

-----------------------------------------------------------------------------

(* Inv holds as the Gate opens.                                            *)
LEMMA InvInit == Init => Inv
<1> SUFFICES ASSUME Init PROVE Inv
  OBVIOUS
<1>1. InLine = {} /\ Holders = {}
  BY DEF Init, InLine, Holders
<1>2. TypeOK
  BY AtOnceType DEF Init, TypeOK, Pointer
<1>3. NoNode /\ Arrivals
  BY DEF Init, NoNode, Arrivals
<1>4. LineInOrder /\ TurnsAreKept
  BY <1>1, FS_EmptySet, AtOnceType DEF Init, LineInOrder, TurnsAreKept
<1> QED
  BY <1>2, <1>3, <1>4 DEF Inv

(* Each step of a caller keeps Inv, and gives a turn only to one nobody in *)
(* line came before.                                                       *)
InTurn ==
    \A c \in Callers :
        c \in Holders' \ Holders => IF c \in InLine THEN Ahead(c) = {} ELSE InLine = {}

LEMMA EnterKeeps ==
    ASSUME Inv, NEW c \in Callers, Enter(c)
    PROVE  Inv' /\ InTurn
<1>1. /\ at[c] = "outside" /\ head = Nil /\ free > 0 /\ free' = free - 1
      /\ at' = [at EXCEPT ![c] = "inside"]
      /\ UNCHANGED <<head, tail, waiting, next, granted, limited, woke, before>>
  BY DEF Enter
<1>2. InLine' = InLine /\ InLine = {}
  BY <1>1 DEF InLine, Inv, TypeOK, LineInOrder
<1>3. Holders' = Holders \cup {c} /\ c \notin Holders
  BY <1>1 DEF Holders, Inv, TypeOK
<1>4. TypeOK'
  BY <1>1 DEF Inv, TypeOK
<1>5. NoNode' /\ Arrivals'
  BY <1>1 DEF Inv, TypeOK, NoNode, Arrivals
<1>6. LineInOrder'
  BY <1>1, <1>2, SameLine DEF Inv
<1>7. Cardinality(Holders') = Cardinality(Holders) + 1
  BY <1>3, Finite, FS_AddElement
<1>8. TurnsAreKept'
  BY <1>1, <1>2, <1>7, Finite, AtOnceType DEF Inv, TypeOK, TurnsAreKept, AtOnce
<1> QED
  BY <1>2, <1>3, <1>4, <1>5, <1>6, <1>8 DEF Inv, InTurn

LEMMA ParkKeeps ==
    ASSUME Inv, NEW c \in Callers, NEW limit \in BOOLEAN, Park(c, limit)
    PROVE  Inv' /\ InTurn
<1>1. /\ at[c] = "outside" /\ ~(head = Nil /\ free > 0)
      /\ \/ tail = Nil /\ head' = c /\ next' = next
         \/ tail # Nil /\ next' = [next EXCEPT ![tail] = c] /\ head' = head
      /\ tail' = c /\ waiting' = waiting + 1
      /\ limited' = [limited EXCEPT ![c] = limit]
      /\ at' = [at EXCEPT ![c] = "parked"]
      /\ before' = [d \in Callers |-> IF d = c THEN InLine ELSE before[d] \ {c}]
      /\ free' = free /\ granted' = granted /\ woke' = woke
  BY DEF Park
<1>2. /\ ~granted[c] /\ next[c] = Nil /\ c \notin InLine /\ c # Nil
      /\ InLine \subseteq Callers /\ Nil \notin InLine
  BY <1>1, GateAssumption DEF Inv, NoNode, InLine
<1>3. InLine' = InLine \cup {c}
  BY <1>1, <1>2 DEF InLine, Inv, TypeOK
<1>4. Holders' = Holders
  BY <1>1, <1>2 DEF Holders, Inv, TypeOK
<1>5. TypeOK'
  BY <1>1, <1>2 DEF Inv, TypeOK, Pointer
<1>6. tail # Nil => tail \in InLine /\ tail # c /\ at[tail] = "parked"
  BY <1>2 DEF Inv, LineInOrder, InLine
<1>7. NoNode'
  BY <1>1, <1>2, <1>6 DEF Inv, TypeOK, NoNode
<1>8. Arrivals'
  BY <1>1, <1>2 DEF Inv, TypeOK, Arrivals
<1>9. \A d \in InLine : before'[d] \cap InLine' = Ahead(d)
  BY <1>1, <1>2, <1>3 DEF Ahead
<1>10. before'[c] \cap InLine' = InLine
  BY <1>1, <1>2, <1>3
<1>11. waiting' = Cardinality(InLine')
  BY <1>1, <1>2, <1>3, Finite, FS_AddElement DEF Inv, LineInOrder
<1>12. ASSUME tail = Nil PROVE LineInOrder'
  <2>1. InLine = {} /\ head' = c /\ next'[c] = Nil
    BY <1>1, <1>2, <1>12 DEF Inv, LineInOrder
  <2>2. Ahead(head)' = {} /\ Ahead(tail)' = {} /\ InLine' = {c}
    BY <2>1, <1>1, <1>3, <1>10 DEF Ahead
  <2> QED
    BY <2>1, <2>2, <1>1, <1>2, <1>11 DEF LineInOrder
<1>13. ASSUME tail # Nil PROVE LineInOrder'
  <2>1. /\ head' = head /\ head \in InLine /\ Ahead(head) = {} /\ head # Nil
        /\ InLine = Ahead(tail) \cup {tail} /\ tail \in InLine
    BY <1>1, <1>13 DEF Inv, LineInOrder
  <2>2. next'[tail] = c /\ next'[c] = Nil /\ \A d \in InLine : d # tail => next'[d] = next[d]
    BY <1>1, <1>2, <1>13, <2>1 DEF Inv, TypeOK
  <2>3. Ahead(head)' = {} /\ Ahead(tail)' = InLine
    BY <1>1, <1>9, <1>10, <2>1 DEF Ahead
  <2>4. \A d \in InLine : Ahead(d)' = Ahead(d)
    BY <1>9 DEF Ahead
  <2>6. ASSUME NEW d \in InLine
        PROVE  next'[d] \in InLine' /\ before'[next'[d]] \cap InLine' = Ahead(d) \cup {d}
    <3>1. CASE d = tail
      BY <3>1, <2>1, <2>2, <1>3, <1>10
    <3>2. CASE d # tail
      <4>1. next'[d] = next[d] /\ next[d] \in InLine /\ Ahead(next[d]) = Ahead(d) \cup {d}
        BY <3>2, <2>2 DEF Inv, LineInOrder
      <4> QED
        BY <4>1, <1>3, <1>9
    <3> QED
      BY <3>1, <3>2
  <2>7. \A d \in InLine : Ahead(next[d])' = Ahead(d)' \cup {d}
    BY <2>4, <2>6 DEF Ahead
  <2> QED
    BY <1>1, <1>2, <1>3, <1>11, <2>1, <2>2, <2>3, <2>6, <2>7 DEF LineInOrder
<1>14. TurnsAreKept'
  <2>1. free = 0
    BY <1>1 DEF Inv, LineInOrder, TurnsAreKept, TypeOK
  <2> QED
    BY <2>1, <1>1, <1>4 DEF Inv, TurnsAreKept, AtOnce
<1> QED
  BY <1>4, <1>5, <1>7, <1>8, <1>12, <1>13, <1>14 DEF Inv, InTurn

LEMMA StirKeeps ==
    ASSUME Inv, NEW c \in Callers, NEW why \in Ends, Stir(c, why)
    PROVE  Inv' /\ InTurn
<1>1. /\ at[c] = "parked" /\ woke' = [woke EXCEPT ![c] = why]
      /\ UNCHANGED <<free, head, tail, waiting, next, granted, limited, at, before>>
  BY DEF Stir
<1>2. InLine' = InLine /\ Holders' = Holders
  BY <1>1 DEF InLine, Holders
<1>3. TypeOK'
  BY <1>1 DEF Inv, TypeOK
<1>4. NoNode' /\ Arrivals'
  BY <1>1 DEF Inv, TypeOK, NoNode, Arrivals
<1>5. LineInOrder' /\ TurnsAreKept'
  BY <1>1, <1>2, SameLine, SameTurns DEF Inv
<1> QED
  BY <1>2, <1>3, <1>4, <1>5 DEF Inv, InTurn

LEMMA TakeTurnKeeps ==
    ASSUME Inv, NEW c \in Callers, TakeTurn(c)
    PROVE  Inv' /\ InTurn
<1>1. /\ at[c] = "parked" /\ granted[c] /\ at' = [at EXCEPT ![c] = "inside"]
      /\ woke' = [woke EXCEPT ![c] = "no"] /\ next' = [next EXCEPT ![c] = Nil]
      /\ granted' = [granted EXCEPT ![c] = FALSE]
      /\ limited' = [limited EXCEPT ![c] = FALSE]
      /\ UNCHANGED <<free, head, tail, waiting, before>>
  BY DEF TakeTurn
<1>2. InLine' = InLine /\ Holders' = Holders
  BY <1>1 DEF InLine, Holders, Inv, TypeOK
<1>3. TypeOK'
  BY <1>1 DEF Inv, TypeOK, Pointer
<1>4. NoNode' /\ Arrivals'
  BY <1>1 DEF Inv, TypeOK, NoNode, Arrivals
<1>5. \A d \in InLine : next'[d] = next[d]
  BY <1>1 DEF InLine, Inv, TypeOK
<1>6. LineInOrder' /\ TurnsAreKept'
  BY <1>1, <1>2, <1>5, SameLine, SameTurns DEF Inv
<1> QED
  BY <1>2, <1>3, <1>4, <1>6 DEF Inv, InTurn

(* What handOn does to the fields, for the types.                          *)
LEMMA HandOnTypes ==
    ASSUME Inv, NEW c \in Callers, HandOn(c)
    PROVE  /\ free' \in Nat /\ head' \in Pointer /\ tail' \in Pointer /\ waiting' \in Nat
           /\ granted' \in [Callers -> BOOLEAN] /\ ~granted'[c]
           /\ \A d \in Callers : at[d] # "parked" => ~granted'[d]
<1>1. CASE head = Nil
  <2>1. /\ free' = free + 1 /\ UNCHANGED <<head, tail, waiting>>
        /\ granted' = [granted EXCEPT ![c] = FALSE]
    BY <1>1 DEF HandOn
  <2> QED
    BY <2>1 DEF Inv, TypeOK, NoNode
<1>2. CASE head # Nil
  <2>1. head \in InLine /\ head \in Callers /\ at[head] = "parked"
    BY <1>2 DEF Inv, LineInOrder, InLine
  <2>2. waiting - 1 \in Nat
    <3>1. waiting # 0
      BY <2>1, Finite, FS_EmptySet DEF Inv, LineInOrder
    <3> QED
      BY <3>1 DEF Inv, TypeOK
  <2> QED
    BY <1>2, <2>1, <2>2 DEF HandOn, Inv, TypeOK, NoNode, Pointer
<1> QED
  BY <1>1, <1>2

LEMMA PassOnKeeps ==
    ASSUME Inv, NEW c \in Callers, PassOn(c)
    PROVE  Inv' /\ InTurn
<1>1. /\ at[c] = "parked" /\ granted[c] /\ HandOn(c)
      /\ at' = [at EXCEPT ![c] = "outside"] /\ woke' = [woke EXCEPT ![c] = "no"]
      /\ next' = [next EXCEPT ![c] = Nil] /\ limited' = [limited EXCEPT ![c] = FALSE]
      /\ before' = before
  BY DEF PassOn
<1>2. c \in Holders
  BY <1>1 DEF Holders
<1>3. /\ LineInOrder' /\ TurnsAreKept'
      /\ \A d \in Holders' \ Holders : d \in InLine /\ Ahead(d) = {}
  BY <1>1, <1>2, TurnHandedOn
<1>4. TypeOK'
  BY <1>1, HandOnTypes DEF Inv, TypeOK, Pointer
<1>5. NoNode' /\ Arrivals'
  BY <1>1, HandOnTypes DEF Inv, TypeOK, NoNode, Arrivals
<1> QED
  BY <1>3, <1>4, <1>5 DEF Inv, InTurn

LEMMA LeaveKeeps ==
    ASSUME Inv, NEW c \in Callers, Leave(c)
    PROVE  Inv' /\ InTurn
<1>1. /\ at[c] = "inside" /\ HandOn(c) /\ at' = [at EXCEPT ![c] = "outside"]
      /\ next' = next /\ limited' = limited /\ woke' = woke /\ before' = before
  BY DEF Leave
<1>2. c \in Holders /\ next' = [next EXCEPT ![c] = Nil]
  BY <1>1 DEF Holders, Inv, NoNode, TypeOK
<1>3. /\ LineInOrder' /\ TurnsAreKept'
      /\ \A d \in Holders' \ Holders : d \in InLine /\ Ahead(d) = {}
  BY <1>1, <1>2, TurnHandedOn
<1>4. TypeOK'
  BY <1>1, HandOnTypes DEF Inv, TypeOK
<1>5. NoNode' /\ Arrivals'
  BY <1>1, HandOnTypes DEF Inv, TypeOK, NoNode, Arrivals
<1> QED
  BY <1>3, <1>4, <1>5 DEF Inv, InTurn

LEMMA GiveUpKeeps ==
    ASSUME Inv, NEW c \in Callers, GiveUp(c)
    PROVE  Inv' /\ InTurn
<1>1. /\ at[c] = "parked" /\ ~granted[c] /\ Unlink(c)
      /\ at' = [at EXCEPT ![c] = "outside"] /\ woke' = [woke EXCEPT ![c] = "no"]
      /\ limited' = [limited EXCEPT ![c] = FALSE]
      /\ free' = free /\ granted' = granted /\ before' = before
  BY DEF GiveUp
<1>2. c \in InLine /\ InLine' = InLine \ {c} /\ Holders' = Holders /\ Nil \notin InLine
  BY <1>1, GateAssumption DEF InLine, Holders, Inv, TypeOK
<1>3. waiting' = waiting - 1 /\ waiting # 0 /\ waiting' \in Nat
  <2>1. waiting # 0
    BY <1>2, Finite, FS_EmptySet DEF Inv, LineInOrder
  <2> QED
    BY <2>1, <1>1 DEF Unlink, Inv, TypeOK
<1>4. CASE head = c
  <2>1. /\ head' = next[c] /\ tail' = (IF tail = c THEN Nil ELSE tail)
        /\ next' = [next EXCEPT ![c] = Nil]
    BY <1>1, <1>4 DEF Unlink
  <2>2. next[c] = Nil <=> tail = c
    BY <1>2 DEF Inv, LineInOrder
  <2>3. head # Nil /\ \A d \in InLine \ {head} : next'[d] = next[d]
    BY <1>2, <1>4, <2>1 DEF Inv, TypeOK, InLine
  <2>4. LineInOrder'
    BY <1>1, <1>2, <1>3, <1>4, <2>1, <2>2, <2>3, DropHead DEF Inv
  <2>5. TypeOK'
    BY <1>1, <1>3, <2>1 DEF Inv, TypeOK, Pointer
  <2>6. NoNode'
    BY <1>1, <2>1 DEF Inv, TypeOK, NoNode
  <2>7. TurnsAreKept' /\ Arrivals'
    BY <1>1, <1>2 DEF Inv, TurnsAreKept, AtOnce, Arrivals
  <2> QED
    BY <1>2, <2>4, <2>5, <2>6, <2>7 DEF Inv, InTurn
<1>5. CASE head # c
  <2>1. PICK p \in InLine :
            /\ next[p] = c /\ head' = head
            /\ tail' = IF tail = c THEN p ELSE tail
            /\ next' = [next EXCEPT ![p] = next[c], ![c] = Nil]
    BY <1>1, <1>5 DEF Unlink, Predecessors
  <2>2. p \in Callers /\ at[p] = "parked"
    BY DEF InLine
  <2>3. LineInOrder'
    BY <1>1, <1>2, <1>3, <1>5, <2>1, DropOther DEF Inv
  <2>4. TypeOK'
    BY <1>1, <1>3, <2>1, <2>2 DEF Inv, TypeOK, Pointer
  <2>5. NoNode'
    BY <1>1, <2>1, <2>2 DEF Inv, TypeOK, NoNode
  <2>6. TurnsAreKept' /\ Arrivals'
    BY <1>1, <1>2 DEF Inv, TurnsAreKept, AtOnce, Arrivals
  <2> QED
    BY <1>2, <2>3, <2>4, <2>5, <2>6 DEF Inv, InTurn
<1> QED
  BY <1>4, <1>5

(* Every step keeps Inv and gives turns in order.                          *)
LEMMA InvNext == Inv /\ [Next]_vars => Inv' /\ (InTurn \/ UNCHANGED vars)
<1> SUFFICES ASSUME Inv, [Next]_vars PROVE Inv' /\ (InTurn \/ UNCHANGED vars)
  OBVIOUS
<1>1. ASSUME NEW c \in Callers, Step(c) PROVE Inv' /\ InTurn
  BY <1>1, EnterKeeps, ParkKeeps, StirKeeps, TakeTurnKeeps, PassOnKeeps, GiveUpKeeps, LeaveKeeps
  DEF Step
<1>2. CASE UNCHANGED vars
  <2>1. InLine' = InLine /\ Holders' = Holders
    BY <1>2 DEF vars, InLine, Holders
  <2>2. TypeOK' /\ NoNode' /\ Arrivals'
    BY <1>2 DEF vars, Inv, TypeOK, NoNode, Arrivals
  <2>3. LineInOrder' /\ TurnsAreKept'
    BY <1>2, <2>1, SameLine, SameTurns DEF Inv, vars
  <2> QED
    BY <1>2, <2>2, <2>3 DEF Inv
<1> QED
  BY <1>1, <1>2 DEF Next

(* The inductive invariant holds of every Gate.                            *)
THEOREM GateInvariant == Spec => []Inv
BY InvInit, InvNext, PTL DEF Spec

(* Turns are neither lost nor made, and none lies free while a caller of   *)
(* `enter` waits for one, for every number of callers and of turns.        *)
THEOREM TurnsKept == Spec => []TurnsAreKept
<1>1. Inv => TurnsAreKept
  BY DEF Inv
<1> QED
  BY <1>1, GateInvariant, PTL

(* The list of waiters `handOn` and `unlink` edit is always the line, in   *)
(* the order of arrival.                                                   *)
THEOREM LineKept == Spec => []LineInOrder
<1>1. Inv => LineInOrder
  BY DEF Inv
<1> QED
  BY <1>1, GateInvariant, PTL

(* `enter`, `leave` and a wait that ends early give turns in the order of  *)
(* arrival.                                                                *)
THEOREM FirstComeFirstServed == Spec => OrderOfArrival
<1>1. Inv /\ [Next]_vars => [InTurn]_vars
  BY InvNext
<1> QED
  BY <1>1, GateInvariant, PTL DEF Spec, OrderOfArrival, InTurn

-----------------------------------------------------------------------------

(***************************************************************************)
(* The Gate implements FairGate.  `Line` is a recursive function, walked   *)
(* from _head: that it comes to every waiter once and ends at _tail is     *)
(* shown by taking the least position where it would not (LeastNumber).    *)
(* Then each step's new pointers make one chain only (OneChain), so it is  *)
(* enough to name it.                                                      *)
(***************************************************************************)

(* Every set of natural numbers that is not empty has a least element.     *)
LEMMA LeastNumber ==
    ASSUME NEW T \in SUBSET Nat, T # {}
    PROVE  \E n \in T : \A m \in T : n <= m
<1>1. IsWellFoundedOn(OpToRel(<, Nat), Nat)
  BY NatLessThanWellFounded
<1>2. PICK x \in T : \A y \in T : ~ (<<y, x>> \in OpToRel(<, Nat))
  BY <1>1, WFMin
<1>3. \A y \in T : ~(y < x)
  BY <1>2 DEF OpToRel
<1> QED
  BY <1>3

(* s is the first n nodes of the list, walked from _head.                  *)
Walk(s, n) ==
    /\ s \in [1..n -> InLine]
    /\ n > 0 => s[1] = head
    /\ \A i \in 1..(n - 1) : s[i + 1] = next[s[i]]

(* Those ahead of a node of a walk are the ones walked before it, so no    *)
(* node is walked twice.                                                   *)
LEMMA WalkAhead ==
    ASSUME Inv, NEW n \in Nat, NEW s, Walk(s, n)
    PROVE  /\ \A i \in 1..n : Ahead(s[i]) = {s[j] : j \in 1..(i - 1)}
           /\ \A i, j \in 1..n : i # j => s[i] # s[j]
<1> DEFINE Bad == {i \in 1..n : Ahead(s[i]) # {s[j] : j \in 1..(i - 1)}}
<1>1. Bad = {}
  <2> SUFFICES ASSUME Bad # {} PROVE FALSE
    OBVIOUS
  <2>1. Bad \in SUBSET Nat
    OBVIOUS
  <2>2. PICK k \in Bad : \A m \in Bad : k <= m
    <3> HIDE DEF Bad
    <3> QED BY <2>1, LeastNumber
  <2>3. CASE k = 1
    <3>1. s[1] = head /\ n > 0 /\ s[1] \in InLine
      BY <2>3, <2>2 DEF Walk
    <3>2. head # Nil
      BY <3>1, GateAssumption DEF InLine
    <3>3. Ahead(s[1]) = {}
      BY <3>1, <3>2 DEF Inv, LineInOrder
    <3>4. {s[j] : j \in 1..(1 - 1)} = {}
      OBVIOUS
    <3> QED
      BY <3>3, <3>4, <2>3, <2>2
  <2>4. CASE k # 1
    <3> DEFINE l == k - 1
    <3>1. l \in 1..(n - 1) /\ l \in 1..n /\ k \in 1..n /\ k = l + 1
      BY <2>4, <2>2
    <3>2. s[k] = next[s[l]] /\ s[l] \in InLine /\ s[k] \in InLine
      BY <3>1 DEF Walk
    <3>0. l \notin Bad
      <4> HIDE DEF Bad
      <4> QED BY <3>1, <2>2
    <3>3. Ahead(s[l]) = {s[j] : j \in 1..(l - 1)}
      BY <3>1, <3>0
    <3>4. s[l] # tail
      BY <3>2, GateAssumption DEF Inv, LineInOrder, InLine
    <3>5. Ahead(s[k]) = Ahead(s[l]) \cup {s[l]}
      BY <3>2, <3>4 DEF Inv, LineInOrder
    <3>6. 1..(k - 1) = 1..(l - 1) \cup {l}
      BY <3>1
    <3>7. {s[j] : j \in 1..(k - 1)} = {s[j] : j \in 1..(l - 1)} \cup {s[l]}
      BY <3>6
    <3> QED
      BY <3>3, <3>5, <3>7, <2>2
  <2> QED
    BY <2>3, <2>4
<1>2. \A i \in 1..n : Ahead(s[i]) = {s[j] : j \in 1..(i - 1)}
  BY <1>1
<1>3. \A i \in 1..n : s[i] \in InLine /\ s[i] \in Callers
  BY DEF Walk, InLine
<1>4. ASSUME NEW i \in 1..n, NEW j \in 1..n, i < j PROVE s[i] # s[j]
  <2>1. i \in 1..(j - 1)
    BY <1>4
  <2>2. s[i] \in before[s[j]]
    BY <2>1, <1>2 DEF Ahead
  <2> QED
    BY <2>2, <1>3 DEF Inv, Arrivals
<1>5. \A i, j \in 1..n : i # j => i < j \/ j < i
  OBVIOUS
<1> QED
  BY <1>2, <1>4, <1>5

(* A walk of n nodes has walked n of those in line; short of all of them   *)
(* it has not come to the tail.                                            *)
LEMMA WalkGoesOn ==
    ASSUME Inv, NEW n \in Nat, NEW s, Walk(s, n)
    PROVE  /\ n <= waiting
           /\ n < waiting /\ n > 0 => s[n] # tail
           /\ n = waiting => \A c \in InLine : \E i \in 1..n : s[i] = c
<1> DEFINE Walked == {s[i] : i \in 1..n}
<1>1. /\ IsFiniteSet(Walked) /\ Cardinality(Walked) \in Nat /\ Cardinality(Walked) = n
  <2>1. /\ IsFiniteSet(1..n) /\ Cardinality(1..n) = n
    BY FS_Interval
  <2>2. s \in Bijection(1..n, Walked)
    <3>1. s \in [1..n -> Walked]
      BY DEF Walk
    <3>2. \A i, j \in 1..n : s[i] = s[j] => i = j
      BY WalkAhead
    <3>3. \A c \in Walked : \E i \in 1..n : s[i] = c
      OBVIOUS
    <3> HIDE DEF Walked
    <3> QED
      BY <3>1, <3>2, <3>3 DEF Bijection, Injection, Surjection, IsInjective
  <2> QED
    <3> HIDE DEF Walked
    <3>1. ExistsBijection(1..n, Walked)
      BY <2>2 DEF ExistsBijection
    <3> QED BY <2>1, <3>1, FS_Bijection, FS_CardinalityType
<1>2. Walked \subseteq InLine
  BY DEF Walk
<1>3. waiting = Cardinality(InLine) /\ IsFiniteSet(InLine)
  BY Finite DEF Inv, LineInOrder
<1>4. n <= waiting /\ (n = waiting => Walked = InLine)
  <2> HIDE DEF Walked
  <2> QED BY <1>1, <1>2, <1>3, FS_Subset
<1>5. ASSUME n < waiting, n > 0, s[n] = tail PROVE FALSE
  <2>1. s[n] \in InLine /\ n \in 1..n
    BY <1>5 DEF Walk
  <2>2. InLine = Ahead(tail) \cup {tail}
    BY <2>1, <1>5, GateAssumption DEF Inv, LineInOrder, InLine
  <2>3. Ahead(tail) = {s[j] : j \in 1..(n - 1)}
    BY <2>1, <1>5, WalkAhead
  <2>4. InLine \subseteq Walked
    BY <2>2, <2>3, <2>1, <1>5
  <2>5. InLine = Walked
    BY <2>4, <1>2
  <2> QED
    BY <2>5, <1>1, <1>3, <1>5
<1> QED
  BY <1>4, <1>5

(* The whole list can be walked.                                           *)
LEMMA WalkExists == Inv => \E s : Walk(s, waiting)
<1> SUFFICES ASSUME Inv PROVE \E s : Walk(s, waiting)
  OBVIOUS
<1>0. waiting \in Nat
  BY DEF Inv, TypeOK
<1> DEFINE Short == {n \in 0..waiting : ~ \E s : Walk(s, n)}
<1>1. Short = {}
  <2> SUFFICES ASSUME Short # {} PROVE FALSE
    OBVIOUS
  <2>1. Short \in SUBSET Nat
    BY <1>0
  <2>2. PICK k \in Short : \A m \in Short : k <= m
    <3> HIDE DEF Short
    <3> QED BY <2>1, LeastNumber
  <2>3. k \in 0..waiting /\ k \in Nat /\ ~ \E s : Walk(s, k)
    BY <2>2, <1>0
  <2>4. CASE k = 0
    <3>1. Walk([i \in 1..0 |-> Nil], 0)
      BY DEF Walk
    <3> QED
      BY <3>1, <2>3, <2>4
  <2>5. CASE k > 0
    <3> DEFINE n == k - 1
    <3>1. n \in 0..waiting /\ n \in Nat /\ n < waiting /\ n \notin Short
      BY <2>5, <2>3, <2>2, <1>0
    <3>2. PICK s : Walk(s, n)
      BY <3>1
    <3> DEFINE t == [i \in 1..k |-> IF i < k THEN s[i] ELSE IF k = 1 THEN head ELSE next[s[n]]]
    <3>3. InLine # {} /\ head \in InLine
      <4>1. waiting # 0 /\ waiting = Cardinality(InLine)
        BY <3>1 DEF Inv, LineInOrder
      <4>2. InLine # {}
        BY <4>1, FS_EmptySet
      <4> QED
        BY <4>2 DEF Inv, LineInOrder
    <3>4. k > 1 => s[n] \in InLine /\ s[n] # tail
      <4> SUFFICES ASSUME k > 1 PROVE s[n] \in InLine /\ s[n] # tail
        OBVIOUS
      <4>1. n > 0 /\ n \in 1..n
        BY <2>3
      <4>2. s[n] # tail
        BY <4>1, <3>1, <3>2, WalkGoesOn
      <4> QED
        BY <4>1, <4>2, <3>2 DEF Walk
    <3>5. k > 1 => next[s[n]] \in InLine
      BY <3>4 DEF Inv, LineInOrder
    <3>6. t \in [1..k -> InLine]
      BY <3>2, <3>3, <3>5, <2>3, <2>5 DEF Walk
    <3>7. t[1] = head
      BY <3>2, <2>3, <2>5 DEF Walk
    <3>8. ASSUME NEW i \in 1..(k - 1) PROVE t[i + 1] = next[t[i]]
      <4>1. CASE i < n
        BY <4>1, <3>2, <2>3, <2>5 DEF Walk
      <4>2. CASE i = n
        BY <4>2, <2>3, <2>5
      <4> QED
        BY <4>1, <4>2, <2>3
    <3>9. Walk(t, k)
      <4> HIDE DEF t
      <4> QED BY <3>6, <3>7, <3>8 DEF Walk
    <3> QED
      BY <3>9, <2>3
  <2> QED
    BY <2>3, <2>4, <2>5
<1>2. waiting \notin Short
  BY <1>1
<1> QED
  BY <1>0, <1>2

(* s starts with `first`, goes on by `link` and is n long.                 *)
Chain(s, n, first, link) == s = [i \in 1..n |-> IF i = 1 THEN first ELSE link[s[i - 1]]]

(* Two lists of one length that start alike and go on alike are one.       *)
LEMMA OneChain ==
    ASSUME NEW n \in Nat, NEW first, NEW link, NEW s, NEW t,
           Chain(s, n, first, link), Chain(t, n, first, link)
    PROVE  s = t
<1> DEFINE Apart == {i \in 1..n : s[i] # t[i]}
<1>0. /\ \A i \in 1..n : s[i] = IF i = 1 THEN first ELSE link[s[i - 1]]
      /\ \A i \in 1..n : t[i] = IF i = 1 THEN first ELSE link[t[i - 1]]
  BY DEF Chain
<1>1. Apart = {}
  <2> SUFFICES ASSUME Apart # {} PROVE FALSE
    OBVIOUS
  <2>0. Apart \in SUBSET Nat
    OBVIOUS
  <2>1. PICK k \in Apart : \A m \in Apart : k <= m
    <3> HIDE DEF Apart
    <3> QED BY <2>0, LeastNumber
  <2>2. k \in 1..n /\ s[k] # t[k]
    BY <2>1
  <2>3. k # 1
    BY <2>2, <1>0
  <2>4. k - 1 \in 1..n /\ ~(k <= k - 1)
    BY <2>2, <2>3
  <2>5. k - 1 \notin Apart
    <3> HIDE DEF Apart
    <3> QED BY <2>4, <2>1
  <2>6. s[k - 1] = t[k - 1]
    BY <2>4, <2>5
  <2>7. s[k] = link[s[k - 1]] /\ t[k] = link[t[k - 1]]
    BY <2>2, <2>3, <1>0
  <2> QED
    BY <2>2, <2>6, <2>7
<1>2. \A i \in 1..n : s[i] = t[i]
  BY <1>1
<1>3. s = [i \in 1..n |-> s[i]] /\ t = [i \in 1..n |-> t[i]]
  BY DEF Chain
<1> HIDE DEF Apart
<1> QED
  BY <1>2, <1>3

(* A sequence is the function of its positions.                            *)
LEMMA SeqIsFunction ==
    ASSUME NEW S, NEW s \in Seq(S)
    PROVE  s = [i \in 1..Len(s) |-> s[i]]
<1>1. s \in [1..Len(s) -> S]
  BY LenProperties
<1> QED
  BY <1>1

(* What Line is: the walk of the whole list.                               *)
LEMMA LineIsWalk ==
    Inv => /\ Walk(Line, waiting)
           /\ Chain(Line, waiting, head, next)
<1> SUFFICES ASSUME Inv
             PROVE  /\ Walk(Line, waiting)
                    /\ Chain(Line, waiting, head, next)
  OBVIOUS
<1>0. waiting \in Nat
  BY DEF Inv, TypeOK
<1>1. PICK s : Walk(s, waiting)
  BY WalkExists
<1>2. Chain(s, waiting, head, next)
  <2>1. \A i \in 1..waiting : s[i] = IF i = 1 THEN head ELSE next[s[i - 1]]
    <3> SUFFICES ASSUME NEW i \in 1..waiting, i # 1 PROVE s[i] = next[s[i - 1]]
      BY <1>1, <1>0 DEF Walk
    <3>1. i - 1 \in 1..(waiting - 1) /\ i = (i - 1) + 1
      BY <1>0
    <3> QED
      BY <3>1, <1>1 DEF Walk
  <2> QED
    BY <2>1, <1>1 DEF Walk, Chain
<1> DEFINE node == CHOOSE g : g = [i \in 1..waiting |-> IF i = 1 THEN head ELSE next[g[i - 1]]]
<1>3. Chain(node, waiting, head, next)
  BY <1>2 DEF Chain
<1>4. Line = [i \in 1..waiting |-> node[i]]
  BY Zenon DEF Line
<1> HIDE DEF node
<1>5. node = s
  BY <1>0, <1>2, <1>3, OneChain
<1>6. Line = s
  BY <1>2, <1>4, <1>5 DEF Chain
<1> QED
  BY <1>1, <1>2, <1>6

(* What the steps below need of it.                                        *)
LEMMA LineFacts ==
    Inv => /\ Line \in Seq(InLine) /\ Len(Line) = waiting /\ waiting \in Nat
           /\ Line \in [1..waiting -> InLine]
           /\ Chain(Line, waiting, head, next)
           /\ Line = <<>> <=> head = Nil
           /\ waiting = 0 <=> head = Nil
           /\ waiting > 0 => Line[1] = head /\ Line[waiting] = tail
           /\ \A i \in 1..(waiting - 1) : Line[i + 1] = next[Line[i]]
           /\ \A i, j \in 1..waiting : Line[i] = Line[j] => i = j
           /\ \A c \in InLine : \E i \in 1..waiting : Line[i] = c
<1> SUFFICES ASSUME Inv
             PROVE  /\ Line \in Seq(InLine) /\ Len(Line) = waiting /\ waiting \in Nat
                    /\ Line \in [1..waiting -> InLine]
                    /\ Chain(Line, waiting, head, next)
                    /\ Line = <<>> <=> head = Nil
                    /\ waiting = 0 <=> head = Nil
                    /\ waiting > 0 => Line[1] = head /\ Line[waiting] = tail
                    /\ \A i \in 1..(waiting - 1) : Line[i + 1] = next[Line[i]]
                    /\ \A i, j \in 1..waiting : Line[i] = Line[j] => i = j
                    /\ \A c \in InLine : \E i \in 1..waiting : Line[i] = c
  OBVIOUS
<1>0. waiting \in Nat
  BY DEF Inv, TypeOK
<1>1. Walk(Line, waiting) /\ Chain(Line, waiting, head, next)
  BY LineIsWalk
<1>2. Line \in [1..waiting -> InLine]
  BY <1>1 DEF Walk
<1>3. Line \in Seq(InLine) /\ Len(Line) = waiting
  BY <1>0, <1>2
<1>4. waiting = 0 <=> head = Nil
  BY Finite, FS_EmptySet DEF Inv, LineInOrder
<1>5. Line = <<>> <=> head = Nil
  BY <1>0, <1>3, <1>4
<1>6. /\ \A i, j \in 1..waiting : Line[i] = Line[j] => i = j
      /\ \A i \in 1..waiting : Ahead(Line[i]) = {Line[j] : j \in 1..(i - 1)}
  BY <1>0, <1>1, WalkAhead
<1>7. \A c \in InLine : \E i \in 1..waiting : Line[i] = c
  BY <1>0, <1>1, WalkGoesOn
<1>8. ASSUME waiting > 0 PROVE Line[waiting] = tail
  <2>1. tail \in InLine
    BY <1>4, <1>8 DEF Inv, LineInOrder
  <2>2. PICK i \in 1..waiting : Line[i] = tail
    BY <2>1, <1>7
  <2>3. CASE i < waiting
    <3>1. Line[i + 1] = next[Line[i]] /\ Line[i + 1] \in InLine
      BY <2>3, <1>0, <1>2, <1>1 DEF Walk
    <3>2. next[tail] = Nil
      BY <2>1 DEF Inv, LineInOrder
    <3> QED
      BY <3>1, <3>2, <2>2, GateAssumption DEF InLine
  <2> QED
    BY <2>2, <2>3, <1>0
<1>9. /\ waiting > 0 => Line[1] = head
      /\ \A i \in 1..(waiting - 1) : Line[i + 1] = next[Line[i]]
  BY <1>1, <1>0 DEF Walk
<1> QED
  BY <1>0, <1>1, <1>2, <1>3, <1>4, <1>5, <1>6, <1>7, <1>8, <1>9

(* After a step the line is whatever chain the new pointers make.          *)
LEMMA NextLine ==
    ASSUME Inv', NEW s, Chain(s, waiting', head', next')
    PROVE  Line' = s
<1>1. Inv' => Chain(Line, waiting, head, next)' /\ (waiting \in Nat)'
  BY LineFacts, PTL
<1>2. Chain(Line', waiting', head', next') /\ waiting' \in Nat
  BY <1>1 DEF Chain
<1> QED
  BY <1>2, OneChain

(* A step that changes no pointer of the list leaves the line alone.       *)
LEMMA LineStands ==
    ASSUME Inv, Inv', waiting' = waiting, head' = head,
           \A d \in InLine : next'[d] = next[d]
    PROVE  Line' = Line
<1>1. Chain(Line, waiting, head, next) /\ Line \in [1..waiting -> InLine] /\ waiting \in Nat
  BY LineFacts
<1>2. \A i \in 1..waiting : Line[i] = IF i = 1 THEN head' ELSE next'[Line[i - 1]]
  <2> SUFFICES ASSUME NEW i \in 1..waiting, i # 1 PROVE Line[i] = next'[Line[i - 1]]
    BY <1>1 DEF Chain
  <2>1. i - 1 \in 1..waiting
    BY <1>1
  <2> QED
    BY <2>1, <1>1 DEF Chain
<1>3. Chain(Line, waiting', head', next')
  BY <1>1, <1>2 DEF Chain
<1> QED
  BY <1>3, NextLine

(* A step that takes the k-th node out of the list moves those behind it   *)
(* up.                                                                     *)
LEMMA LineSkips ==
    ASSUME Inv, Inv', NEW k \in 1..waiting, waiting' = waiting - 1,
           head' = IF k = 1 THEN next[head] ELSE head,
           k # 1 => next'[Line[k - 1]] = next[Line[k]],
           \A i \in 1..waiting : i # k /\ i # k - 1 => next'[Line[i]] = next[Line[i]]
    PROVE  Line' = [j \in 1..(waiting - 1) |-> Line[IF j < k THEN j ELSE j + 1]]
<1> DEFINE s == [j \in 1..(waiting - 1) |-> Line[IF j < k THEN j ELSE j + 1]]
<1>1. /\ waiting \in Nat /\ Line[1] = head /\ waiting > 0
      /\ \A i \in 1..(waiting - 1) : Line[i + 1] = next[Line[i]]
  BY LineFacts
<1>2. ASSUME NEW j \in 1..(waiting - 1), j = 1 PROVE s[j] = head'
  BY <1>1, <1>2
<1>3. ASSUME NEW j \in 1..(waiting - 1), j # 1 PROVE s[j] = next'[s[j - 1]]
  <2>0. j - 1 \in 1..(waiting - 1) /\ j \in Nat /\ k \in Nat /\ j - 1 \in Nat
    BY <1>1, <1>3
  <2>1. CASE j < k
    <3>1. s[j] = Line[j] /\ s[j - 1] = Line[j - 1]
      BY <2>0, <2>1
    <3>2. next'[Line[j - 1]] = next[Line[j - 1]]
      BY <2>0, <2>1, <1>1
    <3> QED
      BY <3>1, <3>2, <2>0, <1>1
  <2>2. CASE j = k
    <3>1. s[j] = Line[k + 1] /\ s[j - 1] = Line[k - 1] /\ k # 1
      BY <2>0, <2>2, <1>3
    <3>2. Line[k + 1] = next[Line[k]]
      BY <2>2, <1>1
    <3> QED
      BY <3>1, <3>2
  <2>3. CASE j > k
    <3>1. s[j] = Line[j + 1] /\ s[j - 1] = Line[(j - 1) + 1] /\ (j - 1) + 1 = j
      BY <2>0, <2>3
    <3>2. next'[Line[j]] = next[Line[j]]
      BY <2>0, <2>3, <1>1
    <3> QED
      BY <3>1, <3>2, <1>1
  <2> QED
    BY <2>0, <2>1, <2>2, <2>3
<1>4. Chain(s, waiting', head', next')
  <2>1. \A j \in 1..(waiting - 1) : s[j] = IF j = 1 THEN head' ELSE next'[s[j - 1]]
    BY <1>2, <1>3
  <2>2. s = [j \in 1..(waiting - 1) |-> s[j]]
    OBVIOUS
  <2> HIDE DEF s
  <2> QED
    BY <2>1, <2>2 DEF Chain
<1> HIDE DEF s
<1>5. Line' = s
  BY <1>4, NextLine
<1> QED
  BY <1>5 DEF s

(* A caller outside is idle to the first-come, first-served gate, and a    *)
(* turn is spare to it when Enter finds one.                               *)
LEMMA PromiseReads ==
    ASSUME Inv
    PROVE  /\ \A c \in Callers : at[c] = "outside" => Promise!Idle(c)
           /\ Promise!Spare <=> head = Nil /\ free > 0
<1>1. ASSUME NEW c \in Callers, at[c] = "outside" PROVE Promise!Idle(c)
  <2>1. c \notin Holders /\ c \notin InLine
    BY <1>1 DEF Holders, InLine
  <2>2. \A i \in DOMAIN Line : Line[i] # c
    BY <2>1, LineFacts
  <2> QED
    BY <2>1, <2>2 DEF Promise!Idle
<1>2. free \in Nat /\ free + Cardinality(Holders) = AtOnce /\ Cardinality(Holders) \in Nat
  BY Finite DEF Inv, TypeOK, TurnsAreKept
<1>3. Cardinality(Holders) < AtOnce <=> free > 0
  BY <1>2
<1>4. Line = <<>> <=> head = Nil
  BY LineFacts
<1>5. Promise!Cardinality(Holders) = Cardinality(Holders)
  BY DEF Promise!Cardinality, Cardinality
<1> QED
  BY <1>1, <1>3, <1>4, <1>5 DEF Promise!Spare

(* Each step of a caller is a step of that gate, or none.                  *)
LEMMA EnterPasses ==
    ASSUME Inv, Inv', NEW c \in Callers, Enter(c)
    PROVE  Promise!Pass(c)
<1>1. /\ at[c] = "outside" /\ head = Nil /\ free > 0 /\ at' = [at EXCEPT ![c] = "inside"]
      /\ UNCHANGED <<head, waiting, next, granted>>
  BY DEF Enter
<1>2. Line' = Line
  BY <1>1, LineStands
<1>3. Holders' = Holders \cup {c}
  BY <1>1 DEF Holders, Inv, TypeOK
<1> QED
  BY <1>1, <1>2, <1>3, PromiseReads DEF Promise!Pass

LEMMA ParkQueues ==
    ASSUME Inv, Inv', NEW c \in Callers, NEW limit \in BOOLEAN, Park(c, limit)
    PROVE  Promise!Queue(c)
<1>1. /\ at[c] = "outside" /\ ~(head = Nil /\ free > 0)
      /\ at' = [at EXCEPT ![c] = "parked"] /\ granted' = granted /\ waiting' = waiting + 1
  BY DEF Park
<1>2. \/ tail = Nil /\ head' = c /\ next' = next
      \/ tail # Nil /\ next' = [next EXCEPT ![tail] = c] /\ head' = head
  BY DEF Park
<1>3. ~granted[c] /\ Holders' = Holders
  BY <1>1 DEF Holders, Inv, TypeOK, NoNode
<1> DEFINE n == waiting
<1>4. /\ Line \in [1..n -> InLine] /\ n \in Nat /\ Line \in Seq(InLine) /\ Len(Line) = n
      /\ n = 0 <=> head = Nil
      /\ n > 0 => Line[1] = head /\ Line[n] = tail
      /\ \A i \in 1..(n - 1) : Line[i + 1] = next[Line[i]]
      /\ \A i, j \in 1..n : Line[i] = Line[j] => i = j
  BY LineFacts
<1>5. (head = Nil <=> tail = Nil) /\ next \in [Callers -> Pointer] /\ InLine \subseteq Callers
  BY DEF Inv, LineInOrder, TypeOK, InLine
<1> DEFINE s == [i \in 1..(n + 1) |-> IF i \in 1..n THEN Line[i] ELSE c]
<1>6. s = Append(Line, c)
  <2>1. Line \in Seq(Callers)
    BY <1>4, <1>5
  <2>2. /\ Append(Line, c) \in Seq(Callers) /\ Len(Append(Line, c)) = n + 1
        /\ \A i \in 1..n : Append(Line, c)[i] = Line[i]
        /\ Append(Line, c)[n + 1] = c
    BY <2>1, <1>4, AppendProperties
  <2>3. \A i \in 1..(n + 1) : Append(Line, c)[i] = s[i]
    BY <2>2, <1>4
  <2>4. Append(Line, c) = [i \in 1..(n + 1) |-> Append(Line, c)[i]]
    BY <2>2, SeqIsFunction
  <2> QED
    BY <2>3, <2>4
<1>7. ASSUME NEW i \in 1..(n + 1), i = 1 PROVE s[i] = head'
  BY <1>2, <1>4, <1>5, <1>7
<1>8. ASSUME NEW i \in 1..(n + 1), i # 1 PROVE s[i] = next'[s[i - 1]]
  <2>1. i - 1 \in 1..n /\ n > 0 /\ s[i - 1] = Line[i - 1] /\ s[i - 1] \in Callers
    BY <1>4, <1>5, <1>8
  <2>2. next' = [next EXCEPT ![tail] = c] /\ tail \in Callers
    BY <1>2, <1>4, <1>5, <2>1
  <2>3. CASE i = n + 1
    <3>1. s[i - 1] = tail /\ s[i] = c
      BY <2>1, <2>3, <1>4
    <3> QED
      BY <3>1, <2>2, <1>5
  <2>4. CASE i # n + 1
    <3>1. i - 1 \in 1..(n - 1) /\ i - 1 # n /\ n \in 1..n /\ i \in 1..n /\ (i - 1) + 1 = i
      BY <2>1, <2>4, <1>4
    <3>2. Line[i - 1] # tail
      BY <3>1, <2>1, <1>4
    <3>3. s[i] = Line[i] /\ Line[i] = next[Line[i - 1]]
      BY <3>1, <1>4
    <3> QED
      BY <3>2, <3>3, <2>1, <2>2, <1>5
  <2> QED
    BY <2>3, <2>4
<1>9. Chain(s, waiting', head', next')
  <2>1. \A i \in 1..(n + 1) : s[i] = IF i = 1 THEN head' ELSE next'[s[i - 1]]
    BY <1>7, <1>8
  <2>2. s = [i \in 1..(n + 1) |-> s[i]]
    OBVIOUS
  <2> HIDE DEF s
  <2> QED
    BY <2>1, <2>2, <1>1 DEF Chain
<1>10. Line' = Append(Line, c)
  <2> HIDE DEF s
  <2> QED
    BY <1>6, <1>9, NextLine
<1> HIDE DEF s
<1> QED
  BY <1>1, <1>3, <1>10, PromiseReads DEF Promise!Queue

LEMMA StirRests ==
    ASSUME Inv, Inv', NEW c \in Callers, NEW why \in Ends, Stir(c, why)
    PROVE  UNCHANGED <<Line, Holders>>
<1>1. UNCHANGED <<head, waiting, next, granted, at>>
  BY DEF Stir
<1>2. Line' = Line
  BY <1>1, LineStands
<1> QED
  BY <1>1, <1>2 DEF Holders

LEMMA TakeTurnRests ==
    ASSUME Inv, Inv', NEW c \in Callers, TakeTurn(c)
    PROVE  UNCHANGED <<Line, Holders>>
<1>1. /\ at[c] = "parked" /\ granted[c] /\ at' = [at EXCEPT ![c] = "inside"]
      /\ next' = [next EXCEPT ![c] = Nil] /\ granted' = [granted EXCEPT ![c] = FALSE]
      /\ UNCHANGED <<head, waiting>>
  BY DEF TakeTurn
<1>2. \A d \in InLine : next'[d] = next[d]
  BY <1>1 DEF InLine, Inv, TypeOK
<1>3. Line' = Line
  BY <1>1, <1>2, LineStands
<1>4. Holders' = Holders
  BY <1>1 DEF Holders, Inv, TypeOK
<1> QED
  BY <1>3, <1>4

LEMMA HandOnReturns ==
    ASSUME Inv, Inv', NEW c \in Holders, HandOn(c),
           at' = [at EXCEPT ![c] = "outside"],
           next' = [next EXCEPT ![c] = Nil]
    PROVE  Promise!Return(c)
<1>1. c \in Callers /\ c \notin InLine /\ InLine \subseteq Callers /\ Nil \notin InLine
  BY GateAssumption DEF Holders, InLine
<1>2. \A d \in InLine : next'[d] = next[d]
  BY <1>1 DEF Inv, TypeOK
<1>3. CASE head = Nil
  <2>1. /\ head' = head /\ waiting' = waiting /\ granted' = [granted EXCEPT ![c] = FALSE]
    BY <1>3 DEF HandOn
  <2>2. Line' = Line /\ Line = <<>>
    BY <1>2, <1>3, <2>1, LineStands, LineFacts
  <2>3. Holders' = Holders \ {c}
    BY <1>1, <2>1 DEF Holders, Inv, TypeOK
  <2> QED
    BY <2>2, <2>3 DEF Promise!Return
<1>4. CASE head # Nil
  <2>1. /\ head' = next[head] /\ waiting' = waiting - 1
        /\ granted' = [granted EXCEPT ![head] = TRUE, ![c] = FALSE]
    BY <1>4 DEF HandOn
  <2>2. head \in InLine /\ head \in Callers /\ head # c
    BY <1>1, <1>4 DEF Inv, LineInOrder
  <2>3. Holders' = (Holders \ {c}) \cup {head}
    <3>1. /\ granted'[head] /\ ~granted'[c]
          /\ \A d \in Callers : d # head /\ d # c => granted'[d] = granted[d]
          /\ at'[c] = "outside"
          /\ \A d \in Callers : d # c => at'[d] = at[d]
      BY <1>1, <2>1, <2>2 DEF Inv, TypeOK
    <3> QED
      BY <1>1, <2>2, <3>1 DEF Holders, InLine
  <2>4. /\ waiting \in Nat /\ waiting > 0 /\ Line[1] = head /\ Line # <<>>
        /\ Line \in Seq(InLine) /\ Len(Line) = waiting /\ Line \in [1..waiting -> InLine]
    BY <1>4, LineFacts
  <2>5. Line' = [j \in 1..(waiting - 1) |-> Line[IF j < 1 THEN j ELSE j + 1]]
    <3>1. 1 \in 1..waiting
      BY <2>4
    <3>2. \A i \in 1..waiting : next'[Line[i]] = next[Line[i]]
      BY <1>2, <2>4
    <3> QED
      BY <2>1, <3>1, <3>2, LineSkips
  <2>6. Tail(Line) = [j \in 1..(waiting - 1) |-> Line[j + 1]]
    <3>1. /\ Tail(Line) \in Seq(InLine) /\ Len(Tail(Line)) = waiting - 1
          /\ \A j \in 1..(waiting - 1) : Tail(Line)[j] = Line[j + 1]
      BY <2>4, HeadTailProperties
    <3>2. Tail(Line) = [j \in 1..(waiting - 1) |-> Tail(Line)[j]]
      BY <3>1, SeqIsFunction
    <3> QED
      BY <3>1, <3>2
  <2>7. Line' = Tail(Line) /\ Head(Line) = head
    BY <2>4, <2>5, <2>6
  <2> QED
    BY <2>3, <2>4, <2>7 DEF Promise!Return
<1> QED
  BY <1>3, <1>4

LEMMA GiveUpQuits ==
    ASSUME Inv, Inv', NEW c \in Callers, GiveUp(c)
    PROVE  Promise!Quit(c)
<1>1. /\ at[c] = "parked" /\ ~granted[c] /\ Unlink(c)
      /\ at' = [at EXCEPT ![c] = "outside"] /\ granted' = granted
  BY DEF GiveUp
<1>2. c \in InLine /\ Holders' = Holders /\ Nil \notin InLine /\ InLine \subseteq Callers
  BY <1>1, GateAssumption DEF InLine, Holders, Inv, TypeOK
<1>3. /\ waiting \in Nat /\ Line \in [1..waiting -> InLine] /\ Len(Line) = waiting
      /\ DOMAIN Line = 1..waiting
      /\ waiting > 0 => Line[1] = head /\ Line[waiting] = tail
      /\ \A i \in 1..(waiting - 1) : Line[i + 1] = next[Line[i]]
      /\ \A i, j \in 1..waiting : Line[i] = Line[j] => i = j
      /\ \A d \in InLine : \E i \in 1..waiting : Line[i] = d
  BY LineFacts
<1>4. PICK k \in 1..waiting : Line[k] = c
  BY <1>2, <1>3
<1>5. waiting' = waiting - 1 /\ next \in [Callers -> Pointer]
  BY <1>1 DEF Unlink, Inv, TypeOK
<1>6. Line' = [j \in 1..(waiting - 1) |-> Line[IF j < k THEN j ELSE j + 1]]
  <2>1. CASE head = c
    <3>1. head' = next[c] /\ next' = [next EXCEPT ![c] = Nil]
      BY <1>1, <2>1 DEF Unlink
    <3>2. k = 1
      BY <1>3, <1>4, <2>1
    <3>3. \A i \in 1..waiting : i # k => next'[Line[i]] = next[Line[i]]
      BY <1>2, <1>3, <1>4, <1>5, <3>1
    <3>4. head' = (IF k = 1 THEN next[head] ELSE head)
      BY <2>1, <3>1, <3>2
    <3> QED
      BY <1>5, <3>2, <3>3, <3>4, LineSkips
  <2>2. CASE head # c
    <3>1. PICK p \in InLine :
            /\ next[p] = c /\ head' = head
            /\ next' = [next EXCEPT ![p] = next[c], ![c] = Nil]
      BY <1>1, <2>2 DEF Unlink, Predecessors
    <3>2. PICK l \in 1..waiting : Line[l] = p
      BY <1>3
    <3>3. l # waiting
      <4>1. next[tail] = Nil
        <5>1. tail \in InLine
          BY <1>2 DEF Inv, LineInOrder
        <5> QED
          BY <5>1 DEF Inv, LineInOrder
      <4> QED
        BY <4>1, <3>1, <3>2, <1>2, <1>3
    <3>4. l + 1 \in 1..waiting /\ Line[l + 1] = c
      BY <3>1, <3>2, <3>3, <1>3
    <3>5. k = l + 1 /\ k # 1 /\ k - 1 = l
      BY <3>2, <3>4, <1>3, <1>4
    <3>6. p # c /\ p \in Callers
      BY <3>2, <3>5, <1>2, <1>3, <1>4
    <3>7. next'[Line[k - 1]] = next[Line[k]]
      BY <3>1, <3>2, <3>5, <3>6, <1>2, <1>4, <1>5
    <3>8. ASSUME NEW i \in 1..waiting, i # k, i # k - 1
          PROVE  next'[Line[i]] = next[Line[i]]
      <4>1. Line[i] # c /\ Line[i] # p /\ Line[i] \in Callers
        BY <3>8, <3>2, <3>5, <1>2, <1>3, <1>4
      <4> QED
        BY <4>1, <3>1, <1>5
    <3>9. head' = (IF k = 1 THEN next[head] ELSE head)
      BY <3>1, <3>5
    <3> QED
      BY <1>5, <3>7, <3>8, <3>9, LineSkips
  <2> QED
    BY <2>1, <2>2
<1> QED
  BY <1>2, <1>3, <1>4, <1>6 DEF Promise!Quit

(* The Gate implements the gate FairGate specifies: its list is the line,  *)
(* whoever is named holds a turn, and entering, parking, giving up and     *)
(* handing on are each one step there.                                     *)
THEOREM GateKeepsItsPromise == Spec => KeepsItsPromise
<1>1. Inv /\ Init => Promise!Init
  <2> SUFFICES ASSUME Inv, Init PROVE Promise!Init
    OBVIOUS
  <2>1. Line = <<>>
    BY LineFacts DEF Init
  <2>2. Holders = {}
    BY DEF Init, Holders
  <2> QED
    BY <2>1, <2>2 DEF Promise!Init
<1>2. Inv /\ Inv' /\ [Next]_vars => [Promise!Next]_(Promise!vars)
  <2> SUFFICES ASSUME Inv, Inv', [Next]_vars PROVE [Promise!Next]_(Promise!vars)
    OBVIOUS
  <2>1. ASSUME NEW c \in Callers, Step(c)
        PROVE  Promise!Next \/ UNCHANGED <<Line, Holders>>
    <3>1. CASE Enter(c)
      BY <3>1, EnterPasses DEF Promise!Next
    <3>2. CASE \E limit \in BOOLEAN : Park(c, limit)
      BY <3>2, ParkQueues DEF Promise!Next
    <3>3. CASE \E why \in Ends : Stir(c, why)
      BY <3>3, StirRests
    <3>4. CASE TakeTurn(c)
      BY <3>4, TakeTurnRests
    <3>5. CASE PassOn(c)
      <4>1. /\ c \in Holders /\ HandOn(c) /\ at' = [at EXCEPT ![c] = "outside"]
            /\ next' = [next EXCEPT ![c] = Nil]
        BY <3>5 DEF PassOn, Holders
      <4> QED
        BY <4>1, HandOnReturns DEF Promise!Next
    <3>6. CASE GiveUp(c)
      BY <3>6, GiveUpQuits DEF Promise!Next
    <3>7. CASE Leave(c)
      <4>1. /\ c \in Holders /\ HandOn(c) /\ at' = [at EXCEPT ![c] = "outside"]
            /\ next' = [next EXCEPT ![c] = Nil]
        BY <3>7 DEF Leave, Holders, Inv, NoNode, TypeOK
      <4> QED
        BY <4>1, HandOnReturns DEF Promise!Next
    <3> QED
      BY <2>1, <3>1, <3>2, <3>3, <3>4, <3>5, <3>6, <3>7 DEF Step
  <2>2. CASE UNCHANGED vars
    <3>1. UNCHANGED <<head, waiting, next, granted, at>>
      BY <2>2 DEF vars
    <3>2. Line' = Line
      BY <3>1, LineStands
    <3> QED
      BY <3>1, <3>2 DEF Promise!vars, Holders
  <2> QED
    BY <2>1, <2>2 DEF Next, Promise!vars
<1> QED
  BY <1>1, <1>2, GateInvariant, PTL DEF Spec, KeepsItsPromise, Promise!Spec
=============================================================================
