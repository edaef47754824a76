----------------------------- MODULE OpsProofs -----------------------------
(***************************************************************************)
(* Proofs about Ops, for any candidates, passes, blocks, readings and      *)
(* runs.                                                                   *)
(*                                                                         *)
(* The driver's invariant says of each row how far it got: it has the      *)
(* blocks of the passes 1 to m, in that order and equally many of each     *)
(* (Reached), all of one run over one fixture. In the loop m is told by    *)
(* whether the candidate still has its turn in this pass (Behind). A row   *)
(* of all the passes is then cut by its length where the passes meet,      *)
(* which is what the readers do.                                           *)
(*                                                                         *)
(* What the readers make of a list is shown by counting. A median, an end  *)
(* of the interval or an end of a part is the k-th number of its list      *)
(* (Nth), and that is positive exactly when fewer than k numbers are not:  *)
(* so each verdict compares Cardinality(UpTo(s, 0)) with a place, and the  *)
(* counts of the parts add up to that of the whole but for the blocks a    *)
(* division leaves over. Those are fewer than PASSES, and a part has at    *)
(* least MinBlocks.                                                        *)
(*                                                                         *)
(* Facts about a comprehension (Only) and about the k-th number are of     *)
(* lists of any length. They are shown by least counterexample, the        *)
(* naturals being well founded.                                            *)
(***************************************************************************)
EXTENDS Ops, FiniteSetTheorems, FunctionTheorems, SequenceTheorems, WellFoundedInduction, TLAPS

(* Any property of naturals that has an instance has a least one.          *)
LEMMA LeastNumber ==
    ASSUME NEW S \in SUBSET Nat, S # {}
    PROVE  \E n \in S : \A m \in S : n <= m
<1>1. IsWellFoundedOn(OpToRel(<, Nat), Nat)
  BY NatLessThanWellFounded
<1>2. PICK x \in S : \A y \in S : ~ (<<y, x>> \in OpToRel(<, Nat))
  BY <1>1, WFMin
<1>3. \A y \in S : ~(y < x)
  BY <1>2 DEF OpToRel
<1> QED
  BY <1>3

-----------------------------------------------------------------------------
(* The parts of a list that a comprehension keeps.                         *)

(* g[i] is what is kept of the first i of s.                               *)
IsKept(g, s, S, n) ==
    /\ g[0] = <<>>
    /\ \A i \in 1..n : g[i] = IF s[i] \in S THEN Append(g[i - 1], s[i]) ELSE g[i - 1]

(* There is such a g.                                                      *)
LEMMA KeptsAreThere ==
    ASSUME NEW T, NEW S, NEW s \in Seq(T)
    PROVE  \E g \in [0..Len(s) -> Seq(T)] : IsKept(g, s, S, Len(s))
<1> DEFINE n == Len(s)
           Kepts(k) == {g \in [0..k -> Seq(T)] : IsKept(g, s, S, k)}
           Missing == {k \in 0..n : Kepts(k) = {}}
<1>0. n \in Nat /\ \A i \in 1..n : s[i] \in T
  OBVIOUS
<1> HIDE DEF n
<1>1. ASSUME Missing # {} PROVE FALSE
  <2>1. Missing \in SUBSET Nat
    BY <1>0
  <2>2. PICK k \in Missing : \A j \in Missing : k <= j
    <3> HIDE DEF Missing
    <3> QED BY <1>1, <2>1, LeastNumber
  <2>3. k \in 0..n /\ Kepts(k) = {}
    BY <2>2
  <2>4. k # 0
    <3>1. [i \in 0..0 |-> <<>>] \in Kepts(0)
      BY DEF IsKept
    <3> QED
      BY <3>1, <2>3
  <2>5. k - 1 \in 0..n /\ k - 1 \notin Missing
    BY <1>0, <2>2, <2>3, <2>4
  <2>6. PICK g \in [0..(k - 1) -> Seq(T)] : IsKept(g, s, S, k - 1)
    BY <2>5
  <2> DEFINE last == IF s[k] \in S THEN Append(g[k - 1], s[k]) ELSE g[k - 1]
             h == [i \in 0..k |-> IF i = k THEN last ELSE g[i]]
  <2>7. last \in Seq(T)
    BY <1>0, <2>3, <2>4, <2>6
  <2>8. last = IF s[k] \in S THEN Append(g[k - 1], s[k]) ELSE g[k - 1]
    OBVIOUS
  <2> HIDE DEF last
  <2>9. h \in [0..k -> Seq(T)]
    BY <1>0, <2>3, <2>4, <2>6, <2>7
  <2>10. IsKept(h, s, S, k)
    <3>1. h[0] = <<>>
      BY <1>0, <2>3, <2>4, <2>6 DEF IsKept
    <3>2. ASSUME NEW i \in 1..k
          PROVE  h[i] = IF s[i] \in S THEN Append(h[i - 1], s[i]) ELSE h[i - 1]
      <4>1. CASE i = k
        BY <1>0, <2>3, <2>4, <2>8, <4>1
      <4>2. CASE i # k
        BY <1>0, <2>3, <2>4, <2>6, <4>2 DEF IsKept
      <4> QED
        BY <4>1, <4>2
    <3> QED
      BY <3>1, <3>2 DEF IsKept
  <2> QED
    BY <2>3, <2>9, <2>10
<1>2. n \notin Missing /\ n \in 0..n
  BY <1>0, <1>1
<1>3. Kepts(n) # {}
  <2> HIDE DEF Kepts
  <2> QED BY <1>2
<1> QED
  BY <1>3 DEF n

(* Only() is the last of them.                                             *)
LEMMA OnlyIsKept ==
    ASSUME NEW T, NEW S, NEW s \in Seq(T)
    PROVE  \E g \in [0..Len(s) -> Seq(T)] :
               IsKept(g, s, S, Len(s)) /\ Only(s, S) = g[Len(s)]
<1> DEFINE Equation(g) ==
               g = [i \in 0..Len(s) |->
                       IF i = 0 THEN <<>>
                       ELSE IF s[i] \in S THEN Append(g[i - 1], s[i])
                                          ELSE g[i - 1]]
           f == CHOOSE g : Equation(g)
<1>1. PICK g \in [0..Len(s) -> Seq(T)] : IsKept(g, s, S, Len(s))
  BY KeptsAreThere
<1>2. Equation(g)
  <2> DEFINE h == [i \in 0..Len(s) |->
                      IF i = 0 THEN <<>>
                      ELSE IF s[i] \in S THEN Append(g[i - 1], s[i])
                                         ELSE g[i - 1]]
  <2>1. ASSUME NEW i \in 0..Len(s) PROVE g[i] = h[i]
    <3>1. CASE i = 0
      BY <1>1, <3>1 DEF IsKept
    <3>2. CASE i # 0
      <4>1. i \in 1..Len(s)
        BY <3>2
      <4> QED
        BY <1>1, <3>2, <4>1 DEF IsKept
    <3> QED
      BY <3>1, <3>2
  <2> QED
    BY <1>1, <2>1
<1>3. Equation(f)
  BY <1>2
<1>4. Only(s, S) = f[Len(s)]
  BY Zenon DEF Only
<1> HIDE DEF f
<1>5. f[0] = <<>> /\ \A i \in 1..Len(s) :
          f[i] = IF s[i] \in S THEN Append(f[i - 1], s[i]) ELSE f[i - 1]
  <2>1. 0 \in 0..Len(s) /\ \A i \in 1..Len(s) : i \in 0..Len(s) /\ i # 0
    OBVIOUS
  <2> QED
    BY <1>3, <2>1
<1>6. \A i \in 0..Len(s) : f[i] = g[i]
  <2> DEFINE Off == {i \in 0..Len(s) : f[i] # g[i]}
  <2>1. ASSUME Off # {} PROVE FALSE
    <3>1. Off \in SUBSET Nat
      OBVIOUS
    <3>2. PICK k \in Off : \A j \in Off : k <= j
      <4> HIDE DEF Off
      <4> QED BY <2>1, <3>1, LeastNumber
    <3>3. k # 0
      BY <1>1, <1>5, <3>2 DEF IsKept
    <3>4. k - 1 \in 0..Len(s) /\ k - 1 \notin Off
      BY <3>2, <3>3
    <3> QED
      BY <1>1, <1>5, <3>2, <3>3, <3>4 DEF IsKept
  <2> QED
    BY <2>1
<1> QED
  BY <1>1, <1>4, <1>6

(* Nothing is twice in s.                                                  *)
NoRepeats(s) == \A i, j \in DOMAIN s : s[i] = s[j] => i = j

(* What Only() keeps: the members of S, each as often as it was there.     *)
LEMMA OnlyKeeps ==
    ASSUME NEW T, NEW S, NEW s \in Seq(T)
    PROVE  /\ Only(s, S) \in Seq(T)
           /\ ToSet(Only(s, S)) = ToSet(s) \cap S
           /\ NoRepeats(s) => NoRepeats(Only(s, S))
<1>1. PICK g \in [0..Len(s) -> Seq(T)] :
               IsKept(g, s, S, Len(s)) /\ Only(s, S) = g[Len(s)]
  BY OnlyIsKept
<1> DEFINE Front(i) == {s[j] : j \in 1..i}
           Right(i) == /\ ToSet(g[i]) = Front(i) \cap S
                       /\ NoRepeats(s) => NoRepeats(g[i])
           Off == {i \in 0..Len(s) : ~Right(i)}
<1>2. ASSUME Off # {} PROVE FALSE
  <2>1. Off \in SUBSET Nat
    OBVIOUS
  <2>2. PICK k \in Off : \A j \in Off : k <= j
    <3> HIDE DEF Off
    <3> QED BY <1>2, <2>1, LeastNumber
  <2>3. k \in 0..Len(s) /\ ~Right(k)
    BY <2>2
  <2>4. k # 0
    BY <1>1, <2>3 DEF IsKept, ToSet, NoRepeats
  <2>5. k \in 1..Len(s) /\ k - 1 \in 0..Len(s) /\ Right(k - 1)
    BY <2>2, <2>3, <2>4
  <2>6. Front(k) = Front(k - 1) \cup {s[k]}
    <3>1. 1..k = 1..(k - 1) \cup {k}
      BY <2>5
    <3> QED BY <3>1
  <2>7. s[k] \in T /\ g[k - 1] \in Seq(T)
    BY <1>1, <2>5
  <2>8. CASE s[k] \notin S
    <3>1. g[k] = g[k - 1]
      BY <1>1, <2>5, <2>8 DEF IsKept
    <3>2. Front(k) \cap S = Front(k - 1) \cap S
      BY <2>6, <2>8
    <3> QED
      BY <2>3, <2>5, <3>1, <3>2
  <2>9. CASE s[k] \in S
    <3>1. g[k] = Append(g[k - 1], s[k])
      BY <1>1, <2>5, <2>9 DEF IsKept
    <3>2. /\ DOMAIN g[k] = DOMAIN g[k - 1] \cup {Len(g[k - 1]) + 1}
          /\ \A i \in DOMAIN g[k - 1] : g[k][i] = g[k - 1][i]
          /\ g[k][Len(g[k - 1]) + 1] = s[k]
      BY <2>7, <3>1
    <3>3. ToSet(g[k]) = ToSet(g[k - 1]) \cup {s[k]}
      BY <3>2 DEF ToSet
    <3>4. ToSet(g[k]) = Front(k) \cap S
      BY <3>3, <2>5, <2>6, <2>9
    <3>5. ASSUME NoRepeats(s) PROVE NoRepeats(g[k])
      <4>1. s[k] \notin Front(k - 1)
        <5>1. \A j \in 1..(k - 1) : j \in DOMAIN s /\ k \in DOMAIN s /\ j # k
          BY <2>5
        <5> QED
          BY <3>5, <5>1 DEF NoRepeats
      <4>2. \A i \in DOMAIN g[k - 1] : g[k - 1][i] # s[k]
        BY <2>5, <4>1 DEF ToSet
      <4>3. NoRepeats(g[k - 1])
        BY <2>5, <3>5
      <4> QED
        BY <3>2, <4>2, <4>3 DEF NoRepeats
    <3> QED
      BY <2>3, <3>4, <3>5
  <2> QED
    BY <2>8, <2>9
<1>3. Right(Len(s))
  <2>1. Len(s) \in 0..Len(s)
    OBVIOUS
  <2>2. Off = {}
    <3> HIDE DEF Off
    <3> QED BY <1>2
  <2> HIDE DEF Right
  <2> QED BY <2>1, <2>2
<1>4. Front(Len(s)) = ToSet(s)
  BY DEF ToSet
<1> QED
  BY <1>1, <1>3, <1>4

(* The members of S stand in s at the places after a up to b.              *)
Together(s, S, a, b) == \A i \in 1..Len(s) : s[i] \in S <=> a < i /\ i <= b

(* Only() is that part of s.                                               *)
LEMMA OnlyIsPart ==
    ASSUME NEW T, NEW S, NEW s \in Seq(T), NEW a \in Nat, NEW b \in Nat,
           a <= b, b <= Len(s), Together(s, S, a, b)
    PROVE  Only(s, S) = SubSeq(s, a + 1, b)
<1>0. \A i \in 1..Len(s) : s[i] \in S <=> a < i /\ i <= b
  BY DEF Together
<1>1. PICK g \in [0..Len(s) -> Seq(T)] :
               IsKept(g, s, S, Len(s)) /\ Only(s, S) = g[Len(s)]
  BY OnlyIsKept
<1> DEFINE End(i) == IF i <= a THEN a ELSE IF i <= b THEN i ELSE b
           Off == {i \in 0..Len(s) : g[i] # SubSeq(s, a + 1, End(i))}
<1>2. ASSUME Off # {} PROVE FALSE
  <2>1. Off \in SUBSET Nat
    OBVIOUS
  <2>2. PICK k \in Off : \A j \in Off : k <= j
    <3> HIDE DEF Off
    <3> QED BY <1>2, <2>1, LeastNumber
  <2>3. k \in 0..Len(s) /\ g[k] # SubSeq(s, a + 1, End(k))
    BY <2>2
  <2>4. k # 0
    <3>1. g[0] = <<>> /\ End(0) = a
      BY <1>1 DEF IsKept
    <3>2. SubSeq(s, a + 1, a) = <<>>
      OBVIOUS
    <3> QED
      BY <2>3, <3>1, <3>2
  <2>5. k \in 1..Len(s) /\ k - 1 \in 0..Len(s)
        /\ g[k - 1] = SubSeq(s, a + 1, End(k - 1))
    BY <2>2, <2>3, <2>4
  <2>6. CASE ~(a < k /\ k <= b)
    <3>1. g[k] = g[k - 1]
      BY <1>0, <1>1, <2>5, <2>6 DEF IsKept
    <3>2. End(k) = End(k - 1)
      BY <2>5, <2>6
    <3> QED
      BY <2>3, <2>5, <3>1, <3>2
  <2>7. CASE a < k /\ k <= b
    <3>1. g[k] = Append(g[k - 1], s[k])
      BY <1>0, <1>1, <2>5, <2>7 DEF IsKept
    <3>2. End(k) = k /\ End(k - 1) = k - 1
      BY <2>5, <2>7
    <3>3. SubSeq(s, a + 1, k) = Append(SubSeq(s, a + 1, k - 1), s[k])
      BY <2>5, <2>7
    <3> QED
      BY <2>3, <2>5, <3>1, <3>2, <3>3
  <2> QED
    BY <2>6, <2>7
<1>3. g[Len(s)] = SubSeq(s, a + 1, End(Len(s)))
  BY <1>2
<1>4. End(Len(s)) = b
  OBVIOUS
<1> QED
  BY <1>1, <1>3, <1>4

-----------------------------------------------------------------------------
(* Order statistics: what the medians and the interval say about how many  *)
(* of a list are not positive.                                             *)

(* A list has as many places as it is long.                                *)
LEMMA Places ==
    ASSUME NEW s \in Seq(Int)
    PROVE  /\ Len(s) \in Nat
           /\ DOMAIN s = 1..Len(s)
           /\ \A i \in DOMAIN s : s[i] \in Int
           /\ IsFiniteSet(DOMAIN s)
           /\ Cardinality(DOMAIN s) = Len(s)
<1>1. Len(s) \in Nat /\ DOMAIN s = 1..Len(s) /\ \A i \in DOMAIN s : s[i] \in Int
  OBVIOUS
<1>2. IsFiniteSet(1..Len(s)) /\ Cardinality(1..Len(s)) = IF 1 > Len(s) THEN 0 ELSE Len(s) - 1 + 1
  BY <1>1, FS_Interval
<1> QED
  BY <1>1, <1>2

(* So has any part of it that is picked by place.                          *)
LEMMA PartOfPlaces ==
    ASSUME NEW s \in Seq(Int), NEW A \in SUBSET DOMAIN s
    PROVE  /\ IsFiniteSet(A)
           /\ Cardinality(A) \in Nat
           /\ Cardinality(A) <= Len(s)
           /\ \A B \in SUBSET A : /\ IsFiniteSet(B)
                                  /\ Cardinality(B) \in Nat
                                  /\ Cardinality(B) <= Cardinality(A)
                                  /\ B # A => Cardinality(B) < Cardinality(A)
<1>1. IsFiniteSet(A) /\ Cardinality(A) <= Len(s)
  BY Places, FS_Subset
<1>2. Cardinality(A) \in Nat
  BY <1>1, FS_CardinalityType
<1>3. ASSUME NEW B \in SUBSET A
      PROVE  /\ IsFiniteSet(B)
             /\ Cardinality(B) \in Nat
             /\ Cardinality(B) <= Cardinality(A)
             /\ B # A => Cardinality(B) < Cardinality(A)
  <2>1. IsFiniteSet(B) /\ Cardinality(B) <= Cardinality(A)
        /\ (Cardinality(A) = Cardinality(B) => A = B)
    BY <1>1, FS_Subset
  <2>2. Cardinality(B) \in Nat
    BY <2>1, FS_CardinalityType
  <2> QED
    BY <1>2, <2>1, <2>2
<1> QED
  BY <1>1, <1>2, <1>3

(* The greatest of some of a list's numbers.                               *)
LEMMA Greatest ==
    ASSUME NEW s \in Seq(Int), NEW A \in SUBSET DOMAIN s, A # {}
    PROVE  \E i \in A : \A j \in A : s[j] <= s[i]
<1> DEFINE Upper(i) == {j \in A : s[j] > s[i]}
           Counts == {Cardinality(Upper(i)) : i \in A}
<1>1. \A i \in A : Upper(i) \in SUBSET DOMAIN s /\ s[i] \in Int
  BY Places
<1>2. \A i \in A : Cardinality(Upper(i)) \in Nat
  <2> HIDE DEF Upper
  <2> QED BY <1>1, PartOfPlaces
<1>3. Counts \in SUBSET Nat /\ Counts # {}
  BY <1>2
<1>4. PICK c \in Counts : \A d \in Counts : c <= d
  <2> HIDE DEF Counts
  <2> QED BY <1>3, LeastNumber
<1>5. PICK i \in A : c = Cardinality(Upper(i))
  BY <1>4
<1>6. ASSUME NEW j \in A, ~(s[j] <= s[i]) PROVE FALSE
  <2>1. s[i] \in Int /\ s[j] \in Int
    BY <1>1
  <2>2. Upper(j) \subseteq Upper(i) /\ j \in Upper(i) /\ j \notin Upper(j)
    BY <1>1, <1>6, <2>1
  <2>3. Cardinality(Upper(j)) < Cardinality(Upper(i))
    <3>1. Upper(i) \in SUBSET DOMAIN s
      BY <1>1
    <3>2. Upper(j) \in SUBSET Upper(i) /\ Upper(j) # Upper(i)
      BY <2>2
    <3> HIDE DEF Upper
    <3> QED BY <3>1, <3>2, PartOfPlaces
  <2>4. Cardinality(Upper(j)) \in Counts
    OBVIOUS
  <2> HIDE DEF Upper, Counts
  <2> QED
    BY <1>2, <1>4, <1>5, <2>3, <2>4
<1> QED
  BY <1>6

(* The k-th smallest of a list is there, for every k up to its length.     *)
LEMMA NthIs ==
    ASSUME NEW s \in Seq(Int), NEW k \in 1..Len(s)
    PROVE  /\ Nth(s, k) \in ToSet(s)
           /\ Nth(s, k) \in Int
           /\ Cardinality(Below(s, Nth(s, k))) < k
           /\ k <= Cardinality(UpTo(s, Nth(s, k)))
<1> DEFINE Enough == {i \in DOMAIN s : k <= Cardinality(UpTo(s, s[i]))}
           Counts == {Cardinality(UpTo(s, s[i])) : i \in Enough}
<1>1. \A i \in DOMAIN s : s[i] \in Int /\ UpTo(s, s[i]) \in SUBSET DOMAIN s
                          /\ Below(s, s[i]) \in SUBSET UpTo(s, s[i])
                          /\ i \in UpTo(s, s[i]) \ Below(s, s[i])
  BY Places DEF UpTo, Below
<1>2. Enough # {}
  <2>1. PICK i \in DOMAIN s : \A j \in DOMAIN s : s[j] <= s[i]
    BY Places, Greatest
  <2>2. UpTo(s, s[i]) = DOMAIN s
    BY <2>1 DEF UpTo
  <2> QED
    BY <2>2, Places
<1>3. \A i \in DOMAIN s : Cardinality(UpTo(s, s[i])) \in Nat
  BY <1>1, PartOfPlaces
<1>4. Counts \in SUBSET Nat /\ Counts # {}
  BY <1>2, <1>3
<1>5. PICK c \in Counts : \A d \in Counts : c <= d
  <2> HIDE DEF Counts
  <2> QED BY <1>4, LeastNumber
<1>6. PICK i \in Enough : c = Cardinality(UpTo(s, s[i]))
  BY <1>5
<1>7. i \in DOMAIN s /\ k <= Cardinality(UpTo(s, s[i]))
  BY <1>6
<1>8. Cardinality(Below(s, s[i])) < k
  <2>1. SUFFICES ASSUME ~(Cardinality(Below(s, s[i])) < k) PROVE FALSE
    OBVIOUS
  <2>2. Below(s, s[i]) \in SUBSET DOMAIN s
    BY DEF Below
  <2>3. Cardinality(Below(s, s[i])) \in Nat
    BY <2>2, PartOfPlaces
  <2>4. Below(s, s[i]) # {}
    <3>1. Cardinality({}) = 0
      BY FS_EmptySet
    <3>2. 0 < k
      OBVIOUS
    <3>3. ASSUME Below(s, s[i]) = {} PROVE FALSE
      <4>1. Cardinality(Below(s, s[i])) = 0
        BY <3>1, <3>3
      <4> QED
        BY <2>1, <3>2, <4>1
    <3> QED
      BY <3>3
  <2>5. PICK j \in Below(s, s[i]) : \A l \in Below(s, s[i]) : s[l] <= s[j]
    BY <2>2, <2>4, Greatest
  <2>6. j \in DOMAIN s /\ s[j] < s[i]
    BY <2>5 DEF Below
  <2>7. UpTo(s, s[j]) = Below(s, s[i])
    BY <1>1, <1>7, <2>5, <2>6 DEF Below, UpTo
  <2>8. j \in Enough
    BY <2>1, <2>3, <2>6, <2>7
  <2>9. Cardinality(UpTo(s, s[j])) < Cardinality(UpTo(s, s[i]))
    <3>1. Below(s, s[i]) # UpTo(s, s[i])
      BY <1>1, <1>7
    <3> QED
      BY <1>1, <1>7, <2>7, <3>1, PartOfPlaces
  <2>10. Cardinality(UpTo(s, s[j])) \in Counts
    BY <2>8
  <2> HIDE DEF Counts, Enough
  <2> QED
    BY <1>3, <1>5, <1>6, <1>7, <2>6, <2>9, <2>10
<1>9. s[i] \in ToSet(s)
  BY <1>7 DEF ToSet
<1>10. \E x \in ToSet(s) : Cardinality(Below(s, x)) < k /\ k <= Cardinality(UpTo(s, x))
  BY <1>7, <1>8, <1>9
<1>11. /\ Nth(s, k) \in ToSet(s)
       /\ Cardinality(Below(s, Nth(s, k))) < k
       /\ k <= Cardinality(UpTo(s, Nth(s, k)))
  BY <1>10, Zenon DEF Nth
<1>12. ToSet(s) \subseteq Int
  BY DEF ToSet
<1> QED
  BY <1>11, <1>12

(* What the k-th smallest says of how many are not positive.               *)
LEMMA NthAndZero ==
    ASSUME NEW s \in Seq(Int), NEW k \in 1..Len(s)
    PROVE  /\ Cardinality(UpTo(s, 0)) \in 0..Len(s)
           /\ Nth(s, k) > 0 => Cardinality(UpTo(s, 0)) < k
           /\ Nth(s, k) <= 0 => k <= Cardinality(UpTo(s, 0))
<1> DEFINE x == Nth(s, k)
<1>1. x \in Int /\ Cardinality(Below(s, x)) < k /\ k <= Cardinality(UpTo(s, x))
  BY NthIs
<1> HIDE DEF x
<1>2. /\ UpTo(s, 0) \in SUBSET DOMAIN s
      /\ UpTo(s, x) \in SUBSET DOMAIN s
      /\ Below(s, x) \in SUBSET DOMAIN s
  BY DEF UpTo, Below
<1>3. /\ Cardinality(UpTo(s, 0)) \in Nat
      /\ Cardinality(UpTo(s, 0)) <= Len(s)
      /\ Cardinality(UpTo(s, x)) \in Nat
      /\ Cardinality(Below(s, x)) \in Nat
  BY <1>2, PartOfPlaces
<1>4. ASSUME x > 0 PROVE Cardinality(UpTo(s, 0)) < k
  <2>1. UpTo(s, 0) \in SUBSET Below(s, x)
    BY <1>1, <1>4, Places DEF UpTo, Below
  <2>2. Cardinality(UpTo(s, 0)) <= Cardinality(Below(s, x))
    BY <1>2, <2>1, PartOfPlaces
  <2> QED
    BY <1>1, <1>3, <2>2
<1>5. ASSUME x <= 0 PROVE k <= Cardinality(UpTo(s, 0))
  <2>1. UpTo(s, x) \in SUBSET UpTo(s, 0)
    BY <1>1, <1>5, Places DEF UpTo
  <2>2. Cardinality(UpTo(s, x)) <= Cardinality(UpTo(s, 0))
    BY <1>2, <2>1, PartOfPlaces
  <2> QED
    BY <1>1, <1>3, <2>2
<1>6. Len(s) \in Nat
  BY Places
<1> QED
  BY <1>3, <1>4, <1>5, <1>6 DEF x

(* sorted() sorts.                                                         *)
LEMMA NthGrows ==
    ASSUME NEW s \in Seq(Int), NEW j \in 1..Len(s), NEW k \in 1..Len(s), j <= k
    PROVE  Nth(s, j) <= Nth(s, k)
<1> DEFINE x == Nth(s, j)
           y == Nth(s, k)
<1>1. /\ x \in Int /\ Cardinality(Below(s, x)) < j
      /\ y \in Int /\ k <= Cardinality(UpTo(s, y))
  BY NthIs
<1> HIDE DEF x, y
<1>2. SUFFICES ASSUME ~(x <= y) PROVE FALSE
  BY DEF x, y
<1>3. UpTo(s, y) \in SUBSET Below(s, x) /\ Below(s, x) \in SUBSET DOMAIN s
  BY <1>1, <1>2, Places DEF UpTo, Below
<1>4. /\ Cardinality(Below(s, x)) \in Nat
      /\ Cardinality(UpTo(s, y)) \in Nat
      /\ Cardinality(UpTo(s, y)) <= Cardinality(Below(s, x))
  BY <1>3, PartOfPlaces
<1>5. Len(s) \in Nat
  BY Places
<1> QED
  BY <1>1, <1>4, <1>5

(* statistics.median, and what its sign says.                              *)
LEMMA MedianIs ==
    ASSUME NEW s \in Seq(Int), s # <<>>
    PROVE  /\ Len(s) \in Nat \ {0}
           /\ Median(s) \in Int
           /\ Cardinality(UpTo(s, 0)) \in 0..Len(s)
           /\ Median(s) > 0 => Cardinality(UpTo(s, 0)) <= Len(s) \div 2
           /\ ~(Median(s) > 0) => Cardinality(UpTo(s, 0)) >= (Len(s) + 1) \div 2
<1> DEFINE n == Len(s)
           a == (n + 1) \div 2
           b == n \div 2 + 1
           c == Cardinality(UpTo(s, 0))
           x == Nth(s, a)
           y == Nth(s, b)
<1>1. n \in Nat \ {0}
  OBVIOUS
<1>2. a \in 1..n /\ b \in 1..n /\ a <= b
  BY <1>1
<1>3. Median(s) = x + y
  BY DEF Median
<1> HIDE DEF n, a, b
<1>4. x \in Int /\ y \in Int
  BY <1>2, NthIs DEF n
<1>5. x <= y
  BY <1>2, NthGrows DEF n
<1>6. /\ c \in 0..n
      /\ x <= 0 => a <= c
      /\ y > 0 => c < b
  BY <1>2, NthAndZero DEF n
<1> HIDE DEF c, x, y
<1>7. c \in Int /\ a \in Int /\ b \in Int
  BY <1>1, <1>2, <1>6
<1>8. Median(s) > 0 => c < b
  BY <1>3, <1>4, <1>5, <1>6
<1>9. ~(Median(s) > 0) => a <= c
  BY <1>3, <1>4, <1>5, <1>6
<1>10. b = n \div 2 + 1 /\ n \div 2 \in Int /\ a = (n + 1) \div 2
  BY <1>1 DEF a, b
<1>11. Median(s) \in Int
  BY <1>3, <1>4
<1>12. Median(s) > 0 => c <= n \div 2
  BY <1>7, <1>8, <1>10
<1>13. ~(Median(s) > 0) => c >= (n + 1) \div 2
  BY <1>7, <1>9, <1>10
<1> QED
  BY <1>1, <1>6, <1>11, <1>12, <1>13 DEF n, c

(* The greater and the lesser of two numbers.                              *)
LEMMA OfTwo ==
    ASSUME NEW a \in Int, NEW b \in Int
    PROVE  /\ Max({a, b}) = IF a >= b THEN a ELSE b
           /\ Min({a, b}) = IF a <= b THEN a ELSE b
BY DEF Max, Min

(* K is there, and at least 1 for two blocks or more.                      *)
LEMMA KIs ==
    ASSUME NEW n \in Nat
    PROVE  /\ K(n) \in 0..n
           /\ 40000 * K(n) * K(n) <= 38416 * n
           /\ 38416 * n < 40000 * (K(n) + 1) * (K(n) + 1)
           /\ n >= 2 => K(n) >= 1
<1> DEFINE Over == {k \in Nat : 38416 * n < 40000 * (k + 1) * (k + 1)}
<1>1. n \in Over
  <2>1. \A m \in Nat : 38416 * m < 40000 * (m + 1) * (m + 1)
    <3>1. \A m \in Nat : (m + 1) * (m + 1) >= m + 1
      <4>1. \A m \in Nat : (m + 1) * (m + 1) = m * m + 2 * m + 1 /\ m * m \in Nat
        OBVIOUS
      <4> QED BY <4>1
    <3>2. \A m \in Nat : (m + 1) * (m + 1) \in Int /\ 40000 * (m + 1) * (m + 1) = 40000 * ((m + 1) * (m + 1))
      OBVIOUS
    <3> QED BY <3>1, <3>2
  <2> QED BY <2>1
<1>2. PICK k \in Over : \A l \in Over : k <= l
  <2>1. Over \in SUBSET Nat /\ Over # {}
    BY <1>1
  <2> HIDE DEF Over
  <2> QED BY <2>1, LeastNumber
<1>3. k \in Nat /\ 38416 * n < 40000 * (k + 1) * (k + 1) /\ k <= n
  BY <1>1, <1>2
<1>4. 40000 * k * k <= 38416 * n
  <2>1. CASE k = 0
    BY <2>1
  <2>2. CASE k # 0
    <3>1. k - 1 \in Nat /\ k - 1 \notin Over
      BY <1>2, <1>3, <2>2
    <3>2. ~(38416 * n < 40000 * ((k - 1) + 1) * ((k - 1) + 1))
      BY <3>1
    <3>3. (k - 1) + 1 = k
      BY <1>3
    <3>4. ~(38416 * n < 40000 * k * k)
      BY <3>2, <3>3
    <3>5. 40000 * k * k \in Int /\ 38416 * n \in Int
      BY <1>3
    <3> HIDE DEF Over
    <3> QED BY <3>4, <3>5
  <2> QED
    BY <2>1, <2>2
<1>5. k \in 0..n
  BY <1>3
<1> HIDE DEF Over
<1>6. /\ K(n) \in 0..n
      /\ 40000 * K(n) * K(n) <= 38416 * n
      /\ 38416 * n < 40000 * (K(n) + 1) * (K(n) + 1)
  <2> DEFINE Root(l) == 40000 * l * l <= 38416 * n /\ 38416 * n < 40000 * (l + 1) * (l + 1)
  <2>1. K(n) = CHOOSE l \in 0..n : Root(l)
    BY DEF K
  <2>2. \E l \in 0..n : Root(l)
    BY <1>3, <1>4, <1>5
  <2>3. K(n) \in 0..n /\ Root(K(n))
    <3> HIDE DEF Root
    <3> QED BY <2>1, <2>2, Zenon
  <2> QED
    BY <2>3
<1>7. K(n) = 0 => n < 2
  BY <1>6
<1> QED
  BY <1>6, <1>7

(* Without its arithmetic.                                                 *)
LEMMA KType ==
    ASSUME NEW n \in Nat
    PROVE  K(n) \in Nat /\ (n >= 2 => K(n) >= 1)
<1>1. K(n) \in 0..n /\ (n >= 2 => K(n) >= 1)
  BY KIs
<1> QED
  BY <1>1

(* Its upper bound.                                                        *)
LEMMA KUpper ==
    ASSUME NEW n \in Nat
    PROVE  38416 * n < 40000 * ((K(n) + 1) * (K(n) + 1))
<1>1. K(n) \in Nat
  BY KType
<1>2. 38416 * n < 40000 * (K(n) + 1) * (K(n) + 1)
  BY KIs
<1>3. \A k \in Nat : 40000 * (k + 1) * (k + 1) = 40000 * ((k + 1) * (k + 1))
  OBVIOUS
<1> QED
  BY <1>1, <1>2, <1>3

-----------------------------------------------------------------------------
(* The equal parts a pooled list is cut into.                              *)

(* Multiples of a positive number are ordered as what they are multiples   *)
(* of.                                                                     *)
LEMMA Multiples ==
    ASSUME NEW a \in Int, NEW b \in Int, NEW m \in Nat
    PROVE  /\ a * m \in Int /\ b * m \in Int
           /\ (a + 1) * m = a * m + m
           /\ (a - 1) * m = a * m - m
           /\ a <= b => a * m <= b * m
           /\ a * m < b * m => a < b
<1>1. a * m \in Int /\ b * m \in Int
  OBVIOUS
<1>2. (a + 1) * m = a * m + m /\ (a - 1) * m = a * m - m
  OBVIOUS
<1>3. \A c \in Nat : c * m \in Nat
  OBVIOUS
<1>4. a <= b => a * m <= b * m
  <2>1. ASSUME a <= b PROVE a * m <= b * m
    <3>1. b - a \in Nat
      BY <2>1
    <3>2. (b - a) * m \in Nat
      BY <1>3, <3>1
    <3>3. (b - a) * m = b * m - a * m
      OBVIOUS
    <3> QED
      BY <1>1, <3>2, <3>3
  <2> QED
    BY <2>1
<1>5. a * m < b * m => a < b
  <2>1. ASSUME b <= a PROVE b * m <= a * m
    <3>1. a - b \in Nat
      BY <2>1
    <3>2. (a - b) * m \in Nat
      BY <1>3, <3>1
    <3>3. (a - b) * m = a * m - b * m
      OBVIOUS
    <3> QED
      BY <1>1, <3>2, <3>3
  <2> QED
    BY <1>1, <2>1
<1> QED
  BY <1>1, <1>2, <1>4, <1>5

(* Division by the number of passes leaves less than one block a pass.     *)
LEMMA Quotient ==
    ASSUME NEW n \in Nat, NEW m \in Nat \ {0}
    PROVE  /\ n \div m \in Nat
           /\ m * (n \div m) <= n
           /\ n < m * (n \div m) + m
           /\ \A q \in Nat : n = q * m => n \div m = q
OBVIOUS

(* A part of a list.                                                       *)
LEMMA SliceIs ==
    ASSUME NEW T, NEW s \in Seq(T), NEW p \in 1..PASSES
    PROVE  /\ Per(s) \in Nat
           /\ (p - 1) * Per(s) \in Nat
           /\ p * Per(s) = (p - 1) * Per(s) + Per(s)
           /\ p * Per(s) <= Len(s)
           /\ Slice(s, p) \in Seq(T)
           /\ Len(Slice(s, p)) = Per(s)
           /\ \A i \in 1..Per(s) : Slice(s, p)[i] = s[(p - 1) * Per(s) + i]
<1> DEFINE m == Per(s)
           a == (p - 1) * m
           b == p * m
<1>1. PASSES \in Nat \ {0} /\ p \in Nat \ {0} /\ p <= PASSES /\ Len(s) \in Nat
  BY OpsAssumption
<1>2. m \in Nat /\ PASSES * m <= Len(s)
  BY <1>1, Quotient DEF Per
<1> HIDE DEF m
<1>3. a \in Nat /\ b = a + m /\ b <= Len(s)
  <2>1. p - 1 \in Nat
    BY <1>1
  <2>2. a \in Nat
    BY <1>2, <2>1
  <2>3. a = b - m /\ b \in Int
    BY <1>1, <1>2, Multiples
  <2>4. b <= PASSES * m
    BY <1>1, <1>2, Multiples
  <2>5. PASSES * m \in Int
    BY <1>1, <1>2
  <2> HIDE DEF a, b
  <2> QED
    BY <1>1, <1>2, <2>2, <2>3, <2>4, <2>5
<1>4. Slice(s, p) = SubSeq(s, a + 1, b)
  BY DEF Slice, m
<1> HIDE DEF a, b
<1>5. /\ SubSeq(s, a + 1, b) \in Seq(T)
      /\ Len(SubSeq(s, a + 1, b)) = m
      /\ \A i \in 1..m : SubSeq(s, a + 1, b)[i] = s[a + i]
  <2>1. a + 1 \in 1..(Len(s) + 1) /\ b \in Nat /\ b <= Len(s)
    BY <1>1, <1>2, <1>3
  <2>2. SubSeq(s, a + 1, b) \in Seq(T)
    BY <1>1, <1>2, <1>3, <2>1
  <2>3. Len(SubSeq(s, a + 1, b)) = m
    BY <1>1, <1>2, <1>3, <2>1
  <2>4. \A i \in 1..m : SubSeq(s, a + 1, b)[i] = s[a + i]
    BY <1>1, <1>2, <1>3, <2>1
  <2> QED
    BY <2>2, <2>3, <2>4
<1> QED
  BY <1>2, <1>3, <1>4, <1>5 DEF m, a, b

(* The places of a part that do not hold a positive number.                *)
Part(s, p) == {i \in DOMAIN s : (p - 1) * Per(s) < i /\ i <= p * Per(s) /\ s[i] <= 0}

(* There are as many in the list as in the part.                           *)
LEMMA PartCounts ==
    ASSUME NEW s \in Seq(Int), NEW p \in 1..PASSES
    PROVE  Cardinality(Part(s, p)) = Cardinality(UpTo(Slice(s, p), 0))
<1> DEFINE t == Slice(s, p)
           m == Per(s)
           a == (p - 1) * m
           b == p * m
<1>1. /\ m \in Nat /\ a \in Nat /\ b = a + m /\ b <= Len(s)
      /\ t \in Seq(Int) /\ Len(t) = m
      /\ \A i \in 1..m : t[i] = s[a + i]
  BY SliceIs
<1>2. Part(s, p) = {i \in DOMAIN s : a < i /\ i <= b /\ s[i] <= 0}
  BY DEF Part
<1>3. Len(s) \in Nat /\ DOMAIN s = 1..Len(s) /\ DOMAIN t = 1..m
  BY <1>1, Places
<1> HIDE DEF t, m, a, b
<1> DEFINE f == [i \in UpTo(t, 0) |-> a + i]
<1>4. f \in Bijection(UpTo(t, 0), Part(s, p))
  <2>1. \A i \in UpTo(t, 0) : i \in 1..m /\ t[i] <= 0 /\ t[i] = s[a + i]
    BY <1>1, <1>3 DEF UpTo
  <2>2. \A i \in UpTo(t, 0) : a + i \in Part(s, p)
    BY <1>1, <1>2, <1>3, <2>1
  <2>3. f \in [UpTo(t, 0) -> Part(s, p)]
    BY <2>2
  <2>4. \A i, j \in UpTo(t, 0) : f[i] = f[j] => i = j
    BY <1>1, <2>1
  <2>5. ASSUME NEW k \in Part(s, p) PROVE \E i \in UpTo(t, 0) : f[i] = k
    <3>1. k \in Nat /\ a < k /\ k <= b /\ s[k] <= 0
      BY <1>1, <1>2, <1>3
    <3>2. k - a \in 1..m /\ a + (k - a) = k
      BY <1>1, <3>1
    <3>3. k - a \in UpTo(t, 0)
      BY <1>1, <1>3, <3>1, <3>2 DEF UpTo
    <3> QED
      BY <3>2, <3>3
  <2> QED
    BY <2>3, <2>4, <2>5 DEF Bijection, Injection, Surjection, IsInjective
<1>5. IsFiniteSet(UpTo(t, 0))
  <2>1. UpTo(t, 0) \in SUBSET DOMAIN t
    BY DEF UpTo
  <2> QED
    BY <1>1, <2>1, PartOfPlaces
<1>6. ExistsBijection(UpTo(t, 0), Part(s, p))
  BY <1>4 DEF ExistsBijection
<1>7. Cardinality(Part(s, p)) = Cardinality(UpTo(t, 0))
  BY <1>5, <1>6, FS_Bijection
<1> QED
  BY <1>7 DEF t

(* Bounds on each part's count add up to bounds on the count of the first  *)
(* so many parts.                                                          *)
Front(s, p) == {i \in DOMAIN s : i <= p * Per(s) /\ s[i] <= 0}

(* The counts of the parts add up.                                         *)
LEMMA FrontCounts ==
    ASSUME NEW s \in Seq(Int), NEW c \in Nat, NEW d \in Nat,
           \A p \in 1..PASSES : /\ c <= Cardinality(UpTo(Slice(s, p), 0))
                                /\ Cardinality(UpTo(Slice(s, p), 0)) <= d
    PROVE  /\ PASSES * c <= Cardinality(Front(s, PASSES))
           /\ Cardinality(Front(s, PASSES)) <= PASSES * d
<1> DEFINE Off == {p \in 0..PASSES : ~(/\ p * c <= Cardinality(Front(s, p))
                                       /\ Cardinality(Front(s, p)) <= p * d)}
<1>0. PASSES \in Nat
  BY OpsAssumption
<1>1. ASSUME Off # {} PROVE FALSE
  <2>1. Off \in SUBSET Nat
    BY <1>0
  <2>2. PICK p \in Off : \A q \in Off : p <= q
    <3> HIDE DEF Off
    <3> QED BY <1>1, <2>1, LeastNumber
  <2>3. p \in 0..PASSES /\ ~(/\ p * c <= Cardinality(Front(s, p))
                             /\ Cardinality(Front(s, p)) <= p * d)
    BY <2>2
  <2>4. p # 0
    <3>1. Per(s) \in Nat
      BY <1>0, OpsAssumption, Places, Quotient DEF Per
    <3>2. 0 * Per(s) = 0 /\ 0 * c = 0 /\ 0 * d = 0
      BY <3>1
    <3>3. Front(s, 0) = {}
      BY <3>2, Places DEF Front
    <3>4. Cardinality(Front(s, 0)) = 0
      BY <3>3, FS_EmptySet
    <3> QED
      BY <2>3, <3>2, <3>4
  <2>5. p \in 1..PASSES /\ p - 1 \in 0..PASSES /\ p - 1 \notin Off
    BY <1>0, <2>2, <2>3, <2>4
  <2> DEFINE before1 == Cardinality(Front(s, p - 1))
             here == Cardinality(Part(s, p))
             after == Cardinality(Front(s, p))
  <2>6. (p - 1) * c <= before1 /\ before1 <= (p - 1) * d
    BY <2>5
  <2>7. c <= here /\ here <= d
    BY <2>5, PartCounts
  <2>8. /\ Per(s) \in Nat /\ (p - 1) * Per(s) \in Nat
        /\ p * Per(s) = (p - 1) * Per(s) + Per(s)
    BY <2>5, SliceIs
  <2>9. /\ Front(s, p) = Front(s, p - 1) \cup Part(s, p)
        /\ Front(s, p - 1) \cap Part(s, p) = {}
    BY <2>8, Places DEF Front, Part
  <2>10. /\ Front(s, p - 1) \in SUBSET DOMAIN s
         /\ Part(s, p) \in SUBSET DOMAIN s
    BY DEF Front, Part
  <2>11. /\ IsFiniteSet(Front(s, p - 1)) /\ before1 \in Nat
         /\ IsFiniteSet(Part(s, p)) /\ here \in Nat
    BY <2>10, PartOfPlaces
  <2>12. after = before1 + here - Cardinality({})
    BY <2>9, <2>11, FS_Union
  <2>13. Cardinality({}) = 0
    BY FS_EmptySet
  <2>14. /\ (p - 1) * c = p * c - c /\ p * c \in Int
         /\ (p - 1) * d = p * d - d /\ p * d \in Int
    <3>1. p \in Int
      BY <2>5
    <3> QED
      BY <3>1, Multiples
  <2> HIDE DEF before1, here, after, Off
  <2>15. p * c <= after /\ after <= p * d
    BY <2>6, <2>7, <2>11, <2>12, <2>13, <2>14
  <2> QED
    BY <2>3, <2>15 DEF after
<1>2. PASSES \in 0..PASSES /\ PASSES \notin Off
  BY <1>0, <1>1
<1> QED
  BY <1>2

-----------------------------------------------------------------------------
(* paired(): the interval, and what it says when zero is outside of it.    *)

(* How many are not positive, when the interval is on one side of zero.    *)
LEMMA IntervalIs ==
    ASSUME NEW s \in Seq(Int), s # <<>>
    PROVE  LET h == Len(s) \div 2
               k == K(Len(s))
               c == Cardinality(UpTo(s, 0))
           IN  /\ Paired(s).lo \in Int /\ Paired(s).hi \in Int
               /\ Paired(s).lo <= Paired(s).hi
               /\ Paired(s).lo > 0 => c <= IF h - k > 0 THEN h - k ELSE 0
               /\ Paired(s).hi < 0 => c >= IF h + k <= Len(s) - 1 THEN h + k + 1
                                                                   ELSE Len(s)
<1> DEFINE n == Len(s)
           h == n \div 2
           k == K(n)
           c == Cardinality(UpTo(s, 0))
           a == Min({Max({h - k, 0}), n - 1}) + 1
           b == Min({Max({h + k, 0}), n - 1}) + 1
           x == Nth(s, a)
           y == Nth(s, b)
<1>1. n \in Nat \ {0}
  OBVIOUS
<1>2. Paired(s).lo = x /\ Paired(s).hi = y
  BY DEF Paired
<1>3. h \in Nat /\ h < n
  BY <1>1
<1> HIDE DEF n
<1>4. k \in Nat
  BY <1>1, KType
<1> HIDE DEF h, k
<1>5. /\ Max({h - k, 0}) = IF h - k >= 0 THEN h - k ELSE 0
      /\ Max({h + k, 0}) = IF h + k >= 0 THEN h + k ELSE 0
  BY <1>3, <1>4, OfTwo
<1>6. /\ Max({h - k, 0}) \in Nat /\ Max({h + k, 0}) \in Nat
      /\ n - 1 \in Int
  BY <1>1, <1>3, <1>4, <1>5
<1>7. /\ a = (IF Max({h - k, 0}) <= n - 1 THEN Max({h - k, 0}) ELSE n - 1) + 1
      /\ b = (IF Max({h + k, 0}) <= n - 1 THEN Max({h + k, 0}) ELSE n - 1) + 1
  <2> DEFINE u == Max({h - k, 0})
             v == Max({h + k, 0})
  <2>1. u \in Int /\ v \in Int /\ n - 1 \in Int
    BY <1>6
  <2> HIDE DEF u, v
  <2>2. /\ Min({u, n - 1}) = IF u <= n - 1 THEN u ELSE n - 1
        /\ Min({v, n - 1}) = IF v <= n - 1 THEN v ELSE n - 1
    BY <2>1, OfTwo
  <2> QED
    BY <2>2 DEF u, v
<1> HIDE DEF a, b
<1>8. /\ a \in 1..n /\ b \in 1..n /\ a <= b
      /\ a - 1 <= IF h - k > 0 THEN h - k ELSE 0
      /\ b >= IF h + k <= n - 1 THEN h + k + 1 ELSE n
  BY <1>1, <1>3, <1>4, <1>5, <1>7
<1>9. x \in Int /\ y \in Int
  BY <1>8, NthIs DEF n
<1>10. x <= y
  BY <1>8, NthGrows DEF n
<1>11. c \in 0..n /\ (x > 0 => c < a) /\ (y <= 0 => b <= c)
  BY <1>8, NthAndZero DEF n
<1> HIDE DEF c, x, y
<1>12. x > 0 => c <= IF h - k > 0 THEN h - k ELSE 0
  BY <1>1, <1>3, <1>4, <1>8, <1>11
<1>13. y < 0 => c >= IF h + k <= n - 1 THEN h + k + 1 ELSE n
  BY <1>1, <1>3, <1>4, <1>8, <1>9, <1>11
<1> QED
  BY <1>2, <1>9, <1>10, <1>12, <1>13 DEF n, h, k, c

(* The median is on the interval's side of zero.                           *)
LEMMA PooledSign ==
    ASSUME NEW s \in Seq(Int), s # <<>>, ~AroundZero(Paired(s))
    PROVE  Median(s) > 0 <=> Paired(s).lo > 0
<1> DEFINE n == Len(s)
           h == n \div 2
           k == K(n)
           c == Cardinality(UpTo(s, 0))
           lo == Paired(s).lo
           hi == Paired(s).hi
           m == Median(s)
<1>1. /\ n \in Nat \ {0} /\ c \in 0..n /\ m \in Int
      /\ m > 0 => c <= h
      /\ ~(m > 0) => c >= (n + 1) \div 2
  BY MedianIs
<1>2. k \in Nat /\ (n >= 2 => k >= 1)
  <2>1. n \in Nat
    OBVIOUS
  <2> HIDE DEF n
  <2> QED BY <2>1, KType
<1>3. /\ lo \in Int /\ hi \in Int /\ lo <= hi
      /\ lo > 0 => c <= IF h - k > 0 THEN h - k ELSE 0
      /\ hi < 0 => c >= IF h + k <= n - 1 THEN h + k + 1 ELSE n
  BY IntervalIs
<1>4. ~(lo <= 0 /\ 0 <= hi)
  BY DEF AroundZero
<1> HIDE DEF k, c, lo, hi, m, n
<1>5. ASSUME lo > 0, ~(m > 0) PROVE FALSE
  BY <1>1, <1>2, <1>3, <1>5
<1>6. ASSUME ~(lo > 0), m > 0 PROVE FALSE
  BY <1>1, <1>2, <1>3, <1>4, <1>6
<1>7. m > 0 <=> lo > 0
  BY <1>5, <1>6
<1> QED
  BY <1>7 DEF m, lo

(* What the counts of the parts say about that of the whole list.          *)
LEMMA WholeCounts ==
    ASSUME NEW s \in Seq(Int), NEW c \in Nat, NEW d \in Nat,
           \A p \in 1..PASSES : /\ c <= Cardinality(UpTo(Slice(s, p), 0))
                                /\ Cardinality(UpTo(Slice(s, p), 0)) <= d
    PROVE  /\ PASSES * c <= Cardinality(UpTo(s, 0))
           /\ Cardinality(UpTo(s, 0)) <= PASSES * d + (Len(s) - PASSES * Per(s))
<1> DEFINE n == Len(s)
           e == PASSES * Per(s)
           Rest == (e + 1)..n
<1>1. PASSES * c <= Cardinality(Front(s, PASSES)) /\ Cardinality(Front(s, PASSES)) <= PASSES * d
  BY FrontCounts
<1>2. PASSES \in Nat \ {0} /\ n \in Nat
  BY OpsAssumption, Places
<1>3. Per(s) \in Nat /\ e \in Nat /\ e <= n
  <2>1. Per(s) = n \div PASSES
    BY DEF Per
  <2> HIDE DEF n
  <2>2. Per(s) \in Nat /\ PASSES * Per(s) <= n
    BY <1>2, <2>1, Quotient
  <2> QED
    BY <1>2, <2>2
<1>4. PASSES * c \in Int /\ PASSES * d \in Int
  BY <1>2
<1>5. /\ Front(s, PASSES) \in SUBSET UpTo(s, 0)
      /\ UpTo(s, 0) \in SUBSET DOMAIN s
      /\ Front(s, PASSES) \in SUBSET DOMAIN s
  BY DEF Front, UpTo
<1>6. /\ Cardinality(Front(s, PASSES)) \in Nat
      /\ Cardinality(UpTo(s, 0)) \in Nat
      /\ Cardinality(Front(s, PASSES)) <= Cardinality(UpTo(s, 0))
      /\ IsFiniteSet(Front(s, PASSES))
  BY <1>5, PartOfPlaces
<1> HIDE DEF e, n
<1>7. IsFiniteSet(Rest) /\ Cardinality(Rest) = n - e
  <2>1. Cardinality(Rest) = IF e + 1 > n THEN 0 ELSE n - (e + 1) + 1
    BY <1>2, <1>3, FS_Interval
  <2>2. IsFiniteSet(Rest)
    BY <1>2, <1>3, FS_Interval
  <2> QED
    BY <1>2, <1>3, <2>1, <2>2
<1>8. UpTo(s, 0) \in SUBSET (Front(s, PASSES) \cup Rest)
  BY <1>2, <1>3, Places DEF UpTo, Front, e, n
<1>9. /\ IsFiniteSet(Front(s, PASSES) \cup Rest)
      /\ Cardinality(Front(s, PASSES) \cup Rest) =
             Cardinality(Front(s, PASSES)) + (n - e) - Cardinality(Front(s, PASSES) \cap Rest)
  BY <1>6, <1>7, FS_Union
<1>10. Cardinality(Front(s, PASSES) \cap Rest) \in Nat
  <2>1. IsFiniteSet(Front(s, PASSES) \cap Rest)
    BY <1>6, FS_Intersection
  <2> QED
    BY <2>1, FS_CardinalityType
<1>11. Cardinality(UpTo(s, 0)) <= Cardinality(Front(s, PASSES) \cup Rest)
  BY <1>8, <1>9, FS_Subset
<1> HIDE DEF Rest
<1>12. Cardinality(UpTo(s, 0)) <= PASSES * d + (n - e)
  BY <1>1, <1>2, <1>3, <1>4, <1>6, <1>9, <1>10, <1>11
<1>13. PASSES * c <= Cardinality(UpTo(s, 0))
  BY <1>1, <1>4, <1>6
<1> QED
  BY <1>12, <1>13 DEF n, e

(* The blocks the parts leave out are too few to turn the whole list.      *)
FewLeftOver(s) ==
    \/ Len(s) = PASSES * Per(s)
    \/ Len(s) - PASSES * Per(s) < 2 * K(Len(s))

(* When the parts' medians are on one side of zero, and the interval is    *)
(* too, it is the same side.                                               *)
LEMMA PartsSign ==
    ASSUME NEW s \in Seq(Int), Per(s) # 0, FewLeftOver(s), ~AroundZero(Paired(s)),
           NEW p \in 1..PASSES,
           \A q \in 1..PASSES : Median(Slice(s, q)) > 0 <=> Median(Slice(s, p)) > 0
    PROVE  Median(Slice(s, p)) > 0 <=> Paired(s).lo > 0
<1> DEFINE n == Len(s)
           m == Per(s)
           h == n \div 2
           k == K(n)
           e == PASSES * m
           c == Cardinality(UpTo(s, 0))
           lo == Paired(s).lo
           hi == Paired(s).hi
           up == Median(Slice(s, p)) > 0
<1>1. PASSES \in Nat \ {0} /\ n \in Nat
  BY OpsAssumption, Places
<1>2. m \in Nat \ {0} /\ e <= n /\ e \in Nat
  <2>1. m = n \div PASSES
    BY DEF Per
  <2> HIDE DEF n
  <2>2. m \in Nat /\ PASSES * m <= n
    BY <1>1, <2>1, Quotient
  <2> QED
    BY <1>1, <2>2
<1>3. 1 <= e
  <2>1. 1 * m <= PASSES * m
    BY <1>1, <1>2, Multiples
  <2> QED
    BY <1>2, <2>1
<1>4. n # 0 /\ s # <<>>
  BY <1>1, <1>2, <1>3
<1>5. k \in Nat /\ (n >= 2 => k >= 1)
  <2> HIDE DEF n
  <2> QED BY <1>1, KType
<1>6. /\ lo \in Int /\ hi \in Int /\ lo <= hi
      /\ lo > 0 => c <= IF h - k > 0 THEN h - k ELSE 0
      /\ hi < 0 => c >= IF h + k <= n - 1 THEN h + k + 1 ELSE n
  BY <1>4, IntervalIs
<1>7. ~(lo <= 0 /\ 0 <= hi)
  BY DEF AroundZero
<1>8. ASSUME NEW q \in 1..PASSES
      PROVE  LET cq == Cardinality(UpTo(Slice(s, q), 0))
             IN  /\ cq \in 0..m
                 /\ up => cq <= m \div 2
                 /\ ~up => cq >= (m + 1) \div 2
  <2>1. Slice(s, q) \in Seq(Int) /\ Len(Slice(s, q)) = m
    BY SliceIs
  <2>2. Slice(s, q) # <<>>
    BY <1>2, <2>1
  <2>3. up <=> Median(Slice(s, q)) > 0
    OBVIOUS
  <2> HIDE DEF up, m
  <2> QED
    BY <2>1, <2>2, <2>3, MedianIs
<1>9. c \in 0..n
  BY <1>4, MedianIs
<1>10. n = e \/ n - e < 2 * k
  BY DEF FewLeftOver
<1>11. up \in BOOLEAN
  OBVIOUS
<1> HIDE DEF k, c, lo, hi, up, m, n
<1>12. ASSUME up, ~(lo > 0) PROVE FALSE
  <2> DEFINE d == PASSES * (m \div 2)
  <2>1. m \div 2 \in Nat /\ 0 \in Nat
    BY <1>2
  <2>2. \A q \in 1..PASSES : /\ 0 <= Cardinality(UpTo(Slice(s, q), 0))
                             /\ Cardinality(UpTo(Slice(s, q), 0)) <= m \div 2
    BY <1>2, <1>8, <1>12
  <2>3. c <= d + (n - e)
    BY <2>1, <2>2, WholeCounts DEF c, n, m
  <2>4. d \in Nat /\ 2 * d <= e
    <3>1. 2 * (m \div 2) <= m
      BY <1>2
    <3>2. PASSES \in Nat /\ m - 2 * (m \div 2) \in Nat
      BY <1>1, <1>2, <2>1, <3>1
    <3>3. PASSES * (m - 2 * (m \div 2)) \in Nat
      BY <3>2
    <3>4. \A x, y, z \in Int : x * (y - 2 * z) = x * y - 2 * (x * z)
      OBVIOUS
    <3>5. PASSES * (m - 2 * (m \div 2)) = e - 2 * d
      BY <1>1, <1>2, <2>1, <3>4
    <3>6. d \in Nat
      BY <1>1, <2>1
    <3> HIDE DEF d, e
    <3> QED
      BY <1>2, <3>3, <3>5, <3>6
  <2> HIDE DEF d, e
  <2>5. hi < 0
    BY <1>6, <1>7, <1>12
  <2> QED
    BY <1>1, <1>2, <1>3, <1>5, <1>6, <1>9, <1>10, <2>3, <2>4, <2>5
<1>13. ASSUME ~up, lo > 0 PROVE FALSE
  <2> DEFINE g == PASSES * ((m + 1) \div 2)
  <2>1. (m + 1) \div 2 \in Nat /\ m \in Nat
    BY <1>2
  <2>2. \A q \in 1..PASSES : /\ (m + 1) \div 2 <= Cardinality(UpTo(Slice(s, q), 0))
                             /\ Cardinality(UpTo(Slice(s, q), 0)) <= m
    BY <1>2, <1>8, <1>13
  <2>3. g <= c
    BY <2>1, <2>2, WholeCounts DEF c
  <2>4. g \in Nat /\ e <= 2 * g
    <3>1. 2 * ((m + 1) \div 2) >= m
      BY <1>2
    <3>2. PASSES \in Nat /\ 2 * ((m + 1) \div 2) - m \in Nat
      BY <1>1, <1>2, <2>1, <3>1
    <3>3. PASSES * (2 * ((m + 1) \div 2) - m) \in Nat
      BY <3>2
    <3>4. \A x, y, z \in Int : x * (2 * z - y) = 2 * (x * z) - x * y
      OBVIOUS
    <3>5. PASSES * (2 * ((m + 1) \div 2) - m) = 2 * g - e
      BY <1>1, <1>2, <2>1, <3>4
    <3>6. g \in Nat
      BY <1>1, <2>1
    <3> HIDE DEF g, e
    <3> QED
      BY <1>2, <3>3, <3>5, <3>6
  <2> HIDE DEF g, e
  <2> QED
    BY <1>1, <1>2, <1>3, <1>5, <1>6, <1>9, <1>10, <1>13, <2>3, <2>4
<1>14. up <=> lo > 0
  BY <1>11, <1>12, <1>13
<1> QED
  BY <1>14 DEF up, lo

(* With no more passes than blocks in the shortest part, too few are left  *)
(* over.                                                                   *)
LEMMA FewAreLeftOver ==
    ASSUME NEW s \in Seq(Int), PASSES <= MinBlocks, Per(s) >= MinBlocks
    PROVE  FewLeftOver(s)
<1> DEFINE n == Len(s)
           m == Per(s)
           k == K(n)
           e == PASSES * m
<1>1. PASSES \in Nat \ {0} /\ MinBlocks \in Nat \ {0} /\ n \in Nat
  BY OpsAssumption, Places
<1>2. m \in Nat /\ e <= n /\ e \in Nat /\ n < e + PASSES /\ PASSES <= m
  <2>1. m = n \div PASSES
    BY DEF Per
  <2>2. m >= MinBlocks
    OBVIOUS
  <2> HIDE DEF n, m
  <2>3. m \in Nat /\ PASSES * m <= n /\ n < PASSES * m + PASSES
    BY <1>1, <2>1, Quotient
  <2> QED
    BY <1>1, <2>2, <2>3
<1>3. PASSES * PASSES <= e
  <2>1. \A a \in Nat : \A b \in Nat : a <= b => a * a <= a * b
    OBVIOUS
  <2> HIDE DEF n, m
  <2> QED
    BY <1>1, <1>2, <2>1
<1>4. k \in Nat /\ 38416 * n < 40000 * ((k + 1) * (k + 1))
  <2>1. n \in Nat
    BY <1>1
  <2> HIDE DEF n
  <2>2. k \in Nat
    BY <2>1, KType
  <2>3. 38416 * n < 40000 * ((k + 1) * (k + 1))
    <3> DEFINE Upper(j) == 38416 * j < 40000 * ((K(j) + 1) * (K(j) + 1))
    <3>1. \A j \in Nat : Upper(j)
      BY KUpper
    <3>2. Upper(n)
      <4> HIDE DEF Upper
      <4> QED BY <2>1, <3>1
    <3> QED
      BY <3>2
  <2> QED
    BY <2>2, <2>3
<1>5. FewLeftOver(s) <=> n = e \/ n - e < 2 * k
  BY DEF FewLeftOver
<1> HIDE DEF n, m, k, e
<1>6. 38416 * (PASSES * PASSES) < 40000 * ((k + 1) * (k + 1))
  <2>1. PASSES * PASSES \in Int /\ (k + 1) * (k + 1) \in Int
    BY <1>1, <1>4
  <2> QED
    BY <1>1, <1>2, <1>3, <1>4, <2>1
<1>7. 196 * PASSES < 200 * (k + 1)
  <2>1. \A x, y \in Nat : y <= x => y * y <= x * x
    <3>1. \A x, y \in Nat : y <= x => y * y <= x * y /\ x * y <= x * x
      OBVIOUS
    <3>2. \A x, y \in Nat : y * y \in Int /\ x * y \in Int
      OBVIOUS
    <3> QED BY <3>1, <3>2
  <2>2. 196 * PASSES \in Nat /\ 200 * (k + 1) \in Nat
    BY <1>1, <1>4
  <2>3. (196 * PASSES) * (196 * PASSES) = 38416 * (PASSES * PASSES)
    BY <1>1
  <2>4. (200 * (k + 1)) * (200 * (k + 1)) = 40000 * ((k + 1) * (k + 1))
    BY <1>4
  <2>5. 200 * (k + 1) <= 196 * PASSES =>
            (200 * (k + 1)) * (200 * (k + 1)) <= (196 * PASSES) * (196 * PASSES)
    BY <2>1, <2>2
  <2>6. (200 * (k + 1)) * (200 * (k + 1)) \in Int /\ (196 * PASSES) * (196 * PASSES) \in Int
    BY <2>2
  <2> QED
    BY <1>6, <2>2, <2>3, <2>4, <2>5, <2>6
<1>8. PASSES = 1 => n = e
  BY <1>1, <1>2
<1> QED
  BY <1>1, <1>2, <1>4, <1>5, <1>7, <1>8

-----------------------------------------------------------------------------
(* The passes' signs, and the readers that go by them.                     *)

(* A set of signs has one member at most unless it has both.               *)
LEMMA TwoSigns ==
    ASSUME NEW S \in SUBSET BOOLEAN
    PROVE  Cardinality(S) <= 1 <=> ~(TRUE \in S /\ FALSE \in S)
<1>1. IsFiniteSet({TRUE}) /\ Cardinality({TRUE}) = 1
  BY FS_Singleton
<1>2. IsFiniteSet({FALSE}) /\ Cardinality({FALSE}) = 1
  BY FS_Singleton
<1>3. Cardinality({}) = 0
  BY FS_EmptySet
<1>4. IsFiniteSet({TRUE} \cup {FALSE}) /\ Cardinality({TRUE} \cup {FALSE}) = 2
  <2>1. FALSE \notin {TRUE}
    OBVIOUS
  <2>2. Cardinality({TRUE} \cup {FALSE}) =
            IF FALSE \in {TRUE} THEN Cardinality({TRUE}) ELSE Cardinality({TRUE}) + 1
    BY <1>1, FS_AddElement
  <2>3. IsFiniteSet({TRUE} \cup {FALSE})
    BY <1>1, FS_AddElement
  <2> DEFINE one == Cardinality({TRUE})
             both == Cardinality({TRUE} \cup {FALSE})
  <2>4. one = 1
    BY <1>1
  <2>5. both = one + 1
    BY <2>1, <2>2, Zenon
  <2>6. both = 2
    <3> HIDE DEF one, both
    <3> QED BY <2>4, <2>5
  <2> QED
    BY <2>3, <2>6, Zenon
<1>5. S = {} \/ S = {TRUE} \/ S = {FALSE} \/ S = {TRUE} \cup {FALSE}
  OBVIOUS
<1>6. CASE S = {}
  BY <1>3, <1>6
<1>7. CASE S = {TRUE}
  BY <1>1, <1>7
<1>8. CASE S = {FALSE}
  BY <1>2, <1>8
<1>9. CASE S = {TRUE} \cup {FALSE}
  <2>1. TRUE \in S /\ FALSE \in S
    BY <1>9
  <2>2. Cardinality(S) = 2
    BY <1>4, <1>9
  <2>3. ~(Cardinality(S) <= 1)
    BY <2>2
  <2> QED
    BY <2>1, <2>3, Zenon
<1> QED
  BY <1>5, <1>6, <1>7, <1>8, <1>9

(* The signs of the medians of the passes.                                 *)
LEMMA SignsAre ==
    ASSUME NEW meds \in [1..PASSES -> Int]
    PROVE  /\ Signs(meds) \in SUBSET BOOLEAN
           /\ TRUE \in Signs(meds) <=> \E p \in 1..PASSES : meds[p] > 0
           /\ FALSE \in Signs(meds) <=> \E p \in 1..PASSES : ~(meds[p] > 0)
           /\ Agree(meds) <=> \A p, q \in 1..PASSES : meds[p] > 0 <=> meds[q] > 0
<1>1. ToSet(meds) = {meds[p] : p \in 1..PASSES}
  BY DEF ToSet
<1>2. Signs(meds) = {meds[p] > 0 : p \in 1..PASSES}
  BY <1>1 DEF Signs
<1> DEFINE Up(p) == meds[p] > 0
<1>0. \A p \in 1..PASSES : Up(p) \in BOOLEAN
  OBVIOUS
<1>10. Signs(meds) = {Up(p) : p \in 1..PASSES}
  BY <1>2
<1> HIDE DEF Up
<1>3. Signs(meds) \in SUBSET BOOLEAN
  BY <1>0, <1>10, Zenon
<1>4. TRUE \in Signs(meds) <=> \E p \in 1..PASSES : meds[p] > 0
  <2>1. TRUE \in Signs(meds) <=> \E p \in 1..PASSES : Up(p)
    BY <1>0, <1>10, Zenon
  <2> QED BY <2>1 DEF Up
<1>5. FALSE \in Signs(meds) <=> \E p \in 1..PASSES : ~(meds[p] > 0)
  <2>1. FALSE \in Signs(meds) <=> \E p \in 1..PASSES : ~Up(p)
    BY <1>0, <1>10, Zenon
  <2> QED BY <2>1 DEF Up
<1>6. Agree(meds) <=> ~(TRUE \in Signs(meds) /\ FALSE \in Signs(meds))
  BY <1>3, TwoSigns DEF Agree
<1> QED
  BY <1>3, <1>4, <1>5, <1>6

(* The medians a list is split into, when it is long enough.               *)
LEMMA PassMediansAre ==
    ASSUME NEW s \in Seq(Int)
    PROVE  /\ PassMedians(s) # <<>> <=> Per(s) >= MinBlocks
           /\ Per(s) >= MinBlocks =>
                /\ Per(s) \in Nat \ {0} /\ s # <<>>
                /\ PassMedians(s) \in [1..PASSES -> Int]
                /\ \A p \in 1..PASSES : PassMedians(s)[p] = Median(Slice(s, p))
<1>1. PASSES \in Nat \ {0} /\ MinBlocks \in Nat \ {0} /\ 1 \in 1..PASSES
  BY OpsAssumption
<1>2. Per(s) \in Nat
  BY <1>1, SliceIs
<1>3. ~(Per(s) >= MinBlocks) => PassMedians(s) = <<>>
  BY DEF PassMedians
<1>4. ASSUME Per(s) >= MinBlocks
      PROVE  /\ Per(s) \in Nat \ {0} /\ s # <<>> /\ PassMedians(s) # <<>>
             /\ PassMedians(s) \in [1..PASSES -> Int]
             /\ \A p \in 1..PASSES : PassMedians(s)[p] = Median(Slice(s, p))
  <2>1. Per(s) \in Nat \ {0}
    BY <1>1, <1>2, <1>4
  <2>2. \A p \in 1..PASSES : Median(Slice(s, p)) \in Int
    <3>1. ASSUME NEW p \in 1..PASSES PROVE Median(Slice(s, p)) \in Int
      <4>1. Slice(s, p) \in Seq(Int) /\ Len(Slice(s, p)) = Per(s)
        BY SliceIs
      <4>2. Slice(s, p) # <<>>
        BY <2>1, <4>1
      <4> QED
        BY <4>1, <4>2, MedianIs
    <3> QED
      BY <3>1
  <2>3. PassMedians(s) = [p \in 1..PASSES |-> Median(Slice(s, p))]
    BY <1>4 DEF PassMedians
  <2>4. s # <<>>
    <3>1. 1 * Per(s) <= Len(s)
      BY <1>1, SliceIs
    <3> QED
      BY <2>1, <3>1
  <2>5. DOMAIN PassMedians(s) = 1..PASSES /\ 1 \in 1..PASSES
    BY <1>1, <2>3
  <2>6. PassMedians(s) # <<>>
    <3>1. DOMAIN <<>> = {}
      OBVIOUS
    <3> QED BY <2>5, <3>1
  <2> QED
    BY <2>1, <2>2, <2>3, <2>4, <2>6
<1> QED
  BY <1>3, <1>4

(* What paired() answers beside its interval.                              *)
LEMMA PairedIs ==
    ASSUME NEW s
    PROVE  /\ Paired(s).median = Median(s)
           /\ Paired(s).passes = PassMedians(s)
           /\ Paired(s).agree = Agree(PassMedians(s))
BY DEF Paired

(* What the page calls real, in a list that can be split: every pass is on *)
(* the interval's side of zero, and so is every pass of the run before it. *)
LEMMA RealSigns ==
    ASSUME NEW s \in Seq(Int), NEW prev \in Seq(Int), Real(s, prev),
           Per(s) >= MinBlocks, FewLeftOver(s)
    PROVE  /\ \A p \in 1..PASSES : Median(Slice(s, p)) > 0 <=> Paired(s).lo > 0
           /\ Median(s) > 0 <=> Paired(s).lo > 0
           /\ prev # <<>> /\ Per(prev) >= MinBlocks =>
                \A p \in 1..PASSES : Median(Slice(prev, p)) > 0 <=> Paired(s).lo > 0
<1> DEFINE meds == PassMedians(s)
           lo == Paired(s).lo
<1>1. ~AroundZero(Paired(s)) /\ Agree(meds)
      /\ Cardinality(OtherSigns(prev) \cup Signs(meds)) <= 1
  BY PairedIs DEF Real
<1>2. /\ Per(s) \in Nat \ {0} /\ s # <<>>
      /\ meds \in [1..PASSES -> Int]
      /\ \A p \in 1..PASSES : meds[p] = Median(Slice(s, p))
  BY PassMediansAre
<1>3. PASSES \in Nat \ {0} /\ 1 \in 1..PASSES
  BY OpsAssumption
<1>4. /\ Signs(meds) \in SUBSET BOOLEAN
      /\ TRUE \in Signs(meds) <=> \E p \in 1..PASSES : meds[p] > 0
      /\ FALSE \in Signs(meds) <=> \E p \in 1..PASSES : ~(meds[p] > 0)
      /\ \A p, q \in 1..PASSES : meds[p] > 0 <=> meds[q] > 0
  <2> HIDE DEF meds
  <2> QED BY <1>1, <1>2, SignsAre
<1>5. ASSUME NEW p \in 1..PASSES PROVE meds[p] > 0 <=> lo > 0
  <2>1. \A q \in 1..PASSES : Median(Slice(s, q)) > 0 <=> Median(Slice(s, p)) > 0
    <3> HIDE DEF meds
    <3> QED BY <1>2, <1>4
  <2>2. Median(Slice(s, p)) > 0 <=> Paired(s).lo > 0
    BY <1>1, <1>2, <2>1, PartsSign
  <2> HIDE DEF meds, lo
  <2> QED
    BY <1>2, <2>2 DEF lo
<1>6. Median(s) > 0 <=> lo > 0
  BY <1>1, <1>2, PooledSign
<1>7. ASSUME prev # <<>>, Per(prev) >= MinBlocks, NEW p \in 1..PASSES
      PROVE  Median(Slice(prev, p)) > 0 <=> lo > 0
  <2> DEFINE old == PassMedians(prev)
  <2>1. old \in [1..PASSES -> Int] /\ \A q \in 1..PASSES : old[q] = Median(Slice(prev, q))
    BY <1>7, PassMediansAre
  <2>2. OtherSigns(prev) = Signs(old)
    BY <1>7 DEF OtherSigns
  <2> HIDE DEF old, meds, lo
  <2>3. /\ Signs(old) \in SUBSET BOOLEAN
        /\ TRUE \in Signs(old) <=> \E q \in 1..PASSES : old[q] > 0
        /\ FALSE \in Signs(old) <=> \E q \in 1..PASSES : ~(old[q] > 0)
    BY <2>1, SignsAre
  <2>4. Signs(old) \cup Signs(meds) \in SUBSET BOOLEAN
    BY <1>4, <2>3
  <2>5. ~(TRUE \in Signs(old) \cup Signs(meds) /\ FALSE \in Signs(old) \cup Signs(meds))
    BY <1>1, <2>2, <2>4, TwoSigns
  <2>6. old[p] > 0 <=> meds[1] > 0
    BY <1>3, <1>4, <2>3, <2>5
  <2> QED
    BY <1>3, <1>5, <2>1, <2>6
<1> QED
  BY <1>2, <1>5, <1>6, <1>7

(* What the page calls real, the other readers do not deny.                *)
LEMMA ReadersOf ==
    ASSUME NEW s \in Seq(Int), s # <<>>, NEW prev \in Seq(Int), Real(s, prev)
    PROVE  /\ Verdict(s) = "real" /\ Tax(s) = "real"
           /\ Stability(s) # "flip"
           /\ PASSES <= MinBlocks /\ PassMedians(s) # <<>> /\ prev # <<>> /\ PassMedians(prev) # <<>>
                => ~Changed(prev, s)
<1>1. ~AroundZero(Paired(s)) /\ Paired(s).agree
  BY DEF Real
<1>2. Verdict(s) = "real" /\ Tax(s) = "real"
  BY <1>1 DEF Verdict, Tax
<1>3. Agree(PassMedians(s))
  BY <1>1, PairedIs
<1>4. Stability(s) # "flip"
  BY <1>3 DEF Stability
<1>5. ASSUME PASSES <= MinBlocks, PassMedians(s) # <<>>, prev # <<>>, PassMedians(prev) # <<>>
      PROVE  ~Changed(prev, s)
  <2>1. Per(s) >= MinBlocks /\ Per(prev) >= MinBlocks
    BY <1>5, PassMediansAre
  <2>2. FewLeftOver(s)
    BY <1>5, <2>1, FewAreLeftOver
  <2>3. /\ Median(s) > 0 <=> Paired(s).lo > 0
        /\ \A p \in 1..PASSES : Median(Slice(prev, p)) > 0 <=> Paired(s).lo > 0
    BY <1>5, <2>1, <2>2, RealSigns
  <2>4. BeforePass \in 1..PASSES
    BY OpsAssumption
  <2>5. TailPass(prev) = Slice(prev, BeforePass)
    <3>1. Per(prev) \in Nat /\ MinBlocks \in Nat
      BY <2>4, SliceIs, OpsAssumption
    <3> QED
      BY <2>1, <3>1 DEF TailPass
  <2> QED
    BY <2>3, <2>4, <2>5 DEF Changed
<1> QED
  BY <1>2, <1>4, <1>5

-----------------------------------------------------------------------------
(* What a row of results is.                                               *)

Block == [mapper : Int, control : Int, run : Nat, pass : Nat, fixture : Nat]

(* The rows of the file of results.                                        *)
Row == [checksum : Nat, blocks : Seq(Block)]

(* The blocks of one run of a candidate.                                   *)
Size == CHOOSE n \in Nat \ {0} : \A r \in Readings : Len(r) = n

(* Every run of a candidate has Size blocks.                               *)
LEMMA SizeIs ==
    /\ Size \in Nat \ {0}
    /\ \A r \in Readings : Len(r) = Size
<1>1. \E n \in Nat \ {0} : \A r \in Readings : Len(r) = n
  <2>1. CASE Readings = {}
    <3>1. 1 \in Nat \ {0}
      OBVIOUS
    <3> QED BY <2>1, <3>1
  <2>2. CASE Readings # {}
    <3>1. PICK r \in Readings : TRUE
      BY <2>2
    <3>2. Len(r) \in Nat \ {0}
      BY OpsAssumption
    <3>3. \A q \in Readings : Len(q) = Len(r)
      BY OpsAssumption
    <3> QED
      BY <3>2, <3>3
  <2> QED
    BY <2>1, <2>2
<1> QED
  BY <1>1, Zenon DEF Size

(* The row has the blocks of the passes 1 to m, pass by pass.              *)
Reached(row, m) ==
    /\ Len(row.blocks) = m * Size
    /\ \A i \in DOMAIN row.blocks :
         /\ row.blocks[i].pass \in 1..m
         /\ (row.blocks[i].pass - 1) * Size < i
         /\ i <= row.blocks[i].pass * Size

(* Its blocks were all taken over the fixture its checksum is of.          *)
OfFixture(row) == \A i \in DOMAIN row.blocks : row.blocks[i].fixture = row.checksum

(* A row has the blocks of its first passes, of one run over one fixture.  *)
Good(row) ==
    /\ OfOneRun(row)
    /\ OfFixture(row)
    /\ \E m \in 0..PASSES : Reached(row, m)
    /\ row.blocks = <<>> => row = NoRow

(* The files of results, when not torn.                                    *)
Tables == {f \in [Keys -> Row] : \A k \in Keys : Good(f[k])}

(* A block's pass is the one its place is in.                              *)
LEMMA PassByPlace ==
    ASSUME NEW row \in Row, NEW m \in Nat, Reached(row, m),
           NEW i \in DOMAIN row.blocks, NEW p \in Nat
    PROVE  row.blocks[i].pass = p <=> (p - 1) * Size < i /\ i <= p * Size
<1> DEFINE q == row.blocks[i].pass
<1>1. Size \in Nat \ {0}
  BY SizeIs
<1>2. q \in 1..m /\ (q - 1) * Size < i /\ i <= q * Size
  BY DEF Reached
<1>3. i \in Nat /\ q \in Nat
  BY <1>2 DEF Row
<1> HIDE DEF q
<1>4. ASSUME (p - 1) * Size < i, i <= p * Size PROVE q = p
  <2>1. (p - 1) * Size \in Int /\ p * Size \in Int /\ (q - 1) * Size \in Int /\ q * Size \in Int
    BY <1>1, <1>3
  <2>2. (q - 1) * Size < p * Size /\ (p - 1) * Size < q * Size
    BY <1>2, <1>3, <1>4, <2>1
  <2>3. q - 1 \in Int /\ p - 1 \in Int /\ q \in Int /\ p \in Int /\ Size \in Nat
    BY <1>1, <1>3
  <2>4. q - 1 < p
    BY <2>2, <2>3, Multiples
  <2>5. p - 1 < q
    BY <2>2, <2>3, Multiples
  <2> QED
    BY <2>3, <2>4, <2>5
<1>5. q = p <=> (p - 1) * Size < i /\ i <= p * Size
  BY <1>2, <1>4
<1> QED
  BY <1>5 DEF q

(* The passes a row has blocks of.                                         *)
LEMMA PassesOf ==
    ASSUME NEW row \in Row, NEW m \in Nat, Reached(row, m)
    PROVE  {b.pass : b \in ToSet(row.blocks)} = 1..m
<1>1. Size \in Nat \ {0} /\ Len(row.blocks) = m * Size /\ DOMAIN row.blocks = 1..(m * Size)
  BY SizeIs DEF Reached, Row
<1>2. \A i \in DOMAIN row.blocks : row.blocks[i].pass \in 1..m
  BY DEF Reached
<1>3. ASSUME NEW p \in 1..m PROVE \E i \in DOMAIN row.blocks : row.blocks[i].pass = p
  <2>1. p \in Nat /\ p <= m /\ 1 <= p
    OBVIOUS
  <2>2. p * Size \in Int /\ m * Size \in Int /\ p * Size <= m * Size
        /\ (p - 1) * Size = p * Size - Size
    BY <1>1, <2>1, Multiples
  <2>3. 1 * Size <= p * Size
    BY <1>1, <2>1, Multiples
  <2>4. p * Size \in DOMAIN row.blocks
    BY <1>1, <2>2, <2>3
  <2>5. (p - 1) * Size < p * Size /\ p * Size <= p * Size
    BY <1>1, <2>2
  <2>6. row.blocks[p * Size].pass = p
    BY <2>1, <2>4, <2>5, PassByPlace
  <2> QED
    BY <2>4, <2>6
<1> QED
  BY <1>2, <1>3 DEF ToSet

(* A candidate that came through every pass has the blocks of them all,    *)
(* and the parts its list is cut into are the passes.                      *)
LEMMA SlicesArePasses ==
    ASSUME NEW row \in Row, Good(row), Complete(row)
    PROVE  /\ Reached(row, PASSES)
           /\ Per(row.blocks) = Size
           /\ Len(row.blocks) = PASSES * Size
           /\ \A p \in 1..PASSES : Slice(row.blocks, p) = Taken(row, p)
<1>1. PASSES \in Nat \ {0} /\ PASSES \in 1..PASSES
  BY OpsAssumption
<1>2. PICK m \in 0..PASSES : Reached(row, m)
  BY DEF Good
<1>3. \E i \in DOMAIN row.blocks : row.blocks[i].pass = PASSES
  BY <1>1 DEF Complete
<1>4. PASSES \in 1..m
  BY <1>2, <1>3 DEF Reached
<1>5. m = PASSES
  BY <1>1, <1>2, <1>4
<1>6. Reached(row, PASSES)
  BY <1>2, <1>5
<1>7. Size \in Nat \ {0} /\ Len(row.blocks) = PASSES * Size /\ row.blocks \in Seq(Block)
  BY <1>6, SizeIs DEF Reached, Row
<1>8. Per(row.blocks) = Size
  <2>1. PASSES * Size = Size * PASSES /\ PASSES * Size \in Nat
    BY <1>1, <1>7
  <2> QED
    BY <1>1, <1>7, <2>1, Quotient DEF Per
<1>9. ASSUME NEW p \in 1..PASSES PROVE Slice(row.blocks, p) = Taken(row, p)
  <2> DEFINE pool == row.blocks
             Mine == {b \in ToSet(pool) : b.pass = p}
             from == (p - 1) * Size
             to == p * Size
  <2>1. from \in Nat /\ to = from + Size /\ to <= Len(pool)
    BY <1>7, <1>8, SliceIs
  <2>2. from <= to /\ to \in Nat
    BY <1>7, <2>1
  <2>3. ASSUME NEW i \in 1..Len(pool) PROVE pool[i] \in Mine <=> from < i /\ i <= to
    <3>1. i \in DOMAIN pool /\ p \in Nat /\ PASSES \in Nat
      BY <1>1, <1>7
    <3>2. pool[i].pass = p <=> from < i /\ i <= to
      BY <1>6, <3>1, PassByPlace
    <3>3. pool[i] \in ToSet(pool)
      BY <3>1 DEF ToSet
    <3> QED
      BY <3>2, <3>3
  <2>4. Slice(pool, p) = SubSeq(pool, from + 1, to)
    BY <1>8 DEF Slice
  <2>5. Taken(row, p) = Only(pool, Mine)
    BY DEF Taken
  <2>6. pool \in Seq(Block)
    BY <1>7
  <2> HIDE DEF Mine, from, to, pool
  <2>7. Only(pool, Mine) = SubSeq(pool, from + 1, to)
    <3>1. from \in Nat /\ to \in Nat /\ from <= to /\ to <= Len(pool)
      BY <2>1, <2>2
    <3>2. Together(pool, Mine, from, to)
      BY <2>3 DEF Together
    <3> QED
      BY <2>6, <3>1, <3>2, OnlyIsPart
  <2> QED
    BY <2>4, <2>5, <2>7 DEF pool
<1> QED
  BY <1>6, <1>7, <1>8, <1>9

(* One more pass is merged into a row.                                     *)
LEMMA MergeIs ==
    ASSUME NEW row \in Row, Good(row), NEW m \in Nat, Reached(row, m),
           m < PASSES, pass = m + 1, runs \in Nat, fixture \in Nat,
           ~Moved(row), NEW r \in Readings,
           \A i \in DOMAIN row.blocks : row.blocks[i].run = runs
    PROVE  /\ Merge(row, r) \in Row
           /\ Good(Merge(row, r))
           /\ Reached(Merge(row, r), m + 1)
           /\ \A i \in DOMAIN Merge(row, r).blocks : Merge(row, r).blocks[i].run = runs
<1> DEFINE s == row.blocks
           t == Blocks(r)
           u == s \o t
           new == Merge(row, r)
<1>1. /\ PASSES \in Nat \ {0} /\ r \in Seq(Int \X Int) /\ Size \in Nat \ {0}
      /\ Len(r) = Size /\ m * Size \in Nat
  BY OpsAssumption, SizeIs
<1>2. s \in Seq(Block) /\ Len(s) = m * Size /\ row.checksum \in Nat
  BY DEF Row, Reached
<1>3. /\ t \in Seq(Block) /\ Len(t) = Size
      /\ \A i \in 1..Size : t[i].run = runs /\ t[i].pass = m + 1 /\ t[i].fixture = fixture
  <2>1. DOMAIN r = 1..Size /\ \A i \in 1..Size : r[i][1] \in Int /\ r[i][2] \in Int
    BY <1>1
  <2>2. t = [i \in 1..Size |-> [mapper |-> r[i][1], control |-> r[i][2],
                                run |-> runs, pass |-> m + 1, fixture |-> fixture]]
    BY <2>1 DEF Blocks
  <2>3. t \in [1..Size -> Block]
    BY <2>1, <2>2 DEF Block
  <2>4. t \in Seq(Block) /\ Len(t) = Size
    <3> HIDE DEF t
    <3>0. Size \in Nat
      BY <1>1
    <3>1. t \in Seq(Block)
      BY <2>3, <3>0, SeqDef
    <3>2. Len(t) \in Nat /\ DOMAIN t = 1..Len(t) /\ DOMAIN t = 1..Size
      BY <2>3, <3>1
    <3> QED
      BY <1>1, <3>1, <3>2
  <2>5. \A i \in 1..Size : t[i].run = runs /\ t[i].pass = m + 1 /\ t[i].fixture = fixture
    <3> HIDE DEF t
    <3> QED BY <2>2
  <2> HIDE DEF t
  <2> QED
    BY <2>4, <2>5
<1> HIDE DEF s, t
<1>4. /\ u \in Seq(Block) /\ Len(u) = m * Size + Size /\ DOMAIN u = 1..(m * Size + Size)
      /\ \A i \in 1..(m * Size) : u[i] = s[i] /\ i \in DOMAIN s
      /\ \A i \in 1..Size : u[m * Size + i] = t[i]
  <2>1. /\ u \in Seq(Block) /\ Len(u) = Len(s) + Len(t)
        /\ \A i \in 1..(Len(s) + Len(t)) :
             u[i] = IF i <= Len(s) THEN s[i] ELSE t[i - Len(s)]
    BY <1>2, <1>3, ConcatProperties
  <2> HIDE DEF u
  <2>2. DOMAIN u = 1..Len(u) /\ DOMAIN s = 1..Len(s)
    BY <1>2, <2>1
  <2>3. \A i \in 1..(m * Size) : u[i] = s[i] /\ i \in DOMAIN s
    BY <1>1, <1>2, <1>3, <2>1, <2>2
  <2>4. \A i \in 1..Size : u[m * Size + i] = t[i]
    <3>1. \A a \in Nat : \A i \in 1..Size : a + i \in 1..(a + Size) /\ ~(a + i <= a) /\ (a + i) - a = i
      BY <1>1
    <3> QED
      BY <1>1, <1>2, <1>3, <2>1, <3>1
  <2> QED
    BY <1>2, <1>3, <2>1, <2>2, <2>3, <2>4
<1> HIDE DEF u
<1>5. ASSUME NEW i \in DOMAIN u
      PROVE  \/ i \in 1..(m * Size) /\ i \in DOMAIN s /\ u[i] = s[i]
             \/ \E j \in 1..Size : i = m * Size + j /\ u[i] = t[j]
  <2>1. CASE i <= m * Size
    BY <1>1, <1>4, <2>1
  <2>2. CASE ~(i <= m * Size)
    <3>1. \A a \in Nat : \A h \in 1..(a + Size) :
            h <= a \/ (h - a \in 1..Size /\ h = a + (h - a))
      BY <1>1
    <3>2. m * Size \in Nat /\ i \in 1..(m * Size + Size)
      BY <1>1, <1>4
    <3>3. i - m * Size \in 1..Size /\ i = m * Size + (i - m * Size)
      BY <2>2, <3>1, <3>2
    <3> QED
      BY <1>4, <3>3
  <2> QED
    BY <2>1, <2>2
<1>6. new = [checksum |-> IF row = NoRow THEN fixture ELSE row.checksum, blocks |-> u]
  BY DEF Merge, u, s, t
<1>7. new.blocks = u /\ new.checksum \in Nat /\ new \in Row
  BY <1>2, <1>4, <1>6 DEF Row
<1>8. \A i \in DOMAIN u : u[i].run = runs
  BY <1>3, <1>5 DEF s
<1>9. (m + 1) * Size = m * Size + Size /\ m + 1 \in Nat
  BY <1>1, Multiples
<1>10. Reached(new, m + 1)
  <2>1. ASSUME NEW i \in DOMAIN u
        PROVE  u[i].pass \in 1..(m + 1) /\ (u[i].pass - 1) * Size < i /\ i <= u[i].pass * Size
    <3>1. CASE i \in 1..(m * Size) /\ i \in DOMAIN s /\ u[i] = s[i]
      <4>1. s[i].pass \in 1..m /\ (s[i].pass - 1) * Size < i /\ i <= s[i].pass * Size
        BY <3>1 DEF Reached, s
      <4>2. s[i].pass \in 1..(m + 1)
        BY <4>1
      <4> QED
        BY <3>1, <4>1, <4>2
    <3>2. ASSUME NEW j \in 1..Size, i = m * Size + j, u[i] = t[j]
          PROVE  u[i].pass \in 1..(m + 1) /\ (u[i].pass - 1) * Size < i /\ i <= u[i].pass * Size
      <4>1. u[i].pass = m + 1
        BY <1>3, <3>2
      <4>2. (m + 1) - 1 = m /\ m * Size < i /\ i <= m * Size + Size
        BY <1>1, <3>2
      <4> QED
        BY <1>9, <4>1, <4>2
    <3> QED
      BY <1>5, <3>1, <3>2
  <2> QED
    BY <1>4, <1>7, <1>9, <2>1 DEF Reached
<1>11. OfOneRun(new) /\ OfFixture(new)
  <2>1. new.checksum = fixture
    BY <1>6 DEF Moved
  <2>2. \A i \in DOMAIN s : s[i].fixture = fixture
    <3>1. ASSUME NEW i \in DOMAIN s PROVE s[i].fixture = fixture
      <4>1. row # NoRow
        BY <3>1 DEF NoRow, s
      <4>2. row.checksum = fixture
        BY <4>1 DEF Moved
      <4> QED
        BY <4>2 DEF Good, OfFixture, s
    <3> QED
      BY <3>1
  <2>3. \A i \in DOMAIN u : u[i].fixture = fixture
    BY <1>3, <1>5, <2>2
  <2> QED
    BY <1>7, <1>8, <2>1, <2>3 DEF OfOneRun, OfFixture
<1>12. u # <<>>
  BY <1>1, <1>4
<1>13. m + 1 \in 0..PASSES
  BY <1>1
<1>14. Good(new)
  BY <1>7, <1>10, <1>11, <1>12, <1>13 DEF Good
<1> QED
  BY <1>7, <1>8, <1>10, <1>14

-----------------------------------------------------------------------------
(* What the readers make of a row.                                         *)

(* A function on 1..n is a list of n.                                      *)
LEMMA IsList ==
    ASSUME NEW n \in Nat, NEW f \in [1..n -> Int]
    PROVE  f \in Seq(Int) /\ Len(f) = n
<1>1. f \in Seq(Int)
  BY SeqDef
<1>2. Len(f) \in Nat /\ DOMAIN f = 1..Len(f)
  BY <1>1, LenProperties
<1> QED
  BY <1>1, <1>2

(* The differences and the control's times are lists as long as the        *)
(* blocks.                                                                 *)
LEMMA ListsOf ==
    ASSUME NEW row, row.blocks \in Seq(Block)
    PROVE  /\ Diffs(row) \in Seq(Int) /\ Len(Diffs(row)) = Len(row.blocks)
           /\ \A i \in 1..Len(row.blocks) :
                Diffs(row)[i] = row.blocks[i].mapper - row.blocks[i].control
           /\ Arm(row, "control") \in Seq(Int) /\ Len(Arm(row, "control")) = Len(row.blocks)
           /\ \A i \in 1..Len(row.blocks) : Arm(row, "control")[i] = row.blocks[i].control
<1> DEFINE s == row.blocks
           n == Len(s)
<1>1. n \in Nat /\ DOMAIN s = 1..n
      /\ \A i \in 1..n : s[i].mapper \in Int /\ s[i].control \in Int
  <2>1. n \in Nat /\ DOMAIN s = 1..n /\ \A i \in 1..n : s[i] \in Block
    OBVIOUS
  <2>2. \A b \in Block : b.mapper \in Int /\ b.control \in Int
    BY DEF Block
  <2> HIDE DEF s, n
  <2> QED
    BY <2>1, <2>2
<1>2. Diffs(row) = [i \in 1..n |-> s[i].mapper - s[i].control]
  BY <1>1 DEF Diffs
<1>3. Arm(row, "control") = [i \in 1..n |-> s[i].control]
  BY <1>1 DEF Arm
<1> HIDE DEF s, n
<1>4. Diffs(row) \in [1..n -> Int] /\ Arm(row, "control") \in [1..n -> Int]
  BY <1>1, <1>2, <1>3
<1>5. /\ Diffs(row) \in Seq(Int) /\ Len(Diffs(row)) = n
      /\ Arm(row, "control") \in Seq(Int) /\ Len(Arm(row, "control")) = n
  BY <1>1, <1>4, IsList
<1>6. \A i \in 1..n : Diffs(row)[i] = s[i].mapper - s[i].control
  BY <1>2
<1>7. \A i \in 1..n : Arm(row, "control")[i] = s[i].control
  BY <1>3
<1> QED
  BY <1>5, <1>6, <1>7 DEF s, n

(* Where the candidate came through, they split by pass too.               *)
LEMMA ListsSplit ==
    ASSUME NEW row \in Row, Good(row), Complete(row)
    PROVE  /\ Diffs(row) \in Seq(Int) /\ Arm(row, "control") \in Seq(Int)
           /\ Len(Diffs(row)) = Len(row.blocks) /\ Len(Arm(row, "control")) = Len(row.blocks)
           /\ Per(Diffs(row)) = Size /\ Per(Arm(row, "control")) = Size
           /\ Len(row.blocks) = PASSES * Size
           /\ \A p \in 1..PASSES : /\ Slice(Diffs(row), p) = Diffs(Own(row, p))
                                   /\ Slice(Arm(row, "control"), p) = Arm(Own(row, p), "control")
<1>1. /\ Per(row.blocks) = Size /\ Len(row.blocks) = PASSES * Size
      /\ \A p \in 1..PASSES : Slice(row.blocks, p) = Taken(row, p)
  BY SlicesArePasses
<1>2. row.blocks \in Seq(Block) /\ Size \in Nat \ {0}
  BY SizeIs DEF Row
<1>3. /\ Diffs(row) \in Seq(Int) /\ Len(Diffs(row)) = Len(row.blocks)
      /\ \A i \in 1..Len(row.blocks) :
           Diffs(row)[i] = row.blocks[i].mapper - row.blocks[i].control
      /\ Arm(row, "control") \in Seq(Int) /\ Len(Arm(row, "control")) = Len(row.blocks)
      /\ \A i \in 1..Len(row.blocks) : Arm(row, "control")[i] = row.blocks[i].control
  BY <1>2, ListsOf
<1>4. Per(Diffs(row)) = Size /\ Per(Arm(row, "control")) = Size
  BY <1>1, <1>3 DEF Per
<1>5. ASSUME NEW p \in 1..PASSES
      PROVE  /\ Slice(Diffs(row), p) = Diffs(Own(row, p))
             /\ Slice(Arm(row, "control"), p) = Arm(Own(row, p), "control")
  <2> DEFINE from == (p - 1) * Size
             own == Own(row, p)
             part == own.blocks
             all == row.blocks
  <2>1. part = Slice(row.blocks, p)
    BY <1>1 DEF Own
  <2>2. /\ from \in Nat /\ p * Size = from + Size /\ p * Size <= Len(all)
        /\ part \in Seq(Block) /\ Len(part) = Size
        /\ \A i \in 1..Size : part[i] = all[from + i]
    <3>1. /\ (p - 1) * Per(all) \in Nat
          /\ p * Per(all) = (p - 1) * Per(all) + Per(all)
          /\ p * Per(all) <= Len(all)
          /\ Slice(all, p) \in Seq(Block)
          /\ Len(Slice(all, p)) = Per(all)
          /\ \A i \in 1..Per(all) : Slice(all, p)[i] = all[(p - 1) * Per(all) + i]
      BY <1>2, SliceIs
    <3> HIDE DEF part
    <3> QED
      BY <1>1, <2>1, <3>1
  <2>3. /\ Diffs(own) \in Seq(Int) /\ Len(Diffs(own)) = Size
        /\ \A i \in 1..Size : Diffs(own)[i] = part[i].mapper - part[i].control
        /\ Arm(own, "control") \in Seq(Int) /\ Len(Arm(own, "control")) = Size
        /\ \A i \in 1..Size : Arm(own, "control")[i] = part[i].control
    BY <2>2, ListsOf
  <2>4. /\ Slice(Diffs(row), p) \in Seq(Int) /\ Len(Slice(Diffs(row), p)) = Size
        /\ \A i \in 1..Size : Slice(Diffs(row), p)[i] = Diffs(row)[from + i]
    <3> DEFINE t == Diffs(row)
    <3>1. t \in Seq(Int) /\ Per(t) = Size
      BY <1>3, <1>4
    <3> HIDE DEF t
    <3>2. /\ Slice(t, p) \in Seq(Int) /\ Len(Slice(t, p)) = Per(t)
          /\ \A i \in 1..Per(t) : Slice(t, p)[i] = t[(p - 1) * Per(t) + i]
      BY <3>1, SliceIs
    <3> QED
      BY <3>1, <3>2 DEF t
  <2>5. /\ Slice(Arm(row, "control"), p) \in Seq(Int) /\ Len(Slice(Arm(row, "control"), p)) = Size
        /\ \A i \in 1..Size : Slice(Arm(row, "control"), p)[i] = Arm(row, "control")[from + i]
    <3> DEFINE t == Arm(row, "control")
    <3>1. t \in Seq(Int) /\ Per(t) = Size
      BY <1>3, <1>4
    <3> HIDE DEF t
    <3>2. /\ Slice(t, p) \in Seq(Int) /\ Len(Slice(t, p)) = Per(t)
          /\ \A i \in 1..Per(t) : Slice(t, p)[i] = t[(p - 1) * Per(t) + i]
      BY <3>1, SliceIs
    <3> QED
      BY <3>1, <3>2 DEF t
  <2>6. \A i \in 1..Size : from + i \in 1..Len(all)
    <3>1. Len(all) \in Nat
      BY <1>2
    <3> HIDE DEF from, all
    <3> QED BY <1>2, <2>2, <3>1
  <2> HIDE DEF from, own, part, all
  <2>7. \A i \in 1..Size : Slice(Diffs(row), p)[i] = Diffs(own)[i]
    <3>1. ASSUME NEW i \in 1..Size PROVE Slice(Diffs(row), p)[i] = Diffs(own)[i]
      <4>1. Slice(Diffs(row), p)[i] = Diffs(row)[from + i]
        BY <2>4
      <4>2. Diffs(row)[from + i] = all[from + i].mapper - all[from + i].control
        BY <1>3, <2>6 DEF all
      <4>3. Diffs(own)[i] = part[i].mapper - part[i].control /\ part[i] = all[from + i]
        BY <2>2, <2>3
      <4> QED
        BY <4>1, <4>2, <4>3
    <3> QED
      BY <3>1
  <2>8. \A i \in 1..Size : Slice(Arm(row, "control"), p)[i] = Arm(own, "control")[i]
    <3>1. ASSUME NEW i \in 1..Size
          PROVE  Slice(Arm(row, "control"), p)[i] = Arm(own, "control")[i]
      <4>1. Slice(Arm(row, "control"), p)[i] = Arm(row, "control")[from + i]
        BY <2>5
      <4>2. Arm(row, "control")[from + i] = all[from + i].control
        BY <1>3, <2>6 DEF all
      <4>3. Arm(own, "control")[i] = part[i].control /\ part[i] = all[from + i]
        BY <2>2, <2>3
      <4> QED
        BY <4>1, <4>2, <4>3
    <3> QED
      BY <3>1
  <2>9. Slice(Diffs(row), p) = Diffs(own)
    BY <2>3, <2>4, <2>7, SeqEqual
  <2>10. Slice(Arm(row, "control"), p) = Arm(own, "control")
    BY <2>3, <2>5, <2>8, SeqEqual
  <2> QED
    BY <2>9, <2>10 DEF own
<1> QED
  BY <1>1, <1>3, <1>4, <1>5

(* A row that is long enough to be split.                                  *)
LEMMA WholeIs ==
    ASSUME NEW row \in Row, Good(row), Whole(row)
    PROVE  /\ Complete(row) /\ Size >= MinBlocks
           /\ Len(row.blocks) = PASSES * Size
<1>1. Complete(row) /\ Len(row.blocks) >= PASSES * MinBlocks
  BY DEF Whole
<1>2. Len(row.blocks) = PASSES * Size
  BY <1>1, ListsSplit
<1>3. PASSES \in Nat \ {0} /\ MinBlocks \in Nat /\ Size \in Nat
  BY OpsAssumption, SizeIs
<1>4. ASSUME ~(Size >= MinBlocks) PROVE FALSE
  <2>1. Size + 1 <= MinBlocks
    BY <1>3, <1>4
  <2>2. (Size + 1) * PASSES <= MinBlocks * PASSES /\ (Size + 1) * PASSES = Size * PASSES + PASSES
    BY <1>3, <2>1, Multiples
  <2>3. /\ PASSES * Size = Size * PASSES /\ PASSES * MinBlocks = MinBlocks * PASSES
        /\ PASSES * Size \in Int /\ PASSES * MinBlocks \in Int
    BY <1>3
  <2> QED
    BY <1>1, <1>2, <1>3, <2>2, <2>3
<1> QED
  BY <1>1, <1>2, <1>4

(* The greatest and the least of the medians.                              *)
LEMMA Extremes ==
    ASSUME NEW meds \in [1..PASSES -> Int]
    PROVE  /\ \E p \in 1..PASSES : Max(ToSet(meds)) = meds[p] /\ \A q \in 1..PASSES : meds[q] <= meds[p]
           /\ \E p \in 1..PASSES : Min(ToSet(meds)) = meds[p] /\ \A q \in 1..PASSES : meds[p] <= meds[q]
<1>1. PASSES \in Nat \ {0} /\ 1 \in 1..PASSES
  BY OpsAssumption
<1>2. meds \in Seq(Int) /\ DOMAIN meds = 1..PASSES /\ ToSet(meds) = {meds[p] : p \in 1..PASSES}
  BY <1>1, IsList DEF ToSet
<1>3. PICK p \in 1..PASSES : \A q \in 1..PASSES : meds[q] <= meds[p]
  BY <1>1, <1>2, Greatest
<1>4. Max(ToSet(meds)) = meds[p]
  <2>1. meds[p] \in ToSet(meds) /\ \A y \in ToSet(meds) : meds[p] >= y
    BY <1>2, <1>3
  <2>2. ToSet(meds) \subseteq Int
    BY <1>2
  <2>3. \E x \in ToSet(meds) : \A y \in ToSet(meds) : x >= y
    BY <2>1
  <2>4. Max(ToSet(meds)) \in ToSet(meds) /\ \A y \in ToSet(meds) : Max(ToSet(meds)) >= y
    BY <2>3, Zenon DEF Max
  <2> QED
    BY <2>1, <2>2, <2>4
<1> DEFINE neg == [q \in 1..PASSES |-> 0 - meds[q]]
<1>5. neg \in [1..PASSES -> Int]
  OBVIOUS
<1>6. neg \in Seq(Int) /\ DOMAIN neg = 1..PASSES
  <2> HIDE DEF neg
  <2> QED BY <1>1, <1>5, IsList
<1>7. PICK l \in 1..PASSES : \A q \in 1..PASSES : neg[q] <= neg[l]
  <2> HIDE DEF neg
  <2> QED BY <1>1, <1>6, Greatest
<1>8. \A q \in 1..PASSES : meds[l] <= meds[q]
  BY <1>7
<1>9. Min(ToSet(meds)) = meds[l]
  <2>1. meds[l] \in ToSet(meds) /\ \A y \in ToSet(meds) : meds[l] =< y
    BY <1>2, <1>8
  <2>2. ToSet(meds) \subseteq Int
    BY <1>2
  <2>3. \E x \in ToSet(meds) : \A y \in ToSet(meds) : x =< y
    BY <2>1
  <2>4. Min(ToSet(meds)) \in ToSet(meds) /\ \A y \in ToSet(meds) : Min(ToSet(meds)) =< y
    BY <2>3, Zenon DEF Min
  <2> QED
    BY <2>1, <2>2, <2>4
<1> QED
  BY <1>3, <1>4, <1>8, <1>9

(* stability.py and drift.py date what they see right.                     *)
LEMMA RowIsDated ==
    ASSUME NEW row \in Row, Good(row), Whole(row)
    PROVE  DatedRight(row)
<1> DEFINE meds == [p \in 1..PASSES |-> Median(Diffs(Own(row, p)))]
           walls == [p \in 1..PASSES |-> Median(Arm(Own(row, p), "control"))]
           diffs == Diffs(row)
           times == Arm(row, "control")
<1>1. Complete(row) /\ Size >= MinBlocks
  BY WholeIs
<1>2. /\ diffs \in Seq(Int) /\ Per(diffs) = Size
      /\ times \in Seq(Int) /\ Per(times) = Size
      /\ \A p \in 1..PASSES : /\ Slice(diffs, p) = Diffs(Own(row, p))
                              /\ Slice(times, p) = Arm(Own(row, p), "control")
  BY <1>1, ListsSplit
<1>3. meds = [p \in 1..PASSES |-> Median(Slice(diffs, p))]
      /\ walls = [p \in 1..PASSES |-> Median(Slice(times, p))]
  BY <1>2
<1>4. PassMedians(diffs) = meds /\ PassMedians(times) = walls
  BY <1>1, <1>2, <1>3 DEF PassMedians
<1> HIDE DEF diffs, times, meds, walls
<1>5. /\ PassMedians(diffs) # <<>> /\ meds \in [1..PASSES -> Int]
      /\ walls \in [1..PASSES -> Int]
  BY <1>1, <1>2, <1>4, PassMediansAre
<1>6. Stability(diffs) = "flip" <=> \E p, q \in 1..PASSES : meds[p] > 0 /\ meds[q] <= 0
  <2>1. Stability(diffs) = "flip" <=> ~Agree(meds)
    BY <1>4, <1>5 DEF Stability
  <2>2. Agree(meds) <=> \A p, q \in 1..PASSES : meds[p] > 0 <=> meds[q] > 0
    BY <1>5, SignsAre
  <2>3. \A q \in 1..PASSES : meds[q] \in Int
    BY <1>5
  <2>4. \A q \in 1..PASSES : meds[q] <= 0 <=> ~(meds[q] > 0)
    BY <2>3
  <2> QED
    BY <2>1, <2>2, <2>4
<1>7. PICK hi \in 1..PASSES : /\ Max(ToSet(walls)) = walls[hi]
                              /\ \A q \in 1..PASSES : walls[q] <= walls[hi]
  BY <1>5, Extremes
<1>8. PICK lo \in 1..PASSES : /\ Min(ToSet(walls)) = walls[lo]
                              /\ \A q \in 1..PASSES : walls[lo] <= walls[q]
  BY <1>5, Extremes
<1>9. Drifted(times) <=> /\ \A p \in 1..PASSES : walls[p] > 0
                         /\ \E p, q \in 1..PASSES : 100 * walls[q] > 106 * walls[p]
  <2>1. ToSet(walls) # {}
    BY <1>5, <1>7 DEF ToSet
  <2>2. Drifted(times) <=> walls[lo] > 0 /\ 50 * (walls[hi] - walls[lo]) > 3 * walls[lo]
    BY <1>4, <1>7, <1>8, <2>1 DEF Drifted
  <2>3. \A q \in 1..PASSES : walls[q] \in Int
    BY <1>5
  <2>4. ASSUME NEW p \in 1..PASSES, NEW q \in 1..PASSES, 100 * walls[q] > 106 * walls[p]
        PROVE  50 * (walls[hi] - walls[lo]) > 3 * walls[lo]
    <3>1. walls[q] <= walls[hi] /\ walls[lo] <= walls[p]
      BY <1>7, <1>8
    <3> QED
      BY <2>3, <2>4, <3>1
  <2>5. 50 * (walls[hi] - walls[lo]) > 3 * walls[lo] => 100 * walls[hi] > 106 * walls[lo]
    BY <2>3
  <2>6. walls[lo] > 0 <=> \A p \in 1..PASSES : walls[p] > 0
    BY <1>8, <2>3
  <2> QED
    BY <2>2, <2>4, <2>5, <2>6
<1>10. \A q \in 1..PASSES : walls[q] <= walls[SlowestPass(times)]
  <2> DEFINE Slow == {p \in 1..PASSES : \A q \in 1..PASSES : walls[q] <= walls[p]}
  <2>1. SlowestPass(times) = Min(Slow)
    BY <1>4 DEF SlowestPass
  <2>2. hi \in Slow /\ Slow \in SUBSET Nat
    BY <1>7
  <2>3. Min(Slow) \in Slow
    <3> HIDE DEF Slow
    <3>1. \E x \in Slow : \A y \in Slow : x =< y
      BY <2>2, LeastNumber
    <3> QED
      BY <3>1, Zenon DEF Min
  <2> QED
    BY <2>1, <2>3
<1> QED
  BY <1>6, <1>9, <1>10 DEF DatedRight, diffs, times, meds, walls

-----------------------------------------------------------------------------
(* The driver.                                                             *)

(* What each variable holds.                                               *)
TypeOK ==
    /\ file \in Tables \cup {Torn}
    /\ before \in Tables
    /\ fresh \in Tables
    /\ results \in Tables
    /\ fixture \in Nat
    /\ runs \in Nat
    /\ turn \in Seq(Keys)
    /\ alive \in Seq(Keys)

(* How many passes a candidate that is alive has behind it.                *)
Behind(k) == IF k \in ToSet(turn) THEN pass - 1 ELSE pass

(* The loop goes round those that are alive, once each, and what this run  *)
(* has collected is of this run.                                           *)
Level ==
    pc # "idle" =>
      /\ pass \in 1..PASSES
      /\ NoRepeats(turn) /\ NoRepeats(alive)
      /\ ToSet(turn) \subseteq ToSet(alive)
      /\ \A k \in ToSet(alive) : Reached(fresh[k], Behind(k))
      /\ \A k \in Keys : \A i \in DOMAIN fresh[k].blocks : fresh[k].blocks[i].run = runs

(* The inductive invariant.                                                *)
Inv == TypeOK /\ Level

(* An empty table is one.                                                  *)
LEMMA EmptyTable ==
    /\ NoRows \in Tables
    /\ \A k \in Keys : NoRows[k] = NoRow
    /\ NoRow \in Row /\ NoRow.blocks = <<>> /\ Reached(NoRow, 0) /\ Good(NoRow)
<1>1. NoRow \in Row /\ NoRow.blocks = <<>>
  BY DEF NoRow, Row
<1>2. Size \in Nat /\ PASSES \in Nat
  BY SizeIs, OpsAssumption
<1>3. Reached(NoRow, 0)
  <2>1. 0 * Size = 0
    BY <1>2
  <2> QED
    BY <1>1, <2>1 DEF Reached
<1>4. 0 \in 0..PASSES
  BY <1>2
<1>5. Good(NoRow)
  BY <1>1, <1>3, <1>4 DEF Good, OfOneRun, OfFixture
<1>6. \A k \in Keys : NoRows[k] = NoRow
  BY DEF NoRows
<1>7. NoRows \in Tables
  BY <1>1, <1>5, <1>6 DEF Tables, NoRows
<1> QED
  BY <1>1, <1>3, <1>5, <1>6, <1>7

(* The candidate whose turn it is, and those after it.                     *)
LEMMA HeadTail ==
    ASSUME NEW T, NEW s \in Seq(T), s # <<>>, NoRepeats(s)
    PROVE  /\ Head(s) \in T /\ Head(s) \in ToSet(s)
           /\ Tail(s) \in Seq(T) /\ NoRepeats(Tail(s))
           /\ ToSet(Tail(s)) = ToSet(s) \ {Head(s)}
<1>1. /\ Len(s) \in Nat \ {0} /\ DOMAIN s = 1..Len(s) /\ 1 \in DOMAIN s
      /\ Head(s) = s[1] /\ s[1] \in T
  OBVIOUS
<1>2. /\ Tail(s) \in Seq(T) /\ DOMAIN Tail(s) = 1..(Len(s) - 1)
      /\ \A i \in 1..(Len(s) - 1) : Tail(s)[i] = s[i + 1]
  OBVIOUS
<1>3. \A i \in 1..(Len(s) - 1) : i + 1 \in DOMAIN s /\ i + 1 # 1
  BY <1>1
<1>4. NoRepeats(Tail(s))
  <2>1. ASSUME NEW i \in 1..(Len(s) - 1), NEW j \in 1..(Len(s) - 1), Tail(s)[i] = Tail(s)[j]
        PROVE  i = j
    <3>1. s[i + 1] = s[j + 1] /\ i + 1 \in DOMAIN s /\ j + 1 \in DOMAIN s
      BY <1>2, <1>3, <2>1
    <3>2. i + 1 = j + 1
      BY <3>1 DEF NoRepeats
    <3> QED
      BY <1>1, <3>2
  <2> QED
    BY <1>2, <2>1 DEF NoRepeats
<1>5. ASSUME NEW x \in ToSet(s), x # Head(s) PROVE x \in ToSet(Tail(s))
  <2>1. PICK i \in DOMAIN s : x = s[i]
    BY DEF ToSet
  <2>2. i - 1 \in 1..(Len(s) - 1) /\ (i - 1) + 1 = i
    BY <1>1, <1>5, <2>1
  <2>3. Tail(s)[i - 1] = x
    BY <1>2, <2>1, <2>2
  <2> QED
    BY <1>2, <2>2, <2>3 DEF ToSet
<1>6. ASSUME NEW x \in ToSet(Tail(s)) PROVE x \in ToSet(s) /\ x # Head(s)
  <2>1. PICK i \in 1..(Len(s) - 1) : x = s[i + 1]
    BY <1>2 DEF ToSet
  <2>2. i + 1 \in DOMAIN s /\ i + 1 # 1
    BY <1>3
  <2> QED
    BY <1>1, <2>1, <2>2 DEF ToSet, NoRepeats
<1>7. Head(s) \in ToSet(s)
  BY <1>1 DEF ToSet
<1> QED
  BY <1>1, <1>2, <1>4, <1>5, <1>6, <1>7

(* A table with one row replaced.                                          *)
LEMMA RowReplaced ==
    ASSUME NEW f \in Tables, NEW k \in Keys, NEW row \in Row, Good(row)
    PROVE  /\ [f EXCEPT ![k] = row] \in Tables
           /\ [f EXCEPT ![k] = row][k] = row
           /\ \A j \in Keys : j # k => [f EXCEPT ![k] = row][j] = f[j]
BY DEF Tables

(* The driver starts in it.                                                *)
LEMMA InitInv == Init => Inv
<1> SUFFICES ASSUME Init PROVE Inv
  OBVIOUS
<1>1. <<>> \in Seq(Keys)
  OBVIOUS
<1> QED
  BY <1>1, EmptyTable DEF Init, Inv, TypeOK, Level

(* The driver is gone and leaves the table it may have written.            *)
LEMMA GoneInv ==
    ASSUME Inv, Gone, file' \in Tables \cup {Torn}, before' = before,
           fixture' = fixture, runs' = runs
    PROVE  Inv'
<1>1. <<>> \in Seq(Keys)
  OBVIOUS
<1> QED
  BY <1>1, EmptyTable DEF Gone, Inv, TypeOK, Level

(* The loop stands while the file is written, copied or the fixture moves. *)
LEMMA LoopStands ==
    ASSUME Inv, UNCHANGED <<loop, runs>>, (pc' = "idle") = (pc = "idle"),
           file' \in Tables \cup {Torn}, before' \in Tables, fixture' \in Nat
    PROVE  Inv'
BY DEF Inv, TypeOK, Level, Behind, loop

(* Begin: the loop starts with every chosen candidate's turn.              *)
LEMMA BeginInv ==
    ASSUME Inv, NEW only \in SUBSET Keys, Begin(only)
    PROVE  Inv'
<1> DEFINE S == IF only = {} THEN Keys ELSE only
           chosen == Only(CANDIDATES, S)
<1>1. CANDIDATES \in Seq(Keys) /\ NoRepeats(CANDIDATES)
  <2>1. NoRepeats(CANDIDATES)
    BY OpsAssumption DEF NoRepeats
  <2>2. CANDIDATES \in Seq(STRING)
    BY OpsAssumption
  <2>3. Len(CANDIDATES) \in Nat /\ CANDIDATES \in [1..Len(CANDIDATES) -> Keys]
    BY <2>2 DEF Keys, ToSet
  <2>4. CANDIDATES \in Seq(Keys)
    BY <2>3, SeqDef
  <2> QED
    BY <2>1, <2>4
<1>2. chosen \in Seq(Keys) /\ NoRepeats(chosen)
  <2> HIDE DEF S
  <2> QED BY <1>1, OnlyKeeps
<1>3. /\ results' = (IF only = {} THEN NoRows ELSE Loaded)
      /\ fresh' = NoRows /\ alive' = chosen /\ turn' = chosen /\ pass' = 1
      /\ runs' = runs + 1 /\ UNCHANGED state
  BY DEF Begin
<1> HIDE DEF chosen
<1>4. results' \in Tables
  BY <1>3, EmptyTable DEF Loaded, Inv, TypeOK
<1>5. TypeOK'
  BY <1>2, <1>3, <1>4, EmptyTable DEF Inv, TypeOK, state
<1>6. PASSES \in Nat \ {0} /\ 1 \in 1..PASSES
  BY OpsAssumption
<1>7. \A k \in ToSet(chosen) : k \in Keys
  BY <1>2 DEF ToSet
<1>8. Level'
  <2>1. \A k \in ToSet(chosen) : Reached(fresh'[k], Behind(k)')
    <3>1. ASSUME NEW k \in ToSet(chosen) PROVE Reached(fresh'[k], Behind(k)')
      <4>1. Behind(k)' = 0
        BY <1>3 DEF Behind
      <4>2. fresh'[k] = NoRow
        BY <1>3, <1>7, EmptyTable
      <4> QED
        BY <4>1, <4>2, EmptyTable
    <3> QED
      BY <3>1
  <2>2. \A k \in Keys : fresh'[k].blocks = <<>>
    BY <1>3, EmptyTable
  <2> QED
    BY <1>2, <1>3, <1>6, <2>1, <2>2 DEF Level
<1> QED
  BY <1>5, <1>8 DEF Inv

(* RunOnce: the candidate whose turn it was is a pass further.             *)
LEMMA RunOnceInv ==
    ASSUME Inv, RunOnce
    PROVE  Inv'
<1> DEFINE k == Head(turn)
           row == fresh[k]
<1>1. /\ pc = "run" /\ turn # <<>> /\ ~Moved(row)
      /\ results' = [results EXCEPT ![k] = fresh'[k]]
      /\ turn' = Tail(turn) /\ pc' = "save"
      /\ UNCHANGED <<state, runs, pass, alive>>
  BY DEF RunOnce
<1>2. PICK r \in Readings : fresh' = [fresh EXCEPT ![k] = Merge(row, r)]
  BY DEF RunOnce
<1>3. /\ pass \in 1..PASSES /\ NoRepeats(turn) /\ NoRepeats(alive)
      /\ ToSet(turn) \subseteq ToSet(alive)
      /\ \A j \in ToSet(alive) : Reached(fresh[j], Behind(j))
      /\ \A j \in Keys : \A i \in DOMAIN fresh[j].blocks : fresh[j].blocks[i].run = runs
  BY <1>1 DEF Inv, Level
<1>4. turn \in Seq(Keys) /\ alive \in Seq(Keys) /\ fresh \in Tables /\ results \in Tables
      /\ runs \in Nat /\ fixture \in Nat
  BY DEF Inv, TypeOK
<1>5. /\ k \in Keys /\ k \in ToSet(turn)
      /\ Tail(turn) \in Seq(Keys) /\ NoRepeats(Tail(turn))
      /\ ToSet(Tail(turn)) = ToSet(turn) \ {k}
  BY <1>1, <1>3, <1>4, HeadTail
<1> HIDE DEF k
<1>6. row \in Row /\ Good(row)
  BY <1>4, <1>5 DEF Tables
<1>7. PASSES \in Nat /\ pass - 1 \in Nat /\ pass - 1 < PASSES /\ pass = (pass - 1) + 1
  BY <1>3, OpsAssumption
<1>8. Reached(row, pass - 1)
  BY <1>3, <1>5 DEF Behind
<1>9. \A i \in DOMAIN row.blocks : row.blocks[i].run = runs
  BY <1>3, <1>5
<1> HIDE DEF row
<1> DEFINE new == Merge(row, r)
<1>10. /\ new \in Row /\ Good(new) /\ Reached(new, (pass - 1) + 1)
       /\ \A i \in DOMAIN new.blocks : new.blocks[i].run = runs
  BY <1>1, <1>4, <1>6, <1>7, <1>8, <1>9, MergeIs
<1> HIDE DEF new
<1>11. /\ fresh' \in Tables /\ fresh'[k] = new
       /\ \A j \in Keys : j # k => fresh'[j] = fresh[j]
  <2>1. fresh' = [fresh EXCEPT ![k] = new]
    BY <1>2 DEF new
  <2>2. fresh \in Tables /\ k \in Keys /\ new \in Row /\ Good(new)
    BY <1>4, <1>5, <1>10
  <2>3. /\ [fresh EXCEPT ![k] = new] \in Tables
        /\ [fresh EXCEPT ![k] = new][k] = new
        /\ \A j \in Keys : j # k => [fresh EXCEPT ![k] = new][j] = fresh[j]
    BY <2>2, RowReplaced
  <2> QED
    BY <2>1, <2>3
<1>12. results' \in Tables
  BY <1>1, <1>4, <1>5, <1>10, <1>11, RowReplaced
<1>13. TypeOK'
  BY <1>1, <1>4, <1>5, <1>11, <1>12 DEF Inv, TypeOK, state
<1>14. ASSUME NEW j \in ToSet(alive) PROVE Reached(fresh'[j], Behind(j)')
  <2>0. j \in Keys
    BY <1>4 DEF ToSet
  <2>1. CASE j = k
    <3>1. Behind(j)' = pass
      BY <1>1, <1>5, <2>1 DEF Behind
    <3> QED
      BY <1>7, <1>10, <1>11, <2>1, <3>1
  <2>2. CASE j # k
    <3>1. Behind(j)' = Behind(j)
      BY <1>1, <1>5, <2>2 DEF Behind
    <3> QED
      BY <1>3, <1>11, <2>0, <2>2, <3>1
  <2> QED
    BY <2>1, <2>2
<1>15. \A j \in Keys : \A i \in DOMAIN fresh'[j].blocks : fresh'[j].blocks[i].run = runs
  BY <1>3, <1>10, <1>11
<1>16. Level'
  BY <1>1, <1>3, <1>5, <1>14, <1>15 DEF Level
<1> QED
  BY <1>13, <1>16 DEF Inv

(* RunFails: the candidate leaves the loop, the others keep their turns.   *)
LEMMA RunFailsInv ==
    ASSUME Inv, RunFails
    PROVE  Inv'
<1> DEFINE k == Head(turn)
<1>1. /\ pc = "run" /\ turn # <<>>
      /\ alive' = Only(alive, Keys \ {k}) /\ turn' = Tail(turn)
      /\ UNCHANGED <<state, runs, pc, pass, fresh, results>>
  BY DEF RunFails, LeftOver
<1>2. /\ pass \in 1..PASSES /\ NoRepeats(turn) /\ NoRepeats(alive)
      /\ ToSet(turn) \subseteq ToSet(alive)
      /\ \A j \in ToSet(alive) : Reached(fresh[j], Behind(j))
      /\ \A j \in Keys : \A i \in DOMAIN fresh[j].blocks : fresh[j].blocks[i].run = runs
  BY <1>1 DEF Inv, Level
<1>3. turn \in Seq(Keys) /\ alive \in Seq(Keys)
  BY DEF Inv, TypeOK
<1>4. /\ k \in Keys /\ k \in ToSet(turn)
      /\ Tail(turn) \in Seq(Keys) /\ NoRepeats(Tail(turn))
      /\ ToSet(Tail(turn)) = ToSet(turn) \ {k}
  BY <1>1, <1>2, <1>3, HeadTail
<1> HIDE DEF k
<1>5. /\ alive' \in Seq(Keys) /\ NoRepeats(alive')
      /\ ToSet(alive') = ToSet(alive) \cap (Keys \ {k})
  BY <1>1, <1>2, <1>3, OnlyKeeps
<1>6. TypeOK'
  BY <1>1, <1>4, <1>5 DEF Inv, TypeOK, state
<1>7. \A j \in ToSet(turn) : j \in Keys
  BY <1>3 DEF ToSet
<1>8. ToSet(turn') \subseteq ToSet(alive')
  BY <1>1, <1>2, <1>4, <1>5, <1>7
<1>9. ASSUME NEW j \in ToSet(alive') PROVE Reached(fresh'[j], Behind(j)')
  <2>1. j \in ToSet(alive) /\ j # k
    BY <1>5
  <2>2. Behind(j)' = Behind(j)
    BY <1>1, <1>4, <2>1 DEF Behind
  <2> QED
    BY <1>1, <1>2, <2>1, <2>2
<1>10. Level'
  BY <1>1, <1>2, <1>4, <1>5, <1>8, <1>9 DEF Level
<1> QED
  BY <1>6, <1>10 DEF Inv

(* NextPass: when all turns are over, those alive get another.             *)
LEMMA NextPassInv ==
    ASSUME Inv, NextPass
    PROVE  Inv'
<1>1. /\ pc = "run" /\ turn = <<>> /\ pc' # "idle"
      /\ \/ pass < PASSES /\ pass' = pass + 1 /\ turn' = alive
         \/ pass' = pass /\ turn' = turn
      /\ UNCHANGED <<state, runs, alive, fresh, results>>
  BY DEF NextPass
<1>2. /\ pass \in 1..PASSES /\ NoRepeats(turn) /\ NoRepeats(alive)
      /\ ToSet(turn) \subseteq ToSet(alive)
      /\ \A j \in ToSet(alive) : Reached(fresh[j], Behind(j))
      /\ \A j \in Keys : \A i \in DOMAIN fresh[j].blocks : fresh[j].blocks[i].run = runs
  BY <1>1 DEF Inv, Level
<1>3. TypeOK'
  BY <1>1 DEF Inv, TypeOK, state
<1>4. ToSet(turn) = {}
  BY <1>1 DEF ToSet
<1>5. PASSES \in Nat
  BY OpsAssumption
<1>6. ASSUME NEW j \in ToSet(alive) PROVE Behind(j)' = Behind(j)
  <2>1. Behind(j) = pass
    BY <1>4 DEF Behind
  <2>2. CASE pass < PASSES /\ pass' = pass + 1 /\ turn' = alive
    <3>1. Behind(j)' = (pass + 1) - 1
      BY <2>2 DEF Behind
    <3> QED
      BY <1>2, <1>5, <2>1, <3>1
  <2>3. CASE pass' = pass /\ turn' = turn
    BY <2>3 DEF Behind
  <2> QED
    BY <1>1, <2>2, <2>3
<1>7. pass' \in 1..PASSES
  BY <1>1, <1>2, <1>5
<1>8. Level'
  BY <1>1, <1>2, <1>4, <1>6, <1>7 DEF Level
<1> QED
  BY <1>3, <1>8 DEF Inv

(* Every step keeps the invariant.                                         *)
LEMMA NextInv == Inv /\ [Next]_vars => Inv'
<1> SUFFICES ASSUME Inv, [Next]_vars PROVE Inv'
  OBVIOUS
<1>0. file \in Tables \cup {Torn} /\ before \in Tables /\ results \in Tables /\ fixture \in Nat
  BY DEF Inv, TypeOK
<1>1. ASSUME NEW only \in SUBSET Keys, Begin(only) PROVE Inv'
  BY <1>1, BeginInv
<1>2. CASE RunOnce
  BY <1>2, RunOnceInv
<1>3. CASE MergeRaises
  BY <1>0, <1>3, GoneInv DEF MergeRaises, state
<1>4. CASE RunFails
  BY <1>4, RunFailsInv
<1>5. CASE NextPass
  BY <1>5, NextPassInv
<1>6. CASE Truncate
  <2>1. /\ UNCHANGED <<loop, runs>> /\ pc # "idle" /\ pc' # "idle"
        /\ file' \in Tables \cup {Torn} /\ before' \in Tables /\ fixture' \in Nat
    BY <1>0, <1>6 DEF Truncate
  <2> QED
    BY <2>1, LoopStands
<1>7. CASE Dump
  <2>1. /\ UNCHANGED <<loop, runs>> /\ pc # "idle" /\ pc' # "idle"
        /\ file' \in Tables \cup {Torn} /\ before' \in Tables /\ fixture' \in Nat
    BY <1>0, <1>7 DEF Dump
  <2> QED
    BY <2>1, LoopStands
<1>8. CASE DumpLast
  BY <1>0, <1>8, GoneInv DEF DumpLast
<1>9. CASE Interrupt
  BY <1>0, <1>9, GoneInv DEF Interrupt, state
<1>10. CASE KeepCopy
  <2>1. /\ UNCHANGED <<loop, runs>> /\ pc' = pc
        /\ file' \in Tables \cup {Torn} /\ before' \in Tables /\ fixture' \in Nat
    BY <1>0, <1>10 DEF KeepCopy
  <2> QED
    BY <2>1, LoopStands
<1>11. CASE Refill
  <2>1. /\ UNCHANGED <<loop, runs>> /\ pc' = pc
        /\ file' \in Tables \cup {Torn} /\ before' \in Tables /\ fixture' \in Nat
    BY <1>0, <1>11 DEF Refill
  <2> QED
    BY <2>1, LoopStands
<1>12. CASE UNCHANGED vars
  <2>1. /\ UNCHANGED <<loop, runs>> /\ pc' = pc
        /\ file' \in Tables \cup {Torn} /\ before' \in Tables /\ fixture' \in Nat
    BY <1>0, <1>12 DEF vars, state
  <2> QED
    BY <2>1, LoopStands
<1> QED
  BY <1>1, <1>2, <1>3, <1>4, <1>5, <1>6, <1>7, <1>8, <1>9, <1>10, <1>11, <1>12 DEF Next

(* ops.py, run again and again over one file: whatever fails, moves or is  *)
(* interrupted, a row has the blocks of its first passes, pass by pass, of *)
(* one run over one fixture.                                               *)
THEOREM OpsInvariant == Spec => []Inv
BY InitInv, NextInv, PTL DEF Spec

(* Which passes a candidate's blocks are of.                               *)
LEMMA LevelFollows == Inv => PassesAreLevel
<1> SUFFICES ASSUME Inv, pc # "idle", NEW k \in ToSet(alive)
             PROVE  {b.pass : b \in ToSet(fresh[k].blocks)} = 1..(IF k \in ToSet(turn) THEN pass - 1 ELSE pass)
  BY DEF PassesAreLevel
<1>1. Reached(fresh[k], Behind(k)) /\ pass \in 1..PASSES
  BY DEF Inv, Level
<1>2. k \in Keys /\ fresh[k] \in Row
  <2>1. alive \in Seq(Keys) /\ fresh \in Tables
    BY DEF Inv, TypeOK
  <2>2. k \in Keys
    BY <2>1 DEF ToSet
  <2> QED
    BY <2>1, <2>2 DEF Tables
<1>3. Behind(k) \in Nat
  BY <1>1, OpsAssumption DEF Behind
<1>4. {b.pass : b \in ToSet(fresh[k].blocks)} = 1..Behind(k)
  BY <1>1, <1>2, <1>3, PassesOf
<1> QED
  BY <1>4 DEF Behind

(* The loop of ops.py's main: for any candidates and passes, one that is   *)
(* alive was measured in every pass so far, however many others failed.    *)
THEOREM PassesLevel == Spec => []PassesAreLevel
BY OpsInvariant, LevelFollows, PTL

(* The rows on the disk are whole ones of the file.                        *)
LEMMA RowsOnDisk ==
    ASSUME Inv
    PROVE  /\ \A row \in OnDisk : row \in Row /\ Good(row) /\ row # NoRow
           /\ IsFiniteSet({row.checksum : row \in OnDisk})
<1>1. file = Torn => OnDisk = {}
  BY DEF OnDisk
<1>2. CASE OnDisk = {}
  <2>1. {row.checksum : row \in OnDisk} = {}
    BY <1>2
  <2> QED
    BY <1>2, <2>1, FS_EmptySet
<1>3. CASE OnDisk # {}
  <2>1. file \in Tables /\ OnDisk = {file[k] : k \in Keys} \ {NoRow}
    BY <1>1, <1>3 DEF Inv, TypeOK, OnDisk
  <2>2. \A row \in OnDisk : row \in Row /\ Good(row) /\ row # NoRow
    BY <2>1 DEF Tables
  <2> DEFINE n == Len(CANDIDATES)
             f == [i \in 1..n |-> file[CANDIDATES[i]].checksum]
             T == {f[i] : i \in 1..n}
  <2>3. n \in Nat /\ Keys = {CANDIDATES[i] : i \in 1..n}
    BY OpsAssumption DEF Keys, ToSet
  <2>4. {row.checksum : row \in OnDisk} \subseteq T
    BY <2>1, <2>3
  <2> HIDE DEF n
  <2>5. f \in Surjection(1..n, T)
    BY DEF Surjection
  <2> HIDE DEF f, T
  <2>6. IsFiniteSet(1..n)
    <3>1. 1 \in Int /\ n \in Int
      BY <2>3
    <3> QED
      BY <3>1, FS_Interval
  <2>7. IsFiniteSet(T)
    BY <2>5, <2>6, FS_Surjection
  <2>8. IsFiniteSet({row.checksum : row \in OnDisk})
    BY <2>4, <2>7, FS_Subset
  <2> QED
    BY <2>2, <2>8
<1> QED
  BY <1>2, <1>3

(* Rows of one checksum are of one fixture.                                *)
LEMMA FixturesFollow == Inv => FixturesAreTold
<1> SUFFICES ASSUME Inv, OnDisk # {}
             PROVE  ChecksumsAgree(OnDisk) <=>
                      \A row, other \in OnDisk : row.blocks[1].fixture = other.blocks[1].fixture
  BY DEF FixturesAreTold
<1> DEFINE C == {row.checksum : row \in OnDisk}
<1>1. IsFiniteSet(C)
  BY RowsOnDisk
<1>2. ASSUME NEW row \in OnDisk PROVE row.blocks[1].fixture = row.checksum
  <2>1. row \in Row /\ Good(row) /\ row # NoRow
    BY RowsOnDisk
  <2>2. row.blocks # <<>> /\ row.blocks \in Seq(Block)
    BY <2>1 DEF Good, Row
  <2>3. 1 \in DOMAIN row.blocks
    BY <2>2
  <2> QED
    BY <2>1, <2>3 DEF Good, OfFixture
<1>3. ChecksumsAgree(OnDisk) <=> Cardinality(C) = 1
  BY DEF ChecksumsAgree
<1>4. Cardinality(C) = 1 <=> \E x : C = {x}
  <2> HIDE DEF C
  <2> QED BY <1>1, FS_Singleton
<1>5. (\E x : C = {x}) <=> \A row, other \in OnDisk : row.checksum = other.checksum
  <2>1. ASSUME NEW x, C = {x} PROVE \A row, other \in OnDisk : row.checksum = other.checksum
    <3>1. \A row \in OnDisk : row.checksum \in C
      OBVIOUS
    <3> HIDE DEF C
    <3> QED BY <2>1, <3>1
  <2>2. ASSUME \A row, other \in OnDisk : row.checksum = other.checksum PROVE \E x : C = {x}
    <3>1. PICK row \in OnDisk : TRUE
      OBVIOUS
    <3>2. C = {row.checksum}
      BY <2>2
    <3> QED
      BY <3>2
  <2> QED
    BY <2>1, <2>2
<1> HIDE DEF C
<1> QED
  BY <1>2, <1>3, <1>4, <1>5

(* A row of every pass is cut where the passes meet.                       *)
LEMMA SplitFollows == Inv => SplitIsByPass
<1> SUFFICES ASSUME Inv PROVE SplitIsByPass
  OBVIOUS
<1>1. FixturesAreTold
  BY FixturesFollow
<1>2. ASSUME NEW row \in OnDisk
      PROVE  /\ OfOneRun(row)
             /\ Complete(row) => \A p \in 1..PASSES : Slice(row.blocks, p) = Taken(row, p)
             /\ Whole(row) => DatedRight(row)
  <2>1. row \in Row /\ Good(row)
    BY RowsOnDisk
  <2>2. OfOneRun(row)
    BY <2>1 DEF Good
  <2>3. Complete(row) => \A p \in 1..PASSES : Slice(row.blocks, p) = Taken(row, p)
    BY <2>1, SlicesArePasses
  <2>4. Whole(row) => DatedRight(row)
    BY <2>1, RowIsDated
  <2> QED
    BY <2>2, <2>3, <2>4
<1> QED
  BY <1>1, <1>2 DEF SplitIsByPass

(* The differences of any row of a table.                                  *)
LEMMA DiffsOf ==
    ASSUME NEW f \in Tables, NEW k \in Keys
    PROVE  /\ f[k] \in Row /\ Good(f[k])
           /\ Diffs(f[k]) \in Seq(Int) /\ Len(Diffs(f[k])) = Len(f[k].blocks)
<1>1. f[k] \in Row /\ Good(f[k])
  BY DEF Tables
<1>2. f[k].blocks \in Seq(Block)
  BY <1>1 DEF Row
<1> QED
  BY <1>1, <1>2, ListsOf

(* What is published as real points one way.                               *)
LEMMA RealFollows == Inv => RealPointsOneWay
<1> SUFFICES ASSUME Inv, file # Torn, NEW k \in Keys
             PROVE  LET now == file[k] was == before[k]
                        up(row) == [p \in 1..PASSES |-> Median(Diffs(Own(row, p))) > 0]
                    IN Whole(now) /\ Real(Diffs(now), Diffs(was)) =>
                         LET p == Paired(Diffs(now)) IN
                         /\ p.lo > 0 <=> p.median > 0
                         /\ \A q \in 1..PASSES : up(now)[q] <=> p.lo > 0
                         /\ Whole(was) => \A q \in 1..PASSES : up(was)[q] <=> p.lo > 0
  BY DEF RealPointsOneWay
<1> DEFINE now == file[k]
           was == before[k]
           s == Diffs(now)
           prev == Diffs(was)
           lo == Paired(s).lo
<1>1. file \in Tables /\ before \in Tables
  BY DEF Inv, TypeOK
<1>2. /\ now \in Row /\ Good(now) /\ s \in Seq(Int)
      /\ was \in Row /\ Good(was) /\ prev \in Seq(Int)
  BY <1>1, DiffsOf
<1> SUFFICES ASSUME Whole(now), Real(s, prev)
             PROVE  /\ lo > 0 <=> Paired(s).median > 0
                    /\ \A q \in 1..PASSES : Median(Diffs(Own(now, q))) > 0 <=> lo > 0
                    /\ Whole(was) => \A q \in 1..PASSES : Median(Diffs(Own(was, q))) > 0 <=> lo > 0
  OBVIOUS
<1>3. PASSES \in Nat \ {0} /\ Size \in Nat \ {0}
  BY OpsAssumption, SizeIs
<1>4. /\ Per(s) = Size /\ Size >= MinBlocks /\ Len(s) = PASSES * Size
      /\ \A q \in 1..PASSES : Slice(s, q) = Diffs(Own(now, q))
  BY <1>2, WholeIs, ListsSplit
<1>5. FewLeftOver(s)
  BY <1>4 DEF FewLeftOver
<1>6. /\ \A p \in 1..PASSES : Median(Slice(s, p)) > 0 <=> lo > 0
      /\ Median(s) > 0 <=> lo > 0
      /\ prev # <<>> /\ Per(prev) >= MinBlocks =>
           \A p \in 1..PASSES : Median(Slice(prev, p)) > 0 <=> lo > 0
  BY <1>2, <1>4, <1>5, RealSigns
<1>7. Paired(s).median = Median(s)
  BY PairedIs
<1>8. ASSUME Whole(was)
      PROVE  \A q \in 1..PASSES : Median(Diffs(Own(was, q))) > 0 <=> lo > 0
  <2>1. /\ Per(prev) = Size /\ Size >= MinBlocks /\ Len(prev) = PASSES * Size
        /\ \A q \in 1..PASSES : Slice(prev, q) = Diffs(Own(was, q))
    BY <1>2, <1>8, WholeIs, ListsSplit
  <2>2. prev # <<>>
    BY <1>2, <2>1, PassMediansAre
  <2> HIDE DEF s, prev, lo
  <2> QED
    BY <1>6, <2>1, <2>2
<1> HIDE DEF s, prev, lo
<1> QED
  BY <1>4, <1>6, <1>7, <1>8

(* What the page calls real the other readers do not contradict.           *)
LEMMA ReadersFollow == PASSES <= MinBlocks /\ Inv => ReadersAgree
<1> SUFFICES ASSUME PASSES <= MinBlocks, Inv, file # Torn, NEW k \in Keys
             PROVE  LET now == Diffs(file[k]) was == Diffs(before[k])
                    IN now # <<>> /\ Real(now, was) =>
                         /\ Verdict(now) = "real" /\ Tax(now) = "real"
                         /\ Stability(now) # "flip"
                         /\ PassMedians(now) # <<>> /\ was # <<>> /\ PassMedians(was) # <<>> => ~Changed(was, now)
  BY DEF ReadersAgree
<1>1. file \in Tables /\ before \in Tables
  BY DEF Inv, TypeOK
<1>2. Diffs(file[k]) \in Seq(Int) /\ Diffs(before[k]) \in Seq(Int)
  BY <1>1, DiffsOf
<1> QED
  BY <1>2, ReadersOf

(* merge() and the readers' split: for any candidates, passes and          *)
(* readings, the parts a row is cut into are the passes it was taken in,   *)
(* and a change of sign or a slow pass is dated right.                     *)
THEOREM SplitByPass == Spec => []SplitIsByPass
BY OpsInvariant, SplitFollows, PTL

(* paired() and other_signs() of artifact_data.py: for any readings, what  *)
(* is published as real has its interval, its median and every pass of     *)
(* both runs on one side of zero.                                          *)
THEOREM RealOneWay == Spec => []RealPointsOneWay
BY OpsInvariant, RealFollows, PTL

(* The five readers, for any readings, as long as there are no more passes *)
(* than a part must have blocks (3 and 10 in the code): the blocks a       *)
(* division leaves over are fewer than PASSES, and were they more than a   *)
(* part has they could outvote all the parts.                              *)
THEOREM ReadersConsistent ==
    ASSUME PASSES <= MinBlocks
    PROVE  Spec => []ReadersAgree
<1>1. Inv => ReadersAgree
  BY ReadersFollow
<1> QED
  BY <1>1, OpsInvariant, PTL
=============================================================================
