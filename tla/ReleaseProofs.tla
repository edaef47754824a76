--------------------------- MODULE ReleaseProofs ---------------------------
(***************************************************************************)
(* Proofs about Release, for any refs, modules, rounds and runs.           *)
(*                                                                         *)
(* None of the four promises is inductive alone.  That a stranger's answer *)
(* is not reported rests on where our server then is (StrangerIsFound):    *)
(* it is still starting, with the stranger on its port, or it has exited   *)
(* with 1, and stop() reads that off.  That the rounds are even rests on   *)
(* which pairs are ahead at each place of a round (Ahead), and on the pair *)
(* in turn being one of those left.  That the commit is measured rests on  *)
(* the refs being built in order (InBuild), and that the readings are of   *)
(* one minute on the clock not running backwards (OneMinute).              *)
(*                                                                         *)
(* That a change is called one exactly when the ranges are apart is a fact *)
(* about sums of any length.  It is shown by least counterexample, the     *)
(* naturals being well founded.                                            *)
(***************************************************************************)
EXTENDS Release, SequenceTheorems, WellFoundedInduction, TLAPS

(* Places of the script.                                                   *)
Building == {"export", "server", "programs"}
Outside == Building \cup {"idle", "allocs", "round", "pair", "serve", "spawn",
                          "release", "wait", "sign", "check", "clean"}
Serving == {"popen", "poll", "connect", "measure", "term"}
InHttp == Serving \cup {"serve", "spawn", "reap", "release"}
InTimed == {"wait", "sign", "check"}
InRound == InHttp \cup InTimed \cup {"pair"}
Stamps == [ref : Ref, min : Nat, part : 0..2]

(* What each variable holds.                                               *)
TypeOK ==
    /\ keep \in BOOLEAN
    /\ pc \in Outside \cup Serving \cup {"reap", "unwind"}
    /\ run \in Nat
    /\ ref \in Nat
    /\ tree \in [Ref -> {"absent", "whole", "partial"}]
    /\ bins \in [Pairs -> Nat]
    /\ built \subseteq Pairs
    /\ round \in 0..Rounds
    /\ left \subseteq Pairs
    /\ stage \in 1..3
    /\ count \in [Pairs -> Nat]
    /\ idle \in [Ref -> Nat]
    /\ answered \subseteq {"ours", "stranger"}
    /\ srv \in {"none", "starting", "up", "stopping", "exit0", "exit1"}
    /\ port \in {"free", "ours", "stranger"}
    /\ clock \in [min : Nat, part : 0..2]
    /\ began \in Nat
    /\ signed \subseteq Stamps

(* Where our server is while the script is where it is.                    *)
ServerPlaced ==
    /\ port = "ours" <=> srv \in {"up", "stopping"}
    /\ pc \in Outside => srv = "none"
    /\ pc \in Serving => srv \in {"starting", "up", "exit1"}
    /\ pc = "reap" => srv \in {"stopping", "exit0", "exit1"}

(* Whoever else answered is still on the port, or our server is lost.      *)
StrangerIsFound ==
    "stranger" \in answered =>
        /\ pc \in {"term", "reap", "unwind", "clean", "idle"}
        /\ round < Rounds
        /\ pc = "term" => srv = "exit1" \/ (srv = "starting" /\ port = "stranger")
        /\ pc = "reap" => srv = "exit1"

(* What main() and build() have done by then.                              *)
InBuild ==
    /\ pc \in Building => ref \in Ref
    /\ pc \in Building \cup {"allocs"} => /\ round = 0
                                          /\ count = Nothing
                                          /\ idle = [r \in Ref |-> 0]
                                          /\ answered = {}
                                          /\ signed = {}
    /\ pc # "idle" => run > 0 /\ \A p \in built : bins[p] = run
    /\ pc = "export" => \A p \in built : p[1] < ref
    /\ pc = "server" => \A p \in built : p[1] < ref
    /\ pc = "programs" =>
           \A p \in built : p[1] < ref \/ (p[1] = ref /\ p[2] = "http")

(* Without --work no tree but a whole one is built in.                     *)
WholeTrees ==
    ~keep =>
        /\ pc = "idle" => \A r \in Ref : tree[r] = "absent"
        /\ pc = "export" => \A r \in Ref : r >= ref => tree[r] = "absent"
        /\ pc \in {"server", "programs"} =>
               /\ tree[ref] = "whole"
               /\ \A r \in Ref : r > ref => tree[r] = "absent"
        /\ pc # "idle" => \A p \in built : tree[p[1]] = "whole"

(* The pairs, and the refs, that have this round's reading.                *)
Ahead(p) ==
    \/ /\ pc \in InHttp \cup {"pair"}
       /\ p \in Todo
       /\ p \notin left \/ (pc \in InHttp /\ stage = 3 /\ p = Now)
    \/ /\ pc \in InTimed
       /\ p \in Todo \/ p \notin left
IdleAhead(r) ==
    \/ pc \in InHttp \cup {"pair"} /\ <<r, "http">> \notin left
    \/ pc \in InTimed

(* Everything built has a reading of each round, and of this one if it is  *)
(* ahead.                                                                  *)
Counted ==
    /\ \A p \in Pairs \ built : count[p] = 0
    /\ \A p \in built : count[p] \in {round, round + 1}
    /\ round = Rounds =>
           /\ \A p \in built : count[p] = Rounds
           /\ \A r \in Ref : idle[r] = IF <<r, "http">> \in built THEN Rounds
                                                                  ELSE 0
    /\ pc \in InRound \cup {"round"} =>
           /\ \A p \in built : count[p] = IF Ahead(p) THEN round + 1
                                                      ELSE round
           /\ \A r \in Ref : idle[r] =
                  IF <<r, "http">> \notin built THEN 0
                  ELSE IF IdleAhead(r) THEN round + 1 ELSE round
    /\ pc \in InRound => round < Rounds
    /\ pc \in InHttp \cup {"pair"} => left \subseteq Todo
    /\ pc \in InHttp => left # {} /\ Now[2] = "http"
    /\ pc \in InTimed =>
           /\ left # {}
           /\ left \subseteq Timed
           /\ \A p, q \in Timed : p[2] = q[2] => (p \in left <=> q \in left)

(* The clock has not gone back, and no reading is of before the tenth      *)
(* second.                                                                 *)
OneMinute ==
    /\ pc \in {"sign", "check"} =>
           /\ began < clock.min \/ (began = clock.min /\ clock.part > 0)
           /\ \A s \in signed : /\ began <= s.min /\ s.min <= clock.min
                                /\ s.min = began => s.part > 0
    /\ SignedInOneMinute

Inv ==
    /\ TypeOK
    /\ ServerPlaced
    /\ StrangerIsFound
    /\ InBuild
    /\ WholeTrees
    /\ Counted
    /\ OneMinute
-----------------------------------------------------------------------------
(* What is known of the constants.                                         *)
LEMMA Constants ==
    /\ Refs \in Nat \ {0} /\ Rounds \in Nat \ {0} /\ MaxRuns \in Nat
    /\ 1 \in Ref /\ Ref \subseteq Nat
    /\ "http" \in Mod /\ "http" \notin Clocked
    /\ \A m \in Mod : Place(m) \in Nat
    /\ \A m, n \in Mod : Place(m) = Place(n) => m = n
<1>1. Modules \in Seq(STRING) /\ Len(Modules) \in Nat \ {0}
  BY ReleaseAssumption
<1>2. \A m \in Mod : Place(m) \in 1..Len(Modules) /\ Modules[Place(m)] = m
  BY DEF Mod, Place
<1>3. "http" \in Mod
  BY <1>1, ReleaseAssumption DEF Mod
<1>4. "http" \notin Clocked
  BY <1>1, ReleaseAssumption
<1> QED
  BY <1>1, <1>2, <1>3, <1>4, ReleaseAssumption DEF Ref

(* A pair is a ref and a module.                                           *)
LEMMA PairParts ==
    /\ \A p \in Pairs : p[1] \in Ref /\ p[2] \in Mod /\ p = <<p[1], p[2]>>
    /\ \A r \in Ref, m \in Mod : /\ <<r, m>> \in Pairs
                                 /\ <<r, m>>[1] = r /\ <<r, m>>[2] = m
BY DEF Pairs

(* Any property of naturals that has an instance has a least one.          *)
LEMMA LeastNumber ==
    ASSUME NEW S \in SUBSET Nat, S # {}
    PROVE  \E n \in S : \A m \in S : n <= m
<1>1. IsWellFoundedOn(OpToRel(<, Nat), Nat)
  BY NatLessThanWellFounded
<1>2. PICK x \in S : \A y \in S : ~ (<<y, x>> \in OpToRel(<, Nat))
  BY <1>1, WFMin
<1>3. \A y \in S : ~(y < x)
  BY <1>2 DEF OpToRel
<1> QED
  BY <1>3

(* The pair in turn is one of those that are left.                         *)
LEMMA NowIsLeft ==
    ASSUME left \subseteq Pairs, left # {}
    PROVE  Now \in left
<1> DEFINE rs == {p[1] : p \in left}
<1>1. rs \in SUBSET Nat /\ rs # {}
  BY PairParts, Constants
<1>2. PICK r \in rs : \A s \in rs : r <= s
  <2> HIDE DEF rs
  <2> QED BY <1>1, LeastNumber
<1> DEFINE ns == {Place(p[2]) : p \in {q \in left : q[1] = r}}
<1>3. ns \in SUBSET Nat /\ ns # {}
  BY PairParts, Constants, <1>2
<1>4. PICK n \in ns : \A k \in ns : n <= k
  <2> HIDE DEF ns
  <2> QED BY <1>3, LeastNumber
<1>5. PICK p \in left : p[1] = r /\ Place(p[2]) = n
  BY <1>4
<1>6. \A q \in left : InTurn(p, q)
  BY <1>1, <1>2, <1>4, <1>5, PairParts, Constants DEF InTurn
<1> QED
  BY <1>5, <1>6 DEF Now

(* It is the same one as long as the same are left.                        *)
LEMMA NowStands ==
    ASSUME left' = left
    PROVE  Now' = Now
BY DEF Now, InTurn, Place
-----------------------------------------------------------------------------
(* change(): what a sum and the ends of a range are.                       *)
IsSum(g, s, n) == g[0] = 0 /\ \A i \in 1..n : g[i] = g[i - 1] + s[i]

(* There is a sum of the first so many readings.                           *)
LEMMA SumsAreThere ==
    ASSUME NEW n \in Nat, NEW s \in [1..n -> Int]
    PROVE  \E g \in [0..n -> Int] : IsSum(g, s, n)
<1> DEFINE Sums(k) == {g \in [0..k -> Int] : IsSum(g, s, k)}
           Missing == {k \in 0..n : Sums(k) = {}}
<1>1. ASSUME Missing # {} PROVE FALSE
  <2>1. Missing \in SUBSET Nat
    OBVIOUS
  <2>2. PICK k \in Missing : \A j \in Missing : k <= j
    <3> HIDE DEF Missing
    <3> QED BY <1>1, <2>1, LeastNumber
  <2>3. k \in 0..n /\ Sums(k) = {}
    BY <2>2
  <2>4. k # 0
    <3>1. [i \in 0..0 |-> 0] \in Sums(0)
      BY DEF IsSum
    <3> QED
      BY <3>1, <2>3
  <2>5. k - 1 \in 0..n /\ k - 1 \notin Missing
    BY <2>2, <2>3, <2>4
  <2>6. PICK g \in [0..(k - 1) -> Int] : IsSum(g, s, k - 1)
    BY <2>5
  <2> DEFINE h == [i \in 0..k |-> IF i = k THEN g[k - 1] + s[k] ELSE g[i]]
  <2>7. h \in [0..k -> Int]
    BY <2>3, <2>4, <2>6
  <2>8. IsSum(h, s, k)
    BY <2>3, <2>4, <2>6 DEF IsSum
  <2> QED
    BY <2>3, <2>7, <2>8
<1>2. Sums(n) # {}
  BY <1>1
<1> QED
  BY <1>2

(* A column has as many readings as its domain says.                       *)
LEMMA ColumnLength ==
    ASSUME NEW n \in Nat, NEW s \in [1..n -> Int]
    PROVE  Len(s) = n
<1>1. s \in Seq(Int)
  BY SeqDef
<1>2. Len(s) \in Nat /\ DOMAIN s = 1..Len(s)
  BY <1>1, LenProperties
<1> QED
  BY <1>2

(* Total() is that sum.                                                    *)
LEMMA TotalIsSum ==
    ASSUME NEW n \in Nat, NEW s \in [1..n -> Int]
    PROVE  \E g \in [0..n -> Int] : IsSum(g, s, n) /\ Total(s) = g[n]
<1>1. Len(s) = n
  BY ColumnLength
<1> DEFINE Equation(g) ==
               g = [i \in 0..n |-> IF i = 0 THEN 0 ELSE g[i - 1] + s[i]]
           f == CHOOSE g : Equation(g)
<1>2. PICK g \in [0..n -> Int] : IsSum(g, s, n)
  BY SumsAreThere
<1>3. Equation(g)
  BY <1>2 DEF IsSum
<1>4. Equation(f)
  BY <1>3
<1>5. Total(s) = f[n]
  BY <1>1, Zenon DEF Total
<1> HIDE DEF f
<1>6. f[0] = 0 /\ \A i \in 1..n : f[i] = f[i - 1] + s[i]
  BY <1>4
<1>7. \A i \in 0..n : f[i] = g[i]
  <2> DEFINE Off == {i \in 0..n : f[i] # g[i]}
  <2>1. ASSUME Off # {} PROVE FALSE
    <3>1. Off \in SUBSET Nat
      OBVIOUS
    <3>2. PICK k \in Off : \A j \in Off : k <= j
      <4> HIDE DEF Off
      <4> QED BY <2>1, <3>1, LeastNumber
    <3>3. k # 0
      BY <1>2, <1>6, <3>2 DEF IsSum
    <3>4. k - 1 \in 0..n /\ k - 1 \notin Off
      BY <3>2, <3>3
    <3> QED
      BY <1>2, <1>6, <3>2, <3>3, <3>4 DEF IsSum
  <2> QED
    BY <2>1
<1> QED
  BY <1>2, <1>5, <1>7

(* When every reading of one column is under every one of another, so is   *)
(* their sum.                                                              *)
LEMMA TotalGrows ==
    ASSUME NEW n \in Nat \ {0}, NEW s \in [1..n -> Int], NEW t \in [1..n -> Int],
           \A i, j \in 1..n : s[i] < t[j]
    PROVE  Total(s) < Total(t)
<1>1. PICK f \in [0..n -> Int] : IsSum(f, s, n) /\ Total(s) = f[n]
  BY TotalIsSum
<1>2. PICK g \in [0..n -> Int] : IsSum(g, t, n) /\ Total(t) = g[n]
  BY TotalIsSum
<1> DEFINE Off == {i \in 1..n : ~(f[i] < g[i])}
<1>3. ASSUME Off # {} PROVE FALSE
  <2>1. Off \in SUBSET Nat
    OBVIOUS
  <2>2. PICK k \in Off : \A j \in Off : k <= j
    <3> HIDE DEF Off
    <3> QED BY <1>3, <2>1, LeastNumber
  <2>3. k \in 1..n /\ s[k] < t[k] /\ s[k] \in Int /\ t[k] \in Int
    BY <2>2
  <2>4. /\ f[k] = f[k - 1] + s[k] /\ g[k] = g[k - 1] + t[k]
        /\ f[k - 1] \in Int /\ g[k - 1] \in Int
    BY <1>1, <1>2, <2>3 DEF IsSum
  <2>5. f[k - 1] <= g[k - 1]
    <3>1. CASE k = 1
      BY <1>1, <1>2, <3>1 DEF IsSum
    <3>2. CASE k # 1
      <4>1. k - 1 \in 1..n /\ k - 1 \notin Off
        BY <2>2, <2>3, <3>2
      <4> QED
        BY <4>1, <2>4
    <3> QED
      BY <3>1, <3>2
  <2>6. ~(f[k] < g[k])
    BY <2>2
  <2>7. \A a, b, c, d \in Int : a <= b /\ c < d => a + c < b + d
    OBVIOUS
  <2>8. f[k - 1] + s[k] < g[k - 1] + t[k]
    BY <2>3, <2>4, <2>5, <2>7
  <2> QED
    BY <2>4, <2>6, <2>8
<1>4. f[n] < g[n]
  <2>1. n \in 1..n
    OBVIOUS
  <2>2. n \notin Off
    BY <1>3
  <2> QED
    BY <2>1, <2>2
<1> QED
  BY <1>1, <1>2, <1>4

(* A column has a reading that is under none of the others.                *)
LEMMA LeastReading ==
    ASSUME NEW n \in Nat \ {0}, NEW s \in [1..n -> Int]
    PROVE  \E i \in 1..n : \A j \in 1..n : s[i] <= s[j]
<1> DEFINE Least(k) == \E i \in 1..k : \A j \in 1..k : s[i] <= s[j]
           Off == {k \in 1..n : ~Least(k)}
<1>1. ASSUME Off # {} PROVE FALSE
  <2>1. Off \in SUBSET Nat
    OBVIOUS
  <2>2. PICK k \in Off : \A j \in Off : k <= j
    <3> HIDE DEF Off
    <3> QED BY <1>1, <2>1, LeastNumber
  <2>3. k \in 1..n /\ ~Least(k)
    BY <2>2
  <2>4. k # 1
    <3>1. ASSUME k = 1 PROVE Least(k)
      <4>1. 1 \in 1..k /\ s[1] \in Int /\ \A j \in 1..k : j = 1
        BY <3>1
      <4>2. \A j \in 1..k : s[1] <= s[j]
        <5>1. s[1] <= s[1]
          BY <4>1
        <5> QED
          BY <4>1, <5>1
      <4> QED
        BY <4>1, <4>2
    <3> QED
      BY <2>3, <3>1
  <2>5. k - 1 \in 1..n /\ Least(k - 1)
    <3> HIDE DEF Least
    <3>1. k - 1 \in 1..n /\ ~(k <= k - 1)
      BY <2>3, <2>4
    <3> QED
      BY <2>2, <3>1
  <2>6. PICK i \in 1..(k - 1) : \A j \in 1..(k - 1) : s[i] <= s[j]
    BY <2>5
  <2>7. /\ i \in 1..k /\ k \in 1..k /\ s[i] \in Int /\ s[k] \in Int
        /\ \A j \in 1..k : s[j] \in Int /\ (j = k \/ j \in 1..(k - 1))
    BY <2>3, <2>5, <2>6
  <2>8. CASE s[i] <= s[k]
    <3>1. \A j \in 1..k : s[i] <= s[j]
      BY <2>6, <2>7, <2>8
    <3> QED
      BY <2>3, <2>7, <3>1
  <2>9. CASE ~(s[i] <= s[k])
    <3>1. \A j \in 1..k : s[k] <= s[j]
      BY <2>6, <2>7, <2>9
    <3> QED
      BY <2>3, <2>7, <3>1
  <2> QED
    BY <2>8, <2>9
<1>2. Least(n)
  <2> HIDE DEF Least
  <2>1. n \in 1..n
    OBVIOUS
  <2> QED
    BY <1>1, <2>1
<1> QED
  BY <1>2

(* The ends of a column's range are readings of it.                        *)
LEMMA RangeEnds ==
    ASSUME NEW n \in Nat \ {0}, NEW s \in [1..n -> Int]
    PROVE  /\ \E i \in 1..n : Lowest(s) = s[i]
           /\ \A i \in 1..n : Lowest(s) <= s[i]
           /\ \E i \in 1..n : Highest(s) = s[i]
           /\ \A i \in 1..n : Highest(s) >= s[i]
<1> DEFINE S == {s[i] : i \in DOMAIN s}
           t == [i \in 1..n |-> -s[i]]
<1>1. DOMAIN s = 1..n
  OBVIOUS
<1>2. PICK i \in 1..n : \A j \in 1..n : s[i] <= s[j]
  BY LeastReading
<1>3. t \in [1..n -> Int] /\ \A j \in 1..n : t[j] = -s[j] /\ s[j] \in Int
  OBVIOUS
<1>4. PICK k \in 1..n : \A j \in 1..n : t[k] <= t[j]
  <2> HIDE DEF t
  <2> QED BY <1>3, LeastReading
<1>5. \A j \in 1..n : s[k] >= s[j]
  BY <1>3, <1>4
<1>6. Lowest(s) \in S /\ \A j \in DOMAIN s : Lowest(s) <= s[j]
  BY <1>1, <1>2 DEF Lowest
<1>7. Highest(s) \in S /\ \A j \in DOMAIN s : Highest(s) >= s[j]
  BY <1>1, <1>5 DEF Highest
<1> QED
  BY <1>1, <1>6, <1>7

(* Two ranges of numbers, by their ends.                                   *)
LEMMA Apart ==
    ASSUME NEW n \in Nat, NEW s, NEW t, NEW high \in Int, NEW low \in Int,
           \A i \in 1..n : s[i] \in Int /\ t[i] \in Int,
           \E i \in 1..n : high = s[i], \A i \in 1..n : high >= s[i],
           \E i \in 1..n : low = t[i], \A i \in 1..n : low <= t[i]
    PROVE  high < low <=> \A i, j \in 1..n : s[i] < t[j]
<1>1. ASSUME high < low, NEW i \in 1..n, NEW j \in 1..n PROVE s[i] < t[j]
  <2>1. s[i] \in Int /\ t[j] \in Int /\ high >= s[i] /\ low <= t[j]
    OBVIOUS
  <2> QED
    BY <1>1, <2>1
<1>2. ASSUME \A i, j \in 1..n : s[i] < t[j] PROVE high < low
  BY <1>2
<1> QED
  BY <1>1, <1>2

(* Columns of one length have one mean when they have one sum.             *)
LEMMA SameTimes ==
    ASSUME NEW x \in Int, NEW y \in Int, NEW n \in Nat \ {0}
    PROVE  x * n = y * n <=> x = y
OBVIOUS

(* A change is called one exactly when the ranges are apart.               *)
LEMMA ChangedIsApart ==
    ASSUME NEW n \in Nat \ {0},
           NEW old \in [1..n -> Int], NEW new \in [1..n -> Int]
    PROVE  Change(old, new) = "changed" <=>
               \/ \A i, j \in 1..n : old[i] < new[j]
               \/ \A i, j \in 1..n : old[i] > new[j]
<1>1. old \in [1..n -> Int] /\ new \in [1..n -> Int]
  OBVIOUS
<1>2. Len(old) = n /\ Len(new) = n
  BY <1>1, ColumnLength
<1>3. Total(old) \in Int /\ Total(new) \in Int
  BY <1>1, TotalIsSum
<1>4. /\ (\A i, j \in 1..n : old[i] < new[j]) => Total(old) < Total(new)
      /\ (\A i, j \in 1..n : old[i] > new[j]) => Total(new) < Total(old)
  BY <1>1, TotalGrows
<1> DEFINE overlap == Lowest(new) <= Highest(old) /\ Lowest(old) <= Highest(new)
<1>5. ~overlap <=> \/ \A i, j \in 1..n : old[i] < new[j]
                   \/ \A i, j \in 1..n : old[i] > new[j]
  <2>1. /\ \E i \in 1..n : Lowest(old) = old[i]
        /\ \A i \in 1..n : Lowest(old) <= old[i]
        /\ \E i \in 1..n : Highest(old) = old[i]
        /\ \A i \in 1..n : Highest(old) >= old[i]
    BY RangeEnds
  <2>2. /\ \E i \in 1..n : Lowest(new) = new[i]
        /\ \A i \in 1..n : Lowest(new) <= new[i]
        /\ \E i \in 1..n : Highest(new) = new[i]
        /\ \A i \in 1..n : Highest(new) >= new[i]
    BY RangeEnds
  <2>3. \A i \in 1..n : old[i] \in Int /\ new[i] \in Int
    OBVIOUS
  <2>4. Lowest(old) \in Int /\ Lowest(new) \in Int /\ Highest(old) \in Int /\ Highest(new) \in Int
    BY <2>1, <2>2, <2>3
  <2>5. Highest(old) < Lowest(new) <=> \A i, j \in 1..n : old[i] < new[j]
    BY <2>1, <2>2, <2>3, <2>4, Apart
  <2>6. Highest(new) < Lowest(old) <=> \A i, j \in 1..n : new[i] < old[j]
    BY <2>1, <2>2, <2>3, <2>4, Apart
  <2>7. \A i, j \in 1..n : new[i] < old[j] <=> old[j] > new[i]
    BY <2>3
  <2>8. overlap <=> ~(Highest(old) < Lowest(new)) /\ ~(Highest(new) < Lowest(old))
    BY <2>4
  <2> QED
    BY <2>5, <2>6, <2>7, <2>8
<1>6. Change(old, new) = "changed" <=> Total(old) * n # Total(new) * n /\ ~overlap
  BY <1>2 DEF Change
<1> HIDE DEF overlap
<1>7. Total(old) * n = Total(new) * n <=> Total(old) = Total(new)
  BY <1>3, SameTimes
<1>8. Total(old) < Total(new) \/ Total(new) < Total(old) =>
          Total(old) # Total(new)
  BY <1>3
<1> QED
  BY <1>4, <1>5, <1>6, <1>7, <1>8
-----------------------------------------------------------------------------
(* A script that has not been run keeps the invariant.                     *)
LEMMA InitInv == Init => Inv
<1> SUFFICES ASSUME Init PROVE Inv
  OBVIOUS
<1>1. TypeOK
  BY Constants DEF Init, TypeOK, Nothing, Outside
<1>2. ServerPlaced /\ StrangerIsFound
  BY DEF Init, ServerPlaced, StrangerIsFound, Outside, Serving
<1>3. InBuild /\ WholeTrees
  BY DEF Init, InBuild, WholeTrees, Building
<1>4. Counted
  BY Constants DEF Init, Counted, Nothing, InRound, InHttp, InTimed, Serving
<1>5. OneMinute
  BY DEF Init, OneMinute, SignedInOneMinute
<1> QED
  BY <1>1, <1>2, <1>3, <1>4, <1>5 DEF Inv

(* Each step keeps the types.                                              *)
LEMMA TypeStep == Inv /\ Next => TypeOK'
<1> SUFFICES ASSUME Inv, Next PROVE TypeOK'
  OBVIOUS
<1> USE DEF Go, Outside, Building, Serving, buildVars, roundVars, serverVars,
            clockVars
<1>0. TypeOK
  BY DEF Inv
<1>z. Nothing \in [Pairs -> Nat] /\ [r \in Ref |-> 0] \in [Ref -> Nat]
      /\ [r \in Ref |-> "absent"] \in [Ref -> {"absent", "whole", "partial"}]
  BY DEF Nothing
<1>n. ASSUME left # {} PROVE Now \in left /\ Now \in Pairs /\ Now[1] \in Ref
  BY <1>0, <1>n, NowIsLeft, PairParts DEF TypeOK
<1>r. \A ms : Removed(ref, ms) \in [Pairs -> Nat]
  BY <1>0 DEF TypeOK, Removed
<1>1. CASE Begin
  BY <1>0, <1>1, <1>z, Constants DEF TypeOK, Begin
<1>2. CASE Unwind
  BY <1>0, <1>2 DEF TypeOK, Unwind
<1>3. CASE HasTree
  BY <1>0, <1>3 DEF TypeOK, HasTree
<1>4. CASE Export
  BY <1>0, <1>4 DEF TypeOK, Export
<1>5. CASE BuildServer
  <2>1. ref \in Ref /\ <<ref, "http">> \in Pairs
    BY <1>5, PairParts, Constants DEF Inv, InBuild, BuildServer
  <2>2. Removed(ref, {"http"}) \in [Pairs -> Nat]
    BY <1>r
  <2>3. bins' \in [Pairs -> Nat] /\ built' \subseteq Pairs
    BY <1>0, <2>1, <2>2, <1>5 DEF TypeOK, BuildServer, ServerRemoved
  <2> QED
    BY <1>0, <2>3, <1>5 DEF TypeOK, BuildServer
<1>6. CASE BuildPrograms
  <2>1. Removed(ref, Mod \ {"http"}) \in [Pairs -> Nat]
    BY <1>r
  <2> DEFINE old == Removed(ref, Mod \ {"http"})
  <2>2. PICK ok \in SUBSET (Mod \ {"http"}), late \in SUBSET (Mod \ {"http"}) :
            LET first == Landed(old, ok)
                paths == {p \in Pairs : p[1] = ref /\ p[2] # "http" /\ first[p] # 0}
            IN  /\ late \cap {p[2] : p \in paths} = {}
                /\ bins' = Landed(first, late)
                /\ built' = built \cup paths
    BY <1>6 DEF BuildPrograms, ProgramsRemoved
  <2> HIDE DEF old
  <2>3. run \in Nat /\ built \subseteq Pairs /\ old \in [Pairs -> Nat]
    BY <1>0, <2>1 DEF TypeOK, old
  <2>4. bins' \in [Pairs -> Nat]
    BY <2>2, <2>3 DEF Landed
  <2>5. built' \subseteq Pairs
    BY <2>2, <2>3
  <2>6. /\ UNCHANGED <<keep, run, tree, roundVars, serverVars, clockVars>>
        /\ ref' \in {ref, ref + 1}
        /\ pc' \in {"export", "allocs"}
    BY <1>6 DEF BuildPrograms, NextRef
  <2> QED
    BY <1>0, <2>4, <2>5, <2>6 DEF TypeOK
<1>7. CASE Allocations
  BY <1>0, <1>7 DEF TypeOK, Allocations
<1>8. CASE Round
  BY <1>0, <1>8 DEF TypeOK, Round, Todo
<1>9. CASE MeasureProgram
  BY <1>0, <1>9, <1>n DEF TypeOK, MeasureProgram
<1>10. CASE MeasureHttp
  BY <1>0, <1>10 DEF TypeOK, MeasureHttp
<1>11. CASE PortIsFree
  BY <1>0, <1>11 DEF TypeOK, PortIsFree
<1>12. CASE Spawn
  BY <1>0, <1>12 DEF TypeOK, Spawn
<1>13. CASE Poll
  BY <1>0, <1>13 DEF TypeOK, Poll
<1>14. CASE Connect
  BY <1>0, <1>14 DEF TypeOK, Connect
<1>15. CASE ServerInstructions
  BY <1>0, <1>15 DEF TypeOK, ServerInstructions, Answered, Served
<1>16. CASE IdleBytes
  BY <1>0, <1>16 DEF TypeOK, IdleBytes, Answered, OpenOne
<1>17. CASE Terminate
  BY <1>0, <1>17 DEF TypeOK, Terminate
<1>18. CASE Reap
  BY <1>0, <1>18 DEF TypeOK, Reap
<1>19. CASE Release
  <2>1. left # {}
    BY <1>19 DEF Inv, Counted, Release, InHttp
  <2> QED
    BY <1>0, <2>1, <1>19, <1>n DEF TypeOK, Release
<1>20. CASE ClockedRound
  <2>1. round < Rounds
    BY <1>20 DEF Inv, Counted, ClockedRound, InRound
  <2> QED
    BY <1>0, <2>1, <1>20, Constants DEF TypeOK, ClockedRound, Timed
<1>21. CASE Tick
  BY <1>0, <1>21 DEF TypeOK, Tick
<1>22. CASE Wait
  BY <1>0, <1>22 DEF TypeOK, Wait
<1>23. CASE Sign
  <2>1. TimedOf(ClockedNow) \subseteq Pairs
    BY <1>0 DEF TypeOK, TimedOf, Timed
  <2>2. signed' \subseteq Stamps
    BY <1>0, <2>1, <1>23, PairParts DEF TypeOK, Sign, Stamps
  <2> QED
    BY <1>0, <2>2, <1>23 DEF TypeOK, Sign
<1>24. CASE Check
  <2>1. round < Rounds
    BY <1>24 DEF Inv, Counted, Check, InRound, InTimed
  <2>2. count' \in [Pairs -> Nat] /\ left' \subseteq Pairs
    BY <1>0, <1>24 DEF TypeOK, Check
  <2> QED
    BY <1>0, <2>1, <2>2, <1>24, Constants DEF TypeOK, Check
<1>25. CASE KillServer
  BY <1>0, <1>25 DEF TypeOK, KillServer
<1>26. CASE Clean
  BY <1>0, <1>26, <1>z DEF TypeOK, Clean
<1>27. CASE ServerBinds
  BY <1>0, <1>27 DEF TypeOK, ServerBinds
<1>28. CASE ServerEnds
  BY <1>0, <1>28 DEF TypeOK, ServerEnds
<1>29. CASE Stranger
  BY <1>0, <1>29 DEF TypeOK, Stranger
<1>30. CASE EnterTry \/ Abandon
  BY <1>0, <1>30 DEF TypeOK, EnterTry, Abandon
<1> QED
  BY <1>1, <1>2, <1>3, <1>4, <1>5, <1>6, <1>7, <1>8, <1>9, <1>10, <1>11,
     <1>12, <1>13, <1>14, <1>15, <1>16, <1>17, <1>18, <1>19, <1>20, <1>21,
     <1>22, <1>23, <1>24, <1>25, <1>26, <1>27, <1>28, <1>29, <1>30
     DEF Next
(* Our server is where the script believes it, or has told on whoever      *)
(* answered in its place.                                                  *)
LEMMA ServerStep == Inv /\ Next => ServerPlaced' /\ StrangerIsFound'
<1> SUFFICES ASSUME Inv, Next PROVE ServerPlaced' /\ StrangerIsFound'
  OBVIOUS
<1> USE DEF Go, Outside, Building, Serving, buildVars, roundVars, serverVars,
            clockVars
<1>0. /\ ServerPlaced /\ StrangerIsFound
      /\ pc \in {"pair", "measure", "term", "reap", "wait", "sign", "check"} =>
             round < Rounds
      /\ pc \in Building \cup {"allocs"} => answered = {}
      /\ srv \in {"none", "starting", "up", "stopping", "exit0", "exit1"}
      /\ port \in {"free", "ours", "stranger"}
      /\ round \in Nat /\ Rounds \in Nat
  BY Constants DEF Inv, TypeOK, Counted, InBuild, InRound, InHttp, InTimed
<1>1. CASE Begin
  BY <1>0, <1>1 DEF ServerPlaced, StrangerIsFound, Begin
<1>2. CASE Unwind
  BY <1>0, <1>2 DEF ServerPlaced, StrangerIsFound, Unwind
<1>3. CASE HasTree
  BY <1>0, <1>3 DEF ServerPlaced, StrangerIsFound, HasTree
<1>4. CASE Export
  BY <1>0, <1>4 DEF ServerPlaced, StrangerIsFound, Export
<1>5. CASE BuildServer
  BY <1>0, <1>5 DEF ServerPlaced, StrangerIsFound, BuildServer
<1>6. CASE BuildPrograms
  BY <1>0, <1>6 DEF ServerPlaced, StrangerIsFound, BuildPrograms, NextRef
<1>7. CASE Allocations
  BY <1>0, <1>7 DEF ServerPlaced, StrangerIsFound, Allocations
<1>8. CASE Round
  BY <1>0, <1>8 DEF ServerPlaced, StrangerIsFound, Round
<1>9. CASE MeasureProgram
  BY <1>0, <1>9 DEF ServerPlaced, StrangerIsFound, MeasureProgram
<1>10. CASE MeasureHttp
  BY <1>0, <1>10 DEF ServerPlaced, StrangerIsFound, MeasureHttp
<1>11. CASE PortIsFree
  BY <1>0, <1>11 DEF ServerPlaced, StrangerIsFound, PortIsFree
<1>12. CASE Spawn
  BY <1>0, <1>12 DEF ServerPlaced, StrangerIsFound, Spawn
<1>13. CASE Poll
  BY <1>0, <1>13 DEF ServerPlaced, StrangerIsFound, Poll, Exited
<1>14. CASE Connect
  BY <1>0, <1>14 DEF ServerPlaced, StrangerIsFound, Connect
<1>15. CASE ServerInstructions
  BY <1>0, <1>15 DEF ServerPlaced, StrangerIsFound, ServerInstructions, Answered, Served
<1>16. CASE IdleBytes
  BY <1>0, <1>16 DEF ServerPlaced, StrangerIsFound, IdleBytes, Answered, OpenOne
<1>17. CASE Terminate
  BY <1>0, <1>17 DEF ServerPlaced, StrangerIsFound, Terminate
<1>18. CASE Reap
  BY <1>0, <1>18 DEF ServerPlaced, StrangerIsFound, Reap, Exited
<1>19. CASE Release
  BY <1>0, <1>19 DEF ServerPlaced, StrangerIsFound, Release
<1>20. CASE ClockedRound
  BY <1>0, <1>20 DEF ServerPlaced, StrangerIsFound, ClockedRound
<1>21. CASE Tick
  BY <1>0, <1>21 DEF ServerPlaced, StrangerIsFound, Tick
<1>22. CASE Wait
  BY <1>0, <1>22 DEF ServerPlaced, StrangerIsFound, Wait
<1>23. CASE Sign
  BY <1>0, <1>23 DEF ServerPlaced, StrangerIsFound, Sign
<1>24. CASE Check
  BY <1>0, <1>24 DEF ServerPlaced, StrangerIsFound, Check
<1>25. CASE KillServer
  BY <1>0, <1>25 DEF ServerPlaced, StrangerIsFound, KillServer
<1>26. CASE Clean
  BY <1>0, <1>26 DEF ServerPlaced, StrangerIsFound, Clean
<1>27. CASE ServerBinds
  BY <1>0, <1>27 DEF ServerPlaced, StrangerIsFound, ServerBinds
<1>28. CASE ServerEnds
  BY <1>0, <1>28 DEF ServerPlaced, StrangerIsFound, ServerEnds
<1>29. CASE Stranger
  BY <1>0, <1>29 DEF ServerPlaced, StrangerIsFound, Stranger
<1>30. CASE EnterTry \/ Abandon
  BY <1>0, <1>30 DEF ServerPlaced, StrangerIsFound, EnterTry, Abandon
<1> QED
  BY <1>1, <1>2, <1>3, <1>4, <1>5, <1>6, <1>7, <1>8, <1>9, <1>10, <1>11,
     <1>12, <1>13, <1>14, <1>15, <1>16, <1>17, <1>18, <1>19, <1>20, <1>21,
     <1>22, <1>23, <1>24, <1>25, <1>26, <1>27, <1>28, <1>29, <1>30
     DEF Next
(* What has a path was built by this run, in a tree of the whole commit.   *)
LEMMA BuildStep == Inv /\ Next => InBuild' /\ WholeTrees'
<1> SUFFICES ASSUME Inv, Next PROVE InBuild' /\ WholeTrees'
  OBVIOUS
<1> USE DEF Go, Building, buildVars, roundVars, serverVars, clockVars
<1>t. TypeOK'
  BY TypeStep
<1>0. /\ InBuild /\ WholeTrees
      /\ run \in Nat /\ ref \in Nat /\ built \subseteq Pairs
      /\ bins \in [Pairs -> Nat]
      /\ tree \in [Ref -> {"absent", "whole", "partial"}]
  BY DEF Inv, TypeOK
<1>1. CASE Begin
  <2>1. InBuild'
    BY <1>1, <1>0, Constants DEF Begin, InBuild, Nothing
  <2> QED
    BY <1>1, <1>0, <2>1 DEF Begin, WholeTrees
<1>2. CASE Unwind
  BY <1>0, <1>2 DEF InBuild, WholeTrees, Unwind
<1>3. CASE HasTree
  BY <1>0, <1>3 DEF InBuild, WholeTrees, HasTree
<1>4. CASE Export
  <2>1. ref \in Ref
    BY <1>4, <1>0 DEF Export, InBuild
  <2>2. /\ \A r \in Ref : r # ref => tree'[r] = tree[r]
        /\ pc' = "server" => tree'[ref] = "whole"
        /\ \A p \in built : p[1] \in Ref /\ p[1] # ref
    BY <1>4, <1>0, <2>1, PairParts, Constants DEF Export, InBuild
  <2>3. InBuild'
    BY <1>4, <1>0, <2>1 DEF Export, InBuild
  <2>4. /\ pc = "export" /\ pc' \in {"server", "unwind"}
        /\ keep' = keep /\ ref' = ref /\ built' = built
    BY <1>4 DEF Export
  <2>5. ASSUME ~keep
        PROVE  /\ \A r \in Ref : r > ref => tree'[r] = "absent"
               /\ \A p \in built : tree'[p[1]] = "whole"
    <3>1. /\ \A r \in Ref : r >= ref => tree[r] = "absent"
          /\ \A p \in built : tree[p[1]] = "whole"
      BY <1>0, <2>4, <2>5 DEF WholeTrees
    <3>2. \A r \in Ref : r > ref => r >= ref /\ r # ref
      BY <2>1, Constants
    <3> QED
      BY <3>1, <3>2, <2>2
  <2> QED
    BY <2>2, <2>3, <2>4, <2>5 DEF WholeTrees
<1>5. CASE BuildServer
  <2> DEFINE old == Removed(ref, {"http"})
  <2>1. ref \in Ref /\ <<ref, "http">> \in Pairs
    BY <1>5, <1>0, PairParts, Constants DEF BuildServer, InBuild
  <2>2. /\ old \in [Pairs -> Nat] /\ old[<<ref, "http">>] = 0
        /\ \A p \in Pairs : p[1] # ref => old[p] = bins[p]
    BY <1>0, <2>1, PairParts DEF Removed
  <2>3. \/ /\ bins' = [old EXCEPT ![<<ref, "http">>] = run]
           /\ built' = built \cup {<<ref, "http">>}
        \/ bins' = old /\ built' = built
    BY <1>5, <2>2 DEF BuildServer, ServerRemoved
  <2> HIDE DEF old
  <2>4. \A p \in built : p[1] < ref
    BY <1>5, <1>0 DEF BuildServer, InBuild
  <2>5. \A p \in built : bins'[p] = bins[p]
    BY <1>0, <2>1, <2>2, <2>3, <2>4, PairParts, Constants
  <2>6. \A p \in built' : p \in built \/ (p = <<ref, "http">> /\ bins'[p] = run)
    BY <2>1, <2>2, <2>3
  <2>7. /\ UNCHANGED <<keep, run, ref, tree, roundVars, serverVars, clockVars>>
        /\ pc = "server" /\ pc' = "programs"
    BY <1>5 DEF BuildServer
  <2>8. /\ \A p \in built : bins[p] = run /\ (~keep => tree[p[1]] = "whole")
        /\ ~keep => /\ tree[ref] = "whole"
                    /\ \A r \in Ref : r > ref => tree[r] = "absent"
        /\ run > 0
    BY <1>0, <2>7 DEF InBuild, WholeTrees
  <2>9. \A p \in built' : /\ bins'[p] = run
                          /\ p[1] < ref \/ (p[1] = ref /\ p[2] = "http")
                          /\ ~keep => tree[p[1]] = "whole"
    BY <2>1, <2>4, <2>5, <2>6, <2>8, PairParts
  <2>10. InBuild'
    BY <1>0, <2>1, <2>7, <2>8, <2>9 DEF InBuild
  <2> QED
    BY <2>7, <2>8, <2>9, <2>10 DEF WholeTrees
<1>6. CASE BuildPrograms
  <2> DEFINE old == Removed(ref, Mod \ {"http"})
  <2>1. ref \in Ref
    BY <1>6, <1>0 DEF BuildPrograms, InBuild
  <2>2. /\ old \in [Pairs -> Nat]
        /\ \A p \in Pairs : p[1] = ref /\ p[2] # "http" => old[p] = 0
        /\ \A p \in Pairs : p[1] # ref \/ p[2] = "http" => old[p] = bins[p]
    BY <1>0, PairParts DEF Removed
  <2>3. PICK ok \in SUBSET (Mod \ {"http"}), late \in SUBSET (Mod \ {"http"}) :
            LET first == Landed(old, ok)
                paths == {p \in Pairs : p[1] = ref /\ p[2] # "http" /\ first[p] # 0}
            IN  /\ late \cap {p[2] : p \in paths} = {}
                /\ bins' = Landed(first, late)
                /\ built' = built \cup paths
    BY <1>6 DEF BuildPrograms, ProgramsRemoved
  <2> HIDE DEF old
  <2>4. \A p \in built : p[1] < ref \/ (p[1] = ref /\ p[2] = "http")
    BY <1>6, <1>0 DEF BuildPrograms, InBuild
  <2>5. ASSUME NEW p \in built PROVE p \in Pairs /\ bins'[p] = bins[p]
    <3>1. p \in Pairs /\ old[p] = bins[p] /\ (p[1] # ref \/ p[2] = "http")
      BY <1>0, <2>1, <2>2, <2>4, PairParts, Constants
    <3> QED
      BY <2>3, <3>1 DEF Landed
  <2>6. ASSUME NEW p \in built' PROVE p \in built \/ (p[1] = ref /\ bins'[p] = run)
    <3>1. CASE p \notin built
      <4>1. p \in Pairs /\ p[1] = ref /\ p[2] # "http" /\ Landed(old, ok)[p] # 0
        BY <2>3, <3>1
      <4>2. Landed(old, ok)[p] = run
        BY <2>2, <4>1 DEF Landed
      <4> QED
        BY <2>3, <4>1, <4>2 DEF Landed
    <3> QED
      BY <3>1
  <2>7. /\ UNCHANGED <<keep, run, tree, roundVars, serverVars, clockVars>>
        /\ pc = "programs"
        /\ \/ ref < Refs /\ pc' = "export" /\ ref' = ref + 1
           \/ pc' = "allocs" /\ ref' = ref
    BY <1>6 DEF BuildPrograms, NextRef
  <2>8. /\ \A p \in built : bins[p] = run /\ (~keep => tree[p[1]] = "whole")
        /\ ~keep => /\ tree[ref] = "whole"
                    /\ \A r \in Ref : r > ref => tree[r] = "absent"
        /\ run > 0
    BY <1>0, <2>7 DEF InBuild, WholeTrees
  <2>9. \A p \in built' : /\ bins'[p] = run
                          /\ p[1] < ref \/ p[1] = ref
                          /\ ~keep => tree[p[1]] = "whole"
    BY <2>4, <2>5, <2>6, <2>8
  <2>10. /\ pc' = "export" => /\ \A p \in built' : p[1] < ref'
                              /\ ref' \in Ref
                              /\ \A r \in Ref : r >= ref' => r > ref
    <3>1. \A p \in built' : p[1] \in Int
      BY <1>t, PairParts, Constants DEF TypeOK
    <3> QED
      BY <3>1, <2>1, <2>7, <2>9, Constants DEF Ref
  <2>11. InBuild'
    BY <1>0, <2>7, <2>8, <2>9, <2>10 DEF InBuild
  <2> QED
    BY <2>7, <2>8, <2>9, <2>10, <2>11 DEF WholeTrees
<1>7. CASE Allocations
  BY <1>0, <1>7 DEF InBuild, WholeTrees, Allocations
<1>8. CASE Round
  BY <1>0, <1>8 DEF InBuild, WholeTrees, Round
<1>9. CASE MeasureProgram
  BY <1>0, <1>9 DEF InBuild, WholeTrees, MeasureProgram
<1>10. CASE MeasureHttp
  BY <1>0, <1>10 DEF InBuild, WholeTrees, MeasureHttp
<1>11. CASE PortIsFree
  BY <1>0, <1>11 DEF InBuild, WholeTrees, PortIsFree
<1>12. CASE Spawn
  BY <1>0, <1>12 DEF InBuild, WholeTrees, Spawn
<1>13. CASE Poll
  BY <1>0, <1>13 DEF InBuild, WholeTrees, Poll, Exited
<1>14. CASE Connect
  BY <1>0, <1>14 DEF InBuild, WholeTrees, Connect
<1>15. CASE ServerInstructions
  BY <1>0, <1>15 DEF InBuild, WholeTrees, ServerInstructions, Answered, Served
<1>16. CASE IdleBytes
  BY <1>0, <1>16 DEF InBuild, WholeTrees, IdleBytes, Answered, OpenOne
<1>17. CASE Terminate
  BY <1>0, <1>17 DEF InBuild, WholeTrees, Terminate
<1>18. CASE Reap
  BY <1>0, <1>18 DEF InBuild, WholeTrees, Reap, Exited
<1>19. CASE Release
  BY <1>0, <1>19 DEF InBuild, WholeTrees, Release
<1>20. CASE ClockedRound
  BY <1>0, <1>20 DEF InBuild, WholeTrees, ClockedRound
<1>21. CASE Tick
  BY <1>0, <1>21 DEF InBuild, WholeTrees, Tick
<1>22. CASE Wait
  BY <1>0, <1>22 DEF InBuild, WholeTrees, Wait
<1>23. CASE Sign
  BY <1>0, <1>23 DEF InBuild, WholeTrees, Sign
<1>24. CASE Check
  BY <1>0, <1>24 DEF InBuild, WholeTrees, Check
<1>25. CASE KillServer
  BY <1>0, <1>25 DEF InBuild, WholeTrees, KillServer
<1>26. CASE Clean
  BY <1>0, <1>26 DEF InBuild, WholeTrees, Clean
<1>27. CASE ServerBinds
  BY <1>0, <1>27 DEF InBuild, WholeTrees, ServerBinds
<1>28. CASE ServerEnds
  BY <1>0, <1>28 DEF InBuild, WholeTrees, ServerEnds
<1>29. CASE Stranger
  BY <1>0, <1>29 DEF InBuild, WholeTrees, Stranger
<1>30. CASE EnterTry \/ Abandon
  BY <1>0, <1>30 DEF InBuild, WholeTrees, EnterTry, Abandon
<1> QED
  BY <1>1, <1>2, <1>3, <1>4, <1>5, <1>6, <1>7, <1>8, <1>9, <1>10, <1>11,
     <1>12, <1>13, <1>14, <1>15, <1>16, <1>17, <1>18, <1>19, <1>20, <1>21,
     <1>22, <1>23, <1>24, <1>25, <1>26, <1>27, <1>28, <1>29, <1>30
     DEF Next
(* A measurement that the clock ran away from is not taken.                *)
LEMMA MinuteStep == Inv /\ Next => OneMinute'
<1> SUFFICES ASSUME Inv, Next PROVE OneMinute'
  OBVIOUS
<1> USE DEF Go, buildVars, roundVars, serverVars, clockVars
<1>0. /\ OneMinute /\ InBuild
      /\ clock \in [min : Nat, part : 0..2] /\ began \in Nat
      /\ signed \subseteq Stamps
  BY DEF Inv, TypeOK
<1>1. CASE Begin
  BY <1>0, <1>1 DEF OneMinute, SignedInOneMinute, Begin
<1>2. CASE Unwind
  BY <1>0, <1>2 DEF OneMinute, SignedInOneMinute, Unwind
<1>3. CASE HasTree
  BY <1>0, <1>3 DEF OneMinute, SignedInOneMinute, HasTree
<1>4. CASE Export
  BY <1>0, <1>4 DEF OneMinute, SignedInOneMinute, Export
<1>5. CASE BuildServer
  BY <1>0, <1>5 DEF OneMinute, SignedInOneMinute, BuildServer
<1>6. CASE BuildPrograms
  BY <1>0, <1>6 DEF OneMinute, SignedInOneMinute, BuildPrograms, NextRef
<1>7. CASE Allocations
  BY <1>0, <1>7 DEF OneMinute, SignedInOneMinute, Allocations, InBuild
<1>8. CASE Round
  BY <1>0, <1>8 DEF OneMinute, SignedInOneMinute, Round
<1>9. CASE MeasureProgram
  BY <1>0, <1>9 DEF OneMinute, SignedInOneMinute, MeasureProgram
<1>10. CASE MeasureHttp
  BY <1>0, <1>10 DEF OneMinute, SignedInOneMinute, MeasureHttp
<1>11. CASE PortIsFree
  BY <1>0, <1>11 DEF OneMinute, SignedInOneMinute, PortIsFree
<1>12. CASE Spawn
  BY <1>0, <1>12 DEF OneMinute, SignedInOneMinute, Spawn
<1>13. CASE Poll
  BY <1>0, <1>13 DEF OneMinute, SignedInOneMinute, Poll, Exited
<1>14. CASE Connect
  BY <1>0, <1>14 DEF OneMinute, SignedInOneMinute, Connect
<1>15. CASE ServerInstructions
  BY <1>0, <1>15 DEF OneMinute, SignedInOneMinute, ServerInstructions, Answered, Served
<1>16. CASE IdleBytes
  BY <1>0, <1>16 DEF OneMinute, SignedInOneMinute, IdleBytes, Answered, OpenOne
<1>17. CASE Terminate
  BY <1>0, <1>17 DEF OneMinute, SignedInOneMinute, Terminate
<1>18. CASE Reap
  BY <1>0, <1>18 DEF OneMinute, SignedInOneMinute, Reap, Exited
<1>19. CASE Release
  BY <1>0, <1>19 DEF OneMinute, SignedInOneMinute, Release
<1>20. CASE ClockedRound
  BY <1>0, <1>20 DEF OneMinute, SignedInOneMinute, ClockedRound
<1>21. CASE Tick
  <2>1. /\ clock.min \in Nat /\ clock'.min \in Nat /\ clock.min <= clock'.min
        /\ clock.part \in Nat /\ clock'.part \in Nat
        /\ clock'.min = clock.min => clock'.part > clock.part
    BY <1>0, <1>21 DEF Tick
  <2>2. \A x \in signed : x.min \in Nat /\ x.part \in 0..2
    BY <1>0 DEF Stamps
  <2>3. pc' = pc /\ signed' = signed /\ began' = began /\ pc # "round"
    BY <1>21 DEF Tick
  <2> QED
    BY <1>0, <2>1, <2>2, <2>3 DEF OneMinute, SignedInOneMinute
<1>22. CASE Wait
  BY <1>0, <1>22 DEF OneMinute, SignedInOneMinute, Wait
<1>23. CASE Sign
  <2>0. PICK r : signed' = signed \cup {[ref |-> r, min |-> clock.min,
                                         part |-> clock.part]}
    BY <1>23 DEF Sign
  <2> DEFINE x == [ref |-> r, min |-> clock.min, part |-> clock.part]
  <2>1. /\ signed' = signed \cup {x}
        /\ x.min = clock.min /\ x.part = clock.part
    BY <2>0
  <2> HIDE DEF x
  <2>2. pc = "sign" /\ pc' \in {"sign", "check"} /\ clock' = clock /\ began' = began
    BY <1>23 DEF Sign
  <2>3. \A y \in signed : y.min \in Nat /\ y.part \in 0..2
    BY <1>0 DEF Stamps
  <2> QED
    BY <1>0, <2>1, <2>2, <2>3 DEF OneMinute, SignedInOneMinute
<1>24. CASE Check
  <2>1. \A x \in signed : x.min \in Nat /\ x.part \in 0..2
    BY <1>0 DEF Stamps
  <2>2. pc = "check" /\ pc' \in {"round", "wait"} /\ UNCHANGED <<clock, began, signed>>
    BY <1>24 DEF Check
  <2>3. pc' = "round" => clock.min = began
    BY <1>24 DEF Check, SameMinute
  <2> QED
    BY <1>0, <2>1, <2>2, <2>3 DEF OneMinute, SignedInOneMinute
<1>25. CASE KillServer
  BY <1>0, <1>25 DEF OneMinute, SignedInOneMinute, KillServer
<1>26. CASE Clean
  BY <1>0, <1>26 DEF OneMinute, SignedInOneMinute, Clean
<1>27. CASE ServerBinds
  BY <1>0, <1>27 DEF OneMinute, SignedInOneMinute, ServerBinds
<1>28. CASE ServerEnds
  BY <1>0, <1>28 DEF OneMinute, SignedInOneMinute, ServerEnds
<1>29. CASE Stranger
  BY <1>0, <1>29 DEF OneMinute, SignedInOneMinute, Stranger
<1>30. CASE EnterTry \/ Abandon
  BY <1>0, <1>30 DEF OneMinute, SignedInOneMinute, EnterTry, Abandon
<1> QED
  BY <1>1, <1>2, <1>3, <1>4, <1>5, <1>6, <1>7, <1>8, <1>9, <1>10, <1>11,
     <1>12, <1>13, <1>14, <1>15, <1>16, <1>17, <1>18, <1>19, <1>20, <1>21,
     <1>22, <1>23, <1>24, <1>25, <1>26, <1>27, <1>28, <1>29, <1>30
     DEF Next
(* The pairs of a round are the timed ones and the others.                 *)
LEMMA TodoOrTimed ==
    ASSUME TypeOK
    PROVE  /\ Todo \cup Timed = built /\ Todo \cap Timed = {}
           /\ \A p \in Pairs : p[2] = "http" /\ p \in built => p \in Todo
           /\ Todo \subseteq Pairs /\ Timed \subseteq Pairs
BY Constants DEF TypeOK, Todo, Timed

(* A step that measures nothing, and stays in its part of the round or     *)
(* leaves the rounds, keeps the count.                                     *)
LEMMA CountStands ==
    ASSUME Counted,
           UNCHANGED <<built, round, left, count, idle, stage>>,
           \/ pc' = pc
           \/ pc \in InHttp /\ pc' \in InHttp
           \/ pc \in InTimed /\ pc' \in InTimed
           \/ pc' \notin InRound \cup {"round"}
    PROVE  Counted'
<1>1. Now' = Now
  BY NowStands
<1>2. \A p \in built : pc' \in InRound \cup {"round"} => Ahead(p)' = Ahead(p)
  BY <1>1 DEF Ahead, Todo, InRound, InHttp, InTimed, Serving
<1>3. \A r \in Ref : pc' \in InRound \cup {"round"} =>
          IdleAhead(r)' = IdleAhead(r)
  BY DEF IdleAhead, InRound, InHttp, InTimed, Serving
<1>4. Todo' = Todo /\ Timed' = Timed
  BY DEF Todo, Timed
<1> QED
  BY <1>1, <1>2, <1>3, <1>4 DEF Counted, InRound, InHttp, InTimed, Serving

(* Every step of a round counts what it measures, once.                    *)
LEMMA CountStep == Inv /\ Next => Counted'
<1> SUFFICES ASSUME Inv, Next PROVE Counted'
  OBVIOUS
<1> USE DEF Go, buildVars, roundVars, serverVars, clockVars
<1>t. TypeOK'
  BY TypeStep
<1>0. TypeOK /\ Counted
  BY DEF Inv
<1>1. CASE Begin
  <2>1. /\ built' = {} /\ round' = 0 /\ count' = Nothing /\ pc' = "export"
    BY <1>1 DEF Begin
  <2> QED
    BY <2>1, Constants DEF Counted, Nothing, InRound, InHttp, InTimed, Serving
<1>2. CASE Unwind
  BY <1>0, <1>2, CountStands DEF Unwind, InRound, InHttp, InTimed, Serving
<1>3. CASE HasTree
  BY <1>0, <1>3, CountStands DEF HasTree, InRound, InHttp, InTimed, Serving
<1>4. CASE Export
  BY <1>0, <1>4, CountStands DEF Export, InRound, InHttp, InTimed, Serving
<1>5. CASE BuildServer
  <2>1. /\ pc \in Building /\ pc' \in Building \cup {"allocs"}
        /\ UNCHANGED <<round, count, idle>>
    BY <1>5 DEF BuildServer, Building
  <2>2. round = 0 /\ count = Nothing
    BY <2>1 DEF Inv, InBuild
  <2>3. \A p \in Pairs : count'[p] = 0
    BY <2>1, <2>2 DEF Nothing
  <2>4. built' \subseteq Pairs
    BY <1>t DEF TypeOK
  <2> QED
    BY <2>1, <2>2, <2>3, <2>4, Constants
       DEF Counted, Building, InRound, InHttp, InTimed, Serving
<1>6. CASE BuildPrograms
  <2>1. /\ pc \in Building /\ pc' \in Building \cup {"allocs"}
        /\ UNCHANGED <<round, count, idle>>
    BY <1>6 DEF BuildPrograms, NextRef, Building
  <2>2. round = 0 /\ count = Nothing
    BY <2>1 DEF Inv, InBuild
  <2>3. \A p \in Pairs : count'[p] = 0
    BY <2>1, <2>2 DEF Nothing
  <2>4. built' \subseteq Pairs
    BY <1>t DEF TypeOK
  <2> QED
    BY <2>1, <2>2, <2>3, <2>4, Constants
       DEF Counted, Building, InRound, InHttp, InTimed, Serving
<1>7. CASE Allocations
  <2>1. /\ round = 0 /\ count = Nothing /\ idle = [r \in Ref |-> 0]
        /\ pc' = "round" /\ UNCHANGED <<built, round, count, idle>>
    BY <1>7 DEF Allocations, Inv, InBuild
  <2>2. \A p \in Pairs : count'[p] = 0
    BY <2>1 DEF Nothing
  <2>3. \A r \in Ref : idle'[r] = 0
    BY <2>1
  <2>4. \A x : ~Ahead(x)' /\ ~IdleAhead(x)'
    BY <2>1 DEF Ahead, IdleAhead, InHttp, InTimed, Serving
  <2> QED
    BY <1>0, <2>1, <2>2, <2>3, <2>4, Constants
       DEF TypeOK, Counted, InRound, InHttp, InTimed, Serving
<1>8. CASE Round
  <2>1. CASE round < Rounds
    <3>1. /\ pc' = "pair" /\ left' = Todo /\ pc = "round"
          /\ UNCHANGED <<built, round, count, idle>>
      BY <1>8, <2>1 DEF Round
    <3>2. \A p \in built : ~Ahead(p) /\ ~Ahead(p)'
      BY <3>1 DEF Ahead, Todo, InHttp, InTimed, Serving
    <3>3. \A r \in Ref : <<r, "http">> \in built =>
              ~IdleAhead(r) /\ ~IdleAhead(r)'
      BY <3>1, <1>0, PairParts, Constants, TodoOrTimed
         DEF IdleAhead, InHttp, InTimed, Serving
    <3>4. Todo' = Todo
      BY <3>1 DEF Todo
    <3> QED
      BY <1>0, <2>1, <3>1, <3>2, <3>3, <3>4, Constants
         DEF TypeOK, Counted, InRound, InHttp, InTimed, Serving
  <2>2. CASE ~(round < Rounds)
    <3>1. pc' = "clean" /\ UNCHANGED <<built, round, left, count, idle, stage>>
      BY <1>8, <2>2 DEF Round
    <3> QED
      BY <1>0, <3>1, CountStands DEF InRound, InHttp, InTimed, Serving
  <2> QED
    BY <2>1, <2>2
<1>9. CASE MeasureProgram
  <2>1. /\ pc = "pair" /\ pc' = "pair" /\ left # {} /\ Now[2] # "http"
        /\ count' = [count EXCEPT ![Now] = count[Now] + 1]
        /\ left' = left \ {Now}
        /\ UNCHANGED <<built, round, idle, stage>>
    BY <1>9 DEF MeasureProgram
  <2>2. Now \in left /\ Now \in Todo /\ Now \in built /\ Now \in Pairs
    BY <1>0, <2>1, NowIsLeft, TodoOrTimed DEF TypeOK, Counted, InHttp
  <2>3. \A p \in built : Ahead(p)' <=> (Ahead(p) \/ p = Now)
    BY <2>1, <2>2 DEF Ahead, Todo, InHttp, InTimed, Serving
  <2>4. ~Ahead(Now)
    BY <2>1, <2>2 DEF Ahead, InHttp, InTimed, Serving
  <2>5. \A r \in Ref : IdleAhead(r)' <=> IdleAhead(r)
    BY <2>1, <2>2, PairParts, Constants DEF IdleAhead, InHttp, InTimed, Serving
  <2>6. Todo' = Todo
    BY <2>1 DEF Todo
  <2>7. /\ count'[Now] = count[Now] + 1
        /\ \A p \in Pairs : p # Now => count'[p] = count[p]
    BY <1>0, <2>1, <2>2 DEF TypeOK
  <2>8. round \in Nat /\ count[Now] = round /\ round < Rounds /\ built \subseteq Pairs
    BY <1>0, <2>1, <2>2, <2>4 DEF TypeOK, Counted, InRound
  <2>9. \A p \in built : count'[p] = IF Ahead(p)' THEN round + 1 ELSE round
    BY <1>0, <2>1, <2>2, <2>3, <2>4, <2>7, <2>8 DEF Counted, InRound
  <2> QED
    BY <1>0, <2>1, <2>2, <2>5, <2>6, <2>7, <2>8, <2>9
       DEF Counted, InRound, InHttp, InTimed, Serving
<1>10. CASE MeasureHttp
  <2>1. /\ pc = "pair" /\ pc' = "serve" /\ left # {} /\ Now[2] = "http"
        /\ stage' = 1
        /\ UNCHANGED <<built, round, left, count, idle>>
    BY <1>10 DEF MeasureHttp
  <2>2. /\ \A p \in built : Ahead(p)' = Ahead(p)
        /\ \A r \in Ref : IdleAhead(r)' = IdleAhead(r)
        /\ Todo' = Todo
    BY <2>1 DEF Ahead, IdleAhead, Todo, InHttp, InTimed, Serving
  <2>3. Now' = Now
    BY <2>1, NowStands
  <2> QED
    BY <1>0, <2>1, <2>2, <2>3 DEF Counted, InRound, InHttp, InTimed, Serving
<1>11. CASE PortIsFree
  BY <1>0, <1>11, CountStands DEF PortIsFree, InRound, InHttp, InTimed, Serving
<1>12. CASE Spawn
  BY <1>0, <1>12, CountStands DEF Spawn, InRound, InHttp, InTimed, Serving
<1>13. CASE Poll
  BY <1>0, <1>13, CountStands DEF Poll, Exited, InRound, InHttp, InTimed, Serving
<1>14. CASE Connect
  BY <1>0, <1>14, CountStands DEF Connect, InRound, InHttp, InTimed, Serving
<1>15. CASE ServerInstructions
  BY <1>0, <1>15, CountStands DEF ServerInstructions, Answered, Served, InRound, InHttp, InTimed, Serving
<1>16. CASE IdleBytes
  BY <1>0, <1>16, CountStands DEF IdleBytes, Answered, OpenOne, InRound, InHttp, InTimed, Serving
<1>17. CASE Terminate
  BY <1>0, <1>17, CountStands DEF Terminate, InRound, InHttp, InTimed, Serving
<1>18. CASE Reap
  BY <1>0, <1>18, CountStands DEF Reap, Exited, InRound, InHttp, InTimed, Serving
<1>19. CASE Release
  <2>0. pc = "release" /\ UNCHANGED <<built, round>>
    BY <1>19 DEF Release
  <2>1. /\ left # {} /\ left \subseteq Todo /\ Now[2] = "http"
        /\ round < Rounds /\ round \in Nat /\ built \subseteq Pairs
        /\ stage \in 1..3
    BY <1>0, <2>0 DEF TypeOK, Counted, InRound, InHttp
  <2>2. /\ Now \in left /\ Now \in Todo /\ Now \in built /\ Now \in Pairs
        /\ Now[1] \in Ref /\ Now = <<Now[1], "http">>
    BY <1>0, <2>1, NowIsLeft, TodoOrTimed, PairParts DEF TypeOK
  <2>3. Todo' = Todo
    BY <2>0 DEF Todo
  <2>4. CASE stage = 3
    <3>1. /\ pc' = "pair" /\ left' = left \ {Now}
          /\ idle' = [idle EXCEPT ![Now[1]] = idle[Now[1]] + 1]
          /\ UNCHANGED <<stage, count>>
      BY <1>19, <2>4 DEF Release
    <3>2. \A p \in built : Ahead(p)' <=> Ahead(p)
      BY <2>0, <2>2, <2>4, <3>1 DEF Ahead, Todo, InHttp, InTimed, Serving
    <3>3. ~IdleAhead(Now[1]) /\ (\A r : r = Now[1] => IdleAhead(r)')
      <4>1. <<Now[1], "http">> \in left /\ <<Now[1], "http">> \notin left \ {Now}
        BY <2>2
      <4> QED
        BY <4>1, <2>0, <3>1 DEF IdleAhead, InHttp, InTimed, Serving
    <3>4. \A r \in Ref : r # Now[1] => (IdleAhead(r)' <=> IdleAhead(r))
      <4>1. \A r \in Ref : r # Now[1] => <<r, "http">> # Now
        BY <2>2
      <4> QED
        BY <4>1, <2>0, <3>1 DEF IdleAhead, InHttp, InTimed, Serving
    <3>5. /\ idle'[Now[1]] = idle[Now[1]] + 1 /\ idle[Now[1]] = round
          /\ \A r \in Ref : r # Now[1] => idle'[r] = idle[r]
      BY <1>0, <2>0, <2>2, <3>1, <3>3 DEF TypeOK, Counted, InRound, InHttp
    <3>6. \A r \in Ref : idle'[r] = IF <<r, "http">> \notin built THEN 0
                                    ELSE IF IdleAhead(r)' THEN round + 1
                                                          ELSE round
      <4>1. \A r \in Ref : idle[r] = IF <<r, "http">> \notin built THEN 0
                                     ELSE IF IdleAhead(r) THEN round + 1
                                                          ELSE round
        BY <1>0, <2>0 DEF Counted, InRound, InHttp
      <4>2. <<Now[1], "http">> \in built
        BY <2>2
      <4>3. TAKE r \in Ref
      <4>4. CASE r = Now[1]
        BY <2>1, <3>3, <3>5, <4>2, <4>4
      <4>5. CASE r # Now[1]
        BY <3>4, <3>5, <4>1, <4>5
      <4> QED
        BY <4>4, <4>5
    <3> QED
      BY <1>0, <2>0, <2>1, <2>3, <3>1, <3>2, <3>6
         DEF Counted, InRound, InHttp, InTimed, Serving
  <2>5. CASE stage # 3
    <3>1. /\ pc' = "serve" /\ stage' = stage + 1 /\ UNCHANGED <<left, idle>>
          /\ count' = IF stage = 2 THEN [count EXCEPT ![Now] = count[Now] + 1]
                                   ELSE count
      BY <1>19, <2>5 DEF Release
    <3>2. Now' = Now
      BY <3>1, NowStands
    <3>3. \A r \in Ref : IdleAhead(r)' <=> IdleAhead(r)
      BY <2>0, <3>1 DEF IdleAhead, InHttp, InTimed, Serving
    <3>4. \A p \in built : Ahead(p)' <=> (Ahead(p) \/ (stage = 2 /\ p = Now))
      BY <2>0, <2>1, <2>2, <2>3, <2>5, <3>1, <3>2
         DEF Ahead, InHttp, InTimed, Serving
    <3>5. ~Ahead(Now)
      BY <2>0, <2>2, <2>5 DEF Ahead, InHttp, InTimed, Serving
    <3>6. /\ stage = 2 => count'[Now] = count[Now] + 1
          /\ \A p \in Pairs : stage # 2 \/ p # Now => count'[p] = count[p]
          /\ count[Now] = round
      BY <1>0, <2>0, <2>2, <3>1, <3>5 DEF TypeOK, Counted, InRound, InHttp
    <3>7. \A p \in built : count'[p] = IF Ahead(p)' THEN round + 1 ELSE round
      <4>1. \A p \in built : count[p] = IF Ahead(p) THEN round + 1 ELSE round
        BY <1>0, <2>0 DEF Counted, InRound, InHttp
      <4> QED
        BY <4>1, <2>1, <3>4, <3>5, <3>6
    <3>8. \A p \in Pairs \ built : count'[p] = 0
      BY <1>0, <2>2, <3>6 DEF Counted
    <3> QED
      BY <1>0, <2>0, <2>1, <2>3, <3>1, <3>2, <3>3, <3>7, <3>8
         DEF Counted, InRound, InHttp, InTimed, Serving
  <2> QED
    BY <2>4, <2>5
<1>20. CASE ClockedRound
  <2>0. pc = "pair" /\ left = {} /\ UNCHANGED <<built, count, idle, stage>>
    BY <1>20 DEF ClockedRound
  <2>1. /\ round < Rounds /\ round \in Nat /\ built \subseteq Pairs
    BY <1>0, <2>0 DEF TypeOK, Counted, InRound
  <2>2. \A p \in built : count[p] = IF p \in Todo THEN round + 1 ELSE round
    BY <1>0, <2>0 DEF Counted, Ahead, InRound, InHttp, InTimed, Serving
  <2>3. \A r \in Ref : idle[r] = IF <<r, "http">> \notin built THEN 0
                                 ELSE round + 1
    BY <1>0, <2>0 DEF Counted, IdleAhead, InRound
  <2>4. Todo' = Todo /\ Timed' = Timed
    BY <2>0 DEF Todo, Timed
  <2>5. CASE Timed = {}
    <3>1. pc' = "round" /\ round' = round + 1
      BY <1>20, <2>5 DEF ClockedRound
    <3>2. built = Todo
      BY <1>0, <2>5, TodoOrTimed
    <3>3. \A x : ~Ahead(x)' /\ ~IdleAhead(x)'
      BY <3>1 DEF Ahead, IdleAhead, InHttp, InTimed, Serving
    <3> QED
      BY <1>0, <2>0, <2>1, <2>2, <2>3, <3>1, <3>2, <3>3, Constants
         DEF Counted, InRound, InHttp, InTimed, Serving
  <2>6. CASE Timed # {}
    <3>1. pc' = "wait" /\ round' = round /\ left' = Timed
      BY <1>20, <2>6 DEF ClockedRound
    <3>2. \A p \in built : Ahead(p)' <=> p \in Todo
      BY <1>0, <2>4, <3>1, TodoOrTimed DEF Ahead, InHttp, InTimed, Serving
    <3>3. \A r \in Ref : IdleAhead(r)'
      BY <3>1 DEF IdleAhead, InTimed
    <3> QED
      BY <1>0, <2>0, <2>1, <2>2, <2>3, <2>4, <2>6, <3>1, <3>2, <3>3, Constants
         DEF Counted, InRound, InHttp, InTimed, Serving
  <2> QED
    BY <2>5, <2>6
<1>21. CASE Tick
  BY <1>0, <1>21, CountStands DEF Tick, InRound, InHttp, InTimed, Serving
<1>22. CASE Wait
  BY <1>0, <1>22, CountStands DEF Wait, InRound, InHttp, InTimed, Serving
<1>23. CASE Sign
  <2>1. /\ UNCHANGED <<built, round, left, count, idle, stage>>
        /\ pc = "sign" /\ pc' \in {"sign", "check"}
    BY <1>23 DEF Sign
  <2> QED
    BY <1>0, <2>1, CountStands DEF InTimed
<1>24. CASE Check
  <2>0. pc = "check" /\ UNCHANGED <<built, idle, stage>>
    BY <1>24 DEF Check
  <2>1. /\ round < Rounds /\ round \in Nat /\ built \subseteq Pairs
        /\ left # {} /\ left \subseteq Timed
        /\ \A p, q \in Timed : p[2] = q[2] => (p \in left <=> q \in left)
    BY <1>0, <2>0 DEF TypeOK, Counted, InRound, InTimed
  <2>2. CASE ~SameMinute
    BY <1>0, <2>0, <1>24, <2>2, CountStands DEF Check, InTimed
  <2>3. CASE SameMinute
    <3> DEFINE now == TimedOf(ClockedNow)
    <3>1. Now \in left /\ Now \in Timed
      BY <1>0, <2>1, NowIsLeft DEF TypeOK
    <3>2. now = {p \in Timed : p[2] = Now[2]}
      BY DEF TimedOf, ClockedNow
    <3>3. /\ count' = [p \in Pairs |-> IF p \in now THEN count[p] + 1
                                                    ELSE count[p]]
          /\ left' = left \ now
          /\ \/ left' = {} /\ pc' = "round" /\ round' = round + 1
             \/ left' # {} /\ pc' = "wait" /\ round' = round
      BY <1>24, <2>3 DEF Check
    <3> HIDE DEF now
    <3>4. now \subseteq left /\ now \subseteq Timed
      BY <2>1, <3>1, <3>2
    <3>5. \A p \in built : count[p] = IF p \notin left THEN round + 1 ELSE round
      <4>1. \A p \in built : Ahead(p) <=> p \notin left
        BY <1>0, <2>0, <2>1, TodoOrTimed DEF Ahead, InHttp, InTimed, Serving
      <4> QED
        BY <1>0, <2>0, <4>1 DEF Counted, InRound, InTimed
    <3>6. \A r \in Ref : idle[r] = IF <<r, "http">> \notin built THEN 0
                                   ELSE round + 1
      BY <1>0, <2>0 DEF Counted, IdleAhead, InRound, InTimed
    <3>7. \A p \in built : count'[p] = IF p \notin left' THEN round + 1 ELSE round
      BY <2>1, <3>3, <3>4, <3>5
    <3>8. \A p \in Pairs \ built : count'[p] = 0
      BY <1>0, <3>3, <3>4, TodoOrTimed DEF Counted
    <3>9. Todo' = Todo /\ Timed' = Timed
      BY <2>0 DEF Todo, Timed
    <3>10. \A p, q \in Timed : p[2] = q[2] => (p \in left' <=> q \in left')
      BY <2>1, <3>2, <3>3
    <3>11. CASE left' = {}
      <4>1. pc' = "round" /\ round' = round + 1
        BY <3>3, <3>11
      <4>2. \A x : ~Ahead(x)' /\ ~IdleAhead(x)'
        BY <4>1 DEF Ahead, IdleAhead, InHttp, InTimed, Serving
      <4>3. \A p \in built : count'[p] = round + 1
        BY <3>7, <3>11
      <4> QED
        BY <1>0, <2>0, <2>1, <3>6, <3>8, <4>1, <4>2, <4>3, Constants
           DEF Counted, InRound, InHttp, InTimed, Serving
    <3>12. CASE left' # {}
      <4>1. pc' = "wait" /\ round' = round
        BY <3>3, <3>12
      <4>2. \A p \in built : Ahead(p)' <=> p \notin left'
        BY <1>0, <2>1, <3>3, <3>9, <4>1, TodoOrTimed
           DEF Ahead, InHttp, InTimed, Serving
      <4>3. \A r \in Ref : IdleAhead(r)'
        BY <4>1 DEF IdleAhead, InTimed
      <4>4. left' \subseteq Timed
        BY <2>1, <3>3
      <4> QED
        BY <1>0, <2>0, <2>1, <3>6, <3>7, <3>8, <3>9, <3>10, <3>12, <4>1, <4>2,
           <4>3, <4>4, Constants DEF Counted, InRound, InHttp, InTimed, Serving
    <3> QED
      BY <3>11, <3>12
  <2> QED
    BY <2>2, <2>3
<1>25. CASE KillServer
  BY <1>0, <1>25, CountStands DEF KillServer, InRound, InHttp, InTimed, Serving
<1>26. CASE Clean
  BY <1>0, <1>26, CountStands DEF Clean, InRound, InHttp, InTimed, Serving
<1>27. CASE ServerBinds
  BY <1>0, <1>27, CountStands DEF ServerBinds, InRound, InHttp, InTimed, Serving
<1>28. CASE ServerEnds
  BY <1>0, <1>28, CountStands DEF ServerEnds, InRound, InHttp, InTimed, Serving
<1>29. CASE Stranger
  BY <1>0, <1>29, CountStands DEF Stranger, InRound, InHttp, InTimed, Serving
<1>30. CASE EnterTry \/ Abandon
  BY <1>0, <1>30, CountStands DEF EnterTry, Abandon, InRound, InHttp, InTimed, Serving
<1> QED
  BY <1>1, <1>2, <1>3, <1>4, <1>5, <1>6, <1>7, <1>8, <1>9, <1>10, <1>11,
     <1>12, <1>13, <1>14, <1>15, <1>16, <1>17, <1>18, <1>19, <1>20, <1>21,
     <1>22, <1>23, <1>24, <1>25, <1>26, <1>27, <1>28, <1>29, <1>30
     DEF Next
-----------------------------------------------------------------------------
(* Nothing that the invariant speaks of is left out of vars.               *)
LEMMA StutterInv == Inv /\ UNCHANGED vars => Inv'
<1> SUFFICES ASSUME Inv, UNCHANGED vars PROVE Inv'
  OBVIOUS
<1> USE DEF vars, buildVars, roundVars, serverVars, clockVars
<1>1. TypeOK' /\ ServerPlaced' /\ StrangerIsFound'
  BY DEF Inv, TypeOK, ServerPlaced, StrangerIsFound
<1>2. InBuild' /\ WholeTrees' /\ OneMinute'
  BY DEF Inv, InBuild, WholeTrees, OneMinute, SignedInOneMinute
<1>3. Counted'
  BY CountStands DEF Inv
<1> QED
  BY <1>1, <1>2, <1>3 DEF Inv

(* The script, whatever the machine does to it: every step of a run keeps  *)
(* the invariant that the four promises below are read off.                *)
THEOREM ReleaseInvariant == Spec => []Inv
<1>1. Inv /\ [Next]_vars => Inv'
  BY TypeStep, ServerStep, BuildStep, CountStep, MinuteStep, StutterInv
     DEF Inv
<1> QED
  BY InitInv, <1>1, PTL DEF Spec

(* serving() and stop(): for any refs, modules and rounds, no reading that *)
(* somebody else answered for is reported, and our server never outlives   *)
(* the measurement it was started for.                                     *)
THEOREM ReadingsOurs == Spec => []ReadingsAreOurs
<1>1. Inv => ReadingsAreOurs
  BY Constants DEF Inv, TypeOK, ServerPlaced, StrangerIsFound, ReadingsAreOurs,
     Reported, Outside, Building
<1> QED
  BY ReleaseInvariant, <1>1, PTL

(* main(): for any refs, modules and rounds, no ref is more than a round   *)
(* ahead, and a report is of whole rounds.                                 *)
THEOREM RoundsEven == Spec => []RoundsAreEven
<1>1. Inv => RoundsAreEven
  <2> SUFFICES ASSUME Inv PROVE RoundsAreEven
    OBVIOUS
  <2>1. \A p, q \in built : count[p] <= count[q] + 1
    BY DEF Inv, TypeOK, Counted
  <2> QED
    BY <2>1 DEF Inv, Counted, RoundsAreEven, Reported
<1> QED
  BY ReleaseInvariant, <1>1, PTL

(* build(): what is measured was built by the run that measures it, in a   *)
(* tree of the whole commit unless the tree was kept.                      *)
THEOREM CommitMeasured == Spec => []MeasuresTheCommit
<1>1. Inv => MeasuresTheCommit
  <2> SUFFICES ASSUME Inv, NEW p \in Pairs, count[p] > 0, pc # "idle"
               PROVE  bins[p] = run /\ (tree[p[1]] = "whole" \/ keep)
    BY DEF MeasuresTheCommit
  <2>1. p \in built
    BY DEF Inv, Counted
  <2> QED
    BY <2>1 DEF Inv, InBuild, WholeTrees
<1> QED
  BY ReleaseInvariant, <1>1, PTL

(* inside_one_minute(): however the clock runs, the readings of a clocked  *)
(* module that are kept are of one minute.                                 *)
THEOREM OneMinuteSigned == Spec => []SignedInOneMinute
<1>1. Inv => SignedInOneMinute
  BY DEF Inv, OneMinute
<1> QED
  BY ReleaseInvariant, <1>1, PTL

(* change() and table(): however many rounds there are and whatever they   *)
(* read, a cell says that something changed exactly when the two columns'  *)
(* ranges do not overlap.                                                  *)
THEOREM ChangesApart == Spec => []ChangesAreApart
<1>1. ChangesAreApart
  <2> SUFFICES ASSUME NEW old \in Columns, NEW new \in Columns
               PROVE  Cell(<<old, new>>, 2) = "changed" <=>
                          /\ old # <<>> /\ new # <<>>
                          /\ \/ \A i, j \in 1..Rounds : old[i] < new[j]
                             \/ \A i, j \in 1..Rounds : old[i] > new[j]
    BY DEF ChangesAreApart
  <2>1. Cell(<<old, new>>, 2) = IF new = <<>> THEN "n/a"
                                ELSE IF old = <<>> THEN "first"
                                ELSE Change(old, new)
    BY DEF Cell
  <2>2. CASE old = <<>> \/ new = <<>>
    BY <2>1, <2>2
  <2>3. CASE old # <<>> /\ new # <<>>
    <3>1. old \in [1..Rounds -> Int] /\ new \in [1..Rounds -> Int]
      BY <2>3, ReleaseAssumption DEF Columns
    <3>2. Rounds \in Nat \ {0}
      BY Constants
    <3> QED
      BY <2>1, <2>3, <3>1, <3>2, ChangedIsApart
  <2> QED
    BY <2>2, <2>3
<1> QED
  BY <1>1, PTL
=============================================================================
