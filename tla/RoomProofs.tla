----------------------------- MODULE RoomProofs -----------------------------
(***************************************************************************)
(* Proofs about Room, for any number of seats, connections, speakers and   *)
(* posts, and any backlog and history.                                     *)
(*                                                                         *)
(* That a reference count is exact is shown by counting holders: a post is *)
(* held by the speakers that have it, by the rings and the hands it is in  *)
(* and by the kept places, and each step moves it between these sets by    *)
(* one member. For that a post must be in a ring, in a hand or kept at     *)
(* most once (PostsApart), which rests on there being one speaker at a     *)
(* time that walks the roll, and on that speaker's post not having come to *)
(* the seats ahead of it (Talking).                                        *)
(*                                                                         *)
(* That a broadcast reaches everybody seated rests on the roll being a     *)
(* permutation of the seats with the taken ones in front (Listed), through *)
(* every exchange of sit() and give_up(), and on connections and taken     *)
(* seats belonging to each other one to one (Seated), so that a seat given *)
(* up is the giver's own and not its successor's.                          *)
(*                                                                         *)
(* That delivery is exact is shown in positions of `said`, in which every  *)
(* post stands once (SaidOnce). What a client was written, what is in its  *)
(* hand and what is in its ring stand there in this order, none of it      *)
(* after the last broadcast that has come to its seat (InTurn); and the    *)
(* number of positions meant for it is the number of those plus the ones   *)
(* counted lost (Balanced). A client that comes back is the hard case: the *)
(* kept posts have no gap among those that can be kept (KeptInOrder), so   *)
(* the ones after its last are, one for one, the ones it missed.           *)
(***************************************************************************)
EXTENDS Room, FiniteSetTheorems, SequenceTheorems, WellFoundedInduction, TLAPS

(* No post is twice in s.                                                  *)
NoRepeats(s) == \A i, j \in DOMAIN s : s[i] = s[j] => i = j

(* The roll is every seat once, the taken ones in front, each where its    *)
(* slot says, and nothing waits in a free one.                             *)
Listed ==
    /\ \A i, j \in Index : roll[i] = roll[j] => i = j
    /\ \A s \in Index : \E i \in Index : roll[i] = s
    /\ \A i \in Index : seat[roll[i]].taken <=> i < here
    /\ \A i \in Index : i < here => seat[roll[i]].slot = i
    /\ \A s \in Index : ~seat[s].taken => seat[s].ring = <<>>

(* Connections and taken seats belong to each other one to one.            *)
Seated ==
    /\ \A c \in Conns : conn[c].pc # "away" =>
         conn[c].ticket.index \in Index /\ StillMine(c) /\ Mine(c).waker = c
    /\ \A s \in Index : seat[s].taken =>
         /\ seat[s].waker \in Conns /\ conn[seat[s].waker].pc # "away"
         /\ conn[seat[s].waker].ticket.index = s
    /\ \A c \in Conns : conn[c].pc \in {"away", "leaving"} => conn[c].hand = <<>>

(* The one speaker that walks the roll has its lock, and no two speakers   *)
(* have a post in common.                                                  *)
Talking ==
    /\ \A f \in Speakers : talk[f].pc = "putting" <=> roster = f
    /\ \A f \in Speakers : talk[f].pc = "quiet" <=> talk[f].post = 0
    /\ \A f \in Speakers : talk[f].post <= made
    /\ \A f, g \in Speakers : talk[f].post = talk[g].post => f = g \/ talk[f].post = 0

(* p has been made and its broadcast has begun.                            *)
Handed(p) == Has(said, p) /\ p <= made /\ \A f \in Speakers : talk[f].pc = "reserved" => talk[f].post # p

(* A post is in a ring, in a hand or kept at most once, none of them       *)
(* before its broadcast, and one that is being put is neither kept yet nor *)
(* in a ring the walk has not come to.                                     *)
PostsApart ==
    /\ \A s \in Index : NoRepeats(seat[s].ring) /\ \A p \in Posts : Has(seat[s].ring, p) => Handed(p)
    /\ \A c \in Conns : NoRepeats(conn[c].hand) /\ \A p \in Posts : Has(conn[c].hand, p) => Handed(p)
    /\ NoRepeats(kept) /\ \A p \in Posts : Has(kept, p) => Handed(p)
    /\ \A f \in Speakers : talk[f].pc = "putting" =>
         /\ Has(said, talk[f].post)
         /\ ~Has(kept, talk[f].post)
         /\ \A i \in Index : talk[f].at <= i /\ i < here => ~Has(seat[roll[i]].ring, talk[f].post)

(* TypeOK but for the references, whose type follows from their count.     *)
Shaped ==
    /\ seat \in [Index -> Chairs]
    /\ \A s \in Index : Len(seat[s].ring) <= Backlog
    /\ roll \in [Index -> Index]
    /\ here \in 0..Seats
    /\ kept \in Seq(Posts) /\ Len(kept) <= History
    /\ made \in 0..MaxPosts
    /\ roster \in Speakers \cup {Nobody}
    /\ talk \in [Speakers -> Talks]
    /\ conn \in [Conns -> Places]
    /\ bell \in [Conns -> BOOLEAN]
    /\ left \in [sits : Nat, cancels : Nat]
    /\ said \in Seq(Posts)
    /\ seen \in [Conns -> Seq(Posts)]
    /\ since \in [Conns -> Stays]

(* Who holds a reference to p, besides the kept posts.                     *)
Tellers(p) == {f \in Speakers : talk[f].post = p}
Rings(p) == {s \in Index : Has(seat[s].ring, p)}
Hands(p) == {c \in Conns : Has(conn[c].hand, p)}
Exact(p) ==
    refs[p] = Cardinality(Tellers(p)) + Cardinality(Rings(p)) + Count(kept, p)
              + Cardinality(Hands(p))

(* The inductive invariant.                                                *)
Inv == TypeOK /\ Listed /\ Seated /\ Talking /\ PostsApart /\ RefsAreExact /\ BellIsHeard

-----------------------------------------------------------------------------
(* Sequences.                                                              *)

LEMMA LeastNumber ==
    ASSUME NEW T \in SUBSET Nat, T # {}
    PROVE  \E n \in T : \A m \in T : n <= m
<1>1. IsWellFoundedOn(OpToRel(<, Nat), Nat)
  BY NatLessThanWellFounded
<1>2. PICK x \in T : \A y \in T : ~ (<<y, x>> \in OpToRel(<, Nat))
  BY <1>1, WFMin
<1>3. \A y \in T : ~(y < x)
  BY <1>2 DEF OpToRel
<1> QED
  BY <1>3

(* A post added at the end.                                                *)
LEMMA Appended ==
    ASSUME NEW S, NEW s \in Seq(S), NEW p \in S
    PROVE  /\ Append(s, p) \in Seq(S) /\ Len(Append(s, p)) = Len(s) + 1
           /\ \A q : Has(Append(s, p), q) <=> Has(s, q) \/ q = p
           /\ NoRepeats(s) /\ ~Has(s, p) => NoRepeats(Append(s, p))
<1> DEFINE t == Append(s, p)
<1>1. /\ t \in Seq(S) /\ Len(t) = Len(s) + 1
      /\ \A i \in 1..Len(s) : t[i] = s[i]
      /\ t[Len(s) + 1] = p
  BY AppendProperties
<1>2. /\ DOMAIN s = 1..Len(s) /\ DOMAIN t = 1..(Len(s) + 1) /\ Len(s) \in Nat
  BY <1>1, LenProperties
<1>3. DOMAIN t = DOMAIN s \cup {Len(s) + 1} /\ Len(s) + 1 \notin DOMAIN s
  BY <1>2
<1> HIDE DEF t
<1>4. \A q : Has(t, q) <=> Has(s, q) \/ q = p
  BY <1>1, <1>2, <1>3 DEF Has
<1>5. NoRepeats(s) /\ ~Has(s, p) => NoRepeats(t)
  BY <1>1, <1>2, <1>3 DEF Has, NoRepeats
<1> QED
  BY <1>1, <1>4, <1>5 DEF t

(* The first one taken off.                                                *)
LEMMA Behead ==
    ASSUME NEW S, NEW s \in Seq(S), s # <<>>
    PROVE  /\ Tail(s) \in Seq(S) /\ Len(Tail(s)) = Len(s) - 1 /\ Len(s) > 0
           /\ Head(s) \in S /\ Has(s, Head(s))
           /\ \A q : Has(Tail(s), q) => Has(s, q)
           /\ NoRepeats(s) => /\ NoRepeats(Tail(s))
                              /\ \A q : Has(Tail(s), q) <=> Has(s, q) /\ q # Head(s)
<1> DEFINE t == Tail(s)
<1>1. /\ t \in Seq(S) /\ Len(t) = Len(s) - 1
      /\ \A i \in 1..Len(t) : t[i] = s[i + 1]
      /\ Head(s) \in S /\ Head(s) = s[1]
  BY HeadTailProperties
<1>2. /\ DOMAIN s = 1..Len(s) /\ DOMAIN t = 1..(Len(s) - 1) /\ Len(s) \in Nat /\ Len(s) > 0
  BY <1>1, LenProperties, EmptySeq
<1>3. /\ \A i \in DOMAIN t : i + 1 \in DOMAIN s /\ t[i] = s[i + 1] /\ i + 1 # 1
      /\ \A i \in DOMAIN s : i = 1 \/ (i - 1 \in DOMAIN t /\ t[i - 1] = s[i])
      /\ 1 \in DOMAIN s
  BY <1>1, <1>2
<1> HIDE DEF t
<1>4. \A q : Has(t, q) => Has(s, q)
  BY <1>3 DEF Has
<1>5. ASSUME NoRepeats(s), NEW q PROVE Has(t, q) <=> Has(s, q) /\ q # Head(s)
  <2>1. Has(t, q) => q # Head(s)
    <3> SUFFICES ASSUME NEW i \in DOMAIN t, t[i] = s[1] PROVE FALSE
      BY <1>1 DEF Has
    <3> QED
      BY <1>3, <1>5 DEF NoRepeats
  <2>2. Has(s, q) /\ q # Head(s) => Has(t, q)
    BY <1>1, <1>3 DEF Has
  <2> QED
    BY <2>1, <2>2, <1>4
<1>6. ASSUME NoRepeats(s) PROVE NoRepeats(t)
  <2> SUFFICES ASSUME NEW i \in DOMAIN t, NEW j \in DOMAIN t, t[i] = t[j] PROVE i = j
    BY DEF NoRepeats
  <2>1. i + 1 = j + 1
    BY <1>3, <1>6 DEF NoRepeats
  <2> QED
    BY <2>1, <1>2
<1>7. Has(s, Head(s))
  BY <1>1, <1>3 DEF Has
<1> QED
  BY <1>1, <1>2, <1>4, <1>5, <1>6, <1>7 DEF t

(* Nothing, and one post.                                                  *)
LEMMA Short ==
    /\ \A q : ~Has(<<>>, q)
    /\ NoRepeats(<<>>)
    /\ \A p, q : Has(<<p>>, q) <=> q = p
    /\ \A p : NoRepeats(<<p>>)
BY DEF Has, NoRepeats

(* s cut before its n-th post: each of its posts is on one side.           *)
LEMMA Cut ==
    ASSUME NEW S, NEW s \in Seq(S), NEW n \in 1..(Len(s) + 1)
    PROVE  /\ From(s, n) \in Seq(S) /\ Len(From(s, n)) = Len(s) - n + 1
           /\ First(s, n - 1) \in Seq(S) /\ Len(First(s, n - 1)) = n - 1
           /\ \A i \in 1..(Len(s) - n + 1) : From(s, n)[i] = s[n + i - 1]
           /\ \A i \in 1..(n - 1) : First(s, n - 1)[i] = s[i]
           /\ \A q : Has(s, q) <=> Has(First(s, n - 1), q) \/ Has(From(s, n), q)
           /\ NoRepeats(s) => /\ NoRepeats(From(s, n)) /\ NoRepeats(First(s, n - 1))
                              /\ \A q : ~(Has(First(s, n - 1), q) /\ Has(From(s, n), q))
<1> DEFINE t == From(s, n)
           u == First(s, n - 1)
<1>0. Len(s) \in Nat /\ DOMAIN s = 1..Len(s) /\ n \in Nat /\ n >= 1
  BY LenProperties
<1>1. /\ t \in Seq(S) /\ Len(t) = Len(s) - n + 1
      /\ \A i \in 1..(Len(s) - n + 1) : t[i] = s[n + i - 1]
  <2>1. /\ t \in Seq(S)
        /\ Len(t) = IF n <= Len(s) THEN Len(s) - n + 1 ELSE 0
        /\ \A i \in 1..(Len(s) - n + 1) : t[i] = s[n + i - 1]
    BY <1>0, SubSeqProperties DEF From
  <2> QED
    BY <2>1, <1>0
<1>2. /\ u \in Seq(S) /\ Len(u) = n - 1
      /\ \A i \in 1..(n - 1) : u[i] = s[i]
  <2>1. /\ u \in Seq(S)
        /\ Len(u) = IF 1 <= n - 1 THEN (n - 1) - 1 + 1 ELSE 0
        /\ \A i \in 1..((n - 1) - 1 + 1) : u[i] = s[1 + i - 1]
    BY <1>0, SubSeqProperties DEF First
  <2> QED
    BY <2>1, <1>0
<1>3. DOMAIN t = 1..(Len(s) - n + 1) /\ DOMAIN u = 1..(n - 1)
  BY <1>1, <1>2, LenProperties
<1> HIDE DEF t, u
<1>4. /\ \A i \in DOMAIN t : n + i - 1 \in DOMAIN s /\ t[i] = s[n + i - 1]
      /\ \A i \in DOMAIN u : i \in DOMAIN s /\ u[i] = s[i]
      /\ \A i \in DOMAIN s : i \in DOMAIN u \/ (i - n + 1 \in DOMAIN t /\ t[i - n + 1] = s[i])
  <2>1. ASSUME NEW i \in DOMAIN s, i \notin DOMAIN u
        PROVE  i - n + 1 \in DOMAIN t /\ t[i - n + 1] = s[i]
    <3>1. i \in Nat /\ i - n + 1 \in 1..(Len(s) - n + 1) /\ n + (i - n + 1) - 1 = i
      BY <2>1, <1>0, <1>3
    <3> QED
      BY <3>1, <1>1, <1>3
  <2>2. \A i \in DOMAIN t : n + i - 1 \in DOMAIN s /\ t[i] = s[n + i - 1]
    BY <1>0, <1>1, <1>3
  <2>3. \A i \in DOMAIN u : i \in DOMAIN s /\ u[i] = s[i]
    BY <1>0, <1>2, <1>3
  <2> QED
    BY <2>1, <2>2, <2>3
<1>5. \A q : Has(s, q) <=> Has(u, q) \/ Has(t, q)
  BY <1>4 DEF Has
<1>6. ASSUME NoRepeats(s)
      PROVE  NoRepeats(t) /\ NoRepeats(u) /\ \A q : ~(Has(u, q) /\ Has(t, q))
  <2>1. ASSUME NEW i \in DOMAIN t, NEW j \in DOMAIN t, t[i] = t[j] PROVE i = j
    <3>1. n + i - 1 = n + j - 1
      BY <1>4, <1>6, <2>1 DEF NoRepeats
    <3> QED
      BY <3>1, <1>0, <1>3
  <2>2. NoRepeats(u)
    BY <1>4, <1>6 DEF NoRepeats
  <2>3. ASSUME NEW q, Has(u, q), Has(t, q) PROVE FALSE
    <3>1. PICK i \in DOMAIN u : u[i] = q
      BY <2>3 DEF Has
    <3>2. PICK j \in DOMAIN t : t[j] = q
      BY <2>3 DEF Has
    <3>3. i = n + j - 1
      BY <3>1, <3>2, <1>4, <1>6 DEF NoRepeats
    <3> QED
      BY <3>3, <1>0, <1>3
  <2> QED
    BY <2>1, <2>2, <2>3 DEF NoRepeats
<1> QED
  BY <1>1, <1>2, <1>5, <1>6 DEF t, u

(* In a sequence without repeats a post counts once or not at all.         *)
LEMMA Counted ==
    ASSUME NEW S, NEW s \in Seq(S), NoRepeats(s), NEW p
    PROVE  Count(s, p) = IF Has(s, p) THEN 1 ELSE 0
<1> DEFINE at == {i \in DOMAIN s : s[i] = p}
<1>1. CASE Has(s, p)
  <2>1. PICK i \in DOMAIN s : s[i] = p
    BY <1>1 DEF Has
  <2>2. at = {i}
    BY <2>1 DEF NoRepeats
  <2>3. Cardinality({i}) = 1
    BY FS_Singleton
  <2> QED
    BY <1>1, <2>2, <2>3 DEF Count
<1>2. CASE ~Has(s, p)
  <2>1. at = {}
    BY <1>2 DEF Has
  <2> QED
    BY <1>2, <2>1, FS_EmptySet DEF Count
<1> QED
  BY <1>1, <1>2

(* The bytes of one post are its block's.                                  *)
LEMMA OneBlock ==
    ASSUME NEW s \in Seq(Posts), Len(s) = 1
    PROVE  Bytes(s) = Size[s[1]]
<1> DEFINE Sums(g) == g = [n \in 0..Len(s) |-> IF n = 0 THEN 0 ELSE g[n - 1] + Size[s[n]]]
           sum == CHOOSE g : g = [n \in 0..Len(s) |-> IF n = 0 THEN 0 ELSE g[n - 1] + Size[s[n]]]
           one == [n \in 0..Len(s) |-> IF n = 0 THEN 0 ELSE Size[s[1]]]
<1>0. s[1] \in Posts /\ Size[s[1]] \in Nat
  BY RoomAssumption
<1>1. one = [n \in 0..Len(s) |-> IF n = 0 THEN 0 ELSE one[n - 1] + Size[s[n]]]
  <2>1. \A n \in 0..Len(s) : n = 0 \/ n = 1
    OBVIOUS
  <2>2. \A n \in 0..Len(s) : one[n] = IF n = 0 THEN 0 ELSE one[n - 1] + Size[s[n]]
    BY <2>1, <1>0
  <2> QED
    BY <2>2
<1>2. \E g : Sums(g)
  <2> HIDE DEF one
  <2> QED
    BY <1>1
<1>3. sum = [n \in 0..Len(s) |-> IF n = 0 THEN 0 ELSE sum[n - 1] + Size[s[n]]]
  BY <1>2
<1>4. Bytes(s) = sum[Len(s)]
  BY Zenon DEF Bytes
<1> HIDE DEF sum
<1>5. sum[0] = 0 /\ sum[1] = sum[0] + Size[s[1]]
  BY <1>3
<1> QED
  BY <1>0, <1>4, <1>5

(* keep leaves the end of what there was, the new post with it.            *)
LEMMA TrimmedIs ==
    ASSUME NEW s \in Seq(Posts), NEW p \in Posts, Keepable(p), History > 0
    PROVE  \E n \in 1..(Len(s) + 1) :
             /\ Trimmed(Append(s, p)) = From(Append(s, p), n)
             /\ Len(s) + 1 - n < History
<1> DEFINE all == Append(s, p)
           fit == {n \in 1..Len(all) : Len(all) - n < History /\ Bytes(From(all, n)) <= HistoryBytes}
<1>1. all \in Seq(Posts) /\ Len(all) = Len(s) + 1 /\ all[Len(s) + 1] = p /\ Len(s) \in Nat
  BY AppendProperties, LenProperties
<1>2. Len(all) \in fit
  <2>1. Len(all) \in 1..(Len(all) + 1)
    BY <1>1
  <2>2. /\ From(all, Len(all)) \in Seq(Posts) /\ Len(From(all, Len(all))) = 1
        /\ From(all, Len(all))[1] = all[Len(all)]
    <3> HIDE DEF all
    <3>1. /\ From(all, Len(all)) \in Seq(Posts)
          /\ Len(From(all, Len(all))) = Len(all) - Len(all) + 1
          /\ \A i \in 1..(Len(all) - Len(all) + 1) : From(all, Len(all))[i] = all[Len(all) + i - 1]
      <4> DEFINE m == Len(all)
      <4>1. all \in Seq(Posts) /\ m \in 1..(Len(all) + 1)
        BY <2>1, <1>1
      <4> HIDE DEF m
      <4>2. /\ From(all, m) \in Seq(Posts)
            /\ Len(From(all, m)) = Len(all) - m + 1
            /\ \A i \in 1..(Len(all) - m + 1) : From(all, m)[i] = all[m + i - 1]
        BY <4>1, Cut
      <4> QED
        BY <4>2 DEF m
    <3> QED
      BY <3>1, <1>1
  <2>3. Bytes(From(all, Len(all))) = Size[p]
    <3> HIDE DEF all
    <3> QED
      BY <2>2, <1>1, OneBlock
  <2>4. Len(all) - Len(all) < History
    BY <1>1, RoomAssumption
  <2> QED
    BY <1>1, <2>3, <2>4 DEF Keepable
<1>3. fit \in SUBSET Nat
  OBVIOUS
<1>4. \E n \in fit : \A m \in fit : n <= m
  <2> HIDE DEF fit
  <2> QED
    BY <1>2, <1>3, LeastNumber
<1> DEFINE n == CHOOSE n \in fit : \A m \in fit : n <= m
<1>5. n \in fit
  <2> HIDE DEF fit
  <2> QED
    BY <1>4
<1>6. Trimmed(all) = From(all, n)
  BY DEF Trimmed
<1> HIDE DEF n
<1> QED
  BY <1>1, <1>5, <1>6

-----------------------------------------------------------------------------
(* References.                                                             *)

(* Those who can hold one are finitely many.                               *)
LEMMA FiniteHolders ==
    \A p : /\ IsFiniteSet(Tellers(p)) /\ Cardinality(Tellers(p)) \in Nat
           /\ IsFiniteSet(Rings(p)) /\ Cardinality(Rings(p)) \in Nat
           /\ IsFiniteSet(Hands(p)) /\ Cardinality(Hands(p)) \in Nat
<1> SUFFICES ASSUME NEW p
             PROVE  /\ IsFiniteSet(Tellers(p)) /\ Cardinality(Tellers(p)) \in Nat
                    /\ IsFiniteSet(Rings(p)) /\ Cardinality(Rings(p)) \in Nat
                    /\ IsFiniteSet(Hands(p)) /\ Cardinality(Hands(p)) \in Nat
  OBVIOUS
<1>1. IsFiniteSet(Index)
  BY RoomAssumption, FS_Interval DEF Index
<1>2. Tellers(p) \subseteq Speakers /\ Rings(p) \subseteq Index /\ Hands(p) \subseteq Conns
  BY DEF Tellers, Rings, Hands
<1> QED
  BY <1>1, <1>2, RoomAssumption, FS_Subset, FS_CardinalityType

(* One more holder, one fewer.                                             *)
LEMMA OneMore ==
    ASSUME NEW A, IsFiniteSet(A), NEW x, x \notin A
    PROVE  Cardinality(A \cup {x}) = Cardinality(A) + 1
BY FS_AddElement

(* A set with one member fewer.                                            *)
LEMMA OneFewer ==
    ASSUME NEW A, IsFiniteSet(A), NEW x \in A
    PROVE  Cardinality(A \ {x}) = Cardinality(A) - 1
BY FS_RemoveElement

(* What the counts are in a state of the room.                             *)
LEMMA Counts ==
    ASSUME Inv, NEW p \in Posts
    PROVE  /\ refs[p] = Cardinality(Tellers(p)) + Cardinality(Rings(p)) + Count(kept, p)
                        + Cardinality(Hands(p))
           /\ Count(kept, p) = IF Has(kept, p) THEN 1 ELSE 0
           /\ Count(kept, p) \in Nat
           /\ refs \in [Posts -> Nat]
<1>1. Count(kept, p) = IF Has(kept, p) THEN 1 ELSE 0
  BY Counted DEF Inv, TypeOK, PostsApart
<1>2. refs \in [Posts -> Nat]
  BY DEF Inv, TypeOK
<1>3. refs[p] = Cardinality(Tellers(p)) + Cardinality(Rings(p)) + Count(kept, p)
                + Cardinality(Hands(p))
  BY DEF Inv, RefsAreExact, Tellers, Rings, Hands
<1> QED
  BY <1>1, <1>2, <1>3

(* Counts that are exact are natural numbers, so the types hold.           *)
LEMMA ExactIsNatural ==
    Shaped /\ NoRepeats(kept) /\ (\A p \in Posts : Exact(p)) /\ refs \in [Posts -> Int]
        => TypeOK /\ RefsAreExact
<1> SUFFICES ASSUME Shaped, NoRepeats(kept), \A p \in Posts : Exact(p), refs \in [Posts -> Int]
             PROVE  TypeOK /\ RefsAreExact
  OBVIOUS
<1>1. \A p \in Posts : Count(kept, p) \in Nat
  <2> TAKE p \in Posts
  <2>1. Count(kept, p) = IF Has(kept, p) THEN 1 ELSE 0
    BY Counted DEF Shaped
  <2> QED
    BY <2>1
<1>2. \A p \in Posts : refs[p] \in Nat
  BY <1>1, FiniteHolders DEF Exact
<1>3. TypeOK
  BY <1>2 DEF TypeOK, Shaped
<1>4. RefsAreExact
  BY DEF RefsAreExact, Exact, Tellers, Rings, Hands
<1> QED
  BY <1>3, <1>4

(* What a step has to show of the references.                              *)
LEMMA ExactNext ==
    ASSUME Shaped', PostsApart', \A p \in Posts : Exact(p)', refs' \in [Posts -> Int]
    PROVE  TypeOK' /\ RefsAreExact'
<1>1. (Shaped /\ NoRepeats(kept) /\ (\A p \in Posts : Exact(p)) /\ refs \in [Posts -> Int])'
        => TypeOK' /\ RefsAreExact'
  BY ExactIsNatural, PTL
<1>2. (Shaped /\ NoRepeats(kept) /\ (\A p \in Posts : Exact(p)) /\ refs \in [Posts -> Int])'
  BY DEF PostsApart
<1> QED
  BY <1>1, <1>2

(* release and retain, of one post and of none twice in s.                 *)
LEMMA Released1 ==
    ASSUME NEW r \in [Posts -> Int], NEW s \in Seq(Posts), NoRepeats(s)
    PROVE  /\ Released(r, s) \in [Posts -> Int] /\ Retained(r, s) \in [Posts -> Int]
           /\ \A p \in Posts : /\ Released(r, s)[p] = r[p] - (IF Has(s, p) THEN 1 ELSE 0)
                               /\ Retained(r, s)[p] = r[p] + (IF Has(s, p) THEN 1 ELSE 0)
<1>1. \A p \in Posts : Count(s, p) = IF Has(s, p) THEN 1 ELSE 0
  BY Counted
<1> QED
  BY <1>1 DEF Released, Retained

(* A list of one post.                                                     *)
LEMMA OnePost ==
    ASSUME NEW p \in Posts
    PROVE  <<p>> \in Seq(Posts) /\ NoRepeats(<<p>>) /\ \A q : Has(<<p>>, q) <=> q = p
BY Short

-----------------------------------------------------------------------------
(* Each step keeps Inv.                                                    *)

LEMMA InvInit == Init => Inv
<1> SUFFICES ASSUME Init PROVE Inv
  OBVIOUS
<1>1. Shaped
  BY RoomAssumption
  DEF Init, Shaped, Chairs, Talks, Places, Tickets, Stays, Quiet, Away, NoTicket, NoStay, Index
<1>2. Listed
  BY RoomAssumption DEF Init, Listed, Index
<1>3. Seated
  BY DEF Init, Seated, Away
<1>4. Talking
  BY RoomAssumption DEF Init, Talking, Quiet
<1>5. PostsApart
  BY Short DEF Init, PostsApart, Away, Quiet
<1>6. \A p \in Posts : Exact(p)
  <2> TAKE p \in Posts
  <2>1. p # 0
    BY DEF Posts
  <2>2. Tellers(p) = {} /\ Rings(p) = {} /\ Hands(p) = {}
    BY <2>1, Short DEF Init, Tellers, Rings, Hands, Quiet, Away
  <2>3. Count(kept, p) = 0
    BY Counted, Short, <1>1 DEF Init, Shaped
  <2> QED
    BY <2>2, <2>3, FS_EmptySet DEF Init, Exact
<1>7. TypeOK /\ RefsAreExact
  <2>1. refs \in [Posts -> Int]
    BY DEF Init
  <2> QED
    BY <1>1, <1>5, <1>6, <2>1, ExactIsNatural DEF PostsApart
<1>8. BellIsHeard
  BY DEF Init, BellIsHeard, Away
<1> QED
  BY <1>2, <1>3, <1>4, <1>5, <1>7, <1>8 DEF Inv

(* Reserve: a new post, held by its speaker alone.                         *)
LEMMA ReserveKeeps ==
    ASSUME Inv, NEW f \in Speakers, Reserve(f)
    PROVE  Inv'
<1> DEFINE q == made + 1
<1>1. /\ talk[f].pc = "quiet" /\ made < MaxPosts /\ made' = q
      /\ refs' = [refs EXCEPT ![q] = 1]
      /\ talk' = [talk EXCEPT ![f] = [pc |-> "reserved", post |-> q, at |-> 0]]
      /\ UNCHANGED <<seat, roll, here, kept, roster, conn, bell, left, said, seen, since>>
  BY DEF Reserve
<1>2. /\ TypeOK /\ Listed /\ Seated /\ Talking /\ PostsApart /\ BellIsHeard
  BY DEF Inv
<1>3. q \in Posts /\ q \in Nat /\ made \in Nat /\ talk \in [Speakers -> Talks]
  BY <1>1, <1>2, RoomAssumption DEF TypeOK, Posts
<1>4. [pc |-> "reserved", post |-> q, at |-> 0] \in Talks
  BY <1>3, RoomAssumption DEF Talks
<1>5. /\ talk' \in [Speakers -> Talks]
      /\ talk'[f] = [pc |-> "reserved", post |-> q, at |-> 0]
      /\ \A g \in Speakers : g # f => talk'[g] = talk[g]
  BY <1>1, <1>3, <1>4
<1>6. \A g \in Speakers : talk[g].post \in Nat /\ talk[g].post <= made /\ talk[f].post = 0
  BY <1>1, <1>2, <1>3 DEF Talking, Talks, Posts
<1>7. Shaped'
  BY <1>1, <1>2, <1>3, <1>5 DEF Shaped, TypeOK, Posts
<1>8. Listed' /\ Seated'
  BY <1>1, <1>2 DEF Listed, Seated, StillMine, Mine
<1>9. Talking'
  BY <1>1, <1>2, <1>3, <1>5, <1>6 DEF Talking, TypeOK
<1>10. \A p \in Posts : Handed(p) => Handed(p)' /\ p # q
  BY <1>1, <1>3, <1>5 DEF Handed, Posts
<1>11. PostsApart'
  BY <1>1, <1>2, <1>5, <1>10 DEF PostsApart
<1>12. \A p \in Posts : Exact(p)'
  <2> TAKE p \in Posts
  <2>1. Rings(p)' = Rings(p) /\ Hands(p)' = Hands(p) /\ Count(kept, p)' = Count(kept, p)
    BY <1>1 DEF Rings, Hands, Count
  <2>2. CASE p = q
    <3>1. ~Has(kept, p) /\ Rings(p) = {} /\ Hands(p) = {}
      BY <1>2, <1>10, <2>2 DEF PostsApart, Rings, Hands
    <3>2. Tellers(p)' = {f}
      BY <1>3, <1>5, <1>6, <2>2 DEF Tellers
    <3>3. refs'[p] = 1
      BY <1>1, <1>2, <1>3, <2>2 DEF TypeOK
    <3>4. Cardinality({f}) = 1 /\ Cardinality({}) = 0
      BY FS_Singleton, FS_EmptySet
    <3>5. Count(kept, p) = 0
      BY <3>1, Counts
    <3> QED
      BY <2>1, <3>1, <3>2, <3>3, <3>4, <3>5 DEF Exact
  <2>3. CASE p # q
    <3>1. Tellers(p)' = Tellers(p)
      BY <1>5, <1>6, <2>3 DEF Tellers, Posts
    <3>2. refs'[p] = refs[p]
      BY <1>1, <1>2, <2>3 DEF TypeOK
    <3> QED
      BY <2>1, <3>1, <3>2, Counts DEF Exact
  <2> QED
    BY <2>2, <2>3
<1>13. refs' \in [Posts -> Int]
  BY <1>1, <1>2, <1>3 DEF TypeOK
<1>14. BellIsHeard'
  BY <1>1, <1>2 DEF BellIsHeard, Mine
<1> QED
  BY <1>7, <1>8, <1>9, <1>11, <1>12, <1>13, <1>14, ExactNext DEF Inv

(* LockRoster: the walk begins, and no seat has the post yet.              *)
LEMMA LockRosterKeeps ==
    ASSUME Inv, NEW f \in Speakers, LockRoster(f)
    PROVE  Inv'
<1>1. /\ talk[f].pc = "reserved" /\ roster = Nobody /\ roster' = f
      /\ talk' = [talk EXCEPT ![f].pc = "putting"]
      /\ said' = Append(said, talk[f].post)
      /\ UNCHANGED <<seat, roll, here, kept, refs, made, conn, bell, left, seen, since>>
  BY DEF LockRoster
<1>2. /\ TypeOK /\ Listed /\ Seated /\ Talking /\ PostsApart /\ BellIsHeard /\ RefsAreExact
  BY DEF Inv
<1>3. /\ talk \in [Speakers -> Talks] /\ talk[f].post # 0 /\ talk[f].post \in Posts
      /\ talk[f].at \in 0..Seats /\ Nobody \notin Speakers
  BY <1>1, <1>2, RoomAssumption DEF TypeOK, Talking, Talks
<1>4. /\ talk' \in [Speakers -> Talks] /\ talk'[f].pc = "putting"
      /\ \A g \in Speakers : talk'[g].post = talk[g].post /\ talk'[g].at = talk[g].at
      /\ \A g \in Speakers : g # f => talk'[g] = talk[g]
  BY <1>1, <1>3 DEF Talks
<1>5. TypeOK'
  <2>1. said' \in Seq(Posts)
    BY <1>1, <1>2, <1>3 DEF TypeOK
  <2> QED
    BY <1>1, <1>2, <1>4, <2>1 DEF TypeOK
<1>6. Listed' /\ Seated'
  BY <1>1, <1>2 DEF Listed, Seated, StillMine, Mine
<1>7. \A g \in Speakers : talk[g].pc # "putting"
  BY <1>1, <1>2, <1>3 DEF Talking
<1>8. Talking'
  BY <1>1, <1>2, <1>3, <1>4, <1>7 DEF Talking
<1>9. ~Handed(talk[f].post)
  BY <1>1 DEF Handed
<1>14. said' \in Seq(Posts) /\ \A p : Has(said', p) <=> Has(said, p) \/ p = talk[f].post
  <2>1. said \in Seq(Posts)
    BY <1>2 DEF TypeOK
  <2> QED
    BY <1>1, <1>3, <2>1, Appended
<1>10. \A p \in Posts : Handed(p) => Handed(p)'
  BY <1>1, <1>4, <1>14 DEF Handed
<1>11. PostsApart'
  <2>1. \A g \in Speakers : talk'[g].pc = "putting" => g = f /\ Has(said', talk'[g].post)
    BY <1>4, <1>7, <1>14
  <2>2. /\ ~Has(kept, talk[f].post)
        /\ \A s \in Index : ~Has(seat[s].ring, talk[f].post)
    BY <1>2, <1>3, <1>9 DEF PostsApart
  <2>3. \A i \in Index : roll[i] \in Index
    BY <1>2 DEF TypeOK
  <2> QED
    BY <1>1, <1>2, <1>4, <1>10, <2>1, <2>2, <2>3 DEF PostsApart
<1>12. RefsAreExact'
  <2>1. \A p : Tellers(p)' = Tellers(p)
    BY <1>4 DEF Tellers
  <2> QED
    BY <1>1, <1>2, <2>1 DEF RefsAreExact, Tellers, Count
<1>13. BellIsHeard'
  BY <1>1, <1>2 DEF BellIsHeard, Mine
<1> QED
  BY <1>5, <1>6, <1>8, <1>11, <1>12, <1>13 DEF Inv

(* A speaker's own reference goes, and the speaker with it.                *)
LEMMA SpeakerDone ==
    ASSUME Inv, NEW f \in Speakers, talk[f].pc \in {"reserved", "said"},
           refs' = Released(refs, <<talk[f].post>>),
           talk' = [talk EXCEPT ![f] = Quiet],
           left' \in [sits : Nat, cancels : Nat],
           UNCHANGED <<seat, roll, here, kept, made, roster, conn, bell, said, seen, since>>
    PROVE  Inv'
<1> DEFINE q == talk[f].post
<1>2. /\ TypeOK /\ Listed /\ Seated /\ Talking /\ PostsApart /\ BellIsHeard
  BY DEF Inv
<1>3. /\ talk \in [Speakers -> Talks] /\ q # 0 /\ q \in Posts
      /\ Quiet \in Talks /\ Nobody \notin Speakers
  BY <1>2, RoomAssumption DEF TypeOK, Talking, Talks, Quiet
<1>4. /\ talk' \in [Speakers -> Talks] /\ talk'[f] = Quiet
      /\ \A g \in Speakers : g # f => talk'[g] = talk[g]
  BY <1>3
<1>5. Shaped'
  BY <1>2, <1>4 DEF Shaped, TypeOK
<1>6. Listed' /\ Seated'
  BY <1>2 DEF Listed, Seated, StillMine, Mine
<1>7. Quiet.pc = "quiet" /\ Quiet.post = 0 /\ made \in Nat
  BY <1>2, RoomAssumption DEF Quiet, TypeOK
<1>8. Talking'
  BY <1>2, <1>4, <1>7 DEF Talking
<1>9. \A p \in Posts : Handed(p) => Handed(p)'
  BY <1>4, <1>7 DEF Handed
<1>10. PostsApart'
  BY <1>2, <1>4, <1>7, <1>9 DEF PostsApart
<1>11. /\ refs' \in [Posts -> Int]
       /\ \A p \in Posts : refs'[p] = refs[p] - (IF p = q THEN 1 ELSE 0)
  <2>1. refs \in [Posts -> Int]
    BY <1>2 DEF TypeOK
  <2>2. <<q>> \in Seq(Posts) /\ NoRepeats(<<q>>) /\ \A p : Has(<<q>>, p) <=> p = q
    BY <1>3, OnePost
  <2>3. /\ refs' \in [Posts -> Int]
        /\ \A p \in Posts : refs'[p] = refs[p] - (IF Has(<<q>>, p) THEN 1 ELSE 0)
    BY <2>1, <2>2, Released1
  <2> QED
    BY <2>2, <2>3
<1>12. \A p \in Posts : Exact(p)'
  <2> TAKE p \in Posts
  <2>1. Rings(p)' = Rings(p) /\ Hands(p)' = Hands(p) /\ Count(kept, p)' = Count(kept, p)
    BY DEF Rings, Hands, Count
  <2>2. CASE p = q
    <3>1. f \in Tellers(p) /\ Tellers(p)' = Tellers(p) \ {f}
      BY <1>3, <1>4, <1>7, <2>2 DEF Tellers
    <3>2. Cardinality(Tellers(p)') = Cardinality(Tellers(p)) - 1
      BY <3>1, FiniteHolders, OneFewer
    <3> QED
      BY <1>11, <2>1, <2>2, <3>2, Counts, FiniteHolders DEF Exact
  <2>3. CASE p # q
    <3>1. Tellers(p)' = Tellers(p)
      BY <1>4, <1>7, <2>3 DEF Tellers, Posts
    <3> QED
      BY <1>11, <2>1, <2>3, <3>1, Counts DEF Exact
  <2> QED
    BY <2>2, <2>3
<1>13. BellIsHeard'
  BY <1>2 DEF BellIsHeard, Mine
<1> QED
  BY <1>5, <1>6, <1>8, <1>10, <1>11, <1>12, <1>13, ExactNext DEF Inv

(* RosterRefused: the speaker lets go of a post nobody else has.           *)
LEMMA RosterRefusedKeeps ==
    ASSUME Inv, NEW f \in Speakers, RosterRefused(f)
    PROVE  Inv'
<1>1. left' \in [sits : Nat, cancels : Nat]
  <2>1. left \in [sits : Nat, cancels : Nat]
    BY DEF Inv, TypeOK
  <2>2. left.cancels > 0 /\ left' = [left EXCEPT !.cancels = @ - 1]
    BY DEF RosterRefused
  <2> QED
    BY <2>1, <2>2
<1> QED
  BY <1>1, SpeakerDone DEF RosterRefused

(* ReleaseOwn: the speaker lets go of its own reference.                   *)
LEMMA ReleaseOwnKeeps ==
    ASSUME Inv, NEW f \in Speakers, ReleaseOwn(f)
    PROVE  Inv'
<1>1. left' \in [sits : Nat, cancels : Nat]
  BY DEF ReleaseOwn, Inv, TypeOK
<1> QED
  BY <1>1, SpeakerDone DEF ReleaseOwn

(* What put does to a chair.                                               *)
LEMMA PutIs ==
    ASSUME NEW e \in Chairs, NEW p \in Posts, Len(e.ring) <= Backlog, NoRepeats(e.ring),
           ~Has(e.ring, p)
    PROVE  LET now == Put(e, p)
           IN  /\ now \in Chairs /\ Len(now.ring) <= Backlog /\ NoRepeats(now.ring)
               /\ now.taken = e.taken /\ now.era = e.era /\ now.slot = e.slot
               /\ now.waker = e.waker /\ now.text_only = e.text_only
               /\ \/ now.ring = e.ring /\ now.dropped = e.dropped + 1
                  \/ /\ ~Full(e) /\ now.ring = Append(e.ring, p) /\ now.dropped = e.dropped
                     /\ now.ring # e.ring
                     /\ \A q : Has(now.ring, q) <=> Has(e.ring, q) \/ q = p
                  \/ /\ Full(e) /\ now.ring = Append(Tail(e.ring), p) /\ now.dropped = e.dropped + 1
                     /\ now.ring # e.ring /\ e.ring # <<>> /\ Has(e.ring, Head(e.ring))
                     /\ Head(e.ring) \in Posts
                     /\ \A q : Has(now.ring, q) <=> (Has(e.ring, q) /\ q # Head(e.ring)) \/ q = p
<1> DEFINE now == Put(e, p)
<1>0. /\ e.ring \in Seq(Posts) /\ Len(e.ring) \in Nat /\ Backlog \in Nat \ {0} /\ e.dropped \in Nat
      /\ e.slot \in Index /\ e.taken \in BOOLEAN /\ e.era \in Nat /\ e.text_only \in BOOLEAN
      /\ e.waker \in Conns \cup {Nobody}
  BY RoomAssumption, LenProperties DEF Chairs
<1>1. CASE Unwritable(e, p) \/ (Full(e) /\ ~DropOldest)
  <2>1. now = [e EXCEPT !.dropped = @ + 1]
    BY <1>1 DEF Put
  <2>2. /\ now \in Chairs /\ now.ring = e.ring /\ now.dropped = e.dropped + 1
        /\ now.taken = e.taken /\ now.era = e.era /\ now.slot = e.slot
        /\ now.waker = e.waker /\ now.text_only = e.text_only
    BY <2>1, <1>0 DEF Chairs
  <2> HIDE DEF now
  <2> QED
    BY <2>2 DEF now
<1>2. CASE ~(Unwritable(e, p) \/ (Full(e) /\ ~DropOldest)) /\ Full(e)
  <2>1. now = [e EXCEPT !.dropped = @ + 1, !.ring = Append(Tail(@), p)]
    BY <1>2 DEF Put
  <2>2. e.ring # <<>>
    BY <1>0, <1>2, EmptySeq DEF Full
  <2>3. /\ Tail(e.ring) \in Seq(Posts) /\ Len(Tail(e.ring)) = Len(e.ring) - 1
        /\ Head(e.ring) \in Posts /\ Has(e.ring, Head(e.ring)) /\ NoRepeats(Tail(e.ring))
        /\ \A q : Has(Tail(e.ring), q) <=> Has(e.ring, q) /\ q # Head(e.ring)
    BY <1>0, <2>2, Behead
  <2> DEFINE r == Append(Tail(e.ring), p)
  <2>4. /\ r \in Seq(Posts) /\ Len(r) = Len(e.ring) /\ NoRepeats(r)
        /\ \A q : Has(r, q) <=> (Has(e.ring, q) /\ q # Head(e.ring)) \/ q = p
    <3>1. ~Has(Tail(e.ring), p)
      BY <2>3
    <3>2. /\ r \in Seq(Posts) /\ Len(r) = Len(Tail(e.ring)) + 1 /\ NoRepeats(r)
          /\ \A q : Has(r, q) <=> Has(Tail(e.ring), q) \/ q = p
      <4> DEFINE u == Tail(e.ring)
      <4>1. u \in Seq(Posts) /\ NoRepeats(u) /\ ~Has(u, p)
        BY <2>3, <3>1
      <4> HIDE DEF u
      <4>2. /\ Append(u, p) \in Seq(Posts) /\ Len(Append(u, p)) = Len(u) + 1 /\ NoRepeats(Append(u, p))
            /\ \A q : Has(Append(u, p), q) <=> Has(u, q) \/ q = p
        BY <4>1, Appended
      <4> QED
        BY <4>2 DEF u
    <3> QED
      BY <2>3, <3>2, <1>0
  <2> HIDE DEF r
  <2>5. /\ now \in Chairs /\ now.ring = r /\ now.dropped = e.dropped + 1
        /\ now.taken = e.taken /\ now.era = e.era /\ now.slot = e.slot
        /\ now.waker = e.waker /\ now.text_only = e.text_only
    <3>1. now = [e EXCEPT !.dropped = @ + 1, !.ring = r]
      BY <2>1 DEF r
    <3> HIDE DEF now
    <3>2. now = [taken |-> e.taken, era |-> e.era, slot |-> e.slot, waker |-> e.waker,
                 text_only |-> e.text_only, ring |-> r, dropped |-> e.dropped + 1]
      BY <3>1 DEF Chairs
    <3> QED
      BY <3>2, <2>4, <1>0 DEF Chairs
  <2>6. r # e.ring
    BY <2>4
  <2> HIDE DEF now
  <2>7. Full(e) /\ now.ring = Append(Tail(e.ring), p)
    BY <1>2, <2>5 DEF r
  <2> QED
    BY <2>2, <2>3, <2>4, <2>5, <2>6, <2>7 DEF now
<1>3. CASE ~(Unwritable(e, p) \/ (Full(e) /\ ~DropOldest)) /\ ~Full(e)
  <2>1. now = [e EXCEPT !.ring = Append(@, p)]
    BY <1>3 DEF Put
  <2> DEFINE r == Append(e.ring, p)
  <2>2. /\ r \in Seq(Posts) /\ Len(r) = Len(e.ring) + 1 /\ NoRepeats(r)
        /\ \A q : Has(r, q) <=> Has(e.ring, q) \/ q = p
    BY <1>0, Appended
  <2> HIDE DEF r
  <2>3. Len(r) <= Backlog /\ r # e.ring
    BY <1>0, <1>3, <2>2 DEF Full
  <2>4. /\ now \in Chairs /\ now.ring = r /\ now.dropped = e.dropped
        /\ now.taken = e.taken /\ now.era = e.era /\ now.slot = e.slot
        /\ now.waker = e.waker /\ now.text_only = e.text_only
    <3>1. now = [e EXCEPT !.ring = r]
      BY <2>1 DEF r
    <3> HIDE DEF now
    <3> QED
      BY <3>1, <2>2, <1>0 DEF Chairs
  <2> HIDE DEF now
  <2>5. now.ring = Append(e.ring, p)
    BY <2>4 DEF r
  <2> QED
    BY <1>3, <2>2, <2>3, <2>4, <2>5 DEF now
<1> QED
  BY <1>1, <1>2, <1>3

(* Where a broadcast stands: the seat it has come to, and its post.        *)
LEMMA PuttingAt ==
    ASSUME Inv, NEW f \in Speakers, talk[f].pc = "putting", talk[f].at < here
    PROVE  LET i == talk[f].at
               s == roll[i]
               p == talk[f].post
           IN  /\ i \in Index /\ i + 1 \in 0..Seats /\ s \in Index
               /\ seat[s] \in Chairs /\ seat[s].taken /\ seat[s].slot = i
               /\ Len(seat[s].ring) <= Backlog /\ NoRepeats(seat[s].ring)
               /\ seat[s].waker \in Conns /\ conn[seat[s].waker].ticket.index = s
               /\ p \in Posts /\ Handed(p) /\ ~Has(seat[s].ring, p)
<1> DEFINE i == talk[f].at
           s == roll[i]
           p == talk[f].post
<1>1. TypeOK /\ Listed /\ Seated /\ Talking /\ PostsApart
  BY DEF Inv
<1>2. /\ talk[f] \in Talks /\ here \in 0..Seats /\ Seats \in Nat
  BY <1>1, RoomAssumption DEF TypeOK
<1>3. i \in Index /\ i + 1 \in 0..Seats
  BY <1>2 DEF Talks, Index
<1>4. s \in Index /\ seat[s] \in Chairs /\ Len(seat[s].ring) <= Backlog
  BY <1>1, <1>3 DEF TypeOK
<1>5. seat[s].taken /\ seat[s].slot = i
  BY <1>1, <1>3 DEF Listed
<1>6. seat[s].waker \in Conns /\ conn[seat[s].waker].ticket.index = s
  BY <1>1, <1>4, <1>5 DEF Seated
<1>7. p \in Posts
  BY <1>1, <1>2 DEF Talks, Talking
<1>8. Handed(p)
  <2>1. p <= made /\ p # 0
    BY <1>1, <1>7 DEF Talking, Posts
  <2>2. \A g \in Speakers : talk[g].pc = "reserved" => talk[g].post # p
    BY <1>1, <2>1 DEF Talking
  <2>3. Has(said, p)
    BY <1>1 DEF PostsApart
  <2> QED
    BY <2>1, <2>2, <2>3 DEF Handed
<1>9. NoRepeats(seat[s].ring) /\ ~Has(seat[s].ring, p)
  BY <1>1, <1>2, <1>3, <1>4 DEF PostsApart, Talks
<1> QED
  BY <1>3, <1>4, <1>5, <1>6, <1>7, <1>8, <1>9

(* PutNext: the ring of one more seat takes the post, and may drop its     *)
(* oldest.                                                                 *)
LEMMA PutNextKeeps ==
    ASSUME Inv, NEW f \in Speakers, PutNext(f)
    PROVE  Inv'
<1> DEFINE i == talk[f].at
           s == roll[i]
           e == seat[s]
           p == talk[f].post
           now == Put(e, p)
           w == e.waker
<1>1. /\ talk[f].pc = "putting" /\ i < here
      /\ seat' = [seat EXCEPT ![s] = now]
      /\ refs' = IF now.ring = e.ring THEN refs
                 ELSE IF Full(e) THEN Released(Retained(refs, <<p>>), <<Head(e.ring)>>)
                 ELSE Retained(refs, <<p>>)
      /\ bell' = IF now.ring # e.ring /\ w # Nobody THEN [bell EXCEPT ![w] = TRUE] ELSE bell
      /\ talk' = [talk EXCEPT ![f].at = @ + 1]
      /\ UNCHANGED <<roll, here, kept, made, roster, conn, left, said, seen, since>>
  BY DEF PutNext
<1>2. /\ TypeOK /\ Listed /\ Seated /\ Talking /\ PostsApart /\ BellIsHeard
  BY DEF Inv
<1>3. /\ i \in Index /\ i + 1 \in 0..Seats /\ s \in Index
      /\ e \in Chairs /\ e.taken /\ e.slot = i
      /\ Len(e.ring) <= Backlog /\ NoRepeats(e.ring)
      /\ w \in Conns /\ conn[w].ticket.index = s
      /\ p \in Posts /\ Handed(p) /\ ~Has(e.ring, p)
  BY <1>1, PuttingAt
<1>4. /\ now \in Chairs /\ Len(now.ring) <= Backlog /\ NoRepeats(now.ring)
      /\ now.taken = e.taken /\ now.era = e.era /\ now.slot = e.slot
      /\ now.waker = e.waker /\ now.text_only = e.text_only
      /\ \/ now.ring = e.ring /\ now.dropped = e.dropped + 1
         \/ /\ ~Full(e) /\ now.ring = Append(e.ring, p) /\ now.dropped = e.dropped
            /\ now.ring # e.ring
            /\ \A q : Has(now.ring, q) <=> Has(e.ring, q) \/ q = p
         \/ /\ Full(e) /\ now.ring = Append(Tail(e.ring), p) /\ now.dropped = e.dropped + 1
            /\ now.ring # e.ring /\ e.ring # <<>> /\ Has(e.ring, Head(e.ring))
            /\ Head(e.ring) \in Posts
            /\ \A q : Has(now.ring, q) <=> (Has(e.ring, q) /\ q # Head(e.ring)) \/ q = p
  <2> HIDE DEF e, p
  <2> QED
    BY <1>3, PutIs
<1> HIDE DEF now
<1>5. /\ seat' \in [Index -> Chairs] /\ seat'[s] = now
      /\ \A r \in Index : r # s => seat'[r] = seat[r]
  BY <1>1, <1>2, <1>3, <1>4 DEF TypeOK
<1>6. /\ talk' \in [Speakers -> Talks]
      /\ \A g \in Speakers : talk'[g].post = talk[g].post /\ talk'[g].pc = talk[g].pc
      /\ talk'[f].at = i + 1
      /\ \A g \in Speakers : g # f => talk'[g] = talk[g]
  <2>1. talk \in [Speakers -> Talks]
    BY <1>2 DEF TypeOK
  <2> QED
    BY <1>1, <1>3, <2>1 DEF Talks
<1>7. \A r \in Index : /\ seat'[r].taken = seat[r].taken /\ seat'[r].era = seat[r].era
                       /\ seat'[r].slot = seat[r].slot /\ seat'[r].waker = seat[r].waker
  BY <1>4, <1>5
<1>8. bell' \in [Conns -> BOOLEAN] /\ \A c \in Conns : bell[c] => bell'[c]
  BY <1>1, <1>2, <1>3 DEF TypeOK
<1>9. Shaped'
  <2>1. \A r \in Index : Len(seat'[r].ring) <= Backlog
    BY <1>2, <1>4, <1>5 DEF TypeOK
  <2> QED
    BY <1>1, <1>2, <1>5, <1>6, <1>8, <2>1 DEF Shaped, TypeOK
<1>10. Listed'
  <2>1. \A j \in Index : roll[j] \in Index
    BY <1>2 DEF TypeOK
  <2>2. /\ \A j, k \in Index : roll'[j] = roll'[k] => j = k
        /\ \A r \in Index : \E j \in Index : roll'[j] = r
    BY <1>1, <1>2 DEF Listed
  <2>3. \A j \in Index : seat'[roll'[j]].taken <=> j < here'
    BY <1>1, <1>2, <1>7, <2>1 DEF Listed
  <2>4. \A j \in Index : j < here' => seat'[roll'[j]].slot = j
    BY <1>1, <1>2, <1>7, <2>1 DEF Listed
  <2>5. \A r \in Index : ~seat'[r].taken => seat'[r].ring = <<>>
    <3> SUFFICES ASSUME NEW r \in Index, ~seat'[r].taken PROVE seat'[r].ring = <<>>
      OBVIOUS
    <3>1. ~seat[r].taken
      BY <1>7
    <3>2. r # s
      BY <1>3, <3>1
    <3> QED
      BY <1>2, <1>5, <3>1, <3>2 DEF Listed
  <2> QED
    BY <2>2, <2>3, <2>4, <2>5 DEF Listed
<1>11. Seated'
  BY <1>1, <1>2, <1>7 DEF Seated, StillMine, Mine
<1>12. Talking'
  BY <1>1, <1>2, <1>6 DEF Talking
<1>13. \A q \in Posts : Handed(q) => Handed(q)'
  BY <1>1, <1>6 DEF Handed
<1>14. \A q \in Posts : Has(now.ring, q) => Handed(q)
  BY <1>2, <1>3, <1>4 DEF PostsApart
<1>15. PostsApart'
  <2>1. \A r \in Index : /\ NoRepeats(seat'[r].ring)
                         /\ \A q \in Posts : Has(seat'[r].ring, q) => Handed(q)
    BY <1>2, <1>4, <1>5, <1>14 DEF PostsApart
  <2>2. ASSUME NEW g \in Speakers, talk'[g].pc = "putting"
        PROVE  /\ Has(said, talk'[g].post) /\ ~Has(kept, talk'[g].post)
               /\ \A j \in Index : talk'[g].at <= j /\ j < here => ~Has(seat'[roll[j]].ring, talk'[g].post)
    <3>1. g = f
      BY <1>1, <1>2, <1>6, <2>2 DEF Talking
    <3>2. Has(said, p) /\ ~Has(kept, p) /\ \A j \in Index : i <= j /\ j < here => ~Has(seat[roll[j]].ring, p)
      BY <1>1, <1>2 DEF PostsApart
    <3>3. \A j \in Index : i + 1 <= j => roll[j] # s /\ roll[j] \in Index /\ i <= j
      <4> TAKE j \in Index
      <4>1. roll[j] \in Index /\ (roll[j] = roll[i] => j = i)
        BY <1>2, <1>3 DEF Listed, TypeOK
      <4>2. i + 1 <= j => i <= j /\ j # i
        BY <1>3 DEF Index
      <4> QED
        BY <4>1, <4>2
    <3> QED
      BY <1>5, <1>6, <3>1, <3>2, <3>3
  <2> QED
    BY <1>1, <1>2, <1>13, <2>1, <2>2 DEF PostsApart
<1>16. refs \in [Posts -> Int]
  BY <1>2 DEF TypeOK
<1>17. /\ Retained(refs, <<p>>) \in [Posts -> Int]
       /\ \A q \in Posts : Retained(refs, <<p>>)[q] = refs[q] + (IF q = p THEN 1 ELSE 0)
  <2> HIDE DEF p
  <2>1. <<p>> \in Seq(Posts) /\ NoRepeats(<<p>>) /\ \A q : Has(<<p>>, q) <=> q = p
    BY <1>3, OnePost
  <2>2. /\ Retained(refs, <<p>>) \in [Posts -> Int]
        /\ \A q \in Posts : Retained(refs, <<p>>)[q] = refs[q] + (IF Has(<<p>>, q) THEN 1 ELSE 0)
    BY <1>16, <2>1, Released1
  <2> QED
    BY <2>1, <2>2
<1>18. \A q \in Posts : /\ Tellers(q)' = Tellers(q) /\ Hands(q)' = Hands(q)
                        /\ Count(kept, q)' = Count(kept, q)
                        /\ Rings(q)' = IF Has(now.ring, q) THEN Rings(q) \cup {s} ELSE Rings(q) \ {s}
  <2> TAKE q \in Posts
  <2>1. Tellers(q)' = Tellers(q) /\ Hands(q)' = Hands(q) /\ Count(kept, q)' = Count(kept, q)
    BY <1>1, <1>6 DEF Tellers, Hands, Count
  <2>2. Rings(q)' = IF Has(now.ring, q) THEN Rings(q) \cup {s} ELSE Rings(q) \ {s}
    BY <1>3, <1>5 DEF Rings
  <2> QED
    BY <2>1, <2>2
<1>19. \A q \in Posts : s \in Rings(q) <=> Has(e.ring, q)
  BY <1>3 DEF Rings
<1>20. /\ refs' \in [Posts -> Int] /\ \A q \in Posts : Exact(q)'
  <2>1. CASE now.ring = e.ring
    <3>1. refs' = refs
      BY <1>1, <2>1
    <3>2. \A q \in Posts : Rings(q)' = Rings(q)
      BY <1>18, <1>19, <2>1
    <3> QED
      BY <1>16, <1>18, <3>1, <3>2, Counts DEF Exact
  <2>2. CASE ~Full(e) /\ now.ring # e.ring
    <3>1. refs' = Retained(refs, <<p>>)
      BY <1>1, <2>2
    <3>2. ASSUME NEW q \in Posts PROVE Exact(q)'
      <4>1. CASE q = p
        <5>1. s \notin Rings(q) /\ Rings(q)' = Rings(q) \cup {s}
          BY <1>3, <1>4, <1>18, <1>19, <2>2, <4>1
        <5>2. Cardinality(Rings(q)') = Cardinality(Rings(q)) + 1
          BY <5>1, FiniteHolders, OneMore
        <5> QED
          BY <1>17, <1>18, <3>1, <4>1, <5>2, Counts, FiniteHolders DEF Exact
      <4>2. CASE q # p
        <5>1. Rings(q)' = Rings(q)
          <6>1. Has(now.ring, q) <=> s \in Rings(q)
            BY <1>4, <1>19, <2>2, <4>2
          <6> QED
            BY <1>18, <6>1
        <5> QED
          BY <1>17, <1>18, <3>1, <4>2, <5>1, Counts DEF Exact
      <4> QED
        BY <4>1, <4>2
    <3> QED
      BY <1>17, <3>1, <3>2
  <2>3. CASE Full(e) /\ now.ring # e.ring
    <3> DEFINE h == Head(e.ring)
    <3>1. h \in Posts /\ h # p /\ Has(e.ring, h)
      BY <1>3, <1>4, <2>3
    <3>2. refs' = Released(Retained(refs, <<p>>), <<h>>)
      BY <1>1, <2>3
    <3> HIDE DEF h
    <3>3. /\ refs' \in [Posts -> Int]
          /\ \A q \in Posts : refs'[q] = Retained(refs, <<p>>)[q] - (IF q = h THEN 1 ELSE 0)
      <4> DEFINE r == Retained(refs, <<p>>)
      <4>1. <<h>> \in Seq(Posts) /\ NoRepeats(<<h>>) /\ \A q : Has(<<h>>, q) <=> q = h
        BY <3>1, OnePost
      <4>2. r \in [Posts -> Int]
        BY <1>17
      <4> HIDE DEF r
      <4>3. /\ Released(r, <<h>>) \in [Posts -> Int]
            /\ \A q \in Posts : Released(r, <<h>>)[q] = r[q] - (IF Has(<<h>>, q) THEN 1 ELSE 0)
        BY <4>1, <4>2, Released1
      <4> QED
        BY <3>2, <4>1, <4>3 DEF r
    <3>4. ASSUME NEW q \in Posts PROVE Exact(q)'
      <4>1. CASE q = p
        <5>1. s \notin Rings(q) /\ Rings(q)' = Rings(q) \cup {s}
          BY <1>3, <1>4, <1>18, <1>19, <2>3, <4>1
        <5>2. Cardinality(Rings(q)') = Cardinality(Rings(q)) + 1
          BY <5>1, FiniteHolders, OneMore
        <5>3. refs'[q] = refs[q] + 1
          BY <1>16, <1>17, <3>1, <3>3, <4>1
        <5> QED
          BY <1>18, <5>2, <5>3, Counts, FiniteHolders DEF Exact
      <4>2. CASE q = h
        <5>1. s \in Rings(q) /\ Rings(q)' = Rings(q) \ {s}
          BY <1>4, <1>18, <1>19, <2>3, <3>1, <4>2 DEF h
        <5>2. Cardinality(Rings(q)') = Cardinality(Rings(q)) - 1
          BY <5>1, FiniteHolders, OneFewer
        <5>3. refs'[q] = refs[q] - 1
          BY <1>16, <1>17, <3>1, <3>3, <4>2
        <5> QED
          BY <1>18, <5>2, <5>3, Counts, FiniteHolders DEF Exact
      <4>3. CASE q # p /\ q # h
        <5>1. Rings(q)' = Rings(q)
          <6>1. Has(now.ring, q) <=> s \in Rings(q)
            BY <1>4, <1>19, <2>3, <4>3 DEF h
          <6> QED
            BY <1>18, <6>1
        <5>2. refs'[q] = refs[q]
          BY <1>16, <1>17, <3>3, <4>3
        <5> QED
          BY <1>18, <5>1, <5>2, Counts DEF Exact
      <4> QED
        BY <4>1, <4>2, <4>3
    <3> QED
      BY <3>3, <3>4
  <2> QED
    BY <2>1, <2>2, <2>3
<1>21. BellIsHeard'
  <2> SUFFICES ASSUME NEW c \in Conns, conn[c].pc = "parked", Mine(c)'.ring # <<>> PROVE bell'[c]
    BY <1>1 DEF BellIsHeard
  <2>1. conn[c].ticket.index \in Index /\ Mine(c).waker = c
    BY <1>2 DEF Seated
  <2>2. Mine(c)' = seat'[conn[c].ticket.index]
    BY <1>1 DEF Mine
  <2>3. CASE conn[c].ticket.index = s /\ now.ring # e.ring
    <3>1. w = c /\ w # Nobody
      BY <2>1, <2>3, RoomAssumption DEF Mine
    <3> QED
      BY <1>1, <1>2, <2>3, <3>1 DEF TypeOK
  <2>4. CASE ~(conn[c].ticket.index = s /\ now.ring # e.ring)
    <3>1. Mine(c).ring # <<>>
      BY <1>5, <2>1, <2>2, <2>4 DEF Mine
    <3> QED
      BY <1>2, <1>8, <3>1 DEF BellIsHeard
  <2> QED
    BY <2>3, <2>4
<1> QED
  BY <1>9, <1>10, <1>11, <1>12, <1>15, <1>20, <1>21, ExactNext DEF Inv

(* PutRefused: a seat is passed over.                                      *)
LEMMA PutRefusedKeeps ==
    ASSUME Inv, NEW f \in Speakers, PutRefused(f)
    PROVE  Inv'
<1> DEFINE i == talk[f].at
           c == seat[roll[i]].waker
<1>1. /\ talk[f].pc = "putting" /\ i < here /\ left.cancels > 0
      /\ left' = [left EXCEPT !.cancels = @ - 1]
      /\ talk' = [talk EXCEPT ![f].at = @ + 1]
      /\ since' = [since EXCEPT ![c].refused = @ + 1]
      /\ UNCHANGED <<seat, roll, here, kept, refs, made, roster, conn, bell, said, seen>>
  BY DEF PutRefused
<1>2. /\ TypeOK /\ Listed /\ Seated /\ Talking /\ PostsApart /\ BellIsHeard /\ RefsAreExact
  BY DEF Inv
<1>3. i \in Index /\ i + 1 \in 0..Seats /\ c \in Conns
  BY <1>1, PuttingAt
<1>4. /\ talk' \in [Speakers -> Talks]
      /\ \A g \in Speakers : talk'[g].post = talk[g].post /\ talk'[g].pc = talk[g].pc
      /\ talk'[f].at = i + 1
      /\ \A g \in Speakers : g # f => talk'[g] = talk[g]
  <2>1. talk \in [Speakers -> Talks]
    BY <1>2 DEF TypeOK
  <2> QED
    BY <1>1, <1>3, <2>1 DEF Talks
<1>5. since' \in [Conns -> Stays]
  <2>1. since \in [Conns -> Stays]
    BY <1>2 DEF TypeOK
  <2> HIDE DEF c
  <2>2. since[c] \in Stays /\ [since[c] EXCEPT !.refused = @ + 1] \in Stays
    BY <1>3, <2>1 DEF Stays
  <2>3. since' = [since EXCEPT ![c] = [since[c] EXCEPT !.refused = @ + 1]]
    BY <1>1, <1>3, <2>1
  <2> QED
    BY <1>3, <2>1, <2>2, <2>3
<1>6. left' \in [sits : Nat, cancels : Nat]
  <2>1. left \in [sits : Nat, cancels : Nat]
    BY <1>2 DEF TypeOK
  <2>2. left.cancels > 0 /\ left' = [left EXCEPT !.cancels = @ - 1]
    BY <1>1
  <2> QED
    BY <2>1, <2>2
<1>7. TypeOK'
  BY <1>1, <1>2, <1>4, <1>5, <1>6 DEF TypeOK
<1>8. Listed' /\ Seated' /\ BellIsHeard'
  BY <1>1, <1>2 DEF Listed, Seated, StillMine, Mine, BellIsHeard
<1>9. Talking'
  BY <1>1, <1>2, <1>4 DEF Talking
<1>10. \A q \in Posts : Handed(q) => Handed(q)'
  BY <1>1, <1>4 DEF Handed
<1>11. PostsApart'
  <2>1. ASSUME NEW g \in Speakers, talk'[g].pc = "putting"
        PROVE  /\ Has(said, talk'[g].post) /\ ~Has(kept, talk'[g].post)
               /\ \A j \in Index : talk'[g].at <= j /\ j < here => ~Has(seat[roll[j]].ring, talk'[g].post)
    <3>1. \A j \in Index : talk'[g].at <= j => talk[g].at <= j
      BY <1>3, <1>4 DEF Index
    <3> QED
      BY <1>2, <1>4, <2>1, <3>1 DEF PostsApart
  <2> QED
    BY <1>1, <1>2, <1>10, <2>1 DEF PostsApart
<1>12. RefsAreExact'
  <2>1. \A p : Tellers(p)' = Tellers(p)
    BY <1>4 DEF Tellers
  <2> QED
    BY <1>1, <1>2, <2>1 DEF RefsAreExact, Tellers, Count
<1> QED
  BY <1>7, <1>8, <1>9, <1>11, <1>12 DEF Inv

(* EndHandOut: the post is kept, the oldest kept one let go.               *)
LEMMA EndHandOutKeeps ==
    ASSUME Inv, NEW f \in Speakers, EndHandOut(f)
    PROVE  Inv'
<1> DEFINE p == talk[f].post
           all == Append(kept, p)
<1>1. /\ talk[f].pc = "putting" /\ talk[f].at = here
      /\ roster' = Nobody
      /\ talk' = [talk EXCEPT ![f].pc = "said"]
      /\ UNCHANGED <<seat, roll, here, made, conn, bell, left, said, seen, since>>
  BY DEF EndHandOut
<1>2. /\ TypeOK /\ Listed /\ Seated /\ Talking /\ PostsApart /\ BellIsHeard /\ RefsAreExact
  BY DEF Inv
<1>3. /\ talk \in [Speakers -> Talks] /\ p # 0 /\ p \in Posts /\ Nobody \notin Speakers
      /\ refs \in [Posts -> Int] /\ kept \in Seq(Posts) /\ Len(kept) \in Nat
  BY <1>1, <1>2, RoomAssumption, LenProperties DEF TypeOK, Talking, Talks
<1>4. /\ talk' \in [Speakers -> Talks] /\ talk'[f].pc = "said"
      /\ \A g \in Speakers : talk'[g].post = talk[g].post /\ talk'[g].at = talk[g].at
      /\ \A g \in Speakers : g # f => talk'[g] = talk[g]
  BY <1>1, <1>3 DEF Talks
<1>5. Handed(p)
  <2>1. p <= made
    BY <1>2 DEF Talking
  <2>2. \A g \in Speakers : talk[g].pc = "reserved" => talk[g].post # p
    BY <1>1, <1>2, <1>3 DEF Talking
  <2>3. Has(said, p)
    BY <1>1, <1>2 DEF PostsApart
  <2> QED
    BY <2>1, <2>2, <2>3 DEF Handed
<1>6. NoRepeats(kept) /\ ~Has(kept, p) /\ \A q \in Posts : Has(kept, q) => Handed(q)
  BY <1>1, <1>2 DEF PostsApart
<1>7. /\ kept' \in Seq(Posts) /\ Len(kept') <= History /\ NoRepeats(kept')
      /\ \A q \in Posts : Has(kept', q) => Has(kept, q) \/ q = p
      /\ refs' \in [Posts -> Int]
      /\ \A q \in Posts : refs'[q] - (IF Has(kept', q) THEN 1 ELSE 0)
                          = refs[q] - (IF Has(kept, q) THEN 1 ELSE 0)
  <2>1. CASE History > 0 /\ Keepable(p)
    <3>1. /\ kept' = Trimmed(all)
          /\ refs' = Released(Retained(refs, <<p>>), First(all, Len(all) - Len(kept')))
      BY <2>1 DEF EndHandOut
    <3>2. PICK n \in 1..(Len(kept) + 1) :
             Trimmed(all) = From(all, n) /\ Len(kept) + 1 - n < History
      <4> HIDE DEF p
      <4> QED
        BY <1>3, <2>1, TrimmedIs
    <3>3. /\ all \in Seq(Posts) /\ Len(all) = Len(kept) + 1 /\ NoRepeats(all)
          /\ \A q : Has(all, q) <=> Has(kept, q) \/ q = p
      <4> HIDE DEF p
      <4> QED
        BY <1>3, <1>6, Appended
    <3> HIDE DEF all
    <3> DEFINE gone == First(all, n - 1)
    <3>4. n \in 1..(Len(all) + 1) /\ n \in Nat
      BY <1>3, <3>3
    <3>5. /\ From(all, n) \in Seq(Posts) /\ Len(From(all, n)) = Len(all) - n + 1
          /\ gone \in Seq(Posts) /\ NoRepeats(From(all, n)) /\ NoRepeats(gone)
          /\ \A q : Has(all, q) <=> Has(gone, q) \/ Has(From(all, n), q)
          /\ \A q : ~(Has(gone, q) /\ Has(From(all, n), q))
      BY <3>3, <3>4, Cut
    <3>6. /\ kept' = From(all, n) /\ Len(kept') = Len(all) - n + 1
          /\ Len(kept') <= History /\ Len(all) - Len(kept') = n - 1
      BY <1>3, <3>1, <3>2, <3>3, <3>4, <3>5, RoomAssumption
    <3>7. refs' = Released(Retained(refs, <<p>>), gone)
      BY <3>1, <3>6
    <3> HIDE DEF gone
    <3> DEFINE r == Retained(refs, <<p>>)
    <3>8. /\ r \in [Posts -> Int]
          /\ \A q \in Posts : r[q] = refs[q] + (IF q = p THEN 1 ELSE 0)
      <4> HIDE DEF p
      <4>1. <<p>> \in Seq(Posts) /\ NoRepeats(<<p>>) /\ \A q : Has(<<p>>, q) <=> q = p
        BY <1>3, OnePost
      <4>2. /\ Retained(refs, <<p>>) \in [Posts -> Int]
            /\ \A q \in Posts : Retained(refs, <<p>>)[q] = refs[q] + (IF Has(<<p>>, q) THEN 1 ELSE 0)
        BY <1>3, <4>1, Released1
      <4> QED
        BY <4>1, <4>2
    <3>9. refs' = Released(r, gone)
      BY <3>7
    <3> HIDE DEF r
    <3>10. /\ refs' \in [Posts -> Int]
           /\ \A q \in Posts : refs'[q] = r[q] - (IF Has(gone, q) THEN 1 ELSE 0)
      BY <3>5, <3>8, <3>9, Released1
    <3>11. ASSUME NEW q \in Posts
           PROVE  /\ Has(kept', q) => Has(kept, q) \/ q = p
                  /\ refs'[q] - (IF Has(kept', q) THEN 1 ELSE 0)
                     = refs[q] - (IF Has(kept, q) THEN 1 ELSE 0)
      <4>1. /\ Has(kept, q) \/ q = p <=> Has(gone, q) \/ Has(kept', q)
            /\ ~(Has(gone, q) /\ Has(kept', q))
            /\ ~(Has(kept, q) /\ q = p)
        BY <1>6, <3>3, <3>5, <3>6
      <4>2. refs'[q] = refs[q] + (IF q = p THEN 1 ELSE 0) - (IF Has(gone, q) THEN 1 ELSE 0)
        <5>1. /\ r[q] = refs[q] + (IF q = p THEN 1 ELSE 0)
              /\ refs'[q] = r[q] - (IF Has(gone, q) THEN 1 ELSE 0)
          BY <3>8, <3>10
        <5>2. r[q] \in Int /\ refs[q] \in Int
          BY <1>3, <3>8
        <5> QED
          BY <5>1, <5>2
      <4> QED
        BY <1>3, <4>1, <4>2
    <3> QED
      BY <3>5, <3>6, <3>10, <3>11
  <2>2. CASE ~(History > 0 /\ Keepable(p))
    <3>1. UNCHANGED <<kept, refs>>
      BY <2>2 DEF EndHandOut
    <3> QED
      BY <1>2, <1>3, <1>6, <3>1 DEF TypeOK
  <2> QED
    BY <2>1, <2>2
<1>8. Shaped'
  BY <1>1, <1>2, <1>4, <1>7 DEF Shaped, TypeOK
<1>9. Listed' /\ Seated' /\ BellIsHeard'
  BY <1>1, <1>2 DEF Listed, Seated, StillMine, Mine, BellIsHeard
<1>10. \A g \in Speakers : talk'[g].pc # "putting"
  BY <1>1, <1>2, <1>4 DEF Talking
<1>11. Talking'
  BY <1>1, <1>2, <1>3, <1>4, <1>10 DEF Talking
<1>12. \A q \in Posts : Handed(q) => Handed(q)'
  BY <1>1, <1>4 DEF Handed
<1>13. PostsApart'
  BY <1>1, <1>2, <1>5, <1>6, <1>7, <1>10, <1>12 DEF PostsApart
<1>14. \A q \in Posts : Exact(q)'
  <2> TAKE q \in Posts
  <2>1. Tellers(q)' = Tellers(q) /\ Rings(q)' = Rings(q) /\ Hands(q)' = Hands(q)
    BY <1>1, <1>4 DEF Tellers, Rings, Hands
  <2>2. Count(kept', q) = IF Has(kept', q) THEN 1 ELSE 0
    BY <1>7, Counted
  <2>3. Count(kept, q)' = Count(kept', q)
    BY DEF Count
  <2>4. refs'[q] - Count(kept', q) = refs[q] - Count(kept, q)
    BY <1>7, <2>2, Counts
  <2>5. refs'[q] \in Int /\ Count(kept', q) \in Int
    BY <1>7, <2>2
  <2>6. /\ refs[q] = Cardinality(Tellers(q)) + Cardinality(Rings(q)) + Count(kept, q)
                     + Cardinality(Hands(q))
        /\ Count(kept, q) \in Nat
    BY Counts
  <2>7. /\ Cardinality(Tellers(q)) \in Nat /\ Cardinality(Rings(q)) \in Nat
        /\ Cardinality(Hands(q)) \in Nat
    BY FiniteHolders
  <2>8. refs'[q] = Cardinality(Tellers(q)) + Cardinality(Rings(q)) + Count(kept', q)
                   + Cardinality(Hands(q))
    BY <2>4, <2>5, <2>6, <2>7
  <2> QED
    BY <2>1, <2>3, <2>8 DEF Exact
<1> QED
  BY <1>7, <1>8, <1>9, <1>11, <1>13, <1>14, ExactNext DEF Inv

(* What a client asks for again on sitting down: the end of what is kept.  *)
LEMMA Again ==
    ASSUME Inv, NEW id
    PROVE  /\ KeptAfter(id) \in Seq(Posts) /\ NoRepeats(KeptAfter(id))
           /\ \A q : Has(KeptAfter(id), q) => Has(kept, q)
<1>1. kept \in Seq(Posts) /\ NoRepeats(kept)
  BY DEF Inv, TypeOK, PostsApart
<1>2. CASE Has(kept, id)
  <2> DEFINE i == CHOOSE i \in DOMAIN kept : kept[i] = id
  <2>1. i \in DOMAIN kept
    BY <1>2 DEF Has
  <2>2. KeptAfter(id) = From(kept, 1 + i)
    BY <1>2 DEF KeptAfter
  <2> HIDE DEF i
  <2>3. 1 + i \in 1..(Len(kept) + 1)
    BY <1>1, <2>1, LenProperties
  <2> DEFINE n == 1 + i
  <2>4. KeptAfter(id) = From(kept, n) /\ n \in 1..(Len(kept) + 1)
    BY <2>2, <2>3
  <2> HIDE DEF n
  <2> QED
    BY <1>1, <2>4, Cut
<1>3. CASE ~Has(kept, id)
  BY <1>3, Short DEF KeptAfter
<1> QED
  BY <1>2, <1>3

(* Sit: the first free seat of the roll is taken, and what was kept since  *)
(* is taken in hand.                                                       *)
LEMMA SitKeeps ==
    ASSUME Inv, NEW c \in Conns, Sit(c)
    PROVE  Inv'
<1> DEFINE i == roll[here]
           again == KeptAfter(LastId(c))
           chair == [taken |-> TRUE, era |-> seat[i].era + 1, slot |-> here, waker |-> c,
                     text_only |-> c \in Streams, ring |-> seat[i].ring, dropped |-> 0]
           place == [pc |-> "writing", hand |-> again,
                     ticket |-> [index |-> i, era |-> seat[i].era + 1]]
           stay == [from |-> IF Has(kept, LastId(c)) THEN Where(said, LastId(c)) ELSE Len(said),
                    sat |-> Len(said), wrote |-> Len(seen[c]), refused |-> 0]
<1>1. /\ conn[c].pc = "away" /\ roster = Nobody /\ left.sits > 0 /\ here < Seats
      /\ seat' = [seat EXCEPT ![i] = chair]
      /\ here' = here + 1
      /\ conn' = [conn EXCEPT ![c] = place]
      /\ refs' = Retained(refs, again)
      /\ left' = [left EXCEPT !.sits = @ - 1]
      /\ since' = [since EXCEPT ![c] = stay]
      /\ UNCHANGED <<roll, kept, made, roster, talk, bell, said, seen>>
  <2>1. /\ conn[c].pc = "away" /\ roster = Nobody /\ left.sits > 0 /\ here < Seats
        /\ here' = here + 1
        /\ refs' = Retained(refs, again)
        /\ left' = [left EXCEPT !.sits = @ - 1]
        /\ UNCHANGED <<roll, kept, made, roster, talk, bell, said, seen>>
    BY DEF Sit
  <2>2. seat' = [seat EXCEPT ![i] = chair]
    BY DEF Sit
  <2>3. conn' = [conn EXCEPT ![c] = place]
    BY DEF Sit
  <2>4. since' = [since EXCEPT ![c] = stay]
    BY DEF Sit
  <2> HIDE DEF i, again, chair, place, stay
  <2> QED
    BY <2>1, <2>2, <2>3, <2>4
<1>2. /\ TypeOK /\ Listed /\ Seated /\ Talking /\ PostsApart /\ BellIsHeard
  BY DEF Inv
<1>3. /\ here \in Index /\ here \in 0..Seats /\ Seats \in Nat /\ here + 1 \in 0..Seats /\ i \in Index
      /\ seat[i] \in Chairs /\ ~seat[i].taken /\ seat[i].ring = <<>>
  <2>1. here \in Index /\ here \in 0..Seats /\ Seats \in Nat /\ here + 1 \in 0..Seats
    <3> HIDE DEF i, again, chair, place, stay
    <3>1. here < Seats
      BY <1>1
    <3>2. here \in 0..Seats /\ Seats \in Nat
      BY <1>2, RoomAssumption DEF TypeOK
    <3> QED
      BY <3>1, <3>2 DEF Index
  <2>2. i \in Index /\ seat[i] \in Chairs
    BY <1>2, <2>1 DEF TypeOK
  <2>3. ~seat[i].taken
    BY <1>2, <2>1 DEF Listed
  <2> QED
    BY <1>2, <2>1, <2>2, <2>3 DEF Listed
<1>4. /\ again \in Seq(Posts) /\ NoRepeats(again)
      /\ \A q : Has(again, q) => Has(kept, q)
  BY Again
<1> HIDE DEF again
<1>5. /\ chair \in Chairs /\ chair.taken /\ chair.era = seat[i].era + 1 /\ chair.slot = here
      /\ chair.waker = c /\ chair.ring = <<>> /\ chair.dropped = 0
      /\ chair.text_only = (c \in Streams)
  <2>1. seat[i].era \in Nat /\ seat[i].ring \in Seq(Posts)
    BY <1>3 DEF Chairs
  <2> QED
    BY <1>3, <2>1 DEF Chairs
<1>6. /\ place \in Places /\ place.pc = "writing" /\ place.hand = again
      /\ place.ticket.index = i /\ place.ticket.era = seat[i].era + 1
  <2>1. [index |-> i, era |-> seat[i].era + 1] \in Tickets
    BY <1>3 DEF Tickets, Chairs, Index
  <2> QED
    BY <1>4, <2>1 DEF Places
<1>7. stay \in Stays
  <2>1. seen[c] \in Seq(Posts) /\ said \in Seq(Posts)
    BY <1>2 DEF TypeOK
  <2>2. Len(seen[c]) \in Nat /\ Len(said) \in Nat /\ DOMAIN said = 1..Len(said)
    BY <2>1, LenProperties
  <2>3. Has(kept, LastId(c)) => Where(said, LastId(c)) \in Nat
    <3>1. Has(kept, LastId(c)) => LastId(c) \in Posts
      BY <1>2 DEF TypeOK, Has
    <3> QED
      BY <1>2, <2>2, <3>1 DEF PostsApart, Handed, Has, Where
  <2> QED
    BY <2>2, <2>3 DEF Stays
<1> HIDE DEF chair, place, stay
<1>8. /\ seat' \in [Index -> Chairs] /\ seat'[i] = chair
      /\ \A r \in Index : r # i => seat'[r] = seat[r]
      /\ conn' \in [Conns -> Places] /\ conn'[c] = place
      /\ \A d \in Conns : d # c => conn'[d] = conn[d]
      /\ since' \in [Conns -> Stays]
  BY <1>1, <1>2, <1>3, <1>5, <1>6, <1>7 DEF TypeOK
<1>9. left' \in [sits : Nat, cancels : Nat]
  <2>1. left \in [sits : Nat, cancels : Nat] /\ left.sits > 0 /\ left' = [left EXCEPT !.sits = @ - 1]
    BY <1>1, <1>2 DEF TypeOK
  <2> QED
    BY <2>1
<1>10. Shaped'
  <2>1. \A r \in Index : Len(seat'[r].ring) <= Backlog
    <3>1. \A r \in Index : Len(seat[r].ring) <= Backlog
      BY <1>2 DEF TypeOK
    <3>2. seat'[i].ring = seat[i].ring
      BY <1>3, <1>5, <1>8
    <3> QED
      BY <1>8, <3>1, <3>2
  <2> QED
    BY <1>1, <1>2, <1>3, <1>8, <1>9, <2>1 DEF Shaped, TypeOK
<1>11. Listed'
  <2>1. \A j \in Index : roll[j] \in Index /\ (roll[j] = i => j = here)
    BY <1>2, <1>3 DEF Listed, TypeOK
  <2>2. \A j \in Index : j \in Nat /\ here \in Nat
    BY <1>3 DEF Index
  <2>3. /\ \A j, k \in Index : roll'[j] = roll'[k] => j = k
        /\ \A r \in Index : \E j \in Index : roll'[j] = r
    BY <1>1, <1>2 DEF Listed
  <2>4. \A j \in Index : seat'[roll'[j]].taken <=> j < here'
    <3> TAKE j \in Index
    <3>1. CASE j = here
      BY <1>1, <1>5, <1>8, <2>2, <3>1
    <3>2. CASE j # here
      <4>1. seat'[roll'[j]] = seat[roll[j]]
        BY <1>1, <1>8, <2>1, <3>2
      <4>2. j < here' <=> j < here
        BY <1>1, <2>2, <3>2
      <4> QED
        BY <1>2, <4>1, <4>2 DEF Listed
    <3> QED
      BY <3>1, <3>2
  <2>5. \A j \in Index : j < here' => seat'[roll'[j]].slot = j
    <3> SUFFICES ASSUME NEW j \in Index, j < here' PROVE seat'[roll'[j]].slot = j
      OBVIOUS
    <3>1. CASE j = here
      BY <1>1, <1>5, <1>8, <3>1
    <3>2. CASE j # here
      <4>1. seat'[roll'[j]] = seat[roll[j]] /\ j < here
        BY <1>1, <1>8, <2>1, <2>2, <3>2
      <4> QED
        BY <1>2, <4>1 DEF Listed
    <3> QED
      BY <3>1, <3>2
  <2>6. \A r \in Index : ~seat'[r].taken => seat'[r].ring = <<>>
    BY <1>2, <1>5, <1>8 DEF Listed
  <2> QED
    BY <2>3, <2>4, <2>5, <2>6 DEF Listed
<1>12. Seated'
  <2>1. \A d \in Conns : d # c /\ conn[d].pc # "away" => conn[d].ticket.index # i
    BY <1>2, <1>3 DEF Seated, StillMine, Mine
  <2>2. ASSUME NEW d \in Conns, conn'[d].pc # "away"
        PROVE  /\ conn'[d].ticket.index \in Index /\ seat'[conn'[d].ticket.index].taken
               /\ seat'[conn'[d].ticket.index].era = conn'[d].ticket.era
               /\ seat'[conn'[d].ticket.index].waker = d
    <3>1. CASE d = c
      BY <1>3, <1>5, <1>6, <1>8, <3>1
    <3>2. CASE d # c
      BY <1>2, <1>8, <2>1, <2>2, <3>2 DEF Seated, StillMine, Mine
    <3> QED
      BY <3>1, <3>2
  <2>3. ASSUME NEW r \in Index, seat'[r].taken
        PROVE  /\ seat'[r].waker \in Conns /\ conn'[seat'[r].waker].pc # "away"
               /\ conn'[seat'[r].waker].ticket.index = r
    <3>1. CASE r = i
      BY <1>5, <1>6, <1>8, <3>1
    <3>2. CASE r # i
      <4>1. seat'[r] = seat[r] /\ seat[r].taken
        BY <1>8, <2>3, <3>2
      <4>2. /\ seat[r].waker \in Conns /\ conn[seat[r].waker].pc # "away"
            /\ conn[seat[r].waker].ticket.index = r
        BY <1>2, <4>1 DEF Seated
      <4>3. seat[r].waker # c
        BY <1>1, <4>2
      <4> QED
        BY <1>8, <4>1, <4>2, <4>3
    <3> QED
      BY <3>1, <3>2
  <2>4. \A d \in Conns : conn'[d].pc \in {"away", "leaving"} => conn'[d].hand = <<>>
    BY <1>2, <1>6, <1>8 DEF Seated
  <2> QED
    BY <2>2, <2>3, <2>4 DEF Seated, StillMine, Mine
<1>13. Talking'
  BY <1>1, <1>2 DEF Talking
<1>14. \A q \in Posts : Handed(q) => Handed(q)'
  BY <1>1 DEF Handed
<1>15. PostsApart'
  <2>1. \A r \in Index : /\ NoRepeats(seat'[r].ring)
                         /\ \A q \in Posts : Has(seat'[r].ring, q) => Handed(q)
    BY <1>2, <1>5, <1>8, Short DEF PostsApart
  <2>2. \A d \in Conns : /\ NoRepeats(conn'[d].hand)
                         /\ \A q \in Posts : Has(conn'[d].hand, q) => Handed(q)
    BY <1>2, <1>4, <1>6, <1>8 DEF PostsApart
  <2>3. \A g \in Speakers : talk[g].pc # "putting"
    BY <1>1, <1>2, RoomAssumption DEF Talking
  <2> QED
    BY <1>1, <1>2, <1>14, <2>1, <2>2, <2>3 DEF PostsApart
<1>16. /\ refs' \in [Posts -> Int]
       /\ \A q \in Posts : refs'[q] = refs[q] + (IF Has(again, q) THEN 1 ELSE 0)
  <2>1. refs \in [Posts -> Int]
    BY <1>2 DEF TypeOK
  <2> QED
    BY <1>1, <1>4, <2>1, Released1
<1>17. \A q \in Posts : Exact(q)'
  <2> TAKE q \in Posts
  <2>1. Tellers(q)' = Tellers(q) /\ Count(kept, q)' = Count(kept, q)
    BY <1>1 DEF Tellers, Count
  <2>2. Rings(q)' = Rings(q)
    <3>1. \A r \in Index : seat'[r].ring = seat[r].ring
      BY <1>3, <1>5, <1>8
    <3> QED
      BY <3>1 DEF Rings
  <2>3. c \notin Hands(q)
    BY <1>1, <1>2, Short DEF Hands, Seated
  <2>4. Hands(q)' = IF Has(again, q) THEN Hands(q) \cup {c} ELSE Hands(q)
    BY <1>6, <1>8, <2>3 DEF Hands
  <2>5. Cardinality(Hands(q)') = Cardinality(Hands(q)) + (IF Has(again, q) THEN 1 ELSE 0)
    <3>1. Cardinality(Hands(q) \cup {c}) = Cardinality(Hands(q)) + 1
      BY <2>3, FiniteHolders, OneMore
    <3>2. Cardinality(Hands(q)) \in Nat
      BY FiniteHolders
    <3> QED
      BY <2>4, <3>1, <3>2
  <2>6. /\ refs[q] = Cardinality(Tellers(q)) + Cardinality(Rings(q)) + Count(kept, q)
                     + Cardinality(Hands(q))
        /\ Count(kept, q) \in Nat
    BY Counts
  <2>7. /\ Cardinality(Tellers(q)) \in Nat /\ Cardinality(Rings(q)) \in Nat
        /\ Cardinality(Hands(q)) \in Nat
    BY FiniteHolders
  <2> QED
    BY <1>16, <2>1, <2>2, <2>5, <2>6, <2>7 DEF Exact
<1>18. BellIsHeard'
  <2> SUFFICES ASSUME NEW d \in Conns, conn'[d].pc = "parked", Mine(d)'.ring # <<>> PROVE bell'[d]
    BY DEF BellIsHeard
  <2>1. d # c /\ conn'[d] = conn[d]
    BY <1>6, <1>8
  <2>2. conn[d].ticket.index \in Index /\ conn[d].ticket.index # i
    BY <1>2, <1>3, <2>1 DEF Seated, StillMine, Mine
  <2> QED
    BY <1>1, <1>2, <1>8, <2>1, <2>2 DEF BellIsHeard, Mine
<1> QED
  BY <1>10, <1>11, <1>12, <1>13, <1>15, <1>16, <1>17, <1>18, ExactNext DEF Inv

(* Write: the first post in hand is written and let go.                    *)
LEMMA WriteKeeps ==
    ASSUME Inv, NEW c \in Conns, Write(c)
    PROVE  Inv'
<1> DEFINE hand == conn[c].hand
           h == Head(hand)
<1>1. /\ conn[c].pc = "writing" /\ hand # <<>>
      /\ seen' = [seen EXCEPT ![c] = Append(@, h)]
      /\ refs' = Released(refs, <<h>>)
      /\ conn' = [conn EXCEPT ![c].hand = Tail(@)]
      /\ UNCHANGED <<seat, roll, here, kept, made, roster, talk, bell, left, said, since>>
  BY DEF Write
<1>2. /\ TypeOK /\ Listed /\ Seated /\ Talking /\ PostsApart /\ BellIsHeard
  BY DEF Inv
<1>3. hand \in Seq(Posts) /\ NoRepeats(hand) /\ conn[c] \in Places /\ conn \in [Conns -> Places]
  BY <1>2 DEF TypeOK, Places, PostsApart
<1>4. /\ Tail(hand) \in Seq(Posts) /\ h \in Posts /\ Has(hand, h) /\ NoRepeats(Tail(hand))
      /\ \A q : Has(Tail(hand), q) <=> Has(hand, q) /\ q # h
  <2> HIDE DEF hand
  <2> QED
    BY <1>1, <1>3, Behead
<1>5. /\ conn' \in [Conns -> Places] /\ conn'[c].hand = Tail(hand)
      /\ \A d \in Conns : /\ conn'[d].pc = conn[d].pc /\ conn'[d].ticket = conn[d].ticket
                          /\ d # c => conn'[d] = conn[d]
  BY <1>1, <1>3, <1>4 DEF Places
<1>6. Shaped'
  <2>1. seen' \in [Conns -> Seq(Posts)]
    BY <1>1, <1>2, <1>4, AppendProperties DEF TypeOK
  <2> QED
    BY <1>1, <1>2, <1>5, <2>1 DEF Shaped, TypeOK
<1>7. Listed' /\ Talking'
  BY <1>1, <1>2 DEF Listed, Talking
<1>8. Seated'
  <2>1. \A d \in Conns : conn'[d].pc \in {"away", "leaving"} => conn'[d].hand = <<>>
    BY <1>1, <1>2, <1>5 DEF Seated
  <2> QED
    BY <1>1, <1>2, <1>5, <2>1 DEF Seated, StillMine, Mine
<1>9. BellIsHeard'
  BY <1>1, <1>2, <1>5 DEF BellIsHeard, Mine
<1>10. \A q \in Posts : Handed(q) => Handed(q)'
  BY <1>1 DEF Handed
<1>11. PostsApart'
  <2>1. \A d \in Conns : /\ NoRepeats(conn'[d].hand)
                         /\ \A q \in Posts : Has(conn'[d].hand, q) => Handed(q)
    BY <1>2, <1>4, <1>5 DEF PostsApart
  <2> QED
    BY <1>1, <1>2, <1>10, <2>1 DEF PostsApart
<1>12. /\ refs' \in [Posts -> Int]
       /\ \A q \in Posts : refs'[q] = refs[q] - (IF q = h THEN 1 ELSE 0)
  <2> HIDE DEF h
  <2>1. refs \in [Posts -> Int]
    BY <1>2 DEF TypeOK
  <2>2. <<h>> \in Seq(Posts) /\ NoRepeats(<<h>>) /\ \A q : Has(<<h>>, q) <=> q = h
    BY <1>4, OnePost
  <2>3. /\ refs' \in [Posts -> Int]
        /\ \A q \in Posts : refs'[q] = refs[q] - (IF Has(<<h>>, q) THEN 1 ELSE 0)
    BY <1>1, <2>1, <2>2, Released1
  <2> QED
    BY <2>2, <2>3
<1>13. \A q \in Posts : Exact(q)'
  <2> TAKE q \in Posts
  <2>1. Tellers(q)' = Tellers(q) /\ Count(kept, q)' = Count(kept, q) /\ Rings(q)' = Rings(q)
    BY <1>1 DEF Tellers, Count, Rings
  <2>2. Hands(q)' = IF q = h THEN Hands(q) \ {c} ELSE Hands(q)
    BY <1>4, <1>5 DEF Hands
  <2>3. h = q => c \in Hands(q)
    BY <1>4 DEF Hands
  <2>4. Cardinality(Hands(q)') = Cardinality(Hands(q)) - (IF q = h THEN 1 ELSE 0)
    <3>1. CASE q = h
      <4>1. Cardinality(Hands(q) \ {c}) = Cardinality(Hands(q)) - 1
        BY <2>3, <3>1, FiniteHolders, OneFewer
      <4> QED
        BY <2>2, <3>1, <4>1
    <3>2. CASE q # h
      BY <2>2, <3>2, FiniteHolders
    <3> QED
      BY <3>1, <3>2
  <2>5. /\ refs[q] = Cardinality(Tellers(q)) + Cardinality(Rings(q)) + Count(kept, q)
                     + Cardinality(Hands(q))
        /\ Count(kept, q) \in Nat
    BY Counts
  <2>6. /\ Cardinality(Tellers(q)) \in Nat /\ Cardinality(Rings(q)) \in Nat
        /\ Cardinality(Hands(q)) \in Nat
    BY FiniteHolders
  <2> QED
    BY <1>12, <2>1, <2>4, <2>5, <2>6 DEF Exact
<1> QED
  BY <1>6, <1>7, <1>8, <1>9, <1>11, <1>12, <1>13, ExactNext DEF Inv

(* Take: a post goes from the ring to the hand, its reference with it.     *)
LEMMA TakeKeeps ==
    ASSUME Inv, NEW c \in Conns, Take(c)
    PROVE  Inv'
<1> DEFINE s == conn[c].ticket.index
           ring == seat[s].ring
           h == Head(ring)
<1>1. /\ conn[c].pc = "writing" /\ conn[c].hand = <<>> /\ ring # <<>>
      /\ seat' = [seat EXCEPT ![s].ring = Tail(@)]
      /\ conn' = [conn EXCEPT ![c].hand = <<h>>]
      /\ UNCHANGED <<roll, here, kept, refs, made, roster, talk, bell, left, said, seen, since>>
  BY DEF Take, Mine
<1>2. /\ TypeOK /\ Listed /\ Seated /\ Talking /\ PostsApart /\ BellIsHeard
  BY DEF Inv
<1>3. /\ s \in Index /\ seat \in [Index -> Chairs] /\ seat[s].taken
      /\ ring \in Seq(Posts) /\ NoRepeats(ring) /\ Len(ring) <= Backlog
      /\ conn \in [Conns -> Places] /\ \A q \in Posts : Has(ring, q) => Handed(q)
  <2>1. s \in Index /\ seat[s].taken
    BY <1>1, <1>2 DEF Seated, StillMine, Mine
  <2> QED
    BY <1>2, <2>1 DEF TypeOK, Chairs, PostsApart
<1>4. /\ Tail(ring) \in Seq(Posts) /\ h \in Posts /\ Has(ring, h) /\ NoRepeats(Tail(ring))
      /\ \A q : Has(Tail(ring), q) <=> Has(ring, q) /\ q # h
      /\ Len(Tail(ring)) = Len(ring) - 1 /\ Len(ring) \in Nat
  <2> HIDE DEF ring
  <2> QED
    BY <1>1, <1>3, Behead, LenProperties
<1>5. /\ conn' \in [Conns -> Places] /\ conn'[c].hand = <<h>>
      /\ \A d \in Conns : /\ conn'[d].pc = conn[d].pc /\ conn'[d].ticket = conn[d].ticket
                          /\ d # c => conn'[d] = conn[d]
  <2>1. <<h>> \in Seq(Posts)
    BY <1>4, OnePost
  <2> QED
    BY <1>1, <1>3, <2>1 DEF Places
<1>6. /\ seat' \in [Index -> Chairs] /\ seat'[s].ring = Tail(ring)
      /\ \A r \in Index : /\ seat'[r].taken = seat[r].taken /\ seat'[r].era = seat[r].era
                          /\ seat'[r].slot = seat[r].slot /\ seat'[r].waker = seat[r].waker
                          /\ r # s => seat'[r] = seat[r]
  BY <1>1, <1>3, <1>4 DEF Chairs
<1>7. Shaped'
  <2>1. \A r \in Index : Len(seat'[r].ring) <= Backlog
    <3> TAKE r \in Index
    <3>1. CASE r = s
      <4>1. Len(Tail(ring)) <= Backlog
        <5>1. Len(ring) \in Nat /\ Backlog \in Nat /\ Len(ring) <= Backlog
          BY <1>3, <1>4, RoomAssumption
        <5>2. Len(ring) - 1 <= Backlog
          BY <5>1
        <5> QED
          BY <1>4, <5>2
      <4> QED
        BY <1>6, <3>1, <4>1
    <3>2. CASE r # s
      BY <1>2, <1>6, <3>2 DEF TypeOK
    <3> QED
      BY <3>1, <3>2
  <2> QED
    BY <1>1, <1>2, <1>5, <1>6, <2>1 DEF Shaped, TypeOK
<1>8. Listed'
  <2>1. \A j \in Index : roll[j] \in Index
    BY <1>2 DEF TypeOK
  <2>2. \A r \in Index : ~seat'[r].taken => seat'[r].ring = <<>>
    BY <1>2, <1>3, <1>6 DEF Listed
  <2>5. \A j \in Index : roll'[j] \in Index /\ roll'[j] = roll[j] /\ here' = here
    BY <1>1, <2>1
  <2>6. \A j \in Index : seat'[roll[j]].taken = seat[roll[j]].taken
    BY <1>6, <2>1
  <2>7. \A j \in Index : seat'[roll[j]].slot = seat[roll[j]].slot
    BY <1>6, <2>1
  <2>3. /\ \A j \in Index : seat'[roll'[j]].taken <=> j < here'
        /\ \A j \in Index : j < here' => seat'[roll'[j]].slot = j
    BY <1>2, <2>5, <2>6, <2>7 DEF Listed
  <2>4. /\ \A j, k \in Index : roll'[j] = roll'[k] => j = k
        /\ \A r \in Index : \E j \in Index : roll'[j] = r
    BY <1>1, <1>2 DEF Listed
  <2> QED
    BY <2>2, <2>3, <2>4 DEF Listed
<1>9. Talking'
  BY <1>1, <1>2 DEF Talking
<1>10. Seated'
  <2>1. \A d \in Conns : conn'[d].pc \in {"away", "leaving"} => conn'[d].hand = <<>>
    BY <1>1, <1>2, <1>5 DEF Seated
  <2>2. \A d \in Conns : conn'[d].pc # "away" =>
          /\ conn'[d].ticket.index \in Index
          /\ seat'[conn'[d].ticket.index].taken
          /\ seat'[conn'[d].ticket.index].era = conn'[d].ticket.era
          /\ seat'[conn'[d].ticket.index].waker = d
    BY <1>2, <1>5, <1>6 DEF Seated, StillMine, Mine
  <2>3. \A r \in Index : seat'[r].taken =>
          /\ seat'[r].waker \in Conns /\ conn'[seat'[r].waker].pc # "away"
          /\ conn'[seat'[r].waker].ticket.index = r
    BY <1>2, <1>5, <1>6 DEF Seated
  <2> QED
    BY <2>1, <2>2, <2>3 DEF Seated, StillMine, Mine
<1>11. BellIsHeard'
  <2> SUFFICES ASSUME NEW d \in Conns, conn'[d].pc = "parked", Mine(d)'.ring # <<>> PROVE bell'[d]
    BY DEF BellIsHeard
  <2>1. d # c /\ conn'[d] = conn[d] /\ conn[d].pc = "parked"
    BY <1>1, <1>5
  <2>2. conn[d].ticket.index \in Index /\ conn[d].ticket.index # s
    <3>1. conn[d].ticket.index \in Index /\ seat[conn[d].ticket.index].waker = d
      BY <1>2, <2>1 DEF Seated, Mine
    <3>2. conn[c].pc # "away"
      BY <1>1
    <3>3. seat[s].waker = c
      BY <1>2, <3>2 DEF Seated, Mine
    <3> QED
      BY <2>1, <3>1, <3>3
  <2>3. seat'[conn[d].ticket.index] = seat[conn[d].ticket.index] /\ bell' = bell
    BY <1>1, <1>6, <2>2
  <2>4. Mine(d)'.ring = Mine(d).ring
    BY <2>1, <2>3 DEF Mine
  <2> QED
    BY <1>2, <2>1, <2>3, <2>4 DEF BellIsHeard
<1>12. \A q \in Posts : Handed(q) => Handed(q)'
  BY <1>1 DEF Handed
<1>13. PostsApart'
  <2>1. \A d \in Conns : /\ NoRepeats(conn'[d].hand)
                         /\ \A q \in Posts : Has(conn'[d].hand, q) => Handed(q)
    <3>1. NoRepeats(<<h>>) /\ \A q \in Posts : Has(<<h>>, q) => Handed(q)
      BY <1>3, <1>4, OnePost
    <3> QED
      BY <1>2, <1>5, <3>1 DEF PostsApart
  <2>2. \A r \in Index : /\ NoRepeats(seat'[r].ring)
                         /\ \A q : Has(seat'[r].ring, q) => Has(seat[r].ring, q)
    <3> TAKE r \in Index
    <3>1. CASE r = s
      BY <1>4, <1>6, <3>1
    <3>2. CASE r # s
      <4>1. seat'[r] = seat[r]
        BY <1>6, <3>2
      <4>2. NoRepeats(seat[r].ring)
        BY <1>2 DEF PostsApart
      <4> QED
        BY <4>1, <4>2
    <3> QED
      BY <3>1, <3>2
  <2>3. \A j \in Index : roll[j] \in Index
    BY <1>2 DEF TypeOK
  <2> QED
    BY <1>1, <1>2, <1>12, <2>1, <2>2, <2>3 DEF PostsApart
<1>14. \A q \in Posts : Exact(q)'
  <2> TAKE q \in Posts
  <2>1. Tellers(q)' = Tellers(q) /\ Count(kept, q)' = Count(kept, q)
    BY <1>1 DEF Tellers, Count
  <2>4. (Has(<<h>>, q) <=> q = h) /\ ~Has(<<>>, q)
    BY Short
  <2>2. CASE q = h
    <3>1. c \notin Hands(q) /\ Hands(q)' = Hands(q) \cup {c}
      BY <1>1, <1>5, <2>2, <2>4 DEF Hands
    <3>2. s \in Rings(q) /\ Rings(q)' = Rings(q) \ {s}
      BY <1>3, <1>4, <1>6, <2>2 DEF Rings
    <3>3. /\ Cardinality(Hands(q)') = Cardinality(Hands(q)) + 1
          /\ Cardinality(Rings(q)') = Cardinality(Rings(q)) - 1
      BY <3>1, <3>2, FiniteHolders, OneMore, OneFewer
    <3> QED
      BY <1>1, <2>1, <3>3, Counts, FiniteHolders DEF Exact
  <2>3. CASE q # h
    <3>1. Hands(q)' = Hands(q)
      BY <1>1, <1>5, <2>3, <2>4 DEF Hands
    <3>2. Rings(q)' = Rings(q)
      BY <1>4, <1>6, <2>3 DEF Rings
    <3> QED
      BY <1>1, <2>1, <3>1, <3>2, Counts DEF Exact
  <2> QED
    BY <2>2, <2>3
<1>15. refs' \in [Posts -> Int]
  BY <1>1, <1>2 DEF TypeOK
<1> QED
  BY <1>7, <1>8, <1>9, <1>10, <1>11, <1>13, <1>14, <1>15, ExactNext DEF Inv

(* A connection goes to wait, or back from waiting: nothing but its place  *)
(* in its loop changes, and its bell if it hears it.                       *)
LEMMA TurnsRound ==
    ASSUME Inv, NEW c \in Conns, NEW pc \in {"writing", "parked"},
           conn[c].pc \in {"writing", "parked"},
           conn' = [conn EXCEPT ![c].pc = pc],
           pc = "parked" => Mine(c).ring = <<>>,
           bell' = bell \/ (pc = "writing" /\ bell' = [bell EXCEPT ![c] = FALSE]),
           UNCHANGED <<seat, roll, here, kept, refs, made, roster, talk, left, said, seen, since>>
    PROVE  Inv'
<1>2. /\ TypeOK /\ Listed /\ Seated /\ Talking /\ PostsApart /\ BellIsHeard /\ RefsAreExact
  BY DEF Inv
<1>3. conn \in [Conns -> Places] /\ bell \in [Conns -> BOOLEAN]
  BY <1>2 DEF TypeOK
<1>4. /\ conn' \in [Conns -> Places] /\ conn'[c].pc = pc
      /\ \A d \in Conns : /\ conn'[d].hand = conn[d].hand /\ conn'[d].ticket = conn[d].ticket
                          /\ d # c => conn'[d] = conn[d]
      /\ bell' \in [Conns -> BOOLEAN]
      /\ \A d \in Conns : d # c \/ pc = "parked" => bell'[d] = bell[d]
  BY <1>3 DEF Places
<1>5. TypeOK'
  BY <1>2, <1>4 DEF TypeOK
<1>6. Listed' /\ Talking'
  BY <1>2 DEF Listed, Talking
<1>7. Seated'
  <2>1. \A d \in Conns : conn'[d].pc \in {"away", "leaving"} => conn'[d].hand = <<>>
    BY <1>2, <1>4 DEF Seated
  <2>2. \A d \in Conns : conn'[d].pc = "away" <=> conn[d].pc = "away"
    BY <1>4
  <2> QED
    BY <1>2, <1>4, <2>1, <2>2 DEF Seated, StillMine, Mine
<1>8. \A q \in Posts : Handed(q) => Handed(q)'
  BY DEF Handed
<1>9. PostsApart'
  BY <1>2, <1>4, <1>8 DEF PostsApart
<1>10. RefsAreExact'
  <2>1. \A p : Hands(p)' = Hands(p)
    BY <1>4 DEF Hands
  <2> QED
    BY <1>2, <2>1 DEF RefsAreExact, Hands, Count
<1>11. BellIsHeard'
  <2> SUFFICES ASSUME NEW d \in Conns, conn'[d].pc = "parked", Mine(d)'.ring # <<>> PROVE bell'[d]
    BY DEF BellIsHeard
  <2>1. Mine(d)' = Mine(d)
    BY <1>4 DEF Mine
  <2>2. CASE d = c
    BY <1>4, <2>1, <2>2
  <2>3. CASE d # c
    BY <1>2, <1>4, <2>1, <2>3 DEF BellIsHeard
  <2> QED
    BY <2>2, <2>3
<1> QED
  BY <1>5, <1>6, <1>7, <1>9, <1>10, <1>11 DEF Inv

(* Park, Woken and KeepAlive touch no post.                                *)
LEMMA TurnsRoundKeeps ==
    ASSUME Inv, NEW c \in Conns, Park(c) \/ Woken(c) \/ KeepAlive(c)
    PROVE  Inv'
<1>1. CASE Park(c)
  <2>1. /\ conn[c].pc \in {"writing", "parked"} /\ conn' = [conn EXCEPT ![c].pc = "parked"]
        /\ Mine(c).ring = <<>>
        /\ UNCHANGED <<seat, roll, here, kept, refs, made, roster, talk, bell, left, said, seen, since>>
    BY <1>1 DEF Park
  <2> QED
    BY <2>1, TurnsRound
<1>2. CASE Woken(c)
  <2>1. /\ conn[c].pc \in {"writing", "parked"} /\ conn' = [conn EXCEPT ![c].pc = "writing"]
        /\ bell' = [bell EXCEPT ![c] = FALSE]
        /\ UNCHANGED <<seat, roll, here, kept, refs, made, roster, talk, left, said, seen, since>>
    BY <1>2 DEF Woken
  <2> QED
    BY <2>1, TurnsRound
<1>3. CASE KeepAlive(c)
  <2>1. /\ conn[c].pc \in {"writing", "parked"} /\ conn' = [conn EXCEPT ![c].pc = "writing"]
        /\ UNCHANGED <<seat, roll, here, kept, refs, made, roster, talk, bell, left, said, seen, since>>
    BY <1>3 DEF KeepAlive
  <2> QED
    BY <2>1, TurnsRound
<1> QED
  BY <1>1, <1>2, <1>3

(* Go: what is in hand is let go.                                          *)
LEMMA HasTheFirst ==
    ASSUME TypeOK, NEW c \in Conns, Go(c)
    PROVE  /\ seen' \in [Conns -> Seq(Posts)]
           /\ \A d \in Conns : d # c => seen'[d] = seen[d]
           /\ \A q : Has(seen'[c], q) => Has(seen[c], q)
           /\ \A i \in DOMAIN seen'[c] : i \in DOMAIN seen[c] /\ seen'[c][i] = seen[c][i]
<1>0. seen \in [Conns -> Seq(Posts)] /\ seen[c] \in Seq(Posts) /\ since[c].wrote \in Nat
  BY DEF TypeOK, Stays
<1>1. CASE UNCHANGED seen
  BY <1>0, <1>1
<1>2. CASE c \in Streams
  <2>1. PICK n \in since[c].wrote..Len(seen[c]) : seen' = [seen EXCEPT ![c] = First(@, n)]
    BY <1>2 DEF Go, Arrives
  <2>2. Len(seen[c]) \in Nat /\ n \in Nat /\ n <= Len(seen[c]) /\ DOMAIN seen[c] = 1..Len(seen[c])
    BY <1>0, <2>1, LenProperties
  <2>3. n + 1 \in 1..(Len(seen[c]) + 1) /\ (n + 1) - 1 = n
    BY <2>2
  <2>4. /\ First(seen[c], n) \in Seq(Posts) /\ Len(First(seen[c], n)) = n
        /\ \A i \in 1..n : First(seen[c], n)[i] = seen[c][i]
        /\ \A q : Has(First(seen[c], n), q) => Has(seen[c], q)
    <3> DEFINE m == n + 1
    <3>1. m \in 1..(Len(seen[c]) + 1) /\ m - 1 = n
      BY <2>3
    <3> HIDE DEF m
    <3>2. /\ First(seen[c], m - 1) \in Seq(Posts) /\ Len(First(seen[c], m - 1)) = m - 1
          /\ \A i \in 1..(m - 1) : First(seen[c], m - 1)[i] = seen[c][i]
          /\ \A q : Has(First(seen[c], m - 1), q) => Has(seen[c], q)
      BY <1>0, <3>1, Cut
    <3> QED
      BY <3>1, <3>2
  <2>5. seen'[c] = First(seen[c], n) /\ \A d \in Conns : d # c => seen'[d] = seen[d]
    BY <1>0, <2>1
  <2>6. DOMAIN seen'[c] = 1..n
    BY <2>4, <2>5, LenProperties
  <2>7. seen' \in [Conns -> Seq(Posts)]
    BY <1>0, <2>1, <2>4
  <2>8. \A i \in DOMAIN seen'[c] : i \in DOMAIN seen[c] /\ seen'[c][i] = seen[c][i]
    BY <2>2, <2>4, <2>5, <2>6
  <2> QED
    BY <2>4, <2>5, <2>7, <2>8
<1> QED
  BY <1>1, <1>2 DEF Go, Arrives

LEMMA GoKeeps ==
    ASSUME Inv, NEW c \in Conns, Go(c)
    PROVE  Inv'
<1> DEFINE hand == conn[c].hand
<1>1. /\ conn[c].pc \in {"writing", "parked"}
      /\ refs' = Released(refs, hand)
      /\ conn' = [conn EXCEPT ![c].pc = "leaving", ![c].hand = <<>>]
      /\ UNCHANGED <<seat, roll, here, kept, made, roster, talk, bell, left, said, since>>
  BY DEF Go
<1>2. /\ TypeOK /\ Listed /\ Seated /\ Talking /\ PostsApart /\ BellIsHeard
  BY DEF Inv
<1>3. conn \in [Conns -> Places] /\ hand \in Seq(Posts) /\ NoRepeats(hand) /\ refs \in [Posts -> Int]
  BY <1>2 DEF TypeOK, Places, PostsApart
<1>4. /\ conn' \in [Conns -> Places] /\ conn'[c].pc = "leaving" /\ conn'[c].hand = <<>>
      /\ \A d \in Conns : conn'[d].ticket = conn[d].ticket /\ (d # c => conn'[d] = conn[d])
  <2> DEFINE none == <<>>
  <2>1. conn' = [conn EXCEPT ![c].pc = "leaving", ![c].hand = none] /\ none \in Seq(Posts)
    BY <1>1
  <2> HIDE DEF none
  <2>2. /\ conn' \in [Conns -> Places] /\ conn'[c].pc = "leaving" /\ conn'[c].hand = none
        /\ \A d \in Conns : conn'[d].ticket = conn[d].ticket /\ (d # c => conn'[d] = conn[d])
    BY <1>3, <2>1 DEF Places
  <2> QED
    BY <2>2 DEF none
<1>5. Shaped'
  BY <1>1, <1>2, <1>4, HasTheFirst DEF Shaped, TypeOK
<1>6. Listed' /\ Talking'
  BY <1>1, <1>2 DEF Listed, Talking
<1>7. Seated'
  <2>1. \A d \in Conns : conn'[d].pc \in {"away", "leaving"} => conn'[d].hand = <<>>
    BY <1>2, <1>4 DEF Seated
  <2>2. \A d \in Conns : conn'[d].pc = "away" <=> conn[d].pc = "away"
    BY <1>1, <1>4
  <2> QED
    BY <1>1, <1>2, <1>4, <2>1, <2>2 DEF Seated, StillMine, Mine
<1>8. \A q \in Posts : Handed(q) => Handed(q)'
  BY <1>1 DEF Handed
<1>9. PostsApart'
  <2>1. \A d \in Conns : /\ NoRepeats(conn'[d].hand)
                         /\ \A q \in Posts : Has(conn'[d].hand, q) => Handed(q)
    BY <1>2, <1>4, Short DEF PostsApart
  <2> QED
    BY <1>1, <1>2, <1>8, <2>1 DEF PostsApart
<1>10. /\ refs' \in [Posts -> Int]
       /\ \A q \in Posts : refs'[q] = refs[q] - (IF Has(hand, q) THEN 1 ELSE 0)
  <2> HIDE DEF hand
  <2> QED
    BY <1>1, <1>3, Released1
<1>11. \A q \in Posts : Exact(q)'
  <2> TAKE q \in Posts
  <2>1. Tellers(q)' = Tellers(q) /\ Count(kept, q)' = Count(kept, q) /\ Rings(q)' = Rings(q)
    BY <1>1 DEF Tellers, Count, Rings
  <2>2. Hands(q)' = Hands(q) \ {c} /\ (c \in Hands(q) <=> Has(hand, q))
    BY <1>4, Short DEF Hands
  <2>3. Cardinality(Hands(q)') = Cardinality(Hands(q)) - (IF Has(hand, q) THEN 1 ELSE 0)
    <3>1. CASE c \in Hands(q)
      <4>1. Cardinality(Hands(q) \ {c}) = Cardinality(Hands(q)) - 1
        BY <3>1, FiniteHolders, OneFewer
      <4> QED
        BY <2>2, <3>1, <4>1
    <3>2. CASE c \notin Hands(q)
      <4>1. Hands(q)' = Hands(q)
        BY <2>2, <3>2
      <4> QED
        BY <2>2, <3>2, <4>1, FiniteHolders
    <3> QED
      BY <3>1, <3>2
  <2>4. /\ refs[q] = Cardinality(Tellers(q)) + Cardinality(Rings(q)) + Count(kept, q)
                     + Cardinality(Hands(q))
        /\ Count(kept, q) \in Nat
    BY Counts
  <2>5. /\ Cardinality(Tellers(q)) \in Nat /\ Cardinality(Rings(q)) \in Nat
        /\ Cardinality(Hands(q)) \in Nat
    BY FiniteHolders
  <2> QED
    BY <1>10, <2>1, <2>3, <2>4, <2>5 DEF Exact
<1>12. BellIsHeard'
  BY <1>1, <1>2, <1>4 DEF BellIsHeard, Mine
<1> QED
  BY <1>5, <1>6, <1>7, <1>9, <1>10, <1>11, <1>12, ExactNext DEF Inv

(* GiveUp: the seat changes places with the last taken one of the roll,    *)
(* and its ring is let go.                                                 *)
LEMMA GiveUpKeeps ==
    ASSUME Inv, NEW c \in Conns, GiveUp(c)
    PROVE  Inv'
<1> DEFINE i == conn[c].ticket.index
           k == seat[i].slot
           last == here - 1
           moved == roll[last]
           ring == seat[i].ring
<1>1. /\ conn[c].pc = "leaving" /\ roster = Nobody /\ StillMine(c)
      /\ refs' = Released(refs, ring)
      /\ roll' = [roll EXCEPT ![last] = i, ![k] = moved]
      /\ seat' = [[seat EXCEPT ![i].taken = FALSE, ![i].waker = Nobody, ![i].ring = <<>>]
                    EXCEPT ![moved].slot = k]
      /\ here' = last
      /\ conn' = [conn EXCEPT ![c] = Away]
      /\ bell' = [bell EXCEPT ![c] = FALSE]
      /\ since' = [since EXCEPT ![c] = NoStay]
      /\ UNCHANGED <<kept, made, roster, talk, left, said, seen>>
  BY DEF GiveUp
<1>2. /\ TypeOK /\ Listed /\ Seated /\ Talking /\ PostsApart /\ BellIsHeard
  BY DEF Inv
<1>3. /\ i \in Index /\ seat[i].taken /\ seat[i].waker = c
  BY <1>1, <1>2 DEF Seated, StillMine, Mine
<1>4. /\ seat \in [Index -> Chairs] /\ roll \in [Index -> Index] /\ here \in 0..Seats /\ Seats \in Nat
      /\ conn \in [Conns -> Places] /\ bell \in [Conns -> BOOLEAN] /\ since \in [Conns -> Stays]
      /\ refs \in [Posts -> Int]
  BY <1>2, RoomAssumption DEF TypeOK
<1>5. /\ k \in Index /\ roll[k] = i /\ k < here
  <2>1. PICK j \in Index : roll[j] = i
    BY <1>2, <1>3 DEF Listed
  <2>2. j < here /\ seat[roll[j]].slot = j
    BY <1>2, <1>3, <2>1 DEF Listed
  <2> QED
    BY <2>1, <2>2
<1>6. /\ last \in Index /\ last \in 0..Seats /\ k <= last /\ last < here
      /\ \A j \in Index : j < last <=> j < here /\ j # last
  BY <1>4, <1>5 DEF Index
<1>7. /\ moved \in Index /\ seat[moved].slot = last /\ seat[moved].taken /\ (moved = i <=> k = last)
  BY <1>2, <1>4, <1>5, <1>6 DEF Listed
<1>8. ring \in Seq(Posts) /\ NoRepeats(ring)
  BY <1>2, <1>3, <1>4 DEF Chairs, PostsApart
<1>9. /\ seat' \in [Index -> Chairs]
      /\ ~seat'[i].taken /\ seat'[i].ring = <<>>
      /\ seat'[moved].slot = k
      /\ \A r \in Index : r # i => /\ seat'[r].taken = seat[r].taken /\ seat'[r].era = seat[r].era
                                   /\ seat'[r].waker = seat[r].waker /\ seat'[r].ring = seat[r].ring
      /\ \A r \in Index : r # moved => seat'[r].slot = seat[r].slot
  <2> DEFINE mid == [seat EXCEPT ![i].taken = FALSE, ![i].waker = Nobody, ![i].ring = <<>>]
  <2>1. /\ mid \in [Index -> Chairs]
        /\ ~mid[i].taken /\ mid[i].ring = <<>>
        /\ \A r \in Index : r # i => mid[r] = seat[r]
        /\ \A r \in Index : mid[r].slot = seat[r].slot
    <3> DEFINE none == <<>>
    <3>1. /\ mid = [seat EXCEPT ![i].taken = FALSE, ![i].waker = Nobody, ![i].ring = none]
          /\ none \in Seq(Posts)
      OBVIOUS
    <3> HIDE DEF none, mid
    <3>2. /\ mid \in [Index -> Chairs]
          /\ ~mid[i].taken /\ mid[i].ring = none
          /\ \A r \in Index : r # i => mid[r] = seat[r]
          /\ \A r \in Index : mid[r].slot = seat[r].slot
      <4> HIDE DEF i
      <4>1. \A r \in Index : r # i => mid[r] = seat[r]
        BY <1>3, <1>4, <3>1
      <4>2. mid[i] = [[[seat[i] EXCEPT !.taken = FALSE] EXCEPT !.waker = Nobody] EXCEPT !.ring = none]
        BY <1>3, <1>4, <3>1
      <4>3. seat[i] \in Chairs
        BY <1>3, <1>4
      <4>4. mid[i] \in Chairs /\ ~mid[i].taken /\ mid[i].ring = none /\ mid[i].slot = seat[i].slot
        <5> DEFINE e1 == [seat[i] EXCEPT !.taken = FALSE]
                   e2 == [e1 EXCEPT !.waker = Nobody]
        <5>1. e1 \in Chairs /\ ~e1.taken /\ e1.slot = seat[i].slot
          BY <4>3 DEF Chairs
        <5> HIDE DEF e1
        <5>2. e2 \in Chairs /\ ~e2.taken /\ e2.slot = seat[i].slot
          BY <5>1 DEF Chairs
        <5>3. mid[i] = [e2 EXCEPT !.ring = none]
          BY <4>2 DEF e1
        <5> HIDE DEF e2
        <5>4. mid[i].ring = none /\ mid[i].slot = e2.slot /\ mid[i].taken = e2.taken
          BY <5>2, <5>3 DEF Chairs
        <5>6. none \in Seq(Posts)
          BY <3>1
        <5>5. mid[i] \in Chairs
          BY <5>2, <5>3, <5>6 DEF Chairs
        <5> QED
          BY <5>2, <5>4, <5>5
      <4>5. mid \in [Index -> Chairs]
        <5>1. mid = [r \in Index |-> mid[r]]
          BY <1>4, <3>1
        <5> QED
          BY <1>4, <4>1, <4>4, <5>1
      <4> QED
        BY <4>1, <4>4, <4>5
    <3> QED
      BY <3>2 DEF none
  <2>2. seat' = [mid EXCEPT ![moved].slot = k]
    BY <1>1
  <2> HIDE DEF mid
  <2>3. seat' = [mid EXCEPT ![moved] = [mid[moved] EXCEPT !.slot = k]]
    BY <1>7, <2>1, <2>2
  <2>4. mid[moved] \in Chairs
    BY <1>7, <2>1
  <2> DEFINE e == mid[moved]
             there == [e EXCEPT !.slot = k]
  <2>5. /\ there \in Chairs /\ there.slot = k /\ there.taken = e.taken /\ there.era = e.era
        /\ there.waker = e.waker /\ there.ring = e.ring
    <3> HIDE DEF e
    <3> QED
      BY <1>5, <2>4 DEF Chairs, e
  <2>6. seat' = [mid EXCEPT ![moved] = there]
    BY <2>3
  <2> HIDE DEF there
  <2>7. /\ seat' \in [Index -> Chairs] /\ seat'[moved] = there
        /\ \A r \in Index : r # moved => seat'[r] = mid[r]
    BY <1>7, <2>1, <2>5, <2>6
  <2> QED
    BY <1>3, <1>7, <2>1, <2>5, <2>7
<1>10. /\ roll' \in [Index -> Index] /\ roll'[k] = moved /\ roll'[last] = (IF k = last THEN moved ELSE i)
       /\ \A j \in Index : j # k /\ j # last => roll'[j] = roll[j]
  BY <1>1, <1>3, <1>4, <1>5, <1>6, <1>7
<1>11. /\ conn' \in [Conns -> Places] /\ conn'[c] = Away /\ Away.pc = "away" /\ Away.hand = <<>>
       /\ \A d \in Conns : d # c => conn'[d] = conn[d] /\ bell'[d] = bell[d]
       /\ bell' \in [Conns -> BOOLEAN] /\ since' \in [Conns -> Stays]
  <2>1. Away \in Places /\ NoStay \in Stays
    BY <1>4 DEF Away, Places, NoTicket, Tickets, NoStay, Stays
  <2>2. Away.pc = "away" /\ Away.hand = <<>>
    BY DEF Away
  <2> QED
    BY <1>1, <1>4, <2>1, <2>2
<1>12. Shaped'
  <2>1. \A r \in Index : Len(seat'[r].ring) <= Backlog
    <3> TAKE r \in Index
    <3>1. CASE r = i
      BY <1>9, <3>1, RoomAssumption
    <3>2. CASE r # i
      BY <1>2, <1>9, <3>2 DEF TypeOK
    <3> QED
      BY <3>1, <3>2
  <2> QED
    BY <1>1, <1>2, <1>6, <1>9, <1>10, <1>11, <2>1 DEF Shaped, TypeOK
<1>13. Listed'
  <2>1. \A j, l \in Index : roll'[j] = roll'[l] => j = l
    BY <1>2, <1>5, <1>6, <1>7, <1>10 DEF Listed
  <2>2. \A r \in Index : \E j \in Index : roll'[j] = r
    <3> TAKE r \in Index
    <3>1. PICK j \in Index : roll[j] = r
      BY <1>2 DEF Listed
    <3>2. CASE j = k
      BY <1>5, <1>6, <1>7, <1>10, <3>1, <3>2
    <3>3. CASE j = last
      BY <1>5, <1>10, <3>1, <3>3
    <3>4. CASE j # k /\ j # last
      BY <1>10, <3>1, <3>4
    <3> QED
      BY <3>2, <3>3, <3>4
  <2>3. \A j \in Index : (seat'[roll'[j]].taken <=> j < here') /\ (j < here' => seat'[roll'[j]].slot = j)
    <3> TAKE j \in Index
    <3>1. CASE j = last
      <4>1. roll'[j] = i
        BY <1>7, <1>10, <3>1
      <4>2. ~(j < here')
        BY <1>1, <1>6, <3>1
      <4> QED
        BY <1>9, <4>1, <4>2
    <3>2. CASE j # last /\ j = k
      <4>1. roll'[j] = moved /\ moved # i
        BY <1>7, <1>10, <3>2
      <4>2. j < here'
        BY <1>1, <1>5, <1>6, <3>2
      <4> QED
        BY <1>7, <1>9, <3>2, <4>1, <4>2
    <3>3. CASE j # last /\ j # k
      <4>1. roll'[j] = roll[j] /\ roll[j] \in Index /\ roll[j] # i /\ roll[j] # moved
        BY <1>2, <1>4, <1>5, <1>6, <1>10, <3>3 DEF Listed
      <4>2. j < here' <=> j < here
        BY <1>1, <1>6, <3>3
      <4>3. /\ seat'[roll[j]].taken = seat[roll[j]].taken
            /\ seat'[roll[j]].slot = seat[roll[j]].slot
        BY <1>9, <4>1
      <4> QED
        BY <1>2, <4>1, <4>2, <4>3 DEF Listed
    <3> QED
      BY <3>1, <3>2, <3>3
  <2>4. \A r \in Index : ~seat'[r].taken => seat'[r].ring = <<>>
    BY <1>2, <1>9 DEF Listed
  <2> QED
    BY <2>1, <2>2, <2>3, <2>4 DEF Listed
<1>14. Seated'
  <2>1. ASSUME NEW d \in Conns, conn'[d].pc # "away"
        PROVE  /\ conn'[d].ticket.index \in Index /\ seat'[conn'[d].ticket.index].taken
               /\ seat'[conn'[d].ticket.index].era = conn'[d].ticket.era
               /\ seat'[conn'[d].ticket.index].waker = d
    <3>1. d # c /\ conn'[d] = conn[d]
      BY <1>11, <2>1
    <3>2. /\ conn[d].ticket.index \in Index /\ seat[conn[d].ticket.index].taken
          /\ seat[conn[d].ticket.index].era = conn[d].ticket.era
          /\ seat[conn[d].ticket.index].waker = d
      BY <1>2, <2>1, <3>1 DEF Seated, StillMine, Mine
    <3>3. conn[d].ticket.index # i
      BY <1>3, <3>1, <3>2
    <3> QED
      BY <1>9, <3>1, <3>2, <3>3
  <2>2. ASSUME NEW r \in Index, seat'[r].taken
        PROVE  /\ seat'[r].waker \in Conns /\ conn'[seat'[r].waker].pc # "away"
               /\ conn'[seat'[r].waker].ticket.index = r
    <3>1. r # i /\ seat'[r].waker = seat[r].waker /\ seat[r].taken
      BY <1>9, <2>2
    <3>2. /\ seat[r].waker \in Conns /\ conn[seat[r].waker].pc # "away"
          /\ conn[seat[r].waker].ticket.index = r
      BY <1>2, <3>1 DEF Seated
    <3>3. seat[r].waker # c
      BY <3>1, <3>2
    <3> QED
      BY <1>11, <3>1, <3>2, <3>3
  <2>3. \A d \in Conns : conn'[d].pc \in {"away", "leaving"} => conn'[d].hand = <<>>
    BY <1>2, <1>11 DEF Seated
  <2> QED
    BY <2>1, <2>2, <2>3 DEF Seated, StillMine, Mine
<1>15. Talking'
  BY <1>1, <1>2 DEF Talking
<1>16. \A q \in Posts : Handed(q) => Handed(q)'
  BY <1>1 DEF Handed
<1>17. PostsApart'
  <2>1. \A r \in Index : /\ NoRepeats(seat'[r].ring)
                         /\ \A q \in Posts : Has(seat'[r].ring, q) => Handed(q)
    <3> TAKE r \in Index
    <3>1. CASE r = i
      BY <1>9, <3>1, Short
    <3>2. CASE r # i
      BY <1>2, <1>9, <3>2 DEF PostsApart
    <3> QED
      BY <3>1, <3>2
  <2>2. \A d \in Conns : /\ NoRepeats(conn'[d].hand)
                         /\ \A q \in Posts : Has(conn'[d].hand, q) => Handed(q)
    BY <1>2, <1>11, Short DEF PostsApart
  <2>3. \A g \in Speakers : talk[g].pc # "putting"
    BY <1>1, <1>2, RoomAssumption DEF Talking
  <2> QED
    BY <1>1, <1>2, <1>16, <2>1, <2>2, <2>3 DEF PostsApart
<1>18. /\ refs' \in [Posts -> Int]
       /\ \A q \in Posts : refs'[q] = refs[q] - (IF Has(ring, q) THEN 1 ELSE 0)
  <2> HIDE DEF ring
  <2> QED
    BY <1>1, <1>4, <1>8, Released1
<1>19. \A q \in Posts : Exact(q)'
  <2> TAKE q \in Posts
  <2>1. Tellers(q)' = Tellers(q) /\ Count(kept, q)' = Count(kept, q)
    BY <1>1 DEF Tellers, Count
  <2>2. Hands(q)' = Hands(q)
    <3>1. \A d \in Conns : conn'[d].hand = conn[d].hand
      BY <1>1, <1>2, <1>11 DEF Seated
    <3> QED
      BY <3>1 DEF Hands
  <2>3. Rings(q)' = Rings(q) \ {i} /\ (i \in Rings(q) <=> Has(ring, q))
    <3>1. \A r \in Index : Has(seat'[r].ring, q) <=> r # i /\ Has(seat[r].ring, q)
      BY <1>9, Short
    <3> QED
      BY <1>3, <3>1 DEF Rings
  <2>4. Cardinality(Rings(q)') = Cardinality(Rings(q)) - (IF Has(ring, q) THEN 1 ELSE 0)
    <3>1. CASE i \in Rings(q)
      <4>1. Cardinality(Rings(q) \ {i}) = Cardinality(Rings(q)) - 1
        BY <3>1, FiniteHolders, OneFewer
      <4> QED
        BY <2>3, <3>1, <4>1
    <3>2. CASE i \notin Rings(q)
      <4>1. Rings(q)' = Rings(q)
        BY <2>3, <3>2
      <4> QED
        BY <2>3, <3>2, <4>1, FiniteHolders
    <3> QED
      BY <3>1, <3>2
  <2>5. /\ refs[q] = Cardinality(Tellers(q)) + Cardinality(Rings(q)) + Count(kept, q)
                     + Cardinality(Hands(q))
        /\ Count(kept, q) \in Nat
    BY Counts
  <2>6. /\ Cardinality(Tellers(q)) \in Nat /\ Cardinality(Rings(q)) \in Nat
        /\ Cardinality(Hands(q)) \in Nat
    BY FiniteHolders
  <2> QED
    BY <1>18, <2>1, <2>2, <2>4, <2>5, <2>6 DEF Exact
<1>20. BellIsHeard'
  <2> SUFFICES ASSUME NEW d \in Conns, conn'[d].pc = "parked", Mine(d)'.ring # <<>> PROVE bell'[d]
    BY DEF BellIsHeard
  <2>1. d # c /\ conn'[d] = conn[d] /\ bell'[d] = bell[d]
    BY <1>11
  <2>2. conn[d].ticket.index \in Index /\ conn[d].ticket.index # i
    BY <1>2, <1>3, <2>1 DEF Seated, StillMine, Mine
  <2>3. Mine(d)'.ring = Mine(d).ring
    BY <1>9, <2>1, <2>2 DEF Mine
  <2> QED
    BY <1>2, <2>1, <2>3 DEF BellIsHeard
<1> QED
  BY <1>12, <1>13, <1>14, <1>15, <1>17, <1>18, <1>19, <1>20, ExactNext DEF Inv

(* Every step keeps Inv.                                                   *)
LEMMA InvNext == Inv /\ [Next]_vars => Inv'
<1> SUFFICES ASSUME Inv, [Next]_vars PROVE Inv'
  OBVIOUS
<1>1. ASSUME NEW f \in Speakers, Speaks(f) PROVE Inv'
  BY <1>1, ReserveKeeps, LockRosterKeeps, RosterRefusedKeeps, PutNextKeeps, PutRefusedKeeps,
     EndHandOutKeeps, ReleaseOwnKeeps DEF Speaks
<1>2. ASSUME NEW c \in Conns, Listens(c) PROVE Inv'
  BY <1>2, SitKeeps, WriteKeeps, TakeKeeps, TurnsRoundKeeps, GoKeeps, GiveUpKeeps DEF Listens
<1>3. CASE UNCHANGED vars
  <2>1. TypeOK' /\ Listed' /\ Talking'
    BY <1>3 DEF vars, Inv, TypeOK, Listed, Talking
  <2>2. Seated' /\ BellIsHeard'
    BY <1>3 DEF vars, Inv, Seated, StillMine, Mine, BellIsHeard
  <2>3. PostsApart'
    BY <1>3 DEF vars, Inv, PostsApart, Handed
  <2>4. RefsAreExact'
    BY <1>3 DEF vars, Inv, RefsAreExact, Count
  <2> QED
    BY <2>1, <2>2, <2>3, <2>4 DEF Inv
<1> QED
  BY <1>1, <1>2, <1>3 DEF Next

(* The inductive invariant holds of every room.                            *)
THEOREM RoomInvariant == Spec => []Inv
BY InvInit, InvNext, PTL DEF Spec

(* A post is freed when, and only when, no speaker, ring, kept place or    *)
(* hand has it, in a room of any size.                                     *)
THEOREM RefsExact == Spec => []RefsAreExact
<1>1. Inv => RefsAreExact
  BY DEF Inv
<1> QED
  BY <1>1, RoomInvariant, PTL

(* The seats, the roll and the bells agree in a room of any size.          *)
THEOREM SeatsSound == Spec => []SeatsAreSound
<1>1. Inv => SeatsAreSound
  <2> SUFFICES ASSUME Inv PROVE SeatsAreSound
    OBVIOUS
  <2>1. TypeOK /\ Listed /\ Seated /\ BellIsHeard
    BY DEF Inv
  <2>2. ASSUME NEW i \in 0..(here - 1)
        PROVE  /\ seat[roll[i]].slot = i
               /\ \E c \in Conns : /\ seat[roll[i]].waker = c /\ conn[c].pc # "away"
                                   /\ conn[c].ticket = [index |-> roll[i], era |-> seat[roll[i]].era]
    <3>1. i \in Index /\ i < here /\ roll[i] \in Index
      BY <2>1, RoomAssumption DEF TypeOK, Index
    <3>2. seat[roll[i]].slot = i /\ seat[roll[i]].taken
      BY <2>1, <3>1 DEF Listed
    <3> DEFINE c == seat[roll[i]].waker
    <3>3. c \in Conns /\ conn[c].pc # "away" /\ conn[c].ticket.index = roll[i]
      BY <2>1, <3>1, <3>2 DEF Seated
    <3>4. seat[roll[i]].era = conn[c].ticket.era
      BY <2>1, <3>3 DEF Seated, StillMine, Mine
    <3>5. conn[c].ticket \in Tickets
      BY <2>1, <3>3 DEF TypeOK, Places
    <3>6. conn[c].ticket = [index |-> roll[i], era |-> seat[roll[i]].era]
      BY <3>3, <3>4, <3>5 DEF Tickets
    <3> QED
      BY <3>2, <3>3, <3>6
  <2>3. RollIsRight
    BY <2>1, <2>2 DEF RollIsRight, Listed
  <2> QED
    BY <2>1, <2>3 DEF SeatsAreSound
<1> QED
  BY <1>1, RoomInvariant, PTL

-----------------------------------------------------------------------------
(* Delivery: what a client is written, and what it misses.                 *)

(* The posts of s were said in its order, and those of s before those of   *)
(* t, by u, which is what has been said.                                   *)
Rising(u, s) == \A i, j \in DOMAIN s : i < j => Where(u, s[i]) < Where(u, s[j])
Before(u, s, t) == \A p, q \in Posts : Has(s, p) /\ Has(t, q) => Where(u, p) < Where(u, q)
Upto(u, s, n) == \A p \in Posts : Has(s, p) => Where(u, p) <= n
Over(u, s, n) == \A p \in Posts : Has(s, p) => Where(u, p) > n
Within(s, u) == \A p \in Posts : Has(s, p) => Has(u, p)

(* What a client was written, what is in its hand and what is in its ring  *)
(* (w, h and r) follow each other; what is in the ring was said after it   *)
(* sat; and nothing of it was said after the last broadcast that has come  *)
(* to it, the one of u[to].                                                *)
InTurn(u, w, h, r, to, st) ==
    /\ Within(h, u) /\ Within(r, u)
    /\ Rising(u, h) /\ Rising(u, r)
    /\ Before(u, w, h) /\ Before(u, w, r) /\ Before(u, h, r)
    /\ Upto(u, w, to) /\ Upto(u, h, to) /\ Upto(u, r, to)
    /\ Over(u, r, st.sat)
    /\ st.from <= st.sat /\ st.sat <= to /\ to <= Len(u)

(* The posts meant for a client, and that none of them is unaccounted for. *)
Meant(u, to, st) ==
    {n \in (st.from + 1)..Len(u) : IF n <= st.sat THEN Keepable(u[n]) ELSE n <= to}
Balanced(u, w, h, r, to, st, lost) ==
    Cardinality(Meant(u, to, st)) = Len(w) - st.wrote + (Len(h) + Len(r)) + lost

(* Where the last broadcast that has come to c stands among the ones said. *)
Heard(c) ==
    IF roster = Nobody \/ Mine(c).slot < talk[roster].at THEN Len(said) ELSE Len(said) - 1
Lost(c) == Mine(c).dropped + since[c].refused

(* What the room owes one client, wherever it is.                          *)
Client(c) ==
    /\ Within(seen[c], said) /\ Rising(said, seen[c])
    /\ conn[c].pc # "away" =>
         InTurn(said, seen[c], conn[c].hand, Mine(c).ring, Heard(c), since[c])
    /\ conn[c].pc \in {"writing", "parked"} =>
         Balanced(said, seen[c], conn[c].hand, Mine(c).ring, Heard(c), since[c], Lost(c))

(* A post is said once, by the speaker that made it; the one being handed  *)
(* out was said last.                                                      *)
SaidOnce ==
    /\ NoRepeats(said)
    /\ \A p \in Posts : Has(said, p) => Handed(p)
    /\ \A f \in Speakers : talk[f].pc = "reserved" => talk[f].at = 0
    /\ \A f \in Speakers : talk[f].pc = "putting" =>
         said # <<>> /\ said[Len(said)] = talk[f].post

(* The kept posts are the last ones said that can be kept, in order,       *)
(* without a gap, but for the one being handed out.                        *)
KeptInOrder ==
    /\ Rising(said, kept)
    /\ \A p \in Posts : Has(kept, p) => Keepable(p)
    /\ \A p \in Posts, n \in DOMAIN said :
         Has(kept, p) /\ Where(said, p) <= n /\ Keepable(said[n])
         /\ (roster = Nobody \/ n < Len(said)) => Has(kept, said[n])

(* The inductive invariant of delivery, on top of Inv.                     *)
Delivery == SaidOnce /\ KeptInOrder /\ \A c \in Conns : Client(c)

-----------------------------------------------------------------------------
(* Delivery: where posts stand among the ones said.                        *)

(* A post said once is where it is.                                        *)
LEMMA WhereIs ==
    ASSUME NEW u \in Seq(Posts), NoRepeats(u)
    PROVE  /\ \A i \in DOMAIN u : Where(u, u[i]) = i /\ Has(u, u[i]) /\ u[i] \in Posts
           /\ \A p : Has(u, p) => /\ Where(u, p) \in 1..Len(u) /\ Where(u, p) \in DOMAIN u
                                  /\ Where(u, p) \in Int /\ u[Where(u, p)] = p
<1>1. DOMAIN u = 1..Len(u) /\ Len(u) \in Nat
  BY LenProperties
<1>2. \A i \in DOMAIN u : Where(u, u[i]) = i
  BY DEF Where, NoRepeats
<1>3. \A i \in DOMAIN u : Has(u, u[i]) /\ u[i] \in Posts
  BY DEF Has
<1>4. ASSUME NEW p, Has(u, p) PROVE Where(u, p) \in DOMAIN u /\ u[Where(u, p)] = p
  BY <1>4 DEF Has, Where
<1>5. \A i \in DOMAIN u : i \in 1..Len(u) /\ i \in Int
  BY <1>1
<1> QED
  BY <1>2, <1>3, <1>4, <1>5

(* Saying another moves none of the earlier ones.                          *)
LEMMA WhereStays ==
    ASSUME NEW u \in Seq(Posts), NoRepeats(u), NEW p \in Posts, ~Has(u, p)
    PROVE  /\ \A q : Has(u, q) => Where(Append(u, p), q) = Where(u, q)
           /\ Where(Append(u, p), p) = Len(u) + 1
           /\ NoRepeats(Append(u, p)) /\ Append(u, p) \in Seq(Posts)
           /\ Len(Append(u, p)) = Len(u) + 1
           /\ \A i \in 1..Len(u) : Append(u, p)[i] = u[i]
           /\ Append(u, p)[Len(u) + 1] = p
<1> DEFINE t == Append(u, p)
<1>1. /\ t \in Seq(Posts) /\ Len(t) = Len(u) + 1
      /\ \A i \in 1..Len(u) : t[i] = u[i]
      /\ t[Len(u) + 1] = p
  BY AppendProperties
<1>2. NoRepeats(t)
  BY Appended
<1>3. Len(u) \in Nat /\ DOMAIN t = 1..(Len(u) + 1)
  BY <1>1, LenProperties
<1> HIDE DEF t
<1>4. \A i \in DOMAIN t : Where(t, t[i]) = i
  BY <1>1, <1>2, WhereIs
<1>5. Where(t, p) = Len(u) + 1
  <2>1. Len(u) + 1 \in DOMAIN t
    BY <1>3
  <2> QED
    BY <1>1, <1>4, <2>1
<1>6. ASSUME NEW q, Has(u, q) PROVE Where(t, q) = Where(u, q)
  <2> DEFINE i == Where(u, q)
  <2>1. i \in 1..Len(u) /\ u[i] = q
    BY <1>6, WhereIs
  <2> HIDE DEF i
  <2>2. i \in DOMAIN t /\ t[i] = q
    BY <1>1, <1>3, <2>1
  <2>3. Where(t, q) = i
    BY <1>4, <2>2
  <2> QED
    BY <2>3 DEF i
<1> QED
  BY <1>1, <1>2, <1>5, <1>6 DEF t

(* A post said after all of s, at the end of s.                            *)
LEMMA RisingLonger ==
    ASSUME NEW u, NEW s \in Seq(Posts), NEW p \in Posts, Rising(u, s),
           \A q \in Posts : Has(s, q) => Where(u, q) < Where(u, p)
    PROVE  Rising(u, Append(s, p))
<1> DEFINE t == Append(s, p)
<1>1. /\ t \in Seq(Posts) /\ Len(t) = Len(s) + 1
      /\ \A i \in 1..Len(s) : t[i] = s[i]
      /\ t[Len(s) + 1] = p
  BY AppendProperties
<1>2. Len(s) \in Nat /\ DOMAIN t = 1..(Len(s) + 1) /\ DOMAIN s = 1..Len(s)
  BY <1>1, LenProperties
<1> HIDE DEF t
<1>3. \A i \in DOMAIN s : Has(s, s[i]) /\ s[i] \in Posts
  BY DEF Has
<1>4. ASSUME NEW i \in DOMAIN t, NEW j \in DOMAIN t, i < j
      PROVE  Where(u, t[i]) < Where(u, t[j])
  <2>1. i \in DOMAIN s /\ t[i] = s[i]
    BY <1>1, <1>2, <1>4
  <2>2. CASE j = Len(s) + 1
    BY <1>1, <1>3, <2>1, <2>2
  <2>3. CASE j # Len(s) + 1
    <3>1. j \in DOMAIN s /\ t[j] = s[j]
      BY <1>1, <1>2, <2>3
    <3> QED
      BY <1>4, <2>1, <3>1 DEF Rising
  <2> QED
    BY <2>2, <2>3
<1> QED
  BY <1>4 DEF Rising, t

(* What is left of s when some of its front goes.                          *)
LEMMA RisingCut ==
    ASSUME NEW u, NEW s \in Seq(Posts), NEW n \in 1..(Len(s) + 1), Rising(u, s)
    PROVE  /\ Rising(u, From(s, n))
           /\ \A i \in DOMAIN s, q \in Posts :
                i < n /\ Has(From(s, n), q) => Where(u, s[i]) < Where(u, q)
<1> DEFINE t == From(s, n)
<1>0. Len(s) \in Nat /\ n \in Nat /\ DOMAIN s = 1..Len(s)
  BY LenProperties
<1>1. /\ t \in Seq(Posts) /\ Len(t) = Len(s) - n + 1
      /\ \A i \in 1..(Len(s) - n + 1) : t[i] = s[n + i - 1]
  BY Cut
<1>2. DOMAIN t = 1..(Len(s) - n + 1)
  BY <1>1, LenProperties
<1> HIDE DEF t
<1>3. \A i \in DOMAIN t : n + i - 1 \in DOMAIN s /\ t[i] = s[n + i - 1] /\ i \in Int /\ n <= n + i - 1
  BY <1>0, <1>1, <1>2
<1>4. Rising(u, t)
  <2> SUFFICES ASSUME NEW i \in DOMAIN t, NEW j \in DOMAIN t, i < j
               PROVE  Where(u, t[i]) < Where(u, t[j])
    BY DEF Rising
  <2>1. n + i - 1 < n + j - 1
    BY <1>0, <1>3
  <2> QED
    BY <1>3, <2>1 DEF Rising
<1>5. ASSUME NEW i \in DOMAIN s, NEW q \in Posts, i < n, Has(t, q) PROVE Where(u, s[i]) < Where(u, q)
  <2>1. PICK j \in DOMAIN t : t[j] = q
    BY <1>5 DEF Has
  <2>2. i < n + j - 1
    BY <1>0, <1>3, <1>5
  <2> QED
    BY <1>3, <2>1, <2>2 DEF Rising
<1> QED
  BY <1>4, <1>5 DEF t

(* What is left of s when its first goes, which was said before the rest.  *)
LEMMA RisingTail ==
    ASSUME NEW u, NEW s \in Seq(Posts), s # <<>>, Rising(u, s)
    PROVE  /\ Rising(u, Tail(s))
           /\ \A q \in Posts : Has(Tail(s), q) => Where(u, Head(s)) < Where(u, q)
<1> DEFINE t == Tail(s)
<1>1. /\ t \in Seq(Posts) /\ Len(t) = Len(s) - 1
      /\ \A i \in 1..Len(t) : t[i] = s[i + 1]
      /\ Head(s) = s[1]
  BY HeadTailProperties
<1>2. /\ DOMAIN s = 1..Len(s) /\ DOMAIN t = 1..(Len(s) - 1) /\ Len(s) \in Nat /\ Len(s) > 0
  BY <1>1, LenProperties, EmptySeq
<1>3. /\ \A i \in DOMAIN t : i + 1 \in DOMAIN s /\ t[i] = s[i + 1] /\ i \in Int /\ 1 < i + 1
      /\ 1 \in DOMAIN s
  BY <1>1, <1>2
<1> HIDE DEF t
<1>4. Rising(u, t)
  <2> SUFFICES ASSUME NEW i \in DOMAIN t, NEW j \in DOMAIN t, i < j
               PROVE  Where(u, t[i]) < Where(u, t[j])
    BY DEF Rising
  <2>1. i + 1 < j + 1
    BY <1>3
  <2> QED
    BY <1>3, <2>1 DEF Rising
<1>5. ASSUME NEW q \in Posts, Has(t, q) PROVE Where(u, Head(s)) < Where(u, q)
  <2>1. PICK j \in DOMAIN t : t[j] = q
    BY <1>5 DEF Has
  <2> QED
    BY <1>1, <1>3, <2>1 DEF Rising
<1> QED
  BY <1>4, <1>5 DEF t

(* The last of s was said after the others.                                *)
LEMMA RisingLast ==
    ASSUME NEW u \in Seq(Posts), NoRepeats(u), NEW s \in Seq(Posts), s # <<>>, Rising(u, s),
           Within(s, u)
    PROVE  /\ s[Len(s)] \in Posts /\ Has(s, s[Len(s)])
           /\ \A q \in Posts : Has(s, q) => Where(u, q) <= Where(u, s[Len(s)])
<1>1. DOMAIN s = 1..Len(s) /\ Len(s) \in Nat /\ Len(s) > 0
  BY LenProperties, EmptySeq
<1>2. Len(s) \in DOMAIN s /\ s[Len(s)] \in Posts /\ Has(s, s[Len(s)])
  BY <1>1 DEF Has
<1>3. ASSUME NEW q \in Posts, Has(s, q) PROVE Where(u, q) <= Where(u, s[Len(s)])
  <2>1. PICK i \in DOMAIN s : s[i] = q
    BY <1>3 DEF Has
  <2>2. Where(u, q) \in Int /\ Where(u, s[Len(s)]) \in Int
    BY <1>2, <1>3, WhereIs DEF Within
  <2>3. CASE i = Len(s)
    BY <2>1, <2>2, <2>3
  <2>4. CASE i # Len(s)
    <3>1. i < Len(s)
      BY <1>1, <2>4
    <3>2. Where(u, s[i]) < Where(u, s[Len(s)])
      BY <1>2, <3>1 DEF Rising
    <3> QED
      BY <2>1, <2>2, <3>2
  <2> QED
    BY <2>3, <2>4
<1> QED
  BY <1>2, <1>3

(* One sequence after the other.                                           *)
LEMMA RisingJoined ==
    ASSUME NEW u, NEW s \in Seq(Posts), NEW t \in Seq(Posts), Rising(u, s), Rising(u, t),
           Before(u, s, t)
    PROVE  /\ Rising(u, s \o t) /\ s \o t \in Seq(Posts) /\ Len(s \o t) = Len(s) + Len(t)
           /\ \A q : Has(s \o t, q) <=> Has(s, q) \/ Has(t, q)
<1> DEFINE a == s \o t
<1>1. /\ a \in Seq(Posts) /\ Len(a) = Len(s) + Len(t)
      /\ \A i \in 1..(Len(s) + Len(t)) : a[i] = IF i <= Len(s) THEN s[i] ELSE t[i - Len(s)]
  BY ConcatProperties
<1>2. /\ Len(s) \in Nat /\ Len(t) \in Nat /\ DOMAIN s = 1..Len(s) /\ DOMAIN t = 1..Len(t)
      /\ DOMAIN a = 1..(Len(s) + Len(t))
  BY <1>1, LenProperties
<1> HIDE DEF a
<1>3. /\ \A i \in DOMAIN a : \/ i \in DOMAIN s /\ a[i] = s[i] /\ i <= Len(s)
                             \/ i - Len(s) \in DOMAIN t /\ a[i] = t[i - Len(s)] /\ i > Len(s)
      /\ \A i \in DOMAIN s : i \in DOMAIN a /\ a[i] = s[i]
  BY <1>1, <1>2
<1>4. \A i \in DOMAIN t : i + Len(s) \in DOMAIN a /\ a[i + Len(s)] = t[i]
  <2> TAKE i \in DOMAIN t
  <2>1. i + Len(s) \in 1..(Len(s) + Len(t)) /\ ~(i + Len(s) <= Len(s)) /\ i + Len(s) - Len(s) = i
    BY <1>2
  <2> QED
    BY <1>1, <1>2, <2>1
<1>5. \A q : Has(a, q) <=> Has(s, q) \/ Has(t, q)
  BY <1>3, <1>4 DEF Has
<1>6. /\ \A i \in DOMAIN s : Has(s, s[i]) /\ s[i] \in Posts
      /\ \A i \in DOMAIN t : Has(t, t[i]) /\ t[i] \in Posts
  BY DEF Has
<1>7. ASSUME NEW i \in DOMAIN a, NEW j \in DOMAIN a, i < j PROVE Where(u, a[i]) < Where(u, a[j])
  <2>0. i \in Int /\ j \in Int /\ Len(s) \in Int
    BY <1>2
  <2>1. CASE j <= Len(s)
    <3>1. i \in DOMAIN s /\ j \in DOMAIN s /\ a[i] = s[i] /\ a[j] = s[j]
      BY <1>3, <1>7, <2>0, <2>1
    <3> QED
      BY <1>7, <3>1 DEF Rising
  <2>2. CASE i > Len(s)
    <3>1. /\ i - Len(s) \in DOMAIN t /\ j - Len(s) \in DOMAIN t /\ i - Len(s) < j - Len(s)
          /\ a[i] = t[i - Len(s)] /\ a[j] = t[j - Len(s)]
      BY <1>3, <1>7, <2>0, <2>2
    <3> QED
      BY <3>1 DEF Rising
  <2>3. CASE i <= Len(s) /\ j > Len(s)
    <3>1. i \in DOMAIN s /\ j - Len(s) \in DOMAIN t /\ a[i] = s[i] /\ a[j] = t[j - Len(s)]
      BY <1>3, <2>0, <2>3
    <3> QED
      BY <1>6, <3>1 DEF Before
  <2> QED
    BY <2>0, <2>1, <2>2, <2>3
<1> QED
  BY <1>1, <1>5, <1>7 DEF Rising, a

(* The posts said keep their order when another is said.                   *)
LEMMA OrderStays ==
    ASSUME NEW u \in Seq(Posts), NoRepeats(u), NEW p \in Posts, ~Has(u, p),
           NEW s \in Seq(Posts), Within(s, u)
    PROVE  /\ Within(s, Append(u, p))
           /\ Rising(u, s) => Rising(Append(u, p), s)
           /\ \A n : Over(u, s, n) => Over(Append(u, p), s, n)
           /\ \A n : Upto(u, s, n) => Upto(Append(u, p), s, n)
           /\ \A t : Within(t, u) /\ Before(u, s, t) => Before(Append(u, p), s, t)
<1> DEFINE v == Append(u, p)
<1>1. \A q : Has(u, q) => Where(v, q) = Where(u, q)
  BY WhereStays
<1>2. \A q : Has(v, q) <=> Has(u, q) \/ q = p
  BY Appended
<1> HIDE DEF v
<1>4. Within(s, v)
  BY <1>2 DEF Within
<1>5. \A n : Upto(u, s, n) => Upto(v, s, n)
  BY <1>1 DEF Upto, Within
<1>6. \A i \in DOMAIN s : s[i] \in Posts /\ Has(s, s[i])
  BY DEF Has
<1>7. \A i \in DOMAIN s : Where(v, s[i]) = Where(u, s[i])
  BY <1>1, <1>6 DEF Within
<1>8. Rising(u, s) => Rising(v, s)
  BY <1>7 DEF Rising
<1>9. \A n : Over(u, s, n) => Over(v, s, n)
  BY <1>1 DEF Over, Within
<1>10. \A t : Within(t, u) /\ Before(u, s, t) => Before(v, s, t)
  BY <1>1 DEF Before, Within
<1> QED
  BY <1>4, <1>5, <1>8, <1>9, <1>10 DEF v

(* A broadcast begins: a client in order stays so, and its account is as   *)
(* it was, the post not having come to it.                                 *)
LEMMA Begins ==
    ASSUME NEW u \in Seq(Posts), NoRepeats(u), NEW p \in Posts, ~Has(u, p),
           NEW w \in Seq(Posts), NEW h \in Seq(Posts), NEW r \in Seq(Posts), NEW st \in Stays,
           NEW to \in Nat, Within(w, u), InTurn(u, w, h, r, to, st)
    PROVE  /\ InTurn(Append(u, p), w, h, r, to, st)
           /\ Meant(Append(u, p), to, st) = Meant(u, to, st)
<1> DEFINE v == Append(u, p)
<1>1. /\ Len(v) = Len(u) + 1 /\ Len(u) \in Nat
      /\ \A i \in 1..Len(u) : v[i] = u[i]
  BY WhereStays, LenProperties
<1>2. /\ Within(h, u) /\ Within(r, u) /\ Rising(u, h) /\ Rising(u, r)
      /\ Before(u, w, h) /\ Before(u, w, r) /\ Before(u, h, r) /\ Over(u, r, st.sat)
      /\ Upto(u, w, to) /\ Upto(u, h, to) /\ Upto(u, r, to)
      /\ st.from <= st.sat /\ st.sat <= to /\ to <= Len(u) /\ st.from \in Nat /\ st.sat \in Nat
  BY DEF InTurn, Stays
<1>3. /\ Within(h, v) /\ Within(r, v) /\ Rising(v, h) /\ Rising(v, r)
      /\ Upto(v, w, to) /\ Upto(v, h, to) /\ Upto(v, r, to)
  BY <1>2, OrderStays
<1>4. Before(v, w, h) /\ Before(v, w, r)
  BY <1>2, OrderStays
<1>5. Before(v, h, r) /\ Over(v, r, st.sat)
  BY <1>2, OrderStays
<1> HIDE DEF v
<1>6. to <= Len(v)
  BY <1>1, <1>2
<1>7. InTurn(v, w, h, r, to, st)
  BY <1>2, <1>3, <1>4, <1>5, <1>6 DEF InTurn
<1>8. ASSUME NEW n PROVE n \in Meant(v, to, st) <=> n \in Meant(u, to, st)
  <2>1. n \in Meant(u, to, st) <=>
          /\ n \in (st.from + 1)..Len(u)
          /\ IF n <= st.sat THEN Keepable(u[n]) ELSE n <= to
    BY DEF Meant
  <2>2. n \in Meant(v, to, st) <=>
          /\ n \in (st.from + 1)..(Len(u) + 1)
          /\ IF n <= st.sat THEN Keepable(v[n]) ELSE n <= to
    BY <1>1 DEF Meant
  <2>3. CASE n \in (st.from + 1)..Len(u)
    <3>1. v[n] = u[n] /\ n \in (st.from + 1)..(Len(u) + 1)
      BY <1>1, <1>2, <2>3
    <3> QED
      BY <2>1, <2>2, <2>3, <3>1
  <2>4. CASE n \notin (st.from + 1)..Len(u)
    <3>1. n \in (st.from + 1)..(Len(u) + 1) => ~(n <= st.sat) /\ ~(n <= to)
      BY <1>1, <1>2, <2>4
    <3> QED
      BY <2>1, <2>2, <2>4, <3>1
  <2> QED
    BY <2>3, <2>4
<1>9. Meant(v, to, st) = Meant(u, to, st)
  BY <1>8
<1> QED
  BY <1>7, <1>9 DEF v

(* A broadcast comes to a client: one more post is meant for it.           *)
LEMMA Comes ==
    ASSUME NEW u \in Seq(Posts), NEW w, NEW h, NEW r, NEW st \in Stays,
           NEW to \in Nat, NEW next \in Nat, next = to + 1, next = Len(u), InTurn(u, w, h, r, to, st)
    PROVE  /\ Cardinality(Meant(u, next, st)) = Cardinality(Meant(u, to, st)) + 1
           /\ Cardinality(Meant(u, to, st)) \in Nat
<1>1. /\ st.from <= st.sat /\ st.sat <= to /\ Len(u) \in Nat
      /\ st.from \in Nat /\ st.sat \in Nat
  BY LenProperties DEF InTurn, Stays
<1>2. Meant(u, next, st) = Meant(u, to, st) \cup {next}
  <2> SUFFICES ASSUME NEW n
               PROVE  n \in Meant(u, next, st) <=> n \in Meant(u, to, st) \/ n = next
    OBVIOUS
  <2>1. n \in Meant(u, next, st) <=>
          /\ n \in (st.from + 1)..Len(u)
          /\ IF n <= st.sat THEN Keepable(u[n]) ELSE n <= next
    BY DEF Meant
  <2>2. n \in Meant(u, to, st) <=>
          /\ n \in (st.from + 1)..Len(u)
          /\ IF n <= st.sat THEN Keepable(u[n]) ELSE n <= to
    BY DEF Meant
  <2>3. n = next => n \in (st.from + 1)..Len(u) /\ ~(n <= st.sat) /\ n <= next
    BY <1>1
  <2>4. n \in (st.from + 1)..Len(u) => n <= next /\ (n <= to \/ n = next)
    BY <1>1
  <2> QED
    BY <2>1, <2>2, <2>3, <2>4
<1>3. next \notin Meant(u, to, st)
  <2>1. ~(next <= st.sat) /\ ~(next <= to)
    BY <1>1
  <2> QED
    BY <2>1 DEF Meant
<1>4. IsFiniteSet(Meant(u, to, st))
  <2>1. IsFiniteSet((st.from + 1)..Len(u))
    <3> DEFINE a == st.from + 1
               b == Len(u)
    <3>1. a \in Int /\ b \in Int
      BY <1>1
    <3> HIDE DEF a, b
    <3>2. IsFiniteSet(a..b)
      BY <3>1, FS_Interval
    <3> QED
      BY <3>2 DEF a, b
  <2>2. Meant(u, to, st) \in SUBSET ((st.from + 1)..Len(u))
    BY DEF Meant
  <2> QED
    BY <2>1, <2>2, FS_Subset
<1> QED
  BY <1>2, <1>3, <1>4, OneMore, FS_CardinalityType

(* The post passes the client by.                                          *)
LEMMA PassedBy ==
    ASSUME NEW u \in Seq(Posts), NoRepeats(u), NEW w \in Seq(Posts), Within(w, u), NEW h, NEW r,
           NEW st \in Stays, NEW to \in Nat, InTurn(u, w, h, r, to, st)
    PROVE  InTurn(u, w, h, r, Len(u), st)
<1>1. /\ Within(h, u) /\ Within(r, u) /\ st.sat <= to /\ to <= Len(u) /\ st.sat \in Nat
      /\ Len(u) \in Nat
  BY LenProperties DEF InTurn, Stays
<1>2. \A q : Has(u, q) => Where(u, q) <= Len(u)
  BY <1>1, WhereIs
<1>3. Upto(u, w, Len(u)) /\ Upto(u, h, Len(u)) /\ Upto(u, r, Len(u))
  BY <1>1, <1>2 DEF Upto, Within
<1>4. st.sat <= Len(u) /\ Len(u) <= Len(u)
  BY <1>1
<1> QED
  BY <1>3, <1>4 DEF InTurn

(* The post is put in its ring, which may have let its oldest go.          *)
LEMMA GivenIs ==
    ASSUME NEW u \in Seq(Posts), NoRepeats(u), NEW w, NEW h, NEW r \in Seq(Posts),
           NEW st \in Stays, NEW p \in Posts, Has(u, p),
           NEW to \in Nat, NEW next \in Nat, next = to + 1, next = Len(u), Where(u, p) = next,
           NEW k \in Seq(Posts), k = r \/ (r # <<>> /\ k = Tail(r)),
           Within(w, u), InTurn(u, w, h, r, to, st)
    PROVE  InTurn(u, w, h, Append(k, p), next, st)
<1>1. /\ Within(h, u) /\ Within(r, u) /\ Rising(u, h) /\ Rising(u, r)
      /\ Before(u, w, h) /\ Before(u, w, r) /\ Before(u, h, r) /\ Over(u, r, st.sat)
      /\ st.from <= st.sat /\ st.sat <= to /\ to <= Len(u) /\ st.sat \in Nat
      /\ Upto(u, w, to) /\ Upto(u, h, to) /\ Upto(u, r, to)
  BY DEF InTurn, Stays
<1>2. Rising(u, k) /\ \A q : Has(k, q) => Has(r, q)
  <2>1. CASE k = r
    BY <1>1, <2>1
  <2>2. CASE r # <<>> /\ k = Tail(r)
    <3>1. Rising(u, Tail(r))
      BY <1>1, <2>2, RisingTail
    <3>2. \A q : Has(Tail(r), q) => Has(r, q)
      BY <2>2, Behead
    <3> QED
      BY <2>2, <3>1, <3>2
  <2> QED
    BY <2>1, <2>2
<1>3. \A q \in Posts : Has(w, q) \/ Has(h, q) \/ Has(r, q) =>
        Where(u, q) \in Int /\ Where(u, q) < Where(u, p) /\ Where(u, q) <= next
  <2> TAKE q \in Posts
  <2> HAVE Has(w, q) \/ Has(h, q) \/ Has(r, q)
  <2>1. Where(u, q) <= to
    BY <1>1 DEF Upto
  <2>2. Where(u, q) \in Int
    BY <1>1, WhereIs DEF Within
  <2> QED
    BY <2>1, <2>2
<1>4. Rising(u, Append(k, p))
  BY <1>2, <1>3, RisingLonger
<1>5. \A q : Has(Append(k, p), q) <=> Has(k, q) \/ q = p
  BY Appended
<1> DEFINE a == Append(k, p)
<1>6. /\ Rising(u, a) /\ \A q : Has(a, q) => Has(r, q) \/ q = p
  BY <1>2, <1>4, <1>5
<1> HIDE DEF a
<1>7. Within(a, u)
  BY <1>1, <1>6 DEF Within
<1>8. Before(u, w, a) /\ Before(u, h, a)
  BY <1>1, <1>3, <1>6 DEF Before
<1>9. Over(u, a, st.sat)
  <2> SUFFICES ASSUME NEW q \in Posts, Has(a, q) PROVE Where(u, q) > st.sat
    BY DEF Over
  <2>1. CASE q = p
    BY <1>1, <2>1
  <2>2. CASE Has(r, q)
    BY <1>1, <2>2 DEF Over
  <2> QED
    BY <1>6, <2>1, <2>2
<1>10. Upto(u, w, next) /\ Upto(u, h, next) /\ Upto(u, a, next)
  BY <1>3, <1>6 DEF Upto
<1>11. st.sat <= next /\ next <= Len(u)
  BY <1>1
<1> QED
  BY <1>1, <1>6, <1>7, <1>8, <1>9, <1>10, <1>11 DEF InTurn, a

(* A post goes from the hand to the client.                                *)
LEMMA WritesOne ==
    ASSUME NEW u \in Seq(Posts), NEW w \in Seq(Posts), NEW h \in Seq(Posts), h # <<>>,
           NEW r \in Seq(Posts), NEW to, NEW st \in Stays,
           Within(w, u), Rising(u, w), InTurn(u, w, h, r, to, st)
    PROVE  /\ Within(Append(w, Head(h)), u) /\ Rising(u, Append(w, Head(h)))
           /\ InTurn(u, Append(w, Head(h)), Tail(h), r, to, st)
           /\ Len(Append(w, Head(h))) = Len(w) + 1 /\ Len(Tail(h)) = Len(h) - 1
           /\ Tail(h) \in Seq(Posts)
<1> DEFINE p == Head(h)
           t == Tail(h)
           a == Append(w, p)
<1>1. /\ Within(h, u) /\ Within(r, u) /\ Rising(u, h) /\ Rising(u, r)
      /\ Before(u, w, h) /\ Before(u, w, r) /\ Before(u, h, r) /\ Over(u, r, st.sat)
      /\ st.from <= st.sat /\ st.sat <= to /\ to <= Len(u)
      /\ Upto(u, w, to) /\ Upto(u, h, to) /\ Upto(u, r, to)
  BY DEF InTurn
<1>2. /\ p \in Posts /\ Has(h, p) /\ t \in Seq(Posts) /\ Len(t) = Len(h) - 1
      /\ \A q : Has(t, q) => Has(h, q)
  BY Behead
<1>3. Rising(u, t) /\ \A q \in Posts : Has(t, q) => Where(u, p) < Where(u, q)
  BY <1>1, RisingTail
<1> HIDE DEF p, t
<1>4. a \in Seq(Posts) /\ Len(a) = Len(w) + 1 /\ \A q : Has(a, q) <=> Has(w, q) \/ q = p
  BY <1>2, Appended
<1>5. Rising(u, a)
  <2>1. \A q \in Posts : Has(w, q) => Where(u, q) < Where(u, p)
    BY <1>1, <1>2 DEF Before
  <2> QED
    BY <1>2, <2>1, RisingLonger
<1> HIDE DEF a
<1>6. Within(a, u) /\ Within(t, u)
  BY <1>1, <1>2, <1>4 DEF Within
<1>7. Before(u, a, t) /\ Before(u, a, r) /\ Before(u, t, r)
  BY <1>1, <1>2, <1>3, <1>4 DEF Before
<1>8. Upto(u, a, to) /\ Upto(u, t, to)
  BY <1>1, <1>2, <1>4 DEF Upto
<1>9. InTurn(u, a, t, r, to, st)
  BY <1>1, <1>3, <1>6, <1>7, <1>8 DEF InTurn
<1> QED
  BY <1>2, <1>4, <1>5, <1>6, <1>9 DEF p, t, a

(* A post goes from the ring to the empty hand.                            *)
LEMMA TakesOne ==
    ASSUME NEW u \in Seq(Posts), NEW w \in Seq(Posts), NEW r \in Seq(Posts), r # <<>>,
           NEW to, NEW st \in Stays, InTurn(u, w, <<>>, r, to, st)
    PROVE  /\ InTurn(u, w, <<Head(r)>>, Tail(r), to, st)
           /\ Len(Tail(r)) = Len(r) - 1
<1> DEFINE p == Head(r)
           t == Tail(r)
           h == <<p>>
<1>1. /\ Within(r, u) /\ Rising(u, r)
      /\ Before(u, w, r) /\ Over(u, r, st.sat)
      /\ st.from <= st.sat /\ st.sat <= to /\ to <= Len(u)
      /\ Upto(u, w, to) /\ Upto(u, r, to)
  BY DEF InTurn
<1>2. /\ p \in Posts /\ Has(r, p) /\ t \in Seq(Posts) /\ Len(t) = Len(r) - 1
      /\ \A q : Has(t, q) => Has(r, q)
  BY Behead
<1>3. Rising(u, t) /\ \A q \in Posts : Has(t, q) => Where(u, p) < Where(u, q)
  BY <1>1, RisingTail
<1>4. Rising(u, h) /\ \A q : Has(h, q) <=> q = p
  BY Short DEF Rising
<1> HIDE DEF p, t, h
<1>5. Within(h, u) /\ Within(t, u)
  BY <1>1, <1>2, <1>4 DEF Within
<1>6. Before(u, w, h) /\ Before(u, w, t) /\ Before(u, h, t)
  BY <1>1, <1>2, <1>3, <1>4 DEF Before
<1>7. Over(u, t, st.sat) /\ Upto(u, h, to) /\ Upto(u, t, to)
  BY <1>1, <1>2, <1>4 DEF Upto, Over
<1>8. InTurn(u, w, h, t, to, st)
  BY <1>1, <1>3, <1>4, <1>5, <1>6, <1>7 DEF InTurn
<1> QED
  BY <1>2, <1>8 DEF p, t, h

(* What is unwritten is let go.                                            *)
LEMMA LetsGo ==
    ASSUME NEW u, NEW w, NEW h, NEW r, NEW to, NEW st, InTurn(u, w, h, r, to, st)
    PROVE  InTurn(u, w, <<>>, r, to, st)
<1>1. \A q : ~Has(<<>>, q)
  BY Short
<1>2. Within(<<>>, u) /\ Rising(u, <<>>) /\ Before(u, w, <<>>) /\ Before(u, <<>>, r)
      /\ Upto(u, <<>>, to)
  BY <1>1 DEF Within, Rising, Before, Upto
<1> QED
  BY <1>2 DEF InTurn

(* A client that comes back is handed what was kept since the last post it *)
(* saw, all of it and nothing else.                                        *)
LEMMA ComesBack ==
    ASSUME Inv, SaidOnce, KeptInOrder, roster = Nobody, NEW c \in Conns,
           Within(seen[c], said), Rising(said, seen[c]),
           NEW again, again = KeptAfter(LastId(c)),
           NEW st \in Stays,
           st = [from |-> IF Has(kept, LastId(c)) THEN Where(said, LastId(c)) ELSE Len(said),
                 sat |-> Len(said), wrote |-> Len(seen[c]), refused |-> 0]
    PROVE  /\ InTurn(said, seen[c], again, <<>>, Len(said), st)
           /\ Balanced(said, seen[c], again, <<>>, Len(said), st, 0)
<1> DEFINE id == LastId(c)
           u == said
           w == seen[c]
<1>1. /\ said \in Seq(Posts) /\ NoRepeats(said) /\ Len(said) \in Nat
      /\ kept \in Seq(Posts) /\ seen[c] \in Seq(Posts) /\ Len(seen[c]) \in Nat
      /\ Rising(said, kept) /\ DOMAIN kept = 1..Len(kept) /\ Len(kept) \in Nat
      /\ DOMAIN said = 1..Len(said)
  BY LenProperties DEF Inv, TypeOK, SaidOnce, KeptInOrder
<1>2. Within(kept, said)
  BY DEF Inv, PostsApart, Handed, Within
<1>3. st.sat = Len(said) /\ st.wrote = Len(seen[c])
  OBVIOUS
<1>4. /\ Within(<<>>, u) /\ Rising(u, <<>>) /\ Before(u, w, <<>>) /\ Before(u, again, <<>>)
      /\ Over(u, <<>>, st.sat) /\ Upto(u, <<>>, Len(said)) /\ Len(<<>>) = 0
  BY Short DEF Within, Rising, Before, Over, Upto
<1>0. \A s : Within(s, said) => Upto(said, s, Len(said))
  <2>1. \A q : Has(said, q) => Where(said, q) <= Len(said)
    BY <1>1, WhereIs
  <2> QED
    BY <2>1 DEF Within, Upto
<1>5. CASE ~Has(kept, id)
  <2>1. again = <<>> /\ st.from = Len(said)
    BY <1>5 DEF KeptAfter
  <2>2. InTurn(said, seen[c], again, <<>>, Len(said), st)
    BY <1>0, <1>1, <1>3, <1>4, <2>1 DEF InTurn
  <2>3. Meant(said, Len(said), st) = {}
    <3>1. (st.from + 1)..Len(said) = {}
      BY <1>1, <2>1
    <3> QED
      BY <3>1 DEF Meant
  <2>4. Balanced(said, seen[c], again, <<>>, Len(said), st, 0)
    <3>1. Cardinality(Meant(said, Len(said), st)) = 0 /\ Len(again) = 0 /\ Len(<<>>) = 0
      BY <1>4, <2>1, <2>3, FS_EmptySet
    <3>2. Len(seen[c]) - st.wrote = 0
      BY <1>1, <1>3
    <3>3. 0 = 0 + (0 + 0) + 0
      OBVIOUS
    <3> QED
      BY <3>1, <3>2, <3>3, Zenon DEF Balanced
  <2> QED
    BY <2>2, <2>4
<1>6. CASE Has(kept, id)
  <2> DEFINE i == CHOOSE i \in DOMAIN kept : kept[i] = id
  <2>1. i \in DOMAIN kept /\ kept[i] = id
    BY <1>6 DEF Has
  <2>2. again = From(kept, 1 + i)
    BY <1>6 DEF KeptAfter
  <2> HIDE DEF i
  <2>3. i \in Nat /\ 1 + i \in 1..(Len(kept) + 1) /\ i < 1 + i /\ i <= Len(kept)
    BY <1>1, <2>1
  <2> DEFINE k == 1 + i
  <2>4. again = From(kept, k) /\ k \in 1..(Len(kept) + 1) /\ i < k /\ k = 1 + i
    BY <2>2, <2>3
  <2> HIDE DEF k
  <2>5. /\ again \in Seq(Posts) /\ Len(again) = Len(kept) - k + 1
        /\ \A j \in 1..(Len(kept) - k + 1) : again[j] = kept[k + j - 1]
        /\ \A q : Has(again, q) => Has(kept, q)
    <3>1. kept \in Seq(Posts) /\ k \in 1..(Len(kept) + 1)
      BY <1>1, <2>4
    <3>2. /\ From(kept, k) \in Seq(Posts) /\ Len(From(kept, k)) = Len(kept) - k + 1
          /\ \A j \in 1..(Len(kept) - k + 1) : From(kept, k)[j] = kept[k + j - 1]
      BY <3>1, Cut
    <3>3. \A q : Has(From(kept, k), q) => Has(kept, q)
      BY <3>1, Cut
    <3> QED
      BY <2>4, <3>2, <3>3
  <2>6. /\ Rising(said, again)
        /\ \A q \in Posts : Has(again, q) => Where(said, kept[i]) < Where(said, q)
    BY <1>1, <2>1, <2>4, RisingCut
  <2>7. /\ id \in Posts /\ Has(said, id) /\ Where(said, id) \in 1..Len(said) /\ Where(said, id) \in Int
        /\ st.from = Where(said, id)
    <3>1. id \in Posts
      BY <1>1, <2>1
    <3>2. Has(said, id)
      BY <1>2, <1>6, <3>1 DEF Within
    <3>3. st.from = Where(said, id)
      BY <1>6
    <3> QED
      BY <1>1, <3>1, <3>2, <3>3, WhereIs
  <2>8. seen[c] # <<>> /\ id = seen[c][Len(seen[c])]
    <3>1. id # 0
      BY <2>7 DEF Posts
    <3> QED
      BY <3>1 DEF LastId
  <2> HIDE DEF id
  <2>9. Before(u, w, again)
    <3> SUFFICES ASSUME NEW p \in Posts, NEW q \in Posts, Has(w, p), Has(again, q)
                 PROVE  Where(said, p) < Where(said, q)
      BY DEF Before
    <3>1. Where(said, p) <= Where(said, id)
      BY <1>1, <2>8, RisingLast
    <3>2. Where(said, id) < Where(said, q)
      BY <2>1, <2>6
    <3>3. Where(said, p) \in Int /\ Where(said, q) \in Int
      <4>1. Has(said, p) /\ Has(said, q)
        BY <1>2, <2>5 DEF Within
      <4> QED
        BY <1>1, <4>1, WhereIs
    <3> QED
      BY <2>7, <3>1, <3>2, <3>3
  <2>10. Within(again, u)
    BY <1>2, <2>5 DEF Within
  <2>11. st.from <= st.sat /\ st.sat <= Len(said) /\ st.from \in Nat
    BY <1>1, <1>3, <2>7
  <2>12. InTurn(said, seen[c], again, <<>>, Len(said), st)
    BY <1>0, <1>3, <1>4, <2>6, <2>9, <2>10, <2>11 DEF InTurn
  <2> DEFINE M == Meant(said, Len(said), st)
             D == 1..Len(again)
             g == [j \in D |-> Where(said, again[j])]
  <2>13. \A n : n \in M <=> n \in (Where(said, id) + 1)..Len(said) /\ Keepable(said[n])
    <3>1. \A n \in (st.from + 1)..Len(said) : n <= st.sat
      BY <1>1, <1>3, <2>11
    <3> QED
      BY <2>7, <3>1 DEF Meant
  <2>14. DOMAIN again = D /\ Len(again) \in Nat
    BY <2>5, LenProperties
  <2> HIDE DEF M
  <2>15. \A j \in D : again[j] \in Posts /\ Has(again, again[j]) /\ Has(said, again[j])
    BY <2>5, <2>10, <2>14 DEF Has, Within
  <2>16. \A j \in D : g[j] \in M
    <3> TAKE j \in D
    <3> DEFINE n == Where(said, again[j])
    <3>1. n \in 1..Len(said) /\ said[n] = again[j]
      BY <1>1, <2>15, WhereIs
    <3>2. Where(said, id) < n
      BY <2>1, <2>6, <2>15
    <3>3. Keepable(said[n])
      BY <2>5, <2>15, <3>1 DEF KeptInOrder
    <3> HIDE DEF n
    <3>4. n \in (Where(said, id) + 1)..Len(said)
      BY <2>7, <3>1, <3>2
    <3>5. n \in M
      BY <2>13, <3>3, <3>4
    <3> QED
      BY <3>5 DEF n
  <2>17. \A j, l \in D : g[j] = g[l] => j = l
    <3> SUFFICES ASSUME NEW j \in D, NEW l \in D, Where(said, again[j]) = Where(said, again[l])
                 PROVE  j = l
      OBVIOUS
    <3>1. Where(said, again[j]) \in Int
      BY <1>1, <2>15, WhereIs
    <3>2. ~(j < l) /\ ~(l < j)
      BY <2>6, <2>14, <3>1 DEF Rising
    <3> QED
      BY <3>2, <2>14
  <2>18. \A n \in M : \E j \in D : g[j] = n
    <3> TAKE n \in M
    <3>1. /\ n \in (Where(said, id) + 1)..Len(said) /\ Keepable(said[n])
      BY <2>13
    <3>2. n \in DOMAIN said /\ Where(said, id) <= n /\ Where(said, id) < n /\ n \in Int
      BY <1>1, <2>7, <3>1
    <3>3. Has(kept, said[n])
      BY <1>6, <2>7, <3>1, <3>2 DEF KeptInOrder, id
    <3>4. PICK l \in DOMAIN kept : kept[l] = said[n]
      BY <3>3 DEF Has
    <3>5. Where(said, kept[l]) = n /\ Where(said, kept[i]) = Where(said, id)
      BY <1>1, <2>1, <3>2, <3>4, WhereIs
    <3>6. ~(l < i) /\ l # i
      BY <1>1, <2>1, <2>7, <3>2, <3>5 DEF Rising
    <3> DEFINE j == l - i
    <3>7. j \in D /\ k + j - 1 = l /\ j \in 1..(Len(kept) - k + 1)
      <4>1. l \in Int /\ l <= Len(kept) /\ i < l /\ i \in Int /\ Len(kept) \in Int /\ k = 1 + i
        BY <1>1, <2>3, <2>4, <3>6
      <4>2. Len(again) = Len(kept) - k + 1
        BY <2>5
      <4>3. \A a, b, d, e \in Int : d = 1 + b /\ e <= a /\ b < e =>
              e - b \in 1..(a - d + 1) /\ d + (e - b) - 1 = e
        OBVIOUS
      <4>4. k \in Int
        BY <4>1
      <4>5. l - i \in 1..(Len(kept) - k + 1) /\ k + (l - i) - 1 = l
        BY <4>1, <4>3, <4>4
      <4> QED
        BY <4>2, <4>5
    <3>8. again[j] = kept[l]
      BY <2>5, <3>7
    <3> QED
      BY <3>5, <3>7, <3>8
  <2>19. ExistsBijection(D, M)
    <3>1. g \in [D -> M]
      BY <2>16
    <3> HIDE DEF g
    <3>2. g \in Bijection(D, M)
      BY <2>17, <2>18, <3>1 DEF Bijection, Injection, Surjection, IsInjective
    <3> QED
      BY <3>2 DEF ExistsBijection
  <2>20. IsFiniteSet(D) /\ Cardinality(D) = Len(again)
    <3> DEFINE b == Len(again)
    <3>1. b \in Int /\ b >= 0 /\ 1 \in Int
      BY <2>14
    <3> HIDE DEF b
    <3>2. IsFiniteSet(1..b) /\ Cardinality(1..b) = IF 1 > b THEN 0 ELSE b - 1 + 1
      BY <3>1, FS_Interval, Zenon
    <3>3. IsFiniteSet(1..b) /\ Cardinality(1..b) = b
      BY <3>1, <3>2
    <3> QED
      BY <3>3 DEF b
  <2>21. Cardinality(M) = Len(again)
    BY <2>19, <2>20, FS_Bijection
  <2>22. Balanced(said, seen[c], again, <<>>, Len(said), st, 0)
    <3>1. Cardinality(Meant(said, Len(said), st)) = Len(again) /\ Len(<<>>) = 0
      BY <1>4, <2>21 DEF M
    <3>2. Len(seen[c]) - st.wrote = 0
      BY <1>1, <1>3
    <3>3. Len(again) = 0 + (Len(again) + 0) + 0
      BY <2>14
    <3> QED
      BY <3>1, <3>2, <3>3, Zenon DEF Balanced
  <2> QED
    BY <2>12, <2>22
<1> QED
  BY <1>5, <1>6

-----------------------------------------------------------------------------
(* Delivery: every step keeps it.                                          *)

(* What a connection that is not away has.                                 *)
LEMMA SeatedAt ==
    ASSUME Inv, NEW c \in Conns, conn[c].pc # "away"
    PROVE  /\ conn[c].ticket.index \in Index /\ Mine(c) = seat[conn[c].ticket.index]
           /\ Mine(c) \in Chairs /\ Mine(c).taken /\ Mine(c).waker = c
           /\ Mine(c).slot \in Index /\ Mine(c).slot \in Nat /\ Mine(c).slot < here
           /\ roll[Mine(c).slot] = conn[c].ticket.index
           /\ Mine(c).ring \in Seq(Posts) /\ Len(Mine(c).ring) \in Nat /\ Mine(c).dropped \in Nat
           /\ conn[c] \in Places /\ conn[c].hand \in Seq(Posts) /\ Len(conn[c].hand) \in Nat
<1> DEFINE s == conn[c].ticket.index
<1>1. TypeOK /\ Listed /\ Seated
  BY DEF Inv
<1>2. s \in Index /\ seat[s].taken /\ seat[s].waker = c
  BY <1>1 DEF Seated, StillMine, Mine
<1>3. seat[s] \in Chairs /\ conn[c] \in Places
  BY <1>1, <1>2 DEF TypeOK
<1>4. PICK i \in Index : roll[i] = s
  BY <1>1, <1>2 DEF Listed
<1>5. i < here /\ seat[s].slot = i /\ i \in Nat
  <2>1. seat[roll[i]].taken
    BY <1>2, <1>4
  <2>2. i < here
    BY <1>1, <2>1 DEF Listed
  <2>3. seat[roll[i]].slot = i
    BY <1>1, <2>2 DEF Listed
  <2> QED
    BY <1>4, <2>2, <2>3 DEF Index
<1>6. seat[s].ring \in Seq(Posts) /\ seat[s].dropped \in Nat /\ conn[c].hand \in Seq(Posts)
  BY <1>3 DEF Chairs, Places
<1>7. Len(seat[s].ring) \in Nat /\ Len(conn[c].hand) \in Nat
  BY <1>6, LenProperties
<1> QED
  BY <1>2, <1>3, <1>4, <1>5, <1>6, <1>7 DEF Mine

(* A step that a client does not notice.                                   *)
LEMMA SameClient ==
    ASSUME NEW c \in Conns, Client(c), said' = said, seen'[c] = seen[c], since'[c] = since[c],
           conn'[c].pc # "away" =>
             /\ conn[c].pc # "away" /\ conn'[c].hand = conn[c].hand
             /\ Mine(c)'.ring = Mine(c).ring /\ Mine(c)'.dropped = Mine(c).dropped
             /\ Heard(c)' = Heard(c),
           conn'[c].pc \in {"writing", "parked"} => conn[c].pc \in {"writing", "parked"}
    PROVE  Client(c)'
<1>1. Within(seen[c], said)' /\ Rising(said, seen[c])'
  BY DEF Client, Within, Rising
<1>2. ASSUME conn'[c].pc # "away"
      PROVE  InTurn(said, seen[c], conn[c].hand, Mine(c).ring, Heard(c), since[c])'
  <2>1. InTurn(said, seen[c], conn[c].hand, Mine(c).ring, Heard(c), since[c])
    BY <1>2 DEF Client
  <2>2. /\ conn'[c].hand = conn[c].hand /\ Mine(c)'.ring = Mine(c).ring
        /\ Heard(c)' = Heard(c)
    BY <1>2
  <2> QED
    BY <2>1, <2>2, Zenon DEF InTurn, Within, Rising, Before, Over, Upto
<1>3. ASSUME conn'[c].pc \in {"writing", "parked"}
      PROVE  Balanced(said, seen[c], conn[c].hand, Mine(c).ring, Heard(c), since[c], Lost(c))'
  <2>1. Balanced(said, seen[c], conn[c].hand, Mine(c).ring, Heard(c), since[c], Lost(c))
    BY <1>3 DEF Client
  <2>2. /\ conn'[c].hand = conn[c].hand /\ Mine(c)'.ring = Mine(c).ring
        /\ Lost(c)' = Lost(c) /\ Heard(c)' = Heard(c)
    BY <1>3 DEF Lost
  <2> QED
    BY <2>1, <2>2, Zenon DEF Balanced, Meant
<1> QED
  BY <1>1, <1>2, <1>3 DEF Client

(* What has been said, and who says it.                                    *)
LEMMA SaidIs ==
    ASSUME Inv, SaidOnce
    PROVE  /\ said \in Seq(Posts) /\ NoRepeats(said) /\ Len(said) \in Nat
           /\ DOMAIN said = 1..Len(said)
           /\ kept \in Seq(Posts) /\ Within(kept, said)
           /\ \A c \in Conns : seen[c] \in Seq(Posts) /\ since[c] \in Stays /\ Len(seen[c]) \in Nat
           /\ \A f \in Speakers : talk[f] \in Talks
           /\ \A f \in Speakers : f # Nobody /\ (roster = Nobody => talk[f].pc # "putting")
           /\ roster # Nobody => /\ roster \in Speakers /\ talk[roster].pc = "putting"
                                 /\ Len(said) > 0 /\ Len(said) \in DOMAIN said
                                 /\ Has(said, talk[roster].post)
                                 /\ Where(said, talk[roster].post) = Len(said)
<1>1. TypeOK /\ Talking /\ PostsApart
  BY DEF Inv
<1>2. /\ said \in Seq(Posts) /\ NoRepeats(said) /\ Len(said) \in Nat
      /\ DOMAIN said = 1..Len(said)
  BY <1>1, LenProperties DEF TypeOK, SaidOnce
<1>3. kept \in Seq(Posts) /\ Within(kept, said)
  BY <1>1 DEF TypeOK, PostsApart, Handed, Within
<1>4. \A c \in Conns : seen[c] \in Seq(Posts) /\ since[c] \in Stays /\ Len(seen[c]) \in Nat
  BY <1>1, LenProperties DEF TypeOK
<1>5. \A f \in Speakers : talk[f] \in Talks
  BY <1>1 DEF TypeOK
<1>6. \A f \in Speakers : f # Nobody /\ (roster = Nobody => talk[f].pc # "putting")
  BY <1>1, RoomAssumption DEF Talking
<1>7. ASSUME roster # Nobody
      PROVE  /\ roster \in Speakers /\ talk[roster].pc = "putting"
             /\ Len(said) > 0 /\ Len(said) \in DOMAIN said
             /\ Has(said, talk[roster].post)
             /\ Where(said, talk[roster].post) = Len(said)
  <2>1. roster \in Speakers /\ talk[roster].pc = "putting"
    BY <1>1, <1>7 DEF TypeOK, Talking
  <2>2. said # <<>> /\ said[Len(said)] = talk[roster].post
    BY <2>1 DEF SaidOnce
  <2>3. Len(said) > 0 /\ Len(said) \in DOMAIN said
    BY <1>2, <2>2, EmptySeq
  <2> QED
    BY <1>2, <2>1, <2>2, <2>3, WhereIs
<1> QED
  BY <1>2, <1>3, <1>4, <1>5, <1>6, <1>7

(* What is kept does not change while nothing is said.                     *)
LEMMA SameKept ==
    ASSUME KeptInOrder, said' = said, kept' = kept, roster' = roster
    PROVE  KeptInOrder'
BY Zenon DEF KeptInOrder, Rising

(* A speaker that is not walking the roll does something of its own.       *)
LEMMA SpeakerAside ==
    ASSUME Inv, Delivery, NEW f \in Speakers, talk[f].pc # "putting", SaidOnce',
           \A g \in Speakers : g # f => talk'[g] = talk[g],
           UNCHANGED <<seat, kept, roster, conn, said, seen, since>>
    PROVE  Delivery'
<1>1. KeptInOrder'
  BY SameKept DEF Delivery
<1>2. ASSUME NEW c \in Conns PROVE Client(c)'
  <2>1. roster # Nobody => roster \in Speakers /\ roster # f
    BY SaidIs DEF Delivery
  <2>2. roster # Nobody => talk'[roster] = talk[roster]
    BY <2>1
  <2>3. Heard(c)' = Heard(c) /\ Mine(c)' = Mine(c)
    BY <2>2, Zenon DEF Heard, Mine
  <2> QED
    BY <2>3, SameClient DEF Delivery
<1> QED
  BY <1>1, <1>2 DEF Delivery

(* Reserve, RosterRefused and ReleaseOwn are such steps.                   *)
LEMMA AsideDelivers ==
    ASSUME Inv, Inv', Delivery, NEW f \in Speakers, Reserve(f) \/ RosterRefused(f) \/ ReleaseOwn(f)
    PROVE  Delivery'
<1>1. TypeOK /\ Talking /\ SaidOnce
  BY DEF Inv, Delivery
<1>2. talk \in [Speakers -> Talks] /\ made \in Nat
  BY <1>1, RoomAssumption DEF TypeOK
<1>3. /\ talk[f].pc # "putting"
      /\ \A g \in Speakers : g # f => talk'[g] = talk[g]
      /\ UNCHANGED <<seat, kept, roster, conn, said, seen, since>>
      /\ made' \in Nat /\ made <= made'
      /\ \/ talk'[f].pc = "reserved" /\ talk'[f].post = made + 1 /\ talk'[f].at = 0
         \/ talk'[f].pc = "quiet"
  <2>1. CASE Reserve(f)
    BY <1>2, <2>1 DEF Reserve
  <2>2. CASE RosterRefused(f)
    BY <1>2, <2>2 DEF RosterRefused, Quiet
  <2>3. CASE ReleaseOwn(f)
    BY <1>2, <2>3 DEF ReleaseOwn, Quiet
  <2> QED
    BY <2>1, <2>2, <2>3
<1>4. ASSUME NEW p \in Posts, Has(said, p) PROVE Handed(p)'
  <2>1. Has(said, p) /\ p <= made /\ \A g \in Speakers : talk[g].pc = "reserved" => talk[g].post # p
    BY <1>1, <1>4 DEF SaidOnce, Handed
  <2>2. p <= made' /\ p # made + 1
    BY <1>2, <1>3, <2>1 DEF Posts
  <2>3. \A g \in Speakers : talk'[g].pc = "reserved" => talk'[g].post # p
    BY <1>3, <2>1, <2>2
  <2> QED
    BY <1>3, <2>1, <2>2, <2>3 DEF Handed
<1>5. SaidOnce'
  BY <1>1, <1>3, <1>4 DEF SaidOnce
<1> QED
  BY <1>3, <1>5, SpeakerAside

(* LockRoster: a post is said, and has come to nobody yet.                 *)
LEMMA LockRosterDelivers ==
    ASSUME Inv, Inv', Delivery, NEW f \in Speakers, LockRoster(f)
    PROVE  Delivery'
<1> DEFINE p == talk[f].post
<1>1. /\ talk[f].pc = "reserved" /\ roster = Nobody /\ roster' = f
      /\ talk' = [talk EXCEPT ![f].pc = "putting"]
      /\ said' = Append(said, p)
      /\ UNCHANGED <<seat, here, kept, made, conn, seen, since>>
  BY DEF LockRoster
<1>2. TypeOK /\ Talking /\ SaidOnce /\ KeptInOrder
  BY DEF Inv, Delivery
<1>3. /\ said \in Seq(Posts) /\ NoRepeats(said) /\ Len(said) \in Nat /\ DOMAIN said = 1..Len(said)
      /\ kept \in Seq(Posts) /\ Within(kept, said)
      /\ \A c \in Conns : seen[c] \in Seq(Posts) /\ since[c] \in Stays
      /\ \A g \in Speakers : g # Nobody /\ (roster = Nobody => talk[g].pc # "putting")
  BY <1>2, SaidIs
<1>4. talk \in [Speakers -> Talks]
  BY <1>2 DEF TypeOK
<1>5. /\ talk'[f].pc = "putting" /\ talk'[f].post = p /\ talk'[f].at = talk[f].at
      /\ \A g \in Speakers : g # f => talk'[g] = talk[g]
  BY <1>1, <1>4 DEF Talks
<1>6. talk[f].at = 0
  BY <1>1, <1>2 DEF SaidOnce
<1>7. p \in Posts
  BY <1>1, <1>2, <1>4 DEF Talking, Talks
<1>8. ~Has(said, p)
  BY <1>1, <1>2, <1>7 DEF SaidOnce, Handed
<1> HIDE DEF p
<1>9. /\ said' \in Seq(Posts) /\ NoRepeats(said') /\ Len(said') = Len(said) + 1
      /\ \A i \in 1..Len(said) : said'[i] = said[i]
      /\ said'[Len(said) + 1] = p
      /\ \A q : Has(said, q) => Where(said', q) = Where(said, q)
  BY <1>1, <1>3, <1>7, <1>8, WhereStays
<1>10. \A q : Has(said', q) <=> Has(said, q) \/ q = p
  BY <1>1, <1>3, <1>7, Appended
<1>11. SaidOnce'
  <2>1. ASSUME NEW q \in Posts, Has(said', q) PROVE Handed(q)'
    <3>1. CASE q = p
      <4>1. p <= made /\ \A g \in Speakers : g # f => talk[g].post # p
        BY <1>2, <1>7 DEF Talking, Posts, p
      <4>2. \A g \in Speakers : talk'[g].pc = "reserved" => talk'[g].post # p
        BY <1>5, <4>1
      <4> QED
        BY <1>1, <2>1, <3>1, <4>1, <4>2 DEF Handed
    <3>2. CASE Has(said, q)
      <4>1. q <= made /\ \A g \in Speakers : talk[g].pc = "reserved" => talk[g].post # q
        BY <1>2, <3>2 DEF SaidOnce, Handed
      <4>2. \A g \in Speakers : talk'[g].pc = "reserved" => talk'[g].post # q
        BY <1>5, <4>1
      <4> QED
        BY <1>1, <2>1, <4>1, <4>2 DEF Handed
    <3> QED
      BY <1>10, <2>1, <3>1, <3>2
  <2>2. \A g \in Speakers : talk'[g].pc = "reserved" => talk'[g].at = 0
    BY <1>2, <1>5 DEF SaidOnce
  <2>3. ASSUME NEW g \in Speakers, talk'[g].pc = "putting"
        PROVE  said' # <<>> /\ said'[Len(said')] = talk'[g].post
    <3>1. g = f
      BY <1>1, <1>3, <1>5, <2>3
    <3>2. said' # <<>>
      BY <1>3, <1>9, EmptySeq
    <3> QED
      BY <1>5, <1>9, <3>1, <3>2
  <2> QED
    BY <1>9, <2>1, <2>2, <2>3 DEF SaidOnce
<1>12. KeptInOrder'
  <2>1. Rising(said', kept')
    BY <1>1, <1>2, <1>3, <1>7, <1>8, OrderStays DEF KeptInOrder
  <2>2. \A q \in Posts : Has(kept', q) => Keepable(q)
    BY <1>1, <1>2 DEF KeptInOrder
  <2>3. ASSUME NEW q \in Posts, NEW n \in DOMAIN said', Has(kept', q), Where(said', q) <= n,
               Keepable(said'[n]), roster' = Nobody \/ n < Len(said')
        PROVE  Has(kept', said'[n])
    <3>1. n < Len(said') /\ Len(said') = Len(said) + 1
      BY <1>1, <1>3, <1>9, <2>3
    <3>2. n \in DOMAIN said /\ said'[n] = said[n]
      BY <1>3, <1>9, <3>1, LenProperties
    <3>3. Has(kept, q) /\ Has(said, q) /\ Where(said', q) = Where(said, q)
      BY <1>1, <1>3, <1>9, <2>3 DEF Within
    <3> QED
      BY <1>1, <1>2, <2>3, <3>2, <3>3 DEF KeptInOrder
  <2> QED
    BY <2>1, <2>2, <2>3 DEF KeptInOrder
<1>13. ASSUME NEW c \in Conns PROVE Client(c)'
  <2> DEFINE h == conn[c].hand
             r == Mine(c).ring
             w == seen[c]
             st == since[c]
             to == Len(said)
  <2>0. Client(c) /\ Mine(c)' = Mine(c) /\ Heard(c) = Len(said)
    BY <1>1 DEF Delivery, Mine, Heard
  <2>1. Within(w, said') /\ Rising(said', w)
    BY <1>1, <1>3, <1>7, <1>8, <2>0, OrderStays DEF Client
  <2>2. ASSUME conn[c].pc # "away"
        PROVE  /\ Heard(c)' = to /\ InTurn(said', w, h, r, to, st)
               /\ Meant(said', to, st) = Meant(said, to, st)
    <3>1. /\ Mine(c).slot \in Nat /\ r \in Seq(Posts) /\ h \in Seq(Posts)
      BY <2>2, SeatedAt
    <3>2. InTurn(said, w, h, r, to, st) /\ Within(w, said) /\ w \in Seq(Posts) /\ st \in Stays
      BY <1>3, <2>0, <2>2 DEF Client
    <3>3. ~(Mine(c)'.slot < talk'[roster'].at) /\ roster' # Nobody
      BY <1>1, <1>3, <1>5, <1>6, <2>0, <3>1
    <3>4. Heard(c)' = to
      <4>1. Heard(c)' = Len(said') - 1
        BY <3>3 DEF Heard
      <4> QED
        BY <1>3, <1>9, <4>1
    <3>5. to \in Nat
      BY <1>3
    <3> HIDE DEF h, r, w, st, to
    <3>6. /\ InTurn(Append(said, p), w, h, r, to, st)
          /\ Meant(Append(said, p), to, st) = Meant(said, to, st)
      BY <1>3, <1>7, <1>8, <3>1, <3>2, <3>5, Begins
    <3> QED
      BY <1>1, <3>4, <3>6
  <2>3. conn'[c].pc # "away" =>
          InTurn(said, seen[c], conn[c].hand, Mine(c).ring, Heard(c), since[c])'
    BY <1>1, <2>0, <2>2
  <2>4. ASSUME conn'[c].pc \in {"writing", "parked"}
        PROVE  Balanced(said, seen[c], conn[c].hand, Mine(c).ring, Heard(c), since[c], Lost(c))'
    <3>1. Balanced(said, w, h, r, to, st, Lost(c))
      BY <1>1, <2>0, <2>4 DEF Client
    <3>2. Meant(said', to, st) = Meant(said, to, st) /\ Heard(c)' = to
      BY <1>1, <2>2, <2>4
    <3>3. Lost(c)' = Lost(c)
      BY <1>1, <2>0 DEF Lost
    <3> QED
      BY <1>1, <2>0, <3>1, <3>2, <3>3, Zenon DEF Balanced
  <2> QED
    BY <1>1, <2>1, <2>3, <2>4 DEF Client
<1> QED
  BY <1>11, <1>12, <1>13 DEF Delivery

(* The client a broadcast has come to is the one that sits there; it has   *)
(* passed nobody else by.                                                  *)
LEMMA WalkAt ==
    ASSUME Inv, Delivery, NEW f \in Speakers, talk[f].pc = "putting", talk[f].at < here,
           NEW c \in Conns, c = seat[roll[talk[f].at]].waker
    PROVE  /\ conn[c].pc # "away" /\ conn[c].ticket.index = roll[talk[f].at]
           /\ roster = f /\ talk[f].at \in Nat
           /\ Mine(c).slot = talk[f].at /\ Heard(c) = Len(said) - 1
           /\ \A d \in Conns : d # c /\ conn[d].pc # "away" =>
                /\ conn[d].ticket.index # roll[talk[f].at]
                /\ Mine(d).slot # talk[f].at
<1> DEFINE i == talk[f].at
           s == roll[i]
<1>1. TypeOK /\ Listed /\ Seated /\ Talking
  BY DEF Inv
<1>2. /\ i \in Index /\ s \in Index /\ seat[s].taken /\ seat[s].slot = i
      /\ seat[s].waker \in Conns /\ conn[seat[s].waker].ticket.index = s
  BY PuttingAt
<1>3. conn[c].pc # "away" /\ conn[c].ticket.index = s /\ Mine(c).slot = i
  BY <1>1, <1>2 DEF Seated, Mine
<1>4. roster = f /\ i \in Nat /\ roster # Nobody
  BY <1>1, <1>2, RoomAssumption DEF Talking, Index
<1>5. Heard(c) = Len(said) - 1
  BY <1>3, <1>4 DEF Heard
<1>6. ASSUME NEW d \in Conns, d # c, conn[d].pc # "away"
      PROVE  conn[d].ticket.index # s /\ Mine(d).slot # i
  <2>1. /\ Mine(d) = seat[conn[d].ticket.index] /\ Mine(d).waker = d
        /\ roll[Mine(d).slot] = conn[d].ticket.index
    BY <1>6, SeatedAt
  <2>2. conn[d].ticket.index # s
    BY <1>6, <2>1
  <2> QED
    BY <2>1, <2>2
<1> QED
  BY <1>3, <1>4, <1>5, <1>6

(* A broadcast moves on by one seat: the others do not notice.             *)
LEMMA OthersDoNotNotice ==
    ASSUME Inv, Inv', Delivery, NEW f \in Speakers, talk[f].pc = "putting", talk[f].at < here,
           NEW c \in Conns, c = seat[roll[talk[f].at]].waker,
           talk' = [talk EXCEPT ![f].at = @ + 1],
           \A r \in Index : r # roll[talk[f].at] => seat'[r] = seat[r],
           \A d \in Conns : d # c => since'[d] = since[d],
           UNCHANGED <<here, roll, kept, made, roster, conn, said, seen>>
    PROVE  /\ SaidOnce' /\ KeptInOrder'
           /\ talk'[f].at = talk[f].at + 1
           /\ \A d \in Conns : d # c => Client(d)'
<1>1. /\ roster = f /\ talk[f].at \in Nat /\ f # Nobody
      /\ \A d \in Conns : d # c /\ conn[d].pc # "away" =>
           /\ conn[d].ticket.index # roll[talk[f].at] /\ Mine(d).slot # talk[f].at
  BY WalkAt, RoomAssumption
<1>2. talk \in [Speakers -> Talks]
  BY DEF Inv, TypeOK
<1>3. /\ talk'[f].at = talk[f].at + 1
      /\ \A g \in Speakers : talk'[g].pc = talk[g].pc /\ talk'[g].post = talk[g].post
      /\ \A g \in Speakers : g # f => talk'[g] = talk[g]
  BY <1>1, <1>2 DEF Talks
<1>4. KeptInOrder'
  BY SameKept DEF Delivery
<1>5. SaidOnce'
  <2>1. \A p \in Posts : Handed(p) => Handed(p)'
    BY <1>3 DEF Handed
  <2>2. \A g \in Speakers : talk'[g].pc = "reserved" => talk'[g].at = 0
    BY <1>3 DEF Delivery, SaidOnce
  <2> QED
    BY <1>3, <2>1, <2>2 DEF Delivery, SaidOnce
<1>6. ASSUME NEW d \in Conns, d # c PROVE Client(d)'
  <2>1. ASSUME conn[d].pc # "away" PROVE Mine(d)' = Mine(d) /\ Heard(d)' = Heard(d)
    <3>1. /\ conn[d].ticket.index \in Index /\ Mine(d).slot \in Nat
          /\ conn[d].ticket.index # roll[talk[f].at] /\ Mine(d).slot # talk[f].at
      BY <1>1, <1>6, <2>1, SeatedAt
    <3>2. Mine(d)' = Mine(d)
      BY <3>1 DEF Mine
    <3>3. Mine(d).slot < talk[f].at + 1 <=> Mine(d).slot < talk[f].at
      BY <1>1, <3>1
    <3> QED
      BY <1>1, <1>3, <3>2, <3>3 DEF Heard
  <2>2. Client(d) /\ said' = said /\ seen'[d] = seen[d] /\ since'[d] = since[d] /\ conn'[d] = conn[d]
    BY <1>6 DEF Delivery
  <2> QED
    BY <2>1, <2>2, SameClient
<1> QED
  BY <1>3, <1>4, <1>5, <1>6

(* A broadcast comes to c: one more post is in its ring, or lost to it.    *)
ComesTo(f, c) ==
    /\ talk[f].pc = "putting" /\ talk[f].at < here /\ c = seat[roll[talk[f].at]].waker
    /\ talk'[f].at = talk[f].at + 1
    /\ UNCHANGED <<roster, conn, said, seen>>
    /\ Mine(c)'.slot = Mine(c).slot
    /\ since'[c].from = since[c].from /\ since'[c].sat = since[c].sat
    /\ since'[c].wrote = since[c].wrote
    /\ InTurn(said, seen[c], conn[c].hand, Mine(c)'.ring, Len(said), since[c])
    /\ Len(Mine(c)'.ring) + Lost(c)' = Len(Mine(c).ring) + Lost(c) + 1

(* It stays in order, and its account balances.                            *)
LEMMA ClientReached ==
    ASSUME Inv, Inv', Delivery, NEW f \in Speakers, NEW c \in Conns, ComesTo(f, c)
    PROVE  Client(c)'
<1>0. /\ UNCHANGED <<roster, conn, said, seen>> /\ talk'[f].at = talk[f].at + 1
      /\ Mine(c)'.slot = Mine(c).slot
      /\ since'[c].from = since[c].from /\ since'[c].sat = since[c].sat
      /\ since'[c].wrote = since[c].wrote
  BY DEF ComesTo
<1>1. /\ conn[c].pc # "away" /\ roster = f /\ talk[f].at \in Nat
      /\ Mine(c).slot = talk[f].at /\ Heard(c) = Len(said) - 1
  <2>1. talk[f].pc = "putting" /\ talk[f].at < here /\ c = seat[roll[talk[f].at]].waker
    BY DEF ComesTo
  <2> QED
    BY <2>1, WalkAt
<1>2. Client(c)
  BY DEF Delivery
<1>3. Heard(c)' = Len(said)
  <2>1. talk[f].at < talk[f].at + 1
    BY <1>1
  <2> QED
    BY <1>0, <1>1, <2>1 DEF Heard
<1>4. Within(seen[c], said)' /\ Rising(said, seen[c])'
  BY <1>0, <1>2 DEF Client, Within, Rising
<1>5. InTurn(said, seen[c], conn[c].hand, Mine(c).ring, Heard(c), since[c])'
  BY <1>0, <1>3 DEF InTurn, Over, ComesTo
<1>6. ASSUME conn[c].pc \in {"writing", "parked"}
      PROVE  Balanced(said, seen[c], conn[c].hand, Mine(c).ring, Heard(c), since[c], Lost(c))'
  <2> DEFINE h == conn[c].hand
             r == Mine(c).ring
             w == seen[c]
             st == since[c]
             to == Heard(c)
             next == Len(said)
  <2>1. Balanced(said, w, h, r, to, st, Lost(c)) /\ InTurn(said, w, h, r, to, st)
    BY <1>1, <1>2, <1>6 DEF Client
  <2>2. /\ said \in Seq(Posts) /\ st \in Stays /\ Len(w) \in Nat /\ st.wrote \in Nat
        /\ st.refused \in Nat /\ next \in Nat /\ next > 0
    BY <1>1, SaidIs, RoomAssumption DEF Delivery, Stays
  <2>3. to \in Nat /\ next = to + 1
    BY <1>1, <2>2
  <2>4. Len(h) \in Nat /\ Len(r) \in Nat /\ Mine(c).dropped \in Nat
    BY <1>1, SeatedAt
  <2>5. /\ Len(Mine(c)'.ring) \in Nat /\ Mine(c)'.dropped \in Nat
    <3>1. (conn[c].pc # "away")' => (Len(Mine(c).ring) \in Nat /\ Mine(c).dropped \in Nat)'
      BY SeatedAt, PTL
    <3> QED
      BY <1>0, <1>1, <3>1
  <2>6. Lost(c) \in Nat /\ Lost(c)' \in Nat
    <3>1. since' \in [Conns -> Stays]
      BY DEF Inv, TypeOK
    <3>2. since'[c].refused \in Nat
      BY <3>1 DEF Stays
    <3>3. Lost(c)' = Mine(c)'.dropped + since'[c].refused /\ Lost(c) = Mine(c).dropped + st.refused
      BY DEF Lost
    <3>4. \A x, y \in Nat : x + y \in Nat
      OBVIOUS
    <3> QED
      BY <2>2, <2>4, <2>5, <3>2, <3>3, <3>4, Zenon
  <2>7. Meant(said', Heard(c)', since'[c]) = Meant(said, next, st)
    BY <1>0, <1>3 DEF Meant
  <2> DEFINE k == Cardinality(Meant(said, to, st))
             m == Cardinality(Meant(said, next, st))
             l == Len(Mine(c)'.ring)
  <2>8. k = Len(w) - st.wrote + (Len(h) + Len(r)) + Lost(c)
    BY <2>1 DEF Balanced
  <2>9. m = k + 1 /\ k \in Nat
    <3> HIDE DEF h, r, w, st, to, next
    <3>1. next = Len(said)
      BY DEF next
    <3> QED
      BY <2>1, <2>2, <2>3, <3>1, Comes
  <2>10. m = Len(w) - st.wrote + (Len(h) + l) + Lost(c)'
    <3> DEFINE a == Len(w)
               b == st.wrote
               e == Len(h)
               g == Len(r)
               o == Lost(c)
               v == Lost(c)'
    <3>1. /\ a \in Nat /\ b \in Nat /\ e \in Nat /\ g \in Nat /\ o \in Nat /\ v \in Nat /\ l \in Nat
          /\ k \in Nat /\ m = k + 1 /\ k = a - b + (e + g) + o /\ l + v = g + o + 1
      BY <2>2, <2>4, <2>5, <2>6, <2>8, <2>9 DEF ComesTo
    <3> HIDE DEF a, b, e, g, o, v, k, m, l
    <3>2. m = a - b + (e + l) + v
      BY <3>1
    <3> QED
      BY <3>2 DEF a, b, e, v
  <2> QED
    BY <1>0, <2>7, <2>10 DEF Balanced
<1> QED
  BY <1>0, <1>4, <1>5, <1>6 DEF Client

(* PutNext: the next client on the roll is given the post, or is not.      *)
LEMMA PutNextDelivers ==
    ASSUME Inv, Inv', Delivery, NEW f \in Speakers, PutNext(f)
    PROVE  Delivery'
<1> DEFINE i == talk[f].at
           s == roll[i]
           e == seat[s]
           p == talk[f].post
           now == Put(e, p)
<1>1. /\ talk[f].pc = "putting" /\ i < here
      /\ seat' = [seat EXCEPT ![s] = now]
      /\ talk' = [talk EXCEPT ![f].at = @ + 1]
      /\ UNCHANGED <<roll, here, kept, made, roster, conn, left, said, seen, since>>
  BY DEF PutNext
<1>2. /\ i \in Index /\ s \in Index /\ e \in Chairs
      /\ Len(e.ring) <= Backlog /\ NoRepeats(e.ring)
      /\ e.waker \in Conns /\ conn[e.waker].ticket.index = s
      /\ p \in Posts /\ Handed(p) /\ ~Has(e.ring, p)
  BY <1>1, PuttingAt
<1>0. PICK c \in Conns : c = e.waker /\ conn[c].ticket.index = s
  BY <1>2
<1>3. /\ now.slot = e.slot
      /\ \/ now.ring = e.ring /\ now.dropped = e.dropped + 1
         \/ now.ring = Append(e.ring, p) /\ now.dropped = e.dropped
         \/ /\ now.ring = Append(Tail(e.ring), p) /\ now.dropped = e.dropped + 1
            /\ e.ring # <<>>
  <2> HIDE DEF e, p
  <2> QED
    BY <1>2, PutIs
<1> HIDE DEF now
<1>4. seat'[s] = now /\ \A r \in Index : r # s => seat'[r] = seat[r]
  BY <1>1, <1>2 DEF Inv, TypeOK
<1>5. Mine(c) = e /\ Mine(c)' = now
  BY <1>0, <1>1, <1>4 DEF Mine
<1>6. /\ SaidOnce' /\ KeptInOrder' /\ talk'[f].at = i + 1
      /\ \A d \in Conns : d # c => Client(d)'
  BY <1>0, <1>1, <1>4, OthersDoNotNotice
<1>7. /\ conn[c].pc # "away" /\ roster = f /\ Heard(c) = Len(said) - 1 /\ f # Nobody
  BY <1>0, <1>1, <1>2, WalkAt, RoomAssumption
<1>8. /\ said \in Seq(Posts) /\ NoRepeats(said) /\ Len(said) \in Nat /\ Len(said) > 0
      /\ seen[c] \in Seq(Posts) /\ since[c] \in Stays
      /\ Has(said, p) /\ Where(said, p) = Len(said)
  BY <1>2, <1>7, SaidIs DEF Delivery
<1> DEFINE h == conn[c].hand
           r == e.ring
           w == seen[c]
           st == since[c]
           to == Heard(c)
           next == Len(said)
<1>9. /\ Within(w, said) /\ InTurn(said, w, h, r, to, st)
  BY <1>2, <1>5, <1>7 DEF Delivery, Client
<1>10. to \in Nat /\ next \in Nat /\ next = to + 1 /\ next = Len(said)
  BY <1>7, <1>8
<1>11. r \in Seq(Posts) /\ Len(r) \in Nat /\ e.dropped \in Nat
  BY <1>5, <1>7, <1>2, SeatedAt
<1>12. InTurn(said, w, h, now.ring, next, st)
  <2> HIDE DEF h, r, w, st, to, next, p, e
  <2>1. CASE now.ring = r
    BY <1>8, <1>9, <1>10, <2>1, PassedBy DEF w, st
  <2>2. CASE now.ring = Append(r, p)
    BY <1>2, <1>8, <1>9, <1>10, <1>11, <2>2, GivenIs DEF w, st
  <2>3. CASE r # <<>> /\ now.ring = Append(Tail(r), p)
    <3> DEFINE k == Tail(r)
    <3>1. k \in Seq(Posts) /\ (k = r \/ (r # <<>> /\ k = Tail(r))) /\ now.ring = Append(k, p)
      BY <1>11, <2>3, Behead
    <3> HIDE DEF k
    <3> QED
      BY <1>2, <1>8, <1>9, <1>10, <1>11, <3>1, GivenIs DEF w, st
  <2> QED
    BY <1>3, <2>1, <2>2, <2>3 DEF r
<1>13. Len(now.ring) + now.dropped = Len(r) + e.dropped + 1
  <2> HIDE DEF e, p
  <2>1. Len(Append(r, p)) = Len(r) + 1
    BY <1>2, <1>11, Appended
  <2>2. r # <<>> => Len(Append(Tail(r), p)) = Len(r)
    <3> SUFFICES ASSUME r # <<>> PROVE Len(Append(Tail(r), p)) = Len(r)
      OBVIOUS
    <3> DEFINE k == Tail(r)
    <3>1. k \in Seq(Posts) /\ Len(k) = Len(r) - 1
      BY <1>11, Behead
    <3> HIDE DEF k
    <3>2. Len(Append(k, p)) = Len(k) + 1
      BY <1>2, <3>1, Appended
    <3>3. Len(Append(k, p)) = Len(r)
      BY <1>11, <3>1, <3>2
    <3> QED
      BY <3>3 DEF k
  <2> DEFINE x == Len(r)
             y == e.dropped
  <2>3. /\ x \in Nat /\ y \in Nat
        /\ \/ Len(now.ring) = x /\ now.dropped = y + 1
           \/ Len(now.ring) = x + 1 /\ now.dropped = y
    BY <1>3, <1>11, <2>1, <2>2
  <2> HIDE DEF x, y
  <2>4. Len(now.ring) + now.dropped = x + y + 1
    BY <2>3
  <2> QED
    BY <2>4 DEF x, y
<1>14. Len(Mine(c)'.ring) + Lost(c)' = Len(Mine(c).ring) + Lost(c) + 1
  <2>1. Lost(c) = e.dropped + st.refused /\ Lost(c)' = now.dropped + st.refused
    BY <1>1, <1>5 DEF Lost
  <2>2. Len(now.ring) \in Nat /\ now.dropped \in Nat
    <3>1. seat'[s] \in Chairs
      BY <1>2 DEF Inv, TypeOK
    <3> QED
      BY <1>4, <3>1, LenProperties DEF Chairs
  <2>3. st.refused \in Nat
    BY <1>8 DEF Stays
  <2> DEFINE a == Len(now.ring)
             b == now.dropped
             x == Len(r)
             y == e.dropped
             z == st.refused
  <2>4. a \in Nat /\ b \in Nat /\ x \in Nat /\ y \in Nat /\ z \in Nat /\ a + b = x + y + 1
    BY <1>11, <1>13, <2>2, <2>3
  <2> HIDE DEF a, b, x, y, z
  <2>5. a + (b + z) = x + (y + z) + 1
    BY <2>4
  <2> QED
    BY <1>5, <2>1, <2>5 DEF a, b, x, y, z
<1>15. ComesTo(f, c)
  BY <1>0, <1>1, <1>3, <1>5, <1>6, <1>12, <1>14 DEF ComesTo
<1>16. Client(c)'
  BY <1>15, ClientReached
<1> QED
  BY <1>6, <1>16 DEF Delivery

(* PutRefused: the next client on the roll is passed by.                   *)
LEMMA PutRefusedDelivers ==
    ASSUME Inv, Inv', Delivery, NEW f \in Speakers, PutRefused(f)
    PROVE  Delivery'
<1> DEFINE i == talk[f].at
           s == roll[i]
<1>0. PICK c : c = seat[s].waker
  OBVIOUS
<1>1. /\ talk[f].pc = "putting" /\ i < here
      /\ talk' = [talk EXCEPT ![f].at = @ + 1]
      /\ since' = [since EXCEPT ![c].refused = @ + 1]
      /\ UNCHANGED <<seat, roll, here, kept, made, roster, conn, said, seen>>
  BY <1>0 DEF PutRefused
<1>2. /\ c \in Conns /\ s \in Index
  BY <1>0, <1>1, PuttingAt
<1>3. since \in [Conns -> Stays]
  BY DEF Inv, TypeOK
<1>4. /\ since'[c].from = since[c].from /\ since'[c].sat = since[c].sat
      /\ since'[c].wrote = since[c].wrote /\ since'[c].refused = since[c].refused + 1
      /\ \A d \in Conns : d # c => since'[d] = since[d]
  BY <1>1, <1>2, <1>3 DEF Stays
<1>5. /\ SaidOnce' /\ KeptInOrder' /\ talk'[f].at = i + 1
      /\ \A d \in Conns : d # c => Client(d)'
  BY <1>0, <1>1, <1>2, <1>4, OthersDoNotNotice
<1>6. /\ conn[c].pc # "away" /\ roster = f /\ Heard(c) = Len(said) - 1 /\ f # Nobody
  BY <1>0, <1>1, <1>2, WalkAt, RoomAssumption
<1>7. Mine(c)' = Mine(c)
  BY <1>1 DEF Mine
<1>8. /\ said \in Seq(Posts) /\ NoRepeats(said) /\ Len(said) \in Nat /\ Len(said) > 0
      /\ seen[c] \in Seq(Posts) /\ since[c] \in Stays /\ since[c].refused \in Nat
  BY <1>2, <1>6, SaidIs DEF Delivery, Stays
<1>9. InTurn(said, seen[c], conn[c].hand, Mine(c).ring, Len(said), since[c])
  <2> DEFINE h == conn[c].hand
             r == Mine(c).ring
             w == seen[c]
             st == since[c]
             to == Heard(c)
  <2>1. Within(w, said) /\ InTurn(said, w, h, r, to, st)
    BY <1>2, <1>6 DEF Delivery, Client
  <2>2. to \in Nat /\ w \in Seq(Posts) /\ st \in Stays
    BY <1>6, <1>8
  <2> HIDE DEF h, r, w, st, to
  <2>3. InTurn(said, w, h, r, Len(said), st)
    BY <1>8, <2>1, <2>2, PassedBy
  <2> QED
    BY <2>3 DEF h, r, w, st
<1>10. Len(Mine(c)'.ring) + Lost(c)' = Len(Mine(c).ring) + Lost(c) + 1
  <2> DEFINE a == Len(Mine(c).ring)
             b == Mine(c).dropped
             x == since[c].refused
  <2>1. a \in Nat /\ b \in Nat /\ x \in Nat
    BY <1>2, <1>6, <1>8, SeatedAt
  <2>2. Lost(c) = b + x /\ Lost(c)' = b + (x + 1)
    BY <1>4, <1>7 DEF Lost
  <2> HIDE DEF a, b, x
  <2>3. a + (b + (x + 1)) = a + (b + x) + 1
    BY <2>1
  <2>4. Len(Mine(c)'.ring) = a /\ Len(Mine(c).ring) = a
    BY <1>7 DEF a
  <2> QED
    BY <2>2, <2>3, <2>4
<1>11. ComesTo(f, c)
  BY <1>0, <1>1, <1>4, <1>5, <1>7, <1>9, <1>10 DEF ComesTo
<1>12. Client(c)'
  BY <1>2, <1>11, ClientReached
<1> QED
  BY <1>5, <1>12 DEF Delivery

(* What is kept of a room's posts, one more having been handed out.        *)
LEMMA KeepsTheLast ==
    ASSUME Inv, SaidOnce, KeptInOrder, NEW f \in Speakers, talk[f].pc = "putting",
           History > 0, Keepable(talk[f].post),
           said' = said, roster' = Nobody, kept' = Trimmed(Append(kept, talk[f].post))
    PROVE  KeptInOrder'
<1> DEFINE p == talk[f].post
           all == Append(kept, p)
<1>1. TypeOK /\ Talking /\ PostsApart
  BY DEF Inv
<1>2. roster = f /\ roster # Nobody
  BY <1>1, RoomAssumption DEF Talking
<1>3. /\ said \in Seq(Posts) /\ NoRepeats(said) /\ Len(said) \in Nat /\ DOMAIN said = 1..Len(said)
      /\ kept \in Seq(Posts) /\ Within(kept, said) /\ Has(said, p) /\ Where(said, p) = Len(said)
      /\ Rising(said, kept)
  BY <1>2, SaidIs DEF KeptInOrder
<1>4. p \in Posts /\ ~Has(kept, p) /\ said[Len(said)] = p
  <2>1. talk[f] \in Talks
    BY <1>1 DEF TypeOK
  <2> QED
    BY <1>1, <2>1 DEF Talking, Talks, PostsApart, SaidOnce
<1>5. PICK n \in 1..(Len(kept) + 1) : kept' = From(all, n)
  BY <1>3, <1>4, TrimmedIs
<1> HIDE DEF p
<1>6. all \in Seq(Posts) /\ Len(all) = Len(kept) + 1 /\ all[Len(kept) + 1] = p /\ Len(kept) \in Nat
      /\ \A q : Has(all, q) <=> Has(kept, q) \/ q = p
  BY <1>3, <1>4, AppendProperties, LenProperties, Appended
<1>7. \A q \in Posts : Has(kept, q) => Where(said, q) \in Int /\ Where(said, q) < Len(said)
  <2> SUFFICES ASSUME NEW q \in Posts, Has(kept, q)
               PROVE  Where(said, q) \in Int /\ Where(said, q) < Len(said)
    OBVIOUS
  <2>1. Where(said, q) \in 1..Len(said) /\ said[Where(said, q)] = q
    BY <1>3, WhereIs DEF Within
  <2>2. q # p
    BY <1>4
  <2> QED
    BY <1>3, <1>4, <2>1, <2>2
<1>8. Rising(said, all)
  BY <1>3, <1>4, <1>7, RisingLonger
<1> HIDE DEF all
<1>9. n \in 1..(Len(all) + 1) /\ n <= Len(all) /\ n \in Nat
  BY <1>6
<1>10. /\ Rising(said, From(all, n))
       /\ \A i \in DOMAIN all, q \in Posts : i < n /\ Has(From(all, n), q) => Where(said, all[i]) < Where(said, q)
  BY <1>6, <1>8, <1>9, RisingCut
<1>11. /\ \A q : Has(all, q) <=> Has(First(all, n - 1), q) \/ Has(From(all, n), q)
       /\ From(all, n) \in Seq(Posts) /\ Len(From(all, n)) = Len(all) - n + 1
       /\ \A i \in 1..(Len(all) - n + 1) : From(all, n)[i] = all[n + i - 1]
       /\ First(all, n - 1) \in Seq(Posts) /\ Len(First(all, n - 1)) = n - 1
       /\ \A i \in 1..(n - 1) : First(all, n - 1)[i] = all[i]
  BY <1>6, <1>9, Cut
<1>12. Has(From(all, n), p)
  <2> DEFINE k == Len(all) - n + 1
  <2>1. k \in 1..(Len(all) - n + 1) /\ n + k - 1 = Len(all)
    BY <1>6, <1>9
  <2>2. From(all, n)[k] = p
    <3>1. From(all, n)[k] = all[n + k - 1]
      BY <1>11, <2>1
    <3> QED
      BY <1>6, <2>1, <3>1
  <2>3. k \in DOMAIN From(all, n)
    BY <1>11, <2>1, LenProperties
  <2> HIDE DEF k
  <2> QED
    BY <2>2, <2>3 DEF Has
<1>13. \A q \in Posts : Has(kept', q) => Keepable(q)
  BY <1>5, <1>6, <1>11 DEF KeptInOrder, p
<1>14. ASSUME NEW q \in Posts, NEW m \in DOMAIN said, Has(kept', q), Where(said, q) <= m,
              Keepable(said[m])
       PROVE  Has(kept', said[m])
  <2>1. CASE m = Len(said)
    BY <1>4, <1>5, <1>12, <2>1
  <2>2. CASE m # Len(said)
    <3>1. m < Len(said) /\ m \in Int
      BY <1>3, <2>2
    <3>2. Has(kept, q)
      <4>1. Has(all, q)
        BY <1>5, <1>11, <1>14
      <4>2. q # p
        BY <1>3, <1>14, <3>1
      <4> QED
        BY <1>6, <4>1, <4>2
    <3>3. Has(kept, said[m])
      BY <1>14, <3>1, <3>2 DEF KeptInOrder
    <3>4. ~Has(First(all, n - 1), said[m])
      <4> SUFFICES ASSUME Has(First(all, n - 1), said[m]) PROVE FALSE
        OBVIOUS
      <4>1. PICK j \in DOMAIN First(all, n - 1) : First(all, n - 1)[j] = said[m]
        BY DEF Has
      <4>2. j \in 1..(n - 1)
        BY <1>11, <4>1, LenProperties
      <4>3. all[j] = said[m] /\ j < n /\ j \in DOMAIN all
        BY <1>6, <1>9, <1>11, <4>1, <4>2, LenProperties
      <4>4. Where(said, all[j]) < Where(said, q)
        BY <1>5, <1>10, <1>14, <4>3
      <4>5. Where(said, all[j]) = m
        BY <1>3, <4>3, WhereIs
      <4> QED
        BY <1>7, <1>14, <3>1, <3>2, <4>4, <4>5
    <3> QED
      BY <1>5, <1>6, <1>11, <3>3, <3>4
  <2> QED
    BY <2>1, <2>2
<1> QED
  BY <1>5, <1>10, <1>13, <1>14 DEF KeptInOrder

(* EndHandOut: the post has come to everybody, and may be kept.            *)
LEMMA EndHandOutDelivers ==
    ASSUME Inv, Inv', Delivery, NEW f \in Speakers, EndHandOut(f)
    PROVE  Delivery'
<1> DEFINE p == talk[f].post
<1>1. /\ talk[f].pc = "putting" /\ talk[f].at = here /\ roster' = Nobody
      /\ \/ History > 0 /\ Keepable(p) /\ kept' = Trimmed(Append(kept, p))
         \/ ~(History > 0 /\ Keepable(p)) /\ kept' = kept
      /\ talk' = [talk EXCEPT ![f].pc = "said"]
      /\ UNCHANGED <<seat, here, made, conn, said, seen, since>>
  BY DEF EndHandOut
<1>2. TypeOK /\ Talking /\ SaidOnce /\ KeptInOrder
  BY DEF Inv, Delivery
<1>3. roster = f /\ roster # Nobody
  BY <1>1, <1>2, RoomAssumption DEF Talking
<1>4. talk \in [Speakers -> Talks] /\ here \in Nat
  BY <1>2, RoomAssumption DEF TypeOK
<1>5. talk'[f].pc = "said" /\ \A g \in Speakers : g # f => talk'[g] = talk[g]
  BY <1>1, <1>4
<1>6. SaidOnce'
  <2>1. \A q \in Posts : Handed(q) => Handed(q)'
    BY <1>1, <1>5 DEF Handed
  <2> QED
    BY <1>1, <1>2, <1>5, <2>1 DEF SaidOnce
<1>7. KeptInOrder'
  <2>1. CASE History > 0 /\ Keepable(p) /\ kept' = Trimmed(Append(kept, p))
    BY <1>1, <1>2, <2>1, KeepsTheLast
  <2>2. CASE ~(History > 0 /\ Keepable(p)) /\ kept' = kept
    <3>1. /\ said[Len(said)] = p /\ Len(said) \in Nat /\ DOMAIN said = 1..Len(said)
      BY <1>1, <1>2, SaidIs DEF SaidOnce
    <3>2. ASSUME NEW q \in Posts, NEW n \in DOMAIN said, Has(kept, q), Where(said, q) <= n,
                 Keepable(said[n])
          PROVE  Has(kept, said[n])
      <4>1. History > 0
        <5>1. kept # <<>>
          BY <3>2, Short
        <5>2. kept \in Seq(Posts) /\ Len(kept) <= History /\ History \in Nat
          BY <1>2, RoomAssumption DEF TypeOK
        <5> QED
          BY <5>1, <5>2, EmptySeq, LenProperties
      <4>2. n # Len(said)
        BY <2>2, <3>1, <3>2, <4>1
      <4>3. n < Len(said)
        BY <3>1, <4>2
      <4> QED
        BY <1>2, <3>2, <4>3 DEF KeptInOrder
    <3> QED
      BY <1>1, <1>2, <2>2, <3>2 DEF KeptInOrder
  <2> QED
    BY <1>1, <2>1, <2>2
<1>8. ASSUME NEW c \in Conns PROVE Client(c)'
  <2>1. Mine(c)' = Mine(c)
    BY <1>1 DEF Mine
  <2>2. conn[c].pc # "away" => Heard(c) = Len(said) /\ Heard(c)' = Len(said)
    <3>1. conn[c].pc # "away" => Mine(c).slot < talk[roster].at
      BY <1>1, <1>3, SeatedAt
    <3> QED
      BY <1>1, <3>1 DEF Heard
  <2>3. Client(c)
    BY DEF Delivery
  <2> QED
    BY <1>1, <2>1, <2>2, <2>3, SameClient
<1> QED
  BY <1>6, <1>7, <1>8 DEF Delivery

(* A connection's step says nothing, keeps nothing and lets nobody speak.  *)
LEMMA NothingSaid ==
    ASSUME Delivery, UNCHANGED <<said, kept, talk, roster, made>>
    PROVE  SaidOnce' /\ KeptInOrder'
<1>1. KeptInOrder'
  BY SameKept DEF Delivery
<1>2. \A q \in Posts : Handed(q) => Handed(q)'
  BY DEF Handed
<1> QED
  BY <1>1, <1>2 DEF Delivery, SaidOnce

(* Sit: the client that comes back, and the others, whose seats stay.      *)
LEMMA SitDelivers ==
    ASSUME Inv, Inv', Delivery, NEW c \in Conns, Sit(c)
    PROVE  Delivery'
<1> DEFINE i == roll[here]
           again == KeptAfter(LastId(c))
           chair == [taken |-> TRUE, era |-> seat[i].era + 1, slot |-> here, waker |-> c,
                     text_only |-> c \in Streams, ring |-> seat[i].ring, dropped |-> 0]
           place == [pc |-> "writing", hand |-> again,
                     ticket |-> [index |-> i, era |-> seat[i].era + 1]]
           stay == [from |-> IF Has(kept, LastId(c)) THEN Where(said, LastId(c)) ELSE Len(said),
                    sat |-> Len(said), wrote |-> Len(seen[c]), refused |-> 0]
<1>1. /\ conn[c].pc = "away" /\ roster = Nobody /\ here < Seats
      /\ UNCHANGED <<roll, kept, made, roster, talk, bell, said, seen>>
  BY DEF Sit
<1>2. seat' = [seat EXCEPT ![i] = chair]
  BY DEF Sit
<1>3. conn' = [conn EXCEPT ![c] = place]
  BY DEF Sit
<1>4. since' = [since EXCEPT ![c] = stay]
  BY DEF Sit
<1>5. TypeOK /\ Listed
  BY DEF Inv
<1>6. here \in Index
  <2> HIDE DEF i, again, chair, place, stay
  <2>1. here \in 0..Seats /\ Seats \in Nat
    BY <1>5, RoomAssumption DEF TypeOK
  <2> QED
    BY <1>1, <2>1 DEF Index
<1>7. i \in Index /\ ~seat[i].taken /\ seat[i].ring = <<>> /\ seat \in [Index -> Chairs]
      /\ conn \in [Conns -> Places] /\ since \in [Conns -> Stays]
  <2>1. i \in Index /\ seat \in [Index -> Chairs]
        /\ conn \in [Conns -> Places] /\ since \in [Conns -> Stays]
    BY <1>5, <1>6 DEF TypeOK
  <2>2. ~seat[i].taken
    BY <1>5, <1>6, <2>1 DEF Listed, TypeOK
  <2> QED
    BY <1>5, <2>1, <2>2 DEF Listed
<1>8. chair.ring = <<>> /\ chair.dropped = 0 /\ place.pc = "writing" /\ place.hand = again
      /\ place.ticket.index = i /\ stay.refused = 0
  BY <1>7
<1>9. stay = [from |-> IF Has(kept, LastId(c)) THEN Where(said, LastId(c)) ELSE Len(said),
              sat |-> Len(said), wrote |-> Len(seen[c]), refused |-> 0]
  OBVIOUS
<1>10. again = KeptAfter(LastId(c))
  OBVIOUS
<1> HIDE DEF chair, place, stay, again
<1>11. /\ seat'[i] = chair /\ \A r \in Index : r # i => seat'[r] = seat[r]
       /\ conn'[c] = place /\ \A d \in Conns : d # c => conn'[d] = conn[d]
       /\ since'[c] = stay /\ \A d \in Conns : d # c => since'[d] = since[d]
  BY <1>2, <1>3, <1>4, <1>7
<1>12. \A d \in Conns : Heard(d) = Len(said) /\ Heard(d)' = Len(said)
  BY <1>1 DEF Heard
<1>13. SaidOnce' /\ KeptInOrder'
  BY <1>1, NothingSaid
<1>14. ASSUME NEW d \in Conns, d # c PROVE Client(d)'
  <2>1. conn[d].pc # "away" => Mine(d)' = Mine(d)
    <3> SUFFICES ASSUME conn[d].pc # "away" PROVE Mine(d)' = Mine(d)
      OBVIOUS
    <3>1. conn[d].ticket.index \in Index /\ Mine(d) = seat[conn[d].ticket.index] /\ Mine(d).taken
      BY SeatedAt
    <3>2. conn[d].ticket.index # i
      BY <1>7, <3>1
    <3> QED
      BY <1>11, <1>14, <3>1, <3>2 DEF Mine
  <2>2. Client(d) /\ seen'[d] = seen[d] /\ said' = said
    BY <1>1 DEF Delivery
  <2> QED
    BY <1>11, <1>12, <1>14, <2>1, <2>2, SameClient
<1>15. Client(c)'
  <2>1. stay \in Stays
    <3>1. since' \in [Conns -> Stays]
      BY DEF Inv, TypeOK
    <3> QED
      BY <1>11, <3>1
  <2>2. Within(seen[c], said) /\ Rising(said, seen[c]) /\ SaidOnce /\ KeptInOrder
    BY DEF Delivery, Client
  <2>3. /\ InTurn(said, seen[c], again, <<>>, Len(said), stay)
        /\ Balanced(said, seen[c], again, <<>>, Len(said), stay, 0)
    BY <1>1, <1>9, <1>10, <2>1, <2>2, ComesBack
  <2>4. Mine(c)' = chair
    BY <1>8, <1>11 DEF Mine
  <2>5. /\ conn'[c].hand = again /\ Mine(c)'.ring = <<>> /\ since'[c] = stay
        /\ said' = said /\ seen'[c] = seen[c] /\ Heard(c)' = Len(said)
    BY <1>1, <1>8, <1>11, <1>12, <2>4
  <2>6. Lost(c)' = 0
    <3>1. Mine(c)'.dropped = 0 /\ since'[c].refused = 0
      BY <1>8, <1>11, <2>4
    <3> QED
      BY <3>1 DEF Lost
  <2>7. InTurn(said, seen[c], conn[c].hand, Mine(c).ring, Heard(c), since[c])'
    BY <2>3, <2>5
  <2>8. Balanced(said, seen[c], conn[c].hand, Mine(c).ring, Heard(c), since[c], Lost(c))'
    BY <2>3, <2>5, <2>6
  <2>9. Within(seen[c], said)' /\ Rising(said, seen[c])'
    BY <2>2, <2>5
  <2> QED
    BY <2>7, <2>8, <2>9 DEF Client
<1> QED
  BY <1>13, <1>14, <1>15 DEF Delivery

(* A connection does something with what it has; the others do not notice. *)
LEMMA OwnStep ==
    ASSUME Inv, Delivery, NEW c \in Conns, conn[c].pc # "away",
           \A s \in Index : s # conn[c].ticket.index => seat'[s] = seat[s],
           \A d \in Conns : d # c => conn'[d] = conn[d] /\ seen'[d] = seen[d],
           UNCHANGED <<said, kept, talk, roster, made, since>>, Client(c)'
    PROVE  Delivery'
<1>1. SaidOnce' /\ KeptInOrder'
  BY NothingSaid
<1>2. ASSUME NEW d \in Conns, d # c PROVE Client(d)'
  <2>1. ASSUME conn[d].pc # "away" PROVE Mine(d)' = Mine(d) /\ Heard(d)' = Heard(d)
    <3>1. /\ conn[d].ticket.index \in Index /\ Mine(d) = seat[conn[d].ticket.index]
          /\ Mine(d).waker = d
      BY <2>1, SeatedAt
    <3>2. Mine(c) = seat[conn[c].ticket.index] /\ Mine(c).waker = c
      BY SeatedAt
    <3>3. Mine(d)' = Mine(d)
      BY <1>2, <3>1, <3>2 DEF Mine
    <3> QED
      BY <3>3 DEF Heard
  <2>2. Client(d)
    BY DEF Delivery
  <2> QED
    BY <1>2, <2>1, <2>2, SameClient
<1> QED
  BY <1>1, <1>2 DEF Delivery

(* Write: a post goes from the hand to the client.                         *)
LEMMA WriteDelivers ==
    ASSUME Inv, Inv', Delivery, NEW c \in Conns, Write(c)
    PROVE  Delivery'
<1>1. /\ conn[c].pc = "writing" /\ conn[c].hand # <<>>
      /\ seen' = [seen EXCEPT ![c] = Append(@, Head(conn[c].hand))]
      /\ conn' = [conn EXCEPT ![c].hand = Tail(@)]
      /\ UNCHANGED <<seat, kept, made, roster, talk, said, since>>
  BY DEF Write
<1>2. conn \in [Conns -> Places] /\ seen \in [Conns -> Seq(Posts)]
  BY DEF Inv, TypeOK
<1> DEFINE h == conn[c].hand
           r == Mine(c).ring
           w == seen[c]
           st == since[c]
           to == Heard(c)
<1>3. /\ conn'[c].pc = "writing" /\ conn'[c].hand = Tail(h) /\ conn'[c].ticket = conn[c].ticket
      /\ seen'[c] = Append(w, Head(h))
      /\ \A d \in Conns : d # c => conn'[d] = conn[d] /\ seen'[d] = seen[d]
  BY <1>1, <1>2 DEF Places
<1>4. Mine(c)' = Mine(c) /\ Heard(c)' = Heard(c) /\ Lost(c)' = Lost(c)
  BY <1>1, <1>3 DEF Mine, Heard, Lost
<1>5. /\ said \in Seq(Posts) /\ NoRepeats(said) /\ w \in Seq(Posts) /\ st \in Stays
      /\ h \in Seq(Posts) /\ h # <<>> /\ r \in Seq(Posts)
      /\ Len(h) \in Nat /\ Len(r) \in Nat /\ Len(w) \in Nat
  BY <1>1, SaidIs, SeatedAt DEF Delivery
<1>6. /\ Within(w, said) /\ Rising(said, w) /\ InTurn(said, w, h, r, to, st)
      /\ Balanced(said, w, h, r, to, st, Lost(c))
  BY <1>1 DEF Delivery, Client
<1>7. /\ Within(Append(w, Head(h)), said) /\ Rising(said, Append(w, Head(h)))
      /\ InTurn(said, Append(w, Head(h)), Tail(h), r, to, st)
      /\ Len(Append(w, Head(h))) = Len(w) + 1 /\ Len(Tail(h)) = Len(h) - 1
  <2> HIDE DEF h, r, w, st, to
  <2> QED
    BY <1>5, <1>6, WritesOne
<1>8. Balanced(said, Append(w, Head(h)), Tail(h), r, to, st, Lost(c))
  <2> DEFINE a == Len(w)
             b == Len(h)
             x == Len(r)
             y == st.wrote
  <2>1. a \in Nat /\ b \in Nat /\ x \in Nat /\ y \in Nat
    BY <1>5 DEF Stays
  <2>2. Cardinality(Meant(said, to, st)) = a - y + (b + x) + Lost(c)
    BY <1>6 DEF Balanced
  <2>3. Len(Append(w, Head(h))) = a + 1 /\ Len(Tail(h)) = b - 1
    BY <1>7
  <2> HIDE DEF a, b, x, y
  <2>4. (a + 1) - y + ((b - 1) + x) = a - y + (b + x)
    BY <2>1
  <2> HIDE DEF h, r, w, st, to
  <2> QED
    BY <2>2, <2>3, <2>4, Zenon DEF Balanced, x, y
<1>9. Client(c)'
  <2>1. Within(seen[c], said)' /\ Rising(said, seen[c])'
    BY <1>1, <1>3, <1>7
  <2>2. InTurn(said, seen[c], conn[c].hand, Mine(c).ring, Heard(c), since[c])'
    BY <1>1, <1>3, <1>4, <1>7
  <2>3. Balanced(said, seen[c], conn[c].hand, Mine(c).ring, Heard(c), since[c], Lost(c))'
    BY <1>1, <1>3, <1>4, <1>8
  <2> QED
    BY <2>1, <2>2, <2>3 DEF Client
<1> QED
  BY <1>1, <1>3, <1>9, OwnStep

(* Take: a post goes from the ring to the hand.                            *)
LEMMA TakeDelivers ==
    ASSUME Inv, Inv', Delivery, NEW c \in Conns, Take(c)
    PROVE  Delivery'
<1> DEFINE s == conn[c].ticket.index
           r == Mine(c).ring
           w == seen[c]
           st == since[c]
           to == Heard(c)
<1>1. /\ conn[c].pc = "writing" /\ conn[c].hand = <<>> /\ r # <<>>
      /\ seat' = [seat EXCEPT ![s].ring = Tail(@)]
      /\ conn' = [conn EXCEPT ![c].hand = <<Head(r)>>]
      /\ UNCHANGED <<kept, made, roster, talk, said, seen, since>>
  BY DEF Take
<1>2. conn \in [Conns -> Places] /\ seat \in [Index -> Chairs]
  BY DEF Inv, TypeOK
<1>3. s \in Index /\ Mine(c) = seat[s] /\ r \in Seq(Posts) /\ Len(r) \in Nat
  BY <1>1, SeatedAt
<1>4. /\ conn'[c].pc = "writing" /\ conn'[c].hand = <<Head(r)>> /\ conn'[c].ticket.index = s
      /\ \A d \in Conns : d # c => conn'[d] = conn[d]
  BY <1>1, <1>2 DEF Places
<1>5. /\ seat'[s].ring = Tail(r) /\ seat'[s].slot = seat[s].slot /\ seat'[s].dropped = seat[s].dropped
      /\ \A x \in Index : x # s => seat'[x] = seat[x]
  <2>1. seat'[s] = [seat[s] EXCEPT !.ring = Tail(@)] /\ \A x \in Index : x # s => seat'[x] = seat[x]
    BY <1>1, <1>2, <1>3
  <2>2. seat[s] \in Chairs
    BY <1>2, <1>3
  <2> QED
    BY <1>3, <2>1, <2>2 DEF Chairs
<1>6. /\ Mine(c)'.ring = Tail(r) /\ Heard(c)' = Heard(c) /\ Lost(c)' = Lost(c)
  <2>1. Mine(c)' = seat'[s]
    BY <1>4 DEF Mine
  <2> QED
    BY <1>1, <1>3, <1>5, <2>1 DEF Heard, Lost
<1>7. /\ said \in Seq(Posts) /\ w \in Seq(Posts) /\ st \in Stays /\ Len(w) \in Nat
  BY <1>1, SaidIs DEF Delivery
<1>8. /\ Within(w, said) /\ Rising(said, w) /\ InTurn(said, w, <<>>, r, to, st)
      /\ Balanced(said, w, <<>>, r, to, st, Lost(c))
  BY <1>1 DEF Delivery, Client
<1>9. InTurn(said, w, <<Head(r)>>, Tail(r), to, st) /\ Len(Tail(r)) = Len(r) - 1
  <2>1. r # <<>>
    BY <1>1
  <2> HIDE DEF r, w, st, to
  <2> QED
    BY <1>3, <1>7, <1>8, <2>1, TakesOne
<1>10. Balanced(said, w, <<Head(r)>>, Tail(r), to, st, Lost(c))
  <2> DEFINE x == Len(r)
  <2>1. Cardinality(Meant(said, to, st)) = Len(w) - st.wrote + (Len(<<>>) + x) + Lost(c)
    BY <1>8 DEF Balanced
  <2>2. Len(<<>>) = 0 /\ Len(<<Head(r)>>) = 1 /\ Len(Tail(r)) = x - 1 /\ x \in Nat
    BY <1>3, <1>9
  <2> HIDE DEF x
  <2>3. 0 + x = 1 + (x - 1)
    BY <2>2
  <2>4. Len(<<>>) + x = Len(<<Head(r)>>) + Len(Tail(r))
    BY <2>2, <2>3
  <2> HIDE DEF r, w, st, to
  <2> QED
    BY <2>1, <2>4, Zenon DEF Balanced
<1>11. Client(c)'
  <2>1. Within(seen[c], said)' /\ Rising(said, seen[c])'
    BY <1>1, <1>8
  <2>2. InTurn(said, seen[c], conn[c].hand, Mine(c).ring, Heard(c), since[c])'
    BY <1>1, <1>4, <1>6, <1>9
  <2>3. Balanced(said, seen[c], conn[c].hand, Mine(c).ring, Heard(c), since[c], Lost(c))'
    BY <1>1, <1>4, <1>6, <1>10
  <2> QED
    BY <2>1, <2>2, <2>3 DEF Client
<1> QED
  BY <1>1, <1>4, <1>5, <1>11, OwnStep

(* Park, Woken, KeepAlive and Go: nothing is moved, though what is in the  *)
(* hand of one who goes is let go.                                         *)
LEMMA TurnsDeliver ==
    ASSUME Inv, Inv', Delivery, NEW c \in Conns, Park(c) \/ Woken(c) \/ KeepAlive(c) \/ Go(c)
    PROVE  Delivery'
<1>0. conn \in [Conns -> Places]
  BY DEF Inv, TypeOK
<1>1. /\ conn[c].pc \in {"writing", "parked"}
      /\ UNCHANGED <<seat, kept, made, roster, talk, said, since>>
      /\ \A d \in Conns : d # c => conn'[d] = conn[d] /\ seen'[d] = seen[d]
      /\ conn'[c].ticket = conn[c].ticket
      /\ \/ conn'[c].pc = "leaving" /\ conn'[c].hand = <<>> /\ Go(c)
         \/ conn'[c].hand = conn[c].hand /\ seen' = seen /\ conn'[c].pc # "leaving"
  <2>1. CASE Park(c)
    BY <1>0, <2>1 DEF Park, Places
  <2>2. CASE Woken(c)
    BY <1>0, <2>2 DEF Woken, Places
  <2>3. CASE KeepAlive(c)
    BY <1>0, <2>3 DEF KeepAlive, Places
  <2>4. CASE Go(c)
    BY <1>0, <2>4, HasTheFirst DEF Go, Places, Inv
  <2> QED
    BY <2>1, <2>2, <2>3, <2>4
<1>2. Mine(c)' = Mine(c) /\ Heard(c)' = Heard(c) /\ Lost(c)' = Lost(c)
  BY <1>1 DEF Mine, Heard, Lost
<1>3. Client(c)
  BY DEF Delivery
<1>4. Client(c)'
  <2>1. CASE conn'[c].hand = conn[c].hand /\ seen' = seen
    BY <1>1, <1>2, <1>3, <2>1, SameClient
  <2>2. CASE conn'[c].pc = "leaving" /\ conn'[c].hand = <<>> /\ Go(c)
    <3>1. InTurn(said, seen[c], conn[c].hand, Mine(c).ring, Heard(c), since[c])
          /\ Within(seen[c], said) /\ Rising(said, seen[c])
      BY <1>1, <1>3 DEF Client
    <3>2. InTurn(said, seen[c], <<>>, Mine(c).ring, Heard(c), since[c])
      BY <3>1, LetsGo
    <3>a. /\ \A q : Has(seen'[c], q) => Has(seen[c], q)
          /\ \A i \in DOMAIN seen'[c] : i \in DOMAIN seen[c] /\ seen'[c][i] = seen[c][i]
      BY <2>2, HasTheFirst DEF Inv
    <3>b. InTurn(said, seen'[c], <<>>, Mine(c).ring, Heard(c), since[c])
      BY <3>2, <3>a DEF InTurn, Before, Upto
    <3>3. InTurn(said, seen[c], conn[c].hand, Mine(c).ring, Heard(c), since[c])'
      BY <1>1, <1>2, <2>2, <3>b
    <3>c. Within(seen'[c], said) /\ Rising(said, seen'[c])
      BY <3>1, <3>a DEF Within, Rising
    <3>4. Within(seen[c], said)' /\ Rising(said, seen[c])'
      BY <1>1, <3>c
    <3> QED
      BY <2>2, <3>3, <3>4 DEF Client
  <2> QED
    BY <1>1, <2>1, <2>2
<1> QED
  BY <1>1, <1>4, OwnStep

(* GiveUp: the client is away, and the others keep what they have, though  *)
(* one of them is listed elsewhere.                                        *)
LEMMA GiveUpDelivers ==
    ASSUME Inv, Inv', Delivery, NEW c \in Conns, GiveUp(c)
    PROVE  Delivery'
<1> DEFINE i == conn[c].ticket.index
           moved == roll[here - 1]
<1>1. /\ conn[c].pc = "leaving" /\ roster = Nobody
      /\ seat' = [[seat EXCEPT ![i].taken = FALSE, ![i].waker = Nobody, ![i].ring = <<>>]
                    EXCEPT ![moved].slot = seat[i].slot]
      /\ conn' = [conn EXCEPT ![c] = Away]
      /\ since' = [since EXCEPT ![c] = NoStay]
      /\ UNCHANGED <<kept, made, roster, talk, said, seen>>
  BY DEF GiveUp
<1>2. /\ conn \in [Conns -> Places] /\ seat \in [Index -> Chairs] /\ since \in [Conns -> Stays]
  BY DEF Inv, TypeOK
<1>3. /\ conn'[c].pc = "away" /\ \A d \in Conns : d # c => conn'[d] = conn[d] /\ since'[d] = since[d]
  BY <1>1, <1>2 DEF Away
<1>4. i \in Index /\ Mine(c) = seat[i] /\ Mine(c).waker = c
  BY <1>1, SeatedAt
<1>5. \A s \in Index : s # i => seat'[s].ring = seat[s].ring /\ seat'[s].dropped = seat[s].dropped
  <2> SUFFICES ASSUME NEW s \in Index, s # i
               PROVE  seat'[s].ring = seat[s].ring /\ seat'[s].dropped = seat[s].dropped
    OBVIOUS
  <2>1. seat'[s] = IF s = moved THEN [seat[s] EXCEPT !.slot = seat[i].slot] ELSE seat[s]
    BY <1>1, <1>2
  <2>2. seat[s] \in Chairs
    BY <1>2
  <2> QED
    BY <2>1, <2>2 DEF Chairs
<1>6. SaidOnce' /\ KeptInOrder'
  BY <1>1, NothingSaid
<1>7. Client(c)'
  <2>1. Within(seen[c], said) /\ Rising(said, seen[c])
    BY DEF Delivery, Client
  <2>2. Within(seen[c], said)' /\ Rising(said, seen[c])'
    BY <1>1, <2>1
  <2> QED
    BY <1>3, <2>2 DEF Client
<1>8. ASSUME NEW d \in Conns, d # c PROVE Client(d)'
  <2>1. ASSUME conn[d].pc # "away"
        PROVE  Mine(d)'.ring = Mine(d).ring /\ Mine(d)'.dropped = Mine(d).dropped
    <3>1. conn[d].ticket.index \in Index /\ Mine(d) = seat[conn[d].ticket.index] /\ Mine(d).waker = d
      BY <2>1, SeatedAt
    <3>2. conn[d].ticket.index # i
      BY <1>4, <1>8, <3>1
    <3> QED
      BY <1>3, <1>5, <1>8, <3>1, <3>2 DEF Mine
  <2>2. Heard(d)' = Heard(d)
    BY <1>1 DEF Heard
  <2>3. Client(d) /\ said' = said /\ seen'[d] = seen[d]
    BY <1>1 DEF Delivery
  <2> QED
    BY <1>3, <1>8, <2>1, <2>2, <2>3, SameClient
<1> QED
  BY <1>6, <1>7, <1>8 DEF Delivery

(* Nothing has been said.                                                  *)
LEMMA DeliveryInit == Init => Delivery
<1> SUFFICES ASSUME Init PROVE Delivery
  OBVIOUS
<1>1. /\ said = <<>> /\ kept = <<>> /\ \A f \in Speakers : talk[f].pc = "quiet"
      /\ \A c \in Conns : seen[c] = <<>> /\ conn[c].pc = "away"
  BY DEF Init, Quiet, Away
<1>2. \A q : ~Has(<<>>, q)
  BY Short
<1>3. SaidOnce
  BY <1>1, <1>2, Short DEF SaidOnce
<1>4. \A u : Rising(u, <<>>) /\ Within(<<>>, u)
  BY <1>2 DEF Rising, Within
<1>5. KeptInOrder
  BY <1>1, <1>2, <1>4 DEF KeptInOrder
<1> QED
  BY <1>1, <1>3, <1>4, <1>5 DEF Delivery, Client

(* Every step of the room keeps Delivery.                                  *)
LEMMA DeliveryNext == Inv /\ Inv' /\ Delivery /\ [Next]_vars => Delivery'
<1> SUFFICES ASSUME Inv, Inv', Delivery, [Next]_vars PROVE Delivery'
  OBVIOUS
<1>1. ASSUME NEW f \in Speakers, Speaks(f) PROVE Delivery'
  BY <1>1, AsideDelivers, LockRosterDelivers, PutNextDelivers, PutRefusedDelivers,
     EndHandOutDelivers DEF Speaks
<1>2. ASSUME NEW c \in Conns, Listens(c) PROVE Delivery'
  BY <1>2, SitDelivers, WriteDelivers, TakeDelivers, TurnsDeliver, GiveUpDelivers DEF Listens
<1>3. CASE UNCHANGED vars
  <2>1. UNCHANGED <<seat, conn, said, kept, talk, roster, made, since, seen>>
    BY <1>3 DEF vars
  <2>2. SaidOnce' /\ KeptInOrder'
    BY <2>1, NothingSaid
  <2>3. ASSUME NEW c \in Conns PROVE Client(c)'
    <3>1. Mine(c)' = Mine(c) /\ Heard(c)' = Heard(c)
      BY <2>1 DEF Mine, Heard
    <3>2. Client(c)
      BY DEF Delivery
    <3> QED
      BY <2>1, <3>1, <3>2, SameClient
  <2> QED
    BY <2>2, <2>3 DEF Delivery
<1> QED
  BY <1>1, <1>2, <1>3 DEF Next

(* In a room of any size every client is written what is meant for it      *)
(* once, in the order it was said, over all its connections, and nothing   *)
(* meant for it is missing that is not counted.                            *)
THEOREM DeliveryExact == Spec => []DeliveryIsExact
<1>1. Inv /\ Delivery => DeliveryIsExact
  <2> SUFFICES ASSUME Inv, Delivery PROVE DeliveryIsExact
    OBVIOUS
  <2>1. ASSUME NEW c \in Conns
        PROVE  Rising(said, seen[c] \o Waiting(c))
    <3>1. seen[c] \in Seq(Posts) /\ Rising(said, seen[c])
      BY SaidIs DEF Delivery, Client
    <3>2. CASE conn[c].pc = "away"
      <4>1. Waiting(c) = <<>>
        BY <3>2 DEF Waiting
      <4>2. seen[c] \o Waiting(c) = seen[c]
        BY <3>1, <4>1, ConcatEmptySeq
      <4> QED
        BY <3>1, <4>2
    <3>3. CASE conn[c].pc # "away"
      <4> DEFINE h == conn[c].hand
                 r == Mine(c).ring
                 w == seen[c]
      <4>1. /\ Rising(said, h) /\ Rising(said, r) /\ Before(said, w, h) /\ Before(said, w, r)
            /\ Before(said, h, r)
        BY <3>3 DEF Delivery, Client, InTurn
      <4>2. h \in Seq(Posts) /\ r \in Seq(Posts)
        BY <3>3, SeatedAt
      <4>3. Waiting(c) = h \o r
        BY <3>3 DEF Waiting
      <4> DEFINE t == h \o r
      <4>4. Rising(said, t) /\ t \in Seq(Posts) /\ \A q : Has(t, q) <=> Has(h, q) \/ Has(r, q)
        <5> HIDE DEF h, r
        <5> QED
          BY <4>1, <4>2, RisingJoined
      <4> HIDE DEF t
      <4>5. Before(said, w, t)
        BY <4>1, <4>4 DEF Before
      <4>6. Rising(said, w \o t)
        BY <3>1, <4>4, <4>5, RisingJoined
      <4> QED
        BY <4>3, <4>6 DEF t
    <3> QED
      BY <3>2, <3>3
  <2>2. ASSUME NEW c \in Conns, conn[c].pc # "away", NEW i \in DOMAIN Mine(c).ring
        PROVE  Where(said, Mine(c).ring[i]) > since[c].sat
    <3>1. Over(said, Mine(c).ring, since[c].sat)
      BY <2>2 DEF Delivery, Client, InTurn
    <3>2. Mine(c).ring[i] \in Posts /\ Has(Mine(c).ring, Mine(c).ring[i])
      BY <2>2, SeatedAt DEF Has
    <3> QED
      BY <3>1, <3>2 DEF Over
  <2>3. OnceAndInOrder
    BY <2>1, <2>2 DEF OnceAndInOrder, Rising
  <2>4. ASSUME NEW c \in Conns, conn[c].pc \in {"writing", "parked"}
        PROVE  Cardinality(MeantFor(c)) =
                 Len(seen[c]) - since[c].wrote + Len(Waiting(c)) + Mine(c).dropped + since[c].refused
    <3>1. /\ said \in Seq(Posts) /\ Len(said) \in Nat /\ since[c] \in Stays /\ Len(seen[c]) \in Nat
      BY SaidIs DEF Delivery
    <3>2. /\ Mine(c).ring \in Seq(Posts) /\ Len(Mine(c).ring) \in Nat /\ Mine(c).dropped \in Nat
          /\ conn[c].hand \in Seq(Posts) /\ Len(conn[c].hand) \in Nat
          /\ Mine(c) = seat[conn[c].ticket.index]
      BY <2>4, SeatedAt
    <3>3. Len(Waiting(c)) = Len(conn[c].hand) + Len(Mine(c).ring)
      BY <2>4, <3>2, ConcatProperties DEF Waiting
    <3>4. MeantFor(c) = Meant(said, Heard(c), since[c])
      <4>1. \A n \in (since[c].from + 1)..Len(said) :
              Reached(n, conn[c].ticket.index) <=> n <= Heard(c)
        <5> TAKE n \in (since[c].from + 1)..Len(said)
        <5>1. n \in Int /\ n <= Len(said)
          BY <3>1 DEF Stays
        <5>2. CASE roster = Nobody \/ Mine(c).slot < talk[roster].at
          BY <3>2, <5>1, <5>2 DEF Reached, Heard
        <5>3. CASE ~(roster = Nobody \/ Mine(c).slot < talk[roster].at)
          <6>1. Heard(c) = Len(said) - 1
            BY <5>3 DEF Heard
          <6>2. Reached(n, conn[c].ticket.index) <=> n < Len(said)
            BY <3>2, <5>3 DEF Reached
          <6> QED
            BY <3>1, <5>1, <6>1, <6>2
        <5> QED
          BY <5>2, <5>3
      <4> QED
        BY <4>1 DEF MeantFor, Meant
    <3>5. Cardinality(Meant(said, Heard(c), since[c])) =
            Len(seen[c]) - since[c].wrote + (Len(conn[c].hand) + Len(Mine(c).ring)) + Lost(c)
      BY <2>4 DEF Delivery, Client, Balanced
    <3> DEFINE a == Len(seen[c])
               b == since[c].wrote
               k == Len(conn[c].hand) + Len(Mine(c).ring)
               x == Mine(c).dropped
               y == since[c].refused
    <3>6. a \in Nat /\ b \in Nat /\ k \in Nat /\ x \in Nat /\ y \in Nat
      <4>1. b \in Nat /\ y \in Nat
        BY <3>1 DEF Stays
      <4>2. \A m, n \in Nat : m + n \in Nat
        OBVIOUS
      <4> QED
        BY <3>1, <3>2, <4>1, <4>2
    <3>7. Cardinality(MeantFor(c)) = a - b + k + (x + y) /\ Len(Waiting(c)) = k
      BY <3>3, <3>4, <3>5 DEF Lost
    <3> HIDE DEF a, b, k, x, y
    <3>8. a - b + k + (x + y) = a - b + k + x + y
      BY <3>6
    <3>9. Cardinality(MeantFor(c)) = a - b + Len(Waiting(c)) + x + y
      BY <3>7, <3>8
    <3> QED
      BY <3>9 DEF a, b, x, y
  <2> QED
    BY <2>3, <2>4 DEF DeliveryIsExact, NothingGoesMissing
<1>2. Spec => []Delivery
  BY DeliveryInit, DeliveryNext, RoomInvariant, PTL DEF Spec
<1> QED
  BY <1>1, <1>2, RoomInvariant, PTL
=============================================================================
