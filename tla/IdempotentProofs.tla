-------------------------- MODULE IdempotentProofs --------------------------
(***************************************************************************)
(* Proofs about Idempotent, for any requests, bodies and lifetimes.        *)
(*                                                                         *)
(* OneRunBetweenThem is not inductive alone: a tick keeps it only because  *)
(* a working request knows when its marker runs out (its `until` is the    *)
(* row's), and a take-over keeps it only because the clock it compares     *)
(* with is not ahead of the present.                                       *)
(***************************************************************************)
EXTENDS Idempotent, TLAPS

(* As long as nobody got out of step, the one at work holds the row.       *)
MarkerHeld ==
    slips = {} =>
        \A r \in Working : /\ row.kind = "in_flight" /\ row.by = r
                           /\ row.until = until[r] /\ until[r] > now

AskedBefore == \A r \in Requests : asked[r] <= now

(* What is in the row was written by the request it names.                 *)
RowIsSigned ==
    /\ row.kind # "free" => row.print = Body[row.by]
    /\ row.kind = "answer" => placed[row.by]

PlacedAtTheEnd ==
    \A r \in Requests : placed[r] => pc[r] \in {"sending", "done"}

RepliedAtTheEnd ==
    \A r \in Requests : heard[r] # "nothing" => pc[r] = "done"

Inv ==
    /\ TypeOK
    /\ AskedBefore
    /\ MarkerHeld
    /\ RowIsSigned
    /\ PlacedAtTheEnd
    /\ RepliedAtTheEnd
    /\ NoMarkerLeftBehind
    /\ ReplayIsOfTheSameRequest

(* What the statements write is a row.                                     *)
LEMMA WrittenRows ==
    ASSUME NEW r \in Requests, NEW t \in Nat, now \in Nat
    PROVE  /\ Free \in Records
           /\ Marker(r, t) \in Records
           /\ Answer(r) \in Records
BY IdempotentAssumption DEF Free, Marker, Answer, Records, Fingerprints

(* A row has an owner and a time, or is free.                              *)
LEMMA RowParts ==
    ASSUME TypeOK
    PROVE  /\ now \in Nat
           /\ row.kind \in {"free", "in_flight", "answer"}
           /\ row.until \in Nat
           /\ row.kind # "free" => row.by \in Requests
BY IdempotentAssumption DEF TypeOK, Records, Free

(* The types of what a reply sets, and of what a release sets.             *)
LEMMA ReplyTyped ==
    ASSUME TypeOK, NEW r \in Requests, NEW x \in Replies, Reply(r, x)
    PROVE  /\ pc' \in [Requests -> {"new", "claiming", "taken", "lost", "arguments", "handler", "sending", "done"}]
           /\ heard' \in [Requests -> Replies]
           /\ asked' \in [Requests -> 0..MaxNow]
           /\ until' \in [Requests -> Nat]
<1>1. 0 \in 0..MaxNow /\ 0 \in Nat
  BY IdempotentAssumption
<1>2. asked' \in [Requests -> 0..MaxNow] /\ until' \in [Requests -> Nat]
  BY <1>1 DEF TypeOK, Reply
<1>3. heard' \in [Requests -> Replies]
  BY Zenon DEF TypeOK, Reply
<1>4. pc' \in [Requests -> {"new", "claiming", "taken", "lost", "arguments", "handler", "sending", "done"}]
  BY DEF TypeOK, Reply, Goto
<1> QED
  BY <1>2, <1>3, <1>4

LEMMA ReleaseTyped ==
    ASSUME TypeOK, NEW r \in Requests, Release(r)
    PROVE  row' \in Records /\ cut' \in SUBSET Requests
<1>1. Free \in Records
  BY DEF Records
<1> QED
  BY <1>1 DEF TypeOK, Release

LEMMA InitInv == Init => Inv
<1> SUFFICES ASSUME Init PROVE Inv
  OBVIOUS
<1> USE IdempotentAssumption
<1>1. Free.kind = "free" /\ Free \in Records
  BY DEF Free, Records
<1>2. TypeOK
  <2>1. 0 \in 0..MaxNow /\ 0 \in Nat /\ "nothing" \in Replies
    BY DEF Replies
  <2>2. heard \in [Requests -> Replies]
    BY <2>1, Zenon DEF Init
  <2> QED
    BY <1>1, <2>1, <2>2 DEF Init, TypeOK
<1>3. AskedBefore /\ MarkerHeld /\ RowIsSigned /\ PlacedAtTheEnd
  BY <1>1 DEF Init, AskedBefore, MarkerHeld, RowIsSigned, PlacedAtTheEnd, Working
<1>4. RepliedAtTheEnd /\ NoMarkerLeftBehind /\ ReplayIsOfTheSameRequest
  BY <1>1 DEF Init, RepliedAtTheEnd, NoMarkerLeftBehind, ReplayIsOfTheSameRequest
<1> QED
  BY <1>2, <1>3, <1>4 DEF Inv

LEMMA TypeStep == TypeOK /\ [Next]_vars => TypeOK'
<1> SUFFICES ASSUME TypeOK, [Next]_vars PROVE TypeOK'
  OBVIOUS
<1> USE IdempotentAssumption
<1>a. now \in Nat /\ \A r \in Requests : asked[r] \in Nat
  BY DEF TypeOK
<1>b. /\ Free \in Records
      /\ \A r \in Requests : Marker(r, now) \in Records /\ Marker(r, asked[r]) \in Records
      /\ \A r \in Requests : Answer(r) \in Records
  BY <1>a, WrittenRows DEF Free, Records
<1>c. \A r \in Requests : Marker(r, now).until \in Nat /\ Marker(r, asked[r]).until \in Nat
  BY <1>a DEF Marker
<1>0. ASSUME NEW r \in Requests, Ask(r) PROVE TypeOK'
  BY <1>0 DEF TypeOK, Ask, Goto
<1>1. ASSUME NEW r \in Requests, Insert(r) PROVE TypeOK'
  <2>1. row' \in Records
    BY <1>1, <1>b DEF TypeOK, Insert, Wins
  <2>2. until' \in [Requests -> Nat]
    BY <1>1, <1>c DEF TypeOK, Insert, Wins
  <2>3. slips' \in SUBSET Slips
    BY <1>1 DEF TypeOK, Insert, Wins, Slips
  <2>4. pc' \in [Requests -> {"new", "claiming", "taken", "lost", "arguments", "handler", "sending", "done"}]
    BY <1>1 DEF TypeOK, Insert, Wins, Goto
  <2> QED
    BY <1>1, <2>1, <2>2, <2>3, <2>4 DEF TypeOK, Insert
<1>2. ASSUME NEW r \in Requests, TakeOver(r) PROVE TypeOK'
  <2>1. row' \in Records
    BY <1>2, <1>b DEF TypeOK, TakeOver, Wins
  <2>2. until' \in [Requests -> Nat]
    BY <1>2, <1>c DEF TypeOK, TakeOver, Wins
  <2>3. slips' \in SUBSET Slips
    BY <1>2 DEF TypeOK, TakeOver, Wins, Slips
  <2>4. pc' \in [Requests -> {"new", "claiming", "taken", "lost", "arguments", "handler", "sending", "done"}]
    BY <1>2 DEF TypeOK, TakeOver, Wins, Goto
  <2> QED
    BY <1>2, <2>1, <2>2, <2>3, <2>4 DEF TypeOK, TakeOver
<1>r. \A x \in {"503", "409", "422", "failure", "answer", "replay", "cut off"} : x \in Replies
  BY DEF Replies
<1>3. ASSUME NEW r \in Requests, ClaimFails(r) PROVE TypeOK'
  <2>1. row' \in Records
    BY <1>3, <1>b DEF TypeOK, ClaimFails
  <2>2. cut' \in SUBSET Requests
    BY <1>3 DEF TypeOK, ClaimFails
  <2> QED
    BY <1>3, <1>r, <2>1, <2>2, ReplyTyped DEF TypeOK, ClaimFails
<1>4. ASSUME NEW r \in Requests, Read(r) PROVE TypeOK'
  <2>1. CASE ~Live
    BY <1>4, <2>1 DEF TypeOK, Read, Goto, Slips
  <2>2. CASE Live
    <3>1. row.by \in Requests
      BY <2>2, RowParts DEF Live
    <3>2. PICK x \in {"422", "409", "replay"} : Reply(r, x)
      BY <1>4, <2>2 DEF Read
    <3>3. source' \in [Requests -> Requests \cup {Nobody}]
      BY <1>4, <2>2, <3>1 DEF TypeOK, Read
    <3>4. UNCHANGED <<now, row, placed, cut, slips>>
      BY <1>4, <2>2 DEF Read
    <3> QED
      BY <1>r, <3>2, <3>3, <3>4, ReplyTyped DEF TypeOK
  <2> QED
    BY <2>1, <2>2
<1>5. ASSUME NEW r \in Requests, ReadFails(r) PROVE TypeOK'
  BY <1>5, <1>r, ReplyTyped DEF TypeOK, ReadFails
<1>6. ASSUME NEW r \in Requests, Call(r) PROVE TypeOK'
  BY <1>6 DEF TypeOK, Call, Goto
<1>7. ASSUME NEW r \in Requests, Fail(r) PROVE TypeOK'
  BY <1>7, <1>r, ReplyTyped, ReleaseTyped DEF TypeOK, Fail
<1>8. ASSUME NEW r \in Requests, TooManyHeaders(r) PROVE TypeOK'
  BY <1>8, ReleaseTyped DEF TypeOK, TooManyHeaders, Goto
<1>9. ASSUME NEW r \in Requests, Keep(r) PROVE TypeOK'
  BY <1>9, <1>b DEF TypeOK, Keep, Goto
<1>10. ASSUME NEW r \in Requests, TooLarge(r) PROVE TypeOK'
  BY <1>10, ReleaseTyped DEF TypeOK, TooLarge, Goto
<1>11. ASSUME NEW r \in Requests, Send(r) PROVE TypeOK'
  BY <1>11, <1>r, ReplyTyped DEF TypeOK, Send
<1>12. ASSUME NEW r \in Requests, SendFails(r) PROVE TypeOK'
  <2>1. row' \in Records /\ cut' \in SUBSET Requests /\ slips' \in SUBSET Slips
    BY <1>12, ReleaseTyped DEF TypeOK, SendFails, Slips
  <2> QED
    BY <1>12, <1>r, <2>1, ReplyTyped DEF TypeOK, SendFails
<1>13. ASSUME NEW r \in Requests, Die(r) PROVE TypeOK'
  BY <1>13, <1>r, ReplyTyped DEF TypeOK, Die
<1>14. ASSUME Sweep PROVE TypeOK'
  BY <1>14, <1>b DEF TypeOK, Sweep
<1>15. ASSUME Tick PROVE TypeOK'
  BY <1>15 DEF TypeOK, Tick, Slips
<1>16. ASSUME UNCHANGED vars PROVE TypeOK'
  BY <1>16 DEF TypeOK, vars
<1> QED
  BY <1>0, <1>1, <1>2, <1>3, <1>4, <1>5, <1>6, <1>7, <1>8, <1>9, <1>10, <1>11, <1>12, <1>13,
     <1>14, <1>15, <1>16 DEF Next, Step

(* A request that acts on the row: what it does to those at work.          *)
LEMMA HeldStep ==
    ASSUME TypeOK, AskedBefore, MarkerHeld, [Next]_vars
    PROVE  MarkerHeld' /\ AskedBefore'
<1> USE IdempotentAssumption
<1>a. /\ now \in Nat /\ row.until \in Nat
      /\ \A r \in Requests : asked[r] \in Nat /\ until[r] \in Nat
  BY RowParts DEF TypeOK
<1>b. Free.kind = "free"
  BY DEF Free
<1>c. \A r \in Requests : \A t \in Nat :
         /\ Marker(r, t).kind = "in_flight" /\ Marker(r, t).by = r
         /\ Marker(r, t).until = t + MarkerTtl /\ t + MarkerTtl > t
  BY DEF Marker
<1>0. ASSUME NEW r \in Requests, Ask(r) PROVE MarkerHeld' /\ AskedBefore'
  BY <1>0, <1>a DEF Ask, Goto, MarkerHeld, AskedBefore, Working, TypeOK
<1>w. ASSUME NEW r \in Requests, Wins(r), now' = now, slips = {} => Working = {}
      PROVE  MarkerHeld'
  <2>1. /\ row' = Marker(r, asked[r]) /\ until'[r] = asked[r] + MarkerTtl
        /\ Working' = Working \cup {r}
    BY <1>w, <1>a, <1>c DEF Wins, Goto, Working, TypeOK
  <2>2. slips' = {} => slips = {} /\ asked[r] + MarkerTtl > now
    <3>1. slips' = slips \cup IF row'.until <= now THEN {"late"} ELSE {}
      BY <1>w DEF Wins
    <3>2. row'.until = asked[r] + MarkerTtl
      BY <1>a, <1>c, <2>1
    <3>3. asked[r] + MarkerTtl \in Nat
      BY <1>a, IdempotentAssumption
    <3> QED
      BY <1>a, <3>1, <3>2, <3>3
  <2> QED
    BY <1>w, <1>a, <1>c, <2>1, <2>2 DEF MarkerHeld
<1>1. ASSUME NEW r \in Requests, Insert(r) PROVE MarkerHeld' /\ AskedBefore'
  <2>1. AskedBefore' /\ now' = now
    BY <1>1 DEF Insert, AskedBefore
  <2>2. CASE row.kind = "free" /\ Wins(r)
    <3>1. slips = {} => Working = {}
      BY <2>2 DEF MarkerHeld
    <3> QED
      BY <1>w, <2>1, <2>2, <3>1
  <2>3. CASE row.kind # "free" /\ UNCHANGED <<row, until, slips>> /\ Goto(r, "taken")
    BY <1>1, <1>a, <2>1, <2>3 DEF Insert, Goto, MarkerHeld, Working, TypeOK
  <2> QED
    BY <1>1, <2>2, <2>3 DEF Insert
<1>2. ASSUME NEW r \in Requests, TakeOver(r) PROVE MarkerHeld' /\ AskedBefore'
  <2>1. AskedBefore' /\ now' = now
    BY <1>2 DEF TakeOver, AskedBefore
  <2>2. CASE row.kind # "free" /\ row.until <= asked[r]
    <3>1. slips = {} => Working = {}
      BY <1>a, <2>2 DEF MarkerHeld, AskedBefore, Working
    <3>2. Wins(r)
      BY <1>2, <1>a, <2>2 DEF TakeOver
    <3> QED
      BY <1>w, <2>1, <3>1, <3>2
  <2>3. CASE row.kind = "free" \/ row.until > asked[r]
    BY <1>2, <1>a, <2>1, <2>3 DEF TakeOver, Goto, MarkerHeld, Working, TypeOK
  <2> QED
    BY <1>a, <2>2, <2>3
<1>3. ASSUME NEW r \in Requests, ClaimFails(r) PROVE MarkerHeld' /\ AskedBefore'
  BY <1>3, <1>a DEF ClaimFails, Reply, Goto, MarkerHeld, AskedBefore, Working, TypeOK
<1>4. ASSUME NEW r \in Requests, Read(r) PROVE MarkerHeld' /\ AskedBefore'
  BY <1>4, <1>a DEF Read, Reply, Goto, MarkerHeld, AskedBefore, Working, TypeOK
<1>5. ASSUME NEW r \in Requests, ReadFails(r) PROVE MarkerHeld' /\ AskedBefore'
  BY <1>5, <1>a DEF ReadFails, Reply, Goto, MarkerHeld, AskedBefore, Working, TypeOK
<1>6. ASSUME NEW r \in Requests, Call(r) PROVE MarkerHeld' /\ AskedBefore'
  BY <1>6 DEF Call, Goto, MarkerHeld, AskedBefore, Working, TypeOK
<1>7. ASSUME NEW r \in Requests, Fail(r) PROVE MarkerHeld' /\ AskedBefore'
  BY <1>7, <1>a DEF Fail, Reply, Goto, MarkerHeld, AskedBefore, Working, TypeOK
<1>8. ASSUME NEW r \in Requests, TooManyHeaders(r) PROVE MarkerHeld' /\ AskedBefore'
  BY <1>8 DEF TooManyHeaders, Goto, MarkerHeld, AskedBefore, Working, TypeOK
<1>9. ASSUME NEW r \in Requests, Keep(r) PROVE MarkerHeld' /\ AskedBefore'
  BY <1>9 DEF Keep, Goto, MarkerHeld, AskedBefore, Working, TypeOK
<1>10. ASSUME NEW r \in Requests, TooLarge(r) PROVE MarkerHeld' /\ AskedBefore'
  BY <1>10 DEF TooLarge, Goto, MarkerHeld, AskedBefore, Working, TypeOK
<1>11. ASSUME NEW r \in Requests, Send(r) PROVE MarkerHeld' /\ AskedBefore'
  BY <1>11, <1>a DEF Send, Reply, Goto, MarkerHeld, AskedBefore, Working, TypeOK
<1>12. ASSUME NEW r \in Requests, SendFails(r) PROVE MarkerHeld' /\ AskedBefore'
  <2>1. AskedBefore'
    <3>1. now' = now /\ asked' = [asked EXCEPT ![r] = 0]
      BY <1>12 DEF SendFails, Reply
    <3> QED
      BY <1>a, <3>1 DEF AskedBefore, TypeOK
  <2>2. CASE placed[r]
    <3>1. MarkerHeld'
      BY <1>12, <2>2 DEF SendFails, Reply, Goto, MarkerHeld, Working, TypeOK
    <3> QED
      BY <2>1, <3>1
  <2>3. CASE ~placed[r]
    <3>1. slips' # {}
      BY <1>12, <2>3 DEF SendFails
    <3> QED
      BY <2>1, <3>1 DEF MarkerHeld
  <2> QED
    BY <2>2, <2>3
<1>13. ASSUME NEW r \in Requests, Die(r) PROVE MarkerHeld' /\ AskedBefore'
  <2>1. AskedBefore'
    <3>1. now' = now /\ asked' = [asked EXCEPT ![r] = 0]
      BY <1>13 DEF Die, Reply
    <3> QED
      BY <1>a, <3>1 DEF AskedBefore, TypeOK
  <2>2. Working' = Working \ {r} /\ \A q \in Working' : until'[q] = until[q]
    BY <1>13 DEF Die, Reply, Goto, Working, TypeOK
  <2> QED
    BY <1>13, <2>1, <2>2 DEF Die, MarkerHeld
<1>14. ASSUME Sweep PROVE MarkerHeld' /\ AskedBefore'
  BY <1>14, <1>a DEF Sweep, MarkerHeld, AskedBefore, Working
<1>15. ASSUME Tick PROVE MarkerHeld' /\ AskedBefore'
  BY <1>15, <1>a DEF Tick, MarkerHeld, AskedBefore, Working
<1>16. ASSUME UNCHANGED vars PROVE MarkerHeld' /\ AskedBefore'
  BY <1>16 DEF MarkerHeld, AskedBefore, Working, vars
<1> QED
  BY <1>0, <1>1, <1>2, <1>3, <1>4, <1>5, <1>6, <1>7, <1>8, <1>9, <1>10, <1>11, <1>12, <1>13,
     <1>14, <1>15, <1>16 DEF Next, Step

(* Marks and answers are signed, and no marker is left without its owner.  *)
LEMMA SignedStep ==
    ASSUME Inv, [Next]_vars
    PROVE  RowIsSigned' /\ PlacedAtTheEnd' /\ RepliedAtTheEnd' /\ NoMarkerLeftBehind'
<1> DEFINE Goal == RowIsSigned' /\ PlacedAtTheEnd' /\ RepliedAtTheEnd' /\ NoMarkerLeftBehind'
<1> USE IdempotentAssumption DEF Inv
<1>a. /\ row.kind \in {"free", "in_flight", "answer"}
      /\ row.kind # "free" => row.by \in Requests
  BY RowParts
<1>b. Free.kind = "free"
  BY DEF Free
<1>c. \A r \in Requests : \A t :
         /\ Marker(r, t).kind = "in_flight" /\ Marker(r, t).by = r
         /\ Marker(r, t).print = Body[r]
  BY DEF Marker
<1>d. \A r \in Requests :
         Answer(r).kind = "answer" /\ Answer(r).by = r /\ Answer(r).print = Body[r]
  BY DEF Answer
<1> USE DEF RowIsSigned, PlacedAtTheEnd, RepliedAtTheEnd, NoMarkerLeftBehind
<1>0. ASSUME NEW r \in Requests, Ask(r) PROVE Goal
  BY <1>0, <1>a DEF Ask, Goto, Working, TypeOK
<1>1. ASSUME NEW r \in Requests, Insert(r) PROVE Goal
  BY <1>1, <1>a, <1>c DEF Insert, Wins, Goto, Working, TypeOK
<1>2. ASSUME NEW r \in Requests, TakeOver(r) PROVE Goal
  BY <1>2, <1>a, <1>c DEF TakeOver, Wins, Goto, Working, TypeOK
<1>3. ASSUME NEW r \in Requests, ClaimFails(r) PROVE Goal
  BY <1>3, <1>a, <1>c DEF ClaimFails, Reply, Goto, Working, TypeOK
<1>4. ASSUME NEW r \in Requests, Read(r) PROVE Goal
  BY <1>4, <1>a DEF Read, Reply, Goto, Working, TypeOK
<1>5. ASSUME NEW r \in Requests, ReadFails(r) PROVE Goal
  BY <1>5, <1>a DEF ReadFails, Reply, Goto, Working, TypeOK
<1>6. ASSUME NEW r \in Requests, Call(r) PROVE Goal
  BY <1>6, <1>a DEF Call, Goto, Working, TypeOK
<1>7. ASSUME NEW r \in Requests, Fail(r) PROVE Goal
  BY <1>7, <1>a, <1>b DEF Fail, Release, Reply, Goto, Working, TypeOK
<1>8. ASSUME NEW r \in Requests, TooManyHeaders(r) PROVE Goal
  BY <1>8, <1>a, <1>b DEF TooManyHeaders, Release, Goto, Working, TypeOK
<1>9. ASSUME NEW r \in Requests, Keep(r) PROVE Goal
  BY <1>9, <1>a, <1>d DEF Keep, Goto, Working, TypeOK
<1>10. ASSUME NEW r \in Requests, TooLarge(r) PROVE Goal
  BY <1>10, <1>a, <1>b DEF TooLarge, Release, Goto, Working, TypeOK
<1>11. ASSUME NEW r \in Requests, Send(r) PROVE Goal
  BY <1>11, <1>a DEF Send, Reply, Goto, Working, TypeOK
<1>12. ASSUME NEW r \in Requests, SendFails(r) PROVE Goal
  BY <1>12, <1>a, <1>b DEF SendFails, Release, Reply, Goto, Working, TypeOK
<1>13. ASSUME NEW r \in Requests, Die(r) PROVE Goal
  BY <1>13, <1>a DEF Die, Reply, Goto, Working, TypeOK
<1>14. ASSUME Sweep PROVE Goal
  BY <1>14, <1>b DEF Sweep
<1>15. ASSUME Tick PROVE Goal
  BY <1>15 DEF Tick, Working
<1>16. ASSUME UNCHANGED vars PROVE Goal
  BY <1>16 DEF vars, Working
<1> QED
  BY <1>0, <1>1, <1>2, <1>3, <1>4, <1>5, <1>6, <1>7, <1>8, <1>9, <1>10, <1>11, <1>12, <1>13,
     <1>14, <1>15, <1>16 DEF Next, Step

(* A replay is signed by another request than the one it answers.          *)
LEMMA ReplayStep ==
    ASSUME Inv, [Next]_vars
    PROVE  ReplayIsOfTheSameRequest'
<1> USE IdempotentAssumption DEF Inv
<1>a. row.kind # "free" => row.by \in Requests
  BY RowParts
<1>b. \A q \in Requests : placed[q] => placed'[q]
  BY DEF Next, Step, vars, Ask, Wins, Insert, TakeOver, ClaimFails, Read, ReadFails, Call, Fail,
     TooManyHeaders, Keep, TooLarge, Send, SendFails, Die, Sweep, Tick, TypeOK
<1>c. ASSUME NEW r \in Requests, heard'[r] = "replay", heard[r] # "replay"
      PROVE  /\ row.kind = "answer" /\ row.print = Body[r] /\ pc[r] = "lost"
             /\ source'[r] = row.by
  <2>1. ASSUME NEW q \in Requests, NEW x, Reply(q, x), x # "replay" PROVE FALSE
    BY <1>c, <2>1 DEF Reply, TypeOK
  <2>2. heard' # heard
    BY <1>c
  <2>3. PICK q \in Requests : Read(q)
    BY <2>1, <2>2 DEF Next, Step, vars, Ask, Wins, Insert, TakeOver, ClaimFails, ReadFails, Call, Fail,
       TooManyHeaders, Keep, TooLarge, Send, SendFails, Die, Sweep, Tick
  <2>4. /\ row.kind = "answer" /\ row.print = Body[q] /\ pc[q] = "lost"
        /\ heard' = [heard EXCEPT ![q] = "replay"]
        /\ source' = [source EXCEPT ![q] = row.by]
    BY <2>1, <2>2, <2>3 DEF Read, Reply
  <2>5. q = r
    BY <1>c, <2>4 DEF TypeOK
  <2> QED
    BY <2>4, <2>5 DEF TypeOK
<1>d. ASSUME NEW r \in Requests, heard[r] = "replay", heard'[r] = "replay"
      PROVE  source'[r] = source[r]
  <2>1. CASE UNCHANGED source
    BY <2>1
  <2>2. CASE ~UNCHANGED source
    <3>1. PICK q \in Requests : Read(q)
      BY <2>2 DEF Next, Step, vars, Ask, Wins, Insert, TakeOver, ClaimFails, ReadFails, Call, Fail,
         TooManyHeaders, Keep, TooLarge, Send, SendFails, Die, Sweep, Tick
    <3>2. pc[q] = "lost" /\ source' = [source EXCEPT ![q] = row.by]
      BY <2>2, <3>1 DEF Read
    <3>3. q # r
      BY <1>d, <3>2 DEF RepliedAtTheEnd
    <3> QED
      BY <3>2, <3>3 DEF TypeOK
  <2> QED
    BY <2>1, <2>2
<1> SUFFICES ASSUME NEW r \in Requests, heard'[r] = "replay"
             PROVE  /\ source'[r] \in Requests \ {r}
                    /\ Body[source'[r]] = Body[r]
                    /\ placed'[source'[r]]
  BY DEF ReplayIsOfTheSameRequest
<1>1. CASE heard[r] = "replay"
  BY <1>1, <1>b, <1>d DEF ReplayIsOfTheSameRequest
<1>2. CASE heard[r] # "replay"
  <2>1. /\ row.kind = "answer" /\ row.print = Body[r] /\ pc[r] = "lost"
        /\ source'[r] = row.by
    BY <1>2, <1>c
  <2>2. row.by \in Requests /\ row.print = Body[row.by] /\ placed[row.by]
    BY <1>a, <2>1 DEF RowIsSigned
  <2>3. row.by # r
    BY <2>1, <2>2 DEF PlacedAtTheEnd
  <2> QED
    BY <1>b, <2>1, <2>2, <2>3
<1> QED
  BY <1>1, <1>2

(* In every reachable state the invariant holds.                           *)
THEOREM IdempotentInvariant == Spec => []Inv
<1>1. Inv /\ [Next]_vars => Inv'
  BY TypeStep, HeldStep, SignedStep, ReplayStep DEF Inv
<1> QED
  BY InitInv, <1>1, PTL DEF Spec

(* Requests that race for one key get one run between them, as long as     *)
(* none of them works unclaimed or past its marker, or frees it twice:     *)
(* idempotentBegin and putIfAbsentFor.                                     *)
THEOREM OneRun == Spec => []OneRunBetweenThem
<1>1. Inv => OneRunBetweenThem
  BY DEF Inv, MarkerHeld, OneRunBetweenThem, Live
<1> QED
  BY IdempotentInvariant, <1>1, PTL

(* A replay is the answer to the same request, through every race, failure *)
(* and death: idempotentBegin's check of the fingerprint.                  *)
THEOREM ReplaysAreTrue == Spec => []ReplayIsOfTheSameRequest
<1>1. Inv => ReplayIsOfTheSameRequest
  BY DEF Inv
<1> QED
  BY IdempotentInvariant, <1>1, PTL

(* Only a request that died or lost the store leaves its marker behind:    *)
(* the errdefers of wrap and idempotentFinish.                             *)
THEOREM MarkersAreTakenAway == Spec => []NoMarkerLeftBehind
<1>1. Inv => NoMarkerLeftBehind
  BY DEF Inv
<1> QED
  BY IdempotentInvariant, <1>1, PTL

(* A kept answer is neither freed nor replaced before it runs out, as long *)
(* as nobody got out of step: idempotentFinish and its `placed`.           *)
THEOREM AnswersAreKept == Spec => KeptUntilItExpires
<1>1. ASSUME Inv, [Next]_vars, slips' = {}, row.kind = "answer", Live PROVE row' = row
  <2> USE IdempotentAssumption DEF Inv
  <2>1. slips = {}
    BY <1>1 DEF Next, Step, vars, Ask, Wins, Insert, TakeOver, ClaimFails, Read, ReadFails, Call, Fail,
       TooManyHeaders, Keep, TooLarge, Send, SendFails, Die, Sweep, Tick
  <2>2. Working = {}
    BY <1>1, <2>1 DEF MarkerHeld
  <2>3. \A r \in Requests : row.until > asked[r]
    BY <1>1, RowParts DEF Live, AskedBefore, TypeOK
  <2>4. ASSUME NEW r \in Requests, Step(r) PROVE row' = row
    <3>1. \A q \in Requests : pc[q] # "handler"
      BY <2>2 DEF Working
    <3>2. ~(row.until <= asked[r])
      <4>1. row.until \in Nat /\ asked[r] \in Nat
        BY <1>1, RowParts DEF TypeOK
      <4> QED
        BY <2>3, <4>1
    <3> QED
      BY <1>1, <2>2, <2>4, <3>1, <3>2 DEF Step, Ask, Wins, Insert, TakeOver, ClaimFails, Read, ReadFails, Call,
         Fail, TooManyHeaders, Keep, TooLarge, Send, SendFails, Die
  <2>5. ~Sweep
    BY <1>1, RowParts DEF Sweep, Live
  <2> QED
    BY <1>1, <2>4, <2>5 DEF Next, Tick, vars
<1>2. Inv /\ [Next]_vars => [slips' = {} /\ row.kind = "answer" /\ Live => row' = row]_vars
  BY <1>1
<1> QED
  BY IdempotentInvariant, <1>2, PTL DEF Spec, KeptUntilItExpires
=============================================================================
