--------------------------- MODULE DriversProofs ---------------------------
(***************************************************************************)
(* Proofs about Drivers, for any candidates, processes and runs: the six   *)
(* scripts, and the dev loop with its check.                               *)
(*                                                                         *)
(* The scripts share one invariant. Where nothing may be alive nothing is  *)
(* (Tidy), unless a fork left a process nobody has the number of or a      *)
(* signal cut a finally clause short; so whoever answers is the script's   *)
(* own (Owned). A run copies the rows it was not asked for and its file is *)
(* torn only between the two halves of a save (Spared). A row is either as *)
(* it was or of this run (Remade), and the candidates the loop has behind  *)
(* it have a row or are known to be missing (Accounted).                   *)
(*                                                                         *)
(* The dev loop serves the binary it has hashed (ServedIsHashed), except   *)
(* for one written while the server before it drained.  The check has the  *)
(* files back as they were by the time it stops the loop (FilesPutBack).   *)
(*                                                                         *)
(* The check's verdict (VerdictInv) rests on what its waits, when they are *)
(* long enough, say of the loop: it is at rest with every line read        *)
(* (QuietTimes), so that a line after the next save is of a binary built   *)
(* after it (ProbeServed), nothing is started while the line outside       *)
(* stands (NotMoved), and a first server that was old shows as a restart,  *)
(* or as a restart that is missing (OldBinary, FirstServer).  With no      *)
(* trouble the loop serves each version that is saved (NoTrouble).         *)
(*                                                                         *)
(* What holds of the operators alone, the drivers' staircases and the      *)
(* table's cells, comes last: a staircase by its steps, a cell by the rank *)
(* of its middle pass.                                                     *)
(***************************************************************************)
EXTENDS Drivers, SequenceTheorems, WellFoundedInduction, FiniteSetTheorems,
        TLAPS

(* The rows of the scripts' files of results.                              *)
Rows == [run : Nat, by : {"nobody", "own", "other", "lost"}, err : Nat]

(* Places of a script with a candidate in hand.                            *)
InHand == {"start", "wait", "verify", "bench", "term1", "kill1", "start2",
           "wait2", "memory", "open", "dump", "spin", "term", "kill",
           "sigterm", "patience", "hold", "after", "warm", "burst", "rounds"}

(* Places of a script between two candidates.                              *)
Between == {"idle", "next", "lastopen", "lastdump"}

(* What the scripts' variables hold.                                       *)
TypeOK ==
    /\ script \in Scripts
    /\ pc \in InHand \cup Between
    /\ n \in Nat
    /\ only \subseteq Cands
    /\ pos \in 0..Len(Order)
    /\ going \in BOOLEAN
    /\ results \in [Cands -> Rows]
    /\ kept \in [Cands -> Rows]
    /\ file \in [Cands -> Rows] \cup {Torn}
    /\ got \in {"nobody", "own", "other", "lost"}
    /\ missed \subseteq Cands
    /\ pc # "idle" => n > 0
    /\ pc \in InHand => pos > 0 /\ Order[pos] \in only

(* No process was lost at its start, and no finally clause cut short.      *)
Harmless == harm \cap {"fork", "cut"} = {}

(* Where nothing the script started is alive.                              *)
Still == {"idle", "next", "start", "start2", "lastopen", "lastdump"}

(* No server is alive where none may be.                                   *)
Tidy == Harmless => /\ strays = {}
                    /\ pc \in Still => \A i \in DOMAIN mine : mine[i] = "dead"

(* A row's numbers are of processes the script started.                    *)
OwnRow(row) == row.run # 0 => \/ row.by = "own"
                              \/ script = "s3" /\ row.by = "nobody"

(* Who may have answered by the time a row is made of it.                  *)
TakenBy ==
    /\ pc \in {"term1", "kill1", "start2", "wait2", "memory"} =>
           /\ script = "http" => got = "own"
           /\ script = "s3" => got \in {"own", "nobody"}
    /\ script = "ws" => got \in {"own", "nobody"}
    /\ script = "shutdown" /\ pc \in {"sigterm", "patience"} => got = "own"
    /\ script = "burst" /\ pc = "rounds" => got \in {"own", "lost"}

(* Every row, in memory and in the file, is of processes of the script's own.*)
Owned == Harmless => /\ TakenBy
                     /\ \A c \in Cands : /\ OwnRow(results[c])
                                         /\ file # Torn => OwnRow(file[c])

(* The rows of the candidates the run was not asked for are as they were.  *)
Spared ==
    harm \cap {"torn", "short"} = {} =>
        /\ file = Torn => pc \in {"dump", "lastdump"}
        /\ n > 0 => \A c \in Cands \ only :
               /\ file # Torn => file[c] = kept[c]
               /\ script \in Measures => results[c] = kept[c]

(* The rows are of this run, or as they were.                              *)
SaysNow(c) == n \in {results[c].run, results[c].err}

(* A row is as it was, or of this run.                                     *)
Remade == n > 0 => \A c \in Cands : results[c] \in {kept[c], NoRow} \/ SaysNow(c)

(* The places of Order that are done with have their word.                 *)
Done(c) == SaysNow(c) \/ (script \in {"http", "ws"} /\ c \in missed)

(* The row of a scenario is noted once its server is stopped.              *)
Owing == script = "ws" /\ pc \in {"term", "kill"} /\ got # NoneTaken

(* The loop has this place of Order behind it.                             *)
Behind(i) == \/ i < pos
             \/ i = pos /\ pc \in {"open", "dump", "term", "kill", "next"} /\ ~Owing
             \/ pc \in {"lastopen", "lastdump"}

(* There is a word for each candidate the loop has behind it.              *)
Accounted ==
    going /\ n > 0 =>
        /\ pc # "idle" => \A i \in 1..Len(Order) :
               Behind(i) /\ Order[i] \in only => Done(Order[i])
        /\ pc = "idle" => /\ \A c \in only : Done(c)
                          /\ script \in Measures => file = results

(* The scripts' inductive invariant.                                       *)
Inv == TypeOK /\ Tidy /\ Owned /\ Spared /\ Remade /\ Accounted
-----------------------------------------------------------------------------
(* The versions of the source and of the binary.                           *)
Versions == {Original, Stale, Probed, NoVersion}

(* What nilo-dev and its check hold.                                       *)
LoopTypeOK ==
    /\ source \in Versions \ {NoVersion}
    /\ exe \in [v : Versions, t : Nat]
    /\ nd \in [at : {"off", "boot", "watch", "poll", "hash", "drain", "start",
                     "done"},
               stopping : BOOLEAN, server : BOOLEAN, serving : Nat,
               digest : Versions, pending : Nat, seen : Nat,
               hash : Versions, once : BOOLEAN]
    /\ running \in Versions
    /\ swapped \in BOOLEAN

(* What the check holds.                                                   *)
CheckTypeOK ==
    /\ ck \in [step : {"off", "popen", "first", "settling", "back", "restoring",
                       "quieting", "settled", "watching", "inside",
                       "restarting", "undoing", "landing", "finally", "stop",
                       "reap", "gone"},
               outside : BOOLEAN, read : Nat, mark : Nat, failures : BOOLEAN,
               verdict : {"none", "ok", "fail", "exit"}, hasty : BOOLEAN,
               moved : BOOLEAN, tried : BOOLEAN,
               hurt : {"no", "fork", "cut", "stopped", "killed"}]

(* Where there is a server, and where the loop has seen a stamp.           *)
LoopPlaced ==
    /\ nd.at \in {"off", "boot", "watch", "start"} => running = NoVersion
    /\ nd.at \in {"hash", "drain", "start"} => nd.seen # 0
    /\ running # NoVersion => nd.serving # 0

(* The digest is that of the binary that runs, but for one that was        *)
(* written while the server before it drained.                             *)
ServedIsHashed == running # NoVersion /\ ~swapped => running = nd.digest

(* The check has put back what it changed before it stops the loop.        *)
FilesPutBack ==
    /\ ck.step \in {"stop", "reap"} => source = Original /\ ~ck.outside
    /\ ck.step = "gone" /\ ck.hurt \notin {"fork", "cut"} =>
           source = Original /\ ~ck.outside

(* A loop that is over, and was not killed, has stopped its build and its  *)
(* server.                                                                 *)
LoopOver ==
    /\ ck.step # "gone" /\ nd.at = "done" => running = NoVersion /\ watch # "up"
    /\ ck.step = "gone" /\ ck.hurt \notin {"fork", "cut", "killed"} =>
           running = NoVersion /\ watch # "up"

(* The inductive invariant of the dev loop and its check.                  *)
LoopInv ==
    /\ LoopTypeOK
    /\ CheckTypeOK
    /\ ck.step \in {"off", "popen"} => nd.at = "off"
    /\ LoopPlaced
    /\ ServedIsHashed
    /\ FilesPutBack
    /\ ServerIsCurrent
-----------------------------------------------------------------------------
(* Places of the check inside its try, and those with a server started.    *)
Trying == {"first", "settling", "back", "restoring", "quieting", "settled",
           "watching", "inside", "restarting", "undoing", "landing"}
Warm == Trying \ {"first"}

(* The stale probe stands.                                                 *)
OldTimes == {"popen", "first", "settling", "back"}

(* Where the check is, and what it has saved and read by then.             *)
CheckPlaced ==
    /\ ck.step = "off" => source = Original /\ ck.mark = 0
    /\ ck.step \in OldTimes => source = Stale /\ ck.mark = 0
    /\ ck.step \in {"restoring", "quieting", "settled", "watching", "inside"} =>
           source = Original
    /\ ck.step = "restarting" => source = Probed
    /\ ck.step \in Trying \cup {"off", "popen"} =>
           ~nd.stopping /\ ck.verdict = "none"
    /\ ck.step \in Trying => nd.at # "off"
    /\ ck.step \in {"off", "popen", "first", "settling"} => ~ck.failures /\ ~ck.hasty
    /\ ck.step \in Warm \/ ck.verdict \in {"ok", "fail"} => nd.once
    /\ ck.outside => ck.step = "watching" \/ ck.verdict = "exit"

(* The lines the loop has printed, and how many of them the check has.     *)
Lines ==
    /\ said \in Seq({"started", "restarted"})
    /\ \A i \in 1..Len(said) : said[i] = IF i = 1 THEN "started" ELSE "restarted"
    /\ nd.once <=> Len(said) > 0
    /\ ck.mark <= ck.read
    /\ ck.read <= Len(said)

(* The loop on its way, with its build and its server.                     *)
LoopUnderWay ==
    /\ exe.t > 0
    /\ nd.at \in {"off", "boot", "watch"} => ~nd.once
    /\ nd.at \in {"poll", "hash", "drain", "start"} => watch \in {"up", "gone"}
    /\ nd.at \in {"off", "boot", "watch"} => watch = "off"
    /\ nd.once /\ odd \cap {"server", "start"} = {}
           /\ nd.at \in {"poll", "hash", "drain"} =>
           nd.server /\ running # NoVersion

(* Up to the first save: only an old binary that could not be removed is   *)
(* ever served, and it is replaced unless its build fails.                 *)
OldBinary ==
    ck.step \in OldTimes \cup {"off"} =>
        /\ exe.v \in {Original, Stale, NoVersion}
        /\ built \in {NoVersion, Stale}
        /\ nd.at \in {"off", "boot"} => built = NoVersion
        /\ nd.at \notin {"off", "boot", "done"} /\ exe.v = Original => "undeleted" \in odd
        /\ built = Stale => exe.v = Stale \/ "failed" \in odd
        /\ nd.at \in {"drain", "start"} /\ exe.v = Original => nd.hash = Original
        /\ nd.once => /\ first \in {Original, Stale}
                      /\ exe.v \in {Original, Stale}
                      /\ first = Original => "undeleted" \in odd
                      /\ first = Original /\ "start" \notin odd /\ Len(said) = 1 =>
                             /\ nd.digest = Original
                             /\ exe.v = Stale => exe.t # nd.serving

(* A loop that will do nothing before the next save, and its lines read.   *)
AtRest ==
    /\ nd.at \in {"poll", "done"}
    /\ ~Fresh
    /\ nd.at = "poll" => Stamp \in {0, nd.serving}

QuietTimes ==
    ~ck.hasty /\ ck.step \in {"back", "settled", "watching", "inside"} =>
        /\ AtRest /\ ck.read = Len(said)
        /\ ck.step = "watching" => ck.mark = ck.read

(* Nothing was started while the line outside stood.                       *)
NotMoved == ~ck.hasty /\ ck.verdict # "exit" => ~ck.moved

(* The probe inside was served if a line said so.                          *)
ProbeServed ==
    ~ck.hasty =>
        /\ ck.step = "restarting" =>
               \/ ck.tried
               \/ /\ Len(said) = ck.mark
                  /\ \/ exe.v = Probed
                     \/ nd.at = "done"
                     \/ nd.at = "poll" /\ Stamp \in {0, nd.serving}
        /\ ~ck.failures /\ ck.step \in {"undoing", "landing"} => ck.tried
        /\ ck.verdict = "ok" => ck.tried

(* The chain of trouble that hides an old first server.                    *)
Hidden == {"undeleted", "failed", "server"} \subseteq odd

StillOld ==
    {"undeleted", "failed"} \subseteq odd /\ exe.v = Original /\ nd.digest = Original

(* What the first server was, as far as the check can tell.                *)
FirstServer ==
    ~ck.hasty /\ "start" \notin odd =>
        /\ ~ck.failures /\ ck.step = "back" /\ first # Stale =>
               nd.at = "done" \/ StillOld
        /\ ~ck.failures /\ ck.step = "restoring" /\ first # Stale =>
               \/ Hidden
               \/ /\ Len(said) = ck.mark
                  /\ \/ nd.at = "done"
                     \/ nd.at \in {"poll", "hash"} /\ StillOld
        /\ ~ck.failures /\ ck.step \in Trying \ {"first", "settling", "back", "restoring"} =>
               first = Stale \/ Hidden
        /\ ck.verdict = "ok" => first = Stale \/ Hidden

(* With no trouble: the loop before its first server, the loop serving     *)
(* version v, and the loop between two versions.                           *)
Booting ==
    /\ ~nd.once
    /\ nd.at \in {"off", "boot", "watch", "poll", "hash", "drain", "start"}
    /\ nd.at \notin {"off", "boot"} => exe.v \in {NoVersion, Stale}
    /\ nd.at \in {"hash", "drain", "start"} => exe.v = Stale
    /\ nd.at \in {"drain", "start"} => nd.hash = Stale
    /\ nd.at \notin {"off", "boot"} /\ exe.v = Stale => built = Stale
    /\ watch # "gone"

Serving(v) ==
    /\ nd.once /\ nd.server /\ watch = "up"
    /\ nd.at \in {"poll", "hash"}
    /\ running = v /\ nd.digest = v /\ exe.v = v /\ built = v

Turning(old, new) ==
    \/ Len(said) = ck.mark /\ Serving(old) /\ nd.at = "poll" /\ Stamp = nd.serving
    \/ /\ Len(said) = ck.mark
       /\ nd.once /\ watch = "up"
       /\ exe.v = new /\ built = new /\ nd.digest = old
       /\ nd.at \in {"poll", "hash", "drain", "start"}
       /\ nd.at = "poll" => Stamp # nd.serving
       /\ nd.at \in {"drain", "start"} => nd.hash = new
    \/ Len(said) > ck.mark /\ Serving(new)

NoTrouble ==
    ~ck.hasty /\ odd = {} =>
        /\ ck.step \in Trying => ~ck.failures
        /\ ck.step \in {"restoring", "restarting"} => ck.mark > 0
        /\ ck.step \in {"popen", "first", "settling"} =>
               Booting \/ (Serving(Stale) /\ Len(said) = 1)
        /\ ck.step = "back" => Serving(Stale)
        /\ ck.step = "restoring" => Turning(Stale, Original)
        /\ ck.step \in {"quieting", "settled", "watching", "inside"} => Serving(Original)
        /\ ck.step = "restarting" => Turning(Original, Probed)
        /\ ck.verdict # "fail"

(* What the check's verdict rests on.                                      *)
VerdictInv ==
    /\ CheckPlaced /\ Lines /\ LoopUnderWay /\ OldBinary
    /\ QuietTimes /\ NotMoved /\ ProbeServed /\ FirstServer /\ NoTrouble
-----------------------------------------------------------------------------
(* Any set of naturals that has a member has a least one.                  *)
LEMMA LeastNumber ==
    ASSUME NEW S \in SUBSET Nat, S # {}
    PROVE  \E m \in S : \A k \in S : m <= k
<1>1. IsWellFoundedOn(OpToRel(<, Nat), Nat)
  BY NatLessThanWellFounded
<1>2. PICK x \in S : \A y \in S : ~ (<<y, x>> \in OpToRel(<, Nat))
  BY <1>1, WFMin
<1>3. \A y \in S : ~(y < x)
  BY <1>2 DEF OpToRel
<1> QED
  BY <1>3

(* Candidates and rows.                                                    *)
LEMMA OrderFacts ==
    /\ Len(Order) \in Nat \ {0} /\ \A i \in 1..Len(Order) : Order[i] \in Cands
    /\ Cands # {}
<1>1. Order \in Seq(Cands) /\ Order # <<>>
  BY CandsAssumption
<1>2. Len(Order) \in Nat /\ Len(Order) # 0 /\ \A i \in 1..Len(Order) : Order[i] \in Cands
  BY <1>1, EmptySeq, LenProperties, ElementOfSeq
<1> QED
  BY <1>2

(* The candidate in hand is one that was asked for.                        *)
LEMMA CandIsThere ==
    ASSUME TypeOK
    PROVE  /\ cand \in Cands
           /\ pc \in InHand => cand = Order[pos] /\ cand \in only /\ pos \in 1..Len(Order)
<1> USE OrderFacts DEF TypeOK, cand
<1> QED
  OBVIOUS

(* No row is a row, and a torn file is not a table.                        *)
LEMMA RowsAreRows ==
    /\ NoRow \in Rows /\ NoRows \in [Cands -> Rows]
    /\ NoRow.run = 0
    /\ \A c \in Cands : NoRows[c] = NoRow
    /\ Torn \notin [Cands -> Rows]
<1>1. NoRow \in Rows
  BY DEF NoRow, Rows
<1>2. Torn \notin [Cands -> Rows]
  BY OrderFacts DEF Torn
<1> QED
  BY <1>1, <1>2 DEF NoRows, NoRow

(* The step wrote a row of this run for the candidate in hand, and no      *)
(* other.                                                                  *)
RowWritten ==
    /\ results' \in [Cands -> Rows]
    /\ \A c \in Cands : c # cand => results'[c] = results[c]
    /\ n \in {results'[cand].run, results'[cand].err}

(* The except clauses' error, on whatever row there was.                   *)
LEMMA ErrorJoins ==
    ASSUME Inv, results' = [results EXCEPT ![cand].err = n]
    PROVE  /\ RowWritten
           /\ results'[cand].run = results[cand].run
           /\ results'[cand].by = results[cand].by
<1> DEFINE row == [results[cand] EXCEPT !.err = n]
<1>1. cand \in Cands /\ results \in [Cands -> Rows] /\ n \in Nat /\ results[cand] \in Rows
  BY CandIsThere DEF Inv, TypeOK
<1>2. /\ row \in Rows /\ row.err = n /\ row.run = results[cand].run
      /\ row.by = results[cand].by
  BY <1>1 DEF Rows
<1>3. results' = [results EXCEPT ![cand] = row]
  OBVIOUS
<1> HIDE DEF row
<1> QED
  BY <1>1, <1>2, <1>3 DEF RowWritten

(* A row of nothing but an error.                                          *)
LEMMA ErrorAlone ==
    ASSUME Inv, results' = [results EXCEPT ![cand] = [NoRow EXCEPT !.err = n]]
    PROVE  RowWritten /\ results'[cand].run = 0
<1> DEFINE row == [NoRow EXCEPT !.err = n]
<1>1. cand \in Cands /\ results \in [Cands -> Rows] /\ n \in Nat
  BY CandIsThere DEF Inv, TypeOK
<1>2. row \in Rows /\ row.err = n /\ row.run = 0
  BY <1>1 DEF NoRow, Rows
<1> HIDE DEF row
<1> QED
  BY <1>1, <1>2 DEF RowWritten, row

(* A row of numbers.                                                       *)
LEMMA NumberRow ==
    ASSUME Inv, NEW who \in {"nobody", "own", "other", "lost"},
           results' = [results EXCEPT ![cand] =
                           [run |-> n, by |-> who, err |-> 0]]
    PROVE  RowWritten /\ results'[cand].by = who
<1> DEFINE row == [run |-> n, by |-> who, err |-> 0]
<1>1. cand \in Cands /\ results \in [Cands -> Rows] /\ n \in Nat
  BY CandIsThere DEF Inv, TypeOK
<1>2. row \in Rows /\ row.run = n /\ row.by = who
  BY <1>1 DEF Rows
<1> HIDE DEF row
<1> QED
  BY <1>1, <1>2 DEF RowWritten, row

(* Without strays, whoever answers is the script's own.                    *)
LEMMA NobodyElse ==
    ASSUME strays = {}
    PROVE  WhoAnswers \in {"nobody", "own"} /\ (Accepts => WhoAnswers = "own")
<1>1. Listening(cand) \in {{}, {"mine"}}
  BY DEF Listening
<1> QED
  BY <1>1 DEF WhoAnswers, Accepts

(* Who may answer.                                                         *)
LEMMA SomebodyAnswers == WhoAnswers \in {"nobody", "own", "other", "lost"}
BY DEF WhoAnswers

(* Of dead processes none is alive.                                        *)
LEMMA NoneStillAlive ==
    ASSUME \A i \in DOMAIN mine : mine[i] = "dead"
    PROVE  StillAlive = {}
BY DEF StillAlive
-----------------------------------------------------------------------------
(* A step with a candidate in hand that leaves the file alone.             *)
LEMMA HandStep ==
    ASSUME Inv, pc \in InHand, pc' \in InHand \cup {"next", "idle"},
           UNCHANGED <<script, n, only, pos, kept, file>>,
           harm \subseteq harm',
           got' \in {"nobody", "own", "other", "lost"},
           going' \in BOOLEAN, going' => going, pc' = "idle" => ~going',
           missed' \in {missed, missed \cup {cand}},
           results' = results \/ RowWritten,
           pc = "dump" => pc' = "dump" \/ harm' \cap {"torn", "short"} # {},
           going' /\ pc' \in {"open", "dump", "term", "kill", "next"} /\ ~Owing' =>
               \/ pc \in {"open", "dump", "term", "kill"} /\ ~Owing
               \/ RowWritten
               \/ script \in {"http", "ws"} /\ cand \in missed'
    PROVE  TypeOK' /\ Spared' /\ Remade' /\ Accounted'
<1>1. /\ cand \in Cands /\ cand = Order[pos] /\ cand \in only /\ pos \in 1..Len(Order)
      /\ TypeOK
  BY CandIsThere DEF Inv
<1>2. TypeOK'
  BY <1>1 DEF TypeOK, RowWritten, Between, InHand
<1>3. \A c \in Cands : c # cand => results'[c] = results[c]
  BY DEF RowWritten
<1>4. Spared'
  BY <1>1, <1>3 DEF Inv, Spared, InHand
<1>5. \A c \in Cands : SaysNow(c) => SaysNow(c)'
  BY <1>1 DEF SaysNow, RowWritten
<1>6. Remade'
  BY <1>1, <1>3, <1>5 DEF Inv, Remade, RowWritten, SaysNow
<1>7. \A c \in Cands : Done(c) => Done(c)'
  BY <1>1, <1>5 DEF Done
<1>8. \A i \in 1..Len(Order) : Order[i] \in Cands
  BY OrderFacts
<1>9. ASSUME going', NEW i \in 1..Len(Order), Behind(i)', Order[i] \in only
      PROVE  Done(Order[i])'
  <2>1. CASE i # pos
    <3>1. i < pos
      BY <1>9, <2>1 DEF Behind, InHand
    <3>2. Done(Order[i])
      BY <1>1, <1>9, <3>1 DEF Inv, Accounted, Behind, TypeOK, InHand
    <3> QED
      BY <1>7, <1>8, <3>2
  <2>2. CASE i = pos
    <3>0. i = pos /\ ~(i < pos) /\ Order[i] = cand
      BY <1>1, <2>2
    <3>1. pc' \in {"open", "dump", "term", "kill", "next"} /\ ~Owing'
      BY <1>9, <3>0 DEF Behind, InHand
    <3>2. CASE pc \in {"open", "dump", "term", "kill"} /\ ~Owing
      <4>1. Done(cand)
        BY <1>1, <1>9, <3>0, <3>2 DEF Inv, Accounted, Behind, TypeOK, InHand
      <4> QED
        BY <1>1, <1>7, <3>0, <4>1
    <3>3. CASE RowWritten
      BY <3>0, <3>3 DEF RowWritten, Done, SaysNow
    <3>4. CASE script \in {"http", "ws"} /\ cand \in missed'
      BY <3>0, <3>4 DEF Done
    <3> QED
      BY <1>9, <3>1, <3>2, <3>3, <3>4
  <2> QED
    BY <2>1, <2>2
<1>10. Accounted'
  BY <1>9 DEF Accounted
<1> QED
  BY <1>2, <1>4, <1>6, <1>10

(* Rows of numbers stay the script's own.                                  *)
LEMMA RowsStayOwn ==
    ASSUME Inv, script' = script, harm \subseteq harm', Harmless',
           results' = results \/ (RowWritten /\ OwnRow(results'[cand])),
           file' \in {file, Torn} \/ file' = results,
           NEW c \in Cands
    PROVE  OwnRow(results[c])' /\ (file' # Torn => OwnRow(file[c])')
<1>1. Harmless
  BY DEF Harmless
<1>2. OwnRow(results[c]) /\ (file # Torn => OwnRow(file[c]))
  BY <1>1 DEF Inv, Owned
<1>3. OwnRow(results'[c])
  BY <1>2 DEF RowWritten
<1> QED
  BY <1>2, <1>3 DEF OwnRow
-----------------------------------------------------------------------------
(* The steps, one by one.                                                  *)
(* stop(), its first half.                                                 *)
LEMMA TerminateStep ==
    ASSUME Inv, NEW here, NEW there,
           <<here, there>> \in {<<"term1", "kill1">>, <<"term", "kill">>,
                               <<"sigterm", "patience">>},
           Terminate(here, there)
    PROVE  Inv'
<1>1. TypeOK' /\ Spared' /\ Remade' /\ Accounted'
  BY HandStep DEF Terminate, Go, InHand, Inv, TypeOK, Owing
<1>2. Tidy'
  BY DEF Terminate, Go, Inv, Tidy, Harmless, Still
<1>3. Owned'
  BY RowsStayOwn DEF Terminate, Go, Inv, Owned, TakenBy, Harmless
<1> QED
  BY <1>1, <1>2, <1>3 DEF Inv

(* The second wait_up().                                                   *)
LEMMA SecondWaitUpStep ==
    ASSUME Inv, SecondWaitUp
    PROVE  Inv'
<1>1. TypeOK' /\ Spared' /\ Remade' /\ Accounted'
  BY HandStep DEF SecondWaitUp, Go, InHand, Inv, TypeOK
<1>2. Tidy'
  BY DEF SecondWaitUp, Go, Inv, Tidy, Harmless, Still
<1>3. Owned'
  BY RowsStayOwn DEF SecondWaitUp, Go, Inv, Owned, TakenBy, Harmless
<1> QED
  BY <1>1, <1>2, <1>3 DEF Inv

(* The loop that nothing ends but an interrupt.                            *)
LEMMA SpinsStep ==
    ASSUME Inv, NEW here \in {"verify", "memory"}, Spins(here)
    PROVE  Inv'
<1>1. TypeOK' /\ Spared' /\ Remade' /\ Accounted'
  BY HandStep DEF Spins, Go, InHand, Inv, TypeOK
<1>2. Tidy'
  BY DEF Spins, Go, Inv, Tidy, Harmless, Still
<1>3. Owned'
  BY RowsStayOwn DEF Spins, Go, Inv, Owned, TakenBy, Harmless
<1> QED
  BY <1>1, <1>2, <1>3 DEF Inv

(* wait_up() of the HTTP driver.                                           *)
LEMMA HttpWaitUpStep ==
    ASSUME Inv, script = "http", HttpWaitUp
    PROVE  Inv'
<1>1. TypeOK' /\ Spared' /\ Remade' /\ Accounted'
  BY HandStep DEF HttpWaitUp, InHand, Inv, TypeOK
<1>2. Tidy'
  BY DEF HttpWaitUp, Inv, Tidy, Harmless, Still
<1>3. Owned'
  BY RowsStayOwn DEF HttpWaitUp, Inv, Owned, TakenBy, Harmless
<1> QED
  BY <1>1, <1>2, <1>3 DEF Inv

(* wait_up() of the WebSocket harness.                                     *)
LEMMA WsWaitUpStep ==
    ASSUME Inv, script = "ws", WsWaitUp
    PROVE  Inv'
<1>1. TypeOK' /\ Spared' /\ Remade' /\ Accounted'
  BY HandStep DEF WsWaitUp, Go, InHand, Inv, TypeOK
<1>2. Tidy'
  BY DEF WsWaitUp, Go, Inv, Tidy, Harmless, Still
<1>3. Owned'
  BY RowsStayOwn DEF WsWaitUp, Go, Inv, Owned, TakenBy, Harmless
<1> QED
  BY <1>1, <1>2, <1>3 DEF Inv

(* stop(), its second half.                                                *)
LEMMA KillStep ==
    ASSUME Inv, NEW here, NEW there,
           <<here, there>> \in {<<"kill1", "start2">>, <<"kill", Stopped>>,
                               <<"term", Stopped>>},
           script # "ws",
           Kill(here, there)
    PROVE  Inv'
<1>1. TypeOK' /\ Spared' /\ Remade' /\ Accounted'
  BY HandStep DEF Kill, Killed, Stopped, Go, InHand, Inv, TypeOK, Owing
<1>2. Tidy'
  BY DEF Kill, Killed, Stopped, Go, Inv, Tidy, Harmless, Still
<1>3. Owned'
  BY RowsStayOwn DEF Kill, Killed, Stopped, Go, Inv, Owned, TakenBy, Harmless
<1> QED
  BY <1>1, <1>2, <1>3 DEF Inv

(* start().                                                                *)
LEMMA StartStep ==
    ASSUME Inv, NEW here, NEW there,
           <<here, there>> \in {<<"start", "wait">>, <<"start2", "wait2">>},
           Start(here, there)
    PROVE  Inv'
<1>1. TypeOK' /\ Spared' /\ Remade' /\ Accounted'
  BY HandStep DEF Start, Started, Go, InHand, Inv, TypeOK
<1>2. Tidy'
  BY NoneStillAlive DEF Start, Started, Go, Inv, Tidy, Harmless, Still
<1>3. Owned'
  BY RowsStayOwn DEF Start, Started, Go, Inv, Owned, TakenBy, Harmless
<1> QED
  BY <1>1, <1>2, <1>3 DEF Inv

(* The Popen of a check.                                                   *)
LEMMA CheckStartStep ==
    ASSUME Inv, NEW there \in {"wait", "warm"}, CheckStart(there)
    PROVE  Inv'
<1>1. TypeOK' /\ Spared' /\ Remade' /\ Accounted'
  BY HandStep DEF CheckStart, Go, InHand, Inv, TypeOK
<1>2. Tidy'
  BY DEF CheckStart, Go, Inv, Tidy, Harmless, Still
<1>3. Owned'
  BY RowsStayOwn DEF CheckStart, Go, Inv, Owned, TakenBy, Harmless
<1> QED
  BY <1>1, <1>2, <1>3 DEF Inv

(* The except clause.                                                      *)
LEMMA FailedStep ==
    ASSUME Inv, NEW here \in {"verify", "bench", "memory"}, Failed(here)
    PROVE  Inv'
<1>0. RowWritten /\ results'[cand].run = results[cand].run
                 /\ results'[cand].by = results[cand].by
  BY ErrorJoins DEF Failed
<1>r. Harmless => OwnRow(results'[cand])
  BY <1>0, CandIsThere DEF Inv, Owned, OwnRow
<1>1. TypeOK' /\ Spared' /\ Remade' /\ Accounted'
  BY HandStep, <1>0 DEF Failed, Go, InHand, Inv, TypeOK
<1>2. Tidy'
  BY DEF Failed, Go, Inv, Tidy, Harmless, Still
<1>3. Owned'
  BY RowsStayOwn, <1>0, <1>r DEF Failed, Go, Inv, Owned, TakenBy, Harmless
<1> QED
  BY <1>1, <1>2, <1>3 DEF Inv

(* verify() of the HTTP driver.                                            *)
LEMMA HttpVerifyStep ==
    ASSUME Inv, script = "http", HttpVerify
    PROVE  Inv'
<1>0. \/ pc' = "bench" /\ results' = results
      \/ RowWritten /\ results'[cand].run = 0
  BY ErrorAlone DEF HttpVerify, Go
<1>r. results' = results \/ OwnRow(results'[cand])
  BY <1>0 DEF OwnRow
<1>1. TypeOK' /\ Spared' /\ Remade' /\ Accounted'
  BY HandStep, <1>0 DEF HttpVerify, Go, InHand, Inv, TypeOK
<1>2. Tidy'
  BY DEF HttpVerify, Go, Inv, Tidy, Harmless, Still
<1>3. Owned'
  BY RowsStayOwn, <1>0, <1>r DEF HttpVerify, Go, Inv, Owned, TakenBy, Harmless
<1> QED
  BY <1>1, <1>2, <1>3 DEF Inv

(* bench().                                                                *)
LEMMA HttpBenchStep ==
    ASSUME Inv, script = "http", HttpBench
    PROVE  Inv'
<1>1. TypeOK' /\ Spared' /\ Remade' /\ Accounted'
  BY HandStep, SomebodyAnswers DEF HttpBench, Go, InHand, Inv, TypeOK
<1>2. Tidy'
  BY DEF HttpBench, Go, Inv, Tidy, Harmless, Still
<1>3. Owned'
  BY RowsStayOwn, NobodyElse DEF HttpBench, Go, Tidy, Inv, Owned, TakenBy, Harmless
<1> QED
  BY <1>1, <1>2, <1>3 DEF Inv

(* bench_all().                                                            *)
LEMMA S3BenchStep ==
    ASSUME Inv, script = "s3", S3Bench
    PROVE  Inv'
<1>1. TypeOK' /\ Spared' /\ Remade' /\ Accounted'
  BY HandStep, SomebodyAnswers DEF S3Bench, Go, InHand, Inv, TypeOK
<1>2. Tidy'
  BY DEF S3Bench, Go, Inv, Tidy, Harmless, Still
<1>3. Owned'
  BY RowsStayOwn, NobodyElse DEF S3Bench, Go, Tidy, Inv, Owned, TakenBy, Harmless
<1> QED
  BY <1>1, <1>2, <1>3 DEF Inv

(* The row with everything that was measured.                              *)
LEMMA RecordedStep ==
    ASSUME Inv, script \in {"http", "s3"}, Recorded
    PROVE  Inv'
<1>0. RowWritten /\ results'[cand].by = HeldBy
  BY NumberRow, SomebodyAnswers DEF Recorded, HeldBy, Inv, TypeOK
<1>r. Harmless => OwnRow(results'[cand])
  <2>1. Harmless => HeldBy = got
    BY NobodyElse DEF Inv, Tidy, HeldBy
  <2> QED
    BY <1>0, <2>1 DEF Inv, Owned, TakenBy, OwnRow, Recorded, Go
<1>1. TypeOK' /\ Spared' /\ Remade' /\ Accounted'
  BY HandStep, <1>0 DEF Recorded, Go, InHand, Inv, TypeOK
<1>2. Tidy'
  BY DEF Recorded, Go, Inv, Tidy, Harmless, Still
<1>3. Owned'
  BY RowsStayOwn, <1>0, <1>r DEF Recorded, Go, Inv, Owned, TakenBy, Harmless
<1> QED
  BY <1>1, <1>2, <1>3 DEF Inv

(* wait_up() of the object-store driver.                                   *)
LEMMA S3WaitUpStep ==
    ASSUME Inv, script = "s3", S3WaitUp
    PROVE  Inv'
<1>0. \/ pc' = "verify" /\ results' = results
      \/ RowWritten /\ results'[cand].run = 0
  BY ErrorAlone DEF S3WaitUp, Go
<1>r. results' = results \/ OwnRow(results'[cand])
  BY <1>0 DEF OwnRow
<1>1. TypeOK' /\ Spared' /\ Remade' /\ Accounted'
  BY HandStep, <1>0 DEF S3WaitUp, Go, InHand, Inv, TypeOK
<1>2. Tidy'
  BY DEF S3WaitUp, Go, Inv, Tidy, Harmless, Still
<1>3. Owned'
  BY RowsStayOwn, <1>0, <1>r DEF S3WaitUp, Go, Inv, Owned, TakenBy, Harmless
<1> QED
  BY <1>1, <1>2, <1>3 DEF Inv

(* verify() of the object-store driver.                                    *)
LEMMA S3VerifyStep ==
    ASSUME Inv, script = "s3", S3Verify
    PROVE  Inv'
<1>0. \/ pc' = "bench" /\ results' = results
      \/ RowWritten /\ results'[cand].run = 0
  BY ErrorAlone DEF S3Verify, Go
<1>r. results' = results \/ OwnRow(results'[cand])
  BY <1>0 DEF OwnRow
<1>1. TypeOK' /\ Spared' /\ Remade' /\ Accounted'
  BY HandStep, <1>0 DEF S3Verify, Go, InHand, Inv, TypeOK
<1>2. Tidy'
  BY DEF S3Verify, Go, Inv, Tidy, Harmless, Still
<1>3. Owned'
  BY RowsStayOwn, <1>0, <1>r DEF S3Verify, Go, Inv, Owned, TakenBy, Harmless
<1> QED
  BY <1>1, <1>2, <1>3 DEF Inv

(* measure() returns, and main() notes the row.                            *)
LEMMA WsMeasureStep ==
    ASSUME Inv, script = "ws", WsMeasure
    PROVE  Inv'
<1>0. WhoAnswers # NoneTaken
  BY DEF WsMeasure, Accepts, WhoAnswers, NoneTaken
<1>r. Harmless => WhoAnswers = "own"
  BY NobodyElse DEF Inv, Tidy, WsMeasure
<1>1. TypeOK' /\ Spared' /\ Remade' /\ Accounted'
  BY HandStep, SomebodyAnswers, <1>0 DEF WsMeasure, Go, InHand, Inv, TypeOK, Owing
<1>2. Tidy'
  BY DEF WsMeasure, Go, Inv, Tidy, Harmless, Still
<1>3. Owned'
  BY RowsStayOwn, <1>r DEF WsMeasure, Go, Inv, Owned, TakenBy, Harmless
<1> QED
  BY <1>1, <1>2, <1>3 DEF Inv

(* The scenario's server is stopped, and its row noted.                    *)
LEMMA WsKillStep ==
    ASSUME Inv, script = "ws", WsKill
    PROVE  Inv'
<1>0. /\ got = NoneTaken => results' = results
      /\ got # NoneTaken => RowWritten /\ results'[cand].by = got
  BY NumberRow DEF WsKill, Inv, TypeOK
<1>r. Harmless /\ got # NoneTaken => OwnRow(results'[cand])
  BY <1>0 DEF Inv, Owned, TakenBy, OwnRow, NoneTaken
<1>1. TypeOK' /\ Spared' /\ Remade' /\ Accounted'
  BY HandStep, <1>0 DEF WsKill, Stopped, Go, InHand, Inv, TypeOK, Owing
<1>2. Tidy'
  BY DEF WsKill, Killed, Stopped, Go, Inv, Tidy, Harmless, Still
<1>3. Owned'
  BY RowsStayOwn, <1>0, <1>r DEF WsKill, Stopped, Go, Inv, Owned, TakenBy, Harmless
<1> QED
  BY <1>1, <1>2, <1>3 DEF Inv

(* A scenario that is passed over.                                         *)
LEMMA WsFailsStep ==
    ASSUME Inv, script = "ws", NEW here \in {"wait", "memory"}, WsFails(here)
    PROVE  Inv'
<1>1. TypeOK' /\ Spared' /\ Remade' /\ Accounted'
  BY HandStep DEF WsFails, Go, InHand, Inv, TypeOK
<1>2. Tidy'
  BY DEF WsFails, Go, Inv, Tidy, Harmless, Still
<1>3. Owned'
  BY RowsStayOwn DEF WsFails, Go, Inv, Owned, TakenBy, Harmless
<1> QED
  BY <1>1, <1>2, <1>3 DEF Inv

(* The scenario's Popen raises.                                            *)
LEMMA WsPopenRaisesStep ==
    ASSUME Inv, script = "ws", WsPopenRaises
    PROVE  Inv'
<1>1. TypeOK' /\ Spared' /\ Remade' /\ Accounted'
  BY HandStep DEF WsPopenRaises, Mishap, Go, InHand, Inv, TypeOK
<1>2. Tidy'
  BY DEF WsPopenRaises, Mishap, Go, Inv, Tidy, Harmless, Still
<1>3. Owned'
  BY RowsStayOwn DEF WsPopenRaises, Mishap, Go, Inv, Owned, TakenBy, Harmless
<1> QED
  BY <1>1, <1>2, <1>3 DEF Inv

(* The second Popen raises.                                                *)
LEMMA SecondPopenStep ==
    ASSUME Inv, script \in {"http", "s3"}, SecondPopenRaises
    PROVE  Inv'
<1>0. RowWritten /\ results'[cand].run = results[cand].run
                 /\ results'[cand].by = results[cand].by
  BY ErrorJoins DEF SecondPopenRaises
<1>r. Harmless => OwnRow(results'[cand])
  BY <1>0, CandIsThere DEF Inv, Owned, OwnRow
<1>1. TypeOK' /\ Spared' /\ Remade' /\ Accounted'
  BY HandStep, <1>0 DEF SecondPopenRaises, Mishap, Go, InHand, Inv, TypeOK
<1>2. Tidy'
  BY DEF SecondPopenRaises, Mishap, Go, Inv, Tidy, Harmless, Still
<1>3. Owned'
  BY RowsStayOwn, <1>0, <1>r DEF SecondPopenRaises, Mishap, Go, Inv, Owned, TakenBy, Harmless
<1> QED
  BY <1>1, <1>2, <1>3 DEF Inv

(* An exception in a check.                                                *)
LEMMA RaisesStep ==
    ASSUME Inv, NEW here \in {"wait"}, Raises(here)
    PROVE  Inv'
<1>1. TypeOK' /\ Spared' /\ Remade' /\ Accounted'
  BY HandStep DEF Raises, Go, InHand, Inv, TypeOK
<1>2. Tidy'
  BY DEF Raises, Go, Inv, Tidy, Harmless, Still
<1>3. Owned'
  BY RowsStayOwn DEF Raises, Go, Inv, Owned, TakenBy, Harmless
<1> QED
  BY <1>1, <1>2, <1>3 DEF Inv

(* The first Popen raises, and takes the script with it.                   *)
LEMMA FirstPopenStep ==
    ASSUME Inv, FirstPopenRaises \/ CheckPopenRaises
    PROVE  Inv'
<1>1. TypeOK' /\ Spared' /\ Remade' /\ Accounted'
  BY HandStep DEF FirstPopenRaises, CheckPopenRaises, Mishap, Gone, InHand, Inv, TypeOK
<1>2. Tidy'
  BY DEF FirstPopenRaises, CheckPopenRaises, Mishap, Gone, Inv, Tidy, Harmless, Still
<1>3. Owned'
  BY RowsStayOwn DEF FirstPopenRaises, CheckPopenRaises, Mishap, Gone, Inv, Owned, TakenBy, Harmless
<1> QED
  BY <1>1, <1>2, <1>3 DEF Inv

(* A step of a check that answers.                                         *)
LEMMA AnswerStep ==
    ASSUME Inv, NEW here \in {"wait", "hold", "warm", "burst", "rounds"},
           NEW there \in {"sigterm", "hold", "after", "burst", "rounds"},
           NEW by \in {"nobody", "own", "other", "lost"},
           Answer(here, there, by),
           script \in {"shutdown", "fdlimit", "burst"},
           script = "shutdown" /\ Harmless => by = "own",
           script = "burst" /\ there = "rounds" /\ Harmless =>
               by \in {"own", "lost"}
    PROVE  Inv'
<1>1. TypeOK' /\ Spared' /\ Remade' /\ Accounted'
  BY HandStep DEF Answer, Go, InHand, Inv, TypeOK
<1>2. Tidy'
  BY DEF Answer, Go, Inv, Tidy, Harmless, Still
<1>3. Owned'
  BY RowsStayOwn DEF Answer, Go, Inv, Owned, TakenBy, Harmless
<1> QED
  BY <1>1, <1>2, <1>3 DEF Inv

(* A verdict that is good.                                                 *)
LEMMA GoodStep ==
    ASSUME Inv, NEW here \in {"patience", "after", "rounds"},
           NEW by \in {"nobody", "own", "other", "lost"},
           Harmless => by = "own",
           Conclude(here, [run |-> n, by |-> by, err |-> 0])
    PROVE  Inv'
<1>0. RowWritten /\ results'[cand].by = by
  BY NumberRow DEF Conclude, Verdict
<1>r. Harmless => OwnRow(results'[cand])
  BY <1>0 DEF OwnRow
<1>1. TypeOK' /\ Spared' /\ Remade' /\ Accounted'
  BY HandStep, <1>0 DEF Conclude, Go, InHand, Inv, TypeOK
<1>2. Tidy'
  BY DEF Conclude, Go, Inv, Tidy, Harmless, Still
<1>3. Owned'
  BY RowsStayOwn, <1>0, <1>r DEF Conclude, Go, Inv, Owned, TakenBy, Harmless
<1> QED
  BY <1>1, <1>2, <1>3 DEF Inv

(* A verdict that is bad.                                                  *)
LEMMA BadStep ==
    ASSUME Inv, NEW here \in {"wait", "patience", "after", "rounds"},
           Conclude(here, Bad)
    PROVE  Inv'
<1>0. RowWritten /\ results'[cand].run = 0
  BY ErrorAlone DEF Conclude, Verdict, Bad
<1>r. OwnRow(results'[cand])
  BY <1>0 DEF OwnRow
<1>1. TypeOK' /\ Spared' /\ Remade' /\ Accounted'
  BY HandStep, <1>0 DEF Conclude, Go, InHand, Inv, TypeOK
<1>2. Tidy'
  BY DEF Conclude, Go, Inv, Tidy, Harmless, Still
<1>3. Owned'
  BY RowsStayOwn, <1>0, <1>r DEF Conclude, Go, Inv, Owned, TakenBy, Harmless
<1> QED
  BY <1>1, <1>2, <1>3 DEF Inv

(* An interrupt with a candidate in hand.                                  *)
LEMMA InterruptInHand ==
    ASSUME Inv, pc \in InHand, Interrupt
    PROVE  Inv'
<1>0. /\ UNCHANGED <<script, n, only, pos, kept, file, results, got, missed>>
      /\ going' = FALSE /\ harm \subseteq harm'
      /\ pc' \in {"term", "idle"}
      /\ pc = "dump" => harm' \cap {"torn", "short"} # {}
  BY DEF Interrupt, Interrupted, Mishap, Gone, InTry, InHand
<1>t. Harmless' => pc' = "term" /\ strays' = strays
  BY DEF Interrupt, Interrupted, Mishap, Harmless, Dropped, InTry, InHand
<1>1. TypeOK' /\ Spared' /\ Remade' /\ Accounted'
  BY HandStep, <1>0 DEF Interrupt, Interrupted, Mishap, Gone, InTry, Dropped, InHand, Inv, TypeOK
<1>2. Tidy'
  BY <1>0, <1>t DEF Interrupt, Interrupted, Mishap, Gone, InTry, Dropped, Inv, Tidy, Harmless, Still
<1>3. Owned'
  BY <1>0, RowsStayOwn DEF Inv, Owned, TakenBy, Harmless
<1> QED
  BY <1>1, <1>2, <1>3 DEF Inv
(* An interrupt between two candidates.                                    *)
LEMMA InterruptBetween ==
    ASSUME Inv, pc \in {"next", "lastopen", "lastdump"}, Interrupt
    PROVE  Inv'
<1>1. /\ UNCHANGED <<script, n, only, pos, kept, file, results, got, missed>>
      /\ going' = FALSE /\ harm \subseteq harm' /\ pc' = "idle"
      /\ strays' = strays \cup StillAlive /\ mine' = <<>>
      /\ pc = "lastdump" => harm' \cap {"torn", "short"} # {}
  BY DEF Interrupt, Interrupted, Mishap, Gone, InTry
<1>2. TypeOK' /\ Remade' /\ Accounted'
  BY <1>1 DEF Inv, TypeOK, Remade, SaysNow, Accounted, Between, InHand
<1>3. Spared'
  BY <1>1 DEF Inv, Spared
<1>4. Tidy'
  BY <1>1, NoneStillAlive DEF Inv, Tidy, Harmless, Still
<1>5. Owned'
  BY <1>1, RowsStayOwn DEF Inv, Owned, TakenBy, Harmless
<1> QED
  BY <1>2, <1>3, <1>4, <1>5 DEF Inv

(* save() raises.                                                          *)
LEMMA SaveRaisesStep ==
    ASSUME Inv, NEW inTry, SaveRaises(inTry)
    PROVE  Inv'
<1>1. CASE pc \in {"open", "dump"}
  <2>0. RowWritten /\ results'[cand].run = results[cand].run
                   /\ results'[cand].by = results[cand].by
    BY <1>1, ErrorJoins DEF SaveRaises
  <2>r. Harmless => OwnRow(results'[cand])
    BY <2>0, <1>1, CandIsThere DEF Inv, Owned, OwnRow
  <2>1. /\ UNCHANGED <<script, n, only, pos, mine, strays, file, got, kept, missed>>
        /\ pc' \in {"open", "term"}
        /\ harm \subseteq harm'
        /\ pc = "dump" => harm' \cap {"torn", "short"} # {}
    BY <1>1 DEF SaveRaises, Mishap
  <2>g. going' = going \/ going' = FALSE
    BY <1>1 DEF SaveRaises
  <2>h. going' \in BOOLEAN /\ (going' => going)
    <3>1. going \in BOOLEAN
      BY DEF Inv, TypeOK
    <3>2. CASE going' = going
      BY <3>1, <3>2
    <3>3. CASE going' = FALSE
      BY <3>3
    <3> QED
      BY <2>g, <3>2, <3>3
  <2>a. got' \in {"nobody", "own", "other", "lost"}
    BY <2>1 DEF Inv, TypeOK
  <2>b. pc \in InHand /\ pc' \in InHand /\ pc' # "idle" /\ missed' = missed
    BY <1>1, <2>1 DEF InHand
  <2>2. TypeOK' /\ Spared' /\ Remade' /\ Accounted'
    BY HandStep, <2>0, <2>1, <2>a, <2>b, <2>h
  <2>3. Tidy'
    BY <1>1, <2>1 DEF Inv, Tidy, Harmless, Still
  <2>4. Owned'
    BY RowsStayOwn, <1>1, <2>0, <2>1, <2>r DEF Inv, Owned, TakenBy, Harmless
  <2> QED
    BY <2>2, <2>3, <2>4 DEF Inv
<1>2. CASE pc \in {"lastopen", "lastdump"}
  <2>1. /\ UNCHANGED <<script, n, only, pos, kept, file, results, got, missed>>
        /\ going' = FALSE /\ harm \subseteq harm' /\ pc' = "idle"
        /\ strays' = strays \cup StillAlive /\ mine' = <<>>
        /\ pc = "lastdump" => harm' \cap {"torn", "short"} # {}
    BY <1>2 DEF SaveRaises, Mishap, Gone
  <2>2. TypeOK' /\ Remade' /\ Accounted'
    BY <1>2, <2>1 DEF Inv, TypeOK, Remade, SaysNow, Accounted, Between, InHand
  <2>3. Spared'
    BY <1>2, <2>1 DEF Inv, Spared
  <2>4. Tidy'
    BY <1>2, <2>1, NoneStillAlive DEF Inv, Tidy, Harmless, Still
  <2>5. Owned'
    BY <1>2, <2>1, RowsStayOwn DEF Inv, Owned, TakenBy, Harmless
  <2> QED
    BY <2>2, <2>3, <2>4, <2>5 DEF Inv
<1> QED
  BY <1>1, <1>2 DEF SaveRaises

(* save(), with a candidate in hand and after the last.                    *)
LEMMA TruncateStep ==
    ASSUME Inv, NEW here, NEW there, Truncate(here, there),
           <<here, there>> \in {<<"open", "dump">>, <<"lastopen", "lastdump">>}
    PROVE  Inv'
<1>1. /\ UNCHANGED <<script, n, only, pos, going, mine, strays, results, got,
                     harm, kept, missed>>
      /\ file' = Torn
      /\ \/ pc = "open" /\ pc' = "dump"
         \/ pc = "lastopen" /\ pc' = "lastdump"
  BY DEF Truncate, Go
<1>2. TypeOK' /\ Remade' /\ Spared'
  BY <1>1 DEF Inv, TypeOK, Remade, SaysNow, Spared, Between, InHand
<1>3. Accounted'
  BY <1>1 DEF Inv, Accounted, Behind, Owing, Done, SaysNow
<1>4. Tidy'
  BY <1>1 DEF Inv, Tidy, Harmless, Still
<1>5. Owned'
  BY <1>1, RowsStayOwn DEF Inv, Owned, TakenBy, Harmless
<1> QED
  BY <1>2, <1>3, <1>4, <1>5 DEF Inv

(* The second half of a save writes the rows whole.                        *)
LEMMA DumpStep ==
    ASSUME Inv, NEW here, NEW there, Dump(here, there), script \in Measures,
           <<here, there>> \in {<<"dump", "term">>, <<"lastdump", "idle">>}
    PROVE  Inv'
<1>1. /\ UNCHANGED <<script, n, only, pos, going, mine, strays, results, got,
                     harm, kept, missed>>
      /\ file' = results
      /\ \/ pc = "dump" /\ pc' = "term"
         \/ pc = "lastdump" /\ pc' = "idle"
  BY DEF Dump, Go
<1>2. TypeOK' /\ Remade'
  BY <1>1 DEF Inv, TypeOK, Remade, SaysNow, Between, InHand
<1>3. Spared'
  BY <1>1, RowsAreRows DEF Inv, TypeOK, Spared
<1>4. Accounted'
  <2>1. \A c : Done(c)' = Done(c)
    BY <1>1 DEF Done, SaysNow
  <2>2. CASE pc' = "term"
    BY <1>1, <2>1, <2>2 DEF Inv, Accounted, Behind, Owing
  <2>3. CASE pc' = "idle"
    <3>1. \A c \in only : \E i \in 1..Len(Order) : Order[i] = c
      BY CandsAssumption DEF Inv, TypeOK
    <3> QED
      BY <1>1, <2>1, <2>3, <3>1 DEF Inv, Accounted, Behind
  <2> QED
    BY <1>1, <2>2, <2>3
<1>5. Tidy'
  BY <1>1 DEF Inv, Tidy, Harmless, Still
<1>6. Owned'
  BY <1>1, RowsStayOwn DEF Inv, Owned, TakenBy, Harmless
<1> QED
  BY <1>2, <1>3, <1>4, <1>5, <1>6 DEF Inv

(* The next candidate, or the end of the loop.                             *)
LEMMA NextCandidateStep ==
    ASSUME Inv, NEW end, NextCandidate("start", end),
           \/ end = "lastopen" /\ script \in Measures
           \/ end = "idle" /\ script \notin Measures
    PROVE  Inv'
<1>1. /\ UNCHANGED <<script, n, only, going, results, file, harm, kept, missed>>
      /\ pc = "next" /\ mine' = <<>> /\ got' = "nobody"
      /\ strays' = strays \cup StillAlive
  BY DEF NextCandidate, NoneTaken
<1>2. TypeOK /\ n > 0
  BY <1>1 DEF Inv, TypeOK
<1>3. Tidy'
  BY <1>1, NoneStillAlive DEF Inv, Tidy, Harmless, Still
<1>4. Remade'
  BY <1>1 DEF Inv, Remade, SaysNow
<1>5. \A c : Done(c)' = Done(c)
  BY <1>1 DEF Done, SaysNow
<1>6. \A i \in 1..Len(Order) : going /\ i <= pos /\ Order[i] \in only => Done(Order[i])
  BY <1>1, <1>2 DEF Inv, TypeOK, Accounted, Behind, Owing
<1>7. CASE More
  <2>1. \E i \in (pos + 1)..Len(Order) :
            /\ Order[i] \in only
            /\ \A j \in (pos + 1)..(i - 1) : Order[j] \notin only
    <3> DEFINE S == {i \in (pos + 1)..Len(Order) : Order[i] \in only}
    <3>1. S \in SUBSET Nat /\ S # {}
      BY <1>2, <1>7, OrderFacts DEF More, TypeOK
    <3>2. PICK i \in S : \A j \in S : i <= j
      <4> HIDE DEF S
      <4> QED BY <3>1, LeastNumber
    <3>3. \A j \in (pos + 1)..(i - 1) : j \notin S
      BY <1>2, <3>2, OrderFacts DEF TypeOK
    <3>4. \A j \in (pos + 1)..(i - 1) : Order[j] \notin only
      BY <1>2, <3>2, <3>3, OrderFacts DEF TypeOK
    <3> QED
      BY <3>2, <3>4
  <2>2. /\ pc' = "start"
        /\ pos' \in (pos + 1)..Len(Order) /\ Order[pos'] \in only
        /\ \A j \in (pos + 1)..(pos' - 1) : Order[j] \notin only
    BY <1>7, <2>1 DEF NextCandidate
  <2>3. pos' \in 0..Len(Order) /\ pos' > pos /\ pos' > 0
    BY <1>2, <2>2, OrderFacts DEF TypeOK
  <2>4. TypeOK'
    BY <1>1, <1>2, <2>2, <2>3 DEF TypeOK, InHand
  <2>5. Accounted'
    <3> SUFFICES ASSUME going, NEW i \in 1..Len(Order), i < pos', Order[i] \in only
                 PROVE  Done(Order[i])
      BY <1>1, <1>5, <2>2, <2>3 DEF Accounted, Behind
    <3>1. pos \in Nat /\ pos' \in Nat /\ i \in Nat
      BY <1>2, <2>3, OrderFacts DEF TypeOK
    <3>2. i \notin (pos + 1)..(pos' - 1)
      BY <2>2
    <3>n. \A a, b, c \in Nat : a < c /\ a \notin (b + 1)..(c - 1) => a <= b
      OBVIOUS
    <3>3. i <= pos
      BY <3>1, <3>2, <3>n
    <3> QED
      BY <1>6, <3>3
  <2>6. Owned' /\ Spared'
    BY <1>1, <2>2, RowsStayOwn DEF Inv, Owned, Spared, TakenBy, Harmless
  <2> QED
    BY <1>3, <1>4, <2>4, <2>5, <2>6 DEF Inv
<1>8. CASE ~More
  <2>1. pos' = pos /\ pc' = end
    BY <1>8 DEF NextCandidate
  <2>2. TypeOK'
    BY <1>1, <1>2, <2>1 DEF TypeOK, InHand, Between
  <2>3. \A i \in 1..Len(Order) : Order[i] \in only => i <= pos
    BY <1>2, <1>8, OrderFacts DEF More, TypeOK
  <2>4. \A i \in 1..Len(Order) : going /\ Order[i] \in only => Done(Order[i])
    BY <1>6, <2>3
  <2>5. \A c \in only : \E i \in 1..Len(Order) : Order[i] = c
    BY <1>2, CandsAssumption DEF TypeOK
  <2>6. Accounted'
    BY <1>1, <1>5, <2>1, <2>4, <2>5 DEF Accounted
  <2>7. Owned' /\ Spared'
    BY <1>1, <2>1, RowsStayOwn DEF Inv, Owned, Spared, TakenBy, Harmless
  <2> QED
    BY <1>3, <1>4, <2>2, <2>6, <2>7 DEF Inv
<1> QED
  BY <1>7, <1>8

(* main(), of each script.                                                 *)
LEMMA BeginStep ==
    ASSUME Inv,
           \/ \E asked \in SUBSET Cands : /\ script \in {"http", "s3"}
                                          /\ HttpBegin(asked)
           \/ \E asked \in SUBSET Cands : script = "ws" /\ WsBegin(asked)
           \/ \E servers \in SUBSET Cands : /\ script \notin Measures
                                            /\ CheckBegin(servers)
    PROVE  Inv'
<1>1. /\ UNCHANGED <<script, mine, strays, file, got, harm>>
      /\ pc = "idle" /\ pc' = "next" /\ n' = n + 1 /\ only' \subseteq Cands
      /\ pos' = 0 /\ missed' = {} /\ going' = TRUE
      /\ kept' = IF file = Torn THEN kept ELSE file
  BY DEF HttpBegin, WsBegin, CheckBegin, Go, NoteKept
<1>2. \/ results' = NoRows /\ (script \in Measures => only' = Cands)
      \/ results' = Loaded
  BY DEF HttpBegin, WsBegin, CheckBegin, Measures
<1>3. TypeOK
  BY DEF Inv
<1>4. TypeOK'
  BY <1>1, <1>2, <1>3, RowsAreRows, OrderFacts
     DEF TypeOK, Loaded, InHand, Between
<1>5. Tidy'
  BY <1>1 DEF Inv, Tidy, Harmless, Still
<1>6. \A c \in Cands : results'[c] \in {kept'[c], NoRow}
  BY <1>1, <1>2, RowsAreRows DEF Loaded
<1>7. Remade'
  BY <1>1, <1>6 DEF Remade
<1>8. Accounted'
  BY <1>1, OrderFacts DEF Accounted, Behind
<1>9. Spared'
  BY <1>1, <1>2, RowsAreRows DEF Inv, Spared, Loaded
<1>10. ASSUME Harmless', NEW c \in Cands
       PROVE  OwnRow(results[c])' /\ (file' # Torn => OwnRow(file[c])')
  <2>1. file # Torn => OwnRow(file[c])
    BY <1>1, <1>10 DEF Inv, Owned, Harmless
  <2>2. OwnRow(NoRow)
    BY RowsAreRows DEF OwnRow
  <2>3. OwnRow(results'[c])
    BY <1>2, <2>1, <2>2, RowsAreRows DEF Loaded
  <2> QED
    BY <1>1, <2>1, <2>3 DEF OwnRow
<1>11. Harmless' => TakenBy'
  BY <1>1 DEF Inv, Owned, TakenBy, Harmless
<1>12. Owned'
  BY <1>10, <1>11 DEF Owned
<1> QED
  BY <1>4, <1>5, <1>7, <1>8, <1>9, <1>12 DEF Inv

(* The servers, on their own time.                                         *)
LEMMA ServerStep ==
    ASSUME Inv, \/ \E i \in DOMAIN mine : Server(i)
                \/ \E s \in strays : Stray(s)
    PROVE  Inv'
<1>1. UNCHANGED <<script, pc, n, only, pos, going, results, file, got, harm,
                  kept, missed>>
  BY DEF Server, Stray
<1>2. TypeOK' /\ Remade' /\ Spared'
  BY <1>1 DEF Inv, TypeOK, Remade, SaysNow, Spared
<1>3. Accounted'
  BY <1>1 DEF Inv, Accounted, Behind, Owing, Done, SaysNow
<1>4. Tidy'
  BY <1>1 DEF Inv, Tidy, Harmless, Server, Stray
<1>5. Owned'
  BY <1>1, RowsStayOwn DEF Inv, Owned, TakenBy, Harmless
<1> QED
  BY <1>2, <1>3, <1>4, <1>5 DEF Inv
-----------------------------------------------------------------------------
(* The scripts, each made of these steps.                                  *)
LEMMA HttpKeepsInv ==
    ASSUME Inv, script = "http", HttpNext
    PROVE  Inv'
<1>0. script \in Measures
  BY DEF Measures
<1>1. CASE \E asked \in SUBSET Cands : HttpBegin(asked)
  BY <1>1, BeginStep
<1>2. CASE NextCandidate("start", "lastopen")
  BY <1>0, <1>2, NextCandidateStep
<1>3. CASE Start("start", "wait") \/ Start("start2", "wait2")
  BY <1>3, StartStep
<1>4. CASE FirstPopenRaises \/ SecondPopenRaises
  BY <1>4, FirstPopenStep, SecondPopenStep
<1>5. CASE HttpWaitUp \/ HttpVerify \/ HttpBench \/ SecondWaitUp \/ Recorded
  BY <1>5, HttpWaitUpStep, HttpVerifyStep, HttpBenchStep, SecondWaitUpStep,
     RecordedStep
<1>6. CASE Terminate("term1", "kill1") \/ Terminate("term", "kill")
  BY <1>6, TerminateStep
<1>7. CASE Kill("kill1", "start2") \/ Kill("kill", Stopped)
  BY <1>7, KillStep
<1>8. CASE Failed("verify") \/ Failed("bench") \/ Failed("memory")
  BY <1>8, FailedStep
<1>9. CASE Spins("verify") \/ Spins("memory")
  BY <1>9, SpinsStep
<1>10. CASE Truncate("open", "dump") \/ Truncate("lastopen", "lastdump")
  BY <1>10, TruncateStep
<1>11. CASE Dump("dump", "term") \/ Dump("lastdump", "idle")
  BY <1>0, <1>11, DumpStep
<1>12. CASE HttpSaveRaises
  BY <1>12, SaveRaisesStep DEF HttpSaveRaises
<1> QED
  BY <1>1, <1>2, <1>3, <1>4, <1>5, <1>6, <1>7, <1>8, <1>9, <1>10, <1>11, <1>12
     DEF HttpNext

(* bench/compare-s3/drive.py keeps the invariant.                          *)
LEMMA S3KeepsInv ==
    ASSUME Inv, script = "s3", S3Next
    PROVE  Inv'
<1> USE DEF S3Begin, S3Start, S3Terminate, S3Kill, S3Truncate, S3Dump,
            S3Recorded, S3Failed
<1>0. script \in Measures
  BY DEF Measures
<1>1. CASE \E asked \in SUBSET Cands : S3Begin(asked)
  BY <1>1, BeginStep
<1>2. CASE NextCandidate("start", "lastopen")
  BY <1>0, <1>2, NextCandidateStep
<1>3. CASE S3Start("start", "wait") \/ S3Start("start2", "wait2")
  BY <1>3, StartStep
<1>4. CASE FirstPopenRaises \/ SecondPopenRaises
  BY <1>4, FirstPopenStep, SecondPopenStep
<1>5. CASE S3WaitUp \/ S3Verify \/ S3Bench \/ SecondWaitUp \/ S3Recorded
  BY <1>5, S3WaitUpStep, S3VerifyStep, S3BenchStep, SecondWaitUpStep,
     RecordedStep
<1>6. CASE S3Terminate("term1", "kill1") \/ S3Terminate("term", "kill")
  BY <1>6, TerminateStep
<1>7. CASE S3Kill("kill1", "start2") \/ S3Kill("kill", Stopped)
  BY <1>7, KillStep
<1>8. CASE S3Failed("verify") \/ S3Failed("bench") \/ S3Failed("memory")
  BY <1>8, FailedStep
<1>9. CASE Spins("memory")
  BY <1>9, SpinsStep
<1>10. CASE S3Truncate("open", "dump") \/ S3Truncate("lastopen", "lastdump")
  BY <1>10, TruncateStep
<1>11. CASE S3Dump("dump", "term") \/ S3Dump("lastdump", "idle")
  BY <1>0, <1>11, DumpStep
<1>12. CASE S3SaveRaises
  BY <1>12, SaveRaisesStep DEF S3SaveRaises
<1> QED
  BY <1>1, <1>2, <1>3, <1>4, <1>5, <1>6, <1>7, <1>8, <1>9, <1>10, <1>11, <1>12
     DEF S3Next

(* bench/ws_idle.py keeps the invariant.                                   *)
LEMMA WsKeepsInv ==
    ASSUME Inv, script = "ws", WsNext
    PROVE  Inv'
<1>0. script \in Measures
  BY DEF Measures
<1>1. CASE \E asked \in SUBSET Cands : WsBegin(asked)
  BY <1>1, BeginStep
<1>2. CASE NextCandidate("start", "lastopen")
  BY <1>0, <1>2, NextCandidateStep
<1>3. CASE Start("start", "wait") \/ WsPopenRaises
  BY <1>3, StartStep, WsPopenRaisesStep
<1>4. CASE WsWaitUp \/ WsMeasure
  BY <1>4, WsWaitUpStep, WsMeasureStep
<1>5. CASE WsNotUp \/ OpenWsFails \/ OpenHttpSpins
  BY <1>5, WsFailsStep, SpinsStep DEF WsNotUp, OpenWsFails, OpenHttpSpins
<1>6. CASE Terminate("term", "kill") \/ WsKill
  BY <1>6, TerminateStep, WsKillStep
<1>7. CASE Truncate("lastopen", "lastdump") \/ Dump("lastdump", "idle")
  BY <1>0, <1>7, TruncateStep, DumpStep
<1>8. CASE SaveRaises(FALSE)
  BY <1>8, SaveRaisesStep
<1> QED
  BY <1>1, <1>2, <1>3, <1>4, <1>5, <1>6, <1>7, <1>8 DEF WsNext

(* The check of shutdown keeps the invariant.                              *)
LEMMA ShutdownKeepsInv ==
    ASSUME Inv, script = "shutdown", ShutdownNext
    PROVE  Inv'
<1>0. script \notin Measures
  BY DEF Measures
<1>1. CASE CheckBegin(Cands)
  BY <1>0, <1>1, BeginStep
<1>2. CASE NextCandidate("start", "idle")
  BY <1>0, <1>2, NextCandidateStep
<1>3. CASE CheckStart("wait") \/ CheckPopenRaises
  BY <1>3, CheckStartStep, FirstPopenStep
<1>4. CASE Speak
  <2>1. Accepts /\ Harmless => WhoAnswers = "own"
    BY NobodyElse DEF Inv, Tidy
  <2>2. CASE Accepts /\ Answer("wait", "sigterm", WhoAnswers)
    BY <2>1, <2>2, SomebodyAnswers, AnswerStep
  <2> QED
    BY <1>4, <2>2, RaisesStep DEF Speak
<1>5. CASE SigTerm
  BY <1>5, TerminateStep DEF SigTerm
<1>6. CASE Exits
  <2>1. Harmless => got = "own"
    BY <1>6 DEF Inv, Owned, TakenBy, Exits, Conclude, Go
  <2>2. Conclude("patience", [run |-> n, by |-> got, err |-> 0])
    BY <1>6 DEF Exits, Good
  <2>3. got \in {"nobody", "own", "other", "lost"}
    BY DEF Inv, TypeOK
  <2> QED
    BY <2>1, <2>2, <2>3, GoodStep
<1>7. CASE Hangs
  BY <1>7, BadStep DEF Hangs
<1>8. CASE Kill("term", Stopped)
  BY <1>8, KillStep
<1> QED
  BY <1>1, <1>2, <1>3, <1>4, <1>5, <1>6, <1>7, <1>8 DEF ShutdownNext

(* The check of descriptors keeps the invariant.                           *)
LEMMA FdLimitKeepsInv ==
    ASSUME Inv, script = "fdlimit", FdLimitNext
    PROVE  Inv'
<1>0. script \notin Measures /\ {Order[1]} \in SUBSET Cands
      /\ got \in {"nobody", "own", "other", "lost"}
  BY OrderFacts DEF Measures, Inv, TypeOK
<1>1. CASE CheckBegin({Order[1]})
  BY <1>0, <1>1, BeginStep
<1>2. CASE NextCandidate("start", "idle")
  BY <1>0, <1>2, NextCandidateStep
<1>3. CASE CheckStart("wait") \/ CheckPopenRaises
  BY <1>3, CheckStartStep, FirstPopenStep
<1>4. CASE BeforeShortage
  BY <1>0, <1>4, AnswerStep, BadStep DEF BeforeShortage
<1>5. CASE DuringShortage
  BY <1>5, AnswerStep DEF DuringShortage
<1>6. CASE AfterShortage
  <2>1. CASE OneRequest /\ Conclude("after", [Good EXCEPT !.by = WhoAnswers])
    <3>1. Harmless => WhoAnswers = "own"
      BY <2>1, NobodyElse DEF Inv, Tidy, OneRequest
    <3>2. [Good EXCEPT !.by = WhoAnswers] =
              [run |-> n, by |-> WhoAnswers, err |-> 0]
      BY DEF Good
    <3> QED
      BY <2>1, <3>1, <3>2, SomebodyAnswers, GoodStep
  <2> QED
    BY <1>6, <2>1, BadStep DEF AfterShortage
<1>7. CASE Terminate("term", "kill") \/ Kill("kill", Stopped)
  BY <1>7, TerminateStep, KillStep
<1> QED
  BY <1>1, <1>2, <1>3, <1>4, <1>5, <1>6, <1>7 DEF FdLimitNext

(* The check of bursts keeps the invariant.                                *)
LEMMA BurstKeepsInv ==
    ASSUME Inv, script = "burst", BurstNext
    PROVE  Inv'
<1>0. script \notin Measures /\ {Order[1]} \in SUBSET Cands
      /\ got \in {"nobody", "own", "other", "lost"}
  BY OrderFacts DEF Measures, Inv, TypeOK
<1>1. CASE CheckBegin({Order[1]})
  BY <1>0, <1>1, BeginStep
<1>2. CASE NextCandidate("start", "idle")
  BY <1>0, <1>2, NextCandidateStep
<1>3. CASE CheckStart("warm") \/ CheckPopenRaises
  BY <1>3, CheckStartStep, FirstPopenStep
<1>4. CASE WarmUp \/ AnotherRound
  BY <1>0, <1>4, AnswerStep DEF WarmUp, AnotherRound
<1>5. CASE Burst
  <2>1. Accepts /\ Harmless => WhoAnswers = "own"
    BY NobodyElse DEF Inv, Tidy
  <2>2. CASE Accepts /\ Answer("burst", "rounds", WhoAnswers)
    BY <2>1, <2>2, SomebodyAnswers, AnswerStep
  <2>3. CASE Answer("burst", "rounds", "lost")
    BY <2>3, AnswerStep
  <2> QED
    BY <1>5, <2>2, <2>3 DEF Burst
<1>6. CASE BurstVerdict
  <2>1. CASE got # "lost" /\ Conclude("rounds", Good)
    <3>1. Harmless => got = "own"
      BY <2>1 DEF Inv, Owned, TakenBy, Conclude, Go
    <3>2. Conclude("rounds", [run |-> n, by |-> got, err |-> 0])
      BY <2>1 DEF Good
    <3> QED
      BY <1>0, <3>1, <3>2, GoodStep
  <2> QED
    BY <1>6, <2>1, BadStep DEF BurstVerdict
<1>7. CASE Terminate("term", "kill") \/ Kill("kill", Stopped)
  BY <1>7, TerminateStep, KillStep
<1> QED
  BY <1>1, <1>2, <1>3, <1>4, <1>5, <1>6, <1>7 DEF BurstNext

(* The dev loop's steps leave the scripts alone.                           *)
LEMMA StutterInv ==
    ASSUME Inv, UNCHANGED vars
    PROVE  Inv'
<1> USE DEF vars
<1>1. TypeOK' /\ Remade' /\ Spared' /\ Tidy'
  BY DEF Inv, TypeOK, Remade, SaysNow, Spared, Tidy, Harmless
<1>2. Accounted'
  BY DEF Inv, Accounted, Behind, Owing, Done, SaysNow
<1>3. Owned'
  BY RowsStayOwn DEF Inv, Owned, TakenBy, Harmless
<1> QED
  BY <1>1, <1>2, <1>3 DEF Inv

(* Every step keeps the scripts' invariant.                                *)
LEMMA NextKeepsInv ==
    ASSUME Inv, [Next]_<<vars, ndvars, ck>>
    PROVE  Inv'
<1>1. CASE Script
  BY <1>1, HttpKeepsInv, S3KeepsInv, WsKeepsInv, ShutdownKeepsInv,
     FdLimitKeepsInv, BurstKeepsInv DEF Script
<1>2. CASE Interrupt
  <2>1. pc \in InHand \/ pc \in {"next", "lastopen", "lastdump"}
    BY <1>2 DEF Interrupt, InTry, InHand
  <2> QED
    BY <1>2, <2>1, InterruptInHand, InterruptBetween
<1>3. CASE Outside
  BY <1>2, <1>3, ServerStep DEF Outside
<1>4. CASE UNCHANGED vars
  BY <1>4, StutterInv
<1> QED
  BY <1>1, <1>3, <1>4 DEF Next

(* The scripts start in it.                                                *)
LEMMA InitKeepsInv == Init => Inv
<1> SUFFICES ASSUME Init PROVE Inv
  OBVIOUS
<1> USE DEF Init, InitServers
<1>1. TypeOK
  BY RowsAreRows, OrderFacts DEF TypeOK, Between, InHand, NoneTaken
<1>2. Tidy /\ Remade /\ Accounted
  BY DEF Tidy, Remade, Accounted
<1>3. Spared
  BY RowsAreRows DEF Spared
<1>4. Owned
  BY RowsAreRows DEF Owned, TakenBy, OwnRow, NoneTaken
<1> QED
  BY <1>1, <1>2, <1>3, <1>4 DEF Inv
-----------------------------------------------------------------------------
(* nilo-dev and its check.  A new stamp is one that nobody remembers.      *)
LEMMA NewStamp ==
    ASSUME LoopTypeOK, NEW v \in Versions
    PROVE  /\ Written(v) \in [v : Versions, t : Nat]
           /\ Written(v).v = v
           /\ Written(v).t \notin {0, exe.t, nd.serving, nd.pending, nd.seen}
<1> DEFINE new == CHOOSE t \in 1..5 :
                      t \notin {exe.t, nd.serving, nd.pending, nd.seen}
<1>1. \A a, b, c, d \in Nat : \E t \in 1..5 : t \notin {a, b, c, d}
  <2> SUFFICES ASSUME NEW a \in Nat, NEW b \in Nat, NEW c \in Nat, NEW d \in Nat
               PROVE  \E t \in 1..5 : t \notin {a, b, c, d}
    OBVIOUS
  <2>1. 1 \in 1..5 /\ 2 \in 1..5 /\ 3 \in 1..5 /\ 4 \in 1..5 /\ 5 \in 1..5
    OBVIOUS
  <2> QED
    BY <2>1
<1>2. exe.t \in Nat /\ nd.serving \in Nat /\ nd.pending \in Nat /\ nd.seen \in Nat
  BY DEF LoopTypeOK
<1>3. \E t \in 1..5 : t \notin {exe.t, nd.serving, nd.pending, nd.seen}
  BY <1>1, <1>2
<1>4. new \in 1..5 /\ new \notin {exe.t, nd.serving, nd.pending, nd.seen}
  BY <1>3
<1>5. Written(v) = [v |-> v, t |-> new]
  BY DEF Written
<1> HIDE DEF new
<1> QED
  BY <1>4, <1>5

(* A step of nilo-dev, its build or its server.                            *)
LEMMA LoopStep ==
    ASSUME LoopTypeOK, LoopPlaced, ServedIsHashed, ServerIsCurrent, LoopNext
    PROVE  /\ LoopTypeOK' /\ LoopPlaced' /\ ServedIsHashed' /\ ServerIsCurrent'
           /\ source' = source /\ (nd.at = "off" => nd'.at = "off")
<1>0. NoVersion \notin {Original, Stale, Probed}
  BY VersionsAssumption
<1> USE DEF LoopTypeOK, LoopPlaced, ServedIsHashed, ServerIsCurrent, Stamp, Versions, At
<1>1. CASE RemoveStale
  BY <1>0, <1>1 DEF RemoveStale, RemoveExe
<1>2. CASE BuildOnce
  BY <1>0, <1>2, NewStamp DEF BuildOnce, RemoveExe
<1>3. CASE StartWatch
  BY <1>0, <1>3 DEF StartWatch
<1>4. CASE WatchFails
  BY <1>0, <1>4 DEF WatchFails, Fresh
<1>5. CASE WatchHits
  BY <1>0, <1>5 DEF WatchHits, Fresh
<1>6. CASE WatchWrites
  BY <1>0, <1>6, NewStamp DEF WatchWrites, Fresh
<1>7. CASE WatchDies
  BY <1>0, <1>7 DEF WatchDies
<1>8. CASE ServerDies
  BY <1>0, <1>8 DEF ServerDies
<1>9. CASE Look
  BY <1>0, <1>9 DEF Look
<1>10. CASE Hash
  BY <1>0, <1>10 DEF Hash, SameBytes, Settled
<1>11. CASE Drain
  BY <1>0, <1>11 DEF Drain
<1>12. CASE StartServer
  <2>1. /\ nd.at = "start" /\ nd.seen # 0 /\ running = NoVersion
        /\ UNCHANGED <<source, exe>>
    BY <1>12 DEF StartServer
  <2>2. CASE /\ nd' = StartedNew(nd) /\ running' = exe.v
             /\ swapped' = (exe.v # nd.hash)
    <3>1. /\ nd'.at = "poll" /\ nd'.serving = nd.seen /\ nd'.digest = nd.hash
      BY <2>2 DEF StartedNew, Settled
    <3>2. LoopTypeOK'
      BY <2>1, <2>2 DEF StartedNew, Settled
    <3> QED
      BY <2>1, <2>2, <3>1, <3>2
  <2>3. CASE nd' = Settled(nd) /\ UNCHANGED <<running, swapped>>
    <3>1. nd'.at = "poll" /\ LoopTypeOK'
      BY <2>1, <2>3 DEF Settled
    <3> QED
      BY <2>1, <2>3, <3>1
  <2> QED
    BY <1>12, <2>2, <2>3 DEF StartServer
<1>13. CASE WayOut
  BY <1>0, <1>13 DEF WayOut, Meets
<1> QED
  BY <1>1, <1>2, <1>3, <1>4, <1>5, <1>6, <1>7, <1>8, <1>9, <1>10, <1>11,
     <1>12, <1>13 DEF LoopNext

(* The loop's steps do not touch what the check holds.                     *)
LEMMA LoopLeavesCheck ==
    ASSUME CheckTypeOK, LoopSteps
    PROVE  /\ CheckTypeOK' /\ ck'.step = ck.step /\ ck'.outside = ck.outside
           /\ ck'.hurt = ck.hurt
BY DEF CheckTypeOK, LoopSteps

(* A step of the check.                                                    *)
CheckSteps ==
    \/ Reader
    \/ MakeStale \/ PopenLoop \/ PopenLoopRaises
    \/ WaitFor("first", "started", "settling") \/ ExitAt("first")
    \/ QuietFor("settling", "back", Seen("restarted", 0)) \/ ExitAt("settling")
    \/ Touch("back", Original, "restoring")
    \/ WaitFor("restoring", "restarted", "quieting")
    \/ WaitEnds("restoring", "quieting")
    \/ QuietFor("quieting", "settled", FALSE) \/ ExitAt("quieting")
    \/ TouchOutside \/ Watched
    \/ Touch("inside", Probed, "restarting")
    \/ WaitFor("restarting", "restarted", "undoing")
    \/ WaitEnds("restarting", "undoing")
    \/ Touch("undoing", Original, "landing")
    \/ Concluded
    \/ PutBack \/ StopLoop \/ Reap \/ CtrlC

(* A version saved, with no server of the loop's concerned.                *)
LEMMA SaveKeepsLoop ==
    ASSUME LoopTypeOK, LoopPlaced, ServedIsHashed, ServerIsCurrent,
           source' \in Versions \ {NoVersion},
           UNCHANGED <<exe, nd, running, swapped>>
    PROVE  LoopTypeOK' /\ LoopPlaced' /\ ServedIsHashed' /\ ServerIsCurrent'
BY DEF LoopTypeOK, LoopPlaced, ServedIsHashed, ServerIsCurrent, Stamp

(* A signal, which moves the loop only before it runs and once it is over. *)
LEMMA SignalKeepsLoop ==
    ASSUME LoopTypeOK, LoopPlaced, ServedIsHashed, ServerIsCurrent,
           \/ nd.at = "off" /\ nd' = [nd EXCEPT !.at = "boot"]
           \/ nd' = [nd EXCEPT !.stopping = TRUE]
           \/ nd' = [nd EXCEPT !.at = "done"],
           UNCHANGED <<source, exe, running, swapped>>
    PROVE  LoopTypeOK' /\ LoopPlaced' /\ ServedIsHashed' /\ ServerIsCurrent'
<1>1. LoopTypeOK'
  BY DEF LoopTypeOK
<1>2. /\ nd'.serving = nd.serving /\ nd'.digest = nd.digest /\ nd'.seen = nd.seen
      /\ \/ nd.at = "off" /\ nd'.at = "boot"
         \/ nd'.at = nd.at
         \/ nd'.at = "done"
  BY DEF LoopTypeOK
<1> QED
  BY <1>1, <1>2 DEF LoopPlaced, ServedIsHashed, ServerIsCurrent, Stamp

(* The check's steps keep the dev loop's invariant.                        *)
LEMMA CheckKeepsInv ==
    ASSUME LoopInv, CheckSteps
    PROVE  LoopInv'
<1> DEFINE LoopOK == LoopTypeOK /\ LoopPlaced /\ ServedIsHashed /\ ServerIsCurrent
           CheckOK == /\ CheckTypeOK /\ FilesPutBack
                      /\ ck.step \in {"off", "popen"} => nd.at = "off"
<1>0. LoopOK /\ CheckOK
  BY DEF LoopInv
<1>v. {Original, Stale, Probed} \subseteq Versions \ {NoVersion}
  BY VersionsAssumption DEF Versions
<1> SUFFICES LoopOK' /\ CheckOK'
  BY DEF LoopInv
<1>1. ASSUME UNCHANGED ndvars PROVE LoopOK' /\ nd' = nd /\ source' = source
  BY <1>0, <1>1, SaveKeepsLoop DEF ndvars, LoopTypeOK
<1> USE DEF Stepping, Save, Signal
<1> HIDE DEF LoopOK
<1>2. LoopOK'
  <2>1. CASE \E from, next : Stepping(from, next)
    BY <1>1, <2>1
  <2>2. CASE Reader
    BY <1>1, <2>2 DEF Reader
  <2>3. CASE \E from, next : \E v \in {Original, Stale, Probed} : Save(from, next, v)
    BY <1>0, <1>v, <2>3, SaveKeepsLoop DEF LoopOK
  <2>4. CASE PopenLoop \/ StopLoop \/ Reap
    BY <1>0, <2>4, SignalKeepsLoop DEF LoopOK, PopenLoop, StopLoop, Reap
  <2> QED
    BY <2>1, <2>2, <2>3, <2>4
       DEF CheckSteps, MakeStale, PopenLoopRaises, WaitFor, ExitAt, QuietFor,
           Touch, WaitEnds, TouchOutside, Watched, Concluded, PutBack, CtrlC
<1>3. CheckOK'
  <2> USE <1>0, <1>1 DEF CheckTypeOK, FilesPutBack
  <2>1. CASE Reader
    BY <2>1 DEF Reader
  <2>2. CASE MakeStale \/ PopenLoop \/ PopenLoopRaises
    BY <2>2 DEF MakeStale, PopenLoop, PopenLoopRaises
  <2>3. CASE \/ WaitFor("first", "started", "settling")
             \/ WaitFor("restoring", "restarted", "quieting")
             \/ WaitFor("restarting", "restarted", "undoing")
    BY <2>3 DEF WaitFor
  <2>4. CASE ExitAt("first") \/ ExitAt("settling") \/ ExitAt("quieting")
    BY <2>4 DEF ExitAt
  <2>5. CASE \/ QuietFor("settling", "back", Seen("restarted", 0))
             \/ QuietFor("quieting", "settled", FALSE)
    BY <2>5 DEF QuietFor
  <2>6. CASE \/ Touch("back", Original, "restoring")
             \/ Touch("inside", Probed, "restarting")
             \/ Touch("undoing", Original, "landing")
    BY <2>6 DEF Touch
  <2>7. CASE WaitEnds("restoring", "quieting") \/ WaitEnds("restarting", "undoing")
    BY <2>7 DEF WaitEnds
  <2>8. CASE TouchOutside \/ Watched \/ Concluded
    BY <2>8 DEF TouchOutside, Watched, Concluded
  <2>9. CASE PutBack \/ StopLoop \/ Reap
    BY <2>9 DEF PutBack, StopLoop, Reap
  <2>10. CASE CtrlC
    BY <2>10 DEF CtrlC
  <2> QED
    BY <2>1, <2>2, <2>3, <2>4, <2>5, <2>6, <2>7, <2>8, <2>9, <2>10
       DEF CheckSteps
<1> QED
  BY <1>2, <1>3

(* Every step keeps the dev loop's invariant.                              *)
LEMMA NextKeepsLoopInv ==
    ASSUME LoopInv, [Next]_<<vars, ndvars, ck>>
    PROVE  LoopInv'
<1>1. CASE LoopSteps
  <2>1. LoopNext
    BY <1>1 DEF LoopSteps
  <2>2. /\ LoopTypeOK' /\ LoopPlaced' /\ ServedIsHashed' /\ ServerIsCurrent'
        /\ source' = source /\ (nd.at = "off" => nd'.at = "off")
    BY <2>1, LoopStep DEF LoopInv
  <2>3. /\ CheckTypeOK' /\ ck'.step = ck.step /\ ck'.outside = ck.outside
        /\ ck'.hurt = ck.hurt
    BY <1>1, LoopLeavesCheck DEF LoopInv
  <2> QED
    BY <2>2, <2>3 DEF LoopInv, FilesPutBack
<1>2. CASE CheckSteps
  BY <1>2, CheckKeepsInv
<1>3. CASE UNCHANGED <<ndvars, ck>>
  <2>1. LoopTypeOK' /\ LoopPlaced' /\ ServedIsHashed' /\ ServerIsCurrent'
    BY <1>3, SaveKeepsLoop DEF LoopInv, LoopTypeOK, ndvars
  <2> QED
    BY <1>3, <2>1 DEF LoopInv, CheckTypeOK, FilesPutBack, ndvars
<1>4. DevNext => LoopSteps \/ CheckSteps
  BY DEF DevNext, CheckSteps
<1> QED
  BY <1>1, <1>2, <1>3, <1>4 DEF Next

(* The loop's own steps, once it is over.                                  *)
LEMMA LoopStaysOver ==
    ASSUME LoopTypeOK, LoopNext,
           nd.at = "done" => running = NoVersion /\ watch # "up"
    PROVE  nd'.at = "done" => running' = NoVersion /\ watch' # "up"
<1> USE DEF LoopTypeOK, At
<1>1. CASE RemoveStale \/ BuildOnce \/ StartWatch
  BY <1>1 DEF RemoveStale, BuildOnce, StartWatch
<1>2. CASE WatchFails \/ WatchHits \/ WatchWrites \/ WatchDies \/ ServerDies
  BY <1>2 DEF WatchFails, WatchHits, WatchWrites, WatchDies, ServerDies, Fresh
<1>3. CASE Look \/ Hash \/ Drain
  BY <1>3 DEF Look, Hash, Drain, Settled
<1>4. CASE StartServer
  BY <1>4 DEF StartServer, StartedNew, Settled
<1>5. CASE WayOut
  BY <1>5 DEF WayOut
<1> QED
  BY <1>1, <1>2, <1>3, <1>4, <1>5 DEF LoopNext

(* Every step keeps a loop that is over without its build and its server.  *)
LEMMA NextKeepsOver ==
    ASSUME LoopInv, LoopOver, [Next]_<<vars, ndvars, ck>>
    PROVE  LoopOver'
<1> USE DEF LoopOver
<1>0. LoopTypeOK /\ CheckTypeOK
  BY DEF LoopInv
<1>1. CASE LoopSteps
  <2>1. LoopNext /\ ck.step # "gone"
    BY <1>1 DEF LoopSteps
  <2>2. ck'.step = ck.step
    BY <1>0, <1>1, LoopLeavesCheck
  <2>3. nd'.at = "done" => running' = NoVersion /\ watch' # "up"
    BY <1>0, <2>1, LoopStaysOver
  <2> QED
    BY <2>1, <2>2, <2>3
<1>2. CASE UNCHANGED <<ndvars, ck>>
  BY <1>2 DEF ndvars
<1>3. CASE CheckSteps
  <2> USE <1>0 DEF CheckTypeOK, LoopTypeOK, Stepping, Save, Signal
  <2>1. CASE Reader
    BY <2>1 DEF Reader, ndvars
  <2>2. CASE MakeStale \/ PopenLoop \/ PopenLoopRaises
    BY <2>2 DEF MakeStale, PopenLoop, PopenLoopRaises, ndvars
  <2>3. CASE \/ WaitFor("first", "started", "settling")
             \/ WaitFor("restoring", "restarted", "quieting")
             \/ WaitFor("restarting", "restarted", "undoing")
    BY <2>3 DEF WaitFor, ndvars
  <2>4. CASE ExitAt("first") \/ ExitAt("settling") \/ ExitAt("quieting")
    BY <2>4 DEF ExitAt, ndvars
  <2>5. CASE \/ QuietFor("settling", "back", Seen("restarted", 0))
             \/ QuietFor("quieting", "settled", FALSE)
    BY <2>5 DEF QuietFor, ndvars
  <2>6. CASE \/ Touch("back", Original, "restoring")
             \/ Touch("inside", Probed, "restarting")
             \/ Touch("undoing", Original, "landing")
    BY <2>6 DEF Touch
  <2>7. CASE WaitEnds("restoring", "quieting") \/ WaitEnds("restarting", "undoing")
    BY <2>7 DEF WaitEnds, ndvars
  <2>8. CASE TouchOutside \/ Watched \/ Concluded
    BY <2>8 DEF TouchOutside, Watched, Concluded, ndvars
  <2>9. CASE PutBack \/ StopLoop
    BY <2>9 DEF PutBack, StopLoop
  <2>10. CASE Reap
    BY <2>10 DEF Reap
  <2>11. CASE CtrlC
    BY <2>11 DEF CtrlC, ndvars
  <2> QED
    BY <1>3, <2>1, <2>2, <2>3, <2>4, <2>5, <2>6, <2>7, <2>8, <2>9, <2>10, <2>11
       DEF CheckSteps
<1>4. DevNext => LoopSteps \/ CheckSteps
  BY DEF DevNext, CheckSteps
<1> QED
  BY <1>1, <1>2, <1>3, <1>4 DEF Next

(* The dev loop starts in it.                                              *)
LEMMA InitKeepsLoopInv == Init => LoopInv
<1> SUFFICES ASSUME Init PROVE LoopInv
  OBVIOUS
<1> USE DEF Init, DevInit, LoopInit
<1>1. LoopTypeOK
  BY VersionsAssumption DEF LoopTypeOK, Versions
<1>2. CheckTypeOK
  BY DEF CheckTypeOK
<1>3. LoopPlaced /\ ServedIsHashed /\ FilesPutBack /\ ServerIsCurrent
  BY DEF LoopPlaced, ServedIsHashed, FilesPutBack, ServerIsCurrent
<1> QED
  BY <1>1, <1>2, <1>3 DEF LoopInv
-----------------------------------------------------------------------------
(* The check's verdict.                                                    *)
(* What a step of the loop does to what the check holds.                   *)
SameCheck ==
    /\ ck'.step = ck.step /\ ck'.read = ck.read /\ ck'.mark = ck.mark
    /\ ck'.outside = ck.outside /\ ck'.verdict = ck.verdict
    /\ ck'.failures = ck.failures /\ ck'.hasty = ck.hasty

(* A step of the loop leaves the check where it was.                       *)
LEMMA LoopEffect ==
    ASSUME CheckTypeOK, LoopSteps
    PROVE  /\ LoopNext /\ SameCheck /\ ck.step # "gone"
           /\ ck'.moved => ck.moved \/ (ck.outside /\ nd.at = "start")
           /\ ck.tried => ck'.tried
           /\ running' = Probed => ck'.tried
<1>1. LoopNext /\ SameCheck /\ ck.step # "gone"
  BY DEF CheckTypeOK, LoopSteps, SameCheck
<1>2. /\ ck'.moved = (ck.moved \/ (ck.outside /\ nd.at = "start" /\ nd'.server))
      /\ ck'.tried = (ck.tried \/ running' = Probed)
  BY DEF CheckTypeOK, LoopSteps
<1> QED
  BY <1>1, <1>2

(* Where a step of the loop leaves it, its build and its server.           *)
LEMMA LoopKeepsWay ==
    ASSUME LoopTypeOK, LoopPlaced, LoopUnderWay, LoopNext
    PROVE  LoopUnderWay'
<1>0. NoVersion \notin {Original, Stale, Probed}
  BY VersionsAssumption
<1> USE DEF LoopTypeOK, LoopPlaced, LoopUnderWay, Versions, At, Meets
<1>1. CASE RemoveStale
  BY <1>0, <1>1 DEF RemoveStale, RemoveExe
<1>2. CASE BuildOnce
  BY <1>0, <1>2, NewStamp DEF BuildOnce, RemoveExe
<1>3. CASE StartWatch
  BY <1>0, <1>3 DEF StartWatch
<1>4. CASE WatchFails
  BY <1>0, <1>4 DEF WatchFails, Fresh
<1>5. CASE WatchHits
  BY <1>0, <1>5 DEF WatchHits, Fresh
<1>6. CASE WatchWrites
  BY <1>0, <1>6, NewStamp DEF WatchWrites, Fresh
<1>7. CASE WatchDies
  BY <1>0, <1>7 DEF WatchDies
<1>8. CASE ServerDies
  BY <1>0, <1>8 DEF ServerDies
<1>9. CASE Look
  BY <1>0, <1>9 DEF Look
<1>10. CASE Hash
  BY <1>0, <1>10 DEF Hash, SameBytes, Settled
<1>11. CASE Drain
  BY <1>0, <1>11 DEF Drain
<1>12. CASE StartServer
  BY <1>0, <1>12 DEF StartServer, StartedNew, Settled
<1>13. CASE WayOut
  BY <1>0, <1>13 DEF WayOut, Meets
<1> QED
  BY <1>1, <1>2, <1>3, <1>4, <1>5, <1>6, <1>7, <1>8, <1>9, <1>10, <1>11,
     <1>12, <1>13 DEF LoopNext

(* The steps of the loop print nothing, or one line.                       *)
Prints == /\ nd.at = "start" /\ nd' = StartedNew(nd) /\ running' = exe.v
          /\ exe.v # NoVersion
          /\ said' = Append(said, IF nd.once THEN "restarted" ELSE "started")

(* A line is printed when a server is started, and not otherwise.          *)
LEMMA LoopLines ==
    ASSUME LoopTypeOK, LoopNext
    PROVE  \/ Prints /\ nd'.once
           \/ said' = said /\ nd'.once = nd.once
<1> USE DEF LoopTypeOK, At
<1>1. CASE StartServer
  BY <1>1 DEF StartServer, Says, StartedNew, Settled, Prints
<1>2. CASE Hash
  BY <1>2 DEF Hash, Settled
<1>3. CASE RemoveStale \/ BuildOnce \/ StartWatch \/ WatchFails \/ WatchHits
           \/ WatchWrites \/ WatchDies \/ ServerDies \/ Look \/ Drain \/ WayOut
  BY <1>3 DEF RemoveStale, BuildOnce, StartWatch, WatchFails, WatchHits,
              WatchWrites, WatchDies, ServerDies, Look, Drain, WayOut
<1> QED
  BY <1>1, <1>2, <1>3 DEF LoopNext

(* One more line keeps them in order.                                      *)
LEMMA LoopKeepsLines ==
    ASSUME LoopTypeOK, CheckTypeOK, Lines, LoopNext, SameCheck
    PROVE  /\ Lines'
           /\ Len(said') >= Len(said)
           /\ nd.once => nd'.once
           /\ Len(said') = Len(said) => said' = said
<1>1. said \in Seq({"started", "restarted"}) /\ Len(said) \in Nat
  BY LenProperties DEF Lines
<1>2. ck.read \in Nat /\ ck.mark \in Nat /\ nd.once \in BOOLEAN
  BY DEF CheckTypeOK, LoopTypeOK
<1>3. CASE Prints /\ nd'.once
  <2> DEFINE line == IF nd.once THEN "restarted" ELSE "started"
  <2>1. /\ said' \in Seq({"started", "restarted"})
        /\ Len(said') = Len(said) + 1
        /\ \A i \in 1..Len(said) : said'[i] = said[i]
        /\ said'[Len(said) + 1] = line
    BY <1>1, <1>3, AppendProperties DEF Prints
  <2>2. line = IF Len(said) + 1 = 1 THEN "started" ELSE "restarted"
    BY <1>1, <1>2 DEF Lines
  <2>3. ASSUME NEW i \in 1..(Len(said) + 1)
        PROVE  said'[i] = IF i = 1 THEN "started" ELSE "restarted"
    <3>1. CASE i = Len(said) + 1
      BY <2>1, <2>2, <3>1
    <3>2. CASE i # Len(said) + 1
      <4>1. i \in 1..Len(said)
        BY <1>1, <3>2
      <4> QED
        BY <2>1, <4>1 DEF Lines
    <3> QED
      BY <3>1, <3>2
  <2>4. nd'.once <=> Len(said') > 0
    BY <1>1, <1>3, <2>1
  <2>5. ck'.mark <= ck'.read /\ ck'.read <= Len(said')
    BY <1>1, <1>2, <2>1 DEF Lines, SameCheck
  <2>6. \A i \in 1..Len(said') : said'[i] = IF i = 1 THEN "started" ELSE "restarted"
    BY <2>1, <2>3
  <2>7. Lines'
    BY <2>1, <2>4, <2>5, <2>6 DEF Lines
  <2> QED
    BY <1>1, <1>3, <2>1, <2>7
<1>4. CASE said' = said /\ nd'.once = nd.once
  BY <1>1, <1>4 DEF Lines, SameCheck
<1> QED
  BY <1>3, <1>4, LoopLines

(* A step of the loop does not move the script on.                         *)
LEMMA LoopKeepsPlace ==
    ASSUME LoopTypeOK, CheckPlaced, LoopNext, SameCheck, source' = source,
           nd.once => nd'.once, nd'.stopping = nd.stopping,
           nd.at # "off" => nd'.at # "off"
    PROVE  CheckPlaced'
BY DEF CheckPlaced, SameCheck, Warm, Trying, OldTimes

(* The loop does not go back to before it was started, nor hear a signal   *)
(* of itself.                                                              *)
LEMMA LoopGoesOn ==
    ASSUME LoopTypeOK, LoopNext
    PROVE  /\ nd'.stopping = nd.stopping
           /\ nd.at # "off" => nd'.at # "off"
           /\ source' = source
           /\ odd \subseteq odd'
           /\ nd.once => first' = first
<1> USE DEF LoopTypeOK, At, Meets
<1>1. CASE RemoveStale
  BY <1>1 DEF RemoveStale, RemoveExe
<1>2. CASE BuildOnce
  BY <1>2, NewStamp DEF BuildOnce, RemoveExe
<1>3. CASE StartWatch
  BY <1>3 DEF StartWatch
<1>4. CASE WatchFails
  BY <1>4 DEF WatchFails, Fresh
<1>5. CASE WatchHits
  BY <1>5 DEF WatchHits, Fresh
<1>6. CASE WatchWrites
  BY <1>6, NewStamp DEF WatchWrites, Fresh
<1>7. CASE WatchDies
  BY <1>7 DEF WatchDies
<1>8. CASE ServerDies
  BY <1>8 DEF ServerDies
<1>9. CASE Look
  BY <1>9 DEF Look
<1>10. CASE Hash
  BY <1>10 DEF Hash, SameBytes, Settled
<1>11. CASE Drain
  BY <1>11 DEF Drain
<1>12. CASE StartServer
  BY <1>12 DEF StartServer, StartedNew, Settled
<1>13. CASE WayOut
  BY <1>13 DEF WayOut, Meets
<1> QED
  BY <1>1, <1>2, <1>3, <1>4, <1>5, <1>6, <1>7, <1>8, <1>9, <1>10, <1>11,
     <1>12, <1>13 DEF LoopNext

(* A loop that has not been started does nothing.                          *)
LEMMA LoopIsOn ==
    ASSUME LoopPlaced, LoopUnderWay, LoopNext
    PROVE  nd.at # "off"
BY DEF LoopPlaced, LoopUnderWay, LoopNext, RemoveStale, BuildOnce, StartWatch,
       WatchFails, WatchHits, WatchWrites, WatchDies, ServerDies, Look, Hash,
       Drain, StartServer, WayOut, At, Fresh

(* Up to the first save, the old binary is gone, or was not removed.       *)
LEMMA LoopKeepsOld ==
    ASSUME LoopTypeOK, LoopPlaced, LoopUnderWay, CheckPlaced, Lines, OldBinary,
           LoopNext, SameCheck, ck.step \in {"off", "popen"} => nd.at = "off",
           Lines', Len(said') >= Len(said)
    PROVE  OldBinary'
<1> SUFFICES ASSUME ck.step \in OldTimes \cup {"off"}
             PROVE  OldBinary'
  BY DEF OldBinary, SameCheck
<1>0. /\ NoVersion \notin {Original, Stale, Probed} /\ Original # Stale
      /\ ck'.step = ck.step
  BY VersionsAssumption DEF SameCheck
<1>s. source = Stale /\ ~nd.stopping
  BY LoopIsOn DEF CheckPlaced, OldTimes, Trying
<1>o. /\ exe.v \in {Original, Stale, NoVersion}
      /\ built \in {NoVersion, Stale}
  BY DEF OldBinary
<1> USE DEF LoopTypeOK, LoopPlaced, LoopUnderWay, OldBinary, Versions, At, Meets
<1>1. CASE RemoveStale
  BY <1>0, <1>s, <1>o, <1>1 DEF RemoveStale, RemoveExe
<1>2. CASE BuildOnce
  BY <1>0, <1>s, <1>o, <1>2, NewStamp DEF BuildOnce, RemoveExe
<1>3. CASE StartWatch
  BY <1>0, <1>s, <1>o, <1>3 DEF StartWatch
<1>4. CASE WatchFails
  BY <1>0, <1>s, <1>o, <1>4 DEF WatchFails, Fresh
<1>5. CASE WatchHits
  BY <1>0, <1>s, <1>o, <1>5 DEF WatchHits, Fresh
<1>6. CASE WatchWrites
  BY <1>0, <1>s, <1>o, <1>6, NewStamp DEF WatchWrites, Fresh
<1>7. CASE WatchDies
  BY <1>0, <1>s, <1>o, <1>7 DEF WatchDies
<1>8. CASE ServerDies
  BY <1>0, <1>s, <1>o, <1>8 DEF ServerDies
<1>9. CASE Look
  BY <1>0, <1>s, <1>o, <1>9 DEF Look
<1>10. CASE Hash
  BY <1>0, <1>s, <1>o, <1>10 DEF Hash, SameBytes, Settled
<1>11. CASE Drain
  BY <1>0, <1>s, <1>o, <1>11 DEF Drain
<1>12. CASE StartServer
  <2>1. /\ nd.at = "start" /\ nd.seen # 0 /\ running = NoVersion
        /\ UNCHANGED <<source, exe, built>>
    BY <1>12 DEF StartServer
  <2>2. CASE /\ nd' = StartedNew(nd) /\ exe.v # NoVersion
             /\ said' = Append(said, IF nd.once THEN "restarted" ELSE "started")
             /\ odd \subseteq odd'
             /\ first' = IF nd.once THEN first ELSE exe.v
    <3>1. /\ nd'.at = "poll" /\ nd'.digest = nd.hash /\ nd'.once
      BY <2>2 DEF StartedNew, Settled
    <3>2. nd.once => Len(said') # 1
      BY <2>2 DEF Lines
    <3> QED
      BY <1>0, <1>s, <1>o, <2>1, <2>2, <3>1, <3>2
  <2>3. CASE nd' = Settled(nd) /\ Meets({"start"}) /\ UNCHANGED <<said, first>>
    <3>1. nd'.at = "poll" /\ nd'.once = nd.once /\ "start" \in odd' /\ odd \subseteq odd'
      BY <2>3 DEF Settled
    <3> QED
      BY <1>0, <1>s, <1>o, <2>1, <2>3, <3>1
  <2> QED
    BY <1>12, <2>2, <2>3 DEF StartServer, Says
<1>13. CASE WayOut
  BY <1>0, <1>s, <1>o, <1>13 DEF WayOut, Meets
<1> QED
  BY <1>1, <1>2, <1>3, <1>4, <1>5, <1>6, <1>7, <1>8, <1>9, <1>10, <1>11,
     <1>12, <1>13 DEF LoopNext

(* A loop at rest stays so, and prints nothing.                            *)
LEMMA RestStays ==
    ASSUME LoopTypeOK, AtRest, LoopNext
    PROVE  /\ AtRest'
           /\ UNCHANGED <<said, exe, built>>
           /\ nd'.digest = nd.digest /\ nd'.serving = nd.serving
           /\ nd.at = "done" => nd'.at = "done"
           /\ nd.at # "start"
<1> USE DEF LoopTypeOK, AtRest, Fresh, Stamp, At
<1>1. CASE WatchDies
  BY <1>1 DEF WatchDies
<1>2. CASE ServerDies
  BY <1>2 DEF ServerDies
<1>3. CASE Look
  BY <1>3 DEF Look
<1>4. CASE WayOut
  BY <1>4 DEF WayOut, Meets
<1>5. CASE RemoveStale \/ BuildOnce \/ StartWatch \/ WatchFails \/ WatchHits
           \/ WatchWrites \/ Hash \/ Drain \/ StartServer
  BY <1>5 DEF RemoveStale, BuildOnce, StartWatch, WatchFails, WatchHits,
              WatchWrites, Hash, Drain, StartServer
<1> QED
  BY <1>1, <1>2, <1>3, <1>4, <1>5 DEF LoopNext

(* While the line outside stands nothing is started.                       *)
LEMMA LoopKeepsQuiet ==
    ASSUME LoopTypeOK, CheckTypeOK, CheckPlaced, QuietTimes, NotMoved, LoopSteps
    PROVE  QuietTimes' /\ NotMoved'
<1>1. /\ LoopNext /\ SameCheck
      /\ ck'.moved => ck.moved \/ (ck.outside /\ nd.at = "start")
  BY LoopEffect
<1>2. QuietTimes'
  <2> SUFFICES ASSUME ~ck.hasty, ck.step \in {"back", "settled", "watching", "inside"}
               PROVE  /\ AtRest' /\ ck'.read = Len(said')
                      /\ ck.step = "watching" => ck'.mark = ck'.read
    BY <1>1 DEF QuietTimes, SameCheck
  <2> QED
    BY <1>1, RestStays DEF QuietTimes, SameCheck
<1>3. NotMoved'
  <2> SUFFICES ASSUME ~ck.hasty, ck.verdict # "exit", ck.outside, nd.at = "start"
               PROVE  FALSE
    BY <1>1 DEF NotMoved, SameCheck
  <2>1. AtRest
    BY DEF CheckPlaced, QuietTimes
  <2> QED
    BY <2>1 DEF AtRest
<1> QED
  BY <1>2, <1>3

(* What a step of the loop does to the binary once a server has been       *)
(* started: nothing, or the build of the sources as they are.              *)
LEMMA LoopWrites ==
    ASSUME LoopTypeOK, LoopUnderWay, LoopNext, nd.once
    PROVE  \/ exe' = exe /\ (Fresh => built' = built \/ "failed" \in odd' \/ exe.v = source)
           \/ /\ Fresh /\ exe'.v = source /\ built' = source
              /\ exe'.t \notin {0, nd.serving}
              /\ UNCHANGED <<nd, said, running, watch, odd>>
<1>0. nd.at \notin {"off", "boot", "watch"}
  BY DEF LoopUnderWay
<1>1. CASE WatchWrites
  <2>1. source \in Versions
    BY DEF LoopTypeOK
  <2>2. Written(source).v = source /\ Written(source).t \notin {0, nd.serving}
    BY <2>1, NewStamp
  <2> QED
    BY <1>1, <2>2 DEF WatchWrites
<1>2. CASE WatchFails
  BY <1>2 DEF WatchFails, Meets
<1>3. CASE WatchHits
  BY <1>3 DEF WatchHits
<1>4. CASE WatchDies \/ ServerDies \/ Look \/ Hash \/ Drain \/ StartServer \/ WayOut
  BY <1>4 DEF WatchDies, ServerDies, Look, Hash, Drain, StartServer, WayOut
<1>5. CASE RemoveStale \/ BuildOnce \/ StartWatch
  BY <1>0, <1>5 DEF RemoveStale, BuildOnce, StartWatch, At
<1> QED
  BY <1>1, <1>2, <1>3, <1>4, <1>5 DEF LoopNext

(* How a loop that has started a server moves on.                          *)
LEMMA LoopMoves ==
    ASSUME LoopTypeOK, LoopUnderWay, LoopNext, nd.once
    PROVE  /\ nd.at = "done" => nd'.at = "done"
           /\ nd.at = "poll" => \/ nd'.at \in {"poll", "done"}
                                \/ nd'.at = "hash" /\ Stamp \notin {0, nd.serving}
           /\ nd.at \in {"poll", "done"} => nd'.serving = nd.serving
           /\ nd.at # "start" => said' = said
           /\ nd.at \in {"poll", "done", "hash", "drain"} => nd'.digest = nd.digest
<1>0. nd.at \notin {"off", "boot", "watch"}
  BY DEF LoopUnderWay
<1> USE DEF LoopTypeOK
<1>1. CASE WatchFails \/ WatchHits \/ WatchWrites \/ WatchDies \/ ServerDies
  BY <1>1 DEF WatchFails, WatchHits, WatchWrites, WatchDies, ServerDies
<1>2. CASE Look
  BY <1>2 DEF Look
<1>3. CASE Hash
  BY <1>3 DEF Hash, Settled
<1>4. CASE Drain \/ StartServer
  BY <1>4 DEF Drain, StartServer
<1>5. CASE WayOut
  BY <1>5 DEF WayOut, Meets
<1>6. CASE RemoveStale \/ BuildOnce \/ StartWatch
  BY <1>0, <1>6 DEF RemoveStale, BuildOnce, StartWatch, At
<1> QED
  BY <1>1, <1>2, <1>3, <1>4, <1>5, <1>6 DEF LoopNext

(* A line about the probe inside is of a server that has it.               *)
LEMMA LoopKeepsProbe ==
    ASSUME LoopTypeOK, CheckTypeOK, LoopUnderWay, CheckPlaced, ProbeServed, LoopSteps
    PROVE  ProbeServed'
<1>1. /\ LoopNext /\ SameCheck
      /\ ck.tried => ck'.tried
      /\ running' = Probed => ck'.tried
  BY LoopEffect
<1>2. ASSUME ~ck.hasty, ck.step = "restarting", ~ck.tried, ~ck'.tried
      PROVE  /\ Len(said') = ck.mark
             /\ \/ exe'.v = Probed
                \/ nd'.at = "done"
                \/ nd'.at = "poll" /\ Stamp' \in {0, nd'.serving}
  <2>0. nd.once /\ source = Probed
    BY <1>2 DEF CheckPlaced, Warm, Trying
  <2>1. /\ Len(said) = ck.mark
        /\ \/ exe.v = Probed
           \/ nd.at = "done"
           \/ nd.at = "poll" /\ Stamp \in {0, nd.serving}
    BY <1>2 DEF ProbeServed
  <2>2. ASSUME said' # said PROVE FALSE
    <3>1. Prints
      BY <1>1, <2>2, LoopLines
    <3>2. nd.at = "start" /\ running' = exe.v
      BY <3>1 DEF Prints
    <3>3. running' = Probed
      BY <2>1, <3>2
    <3> QED
      BY <1>1, <1>2, <3>3
  <2>3. CASE exe' = exe
    BY <1>1, <2>0, <2>1, <2>2, <2>3, LoopMoves DEF Stamp
  <2>4. CASE exe'.v = source
    BY <2>0, <2>1, <2>2, <2>4
  <2> QED
    BY <1>1, <2>0, <2>3, <2>4, LoopWrites
<1> QED
  BY <1>1, <1>2 DEF ProbeServed, SameCheck

(* The first server stays what it was, and an old one is only replaced by  *)
(* another of its bytes after it has died.                                 *)
LEMMA LoopKeepsFirst ==
    ASSUME LoopTypeOK, CheckTypeOK, LoopUnderWay, CheckPlaced, QuietTimes,
           FirstServer, LoopSteps
    PROVE  FirstServer'
<1>1. LoopNext /\ SameCheck
  BY LoopEffect
<1>2. odd \subseteq odd' /\ (nd.once => first' = first)
  BY <1>1, LoopGoesOn
<1> SUFFICES ASSUME ~ck.hasty, "start" \notin odd, nd.once
             PROVE  FirstServer'
  BY <1>1, <1>2 DEF FirstServer, SameCheck, CheckPlaced, Warm, Trying
<1>3. Hidden => Hidden'
  BY <1>2 DEF Hidden
<1>4. ASSUME ~ck.failures, ck.step = "back", first # Stale
      PROVE  nd'.at = "done" \/ StillOld'
  BY <1>1, <1>2, <1>4, RestStays DEF FirstServer, QuietTimes, StillOld
<1>5. ASSUME ~ck.failures, ck.step = "restoring", first # Stale, ~Hidden
      PROVE  \/ Hidden'
             \/ /\ Len(said') = ck.mark
                /\ \/ nd'.at = "done"
                   \/ nd'.at \in {"poll", "hash"} /\ StillOld'
  <2>1. /\ Len(said) = ck.mark
        /\ \/ nd.at = "done"
           \/ nd.at \in {"poll", "hash"} /\ StillOld
    BY <1>5 DEF FirstServer
  <2>2. source = Original /\ said' = said /\ nd'.digest = nd.digest
    BY <1>1, <1>5, <2>1, LoopMoves DEF CheckPlaced
  <2>3. nd.at = "done" => nd'.at = "done"
    BY <1>1, LoopMoves
  <2>4. ASSUME nd.at = "hash", StillOld, ~Hidden'
        PROVE  nd'.at \in {"poll", "hash"}
    <3>1. "server" \notin odd
      BY <1>5, <2>4 DEF Hidden, StillOld
    <3>2. nd.server /\ exe.v = Original /\ nd.digest = Original /\ Original # NoVersion
      BY <2>4, <3>1, VersionsAssumption DEF LoopUnderWay, StillOld
    <3>3. SameBytes
      BY <3>2 DEF SameBytes
    <3>4. CASE Hash
      BY <3>3, <3>4 DEF Hash, Settled, LoopTypeOK
    <3>5. CASE nd'.at = nd.at
      BY <2>4, <3>5
    <3>6. Hash \/ nd'.at = nd.at
      BY <1>1, <2>4 DEF LoopNext, RemoveStale, BuildOnce, StartWatch, WatchFails,
         WatchHits, WatchWrites, WatchDies, ServerDies, Look, Drain, StartServer,
         WayOut, At
    <3> QED
      BY <3>4, <3>5, <3>6
  <2>5. StillOld => StillOld'
    <3>1. exe' = exe \/ exe'.v = source
      BY <1>1, LoopWrites
    <3> QED
      BY <1>2, <2>2, <3>1 DEF StillOld
  <2>6. nd.at = "poll" => nd'.at \in {"poll", "hash", "done"}
    BY <1>1, LoopMoves
  <2> QED
    BY <2>1, <2>2, <2>3, <2>4, <2>5, <2>6
<1> QED
  BY <1>1, <1>2, <1>3, <1>4, <1>5 DEF FirstServer, SameCheck

(* With no trouble, a loop that serves the sources goes on serving them.   *)
LEMMA ServingStays ==
    ASSUME LoopTypeOK, LoopUnderWay, LoopNext, NEW v, Serving(v), v # NoVersion,
           source = v, ~nd.stopping, odd' = {}
    PROVE  Serving(v)' /\ UNCHANGED said
<1>0. nd.at \in {"poll", "hash"} /\ ~Fresh
  BY DEF Serving, Fresh
<1>1. CASE Look
  BY <1>1 DEF Look, Serving, LoopTypeOK
<1>2. CASE Hash
  <2>1. SameBytes
    BY DEF Serving, SameBytes
  <2> QED
    BY <1>2, <2>1 DEF Hash, Settled, Serving, LoopTypeOK
<1>3. CASE WatchDies \/ ServerDies
  BY <1>3 DEF WatchDies, ServerDies, Meets
<1>4. CASE WayOut
  BY <1>0, <1>4 DEF WayOut, Meets, Serving
<1>5. CASE RemoveStale \/ BuildOnce \/ StartWatch \/ WatchFails \/ WatchHits
           \/ WatchWrites \/ Drain \/ StartServer
  BY <1>0, <1>5 DEF RemoveStale, BuildOnce, StartWatch, WatchFails, WatchHits,
                    WatchWrites, Drain, StartServer, At
<1> QED
  BY <1>1, <1>2, <1>3, <1>4, <1>5 DEF LoopNext

(* With no trouble, the loop's way to its first server.                    *)
LEMMA BootingGoesOn ==
    ASSUME LoopTypeOK, LoopPlaced, LoopUnderWay, OldBinary, Lines, LoopNext,
           Booting, source = Stale, ck.step \in OldTimes, ~nd.stopping, odd' = {}
    PROVE  \/ Booting'
           \/ Serving(Stale)' /\ Len(said') = 1
<1>0. /\ NoVersion # Stale /\ Original # Stale
      /\ nd.at # "off"
      /\ nd.at = "boot" => built = NoVersion
      /\ nd.at \in {"off", "boot"} \/ exe.v \in {NoVersion, Stale}
  BY VersionsAssumption, LoopIsOn DEF OldBinary, Booting
<1>1. said = <<>>
  BY EmptySeq DEF Booting, Lines
<1> USE DEF LoopTypeOK, LoopUnderWay, LoopPlaced, At, Meets
<1>2. CASE RemoveStale
  BY <1>0, <1>2 DEF RemoveStale, RemoveExe, Booting
<1>3. CASE BuildOnce
  <2>1. Written(Stale).v = Stale
    BY NewStamp DEF Versions
  <2>2. built' = source /\ exe' = IF exe.v = source THEN exe ELSE Written(source)
    BY <1>3 DEF BuildOnce, RemoveExe
  <2>3. exe'.v = Stale /\ built' = Stale
    BY <2>1, <2>2
  <2> QED
    BY <1>0, <1>3, <2>3 DEF BuildOnce, Booting
<1>4. CASE StartWatch
  BY <1>0, <1>4 DEF StartWatch, Booting
<1>5. CASE WatchFails \/ WatchDies \/ ServerDies
  BY <1>5 DEF WatchFails, WatchDies, ServerDies
<1>6. CASE WatchHits
  BY <1>0, <1>6 DEF WatchHits, Fresh, Booting
<1>7. CASE WatchWrites
  <2>1. Written(Stale).v = Stale
    BY NewStamp DEF Versions
  <2> QED
    BY <1>0, <1>7, <2>1 DEF WatchWrites, Fresh, Booting
<1>8. CASE Look
  BY <1>0, <1>8 DEF Look, Stamp, Booting
<1>9. CASE Hash
  <2>1. ~SameBytes \/ SameBytes
    OBVIOUS
  <2> QED
    BY <1>0, <1>9 DEF Hash, SameBytes, Settled, Booting
<1>10. CASE Drain
  BY <1>0, <1>10 DEF Drain, Booting
<1>11. CASE StartServer
  <2>1. /\ nd.at = "start" /\ exe.v = Stale /\ built = Stale /\ nd.hash = Stale
        /\ watch = "up" /\ ~nd.once
    BY <1>11 DEF StartServer, Booting
  <2>2. /\ nd' = StartedNew(nd) /\ running' = exe.v
        /\ said' = Append(said, "started")
        /\ UNCHANGED <<source, built, exe, watch>>
    BY <1>11, <2>1 DEF StartServer, Says
  <2>3. Len(said') = 1
    BY <1>1, <2>2
  <2>4. Serving(Stale)'
    BY <2>1, <2>2 DEF StartedNew, Settled, Serving
  <2> QED
    BY <2>3, <2>4
<1>12. CASE WayOut
  BY <1>12 DEF WayOut, Meets, Booting
<1> QED
  BY <1>2, <1>3, <1>4, <1>5, <1>6, <1>7, <1>8, <1>9, <1>10, <1>11, <1>12
     DEF LoopNext

(* With no trouble, the loop's way from one version to another.            *)
LEMMA TurningGoesOn ==
    ASSUME LoopTypeOK, LoopPlaced, LoopUnderWay, Lines, CheckTypeOK, LoopNext,
           SameCheck, NEW old, NEW new, Turning(old, new), old # new,
           old # NoVersion, new # NoVersion, source = new, ~nd.stopping, odd' = {}
    PROVE  Turning(old, new)'
<1>0. /\ ck'.mark = ck.mark /\ ck.mark \in Nat /\ Len(said) \in Nat
      /\ said \in Seq({"started", "restarted"})
      /\ new \in Versions
  BY LenProperties DEF SameCheck, CheckTypeOK, Lines, LoopTypeOK
<1>1. CASE Len(said) = ck.mark /\ Serving(old) /\ nd.at = "poll" /\ Stamp = nd.serving
  <2>0. nd.once /\ exe.v = old
    BY <1>1 DEF Serving
  <2>1. CASE WatchWrites
    <3>1. Written(new).v = new /\ Written(new).t \notin {0, nd.serving}
      BY <1>0, NewStamp
    <3>2. /\ exe' = Written(new) /\ built' = new
          /\ UNCHANGED <<nd, said, watch>>
      BY <2>1 DEF WatchWrites
    <3> QED
      BY <1>0, <1>1, <3>1, <3>2 DEF Turning, Serving, Stamp
  <2>2. CASE WatchHits
    BY <1>1, <2>2 DEF WatchHits, Serving
  <2>3. CASE Look
    <3>1. /\ nd'.at = "poll" /\ nd'.serving = nd.serving /\ nd'.digest = nd.digest
          /\ nd'.once = nd.once /\ nd'.server = (nd.server /\ running # NoVersion)
          /\ UNCHANGED <<source, built, exe, watch, running, said>>
      BY <1>1, <2>3 DEF Look, LoopTypeOK
    <3> QED
      BY <1>0, <1>1, <3>1 DEF Turning, Serving, Stamp
  <2>4. CASE WatchFails \/ WatchDies \/ ServerDies
    BY <2>4 DEF WatchFails, WatchDies, ServerDies, Meets
  <2>5. CASE WayOut
    BY <1>1, <2>5 DEF WayOut, Meets, Serving
  <2>6. CASE RemoveStale \/ BuildOnce \/ StartWatch \/ Hash \/ Drain \/ StartServer
    BY <1>1, <2>6 DEF RemoveStale, BuildOnce, StartWatch, Hash, Drain, StartServer, At
  <2> QED
    BY <2>1, <2>2, <2>3, <2>4, <2>5, <2>6 DEF LoopNext
<1>2. CASE /\ Len(said) = ck.mark
           /\ nd.once /\ watch = "up"
           /\ exe.v = new /\ built = new /\ nd.digest = old
           /\ nd.at \in {"poll", "hash", "drain", "start"}
           /\ nd.at = "poll" => Stamp # nd.serving
           /\ nd.at \in {"drain", "start"} => nd.hash = new
  <2>1. CASE Look
    <3>1. /\ nd'.at \in {"poll", "hash"} /\ nd'.serving = nd.serving
          /\ nd'.digest = nd.digest /\ nd'.once = nd.once /\ nd.at = "poll"
          /\ UNCHANGED <<source, built, exe, watch, said>>
      BY <2>1 DEF Look, LoopTypeOK
    <3> QED
      BY <1>0, <1>2, <3>1 DEF Turning, Stamp
  <2>2. CASE Hash
    <3>1. ~SameBytes
      BY <1>2 DEF SameBytes
    <3>2. /\ nd'.at = "drain" /\ nd'.hash = new
          /\ nd'.digest = nd.digest /\ nd'.once = nd.once
          /\ UNCHANGED <<source, built, exe, watch, said>>
      BY <1>2, <2>2, <3>1 DEF Hash, LoopTypeOK
    <3> QED
      BY <1>0, <1>2, <3>2 DEF Turning
  <2>3. CASE Drain
    <3>1. /\ nd'.at = "start" /\ nd'.hash = nd.hash /\ nd.at = "drain"
          /\ nd'.digest = nd.digest /\ nd'.once = nd.once
          /\ UNCHANGED <<source, built, exe, watch, said>>
      BY <2>3 DEF Drain, LoopTypeOK
    <3> QED
      BY <1>0, <1>2, <3>1 DEF Turning
  <2>4. CASE StartServer
    <3>1. /\ nd.at = "start" /\ nd' = StartedNew(nd) /\ running' = exe.v
          /\ said' = Append(said, "restarted")
          /\ UNCHANGED <<source, built, exe, watch>>
      BY <1>2, <2>4 DEF StartServer, Says, Meets
    <3>2. Len(said') = Len(said) + 1
      BY <1>0, <3>1, AppendProperties
    <3>3. Serving(new)'
      BY <1>2, <3>1 DEF StartedNew, Settled, Serving, LoopTypeOK
    <3>4. Len(said') > ck'.mark
      BY <1>0, <1>2, <3>2
    <3> QED
      BY <3>3, <3>4 DEF Turning
  <2>5. CASE WatchFails \/ WatchHits \/ WatchWrites
    BY <1>2, <2>5 DEF WatchFails, WatchHits, WatchWrites, Fresh
  <2>6. CASE WatchDies
    BY <2>6 DEF WatchDies, Meets
  <2>7. CASE ServerDies
    BY <2>7 DEF ServerDies, Meets
  <2>8. CASE WayOut
    BY <1>2, <2>8 DEF WayOut, Meets
  <2>9. CASE RemoveStale \/ BuildOnce \/ StartWatch
    BY <1>2, <2>9 DEF RemoveStale, BuildOnce, StartWatch, At
  <2> QED
    BY <2>1, <2>2, <2>3, <2>4, <2>5, <2>6, <2>7, <2>8, <2>9 DEF LoopNext
<1>3. CASE Len(said) > ck.mark /\ Serving(new)
  <2>1. Serving(new)' /\ said' = said
    BY <1>3, ServingStays
  <2> QED
    BY <1>0, <1>3, <2>1 DEF Turning
<1> QED
  BY <1>1, <1>2, <1>3 DEF Turning

(* The loop keeps what holds without trouble.                              *)
LEMMA LoopKeepsNoTrouble ==
    ASSUME LoopTypeOK, CheckTypeOK, LoopPlaced, LoopUnderWay, OldBinary, Lines,
           CheckPlaced, NoTrouble, LoopSteps,
           ck.step \in {"off", "popen"} => nd.at = "off"
    PROVE  NoTrouble'
<1>1. LoopNext /\ SameCheck
  BY LoopEffect
<1>2. odd \subseteq odd' /\ nd.at # "off"
  BY <1>1, LoopGoesOn, LoopIsOn
<1> SUFFICES ASSUME ~ck.hasty, odd = {}, odd' = {}
             PROVE  NoTrouble'
  BY <1>1, <1>2 DEF NoTrouble, SameCheck
<1>0. /\ NoVersion \notin {Original, Stale, Probed}
      /\ Original # Stale /\ Original # Probed
  BY VersionsAssumption
<1>3. ck.step \in Trying => ~nd.stopping
  BY DEF CheckPlaced
<1>4. ASSUME ck.step \in {"popen", "first", "settling"}
      PROVE  Booting' \/ (Serving(Stale)' /\ Len(said') = 1)
  <2>1. /\ ck.step \in OldTimes /\ ck.step \in Trying /\ source = Stale
        /\ Booting \/ (Serving(Stale) /\ Len(said) = 1)
    BY <1>2, <1>4 DEF CheckPlaced, OldTimes, Trying, NoTrouble
  <2> QED
    BY <1>0, <1>1, <1>3, <2>1, BootingGoesOn, ServingStays
<1>5. ASSUME ck.step = "back"
      PROVE  Serving(Stale)'
  BY <1>0, <1>1, <1>3, <1>5, ServingStays DEF CheckPlaced, OldTimes, Trying, NoTrouble
<1>6. ASSUME ck.step = "restoring"
      PROVE  Turning(Stale, Original)'
  BY <1>0, <1>1, <1>3, <1>6, TurningGoesOn DEF CheckPlaced, Trying, NoTrouble
<1>7. ASSUME ck.step \in {"quieting", "settled", "watching", "inside"}
      PROVE  Serving(Original)'
  BY <1>0, <1>1, <1>3, <1>7, ServingStays DEF CheckPlaced, Trying, NoTrouble
<1>8. ASSUME ck.step = "restarting"
      PROVE  Turning(Original, Probed)'
  BY <1>0, <1>1, <1>3, <1>8, TurningGoesOn DEF CheckPlaced, Trying, NoTrouble
<1> QED
  BY <1>1, <1>4, <1>5, <1>6, <1>7, <1>8 DEF NoTrouble, SameCheck

(* A step of the loop keeps what the check's verdict rests on.             *)
LEMMA LoopKeepsVerdict ==
    ASSUME LoopInv, VerdictInv, LoopSteps
    PROVE  VerdictInv'
<1>1. /\ LoopTypeOK /\ CheckTypeOK /\ LoopPlaced
      /\ ck.step \in {"off", "popen"} => nd.at = "off"
      /\ CheckPlaced /\ Lines /\ LoopUnderWay /\ OldBinary
      /\ QuietTimes /\ NotMoved /\ ProbeServed /\ FirstServer /\ NoTrouble
  BY DEF LoopInv, VerdictInv
<1>2. LoopNext /\ SameCheck
  BY <1>1, LoopEffect
<1>3. Lines' /\ Len(said') >= Len(said) /\ (nd.once => nd'.once)
  BY <1>1, <1>2, LoopKeepsLines
<1>4. LoopUnderWay'
  BY <1>1, <1>2, LoopKeepsWay
<1>5. CheckPlaced'
  <2>1. /\ nd'.stopping = nd.stopping /\ source' = source
        /\ nd.at # "off" => nd'.at # "off"
    BY <1>1, <1>2, LoopGoesOn
  <2> QED
    BY <1>1, <1>2, <1>3, <2>1, LoopKeepsPlace
<1>6. OldBinary'
  BY <1>1, <1>2, <1>3, LoopKeepsOld
<1>7. QuietTimes' /\ NotMoved'
  BY <1>1, LoopKeepsQuiet
<1>8. ProbeServed'
  BY <1>1, LoopKeepsProbe
<1>9. FirstServer'
  BY <1>1, LoopKeepsFirst
<1>10. NoTrouble'
  BY <1>1, LoopKeepsNoTrouble
<1> QED
  BY <1>3, <1>4, <1>5, <1>6, <1>7, <1>8, <1>9, <1>10 DEF VerdictInv

(* The reader thread takes a line.                                         *)
LEMMA ReaderKeeps ==
    ASSUME LoopInv, VerdictInv, Reader
    PROVE  VerdictInv'
<1>0. /\ LoopTypeOK /\ CheckTypeOK /\ LoopPlaced
      /\ ck.step \in {"off", "popen"} => nd.at = "off"
      /\ CheckPlaced /\ Lines /\ LoopUnderWay /\ OldBinary
      /\ QuietTimes /\ NotMoved /\ ProbeServed /\ FirstServer /\ NoTrouble
  BY DEF LoopInv, VerdictInv
<1>1. /\ ck'.step = ck.step
      /\ ck'.read = ck.read + 1
      /\ ck'.mark = ck.mark
      /\ ck'.outside = ck.outside
      /\ ck'.failures = ck.failures
      /\ ck'.verdict = ck.verdict
      /\ ck'.hasty = ck.hasty
      /\ ck'.moved = ck.moved
      /\ ck'.tried = ck.tried
      /\ UNCHANGED <<source, incremental, built, exe, watch, nd, running, said,
                     odd, swapped, first>>
      /\ ck.read < Len(said)
  BY <1>0 DEF Reader, ndvars, CheckTypeOK
<1>2. /\ ck.read \in Nat /\ ck.mark \in Nat /\ Len(said) \in Nat
      /\ NoVersion \notin {Original, Stale, Probed}
      /\ Original # Stale /\ Original # Probed
  BY <1>0, LenProperties, VersionsAssumption DEF CheckTypeOK, Lines
<1>3. CheckPlaced'
  BY <1>0, <1>1, <1>2 DEF CheckPlaced, Trying, Warm, OldTimes
<1>4. Lines'
  BY <1>0, <1>1, <1>2 DEF Lines
<1>5. LoopUnderWay'
  BY <1>0, <1>1, <1>2 DEF LoopUnderWay
<1>6. OldBinary'
  BY <1>0, <1>1, <1>2 DEF OldBinary, Trying, Warm, OldTimes
<1>7. QuietTimes'
  BY <1>0, <1>1, <1>2 DEF QuietTimes, AtRest, Fresh, Stamp
<1>8. NotMoved'
  BY <1>0, <1>1, <1>2 DEF NotMoved
<1>9. ProbeServed'
  BY <1>0, <1>1, <1>2 DEF ProbeServed, Stamp
<1>10. FirstServer'
  BY <1>0, <1>1, <1>2 DEF FirstServer, Hidden, StillOld, Trying, Warm, OldTimes
<1>11. NoTrouble'
  BY <1>0, <1>1, <1>2 DEF NoTrouble, Booting, Serving, Turning, Stamp, Trying,
     Warm, OldTimes
<1> QED
  BY <1>3, <1>4, <1>5, <1>6, <1>7, <1>8, <1>9, <1>10, <1>11 DEF VerdictInv

(* The stale probe is saved.                                               *)
LEMMA MakeStaleKeeps ==
    ASSUME LoopInv, VerdictInv, MakeStale
    PROVE  VerdictInv'
<1>0. /\ LoopTypeOK /\ CheckTypeOK /\ LoopPlaced
      /\ ck.step \in {"off", "popen"} => nd.at = "off"
      /\ CheckPlaced /\ Lines /\ LoopUnderWay /\ OldBinary
      /\ QuietTimes /\ NotMoved /\ ProbeServed /\ FirstServer /\ NoTrouble
  BY DEF LoopInv, VerdictInv
<1>1. /\ ck'.step = "popen"
      /\ ck'.read = ck.read
      /\ ck'.mark = ck.mark
      /\ ck'.outside = ck.outside
      /\ ck'.failures = ck.failures
      /\ ck'.verdict = ck.verdict
      /\ ck'.hasty = ck.hasty
      /\ ck'.moved = ck.moved
      /\ ck'.tried = ck.tried
      /\ UNCHANGED <<incremental, built, exe, watch, nd, running, said, odd,
                     swapped, first>>
      /\ ck.step = "off"
      /\ source' = Stale
  BY <1>0 DEF MakeStale, Save, CheckTypeOK
<1>2. /\ ck.read \in Nat /\ ck.mark \in Nat /\ Len(said) \in Nat
      /\ NoVersion \notin {Original, Stale, Probed}
      /\ Original # Stale /\ Original # Probed
  BY <1>0, LenProperties, VersionsAssumption DEF CheckTypeOK, Lines
<1>3. CheckPlaced'
  BY <1>0, <1>1, <1>2 DEF CheckPlaced, Trying, Warm, OldTimes
<1>4. Lines'
  BY <1>0, <1>1, <1>2 DEF Lines
<1>5. LoopUnderWay'
  BY <1>0, <1>1, <1>2 DEF LoopUnderWay
<1>6. OldBinary'
  BY <1>0, <1>1, <1>2 DEF OldBinary, Trying, Warm, OldTimes
<1>7. QuietTimes'
  BY <1>0, <1>1, <1>2 DEF QuietTimes, AtRest, Fresh, Stamp
<1>8. NotMoved'
  BY <1>0, <1>1, <1>2 DEF NotMoved
<1>9. ProbeServed'
  BY <1>0, <1>1, <1>2 DEF ProbeServed, Stamp
<1>10. FirstServer'
  BY <1>0, <1>1, <1>2 DEF FirstServer, Hidden, StillOld, Trying, Warm, OldTimes
<1>11. NoTrouble'
  <2>1. nd.at = "off" /\ ~nd.once /\ watch = "off"
    BY <1>0, <1>1 DEF LoopUnderWay
  <2>2. Booting'
    BY <1>1, <2>1 DEF Booting
  <2> QED
    BY <1>0, <1>1, <2>2 DEF NoTrouble, CheckPlaced, Trying
<1> QED
  BY <1>3, <1>4, <1>5, <1>6, <1>7, <1>8, <1>9, <1>10, <1>11 DEF VerdictInv

(* The loop is started.                                                    *)
LEMMA PopenLoopKeeps ==
    ASSUME LoopInv, VerdictInv, PopenLoop
    PROVE  VerdictInv'
<1>0. /\ LoopTypeOK /\ CheckTypeOK /\ LoopPlaced
      /\ ck.step \in {"off", "popen"} => nd.at = "off"
      /\ CheckPlaced /\ Lines /\ LoopUnderWay /\ OldBinary
      /\ QuietTimes /\ NotMoved /\ ProbeServed /\ FirstServer /\ NoTrouble
  BY DEF LoopInv, VerdictInv
<1>1. /\ ck'.step = "first"
      /\ ck'.read = ck.read
      /\ ck'.mark = ck.mark
      /\ ck'.outside = ck.outside
      /\ ck'.failures = ck.failures
      /\ ck'.verdict = ck.verdict
      /\ ck'.hasty = ck.hasty
      /\ ck'.moved = ck.moved
      /\ ck'.tried = ck.tried
      /\ UNCHANGED <<source, incremental, built, exe, watch, running, said,
                     odd, swapped, first>>
      /\ ck.step = "popen"
      /\ nd'.at = "boot"
      /\ nd'.stopping = nd.stopping
      /\ nd'.server = nd.server
      /\ nd'.serving = nd.serving
      /\ nd'.digest = nd.digest
      /\ nd'.hash = nd.hash
      /\ nd'.once = nd.once
  BY <1>0 DEF PopenLoop, Signal, LoopTypeOK, CheckTypeOK
<1>2. /\ ck.read \in Nat /\ ck.mark \in Nat /\ Len(said) \in Nat
      /\ NoVersion \notin {Original, Stale, Probed}
      /\ Original # Stale /\ Original # Probed
  BY <1>0, LenProperties, VersionsAssumption DEF CheckTypeOK, Lines
<1>3. CheckPlaced'
  BY <1>0, <1>1, <1>2 DEF CheckPlaced, Trying, Warm, OldTimes
<1>4. Lines'
  BY <1>0, <1>1, <1>2 DEF Lines
<1>5. LoopUnderWay'
  BY <1>0, <1>1, <1>2 DEF LoopUnderWay
<1>6. OldBinary'
  BY <1>0, <1>1, <1>2 DEF OldBinary, Trying, Warm, OldTimes
<1>7. QuietTimes'
  BY <1>0, <1>1, <1>2 DEF QuietTimes, AtRest, Fresh, Stamp
<1>8. NotMoved'
  BY <1>0, <1>1, <1>2 DEF NotMoved
<1>9. ProbeServed'
  BY <1>0, <1>1, <1>2 DEF ProbeServed, Stamp
<1>10. FirstServer'
  BY <1>0, <1>1, <1>2 DEF FirstServer, Hidden, StillOld, Trying, Warm, OldTimes
<1>11. NoTrouble'
  <2>1. nd.at = "off" /\ ~nd.once /\ watch = "off"
    BY <1>0, <1>1 DEF LoopUnderWay
  <2>2. Booting'
    BY <1>1, <2>1 DEF Booting
  <2> QED
    BY <1>0, <1>1, <2>2 DEF NoTrouble, CheckPlaced, Trying
<1> QED
  BY <1>3, <1>4, <1>5, <1>6, <1>7, <1>8, <1>9, <1>10, <1>11 DEF VerdictInv

(* The loop could not be started.                                          *)
LEMMA PopenRaisesKeeps ==
    ASSUME LoopInv, VerdictInv, PopenLoopRaises
    PROVE  VerdictInv'
<1>0. /\ LoopTypeOK /\ CheckTypeOK /\ LoopPlaced
      /\ ck.step \in {"off", "popen"} => nd.at = "off"
      /\ CheckPlaced /\ Lines /\ LoopUnderWay /\ OldBinary
      /\ QuietTimes /\ NotMoved /\ ProbeServed /\ FirstServer /\ NoTrouble
  BY DEF LoopInv, VerdictInv
<1>1. /\ ck'.step = "gone"
      /\ ck'.read = ck.read
      /\ ck'.mark = ck.mark
      /\ ck'.outside = ck.outside
      /\ ck'.failures = ck.failures
      /\ ck'.verdict = "exit"
      /\ ck'.hasty = ck.hasty
      /\ ck'.moved = ck.moved
      /\ ck'.tried = ck.tried
      /\ UNCHANGED <<source, incremental, built, exe, watch, nd, running, said,
                     odd, swapped, first>>
  BY <1>0 DEF PopenLoopRaises, Stepping, ndvars, CheckTypeOK
<1>2. /\ ck.read \in Nat /\ ck.mark \in Nat /\ Len(said) \in Nat
      /\ NoVersion \notin {Original, Stale, Probed}
      /\ Original # Stale /\ Original # Probed
  BY <1>0, LenProperties, VersionsAssumption DEF CheckTypeOK, Lines
<1>3. CheckPlaced'
  BY <1>0, <1>1, <1>2 DEF CheckPlaced, Trying, Warm, OldTimes
<1>4. Lines'
  BY <1>0, <1>1, <1>2 DEF Lines
<1>5. LoopUnderWay'
  BY <1>0, <1>1, <1>2 DEF LoopUnderWay
<1>6. OldBinary'
  BY <1>0, <1>1, <1>2 DEF OldBinary, Trying, Warm, OldTimes
<1>7. QuietTimes'
  BY <1>0, <1>1, <1>2 DEF QuietTimes, AtRest, Fresh, Stamp
<1>8. NotMoved'
  BY <1>0, <1>1, <1>2 DEF NotMoved
<1>9. ProbeServed'
  BY <1>0, <1>1, <1>2 DEF ProbeServed, Stamp
<1>10. FirstServer'
  BY <1>0, <1>1, <1>2 DEF FirstServer, Hidden, StillOld, Trying, Warm, OldTimes
<1>11. NoTrouble'
  BY <1>0, <1>1, <1>2 DEF NoTrouble, Booting, Serving, Turning, Stamp, Trying,
     Warm, OldTimes
<1> QED
  BY <1>3, <1>4, <1>5, <1>6, <1>7, <1>8, <1>9, <1>10, <1>11 DEF VerdictInv

(* sys.exit() inside the try.                                              *)
LEMMA ExitKeeps ==
    ASSUME LoopInv, VerdictInv, NEW from, ExitAt(from)
    PROVE  VerdictInv'
<1>0. /\ LoopTypeOK /\ CheckTypeOK /\ LoopPlaced
      /\ ck.step \in {"off", "popen"} => nd.at = "off"
      /\ CheckPlaced /\ Lines /\ LoopUnderWay /\ OldBinary
      /\ QuietTimes /\ NotMoved /\ ProbeServed /\ FirstServer /\ NoTrouble
  BY DEF LoopInv, VerdictInv
<1>1. /\ ck'.step = "finally"
      /\ ck'.read = ck.read
      /\ ck'.mark = ck.mark
      /\ ck'.outside = ck.outside
      /\ ck'.failures = ck.failures
      /\ ck'.verdict = "exit"
      /\ ck'.hasty = ck.hasty
      /\ ck'.moved = ck.moved
      /\ ck'.tried = ck.tried
      /\ UNCHANGED <<source, incremental, built, exe, watch, nd, running, said,
                     odd, swapped, first>>
  BY <1>0 DEF ExitAt, Stepping, ndvars, CheckTypeOK
<1>2. /\ ck.read \in Nat /\ ck.mark \in Nat /\ Len(said) \in Nat
      /\ NoVersion \notin {Original, Stale, Probed}
      /\ Original # Stale /\ Original # Probed
  BY <1>0, LenProperties, VersionsAssumption DEF CheckTypeOK, Lines
<1>3. CheckPlaced'
  BY <1>0, <1>1, <1>2 DEF CheckPlaced, Trying, Warm, OldTimes
<1>4. Lines'
  BY <1>0, <1>1, <1>2 DEF Lines
<1>5. LoopUnderWay'
  BY <1>0, <1>1, <1>2 DEF LoopUnderWay
<1>6. OldBinary'
  BY <1>0, <1>1, <1>2 DEF OldBinary, Trying, Warm, OldTimes
<1>7. QuietTimes'
  BY <1>0, <1>1, <1>2 DEF QuietTimes, AtRest, Fresh, Stamp
<1>8. NotMoved'
  BY <1>0, <1>1, <1>2 DEF NotMoved
<1>9. ProbeServed'
  BY <1>0, <1>1, <1>2 DEF ProbeServed, Stamp
<1>10. FirstServer'
  BY <1>0, <1>1, <1>2 DEF FirstServer, Hidden, StillOld, Trying, Warm, OldTimes
<1>11. NoTrouble'
  BY <1>0, <1>1, <1>2 DEF NoTrouble, Booting, Serving, Turning, Stamp, Trying,
     Warm, OldTimes
<1> QED
  BY <1>3, <1>4, <1>5, <1>6, <1>7, <1>8, <1>9, <1>10, <1>11 DEF VerdictInv

(* A wait that did not end too soon ends with the loop at rest.            *)
LEMMA NotEarly ==
    ASSUME LoopTypeOK, CheckTypeOK, Lines, ~Early, nd.at # "off"
    PROVE  /\ AtRest /\ ck.read = Len(said)
           /\ nd.at = "poll" => watch # "gone"
<1>1. ~Busy /\ ~(ck.read < Len(said))
  BY DEF Early
<1>2. ck.read \in Nat /\ Len(said) \in Nat /\ ck.read <= Len(said)
  BY LenProperties DEF CheckTypeOK, Lines
<1>3. nd.at \in {"poll", "done"}
  BY <1>1 DEF Busy, LoopTypeOK
<1> QED
  BY <1>1, <1>2, <1>3 DEF Busy, AtRest

(* The first server's line is there.                                       *)
LEMMA FirstSeen ==
    ASSUME LoopInv, VerdictInv, WaitFor("first", "started", "settling")
    PROVE  VerdictInv'
<1>0. /\ LoopTypeOK /\ CheckTypeOK /\ LoopPlaced
      /\ ck.step \in {"off", "popen"} => nd.at = "off"
      /\ CheckPlaced /\ Lines /\ LoopUnderWay /\ OldBinary
      /\ QuietTimes /\ NotMoved /\ ProbeServed /\ FirstServer /\ NoTrouble
  BY DEF LoopInv, VerdictInv
<1>1. /\ ck'.step = "settling"
      /\ ck'.read = ck.read
      /\ ck'.mark = ck.mark
      /\ ck'.outside = ck.outside
      /\ ck'.failures = ck.failures
      /\ ck'.verdict = ck.verdict
      /\ ck'.hasty = ck.hasty
      /\ ck'.moved = ck.moved
      /\ ck'.tried = ck.tried
      /\ UNCHANGED <<source, incremental, built, exe, watch, nd, running, said,
                     odd, swapped, first>>
      /\ ck.step = "first"
      /\ Seen("started", ck.mark)
  BY <1>0 DEF WaitFor, Stepping, ndvars, CheckTypeOK
<1>2. /\ ck.read \in Nat /\ ck.mark \in Nat /\ Len(said) \in Nat
      /\ NoVersion \notin {Original, Stale, Probed}
      /\ Original # Stale /\ Original # Probed
  BY <1>0, LenProperties, VersionsAssumption DEF CheckTypeOK, Lines
<1>e. Len(said) > ck.mark /\ nd.once
  BY <1>0, <1>1, <1>2 DEF Seen, Lines
<1>3. CheckPlaced'
  BY <1>0, <1>1, <1>2, <1>e DEF CheckPlaced, Trying, Warm, OldTimes
<1>4. Lines'
  BY <1>0, <1>1, <1>2, <1>e DEF Lines
<1>5. LoopUnderWay'
  BY <1>0, <1>1, <1>2, <1>e DEF LoopUnderWay
<1>6. OldBinary'
  BY <1>0, <1>1, <1>2, <1>e DEF OldBinary, Trying, Warm, OldTimes
<1>7. QuietTimes'
  BY <1>0, <1>1, <1>2, <1>e DEF QuietTimes, AtRest, Fresh, Stamp
<1>8. NotMoved'
  BY <1>0, <1>1, <1>2, <1>e DEF NotMoved
<1>9. ProbeServed'
  BY <1>0, <1>1, <1>2, <1>e DEF ProbeServed, Stamp
<1>10. FirstServer'
  BY <1>0, <1>1, <1>2, <1>e DEF FirstServer, Hidden, StillOld, Trying, Warm,
     OldTimes
<1>11. NoTrouble'
  BY <1>0, <1>1, <1>2, <1>e DEF NoTrouble, Booting, Serving, Turning, Stamp,
     Trying, Warm, OldTimes
<1> QED
  BY <1>3, <1>4, <1>5, <1>6, <1>7, <1>8, <1>9, <1>10, <1>11 DEF VerdictInv

(* The line of the restart that puts the file back is there.               *)
LEMMA RestoringSeen ==
    ASSUME LoopInv, VerdictInv, WaitFor("restoring", "restarted", "quieting")
    PROVE  VerdictInv'
<1>0. /\ LoopTypeOK /\ CheckTypeOK /\ LoopPlaced
      /\ ck.step \in {"off", "popen"} => nd.at = "off"
      /\ CheckPlaced /\ Lines /\ LoopUnderWay /\ OldBinary
      /\ QuietTimes /\ NotMoved /\ ProbeServed /\ FirstServer /\ NoTrouble
  BY DEF LoopInv, VerdictInv
<1>1. /\ ck'.step = "quieting"
      /\ ck'.read = ck.read
      /\ ck'.mark = ck.mark
      /\ ck'.outside = ck.outside
      /\ ck'.failures = ck.failures
      /\ ck'.verdict = ck.verdict
      /\ ck'.hasty = ck.hasty
      /\ ck'.moved = ck.moved
      /\ ck'.tried = ck.tried
      /\ UNCHANGED <<source, incremental, built, exe, watch, nd, running, said,
                     odd, swapped, first>>
      /\ ck.step = "restoring"
      /\ Seen("restarted", ck.mark)
  BY <1>0 DEF WaitFor, Stepping, ndvars, CheckTypeOK
<1>2. /\ ck.read \in Nat /\ ck.mark \in Nat /\ Len(said) \in Nat
      /\ NoVersion \notin {Original, Stale, Probed}
      /\ Original # Stale /\ Original # Probed
  BY <1>0, LenProperties, VersionsAssumption DEF CheckTypeOK, Lines
<1>e. Len(said) > ck.mark /\ nd.once
  BY <1>0, <1>1, <1>2 DEF Seen, Lines
<1>3. CheckPlaced'
  BY <1>0, <1>1, <1>2, <1>e DEF CheckPlaced, Trying, Warm, OldTimes
<1>4. Lines'
  BY <1>0, <1>1, <1>2, <1>e DEF Lines
<1>5. LoopUnderWay'
  BY <1>0, <1>1, <1>2, <1>e DEF LoopUnderWay
<1>6. OldBinary'
  BY <1>0, <1>1, <1>2, <1>e DEF OldBinary, Trying, Warm, OldTimes
<1>7. QuietTimes'
  BY <1>0, <1>1, <1>2, <1>e DEF QuietTimes, AtRest, Fresh, Stamp
<1>8. NotMoved'
  BY <1>0, <1>1, <1>2, <1>e DEF NotMoved
<1>9. ProbeServed'
  BY <1>0, <1>1, <1>2, <1>e DEF ProbeServed, Stamp
<1>10. FirstServer'
  BY <1>0, <1>1, <1>2, <1>e DEF FirstServer, Hidden, StillOld, Trying, Warm,
     OldTimes
<1>11. NoTrouble'
  BY <1>0, <1>1, <1>2, <1>e DEF NoTrouble, Booting, Serving, Turning, Stamp,
     Trying, Warm, OldTimes
<1> QED
  BY <1>3, <1>4, <1>5, <1>6, <1>7, <1>8, <1>9, <1>10, <1>11 DEF VerdictInv

(* The line of the restart with the probe is there.                        *)
LEMMA RestartSeen ==
    ASSUME LoopInv, VerdictInv, WaitFor("restarting", "restarted", "undoing")
    PROVE  VerdictInv'
<1>0. /\ LoopTypeOK /\ CheckTypeOK /\ LoopPlaced
      /\ ck.step \in {"off", "popen"} => nd.at = "off"
      /\ CheckPlaced /\ Lines /\ LoopUnderWay /\ OldBinary
      /\ QuietTimes /\ NotMoved /\ ProbeServed /\ FirstServer /\ NoTrouble
  BY DEF LoopInv, VerdictInv
<1>1. /\ ck'.step = "undoing"
      /\ ck'.read = ck.read
      /\ ck'.mark = ck.mark
      /\ ck'.outside = ck.outside
      /\ ck'.failures = ck.failures
      /\ ck'.verdict = ck.verdict
      /\ ck'.hasty = ck.hasty
      /\ ck'.moved = ck.moved
      /\ ck'.tried = ck.tried
      /\ UNCHANGED <<source, incremental, built, exe, watch, nd, running, said,
                     odd, swapped, first>>
      /\ ck.step = "restarting"
      /\ Seen("restarted", ck.mark)
  BY <1>0 DEF WaitFor, Stepping, ndvars, CheckTypeOK
<1>2. /\ ck.read \in Nat /\ ck.mark \in Nat /\ Len(said) \in Nat
      /\ NoVersion \notin {Original, Stale, Probed}
      /\ Original # Stale /\ Original # Probed
  BY <1>0, LenProperties, VersionsAssumption DEF CheckTypeOK, Lines
<1>e. Len(said) > ck.mark /\ nd.once
  BY <1>0, <1>1, <1>2 DEF Seen, Lines
<1>3. CheckPlaced'
  BY <1>0, <1>1, <1>2, <1>e DEF CheckPlaced, Trying, Warm, OldTimes
<1>4. Lines'
  BY <1>0, <1>1, <1>2, <1>e DEF Lines
<1>5. LoopUnderWay'
  BY <1>0, <1>1, <1>2, <1>e DEF LoopUnderWay
<1>6. OldBinary'
  BY <1>0, <1>1, <1>2, <1>e DEF OldBinary, Trying, Warm, OldTimes
<1>7. QuietTimes'
  BY <1>0, <1>1, <1>2, <1>e DEF QuietTimes, AtRest, Fresh, Stamp
<1>8. NotMoved'
  BY <1>0, <1>1, <1>2, <1>e DEF NotMoved
<1>9. ProbeServed'
  BY <1>0, <1>1, <1>2, <1>e DEF ProbeServed, Stamp
<1>10. FirstServer'
  BY <1>0, <1>1, <1>2, <1>e DEF FirstServer, Hidden, StillOld, Trying, Warm,
     OldTimes
<1>11. NoTrouble'
  BY <1>0, <1>1, <1>2, <1>e DEF NoTrouble, Booting, Serving, Turning, Stamp,
     Trying, Warm, OldTimes
<1> QED
  BY <1>3, <1>4, <1>5, <1>6, <1>7, <1>8, <1>9, <1>10, <1>11 DEF VerdictInv

(* quiet_for() after the first server.                                     *)
LEMMA SettledFirst ==
    ASSUME LoopInv, VerdictInv, QuietFor("settling", "back", Seen("restarted", 0))
    PROVE  VerdictInv'
<1>0. /\ LoopTypeOK /\ CheckTypeOK /\ LoopPlaced
      /\ ck.step \in {"off", "popen"} => nd.at = "off"
      /\ CheckPlaced /\ Lines /\ LoopUnderWay /\ OldBinary
      /\ QuietTimes /\ NotMoved /\ ProbeServed /\ FirstServer /\ NoTrouble
  BY DEF LoopInv, VerdictInv
<1>1. /\ ck'.step = "back"
      /\ ck'.read = ck.read
      /\ ck'.mark = ck.mark
      /\ ck'.outside = ck.outside
      /\ (ck'.failures <=> (ck.failures \/ Seen("restarted", 0)))
      /\ ck'.verdict = ck.verdict
      /\ (ck'.hasty <=> (ck.hasty \/ Early))
      /\ ck'.moved = ck.moved
      /\ ck'.tried = ck.tried
      /\ UNCHANGED <<source, incremental, built, exe, watch, nd, running, said,
                     odd, swapped, first>>
      /\ ck.step = "settling"
  BY <1>0 DEF QuietFor, Stepping, ndvars, CheckTypeOK
<1>2. /\ ck.read \in Nat /\ ck.mark \in Nat /\ Len(said) \in Nat
      /\ NoVersion \notin {Original, Stale, Probed}
      /\ Original # Stale /\ Original # Probed
  BY <1>0, LenProperties, VersionsAssumption DEF CheckTypeOK, Lines
<1>e. ~ck'.hasty => /\ ~ck.hasty /\ AtRest /\ ck.read = Len(said)
                    /\ nd.at = "poll" => watch # "gone"
  BY <1>0, <1>1, NotEarly DEF CheckPlaced, Trying
<1>3. CheckPlaced'
  BY <1>0, <1>1, <1>2, <1>e DEF CheckPlaced, Trying, Warm, OldTimes
<1>4. Lines'
  BY <1>0, <1>1, <1>2, <1>e DEF Lines
<1>5. LoopUnderWay'
  BY <1>0, <1>1, <1>2, <1>e DEF LoopUnderWay
<1>6. OldBinary'
  BY <1>0, <1>1, <1>2, <1>e DEF OldBinary, Trying, Warm, OldTimes
<1>7. QuietTimes'
  BY <1>0, <1>1, <1>2, <1>e DEF QuietTimes, AtRest, Fresh, Stamp
<1>8. NotMoved'
  BY <1>0, <1>1, <1>2, <1>e DEF NotMoved
<1>9. ProbeServed'
  BY <1>0, <1>1, <1>2, <1>e DEF ProbeServed, Stamp
<1>10. FirstServer'
  <2> SUFFICES ASSUME ~ck'.hasty, ~ck'.failures, "start" \notin odd, first # Stale,
                      nd.at = "poll"
               PROVE  StillOld
    BY <1>1, <1>e, <1>0 DEF FirstServer, StillOld, AtRest, CheckPlaced, Trying
  <2>1. Len(said) = 1
    <3>1. nd.once /\ Len(said) > 0
      BY <1>0, <1>1 DEF CheckPlaced, Warm, Trying, Lines
    <3>2. ASSUME Len(said) > 1 PROVE FALSE
      <4>1. 2 \in 1..Len(said) /\ 2 \in (0 + 1)..ck.read
        BY <1>2, <1>e, <3>2
      <4>2. said[2] = "restarted"
        BY <1>0, <4>1 DEF Lines
      <4> QED
        BY <1>1, <4>1, <4>2 DEF Seen
    <3>3. \A l \in Nat : l > 0 /\ ~(l > 1) => l = 1
      OBVIOUS
    <3> QED
      BY <1>2, <3>1, <3>2, <3>3
  <2>2. ck.step \in OldTimes /\ nd.once /\ source = Stale
    BY <1>0, <1>1 DEF OldTimes, CheckPlaced, Warm, Trying
  <2>3. /\ first = Original /\ "undeleted" \in odd /\ nd.digest = Original
        /\ exe.v \in {Original, Stale}
        /\ exe.v = Stale => exe.t # nd.serving
        /\ built = Stale => exe.v = Stale \/ "failed" \in odd
    BY <1>0, <2>1, <2>2 DEF OldBinary
  <2>4. watch = "up" /\ ~Fresh /\ Stamp \in {0, nd.serving}
    BY <1>0, <1>e DEF LoopUnderWay, AtRest
  <2>5. built = Stale
    BY <2>2, <2>4 DEF Fresh
  <2>6. exe.v = Original
    BY <1>0, <1>2, <2>3, <2>4 DEF Stamp, LoopUnderWay, LoopTypeOK
  <2> QED
    BY <1>2, <2>3, <2>5, <2>6 DEF StillOld
<1>11. NoTrouble'
  <2> SUFFICES ASSUME ~ck'.hasty, odd = {}
               PROVE  ~ck'.failures /\ Serving(Stale) /\ ck'.verdict # "fail"
    BY <1>1 DEF NoTrouble, Serving
  <2>1. nd.once /\ ~ck.failures /\ ck.verdict = "none"
    BY <1>0, <1>1 DEF CheckPlaced, Warm, Trying
  <2>2. Serving(Stale) /\ Len(said) = 1
    BY <1>0, <1>1, <1>e, <2>1 DEF NoTrouble, Booting
  <2>3. ~Seen("restarted", 0)
    <3>1. SUFFICES ASSUME NEW i \in (0 + 1)..ck.read, said[i] = "restarted"
                   PROVE  FALSE
      BY DEF Seen
    <3>2. i = 1 /\ i \in 1..Len(said)
      BY <1>0, <1>2, <2>2, <3>1 DEF Lines
    <3>3. said[i] = "started"
      BY <1>0, <3>2 DEF Lines
    <3> QED
      BY <3>1, <3>3
  <2> QED
    BY <1>1, <2>1, <2>2, <2>3
<1> QED
  BY <1>3, <1>4, <1>5, <1>6, <1>7, <1>8, <1>9, <1>10, <1>11 DEF VerdictInv

(* quiet_for() after the file is back.                                     *)
LEMMA SettledAgain ==
    ASSUME LoopInv, VerdictInv, QuietFor("quieting", "settled", FALSE)
    PROVE  VerdictInv'
<1>0. /\ LoopTypeOK /\ CheckTypeOK /\ LoopPlaced
      /\ ck.step \in {"off", "popen"} => nd.at = "off"
      /\ CheckPlaced /\ Lines /\ LoopUnderWay /\ OldBinary
      /\ QuietTimes /\ NotMoved /\ ProbeServed /\ FirstServer /\ NoTrouble
  BY DEF LoopInv, VerdictInv
<1>1. /\ ck'.step = "settled"
      /\ ck'.read = ck.read
      /\ ck'.mark = ck.mark
      /\ ck'.outside = ck.outside
      /\ (ck'.failures <=> ck.failures)
      /\ ck'.verdict = ck.verdict
      /\ (ck'.hasty <=> (ck.hasty \/ Early))
      /\ ck'.moved = ck.moved
      /\ ck'.tried = ck.tried
      /\ UNCHANGED <<source, incremental, built, exe, watch, nd, running, said,
                     odd, swapped, first>>
      /\ ck.step = "quieting"
  BY <1>0 DEF QuietFor, Stepping, ndvars, CheckTypeOK
<1>2. /\ ck.read \in Nat /\ ck.mark \in Nat /\ Len(said) \in Nat
      /\ NoVersion \notin {Original, Stale, Probed}
      /\ Original # Stale /\ Original # Probed
  BY <1>0, LenProperties, VersionsAssumption DEF CheckTypeOK, Lines
<1>e. ~ck'.hasty => /\ ~ck.hasty /\ AtRest /\ ck.read = Len(said)
                    /\ nd.at = "poll" => watch # "gone"
  BY <1>0, <1>1, NotEarly DEF CheckPlaced, Trying
<1>3. CheckPlaced'
  BY <1>0, <1>1, <1>2, <1>e DEF CheckPlaced, Trying, Warm, OldTimes
<1>4. Lines'
  BY <1>0, <1>1, <1>2, <1>e DEF Lines
<1>5. LoopUnderWay'
  BY <1>0, <1>1, <1>2, <1>e DEF LoopUnderWay
<1>6. OldBinary'
  BY <1>0, <1>1, <1>2, <1>e DEF OldBinary, Trying, Warm, OldTimes
<1>7. QuietTimes'
  BY <1>0, <1>1, <1>2, <1>e DEF QuietTimes, AtRest, Fresh, Stamp
<1>8. NotMoved'
  BY <1>0, <1>1, <1>2, <1>e DEF NotMoved
<1>9. ProbeServed'
  BY <1>0, <1>1, <1>2, <1>e DEF ProbeServed, Stamp
<1>10. FirstServer'
  BY <1>0, <1>1, <1>2, <1>e DEF FirstServer, Hidden, StillOld, Trying, Warm,
     OldTimes
<1>11. NoTrouble'
  BY <1>0, <1>1, <1>2, <1>e DEF NoTrouble, Booting, Serving, Turning, Stamp,
     Trying, Warm, OldTimes
<1> QED
  BY <1>3, <1>4, <1>5, <1>6, <1>7, <1>8, <1>9, <1>10, <1>11 DEF VerdictInv

(* The line outside is saved.                                              *)
LEMMA OutsideKeeps ==
    ASSUME LoopInv, VerdictInv, TouchOutside
    PROVE  VerdictInv'
<1>0. /\ LoopTypeOK /\ CheckTypeOK /\ LoopPlaced
      /\ ck.step \in {"off", "popen"} => nd.at = "off"
      /\ CheckPlaced /\ Lines /\ LoopUnderWay /\ OldBinary
      /\ QuietTimes /\ NotMoved /\ ProbeServed /\ FirstServer /\ NoTrouble
  BY DEF LoopInv, VerdictInv
<1>1. /\ ck'.step = "watching"
      /\ ck'.read = ck.read
      /\ ck'.mark = ck.read
      /\ ck'.outside = TRUE
      /\ ck'.failures = ck.failures
      /\ ck'.verdict = ck.verdict
      /\ ck'.hasty = ck.hasty
      /\ ck'.moved = ck.moved
      /\ ck'.tried = ck.tried
      /\ UNCHANGED <<source, incremental, built, exe, watch, nd, running, said,
                     odd, swapped, first>>
      /\ ck.step = "settled"
  BY <1>0 DEF TouchOutside, Stepping, ndvars, CheckTypeOK
<1>2. /\ ck.read \in Nat /\ ck.mark \in Nat /\ Len(said) \in Nat
      /\ NoVersion \notin {Original, Stale, Probed}
      /\ Original # Stale /\ Original # Probed
  BY <1>0, LenProperties, VersionsAssumption DEF CheckTypeOK, Lines
<1>3. CheckPlaced'
  BY <1>0, <1>1, <1>2 DEF CheckPlaced, Trying, Warm, OldTimes
<1>4. Lines'
  BY <1>0, <1>1, <1>2 DEF Lines
<1>5. LoopUnderWay'
  BY <1>0, <1>1, <1>2 DEF LoopUnderWay
<1>6. OldBinary'
  BY <1>0, <1>1, <1>2 DEF OldBinary, Trying, Warm, OldTimes
<1>7. QuietTimes'
  BY <1>0, <1>1, <1>2 DEF QuietTimes, AtRest, Fresh, Stamp
<1>8. NotMoved'
  BY <1>0, <1>1, <1>2 DEF NotMoved
<1>9. ProbeServed'
  BY <1>0, <1>1, <1>2 DEF ProbeServed, Stamp
<1>10. FirstServer'
  BY <1>0, <1>1, <1>2 DEF FirstServer, Hidden, StillOld, Trying, Warm, OldTimes
<1>11. NoTrouble'
  BY <1>0, <1>1, <1>2 DEF NoTrouble, Booting, Serving, Turning, Stamp, Trying,
     Warm, OldTimes
<1> QED
  BY <1>3, <1>4, <1>5, <1>6, <1>7, <1>8, <1>9, <1>10, <1>11 DEF VerdictInv

(* The quiet seconds with the line outside are over.                       *)
LEMMA WatchedKeeps ==
    ASSUME LoopInv, VerdictInv, Watched
    PROVE  VerdictInv'
<1>0. /\ LoopTypeOK /\ CheckTypeOK /\ LoopPlaced
      /\ ck.step \in {"off", "popen"} => nd.at = "off"
      /\ CheckPlaced /\ Lines /\ LoopUnderWay /\ OldBinary
      /\ QuietTimes /\ NotMoved /\ ProbeServed /\ FirstServer /\ NoTrouble
  BY DEF LoopInv, VerdictInv
<1>1. /\ ck'.step = "inside"
      /\ ck'.read = ck.read
      /\ ck'.mark = ck.mark
      /\ ck'.outside = FALSE
      /\ (ck'.failures <=> (ck.failures \/ Seen("restarted", ck.mark)))
      /\ ck'.verdict = ck.verdict
      /\ (ck'.hasty <=> (ck.hasty \/ Early))
      /\ ck'.moved = ck.moved
      /\ ck'.tried = ck.tried
      /\ UNCHANGED <<source, incremental, built, exe, watch, nd, running, said,
                     odd, swapped, first>>
      /\ ck.step = "watching"
  BY <1>0 DEF Watched, Stepping, ndvars, CheckTypeOK
<1>2. /\ ck.read \in Nat /\ ck.mark \in Nat /\ Len(said) \in Nat
      /\ NoVersion \notin {Original, Stale, Probed}
      /\ Original # Stale /\ Original # Probed
  BY <1>0, LenProperties, VersionsAssumption DEF CheckTypeOK, Lines
<1>r. ~ck'.hasty => ~ck.hasty /\ AtRest /\ ck.read = Len(said)
  BY <1>0, <1>1, NotEarly DEF CheckPlaced, Trying
<1>s. ~ck'.hasty => ~Seen("restarted", ck.mark)
  BY <1>0, <1>1, <1>2, <1>r DEF QuietTimes, Seen
<1>e. ~ck'.hasty => /\ ~ck.hasty /\ AtRest /\ ck.read = Len(said)
                    /\ ck'.failures <=> ck.failures
  BY <1>1, <1>r, <1>s
<1>3. CheckPlaced'
  BY <1>0, <1>1, <1>2, <1>e DEF CheckPlaced, Trying, Warm, OldTimes
<1>4. Lines'
  BY <1>0, <1>1, <1>2, <1>e DEF Lines
<1>5. LoopUnderWay'
  BY <1>0, <1>1, <1>2, <1>e DEF LoopUnderWay
<1>6. OldBinary'
  BY <1>0, <1>1, <1>2, <1>e DEF OldBinary, Trying, Warm, OldTimes
<1>7. QuietTimes'
  BY <1>0, <1>1, <1>2, <1>e DEF QuietTimes, AtRest, Fresh, Stamp
<1>8. NotMoved'
  BY <1>0, <1>1, <1>2, <1>e DEF NotMoved
<1>9. ProbeServed'
  BY <1>0, <1>1, <1>2, <1>e DEF ProbeServed, Stamp
<1>10. FirstServer'
  BY <1>0, <1>1, <1>2, <1>e DEF FirstServer, Hidden, StillOld, Trying, Warm,
     OldTimes
<1>11. NoTrouble'
  BY <1>0, <1>1, <1>2, <1>e DEF NoTrouble, Booting, Serving, Turning, Stamp,
     Trying, Warm, OldTimes
<1> QED
  BY <1>3, <1>4, <1>5, <1>6, <1>7, <1>8, <1>9, <1>10, <1>11 DEF VerdictInv

(* The file inside is put back.                                            *)
LEMMA RestoreKeeps ==
    ASSUME LoopInv, VerdictInv, Touch("back", Original, "restoring")
    PROVE  VerdictInv'
<1>0. /\ LoopTypeOK /\ CheckTypeOK /\ LoopPlaced
      /\ ck.step \in {"off", "popen"} => nd.at = "off"
      /\ CheckPlaced /\ Lines /\ LoopUnderWay /\ OldBinary
      /\ QuietTimes /\ NotMoved /\ ProbeServed /\ FirstServer /\ NoTrouble
  BY DEF LoopInv, VerdictInv
<1>1. /\ ck'.step = "restoring"
      /\ ck'.read = ck.read
      /\ ck'.mark = ck.read
      /\ ck'.outside = ck.outside
      /\ ck'.failures = ck.failures
      /\ ck'.verdict = ck.verdict
      /\ ck'.hasty = ck.hasty
      /\ ck'.moved = ck.moved
      /\ ck'.tried = ck.tried
      /\ UNCHANGED <<incremental, built, exe, watch, nd, running, said, odd,
                     swapped, first>>
      /\ ck.step = "back"
      /\ source' = Original
  BY <1>0 DEF Touch, Save, CheckTypeOK
<1>2. /\ ck.read \in Nat /\ ck.mark \in Nat /\ Len(said) \in Nat
      /\ NoVersion \notin {Original, Stale, Probed}
      /\ Original # Stale /\ Original # Probed
  BY <1>0, LenProperties, VersionsAssumption DEF CheckTypeOK, Lines
<1>3. CheckPlaced'
  BY <1>0, <1>1, <1>2 DEF CheckPlaced, Trying, Warm, OldTimes
<1>4. Lines'
  BY <1>0, <1>1, <1>2 DEF Lines
<1>5. LoopUnderWay'
  BY <1>0, <1>1, <1>2 DEF LoopUnderWay
<1>6. OldBinary'
  BY <1>0, <1>1, <1>2 DEF OldBinary, Trying, Warm, OldTimes
<1>7. QuietTimes'
  BY <1>0, <1>1, <1>2 DEF QuietTimes, AtRest, Fresh, Stamp
<1>8. NotMoved'
  BY <1>0, <1>1, <1>2 DEF NotMoved
<1>9. ProbeServed'
  BY <1>0, <1>1, <1>2 DEF ProbeServed, Stamp, QuietTimes, AtRest, Trying, Warm,
     OldTimes
<1>10. FirstServer'
  BY <1>0, <1>1, <1>2 DEF FirstServer, Hidden, StillOld, QuietTimes, AtRest,
     Trying, Warm, OldTimes
<1>11. NoTrouble'
  <2> SUFFICES ASSUME ~ck.hasty, odd = {}
               PROVE  ~ck.failures /\ ck'.mark > 0 /\ Turning(Stale, Original)' /\ ck.verdict # "fail"
    BY <1>1 DEF NoTrouble
  <2>1. nd.once /\ ck.verdict = "none"
    BY <1>0, <1>1 DEF CheckPlaced, Warm, Trying
  <2>2. AtRest /\ ck.read = Len(said) /\ Len(said) > 0
    BY <1>0, <1>1, <2>1 DEF QuietTimes, Lines
  <2>3. Serving(Stale) /\ ~ck.failures
    BY <1>0, <1>1 DEF NoTrouble, Trying
  <2>4. nd.at = "poll" /\ Stamp = nd.serving
    BY <1>0, <1>2, <2>2, <2>3 DEF AtRest, Serving, Stamp, LoopUnderWay,
       LoopTypeOK
  <2>5. Serving(Stale)' /\ nd'.at = "poll" /\ Stamp' = nd'.serving
    BY <1>1, <2>3, <2>4 DEF Serving, Stamp
  <2> QED
    BY <1>1, <1>2, <2>1, <2>2, <2>3, <2>5 DEF Turning
<1> QED
  BY <1>3, <1>4, <1>5, <1>6, <1>7, <1>8, <1>9, <1>10, <1>11 DEF VerdictInv

(* The probe inside is saved.                                              *)
LEMMA ProbeKeeps ==
    ASSUME LoopInv, VerdictInv, Touch("inside", Probed, "restarting")
    PROVE  VerdictInv'
<1>0. /\ LoopTypeOK /\ CheckTypeOK /\ LoopPlaced
      /\ ck.step \in {"off", "popen"} => nd.at = "off"
      /\ CheckPlaced /\ Lines /\ LoopUnderWay /\ OldBinary
      /\ QuietTimes /\ NotMoved /\ ProbeServed /\ FirstServer /\ NoTrouble
  BY DEF LoopInv, VerdictInv
<1>1. /\ ck'.step = "restarting"
      /\ ck'.read = ck.read
      /\ ck'.mark = ck.read
      /\ ck'.outside = ck.outside
      /\ ck'.failures = ck.failures
      /\ ck'.verdict = ck.verdict
      /\ ck'.hasty = ck.hasty
      /\ ck'.moved = ck.moved
      /\ ck'.tried = ck.tried
      /\ UNCHANGED <<incremental, built, exe, watch, nd, running, said, odd,
                     swapped, first>>
      /\ ck.step = "inside"
      /\ source' = Probed
  BY <1>0 DEF Touch, Save, CheckTypeOK
<1>2. /\ ck.read \in Nat /\ ck.mark \in Nat /\ Len(said) \in Nat
      /\ NoVersion \notin {Original, Stale, Probed}
      /\ Original # Stale /\ Original # Probed
  BY <1>0, LenProperties, VersionsAssumption DEF CheckTypeOK, Lines
<1>3. CheckPlaced'
  BY <1>0, <1>1, <1>2 DEF CheckPlaced, Trying, Warm, OldTimes
<1>4. Lines'
  BY <1>0, <1>1, <1>2 DEF Lines
<1>5. LoopUnderWay'
  BY <1>0, <1>1, <1>2 DEF LoopUnderWay
<1>6. OldBinary'
  BY <1>0, <1>1, <1>2 DEF OldBinary, Trying, Warm, OldTimes
<1>7. QuietTimes'
  BY <1>0, <1>1, <1>2 DEF QuietTimes, AtRest, Fresh, Stamp
<1>8. NotMoved'
  BY <1>0, <1>1, <1>2 DEF NotMoved
<1>9. ProbeServed'
  BY <1>0, <1>1, <1>2 DEF ProbeServed, Stamp, QuietTimes, AtRest, Trying, Warm,
     OldTimes
<1>10. FirstServer'
  BY <1>0, <1>1, <1>2 DEF FirstServer, Hidden, StillOld, QuietTimes, AtRest,
     Trying, Warm, OldTimes
<1>11. NoTrouble'
  <2> SUFFICES ASSUME ~ck.hasty, odd = {}
               PROVE  ~ck.failures /\ ck'.mark > 0 /\ Turning(Original, Probed)' /\ ck.verdict # "fail"
    BY <1>1 DEF NoTrouble
  <2>1. nd.once /\ ck.verdict = "none"
    BY <1>0, <1>1 DEF CheckPlaced, Warm, Trying
  <2>2. AtRest /\ ck.read = Len(said) /\ Len(said) > 0
    BY <1>0, <1>1, <2>1 DEF QuietTimes, Lines
  <2>3. Serving(Original) /\ ~ck.failures
    BY <1>0, <1>1 DEF NoTrouble, Trying
  <2>4. nd.at = "poll" /\ Stamp = nd.serving
    BY <1>0, <1>2, <2>2, <2>3 DEF AtRest, Serving, Stamp, LoopUnderWay,
       LoopTypeOK
  <2>5. Serving(Original)' /\ nd'.at = "poll" /\ Stamp' = nd'.serving
    BY <1>1, <2>3, <2>4 DEF Serving, Stamp
  <2> QED
    BY <1>1, <1>2, <2>1, <2>2, <2>3, <2>5 DEF Turning
<1> QED
  BY <1>3, <1>4, <1>5, <1>6, <1>7, <1>8, <1>9, <1>10, <1>11 DEF VerdictInv

(* The probe inside is taken back.                                         *)
LEMMA UndoKeeps ==
    ASSUME LoopInv, VerdictInv, Touch("undoing", Original, "landing")
    PROVE  VerdictInv'
<1>0. /\ LoopTypeOK /\ CheckTypeOK /\ LoopPlaced
      /\ ck.step \in {"off", "popen"} => nd.at = "off"
      /\ CheckPlaced /\ Lines /\ LoopUnderWay /\ OldBinary
      /\ QuietTimes /\ NotMoved /\ ProbeServed /\ FirstServer /\ NoTrouble
  BY DEF LoopInv, VerdictInv
<1>1. /\ ck'.step = "landing"
      /\ ck'.read = ck.read
      /\ ck'.mark = ck.read
      /\ ck'.outside = ck.outside
      /\ ck'.failures = ck.failures
      /\ ck'.verdict = ck.verdict
      /\ ck'.hasty = ck.hasty
      /\ ck'.moved = ck.moved
      /\ ck'.tried = ck.tried
      /\ UNCHANGED <<incremental, built, exe, watch, nd, running, said, odd,
                     swapped, first>>
      /\ ck.step = "undoing"
      /\ source' = Original
  BY <1>0 DEF Touch, Save, CheckTypeOK
<1>2. /\ ck.read \in Nat /\ ck.mark \in Nat /\ Len(said) \in Nat
      /\ NoVersion \notin {Original, Stale, Probed}
      /\ Original # Stale /\ Original # Probed
  BY <1>0, LenProperties, VersionsAssumption DEF CheckTypeOK, Lines
<1>3. CheckPlaced'
  BY <1>0, <1>1, <1>2 DEF CheckPlaced, Trying, Warm, OldTimes
<1>4. Lines'
  BY <1>0, <1>1, <1>2 DEF Lines
<1>5. LoopUnderWay'
  BY <1>0, <1>1, <1>2 DEF LoopUnderWay
<1>6. OldBinary'
  BY <1>0, <1>1, <1>2 DEF OldBinary, Trying, Warm, OldTimes
<1>7. QuietTimes'
  BY <1>0, <1>1, <1>2 DEF QuietTimes, AtRest, Fresh, Stamp
<1>8. NotMoved'
  BY <1>0, <1>1, <1>2 DEF NotMoved
<1>9. ProbeServed'
  BY <1>0, <1>1, <1>2 DEF ProbeServed, Stamp
<1>10. FirstServer'
  BY <1>0, <1>1, <1>2 DEF FirstServer, Hidden, StillOld, Trying, Warm, OldTimes
<1>11. NoTrouble'
  BY <1>0, <1>1, <1>2 DEF NoTrouble, Booting, Serving, Turning, Stamp, Trying,
     Warm, OldTimes
<1> QED
  BY <1>3, <1>4, <1>5, <1>6, <1>7, <1>8, <1>9, <1>10, <1>11 DEF VerdictInv

(* The wait for the restart that puts the file back ends without it.       *)
LEMMA RestoringEnds ==
    ASSUME LoopInv, VerdictInv, WaitEnds("restoring", "quieting")
    PROVE  VerdictInv'
<1>0. /\ LoopTypeOK /\ CheckTypeOK /\ LoopPlaced
      /\ ck.step \in {"off", "popen"} => nd.at = "off"
      /\ CheckPlaced /\ Lines /\ LoopUnderWay /\ OldBinary
      /\ QuietTimes /\ NotMoved /\ ProbeServed /\ FirstServer /\ NoTrouble
  BY DEF LoopInv, VerdictInv
<1>1. /\ ck'.step = "quieting"
      /\ ck'.read = ck.read
      /\ ck'.mark = ck.mark
      /\ ck'.outside = ck.outside
      /\ (ck'.failures <=> TRUE)
      /\ ck'.verdict = ck.verdict
      /\ (ck'.hasty <=> (ck.hasty \/ Early \/ Seen("restarted", ck.mark)))
      /\ ck'.moved = ck.moved
      /\ ck'.tried = ck.tried
      /\ UNCHANGED <<source, incremental, built, exe, watch, nd, running, said,
                     odd, swapped, first>>
      /\ ck.step = "restoring"
  BY <1>0 DEF WaitEnds, Stepping, ndvars, CheckTypeOK
<1>2. /\ ck.read \in Nat /\ ck.mark \in Nat /\ Len(said) \in Nat
      /\ NoVersion \notin {Original, Stale, Probed}
      /\ Original # Stale /\ Original # Probed
  BY <1>0, LenProperties, VersionsAssumption DEF CheckTypeOK, Lines
<1>3. CheckPlaced'
  BY <1>0, <1>1, <1>2 DEF CheckPlaced, Trying, Warm, OldTimes
<1>4. Lines'
  BY <1>0, <1>1, <1>2 DEF Lines
<1>5. LoopUnderWay'
  BY <1>0, <1>1, <1>2 DEF LoopUnderWay
<1>6. OldBinary'
  BY <1>0, <1>1, <1>2 DEF OldBinary, Trying, Warm, OldTimes
<1>7. QuietTimes'
  BY <1>0, <1>1, <1>2 DEF QuietTimes, AtRest, Fresh, Stamp
<1>8. NotMoved'
  BY <1>0, <1>1, <1>2 DEF NotMoved
<1>9. ProbeServed'
  BY <1>0, <1>1, <1>2 DEF ProbeServed, Stamp
<1>10. FirstServer'
  BY <1>0, <1>1, <1>2 DEF FirstServer, Hidden, StillOld, Trying, Warm, OldTimes
<1>11. NoTrouble'
  <2> SUFFICES ASSUME ~ck'.hasty, odd = {}
               PROVE  FALSE
    BY <1>1 DEF NoTrouble
  <2>1. ~ck.hasty /\ ~Early /\ ~Seen("restarted", ck.mark)
    BY <1>1
  <2>2. source = Original /\ nd.at # "off"
    BY <1>0, <1>1 DEF CheckPlaced, Trying
  <2>3. AtRest /\ ck.read = Len(said)
    BY <1>0, <2>1, <2>2, NotEarly
  <2>4. Turning(Stale, Original) /\ ck.mark > 0
    BY <1>0, <1>1, <2>1 DEF NoTrouble
  <2>5. exe.v # NoVersion => Stamp # 0
    BY <1>0 DEF Stamp, LoopUnderWay, LoopTypeOK
  <2>6. ASSUME Len(said) > ck.mark PROVE FALSE
    <3>1. Len(said) \in (ck.mark + 1)..ck.read /\ Len(said) \in 1..Len(said) /\ Len(said) # 1
      <4>1. \A l, m \in Nat : m > 0 /\ l > m => l \in (m + 1)..l /\ l \in 1..l /\ l # 1
        OBVIOUS
      <4> QED
        BY <1>2, <2>3, <2>4, <2>6, <4>1
    <3>2. said[Len(said)] = "restarted"
      BY <1>0, <3>1 DEF Lines
    <3> QED
      BY <2>1, <3>1, <3>2 DEF Seen
  <2> QED
    BY <1>2, <2>2, <2>3, <2>4, <2>5, <2>6 DEF Turning, Serving, AtRest, Fresh
<1> QED
  BY <1>3, <1>4, <1>5, <1>6, <1>7, <1>8, <1>9, <1>10, <1>11 DEF VerdictInv

(* The wait for the restart with the probe ends without it.                *)
LEMMA RestartEnds ==
    ASSUME LoopInv, VerdictInv, WaitEnds("restarting", "undoing")
    PROVE  VerdictInv'
<1>0. /\ LoopTypeOK /\ CheckTypeOK /\ LoopPlaced
      /\ ck.step \in {"off", "popen"} => nd.at = "off"
      /\ CheckPlaced /\ Lines /\ LoopUnderWay /\ OldBinary
      /\ QuietTimes /\ NotMoved /\ ProbeServed /\ FirstServer /\ NoTrouble
  BY DEF LoopInv, VerdictInv
<1>1. /\ ck'.step = "undoing"
      /\ ck'.read = ck.read
      /\ ck'.mark = ck.mark
      /\ ck'.outside = ck.outside
      /\ (ck'.failures <=> TRUE)
      /\ ck'.verdict = ck.verdict
      /\ (ck'.hasty <=> (ck.hasty \/ Early \/ Seen("restarted", ck.mark)))
      /\ ck'.moved = ck.moved
      /\ ck'.tried = ck.tried
      /\ UNCHANGED <<source, incremental, built, exe, watch, nd, running, said,
                     odd, swapped, first>>
      /\ ck.step = "restarting"
  BY <1>0 DEF WaitEnds, Stepping, ndvars, CheckTypeOK
<1>2. /\ ck.read \in Nat /\ ck.mark \in Nat /\ Len(said) \in Nat
      /\ NoVersion \notin {Original, Stale, Probed}
      /\ Original # Stale /\ Original # Probed
  BY <1>0, LenProperties, VersionsAssumption DEF CheckTypeOK, Lines
<1>3. CheckPlaced'
  BY <1>0, <1>1, <1>2 DEF CheckPlaced, Trying, Warm, OldTimes
<1>4. Lines'
  BY <1>0, <1>1, <1>2 DEF Lines
<1>5. LoopUnderWay'
  BY <1>0, <1>1, <1>2 DEF LoopUnderWay
<1>6. OldBinary'
  BY <1>0, <1>1, <1>2 DEF OldBinary, Trying, Warm, OldTimes
<1>7. QuietTimes'
  BY <1>0, <1>1, <1>2 DEF QuietTimes, AtRest, Fresh, Stamp
<1>8. NotMoved'
  BY <1>0, <1>1, <1>2 DEF NotMoved
<1>9. ProbeServed'
  BY <1>0, <1>1, <1>2 DEF ProbeServed, Stamp
<1>10. FirstServer'
  BY <1>0, <1>1, <1>2 DEF FirstServer, Hidden, StillOld, Trying, Warm, OldTimes
<1>11. NoTrouble'
  <2> SUFFICES ASSUME ~ck'.hasty, odd = {}
               PROVE  FALSE
    BY <1>1 DEF NoTrouble
  <2>1. ~ck.hasty /\ ~Early /\ ~Seen("restarted", ck.mark)
    BY <1>1
  <2>2. source = Probed /\ nd.at # "off"
    BY <1>0, <1>1 DEF CheckPlaced, Trying
  <2>3. AtRest /\ ck.read = Len(said)
    BY <1>0, <2>1, <2>2, NotEarly
  <2>4. Turning(Original, Probed) /\ ck.mark > 0
    BY <1>0, <1>1, <2>1 DEF NoTrouble
  <2>5. exe.v # NoVersion => Stamp # 0
    BY <1>0 DEF Stamp, LoopUnderWay, LoopTypeOK
  <2>6. ASSUME Len(said) > ck.mark PROVE FALSE
    <3>1. Len(said) \in (ck.mark + 1)..ck.read /\ Len(said) \in 1..Len(said) /\ Len(said) # 1
      <4>1. \A l, m \in Nat : m > 0 /\ l > m => l \in (m + 1)..l /\ l \in 1..l /\ l # 1
        OBVIOUS
      <4> QED
        BY <1>2, <2>3, <2>4, <2>6, <4>1
    <3>2. said[Len(said)] = "restarted"
      BY <1>0, <3>1 DEF Lines
    <3> QED
      BY <2>1, <3>1, <3>2 DEF Seen
  <2> QED
    BY <1>2, <2>2, <2>3, <2>4, <2>5, <2>6 DEF Turning, Serving, AtRest, Fresh
<1> QED
  BY <1>3, <1>4, <1>5, <1>6, <1>7, <1>8, <1>9, <1>10, <1>11 DEF VerdictInv

(* The verdict.                                                            *)
LEMMA ConcludedKeeps ==
    ASSUME LoopInv, VerdictInv, Concluded
    PROVE  VerdictInv'
<1>0. /\ LoopTypeOK /\ CheckTypeOK /\ LoopPlaced
      /\ ck.step \in {"off", "popen"} => nd.at = "off"
      /\ CheckPlaced /\ Lines /\ LoopUnderWay /\ OldBinary
      /\ QuietTimes /\ NotMoved /\ ProbeServed /\ FirstServer /\ NoTrouble
  BY DEF LoopInv, VerdictInv
<1>1. /\ ck'.step = "finally"
      /\ ck'.read = ck.read
      /\ ck'.mark = ck.mark
      /\ ck'.outside = ck.outside
      /\ ck'.failures = ck.failures
      /\ ck'.verdict = IF ck.failures THEN "fail" ELSE "ok"
      /\ ck'.hasty = ck.hasty
      /\ ck'.moved = ck.moved
      /\ ck'.tried = ck.tried
      /\ UNCHANGED <<source, incremental, built, exe, watch, nd, running, said,
                     odd, swapped, first>>
      /\ ck.step = "landing"
  BY <1>0 DEF Concluded, Stepping, ndvars, CheckTypeOK
<1>2. /\ ck.read \in Nat /\ ck.mark \in Nat /\ Len(said) \in Nat
      /\ NoVersion \notin {Original, Stale, Probed}
      /\ Original # Stale /\ Original # Probed
  BY <1>0, LenProperties, VersionsAssumption DEF CheckTypeOK, Lines
<1>3. CheckPlaced'
  BY <1>0, <1>1, <1>2 DEF CheckPlaced, Trying, Warm, OldTimes
<1>4. Lines'
  BY <1>0, <1>1, <1>2 DEF Lines
<1>5. LoopUnderWay'
  BY <1>0, <1>1, <1>2 DEF LoopUnderWay
<1>6. OldBinary'
  BY <1>0, <1>1, <1>2 DEF OldBinary, Trying, Warm, OldTimes
<1>7. QuietTimes'
  BY <1>0, <1>1, <1>2 DEF QuietTimes, AtRest, Fresh, Stamp
<1>8. NotMoved'
  BY <1>0, <1>1 DEF NotMoved, CheckPlaced, Trying
<1>9. ProbeServed'
  BY <1>0, <1>1, <1>2 DEF ProbeServed, Stamp
<1>10. FirstServer'
  BY <1>0, <1>1, <1>2 DEF FirstServer, Hidden, StillOld, Trying, Warm, OldTimes
<1>11. NoTrouble'
  BY <1>0, <1>1, <1>2 DEF NoTrouble, Booting, Serving, Turning, Stamp, Trying,
     Warm, OldTimes
<1> QED
  BY <1>3, <1>4, <1>5, <1>6, <1>7, <1>8, <1>9, <1>10, <1>11 DEF VerdictInv

(* The finally clause puts the files back.                                 *)
LEMMA PutBackKeeps ==
    ASSUME LoopInv, VerdictInv, PutBack
    PROVE  VerdictInv'
<1>0. /\ LoopTypeOK /\ CheckTypeOK /\ LoopPlaced
      /\ ck.step \in {"off", "popen"} => nd.at = "off"
      /\ CheckPlaced /\ Lines /\ LoopUnderWay /\ OldBinary
      /\ QuietTimes /\ NotMoved /\ ProbeServed /\ FirstServer /\ NoTrouble
  BY DEF LoopInv, VerdictInv
<1>1. /\ ck'.step = "stop"
      /\ ck'.read = ck.read
      /\ ck'.mark = ck.mark
      /\ ck'.outside = FALSE
      /\ ck'.failures = ck.failures
      /\ ck'.verdict = ck.verdict
      /\ ck'.hasty = ck.hasty
      /\ ck'.moved = ck.moved
      /\ ck'.tried = ck.tried
      /\ UNCHANGED <<incremental, built, exe, watch, nd, running, said, odd,
                     swapped, first>>
      /\ ck.step = "finally"
  BY <1>0 DEF PutBack, Save, CheckTypeOK
<1>2. /\ ck.read \in Nat /\ ck.mark \in Nat /\ Len(said) \in Nat
      /\ NoVersion \notin {Original, Stale, Probed}
      /\ Original # Stale /\ Original # Probed
  BY <1>0, LenProperties, VersionsAssumption DEF CheckTypeOK, Lines
<1>3. CheckPlaced'
  BY <1>0, <1>1, <1>2 DEF CheckPlaced, Trying, Warm, OldTimes
<1>4. Lines'
  BY <1>0, <1>1, <1>2 DEF Lines
<1>5. LoopUnderWay'
  BY <1>0, <1>1, <1>2 DEF LoopUnderWay
<1>6. OldBinary'
  BY <1>0, <1>1, <1>2 DEF OldBinary, Trying, Warm, OldTimes
<1>7. QuietTimes'
  BY <1>0, <1>1, <1>2 DEF QuietTimes, AtRest, Fresh, Stamp
<1>8. NotMoved'
  BY <1>0, <1>1, <1>2 DEF NotMoved
<1>9. ProbeServed'
  BY <1>0, <1>1, <1>2 DEF ProbeServed, Stamp
<1>10. FirstServer'
  BY <1>0, <1>1, <1>2 DEF FirstServer, Hidden, StillOld, Trying, Warm, OldTimes
<1>11. NoTrouble'
  BY <1>0, <1>1, <1>2 DEF NoTrouble, Booting, Serving, Turning, Stamp, Trying,
     Warm, OldTimes
<1> QED
  BY <1>3, <1>4, <1>5, <1>6, <1>7, <1>8, <1>9, <1>10, <1>11 DEF VerdictInv

(* The loop is signalled.                                                  *)
LEMMA StopLoopKeeps ==
    ASSUME LoopInv, VerdictInv, StopLoop
    PROVE  VerdictInv'
<1>0. /\ LoopTypeOK /\ CheckTypeOK /\ LoopPlaced
      /\ ck.step \in {"off", "popen"} => nd.at = "off"
      /\ CheckPlaced /\ Lines /\ LoopUnderWay /\ OldBinary
      /\ QuietTimes /\ NotMoved /\ ProbeServed /\ FirstServer /\ NoTrouble
  BY DEF LoopInv, VerdictInv
<1>1. /\ ck'.step = "reap"
      /\ ck'.read = ck.read
      /\ ck'.mark = ck.mark
      /\ ck'.outside = ck.outside
      /\ ck'.failures = ck.failures
      /\ ck'.verdict = ck.verdict
      /\ ck'.hasty = ck.hasty
      /\ ck'.moved = ck.moved
      /\ ck'.tried = ck.tried
      /\ UNCHANGED <<source, incremental, built, exe, watch, running, said,
                     odd, swapped, first>>
      /\ ck.step = "stop"
      /\ nd'.at = nd.at
      /\ nd'.server = nd.server
      /\ nd'.serving = nd.serving
      /\ nd'.digest = nd.digest
      /\ nd'.hash = nd.hash
      /\ nd'.once = nd.once
  BY <1>0 DEF StopLoop, Signal, LoopTypeOK, CheckTypeOK
<1>2. /\ ck.read \in Nat /\ ck.mark \in Nat /\ Len(said) \in Nat
      /\ NoVersion \notin {Original, Stale, Probed}
      /\ Original # Stale /\ Original # Probed
  BY <1>0, LenProperties, VersionsAssumption DEF CheckTypeOK, Lines
<1>3. CheckPlaced'
  BY <1>0, <1>1, <1>2 DEF CheckPlaced, Trying, Warm, OldTimes
<1>4. Lines'
  BY <1>0, <1>1, <1>2 DEF Lines
<1>5. LoopUnderWay'
  BY <1>0, <1>1, <1>2 DEF LoopUnderWay
<1>6. OldBinary'
  BY <1>0, <1>1, <1>2 DEF OldBinary, Trying, Warm, OldTimes
<1>7. QuietTimes'
  BY <1>0, <1>1, <1>2 DEF QuietTimes, AtRest, Fresh, Stamp
<1>8. NotMoved'
  BY <1>0, <1>1, <1>2 DEF NotMoved
<1>9. ProbeServed'
  BY <1>0, <1>1, <1>2 DEF ProbeServed, Stamp
<1>10. FirstServer'
  BY <1>0, <1>1, <1>2 DEF FirstServer, Hidden, StillOld, Trying, Warm, OldTimes
<1>11. NoTrouble'
  BY <1>0, <1>1, <1>2 DEF NoTrouble, Booting, Serving, Turning, Stamp, Trying,
     Warm, OldTimes
<1> QED
  BY <1>3, <1>4, <1>5, <1>6, <1>7, <1>8, <1>9, <1>10, <1>11 DEF VerdictInv

(* The loop is waited for, or killed.                                      *)
LEMMA ReapKeeps ==
    ASSUME LoopInv, VerdictInv, Reap
    PROVE  VerdictInv'
<1>0. /\ LoopTypeOK /\ CheckTypeOK /\ LoopPlaced
      /\ ck.step \in {"off", "popen"} => nd.at = "off"
      /\ CheckPlaced /\ Lines /\ LoopUnderWay /\ OldBinary
      /\ QuietTimes /\ NotMoved /\ ProbeServed /\ FirstServer /\ NoTrouble
  BY DEF LoopInv, VerdictInv
<1>1. /\ ck'.step = "gone"
      /\ ck'.read = ck.read
      /\ ck'.mark = ck.mark
      /\ ck'.outside = ck.outside
      /\ ck'.failures = ck.failures
      /\ ck'.verdict = ck.verdict
      /\ ck'.hasty = ck.hasty
      /\ ck'.moved = ck.moved
      /\ ck'.tried = ck.tried
      /\ UNCHANGED <<source, incremental, built, exe, watch, running, said,
                     odd, swapped, first>>
      /\ ck.step = "reap"
      /\ nd'.at = "done"
      /\ nd'.server = nd.server
      /\ nd'.serving = nd.serving
      /\ nd'.digest = nd.digest
      /\ nd'.hash = nd.hash
      /\ nd'.once = nd.once
  BY <1>0 DEF Reap, Signal, LoopTypeOK, CheckTypeOK
<1>2. /\ ck.read \in Nat /\ ck.mark \in Nat /\ Len(said) \in Nat
      /\ NoVersion \notin {Original, Stale, Probed}
      /\ Original # Stale /\ Original # Probed
  BY <1>0, LenProperties, VersionsAssumption DEF CheckTypeOK, Lines
<1>3. CheckPlaced'
  BY <1>0, <1>1, <1>2 DEF CheckPlaced, Trying, Warm, OldTimes
<1>4. Lines'
  BY <1>0, <1>1, <1>2 DEF Lines
<1>5. LoopUnderWay'
  BY <1>0, <1>1, <1>2 DEF LoopUnderWay
<1>6. OldBinary'
  BY <1>0, <1>1, <1>2 DEF OldBinary, Trying, Warm, OldTimes
<1>7. QuietTimes'
  BY <1>0, <1>1, <1>2 DEF QuietTimes, AtRest, Fresh, Stamp
<1>8. NotMoved'
  BY <1>0, <1>1, <1>2 DEF NotMoved
<1>9. ProbeServed'
  BY <1>0, <1>1, <1>2 DEF ProbeServed, Stamp
<1>10. FirstServer'
  BY <1>0, <1>1, <1>2 DEF FirstServer, Hidden, StillOld, Trying, Warm, OldTimes
<1>11. NoTrouble'
  BY <1>0, <1>1, <1>2 DEF NoTrouble, Booting, Serving, Turning, Stamp, Trying,
     Warm, OldTimes
<1> QED
  BY <1>3, <1>4, <1>5, <1>6, <1>7, <1>8, <1>9, <1>10, <1>11 DEF VerdictInv

(* A KeyboardInterrupt.                                                    *)
LEMMA CtrlCKeeps ==
    ASSUME LoopInv, VerdictInv, CtrlC
    PROVE  VerdictInv'
<1>0. /\ LoopTypeOK /\ CheckTypeOK /\ LoopPlaced
      /\ ck.step \in {"off", "popen"} => nd.at = "off"
      /\ CheckPlaced /\ Lines /\ LoopUnderWay /\ OldBinary
      /\ QuietTimes /\ NotMoved /\ ProbeServed /\ FirstServer /\ NoTrouble
  BY DEF LoopInv, VerdictInv
<1>1. /\ ck'.read = ck.read
      /\ ck'.mark = ck.mark
      /\ ck'.outside = ck.outside
      /\ ck'.failures = ck.failures
      /\ ck'.verdict = "exit"
      /\ ck'.hasty = ck.hasty
      /\ ck'.moved = ck.moved
      /\ ck'.tried = ck.tried
      /\ UNCHANGED <<source, incremental, built, exe, watch, nd, running, said,
                     odd, swapped, first>>
      /\ ck'.step \in {"gone", "finally"}
  BY <1>0 DEF CtrlC, Stepping, ndvars, CheckTypeOK
<1>2. /\ ck.read \in Nat /\ ck.mark \in Nat /\ Len(said) \in Nat
      /\ NoVersion \notin {Original, Stale, Probed}
      /\ Original # Stale /\ Original # Probed
  BY <1>0, LenProperties, VersionsAssumption DEF CheckTypeOK, Lines
<1>3. CheckPlaced'
  BY <1>0, <1>1, <1>2 DEF CheckPlaced, Trying, Warm, OldTimes
<1>4. Lines'
  BY <1>0, <1>1, <1>2 DEF Lines
<1>5. LoopUnderWay'
  BY <1>0, <1>1, <1>2 DEF LoopUnderWay
<1>6. OldBinary'
  BY <1>0, <1>1, <1>2 DEF OldBinary, Trying, Warm, OldTimes
<1>7. QuietTimes'
  BY <1>0, <1>1, <1>2 DEF QuietTimes, AtRest, Fresh, Stamp
<1>8. NotMoved'
  BY <1>0, <1>1, <1>2 DEF NotMoved
<1>9. ProbeServed'
  BY <1>0, <1>1, <1>2 DEF ProbeServed, Stamp
<1>10. FirstServer'
  BY <1>0, <1>1, <1>2 DEF FirstServer, Hidden, StillOld, Trying, Warm, OldTimes
<1>11. NoTrouble'
  BY <1>0, <1>1, <1>2 DEF NoTrouble, Booting, Serving, Turning, Stamp, Trying,
     Warm, OldTimes
<1> QED
  BY <1>3, <1>4, <1>5, <1>6, <1>7, <1>8, <1>9, <1>10, <1>11 DEF VerdictInv

(* A step of the check keeps what its verdict rests on.                    *)
LEMMA CheckKeepsVerdict ==
    ASSUME LoopInv, VerdictInv, CheckSteps
    PROVE  VerdictInv'
BY ReaderKeeps, MakeStaleKeeps, PopenLoopKeeps, PopenRaisesKeeps, ExitKeeps,
   FirstSeen, RestoringSeen, RestartSeen, SettledFirst, SettledAgain,
   OutsideKeeps, WatchedKeeps, RestoreKeeps, ProbeKeeps, UndoKeeps,
   RestoringEnds, RestartEnds, ConcludedKeeps, PutBackKeeps, StopLoopKeeps,
   ReapKeeps, CtrlCKeeps DEF CheckSteps

(* Every step keeps it.                                                    *)
LEMMA NextKeepsVerdict ==
    ASSUME LoopInv, VerdictInv, [Next]_<<vars, ndvars, ck>>
    PROVE  VerdictInv'
<1>1. CASE LoopSteps
  BY <1>1, LoopKeepsVerdict
<1>2. CASE CheckSteps
  BY <1>2, CheckKeepsVerdict
<1>3. CASE UNCHANGED <<ndvars, ck>>
  BY <1>3 DEF VerdictInv, ndvars, CheckPlaced, Lines, LoopUnderWay, OldBinary,
     QuietTimes, NotMoved, ProbeServed, FirstServer, NoTrouble, AtRest, Fresh,
     Stamp, Hidden, StillOld, Booting, Serving, Turning
<1>4. DevNext => LoopSteps \/ CheckSteps
  BY DEF DevNext, CheckSteps
<1> QED
  BY <1>1, <1>2, <1>3, <1>4 DEF Next

(* The check starts in it.                                                 *)
LEMMA InitKeepsVerdict == Init => VerdictInv
<1> SUFFICES ASSUME Init PROVE VerdictInv
  OBVIOUS
<1> USE DEF Init, DevInit, LoopInit
<1>1. CheckPlaced /\ LoopUnderWay /\ OldBinary
  BY VersionsAssumption DEF CheckPlaced, LoopUnderWay, OldBinary, Trying, Warm,
     OldTimes
<1>2. Lines
  BY EmptySeq DEF Lines
<1>3. QuietTimes /\ NotMoved /\ ProbeServed /\ FirstServer /\ NoTrouble
  BY DEF QuietTimes, NotMoved, ProbeServed, FirstServer, NoTrouble, Trying
<1> QED
  BY <1>1, <1>2, <1>3 DEF VerdictInv
-----------------------------------------------------------------------------
(* Every script, whatever its servers, the operator and Popen do.          *)
THEOREM DriversInvariant == Spec => [](Inv /\ LoopInv)
BY InitKeepsInv, InitKeepsLoopInv, NextKeepsInv, NextKeepsLoopInv, PTL DEF Spec

(* The finally clauses: for any candidates and any number of processes,    *)
(* between two candidates and once a script is gone no server of it is     *)
(* alive, the files the dev loop's check saved are as they were, and a     *)
(* nilo-dev that was not killed has stopped its build and its server.      *)
THEOREM NothingIsLeft == Spec => []NothingLeftBehind
<1>1. Inv /\ LoopInv /\ LoopOver => NothingLeftBehind
  BY DEF Inv, Tidy, Harmless, Still, LoopInv, LoopOver, FilesPutBack,
         NothingLeftBehind, Alive
<1>2. Init => LoopOver
  BY DEF Init, DevInit, LoopInit, LoopOver
<1>3. Spec => []LoopOver
  BY DriversInvariant, <1>2, NextKeepsOver, PTL DEF Spec
<1> QED
  BY DriversInvariant, <1>1, <1>3, PTL

(* wait_up(), bench() and the checks' verdicts: for any candidates, a      *)
(* number was answered for by processes the script had started for it.     *)
THEOREM NumbersOwn == Spec => []NumbersAreOwn
<1>1. Inv => NumbersAreOwn
  BY DEF Inv, Owned, Harmless, OwnRow, NumbersAreOwn
<1> QED
  BY DriversInvariant, <1>1, PTL

(* load() and save(): for any candidates and any number of runs, the rows  *)
(* of those a run was not asked for survive it.                            *)
THEOREM OthersSurviveRuns == Spec => []OthersSurvive
<1>1. Inv => OthersSurvive
  BY DEF Inv, Spared, OthersSurvive
<1> QED
  BY DriversInvariant, <1>1, PTL

(* main(): for any candidates in any order, a run that ends by itself has  *)
(* a word for every one it was asked for.                                  *)
THEOREM EveryoneAccounted == Spec => []EveryoneIsAccountedFor
<1>1. Inv => EveryoneIsAccountedFor
  <2> SUFFICES ASSUME Inv, pc = "idle", going, n > 0, NEW c \in only
               PROVE  \/ n \in {Word(c).run, Word(c).err}
                      \/ /\ script \in {"http", "ws"} /\ c \in missed
                         /\ file[c] \in {kept[c], NoRow}
    BY DEF EveryoneIsAccountedFor
  <2>1. c \in Cands
    BY DEF Inv, TypeOK
  <2>2. Done(c) /\ (script \in Measures => file = results)
    BY DEF Inv, Accounted
  <2>3. Word(c) = results[c]
    BY <2>2 DEF Word
  <2>4. CASE SaysNow(c)
    BY <2>3, <2>4 DEF SaysNow
  <2>5. CASE ~SaysNow(c)
    <3>1. script \in {"http", "ws"} /\ c \in missed /\ results[c] \in {kept[c], NoRow}
      BY <2>1, <2>2, <2>5 DEF Done, Inv, Remade
    <3> QED
      BY <2>2, <3>1 DEF Measures
  <2> QED
    BY <2>4, <2>5
<1> QED
  BY DriversInvariant, <1>1, PTL

(* dev/main.zig: whatever the build writes, and whenever, a loop with      *)
(* nothing left to do serves the binary on disk, unless the one it started *)
(* was not the one it had hashed.                                          *)
THEOREM ServerCurrent == Spec => []ServerIsCurrent
<1>1. LoopInv => ServerIsCurrent
  BY DEF LoopInv
<1> QED
  BY DriversInvariant, <1>1, PTL

(* bench/devloop.py: for any number of kinds of trouble around the loop,   *)
(* and whatever the order of its steps and the check's, a verdict none of  *)
(* whose waits was too short is right.                                     *)
THEOREM VerdictAlwaysTrue == Spec => []VerdictIsTrue
<1>1. VerdictInv => VerdictIsTrue
  BY DEF VerdictInv, NotMoved, ProbeServed, FirstServer, NoTrouble, Hidden,
         VerdictIsTrue
<1>2. Spec => []VerdictInv
  BY DriversInvariant, InitKeepsVerdict, NextKeepsVerdict, PTL DEF Spec
<1> QED
  BY <1>1, <1>2, PTL
-----------------------------------------------------------------------------
(* The connections a list of readings ends with, and each reading's own    *)
(* against the one before it.                                              *)
Rising(rows) ==
    \A i \in 1..Len(rows) : rows[i] > IF i = 1 THEN 0 ELSE rows[i - 1]

(* A staircase after k steps: at step k if the server was still answering, *)
(* at its cap if it was not.                                               *)
StepOf(cap, r, k) ==
    /\ r.rows \in Seq(Nat)
    /\ r.out \in BOOLEAN
    /\ Rising(r.rows)
    /\ r.out => k > 0 /\ cap < Steps[k] /\ PrevN(r.rows) = cap
    /\ ~r.out => IF k = 0 THEN PrevN(r.rows) = 0
                 ELSE cap >= Steps[k] /\ PrevN(r.rows) = Steps[k]
    /\ r = [rows |-> r.rows, out |-> r.out]

(* A reading of more connections than the one before keeps the list rising.*)
LEMMA OneMoreReading ==
    ASSUME NEW rows \in Seq(Nat), NEW x \in Nat, Rising(rows), x > PrevN(rows)
    PROVE  /\ Append(rows, x) \in Seq(Nat)
           /\ Rising(Append(rows, x))
           /\ PrevN(Append(rows, x)) = x
<1>1. /\ Append(rows, x) \in Seq(Nat)
      /\ Append(rows, x) # <<>>
      /\ Len(Append(rows, x)) = Len(rows) + 1
      /\ Len(rows) \in Nat
      /\ \A i \in 1..Len(rows) : Append(rows, x)[i] = rows[i]
      /\ Append(rows, x)[Len(rows) + 1] = x
  BY AppendProperties
<1>2. PrevN(Append(rows, x)) = x
  BY <1>1 DEF PrevN, Last
<1>3. PrevN(rows) = IF Len(rows) = 0 THEN 0 ELSE rows[Len(rows)]
  BY EmptySeq DEF PrevN, Last
<1>4. ASSUME NEW i \in 1..(Len(rows) + 1)
      PROVE  Append(rows, x)[i] > IF i = 1 THEN 0 ELSE Append(rows, x)[i - 1]
  <2>1. CASE i = Len(rows) + 1
    BY <1>1, <1>3, <2>1
  <2>2. CASE i # Len(rows) + 1
    BY <1>1, <2>2 DEF Rising
  <2> QED
    BY <2>1, <2>2
<1>5. Rising(Append(rows, x))
  BY <1>1, <1>4 DEF Rising
<1> QED
  BY <1>1, <1>2, <1>5

(* One step of either idle_memory(), from where both are at the same.      *)
LEMMA ReadingsAgree ==
    ASSUME NEW cap \in Nat, NEW k \in 1..Len(Steps), NEW r,
           StepOf(cap, r, k - 1)
    PROVE  /\ HttpReading(cap, r, Steps[k]) = S3Reading(cap, r, Steps[k])
           /\ StepOf(cap, HttpReading(cap, r, Steps[k]), k)
<1> DEFINE target == Steps[k]
           before == IF k = 1 THEN 0 ELSE Steps[k - 1]
           more == Append(r.rows, target)
           last == Append(r.rows, cap)
<1>1. target \in Nat \ {0} /\ before \in Nat /\ before < target
  <2>1. Len(Steps) \in Nat /\ \A i \in 1..Len(Steps) : Steps[i] \in Nat \ {0}
    BY StepsAssumption, LenProperties, ElementOfSeq
  <2> QED
    BY <2>1, StepsAssumption
<1>2. /\ r.rows \in Seq(Nat) /\ r.out \in BOOLEAN /\ Rising(r.rows)
      /\ r.out => k - 1 > 0 /\ cap < before /\ PrevN(r.rows) = cap
      /\ ~r.out => PrevN(r.rows) = before /\ before <= cap
      /\ r = [rows |-> r.rows, out |-> r.out]
  BY DEF StepOf
<1> HIDE DEF target, before
<1>3. CASE r.out
  <2>1. HttpReading(cap, r, target) = r /\ S3Reading(cap, r, target) = r
    BY <1>3 DEF HttpReading, S3Reading
  <2>2. cap < target
    BY <1>1, <1>2, <1>3
  <2>3. StepOf(cap, r, k)
    BY <1>2, <1>3, <2>2 DEF StepOf, target
  <2> QED
    BY <2>1, <2>3 DEF target
<1>4. CASE ~r.out /\ cap >= target
  <2>1. HttpReading(cap, r, target) = [rows |-> more, out |-> FALSE]
    BY <1>4 DEF HttpReading
  <2>2. S3Reading(cap, r, target) = [rows |-> more, out |-> FALSE]
    <3>1. ~(cap < target) /\ target # 0 /\ target > PrevN(r.rows)
      BY <1>1, <1>2, <1>4
    <3> QED
      BY <1>4, <3>1 DEF S3Reading
  <2>3. more \in Seq(Nat) /\ Rising(more) /\ PrevN(more) = target
    BY <1>1, <1>2, <1>4, OneMoreReading
  <2>4. StepOf(cap, [rows |-> more, out |-> FALSE], k)
    <3> HIDE DEF more
    <3> QED BY <1>4, <2>3 DEF StepOf, target
  <2> QED
    BY <2>1, <2>2, <2>4 DEF target
<1>5. CASE ~r.out /\ ~(cap >= target) /\ cap > before
  <2>1. HttpReading(cap, r, target) = [rows |-> last, out |-> TRUE]
    <3>1. cap # 0 /\ cap > PrevN(r.rows)
      BY <1>1, <1>2, <1>5
    <3> QED
      BY <1>5, <3>1 DEF HttpReading
  <2>2. S3Reading(cap, r, target) = [rows |-> last, out |-> TRUE]
    <3>1. cap < target /\ cap # 0 /\ cap > PrevN(r.rows)
      BY <1>1, <1>2, <1>5
    <3> QED
      BY <1>5, <3>1 DEF S3Reading
  <2>3. last \in Seq(Nat) /\ Rising(last) /\ PrevN(last) = cap
    BY <1>1, <1>2, <1>5, OneMoreReading
  <2>4. StepOf(cap, [rows |-> last, out |-> TRUE], k)
    <3>1. cap < target
      BY <1>1, <1>5
    <3> HIDE DEF last
    <3> QED BY <3>1, <2>3 DEF StepOf, target
  <2> QED
    BY <2>1, <2>2, <2>4 DEF target
<1>6. CASE ~r.out /\ ~(cap >= target) /\ ~(cap > before)
  <2>1. cap < target /\ cap = before /\ PrevN(r.rows) = cap
    BY <1>1, <1>2, <1>6
  <2>2. HttpReading(cap, r, target) = [rows |-> r.rows, out |-> TRUE]
    BY <1>6, <2>1 DEF HttpReading
  <2>3. S3Reading(cap, r, target) = [rows |-> r.rows, out |-> TRUE]
    BY <1>6, <2>1 DEF S3Reading
  <2>4. StepOf(cap, [rows |-> r.rows, out |-> TRUE], k)
    BY <1>2, <2>1 DEF StepOf, target
  <2> QED
    BY <2>2, <2>3, <2>4 DEF target
<1> QED
  BY <1>3, <1>4, <1>5, <1>6

(* The readings a staircase may be at.                                     *)
AnyReadings == [rows : Seq(Nat), out : BOOLEAN]

(* A list of m steps of both staircases.                                   *)
Treads(g, cap, m) ==
    /\ g[0] = NoReadings
    /\ \A k \in 0..m : StepOf(cap, g[k], k)
    /\ \A k \in 1..m : /\ g[k] = HttpReading(cap, g[k - 1], Steps[k])
                        /\ g[k] = S3Reading(cap, g[k - 1], Steps[k])

(* A reading of a staircase is one of the readings.                        *)
LEMMA StepIsReading ==
    ASSUME NEW cap, NEW r, NEW k, StepOf(cap, r, k)
    PROVE  r \in AnyReadings
BY DEF StepOf, AnyReadings

(* There are such steps, for as many steps as there are.                   *)
LEMMA TreadsAreThere ==
    ASSUME NEW cap \in Nat
    PROVE  \E g \in [0..Len(Steps) -> AnyReadings] : Treads(g, cap, Len(Steps))
<1>0. Len(Steps) \in Nat
  BY StepsAssumption, LenProperties
<1> DEFINE n0 == Len(Steps)
           All(m) == {g \in [0..m -> AnyReadings] : Treads(g, cap, m)}
           Missing == {m \in 0..n0 : All(m) = {}}
<1>1. ASSUME Missing # {} PROVE FALSE
  <2>1. Missing \in SUBSET Nat
    BY <1>0
  <2>2. PICK m \in Missing : \A k \in Missing : m <= k
    <3> HIDE DEF Missing
    <3> QED BY <1>1, <2>1, LeastNumber
  <2>3. m \in 0..n0 /\ All(m) = {}
    BY <2>2
  <2>4. CASE m = 0
    <3> DEFINE g == [k \in 0..0 |-> NoReadings]
    <3>1. StepOf(cap, NoReadings, 0)
      <4>1. /\ NoReadings.rows = <<>> /\ NoReadings.out = FALSE
            /\ NoReadings = [rows |-> NoReadings.rows, out |-> NoReadings.out]
        BY DEF NoReadings
      <4>2. <<>> \in Seq(Nat) /\ Len(<<>>) = 0
        BY EmptySeq
      <4>3. Rising(<<>>) /\ PrevN(<<>>) = 0
        BY <4>2 DEF Rising, PrevN
      <4> QED
        BY <4>1, <4>2, <4>3 DEF StepOf
    <3>2. g \in [0..0 -> AnyReadings]
      BY <3>1, StepIsReading
    <3>3. Treads(g, cap, 0)
      BY <3>1 DEF Treads
    <3> QED
      BY <2>3, <2>4, <3>2, <3>3
  <2>5. CASE m # 0
    <3>1. m - 1 \in 0..n0 /\ m - 1 \notin Missing
      BY <1>0, <2>2, <2>5
    <3>2. PICK h \in [0..(m - 1) -> AnyReadings] : Treads(h, cap, m - 1)
      BY <3>1
    <3> DEFINE new == HttpReading(cap, h[m - 1], Steps[m])
               g == [k \in 0..m |-> IF k = m THEN new ELSE h[k]]
    <3>3. StepOf(cap, h[m - 1], m - 1)
      BY <2>3, <3>1, <3>2 DEF Treads
    <3>4. StepOf(cap, new, m) /\ new = S3Reading(cap, h[m - 1], Steps[m])
      BY <2>3, <2>5, <3>3, ReadingsAgree
    <3>5. new \in AnyReadings
      BY <3>4, StepIsReading
    <3> HIDE DEF new
    <3>6. g \in [0..m -> AnyReadings]
      BY <2>3, <3>2, <3>5
    <3>7. Treads(g, cap, m)
      <4>1. g[m] = new /\ \A k \in 0..(m - 1) : g[k] = h[k]
        BY <2>3
      <4>2. g[0] = NoReadings
        BY <2>3, <2>5, <3>2, <4>1 DEF Treads
      <4>3. \A k \in 0..m : StepOf(cap, g[k], k)
        BY <2>3, <3>2, <3>4, <4>1 DEF Treads
      <4>4. ASSUME NEW k \in 1..m
            PROVE  /\ g[k] = HttpReading(cap, g[k - 1], Steps[k])
                   /\ g[k] = S3Reading(cap, g[k - 1], Steps[k])
        <5>1. g[k - 1] = h[k - 1]
          BY <2>3, <4>1
        <5>2. CASE k = m
          BY <3>4, <4>1, <5>1, <5>2 DEF new
        <5>3. CASE k # m
          <6>1. k \in 1..(m - 1) /\ g[k] = h[k]
            BY <2>3, <4>1, <5>3
          <6> QED
            BY <3>2, <5>1, <6>1 DEF Treads
        <5> QED
          BY <5>2, <5>3
      <4> QED
        BY <4>2, <4>3, <4>4 DEF Treads
    <3> QED
      BY <2>3, <3>6, <3>7
  <2> QED
    BY <2>4, <2>5
<1>2. n0 \notin Missing /\ n0 \in 0..n0
  BY <1>0, <1>1
<1>3. All(n0) # {}
  <2> HIDE DEF All
  <2> QED BY <1>2
<1> QED
  BY <1>3 DEF n0

(* Where the staircase of bench/compare/drive.py ends.                    *)
LEMMA HttpStaircaseIs ==
    ASSUME NEW cap \in Nat, NEW g \in [0..Len(Steps) -> AnyReadings],
           Treads(g, cap, Len(Steps))
    PROVE  HttpStaircase(cap) = g[Len(Steps)].rows
<1> DEFINE Equation(h) ==
               h = [k \in 0..Len(Steps) |->
                       IF k = 0 THEN NoReadings
                       ELSE HttpReading(cap, h[k - 1], Steps[k])]
           f == CHOOSE h : Equation(h)
<1>0. Len(Steps) \in Nat
  BY StepsAssumption, LenProperties
<1>1. g[0] = NoReadings
      /\ \A k \in 1..Len(Steps) : g[k] = HttpReading(cap, g[k - 1], Steps[k])
  BY DEF Treads
<1>2. Equation(g)
  <2> DEFINE h == [k \in 0..Len(Steps) |->
                      IF k = 0 THEN NoReadings
                      ELSE HttpReading(cap, g[k - 1], Steps[k])]
  <2>1. ASSUME NEW k \in 0..Len(Steps) PROVE g[k] = h[k]
    <3>1. CASE k = 0
      BY <1>1, <3>1
    <3>2. CASE k # 0
      <4>1. k \in 1..Len(Steps)
        BY <1>0, <3>2
      <4> QED
        BY <1>1, <3>2, <4>1
    <3> QED
      BY <3>1, <3>2
  <2> QED
    BY <2>1
<1>3. Equation(f)
  BY <1>2
<1>4. HttpStaircase(cap) = f[Len(Steps)].rows
  BY Zenon DEF HttpStaircase
<1> HIDE DEF f
<1>5. f[0] = NoReadings
      /\ \A k \in 1..Len(Steps) : f[k] = HttpReading(cap, f[k - 1], Steps[k])
  <2>1. 0 \in 0..Len(Steps)
        /\ \A k \in 1..Len(Steps) : k \in 0..Len(Steps) /\ k # 0
    BY <1>0
  <2> QED
    BY <1>3, <2>1
<1>6. \A k \in 0..Len(Steps) : f[k] = g[k]
  <2> DEFINE Off == {k \in 0..Len(Steps) : f[k] # g[k]}
  <2>1. ASSUME Off # {} PROVE FALSE
    <3>1. Off \in SUBSET Nat
      BY <1>0
    <3>2. PICK k \in Off : \A j \in Off : k <= j
      <4> HIDE DEF Off
      <4> QED BY <2>1, <3>1, LeastNumber
    <3>3. k # 0
      BY <1>1, <1>5, <3>2
    <3>4. k - 1 \in 0..Len(Steps) /\ k - 1 \notin Off /\ k \in 1..Len(Steps)
      BY <1>0, <3>2, <3>3
    <3> QED
      BY <1>1, <1>5, <3>2, <3>4
  <2> QED
    BY <2>1
<1> QED
  BY <1>0, <1>4, <1>6

(* Where the staircase of bench/compare-s3/drive.py ends.                 *)
LEMMA S3StaircaseIs ==
    ASSUME NEW cap \in Nat, NEW g \in [0..Len(Steps) -> AnyReadings],
           Treads(g, cap, Len(Steps))
    PROVE  S3Staircase(cap) = g[Len(Steps)].rows
<1> DEFINE Equation(h) ==
               h = [k \in 0..Len(Steps) |->
                       IF k = 0 THEN NoReadings
                       ELSE S3Reading(cap, h[k - 1], Steps[k])]
           f == CHOOSE h : Equation(h)
<1>0. Len(Steps) \in Nat
  BY StepsAssumption, LenProperties
<1>1. g[0] = NoReadings
      /\ \A k \in 1..Len(Steps) : g[k] = S3Reading(cap, g[k - 1], Steps[k])
  BY DEF Treads
<1>2. Equation(g)
  <2> DEFINE h == [k \in 0..Len(Steps) |->
                      IF k = 0 THEN NoReadings
                      ELSE S3Reading(cap, g[k - 1], Steps[k])]
  <2>1. ASSUME NEW k \in 0..Len(Steps) PROVE g[k] = h[k]
    <3>1. CASE k = 0
      BY <1>1, <3>1
    <3>2. CASE k # 0
      <4>1. k \in 1..Len(Steps)
        BY <1>0, <3>2
      <4> QED
        BY <1>1, <3>2, <4>1
    <3> QED
      BY <3>1, <3>2
  <2> QED
    BY <2>1
<1>3. Equation(f)
  BY <1>2
<1>4. S3Staircase(cap) = f[Len(Steps)].rows
  BY Zenon DEF S3Staircase
<1> HIDE DEF f
<1>5. f[0] = NoReadings
      /\ \A k \in 1..Len(Steps) : f[k] = S3Reading(cap, f[k - 1], Steps[k])
  <2>1. 0 \in 0..Len(Steps)
        /\ \A k \in 1..Len(Steps) : k \in 0..Len(Steps) /\ k # 0
    BY <1>0
  <2> QED
    BY <1>3, <2>1
<1>6. \A k \in 0..Len(Steps) : f[k] = g[k]
  <2> DEFINE Off == {k \in 0..Len(Steps) : f[k] # g[k]}
  <2>1. ASSUME Off # {} PROVE FALSE
    <3>1. Off \in SUBSET Nat
      BY <1>0
    <3>2. PICK k \in Off : \A j \in Off : k <= j
      <4> HIDE DEF Off
      <4> QED BY <2>1, <3>1, LeastNumber
    <3>3. k # 0
      BY <1>1, <1>5, <3>2
    <3>4. k - 1 \in 0..Len(Steps) /\ k - 1 \notin Off /\ k \in 1..Len(Steps)
      BY <1>0, <3>2, <3>3
    <3> QED
      BY <1>1, <1>5, <3>2, <3>4
  <2> QED
    BY <2>1
<1> QED
  BY <1>0, <1>4, <1>6

(* Both drivers' readings are the same, rise, and end at the cap or at the *)
(* last step, for every cap and every list of steps.                       *)
THEOREM StaircasesAlwaysAgree == Spec => []StaircasesAgree
<1>1. ASSUME NEW cap \in Caps
      PROVE  LET rows == HttpStaircase(cap)
             IN  /\ rows = S3Staircase(cap)
                 /\ \A i \in DOMAIN rows : rows[i] > PrevN(SubSeq(rows, 1, i - 1))
                 /\ cap # 0 /\ Steps # <<>> =>
                        PrevN(rows) = IF cap < Last(Steps) THEN cap ELSE Last(Steps)
  <2>1. cap \in Nat /\ Len(Steps) \in Nat
    BY StepsAssumption, LenProperties
  <2>2. PICK g \in [0..Len(Steps) -> AnyReadings] : Treads(g, cap, Len(Steps))
    BY <2>1, TreadsAreThere
  <2> DEFINE rows == g[Len(Steps)].rows
  <2>3. HttpStaircase(cap) = rows /\ S3Staircase(cap) = rows
    BY <2>1, <2>2, HttpStaircaseIs, S3StaircaseIs
  <2>4. StepOf(cap, g[Len(Steps)], Len(Steps))
    BY <2>1, <2>2 DEF Treads
  <2>5. rows \in Seq(Nat) /\ Rising(rows)
    BY <2>4 DEF StepOf
  <2>6. cap # 0 /\ Steps # <<>> =>
            PrevN(rows) = IF cap < Last(Steps) THEN cap ELSE Last(Steps)
    <3>1. SUFFICES ASSUME Steps # <<>>
                   PROVE  PrevN(rows) = IF cap < Last(Steps) THEN cap ELSE Last(Steps)
      OBVIOUS
    <3>2. Len(Steps) # 0 /\ Last(Steps) = Steps[Len(Steps)]
      BY <3>1, StepsAssumption, EmptySeq DEF Last
    <3>3. Steps[Len(Steps)] \in Nat
      BY <2>1, <3>2, StepsAssumption, ElementOfSeq
    <3>4. g[Len(Steps)].out \in BOOLEAN
      BY <2>4 DEF StepOf
    <3> QED
      BY <2>1, <2>4, <3>2, <3>3, <3>4 DEF StepOf
  <2> HIDE DEF rows
  <2>7. DOMAIN rows = 1..Len(rows) /\ Len(rows) \in Nat
    BY <2>5, LenProperties
  <2>8. ASSUME NEW i \in DOMAIN rows
        PROVE  rows[i] > PrevN(SubSeq(rows, 1, i - 1))
    <3>1. rows[i] > IF i = 1 THEN 0 ELSE rows[i - 1]
      BY <2>5, <2>7 DEF Rising
    <3>2. CASE i = 1
      <4>1. SubSeq(rows, 1, i - 1) = <<>>
        BY <2>7, <3>2, SubSeqEmpty
      <4> QED
        BY <3>1, <3>2, <4>1 DEF PrevN
    <3>3. CASE i # 1
      <4> DEFINE front == SubSeq(rows, 1, i - 1)
      <4>1. \A j \in 1..(i - 1) : rows[j] \in Nat
        BY <2>5, <2>7, ElementOfSeq
      <4>2. /\ Len(front) = i - 1
            /\ \A j \in 1..(i - 1 - 1 + 1) : front[j] = rows[1 + j - 1]
        BY <2>7, <3>3, <4>1, SubSeqProperties
      <4>3. front # <<>> /\ front[i - 1] = rows[i - 1]
        <5>1. Len(front) # Len(<<>>)
          BY <2>7, <3>3, <4>2, EmptySeq
        <5>2. front[i - 1] = rows[i - 1]
          BY <2>7, <3>3, <4>2
        <5> QED
          BY <5>1, <5>2
      <4>4. PrevN(front) = rows[i - 1]
        BY <4>2, <4>3 DEF PrevN, Last
      <4> QED
        BY <3>1, <3>3, <4>4
    <3> QED
      BY <3>2, <3>3
  <2> QED
    BY <2>3, <2>6, <2>8
<1>2. StaircasesAgree
  BY <1>1 DEF StaircasesAgree
<1> QED
  BY <1>2, PTL

(* A list with a member for each of so many places is a sequence of them.  *)
LEMMA ListOf ==
    ASSUME NEW m \in Nat, NEW S, NEW s \in [1..m -> S]
    PROVE  s \in Seq(S) /\ Len(s) = m /\ DOMAIN s = 1..m
<1>1. s \in Seq(S)
  BY SeqDef
<1>2. DOMAIN s = 1..Len(s) /\ Len(s) \in Nat
  BY <1>1, LenProperties
<1> QED
  BY <1>1, <1>2

(* The places before another, by key and then by place: all of them are    *)
(* among the list's, and two places have different ones before them.       *)
LEMMA BeforeIsRank ==
    ASSUME NEW m \in Nat, NEW keys \in [1..m -> Int]
    PROVE  /\ \A i \in 1..m : /\ Before(keys, i) \in SUBSET (1..m)
                              /\ i \notin Before(keys, i)
           /\ \A i, j \in 1..m :
                  i # j => \/ i \in Before(keys, j)
                              /\ Before(keys, i) \subseteq Before(keys, j)
                           \/ j \in Before(keys, i)
                              /\ Before(keys, j) \subseteq Before(keys, i)
<1>1. DOMAIN keys = 1..m /\ \A i \in 1..m : keys[i] \in Int
  OBVIOUS
<1>2. ASSUME NEW i \in 1..m
      PROVE  Before(keys, i) \in SUBSET (1..m) /\ i \notin Before(keys, i)
  BY <1>1 DEF Before
<1>3. ASSUME NEW i \in 1..m, NEW j \in 1..m, i \in Before(keys, j)
      PROVE  Before(keys, i) \subseteq Before(keys, j)
  <2>1. SUFFICES ASSUME NEW k \in 1..m, k \in Before(keys, i)
                 PROVE  k \in Before(keys, j)
    BY <1>2
  <2>2. keys[i] \in Int /\ keys[j] \in Int /\ keys[k] \in Int
    BY <1>1
  <2> QED
    BY <1>1, <1>3, <2>1, <2>2 DEF Before
<1>4. ASSUME NEW i \in 1..m, NEW j \in 1..m, i # j
      PROVE  i \in Before(keys, j) \/ j \in Before(keys, i)
  BY <1>1, <1>4 DEF Before
<1> QED
  BY <1>2, <1>3, <1>4

(* The middle of a list that is not empty is one of its places, with half  *)
(* of them before it.                                                      *)
LEMMA MiddleIs ==
    ASSUME NEW m \in Nat \ {0}, NEW keys \in [1..m -> Int]
    PROVE  /\ Middle(keys) \in 1..m
           /\ Cardinality(Before(keys, Middle(keys))) = m \div 2
<1> DEFINE rank == [i \in 1..m |-> Cardinality(Before(keys, i))]
<1>0. Len(keys) = m /\ DOMAIN keys = 1..m
  BY ListOf
<1>1. IsFiniteSet(1..m) /\ Cardinality(1..m) = m
  BY FS_Interval
<1>2. IsFiniteSet(0..(m - 1)) /\ Cardinality(0..(m - 1)) = m
  BY FS_Interval
<1>3. ASSUME NEW i \in 1..m
      PROVE  /\ IsFiniteSet(Before(keys, i))
             /\ Cardinality(Before(keys, i)) \in 0..(m - 1)
  <2>1. Before(keys, i) \in SUBSET (1..m) /\ i \notin Before(keys, i)
    BY BeforeIsRank
  <2>2. /\ IsFiniteSet(Before(keys, i))
        /\ Cardinality(Before(keys, i)) <= m
        /\ Cardinality(1..m) = Cardinality(Before(keys, i)) => 1..m = Before(keys, i)
    BY <1>1, <2>1, FS_Subset
  <2>3. Cardinality(Before(keys, i)) \in Nat
    BY <2>2, FS_CardinalityType
  <2>4. Cardinality(Before(keys, i)) # m
    BY <1>1, <2>1, <2>2
  <2> QED
    BY <2>2, <2>3, <2>4
<1>4. ASSUME NEW i \in 1..m, NEW j \in 1..m, i \in Before(keys, j),
             Before(keys, i) \subseteq Before(keys, j)
      PROVE  Cardinality(Before(keys, i)) # Cardinality(Before(keys, j))
  <2>1. i \notin Before(keys, i)
    BY BeforeIsRank
  <2> QED
    BY <1>3, <1>4, <2>1, FS_Subset
<1>5. ASSUME NEW i \in 1..m, NEW j \in 1..m, i # j
      PROVE  Cardinality(Before(keys, i)) # Cardinality(Before(keys, j))
  BY <1>4, <1>5, BeforeIsRank
<1>6. rank \in Injection(1..m, 0..(m - 1))
  <2>1. rank \in [1..m -> 0..(m - 1)]
    BY <1>3
  <2>2. \A i, j \in 1..m : rank[i] = rank[j] => i = j
    BY <1>5
  <2> QED
    BY <2>1, <2>2 DEF Injection, IsInjective
<1>7. rank \in Surjection(1..m, 0..(m - 1))
  BY <1>1, <1>2, <1>6, FS_Injection
<1>8. m \div 2 \in 0..(m - 1)
  OBVIOUS
<1>9. PICK i \in 1..m : rank[i] = m \div 2
  BY <1>7, <1>8 DEF Surjection
<1>10. \E k \in DOMAIN keys : Cardinality(Before(keys, k)) = Len(keys) \div 2
  BY <1>0, <1>9
<1>11. /\ Middle(keys) \in DOMAIN keys
       /\ Cardinality(Before(keys, Middle(keys))) = Len(keys) \div 2
  BY <1>10 DEF Middle
<1> QED
  BY <1>0, <1>11

(* What a pass found of a route.                                           *)
LEMMA RunFacts ==
    ASSUME NEW r \in OneRun
    PROVE  /\ r.rps \in Nat /\ r.ns \in Nat
           /\ r.rps = 0 => r.ns = 0
<1>1. CASE r \in {NoFigure, [NoFigure EXCEPT !.errors = FALSE]}
  BY <1>1 DEF NoFigure
<1>2. CASE r \in [rps : Rates, ns : Costs, errors : BOOLEAN]
  <2>1. r.rps \in Rates /\ r.ns \in Costs
    BY <1>2
  <2>2. r.rps \in Nat \ {0} /\ r.ns \in Nat
    BY <2>1, PassesAssumption
  <2> QED
    BY <2>2
<1> QED
  BY <1>1, <1>2 DEF OneRun

(* A route whose middle pass has a rate was served in at least half of the *)
(* passes: a pass without one has rate zero, and comes before it.          *)
LEMMA HalfAreServed ==
    ASSUME NEW runs \in [1..Passes -> OneRun], Summarise(runs).rps # 0
    PROVE  2 * Cardinality({i \in 1..Passes : runs[i].rps > 0}) >= Passes
<1> DEFINE rates == [i \in DOMAIN runs |-> runs[i].rps]
           mid == Middle(rates)
           good == {i \in 1..Passes : runs[i].rps > 0}
           bad == {i \in 1..Passes : runs[i].rps = 0}
<1>1. Passes \in Nat \ {0}
  BY PassesAssumption
<1>2. \A i \in 1..Passes : runs[i].rps \in Nat
  BY RunFacts
<1>3. rates \in [1..Passes -> Int] /\ \A i \in 1..Passes : rates[i] = runs[i].rps
  BY <1>2
<1>4. runs[mid].rps # 0
  BY DEF Summarise
<1> HIDE DEF rates, mid
<1>5. mid \in 1..Passes /\ Cardinality(Before(rates, mid)) = Passes \div 2
  BY <1>1, <1>3, MiddleIs DEF mid
<1>6. bad \subseteq Before(rates, mid) /\ Before(rates, mid) \in SUBSET (1..Passes)
  <2>1. rates[mid] > 0
    BY <1>2, <1>3, <1>4, <1>5
  <2>2. ASSUME NEW i \in bad PROVE i \in Before(rates, mid)
    <3>1. i \in DOMAIN rates /\ rates[i] = 0
      BY <1>2, <1>3
    <3> QED
      BY <1>3, <1>5, <2>1, <3>1 DEF Before
  <2>3. Before(rates, mid) \in SUBSET (1..Passes)
    BY <1>1, <1>3, <1>5, BeforeIsRank
  <2> QED
    BY <2>2, <2>3
<1>7. IsFiniteSet(1..Passes) /\ Cardinality(1..Passes) = Passes
  BY <1>1, FS_Interval
<1>8. IsFiniteSet(bad) /\ Cardinality(bad) <= Passes \div 2
  <2>1. IsFiniteSet(Before(rates, mid))
    BY <1>6, <1>7, FS_Subset
  <2> HIDE DEF bad
  <2> QED BY <1>5, <1>6, <2>1, FS_Subset
<1>9. IsFiniteSet(good)
  BY <1>7, FS_Subset
<1>10. good \cup bad = 1..Passes /\ good \cap bad = {}
  BY <1>2
<1> HIDE DEF good, bad
<1>11. Cardinality(1..Passes) = Cardinality(good) + Cardinality(bad)
  <2>1. Cardinality(1..Passes) = Cardinality(good) + Cardinality(bad) - Cardinality({})
    BY <1>8, <1>9, <1>10, FS_Union
  <2>2. Cardinality(good) \in Nat /\ Cardinality(bad) \in Nat /\ Cardinality({}) = 0
    BY <1>8, <1>9, FS_CardinalityType, FS_EmptySet
  <2> QED
    BY <2>1, <2>2
<1>12. Cardinality(good) \in Nat /\ Cardinality(bad) \in Nat
  BY <1>8, <1>9, FS_CardinalityType
<1>13. 2 * Cardinality(good) >= Passes
  BY <1>1, <1>7, <1>8, <1>11, <1>12
<1> QED
  BY <1>13 DEF good

(* A cell without a mark is a cost, for any number of passes and whatever  *)
(* the routes' figures and errors.                                         *)
THEOREM PlainCellsAlwaysAreCosts == Spec => []PlainCellsAreCosts
<1>1. ASSUME NEW passes \in AllPasses,
             Paired(passes).agree, ~Void(<<Paired(passes).median>>)
      PROVE  /\ \A i \in 1..Passes :
                    /\ passes[i].store.rps > 0
                    /\ passes[i].store.ns > passes[i].floor.ns
             /\ \/ 2 * Cardinality({i \in 1..Passes :
                           passes[i].floor.rps > 0}) >= Passes
                \/ Summarise([i \in 1..Passes |-> passes[i].floor]).rps = 0
  <2> DEFINE deltas == [i \in DOMAIN passes |->
                            passes[i].store.ns - passes[i].floor.ns]
             floors == [i \in 1..Passes |-> passes[i].floor]
  <2>1. /\ Passes \in Nat \ {0}
        /\ DOMAIN passes = 1..Passes
        /\ \A i \in 1..Passes : passes[i].store \in OneRun /\ passes[i].floor \in OneRun
    BY PassesAssumption DEF AllPasses
  <2>2. \A i \in 1..Passes : /\ passes[i].store.ns \in Nat
                             /\ passes[i].floor.ns \in Nat
                             /\ passes[i].store.rps \in Nat
                             /\ passes[i].store.rps = 0 => passes[i].store.ns = 0
    BY <2>1, RunFacts
  <2>3. deltas \in [1..Passes -> Int]
    BY <2>1, <2>2
  <2>4. Middle(deltas) \in 1..Passes
    BY <2>1, <2>3, MiddleIs
  <2>5. /\ \/ \A i \in DOMAIN deltas : deltas[i] > 0
           \/ \A i \in DOMAIN deltas : deltas[i] < 0
        /\ Paired(passes).median = deltas[Middle(deltas)]
    BY <1>1 DEF Paired
  <2>6. ~(deltas[Middle(deltas)] < 0)
    <3>1. ASSUME deltas[Middle(deltas)] < 0 PROVE FALSE
      <4> DEFINE medians == <<Paired(passes).median>>
      <4>1. 1 \in DOMAIN medians /\ medians[1] = Paired(passes).median
        OBVIOUS
      <4>2. medians[1] < 0
        BY <2>5, <3>1, <4>1
      <4> HIDE DEF medians
      <4>3. Void(medians)
        BY <4>1, <4>2 DEF Void
      <4> QED
        BY <1>1, <4>3 DEF medians
    <3> QED
      BY <3>1
  <2> HIDE DEF deltas
  <2>7. \A i \in 1..Passes : deltas[i] > 0
    BY <2>3, <2>4, <2>5, <2>6
  <2>8. ASSUME NEW i \in 1..Passes
        PROVE  passes[i].store.rps > 0 /\ passes[i].store.ns > passes[i].floor.ns
    <3>1. passes[i].store.ns - passes[i].floor.ns > 0
      BY <2>1, <2>7 DEF deltas
    <3> QED
      BY <2>2, <3>1
  <2>9. floors \in [1..Passes -> OneRun] /\ \A i \in 1..Passes : floors[i] = passes[i].floor
    BY <2>1
  <2>10. \/ 2 * Cardinality({i \in 1..Passes : passes[i].floor.rps > 0}) >= Passes
         \/ Summarise(floors).rps = 0
    <3> HIDE DEF floors
    <3>1. SUFFICES ASSUME Summarise(floors).rps # 0
                   PROVE  2 * Cardinality({i \in 1..Passes : passes[i].floor.rps > 0})
                              >= Passes
      OBVIOUS
    <3>2. 2 * Cardinality({i \in 1..Passes : floors[i].rps > 0}) >= Passes
      BY <2>9, <3>1, HalfAreServed
    <3>3. {i \in 1..Passes : floors[i].rps > 0}
              = {i \in 1..Passes : passes[i].floor.rps > 0}
      BY <2>9
    <3> QED
      BY <3>2, <3>3
  <2> QED
    BY <2>8, <2>10
<1>2. PlainCellsAreCosts
  BY <1>1 DEF PlainCellsAreCosts
<1> QED
  BY <1>2, PTL
=============================================================================
