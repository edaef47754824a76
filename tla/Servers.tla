------------------------------ MODULE Servers ------------------------------
(***************************************************************************)
(* What the comparison harnesses under bench/ have in common.  A script    *)
(* takes its candidates in order; for each it starts the server's          *)
(* processes, waits for somebody to accept on the port, takes numbers and  *)
(* stops what it started, and it keeps its results in a JSON file that is  *)
(* truncated and written again.  The servers are processes of their own:   *)
(* they bind when they get to it, may die at any time, and two candidates  *)
(* may share a port.  The definitions without a prefix are those of        *)
(* bench/compare/drive.py, which bench/ws_idle.py imports and of which     *)
(* bench/compare-s3/drive.py holds its own copies.                         *)
(*                                                                         *)
(* The operator may interrupt the script once; a Popen may raise, and so   *)
(* may a save.                                                             *)
(***************************************************************************)
EXTENDS Naturals, Sequences, FiniteSets

CONSTANTS
    Cands,      \* the candidates
    Order,      \* the sequence in which a script takes them
    Port,       \* the port each one binds
    Procs,      \* how many processes each one is
    Sharing,    \* the ones that bind with SO_REUSEPORT
    MaxRuns,    \* bound: how often the operator runs the script
    MaxHarm     \* bound: of what raises and an interrupt, how many kinds

ASSUME CandsAssumption ==
    /\ IsFiniteSet(Cands)
    /\ Order \in Seq(Cands) /\ Order # <<>>
    /\ \A c \in Cands : \E i \in 1..Len(Order) : Order[i] = c
    /\ Procs \in [Cands -> Nat \ {0}]
    /\ Sharing \subseteq Cands
    /\ MaxRuns \in Nat
    /\ MaxHarm \in Nat

VARIABLES
    script,     \* which of the scripts this is
    pc,         \* the step it is at
    n,          \* how often it has been run
    only,       \* the candidates this run was asked for
    pos,        \* the place in Order of the candidate in hand
    going,      \* whether the loop goes on once this candidate is stopped
    mine,       \* what has become of the processes in `procs`
    strays,     \* kinds of live processes that no list names any more
    results,    \* the rows in memory
    file,       \* the rows on disk, or the mark of a file cut short
    got,        \* who answered while this candidate's numbers were taken
    \* What is only observed:
    harm,       \* the failures that have happened
    kept,       \* the rows last written whole before this run
    missed      \* candidates this run left without a word in results

vars == <<script, pc, n, only, pos, going, mine, strays, results, file, got,
          harm, kept, missed>>
-----------------------------------------------------------------------------
(* Rows: the run whose numbers stand in one, who answered for them, and    *)
(* the run whose error it carries.                                         *)
NoRow == [run |-> 0, by |-> "nobody", err |-> 0]
NoRows == [c \in Cands |-> NoRow]
Torn == <<>>
NoneTaken == "nobody"

(* The candidate in hand; before the first, the first.                     *)
cand == Order[IF pos = 0 THEN 1 ELSE pos]
More == \E i \in (pos + 1)..Len(Order) : Order[i] \in only

(* The processes of a candidate, and who is listening on its port.         *)
Listening(c) == {"mine" : i \in {j \in DOMAIN mine : mine[j] = "listening"
                                                  /\ Port[cand] = Port[c]}}
                \cup {"stray" : s \in {t \in strays : t.st = "listening"
                                                   /\ Port[t.of] = Port[c]}}

Alive == (\E i \in DOMAIN mine : mine[i] # "dead") \/ strays # {}

WhoAnswers == IF Listening(cand) = {} THEN "nobody"
              ELSE IF Listening(cand) = {"mine"} THEN "own" ELSE "other"

(* A bind succeeds on a free port, or when everyone on it shares it.       *)
MayBind(c) == \/ Listening(c) = {}
              \/ /\ c \in Sharing
                 /\ "mine" \in Listening(c) => cand \in Sharing
                 /\ \A s \in strays :
                        s.st = "listening" /\ Port[s.of] = Port[c] =>
                            s.of \in Sharing
-----------------------------------------------------------------------------
(* The servers, on their own time.                                         *)
Server(i) ==
    /\ i \in DOMAIN mine
    /\ \/ /\ mine[i] = "starting"
          /\ mine' = [mine EXCEPT ![i] = IF MayBind(cand) THEN "listening"
                                                          ELSE "dead"]
       \/ /\ mine[i] # "dead"
          /\ mine' = [mine EXCEPT ![i] = "dead"]
    /\ UNCHANGED <<script, pc, n, only, pos, going, strays, results, file,
                   got, harm, kept, missed>>

(* A stray that binds, or the last of its kind going away.                 *)
Stray(s) ==
    /\ s \in strays
    /\ \/ /\ s.st = "starting"
          /\ MayBind(s.of)
          /\ strays' = (strays \ {s}) \cup {[s EXCEPT !.st = "listening"]}
       \/ strays' = strays \ {s}
    /\ UNCHANGED <<script, pc, n, only, pos, going, mine, results, file,
                   got, harm, kept, missed>>
-----------------------------------------------------------------------------
(* Steps of the scripts, from one place to another.                        *)
Go(from, to) == pc = from /\ pc' = to

StillAlive == {[of |-> cand, st |-> mine[i]] :
                   i \in {j \in DOMAIN mine : mine[j] # "dead"}}

(* load(): what the last run wrote, or nothing when that cannot be parsed. *)
LoadedClean == NoRows

Loaded == IF file = Torn THEN NoRows ELSE file

NoteKept == kept' = IF file = Torn THEN kept ELSE file

(* The next candidate asked for, or the end of the loop.  What `procs`     *)
(* named until now is named by nobody once it is assigned again.           *)
NextCandidate(start, end) ==
    /\ pc = "next"
    /\ IF More
       THEN /\ pos' = CHOOSE i \in (pos + 1)..Len(Order) :
                         /\ Order[i] \in only
                         /\ \A j \in (pos + 1)..(i - 1) : Order[j] \notin only
            /\ pc' = start
       ELSE pos' = pos /\ pc' = end
    /\ mine' = <<>>
    /\ strays' = strays \cup StillAlive
    /\ got' = NoneTaken
    /\ UNCHANGED <<script, n, only, going, results, file, harm, kept, missed>>

(* start(): every Popen of the candidate, or the ones before the one that  *)
(* raises: those are in a list that is dropped with the exception.         *)
Started(c) == [i \in 1..Procs[c] |-> "starting"]

Start(here, there) ==
    /\ Go(here, there)
    /\ mine' = Started(cand)
    /\ strays' = strays \cup StillAlive
    /\ UNCHANGED <<script, n, only, pos, going, results, file, got, harm, kept,
                   missed>>

Dropped(j) == IF j = 0 THEN {} ELSE {[of |-> cand, st |-> "starting"]}

(* wait_up(): anybody who accepts on the port will do.                     *)
Accepts == Listening(cand) # {}

(* stop(): SIGTERM to every group, a second, SIGKILL to every group.  What *)
(* SIGTERM does is up to the server; SIGKILL is not.                       *)
Terminate(here, there) ==
    /\ Go(here, there)
    /\ UNCHANGED <<script, n, only, pos, going, mine, strays, results, file,
                   got, harm, kept, missed>>

KilledWithTermOnly == mine
KilledFirstOnly == [i \in DOMAIN mine |-> IF i = 1 THEN "dead" ELSE mine[i]]

Killed == [i \in DOMAIN mine |-> "dead"]

Kill(here, there) ==
    /\ Go(here, there)
    /\ mine' = Killed
    /\ UNCHANGED <<script, n, only, pos, going, strays, results, file, got,
                   harm, kept, missed>>

(* save(): open(..., "w") empties the file, json.dump fills it.            *)
Truncate(here, there) ==
    /\ Go(here, there)
    /\ file' = Torn
    /\ UNCHANGED <<script, n, only, pos, going, mine, strays, results, got,
                   harm, kept, missed>>

Dump(here, there) ==
    /\ Go(here, there)
    /\ file' = results
    /\ UNCHANGED <<script, n, only, pos, going, mine, strays, results, got,
                   harm, kept, missed>>

(* The script is gone: what it had started and not stopped lives on.       *)
Gone(left) ==
    /\ pc' = "idle"
    /\ going' = FALSE
    /\ strays' = strays \cup StillAlive \cup left
    /\ mine' = <<>>
    /\ UNCHANGED <<script, n, only, pos, results, file, got, kept, missed>>

(* A KeyboardInterrupt is no Exception: it takes the `finally`, which      *)
(* stops what `procs` names, and ends the script.  Outside the `try`, and  *)
(* inside the `finally`, nothing is stopped.                               *)
InTry == {"wait", "verify", "bench", "term1", "kill1", "start2", "wait2",
          "memory", "open", "dump", "spin", "sigterm", "patience", "hold",
          "after", "burst", "rounds"}

Mishap(what) == Cardinality(harm) < MaxHarm /\ harm' = harm \cup {what}

(* save() raises, with the file as it was or cut short.  With a candidate  *)
(* in hand it is one more exception: the except clause notes it and saves  *)
(* again, and takes the script with it, by way of the finally, if that     *)
(* raises too.  The last save is outside the try.                          *)
SaveRaises(inTry) ==
    /\ Mishap(IF pc \in {"dump", "lastdump"} THEN "short" ELSE "unsaved")
    /\ \/ /\ pc \in {"open", "dump"}
          /\ results' = [results EXCEPT ![cand].err = n]
          /\ \/ inTry /\ pc' = "open" /\ going' = going
             \/ results[cand].err = n /\ pc' = "term" /\ going' = FALSE
          /\ UNCHANGED <<script, n, only, pos, mine, strays, file, got, kept,
                         missed>>
       \/ pc \in {"lastopen", "lastdump"} /\ Gone({})

Interrupted(what) == harm \cap {"stopped", "torn", "cut"} = {} /\ Mishap(what)

Interrupt ==
    \/ /\ pc \in InTry
       /\ \E j \in 0..Procs[cand] :
              /\ pc # "start2" => j = 0
              /\ strays' = strays \cup Dropped(j)
       /\ Interrupted(CASE pc = "dump" -> "torn" [] pc = "start2" -> "cut"
                         [] OTHER -> "stopped")
       /\ pc' = "term"
       /\ going' = FALSE
       /\ UNCHANGED <<script, n, only, pos, mine, results, file, got, kept,
                      missed>>
    \/ /\ pc \in {"start", "warm", "term", "kill"}
       /\ Interrupted("cut")
       /\ \E j \in 0..Procs[cand] :
              (pc # "start" => j = 0) /\ Gone(Dropped(j))
    \/ /\ pc \in {"next", "lastopen", "lastdump"}
       /\ Interrupted(IF pc = "lastdump" THEN "torn" ELSE "stopped")
       /\ Gone({})
-----------------------------------------------------------------------------
(* Nobody else is on the ports: wait_up() would take anybody for the       *)
(* candidate, and here that can only be what the script left behind.       *)
InitServers ==
    /\ pc = "idle"
    /\ n = 0
    /\ only = {}
    /\ pos = 1
    /\ going = TRUE
    /\ mine = <<>>
    /\ strays = {}
    /\ results = NoRows
    /\ file = NoRows
    /\ got = NoneTaken
    /\ harm = {}
    /\ kept = NoRows
    /\ missed = {}
=============================================================================
