--------------------------- MODULE CompareDriver ---------------------------
(***************************************************************************)
(* bench/compare/drive.py: main() and what it calls.  Every candidate is   *)
(* started, verified, benchmarked, stopped, started afresh for its memory  *)
(* readings, recorded and stopped.                                         *)
(***************************************************************************)
EXTENDS Servers, SequencesExt

CONSTANTS
    Steps,      \* how many idle connections each memory reading is taken at
    Caps        \* how many connections a server may be willing to hold

ASSUME StepsAssumption ==
    /\ Steps \in Seq(Nat \ {0})
    /\ \A i \in 1..(Len(Steps) - 1) : Steps[i] < Steps[i + 1]
    /\ Caps \subseteq Nat
    /\ 0 \in Caps
-----------------------------------------------------------------------------
(* idle_memory(): connections are opened up to each step, and read there;  *)
(* a server that stops answering is read once more where it stopped.  The  *)
(* marginal cost divides by what was opened since the row before.          *)
PrevN(rows) == IF rows = <<>> THEN 0 ELSE Last(rows)

NoReadings == [rows |-> <<>>, out |-> FALSE]

HttpReadingTwice(cap, r, target) ==
    IF r.out THEN r
    ELSE IF cap >= target
    THEN [rows |-> Append(r.rows, target), out |-> FALSE]
    ELSE [rows |-> IF cap # 0 THEN Append(r.rows, cap) ELSE r.rows,
          out |-> TRUE]

HttpReading(cap, r, target) ==
    IF r.out THEN r
    ELSE IF cap >= target
    THEN [rows |-> Append(r.rows, target), out |-> FALSE]
    ELSE [rows |-> IF cap # 0 /\ cap > PrevN(r.rows) THEN Append(r.rows, cap)
                                                     ELSE r.rows,
          out |-> TRUE]

HttpStaircase(cap) ==
    LET after[k \in 0..Len(Steps)] ==
            IF k = 0 THEN NoReadings
            ELSE HttpReading(cap, after[k - 1], Steps[k])
    IN  after[Len(Steps)].rows
-----------------------------------------------------------------------------
(* main(): a full run starts clean, a partial one merges.                  *)
HttpBegin(asked) ==
    /\ Go("idle", "next")
    /\ n < MaxRuns
    /\ n' = n + 1
    /\ only' = IF asked = {} THEN Cands ELSE asked
    /\ results' = IF asked = {} THEN NoRows ELSE Loaded
    /\ NoteKept
    /\ pos' = 0
    /\ going' = TRUE
    /\ missed' = {}
    /\ UNCHANGED <<script, mine, strays, file, got, harm>>

(* The except clause: the error joins whatever row there was.              *)
Failed(from) ==
    /\ Go(from, "open")
    /\ results' = [results EXCEPT ![cand].err = n]
    /\ UNCHANGED <<script, n, only, pos, going, mine, strays, file, got, harm,
                   kept, missed>>

(* A server that closes short of its Content-Length: recv() answers        *)
(* nothing and `while len(body) < clen` goes round for ever.               *)
Spins(from) ==
    /\ Go(from, "spin")
    /\ Accepts
    /\ UNCHANGED <<script, n, only, pos, going, mine, strays, results, file,
                   got, harm, kept, missed>>

(* The first start is outside the try, and takes the script with it; the   *)
(* second is inside, and is one more exception.                            *)
FirstPopenRaises ==
    /\ pc = "start"
    /\ "fork" \notin harm
    /\ Mishap("fork")
    /\ \E j \in 0..(Procs[cand] - 1) : Gone(Dropped(j))

SecondPopenRaises ==
    /\ Go("start2", "open")
    /\ "fork" \notin harm
    /\ Mishap("fork")
    /\ \E j \in 0..(Procs[cand] - 1) : strays' = strays \cup Dropped(j)
    /\ results' = [results EXCEPT ![cand].err = n]
    /\ UNCHANGED <<script, n, only, pos, going, mine, file, got, kept, missed>>

HttpWaitUp ==
    /\ pc = "wait"
    /\ \/ Accepts /\ pc' = "verify" /\ missed' = missed
       \/ ~Accepts /\ pc' = "term" /\ missed' = missed \cup {cand}
    /\ UNCHANGED <<script, n, only, pos, going, mine, strays, results, file,
                   got, harm, kept>>

(* verify(): right, or wrong: the row is replaced by the problems, and not *)
(* saved until somebody else's is.                                         *)
HttpVerify ==
    /\ Accepts
    /\ \/ Go("verify", "bench") /\ results' = results
       \/ /\ Go("verify", "term")
          /\ results' = [results EXCEPT ![cand] = [NoRow EXCEPT !.err = n]]
    /\ UNCHANGED <<script, n, only, pos, going, mine, strays, file, got, harm,
                   kept, missed>>

(* bench(): wrk's figures.  No figure, or none above zero, is an exception.*)
HttpBench ==
    /\ Go("bench", "term1")
    /\ Accepts
    /\ got' = WhoAnswers
    /\ UNCHANGED <<script, n, only, pos, going, mine, strays, results, file,
                   harm, kept, missed>>

(* The second wait_up()'s answer is not looked at.                         *)
SecondWaitUp ==
    /\ Go("wait2", "memory")
    /\ UNCHANGED <<script, n, only, pos, going, mine, strays, results, file,
                   got, harm, kept, missed>>

(* idle_memory(), whose staircase may be empty, and the row with           *)
(* everything that was measured.                                           *)
HeldBy == IF WhoAnswers = "other" THEN "other" ELSE got

Recorded ==
    /\ Go("memory", "open")
    /\ results' = [results EXCEPT
                     ![cand] = [run |-> n, by |-> HeldBy, err |-> 0]]
    /\ UNCHANGED <<script, n, only, pos, going, mine, strays, file, got, harm,
                   kept, missed>>

(* A save in the try is of a row that was measured, one in the except      *)
(* clause of a row with this run's error.                                  *)
HttpSaveRaises == SaveRaises(results[cand].err # n)

(* The finally clause, and back to the loop unless an interrupt is under   *)
(* way.                                                                    *)
Stopped == IF going THEN "next" ELSE "idle"

HttpNext ==
    \/ \E asked \in SUBSET Cands : HttpBegin(asked)
    \/ NextCandidate("start", "lastopen")
    \/ Start("start", "wait")
    \/ FirstPopenRaises \/ SecondPopenRaises
    \/ HttpWaitUp
    \/ HttpVerify
    \/ HttpBench
    \/ Terminate("term1", "kill1")
    \/ Kill("kill1", "start2")
    \/ Start("start2", "wait2")
    \/ SecondWaitUp
    \/ Recorded
    \/ Failed("verify") \/ Failed("bench") \/ Failed("memory")
    \/ Spins("verify") \/ Spins("memory")
    \/ Truncate("open", "dump")
    \/ Dump("dump", "term")
    \/ Terminate("term", "kill")
    \/ Kill("kill", Stopped)
    \/ Truncate("lastopen", "lastdump")
    \/ Dump("lastdump", "idle")
    \/ HttpSaveRaises
=============================================================================
