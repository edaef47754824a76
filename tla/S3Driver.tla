------------------------------ MODULE S3Driver ------------------------------
(***************************************************************************)
(* bench/compare-s3/drive.py, where it is not word for word the other      *)
(* driver, and what bench/compare-s3/table.py makes of its results: the    *)
(* cost of an object-store client is the difference of two routes, taken   *)
(* in passes, and a cell says so when the passes disagree on its sign.     *)
(***************************************************************************)
EXTENDS CompareDriver, Integers

CONSTANTS
    Passes,     \* how many passes over the routes there are (REPEATS)
    Rates,      \* what wrk may find a route to serve in a second
    Costs       \* what a request may cost in CPU, in whole ticks

ASSUME PassesAssumption ==
    /\ Passes \in Nat \ {0}
    /\ Rates \subseteq Nat \ {0}
    /\ Costs \subseteq Nat
-----------------------------------------------------------------------------
(* one_run(): a route's figures in one pass, with or without socket errors *)
(* and answers that are no 2xx; a row of zeros with an error when wrk      *)
(* printed none, and the cost zero too when wrk's rate is 0.00.            *)
NoFigure == [rps |-> 0, ns |-> 0, errors |-> TRUE]
OneRun == {NoFigure, [NoFigure EXCEPT !.errors = FALSE]}
              \cup [rps : Rates, ns : Costs, errors : BOOLEAN]

(* bench_all(): every route once in each pass.                             *)
AllPasses == [1..Passes -> [store : OneRun, floor : OneRun]]

(* sorted(keys)[len(keys) // 2]: the place whose key has half of them      *)
(* before it.  The sort is stable.                                         *)
Before(keys, i) ==
    {j \in DOMAIN keys : keys[j] < keys[i] \/ (keys[j] = keys[i] /\ j < i)}

Middle(keys) ==
    CHOOSE i \in DOMAIN keys : Cardinality(Before(keys, i)) = Len(keys) \div 2

(* summarise(): the middle pass of a route by its rate.                    *)
Summarise(runs) == runs[Middle([i \in DOMAIN runs |-> runs[i].rps])]

(* paired(): the store route less its floor, pass by pass.                 *)
Paired(passes) ==
    LET deltas == [i \in DOMAIN passes |->
                       passes[i].store.ns - passes[i].floor.ns]
    IN  [agree  |-> \/ \A i \in DOMAIN deltas : deltas[i] > 0
                    \/ \A i \in DOMAIN deltas : deltas[i] < 0,
         median |-> deltas[Middle(deltas)]]

(* table.py, one row of the subtraction: void when a candidate's median is *)
(* below zero or the candidates disagree about the sign.                   *)
VoidOnDisagreement(medians) ==
    /\ Len(medians) > 1
    /\ ~ \/ \A i \in DOMAIN medians : medians[i] > 0
         \/ \A i \in DOMAIN medians : medians[i] < 0

Void(medians) ==
    \/ \E i \in DOMAIN medians : medians[i] < 0
    \/ /\ Len(medians) > 1
       /\ ~ \/ \A i \in DOMAIN medians : medians[i] > 0
            \/ \A i \in DOMAIN medians : medians[i] < 0

(* idle_memory(), in this driver's order of the same tests.                *)
S3Reading(cap, r, target) ==
    LET conns == IF cap < target THEN cap ELSE target
    IN  IF r.out THEN r
        ELSE [rows |-> IF conns # 0 /\ conns > PrevN(r.rows)
                       THEN Append(r.rows, conns) ELSE r.rows,
              out  |-> conns = 0 \/ cap < target]

S3Staircase(cap) ==
    LET after[k \in 0..Len(Steps)] ==
            IF k = 0 THEN NoReadings
            ELSE S3Reading(cap, after[k - 1], Steps[k])
    IN  after[Len(Steps)].rows
-----------------------------------------------------------------------------
(* This file's own copies of what the other driver does.                   *)
S3Begin(asked) == HttpBegin(asked)
S3Start(from, to) == Start(from, to)
S3Accepts == Accepts
S3Terminate(from, to) == Terminate(from, to)
S3Kill(from, to) == Kill(from, to)
S3Truncate(from, to) == Truncate(from, to)
S3Dump(from, to) == Dump(from, to)
S3Recorded == Recorded
S3Failed(from) == Failed(from)

(* Rows with an error are saved in the try too, so that the except clause  *)
(* may follow whatever is saved.                                           *)
S3SaveRaises == SaveRaises(TRUE)

(* Not starting is a row of its own here, and saved.                       *)
S3WaitUpUnrecorded ==
    /\ \/ Go("wait", "verify") /\ S3Accepts
       \/ Go("wait", "term") /\ ~S3Accepts
    /\ UNCHANGED <<script, n, only, pos, going, mine, strays, results, file,
                   got, harm, kept, missed>>

S3WaitUp ==
    /\ \/ Go("wait", "verify") /\ S3Accepts /\ results' = results
       \/ /\ Go("wait", "open")
          /\ ~S3Accepts
          /\ results' = [results EXCEPT ![cand] = [NoRow EXCEPT !.err = n]]
    /\ UNCHANGED <<script, n, only, pos, going, mine, strays, file, got, harm,
                   kept, missed>>

(* verify(): a route that cannot be read is a problem, not an exception,   *)
(* and a body cut short is compared as it is.                              *)
S3Verify ==
    /\ \/ Go("verify", "bench") /\ S3Accepts /\ results' = results
       \/ /\ Go("verify", "open")
          /\ results' = [results EXCEPT ![cand] = [NoRow EXCEPT !.err = n]]
    /\ UNCHANGED <<script, n, only, pos, going, mine, strays, file, got, harm,
                   kept, missed>>

(* bench_all(): a route wrk has no figure for is a row of zeros.           *)
S3Bench ==
    /\ Go("bench", "term1")
    /\ got' = WhoAnswers
    /\ UNCHANGED <<script, n, only, pos, going, mine, strays, results, file,
                   harm, kept, missed>>

S3Next ==
    \/ \E asked \in SUBSET Cands : S3Begin(asked)
    \/ NextCandidate("start", "lastopen")
    \/ S3Start("start", "wait")
    \/ FirstPopenRaises \/ SecondPopenRaises
    \/ S3WaitUp
    \/ S3Verify
    \/ S3Bench
    \/ S3Terminate("term1", "kill1")
    \/ S3Kill("kill1", "start2")
    \/ S3Start("start2", "wait2")
    \/ SecondWaitUp
    \/ S3Recorded
    \/ S3Failed("verify") \/ S3Failed("bench") \/ S3Failed("memory")
    \/ Spins("memory")
    \/ S3Truncate("open", "dump")
    \/ S3Dump("dump", "term")
    \/ S3Terminate("term", "kill")
    \/ S3Kill("kill", Stopped)
    \/ S3Truncate("lastopen", "lastdump")
    \/ S3Dump("lastdump", "idle")
    \/ S3SaveRaises
=============================================================================
