------------------------------- MODULE Checks -------------------------------
(***************************************************************************)
(* bench/shutdown.py, bench/fdlimit.py and bench/burst.py: regression      *)
(* checks that start one server, treat it badly and print a verdict.  A    *)
(* good verdict is a row with numbers, a bad one a row with an error;      *)
(* nothing is written to disk.  The servers of shutdown.py's runs are the  *)
(* candidates, one process each; the other two start one server.           *)
(***************************************************************************)
EXTENDS CompareDriver

Verdict(row) == results' = [results EXCEPT ![cand] = row]
Good == [run |-> n, by |-> got, err |-> 0]
Bad == [NoRow EXCEPT !.err = n]

(* main(), to its first Popen.                                             *)
CheckBegin(servers) ==
    /\ Go("idle", "next")
    /\ n < MaxRuns
    /\ n' = n + 1
    /\ only' = servers
    /\ results' = NoRows
    /\ pos' = 0
    /\ going' = TRUE
    /\ missed' = {}
    /\ NoteKept
    /\ UNCHANGED <<script, mine, strays, file, got, harm>>

(* The Popen, and the one that raises: nothing of it is left.              *)
CheckStart(there) ==
    /\ Go("start", there)
    /\ mine' = <<"starting">>
    /\ UNCHANGED <<script, n, only, pos, going, strays, results, file, got,
                   harm, kept, missed>>

CheckPopenRaises ==
    /\ pc = "start"
    /\ "fork" \notin harm
    /\ Mishap("fork")
    /\ Gone({})

(* A step inside the try that answers, concludes, or raises: an exception  *)
(* takes the finally and then the script.                                  *)
Answer(from, to, by) ==
    /\ Go(from, to)
    /\ got' = by
    /\ UNCHANGED <<script, n, only, pos, going, mine, strays, results, file,
                   harm, kept, missed>>

Conclude(from, row) ==
    /\ Go(from, "term")
    /\ Verdict(row)
    /\ UNCHANGED <<script, n, only, pos, going, mine, strays, file, got, harm,
                   kept, missed>>

Raises(from) ==
    /\ Go(from, "term")
    /\ going' = FALSE
    /\ UNCHANGED <<script, n, only, pos, mine, strays, results, file, got,
                   harm, kept, missed>>

Lives == \E i \in DOMAIN mine : mine[i] # "dead"
-----------------------------------------------------------------------------
(* shutdown.py, run_once().  The server is given a second and spoken to;   *)
(* nobody there, or no 101, is an exception.                               *)
Speak ==
    \/ Accepts /\ Answer("wait", "sigterm", WhoAnswers)
    \/ Raises("wait")

(* SIGTERM, and patience: polled until it is gone or time is up.           *)
SigTerm == Terminate("sigterm", "patience")

Exits == ~Lives /\ Conclude("patience", Good)
Hangs == Lives /\ Conclude("patience", Bad)

ShutdownNext ==
    \/ CheckBegin(Cands)
    \/ NextCandidate("start", "idle")
    \/ CheckStart("wait") \/ CheckPopenRaises
    \/ Speak \/ SigTerm \/ Exits \/ Hangs
    \/ Kill("term", Stopped)
-----------------------------------------------------------------------------
(* fdlimit.py, main(): a request before the shortage, a look at the        *)
(* process during it, a request after it.                                  *)
OneRequest == Accepts

BeforeShortage ==
    \/ OneRequest /\ Answer("wait", "hold", got)
    \/ Conclude("wait", Bad)

DuringShortage == Answer("hold", "after", IF Lives THEN "own" ELSE "nobody")

AfterShortage ==
    \/ got = "own" /\ OneRequest /\ Conclude("after", [Good EXCEPT !.by = WhoAnswers])
    \/ Conclude("after", Bad)

FdLimitNext ==
    \/ CheckBegin({Order[1]})
    \/ NextCandidate("start", "idle")
    \/ CheckStart("wait") \/ CheckPopenRaises
    \/ BeforeShortage \/ DuringShortage \/ AfterShortage
    \/ Terminate("term", "kill")
    \/ Kill("kill", Stopped)
-----------------------------------------------------------------------------
(* burst.py, main(), with --cmd.  The server is warmed up before the try.  *)
WarmUp == Answer("warm", "burst", got)

(* burst(): every socket connects in time, or some do not, now or in a     *)
(* round before.  The kernel's count of drops is the whole machine's.      *)
Burst ==
    \/ Accepts /\ got # "lost" /\ Answer("burst", "rounds", WhoAnswers)
    \/ Answer("burst", "rounds", "lost")

AnotherRound == Answer("rounds", "burst", got)

BurstVerdict ==
    \/ got # "lost" /\ Conclude("rounds", Good)
    \/ Conclude("rounds", Bad)

BurstNext ==
    \/ CheckBegin({Order[1]})
    \/ NextCandidate("start", "idle")
    \/ CheckStart("warm") \/ CheckPopenRaises
    \/ WarmUp \/ Burst \/ AnotherRound \/ BurstVerdict
    \/ Terminate("term", "kill")
    \/ Kill("kill", Stopped)
=============================================================================
