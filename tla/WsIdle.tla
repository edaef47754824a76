------------------------------- MODULE WsIdle -------------------------------
(***************************************************************************)
(* bench/ws_idle.py: the memory of idle WebSockets, scenario by scenario.  *)
(* A candidate is a scenario against a target; the scenarios of one target *)
(* share its port and each starts a server of its own.  Results are merged *)
(* into the file, which is written once, at the end.                       *)
(***************************************************************************)
EXTENDS CompareDriver

(* main(): what is recorded is always taken up; a target that is not built *)
(* and a scenario it has no route for are left out.                        *)
WsBegin(asked) ==
    /\ Go("idle", "next")
    /\ n < MaxRuns
    /\ n' = n + 1
    /\ only' = asked
    /\ results' = Loaded
    /\ NoteKept
    /\ pos' = 0
    /\ going' = TRUE
    /\ missed' = {}
    /\ UNCHANGED <<script, mine, strays, file, got, harm>>

(* The except clause of main(): the scenario is passed over.  Inside       *)
(* measure() the finally stops the server first.                           *)
WsPopenRaises ==
    /\ Go("start", "next")
    /\ "fork" \notin harm
    /\ Mishap("fork")
    /\ missed' = missed \cup {cand}
    /\ UNCHANGED <<script, n, only, pos, going, mine, strays, results, file,
                   got, kept>>

WsFails(from) ==
    /\ Go(from, "term")
    /\ missed' = missed \cup {cand}
    /\ UNCHANGED <<script, n, only, pos, going, mine, strays, results, file,
                   got, harm, kept>>

WsNotUp == ~Accepts /\ WsFails("wait")

(* open_ws(): refused, closed, timed out or not upgraded.  open_http()     *)
(* fails like that too, but does not see a response that is cut short.     *)
OpenWsFails == WsFails("memory")
OpenHttpSpins == Spins("memory")

WsWaitUp ==
    /\ Go("wait", "memory")
    /\ Accepts
    /\ UNCHANGED <<script, n, only, pos, going, mine, strays, results, file,
                   got, harm, kept, missed>>

(* measure(): open_http() or open_ws() up to every step, each of which is  *)
(* reached or raises.                                                      *)
WsMeasure ==
    /\ Go("memory", "term")
    /\ Accepts
    /\ got' = WhoAnswers
    /\ UNCHANGED <<script, n, only, pos, going, mine, strays, results, file,
                   harm, kept, missed>>

(* The end of measure()'s finally; it returns if it measured, and main()   *)
(* notes the row.                                                          *)
WsKill ==
    /\ Go("kill", Stopped)
    /\ mine' = Killed
    /\ results' = IF got = NoneTaken THEN results
                  ELSE [results EXCEPT
                          ![cand] = [run |-> n, by |-> got, err |-> 0]]
    /\ UNCHANGED <<script, n, only, pos, going, strays, file, got, harm, kept,
                   missed>>

WsNext ==
    \/ \E asked \in SUBSET Cands : WsBegin(asked)
    \/ NextCandidate("start", "lastopen")
    \/ Start("start", "wait")
    \/ WsPopenRaises
    \/ WsWaitUp
    \/ WsMeasure
    \/ WsNotUp \/ OpenWsFails \/ OpenHttpSpins
    \/ Terminate("term", "kill")
    \/ WsKill
    \/ Truncate("lastopen", "lastdump")
    \/ Dump("lastdump", "idle")
    \/ SaveRaises(FALSE)
=============================================================================
