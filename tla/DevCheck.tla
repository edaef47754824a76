------------------------------ MODULE DevCheck ------------------------------
(***************************************************************************)
(* bench/devloop.py: the check of nilo-dev.  It makes the binary stale,    *)
(* starts the loop, saves a file the build never reads and one it does,    *)
(* and tells from the lines the loop prints whether it restarted, and      *)
(* restarted only then.  A thread of the script reads the lines.           *)
(*                                                                         *)
(* Its waits are of so many seconds, and what the loop does may take       *)
(* longer: a wait can end at any time, and `hasty` is set when one ends    *)
(* with the loop still at work or a line still unread.                     *)
(***************************************************************************)
EXTENDS DevLoop

CONSTANTS
    Stale,      \* the sources with the line that makes the binary stale
    Probed      \* the sources with the line of the probe inside

ASSUME VersionsAssumption ==
    /\ NoVersion \notin {Original, Stale, Probed}
    /\ Original \notin {Stale, Probed}

VARIABLE ck     \* the script: where it is, its lines and its failures

(* step      where the script is                                           *)
(* outside   whether the file outside has the probe's line                 *)
(* read      how many of the lines the reader thread has                   *)
(* mark      how many it had when the script last looked                   *)
(* failures  whether there are any                                         *)
(* verdict   none yet, ok, fail, or an exit without one                    *)
(* and, only observed: hasty, a wait ended too soon; moved, a server was   *)
(* started while the line outside stood; tried, the probe inside has been  *)
(* served; hurt, a Popen that raised, where an interrupt fell, or that     *)
(* nilo-dev had to be killed.                                              *)

(* seen(): among the lines read from the mark on.                          *)
SeenEver(needle, since) == \E i \in 1..ck.read : said[i] = needle

Seen(needle, since) == \E i \in (since + 1)..ck.read : said[i] = needle

Early == Busy \/ ck.read < Len(said)
-----------------------------------------------------------------------------
(* _read(), and the loop.                                                  *)
Reader ==
    /\ ck.read < Len(said)
    /\ ck' = [ck EXCEPT !.read = @ + 1]
    /\ UNCHANGED ndvars

LoopSteps ==
    /\ ck.step # "gone"
    /\ LoopNext
    /\ ck' = [ck EXCEPT !.moved = @ \/ (ck.outside /\ nd.at = "start" /\ nd'.server),
                        !.tried = @ \/ running' = Probed]
-----------------------------------------------------------------------------
(* A step of the script leaves the loop alone, saves the file inside (the  *)
(* line of a probe appended, or its bytes put back), or signals the loop.  *)
Stepping(from, next) ==
    ck.step = from /\ ck' = next /\ UNCHANGED ndvars

Save(from, next, version) ==
    /\ ck.step = from
    /\ ck' = next
    /\ source' = version
    /\ UNCHANGED <<incremental, built, exe, watch, nd, running, said, odd,
                   swapped, first>>

Signal(from, next, rec) ==
    /\ ck.step = from
    /\ ck' = next
    /\ nd' = rec
    /\ UNCHANGED <<source, incremental, built, exe, watch, running, said, odd,
                   swapped, first>>

(* The stale probe is saved before the loop is started, and before `try`.  *)
MakeStale == Save("off", [ck EXCEPT !.step = "popen"], Stale)

PopenLoop ==
    Signal("popen", [ck EXCEPT !.step = "first"], [nd EXCEPT !.at = "boot"])

PopenLoopRaises ==
    Stepping("popen", [ck EXCEPT !.step = "gone", !.hurt = "fork", !.verdict = "exit"])

(* sys.exit() inside the try.                                              *)
ExitAt(from) ==
    Stepping(from, [ck EXCEPT !.step = "finally", !.verdict = "exit"])

(* wait_for(): the line, or the end of patience or of the loop.  The clock *)
(* is looked at first, so that patience can end with the line there.       *)
WaitFor(from, needle, to) ==
    Seen(needle, ck.mark) /\ Stepping(from, [ck EXCEPT !.step = to])

WaitEnds(from, to) ==
    Stepping(from, [ck EXCEPT !.step = to, !.failures = TRUE,
                             !.hasty = @ \/ Early \/ Seen("restarted", ck.mark)])

(* quiet_for(): no build and no restart for so long.                       *)
QuietFor(from, to, failure) ==
    Stepping(from, [ck EXCEPT !.step = to, !.hasty = @ \/ Early,
                             !.failures = @ \/ failure])

(* A save, with the mark taken before it.                                  *)
Touch(from, version, to) ==
    Save(from, [ck EXCEPT !.step = to, !.mark = ck.read], version)

(* The compiler never reads the file outside: a build that runs for it, to *)
(* copy the front end's directory, does not touch the binary, and that is  *)
(* all the loop looks at.                                                  *)
TouchOutside ==
    Stepping("settled", [ck EXCEPT !.step = "watching", !.mark = ck.read,
                                  !.outside = TRUE])

(* The quiet seconds, the file put back, and a second more.                *)
Watched ==
    Stepping("watching",
            [ck EXCEPT !.step = "inside", !.outside = FALSE, !.hasty = @ \/ Early,
                       !.failures = @ \/ Seen("restarted", ck.mark)])

(* The last wait's answer is not looked at.                                *)
Concluded ==
    Stepping("landing",
            [ck EXCEPT !.step = "finally",
                       !.verdict = IF ck.failures THEN "fail" ELSE "ok"])

(* The finally clause: both files, then Loop.stop(): SIGINT, and SIGKILL   *)
(* to nilo-dev, whose server is in a group of its own, if it takes too     *)
(* long.                                                                   *)
PutBack == Save("finally", [ck EXCEPT !.step = "stop", !.outside = FALSE], Original)

StopLoop ==
    Signal("stop", [ck EXCEPT !.step = "reap"], [nd EXCEPT !.stopping = TRUE])

Reap ==
    Signal("reap",
           [ck EXCEPT !.step = "gone",
                      !.hurt = IF nd.at = "done" THEN @ ELSE "killed"],
           [nd EXCEPT !.at = "done"])

(* A KeyboardInterrupt: inside the try it takes the finally.               *)
CtrlC ==
    /\ ck.hurt = "no"
    /\ Cardinality(odd \ {"swapped"}) < MaxOdd
    /\ ck.step \notin {"off", "gone"}
    /\ Stepping(ck.step,
               IF ck.step \in {"popen", "finally", "stop", "reap"}
               THEN [ck EXCEPT !.step = "gone", !.hurt = "cut", !.verdict = "exit"]
               ELSE [ck EXCEPT !.step = "finally", !.hurt = "stopped",
                               !.verdict = "exit"])
-----------------------------------------------------------------------------
DevInit ==
    /\ LoopInit
    /\ ck = [step |-> "off", outside |-> FALSE, read |-> 0, mark |-> 0,
             failures |-> FALSE, verdict |-> "none", hasty |-> FALSE,
             moved |-> FALSE, tried |-> FALSE, hurt |-> "no"]

DevNext ==
    \/ LoopSteps \/ Reader
    \/ MakeStale \/ PopenLoop \/ PopenLoopRaises
    \/ WaitFor("first", "started", "settling") \/ ExitAt("first")
    \/ QuietFor("settling", "back", Seen("restarted", 0)) \/ ExitAt("settling")
    \/ Touch("back", Original, "restoring")
    \/ WaitFor("restoring", "restarted", "quieting")
    \/ WaitEnds("restoring", "quieting")
    \/ QuietFor("quieting", "settled", FALSE) \/ ExitAt("quieting")
    \/ TouchOutside \/ Watched
    \/ Touch("inside", Probed, "restarting")
    \/ WaitFor("restarting", "restarted", "undoing")
    \/ WaitEnds("restarting", "undoing")
    \/ Touch("undoing", Original, "landing")
    \/ Concluded
    \/ PutBack \/ StopLoop \/ Reap \/ CtrlC
-----------------------------------------------------------------------------
(* The check's verdict is right when none of its waits was too short.      *)
(* "ok": the first server was the current one, nothing was started while   *)
(* the line outside stood, and the probe inside was served, unless a       *)
(* server that could not be started hid a restart.  (One chain of trouble  *)
(* hides a first server that was old: the old binary could not be removed, *)
(* its build failed, and the server died, so that the next one looks like  *)
(* the restart that was waited for.)  "fail": something went wrong around  *)
(* the loop, since the loop itself is right.                               *)
VerdictIsTrue ==
    ~ck.hasty =>
        /\ ck.verdict = "ok" /\ "start" \notin odd =>
               /\ first = Stale \/ {"undeleted", "failed", "server"} \subseteq odd
               /\ ~ck.moved
               /\ ck.tried
        /\ ck.verdict = "fail" => odd # {}
=============================================================================
