------------------------------ MODULE DevLoop ------------------------------
(***************************************************************************)
(* dev/main.zig, nilo-dev: one `zig build --watch` left running, and the   *)
(* server it produces started again every time the binary changes.  The    *)
(* loop reads the binary's stamp, hashes it, drains the old server and     *)
(* starts the new one, and the build may write the file between any two of *)
(* these.                                                                  *)
(*                                                                         *)
(* A version of the sources stands for the bytes they compile to: sources  *)
(* that differ make binaries that differ.  The build and the server are    *)
(* processes of their own, in process groups of their own.                 *)
(***************************************************************************)
EXTENDS Naturals, Sequences, FiniteSets

CONSTANTS
    Original,   \* the sources as they were
    NoVersion,  \* no binary, no server
    MaxOdd      \* bound: how many kinds of trouble the loop meets

ASSUME MaxOddAssumption == MaxOdd \in Nat

VARIABLES
    source,     \* the version of the sources
    incremental,\* whether the build keeps its compiler resident
    built,      \* the version the watch has last been through
    exe,        \* the binary on disk, and its stamp
    watch,      \* the build: off, up or gone
    nd,         \* nilo-dev's own variables, and where it is
    running,    \* the binary the server that is alive was started from
    said,       \* the lines nilo-dev has printed about its server
    \* What is only observed:
    odd,        \* what did not go as it should around the loop
    swapped,    \* the running binary is not the one that was hashed
    first       \* the version that was served first

ndvars == <<source, incremental, built, exe, watch, nd, running, said, odd,
            swapped, first>>

Stamp == IF exe.v = NoVersion THEN 0 ELSE exe.t

(* Stamps are compared and nothing else: a new one is any that nobody      *)
(* remembers.                                                              *)
Written(version) ==
    [v |-> version,
     t |-> CHOOSE t \in 1..5 :
               t \notin {exe.t, nd.serving, nd.pending, nd.seen}]

At(from, to) == nd.at = from /\ nd' = [nd EXCEPT !.at = to]

Says(line) == said' = Append(said, line)

(* Trouble around the loop, within the bound.                              *)
Meets(trouble) ==
    /\ Cardinality((odd \cup trouble) \ {"swapped"}) <= MaxOdd
    /\ odd' = odd \cup trouble
-----------------------------------------------------------------------------
(* main(), up to the watch.  An incremental build removes the binary; the  *)
(* other builds once, and removes it when that fails.  A binary that       *)
(* cannot be removed is only spoken of.                                    *)
RemoveExe(trouble) ==
    \/ exe' = [exe EXCEPT !.v = NoVersion] /\ Meets(trouble)
    \/ exe' = exe /\ Meets(trouble \cup {"undeleted"})

RemoveStale ==
    /\ incremental
    /\ At("boot", "watch")
    /\ RemoveExe({})
    /\ UNCHANGED <<source, incremental, built, watch, running, said, swapped, first>>

BuildOnce ==
    /\ ~incremental
    /\ ~nd.stopping
    /\ At("boot", "watch")
    /\ \/ /\ built' = source
          /\ exe' = IF exe.v = source THEN exe ELSE Written(source)
          /\ odd' = odd
       \/ built' = built /\ RemoveExe({"failed"})
    /\ UNCHANGED <<source, incremental, watch, running, said, swapped, first>>

StartWatch ==
    /\ At("watch", "poll")
    /\ watch' = "up"
    /\ UNCHANGED <<source, incremental, built, exe, running, said, odd,
                   swapped, first>>
-----------------------------------------------------------------------------
(* The build, on its own time: it fails, finds the binary right, or writes *)
(* it again, in one step.  It may die.                                     *)
Fresh == watch = "up" /\ built # source

WatchFails ==
    /\ Fresh
    /\ built' = source
    /\ Meets({"failed"})
    /\ UNCHANGED <<source, incremental, exe, watch, nd, running, said,
                   swapped, first>>

WatchHits ==
    /\ Fresh
    /\ ~incremental
    /\ exe.v = source
    /\ built' = source
    /\ UNCHANGED <<source, incremental, exe, watch, nd, running, said, odd,
                   swapped, first>>

WatchWrites ==
    /\ Fresh
    /\ incremental \/ exe.v # source
    /\ built' = source
    /\ exe' = Written(source)
    /\ UNCHANGED <<source, incremental, watch, nd, running, said, odd, swapped,
                   first>>

WatchDies ==
    /\ watch = "up"
    /\ watch' = "gone"
    /\ Meets({"watch"})
    /\ UNCHANGED <<source, incremental, built, exe, nd, running, said, swapped, first>>

ServerDies ==
    /\ running # NoVersion
    /\ running' = NoVersion
    /\ Meets({"server"})
    /\ UNCHANGED <<source, incremental, built, exe, watch, nd, said, swapped, first>>
-----------------------------------------------------------------------------
(* One turn of the loop: a server that has exited is forgotten, and a      *)
(* stamp that is not the one served is acted on when it is seen twice.     *)
Look ==
    /\ nd.at = "poll"
    /\ ~nd.stopping
    /\ watch = "up"
    /\ LET fresh == Stamp \notin {0, nd.serving}
       IN  nd' = [nd EXCEPT
                    !.server = @ /\ running # NoVersion,
                    !.seen = IF fresh THEN Stamp ELSE 0,
                    !.pending = IF fresh THEN Stamp ELSE @,
                    !.at = IF fresh /\ nd.pending = Stamp THEN "hash" ELSE "poll"]
    /\ UNCHANGED <<source, incremental, built, exe, watch, running, said, odd,
                   swapped, first>>

Settled(rec) ==
    [rec EXCEPT !.serving = rec.seen, !.pending = 0, !.seen = 0,
                !.hash = NoVersion, !.at = "poll"]

(* The bytes that are already served, written again; or others.            *)
SameBytes == nd.server /\ exe.v # NoVersion /\ exe.v = nd.digest

Hash ==
    /\ nd.at = "hash"
    /\ nd' = IF SameBytes THEN Settled(nd)
             ELSE [nd EXCEPT !.hash = exe.v, !.at = "drain"]
    /\ UNCHANGED <<source, incremental, built, exe, watch, running, said, odd,
                   swapped, first>>

(* The old server is asked, for up to five seconds.                        *)
Drain ==
    /\ nd.at = "drain"
    /\ nd' = [nd EXCEPT !.server = FALSE, !.at = "start"]
    /\ running' = NoVersion
    /\ UNCHANGED <<source, incremental, built, exe, watch, said, odd, swapped, first>>

StartedFirst(rec) ==
    [Settled(rec) EXCEPT !.server = TRUE, !.once = TRUE,
                         !.digest = IF rec.once THEN @ ELSE rec.hash]

StartedNew(rec) ==
    [Settled(rec) EXCEPT !.server = TRUE, !.once = TRUE, !.digest = rec.hash]

StartServer ==
    /\ nd.at = "start"
    /\ \/ /\ exe.v # NoVersion
          /\ nd' = StartedNew(nd)
          /\ running' = exe.v
          /\ Says(IF nd.once THEN "restarted" ELSE "started")
          /\ swapped' = (exe.v # nd.hash)
          /\ odd' = IF exe.v # nd.hash THEN odd \cup {"swapped"} ELSE odd
          /\ first' = IF nd.once THEN first ELSE exe.v
       \/ /\ nd' = Settled(nd)
          /\ Meets({"start"})
          /\ UNCHANGED <<running, said, swapped, first>>
    /\ UNCHANGED <<source, incremental, built, exe, watch>>

(* The way out: on a signal, when the build has stopped, and when a build  *)
(* cannot be started at all (`try`).                                       *)
WayOut ==
    /\ \/ /\ \/ nd.at = "boot" /\ nd.stopping /\ ~incremental
             \/ nd.at = "poll" /\ (nd.stopping \/ watch = "gone")
          /\ odd' = odd
       \/ /\ nd.at = "watch" \/ (nd.at = "boot" /\ ~incremental)
          /\ Meets({"watch"})
    /\ nd' = [nd EXCEPT !.server = FALSE, !.at = "done"]
    /\ running' = NoVersion
    /\ watch' = "gone"
    /\ UNCHANGED <<source, incremental, built, exe, said, swapped, first>>

LoopNext ==
    \/ RemoveStale \/ BuildOnce \/ StartWatch
    \/ WatchFails \/ WatchHits \/ WatchWrites \/ WatchDies \/ ServerDies
    \/ Look \/ Hash \/ Drain \/ StartServer \/ WayOut

(* The loop has something left to do, as far as it knows.                  *)
Busy ==
    \/ nd.at \in {"boot", "watch", "hash", "drain", "start"}
    \/ Fresh
    \/ nd.at = "poll" /\ (watch = "gone" \/ Stamp \notin {0, nd.serving})
-----------------------------------------------------------------------------
LoopInit ==
    /\ source = Original
    /\ incremental \in BOOLEAN
    /\ built = NoVersion
    /\ exe = [v |-> Original, t |-> 1]
    /\ watch = "off"
    /\ nd = [at |-> "off", stopping |-> FALSE, server |-> FALSE, serving |-> 0,
             digest |-> NoVersion, pending |-> 0, seen |-> 0,
             hash |-> NoVersion, once |-> FALSE]
    /\ running = NoVersion
    /\ said = <<>>
    /\ odd = {}
    /\ swapped = FALSE
    /\ first = NoVersion
-----------------------------------------------------------------------------
(* A loop that has nothing left to do serves the binary that is on disk,   *)
(* and not one from before it; unless the server was started from a binary *)
(* other than the one that was hashed, written while the old server        *)
(* drained: going back to the hashed one then looks like the same bytes.   *)
ServerIsCurrent ==
    nd.at = "poll" /\ running # NoVersion /\ Stamp = nd.serving =>
        running = exe.v \/ swapped
=============================================================================
