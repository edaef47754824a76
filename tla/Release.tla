------------------------------ MODULE Release ------------------------------
(***************************************************************************)
(* bench/release.py: refs exported, built and measured beside each other,  *)
(* round by round.  `http` is measured from outside, on a server started   *)
(* for every count; the other modules are programs of their own; those     *)
(* that print the clock are measured for every ref within one minute.      *)
(* Somebody else may take the port at any time, builds and exports fail,   *)
(* and every SystemExit, or an interrupt, unwinds the whole run.  With     *)
(* --work the trees stay for the next run.                                 *)
(***************************************************************************)
EXTENDS Integers, Sequences, FiniteSets

CONSTANTS
    Refs,       \* how many refs are named, oldest first
    Modules,    \* MODULES: their names in order, "http" first
    Clocked,    \* CLOCKED
    Rounds,     \* --rounds
    Figures,    \* what a count may come to
    MaxRuns,    \* bound: how often the script is run
    MaxMinute   \* bound: minutes a clocked measurement may run over

ASSUME ReleaseAssumption ==
    /\ Refs \in Nat \ {0}
    /\ Modules \in Seq(STRING) /\ Modules # <<>> /\ Modules[1] = "http"
    /\ \A i, j \in 1..Len(Modules) : Modules[i] = Modules[j] => i = j
    /\ Clocked \subseteq {Modules[i] : i \in 2..Len(Modules)}
    /\ Rounds \in Nat \ {0}
    /\ Figures \subseteq Int
    /\ MaxRuns \in Nat /\ MaxMinute \in Nat

Ref == 1..Refs
Mod == {Modules[i] : i \in 1..Len(Modules)}
Place(m) == CHOOSE i \in 1..Len(Modules) : Modules[i] = m
Pairs == Ref \X Mod

VARIABLES
    keep,       \* whether --work was given
    pc,
    run,        \* which run this is
    ref,        \* the ref being built, or the last one built
    tree,       \* what is in each ref's tree
    bins,       \* the run that built each binary on disk, 0 for none
    built,      \* the pairs this run has a path for
    round,      \* the round in hand, from 0
    left,       \* the pairs it still has to measure
    stage,      \* which of the servers a pair needs is up: many, few, idle
    count,      \* readings of instructions so far
    idle,       \* readings of idle connections so far
    srv,        \* the process behind `proc`
    port,       \* who answers on the port
    clock,      \* minute and part of the minute: 0 to 9, 10 to 20, the rest
    began,      \* the minute a clocked measurement began in
    signed,     \* when each ref was measured in it
    \* What is only observed:
    answered    \* who answered for the readings taken

buildVars == <<ref, tree, bins, built>>
roundVars == <<round, left, stage, count, idle, answered>>
serverVars == <<srv, port>>
clockVars == <<clock, began, signed>>
vars == <<keep, pc, run, buildVars, roundVars, serverVars, clockVars>>
-----------------------------------------------------------------------------
Go(from, to) == pc = from /\ pc' = to

Nothing == [p \in Pairs |-> 0]

Init ==
    /\ keep \in BOOLEAN
    /\ pc = "idle"
    /\ run = 0
    /\ ref = 0
    /\ tree = [r \in Ref |-> "absent"]
    /\ bins = Nothing
    /\ built = {}
    /\ round = 0
    /\ left = {}
    /\ stage = 1
    /\ count = Nothing
    /\ idle = [r \in Ref |-> 0]
    /\ answered = {}
    /\ srv = "none"
    /\ port = "free"
    /\ clock = [min |-> 0, part |-> 0]
    /\ began = 0
    /\ signed = {}

(* main(), up to the trees.                                                *)
Begin ==
    /\ Go("idle", "export")
    /\ run < MaxRuns
    /\ run' = run + 1
    /\ ref' = 1
    /\ built' = {}
    /\ round' = 0
    /\ left' = {}
    /\ stage' = 1
    /\ count' = Nothing
    /\ idle' = [r \in Ref |-> 0]
    /\ answered' = {}
    /\ signed' = {}
    /\ UNCHANGED <<keep, tree, bins, serverVars, clock, began>>

(* Any SystemExit, or an interrupt, on its way to the finally clauses.     *)
Unwind ==
    /\ pc \notin {"idle", "popen", "unwind", "clean"}
    /\ pc' = "unwind"
    /\ UNCHANGED <<keep, run, buildVars, roundVars, serverVars, clockVars>>
-----------------------------------------------------------------------------
(* build(): a tree that is there is taken as it is.  Trees are named after *)
(* commits, and every ref is taken to have its own: the second of two refs *)
(* of one commit would take away the first's binaries before it builds.    *)
HasTree ==
    /\ Go("export", "server")
    /\ tree[ref] # "absent"
    /\ UNCHANGED <<keep, run, buildVars, roundVars, serverVars, clockVars>>

(* git archive into tar: the directory is made first, and whatever came    *)
(* through stays when one of the two fails.                                *)
Export ==
    /\ pc = "export"
    /\ tree[ref] = "absent"
    /\ \/ Go("export", "server") /\ tree' = [tree EXCEPT ![ref] = "whole"]
       \/ Go("export", "unwind") /\ tree' = [tree EXCEPT ![ref] = "partial"]
    /\ UNCHANGED <<keep, run, ref, bins, built, roundVars, serverVars,
                   clockVars>>

(* The binaries of an earlier run go before zig is asked for new ones.     *)
RemovedNever(r, ms) == bins
Removed(r, ms) == [p \in Pairs |-> IF p[1] = r /\ p[2] \in ms THEN 0
                                                             ELSE bins[p]]
ServerRemoved == Removed(ref, {"http"})
ProgramsRemoved == Removed(ref, Mod \ {"http"})

(* The server: installed, or an error, or no error and no server.          *)
BuildServer ==
    /\ Go("server", "programs")
    /\ LET old == ServerRemoved
       IN  \/ /\ bins' = [old EXCEPT ![<<ref, "http">>] = run]
              /\ built' = built \cup {<<ref, "http">>}
           \/ bins' = old /\ built' = built
           \/ /\ bins' = old
              /\ built' = built \cup {p \in {<<ref, "http">>} : old[p] # 0}
    /\ UNCHANGED <<keep, run, ref, tree, roundVars, serverVars, clockVars>>

(* main() on the refs: the next one, or on to the measuring.               *)
NextRef == IF ref < Refs THEN pc' = "export" /\ ref' = ref + 1
                         ELSE pc' = "allocs" /\ ref' = ref

(* The programs, all at once; what is on disk after that has a path.  The  *)
(* others are built once more for the error to report: one that lands only *)
(* then is on disk, has no path and is not measured.                       *)
Landed(old, ms) == [p \in Pairs |-> IF p[1] = ref /\ p[2] \in ms THEN run
                                                               ELSE old[p]]

BuildPrograms ==
    /\ pc = "programs"
    /\ \E ok, late \in SUBSET (Mod \ {"http"}) :
           LET first == Landed(ProgramsRemoved, ok)
               paths == {p \in Pairs : p[1] = ref /\ p[2] # "http" /\ first[p] # 0}
           IN  /\ late \cap {p[2] : p \in paths} = {}
               /\ bins' = Landed(first, late)
               /\ built' = built \cup paths
    /\ NextRef
    /\ UNCHANGED <<keep, run, tree, roundVars, serverVars, clockVars>>

(* allocations(): every program run at two counts.                         *)
Allocations ==
    /\ Go("allocs", "round")
    /\ UNCHANGED <<keep, run, buildVars, roundVars, serverVars, clockVars>>
-----------------------------------------------------------------------------
(* A round takes every pair that was built and is not clocked, ref by ref  *)
(* and module by module; then the clocked modules.                         *)
InTurn(p, q) == p[1] < q[1] \/ (p[1] = q[1] /\ Place(p[2]) <= Place(q[2]))
Now == CHOOSE p \in left : \A q \in left : InTurn(p, q)

TodoWithClocked == built
Todo == {p \in built : p[2] \notin Clocked}
Timed == {p \in built : p[2] \in Clocked}

Round ==
    /\ pc = "round"
    /\ IF round < Rounds
       THEN pc' = "pair" /\ left' = Todo
       ELSE pc' = "clean" /\ left' = left
    /\ UNCHANGED <<keep, run, buildVars, round, stage, count, idle, answered,
                   serverVars, clockVars>>

(* program_instructions(): two runs under cachegrind.                      *)
MeasureProgram ==
    /\ pc = "pair"
    /\ left # {}
    /\ Now[2] # "http"
    /\ count' = [count EXCEPT ![Now] = @ + 1]
    /\ left' = left \ {Now}
    /\ UNCHANGED <<keep, pc, run, buildVars, round, stage, idle, answered,
                   serverVars, clockVars>>

MeasureHttp ==
    /\ Go("pair", "serve")
    /\ left # {}
    /\ Now[2] = "http"
    /\ stage' = 1
    /\ UNCHANGED <<keep, run, buildVars, round, left, count, idle, answered,
                   serverVars, clockVars>>
-----------------------------------------------------------------------------
(* serving(): nobody may be on the port; the server is started; it is      *)
(* looked at, and connected to, until one of the two says something.       *)
PortIsFree ==
    /\ Go("serve", IF port = "free" THEN "spawn" ELSE "unwind")
    /\ UNCHANGED <<keep, run, buildVars, roundVars, serverVars, clockVars>>

Spawn ==
    /\ Go("spawn", "popen")
    /\ srv' = "starting"
    /\ UNCHANGED <<keep, run, buildVars, roundVars, port, clockVars>>

(* Popen has returned: the try begins, or an interrupt comes before it and *)
(* its finally never runs.  The server is then on its own, and nobody the  *)
(* next run knows: somebody else on the port.                              *)
EnterTry ==
    /\ Go("popen", "poll")
    /\ UNCHANGED <<keep, run, buildVars, roundVars, serverVars, clockVars>>

Abandon ==
    /\ Go("popen", "clean")
    /\ srv' = "none"
    /\ port' = IF port = "ours" THEN "stranger" ELSE port
    /\ UNCHANGED <<keep, run, buildVars, roundVars, clockVars>>

Exited == srv \in {"exit0", "exit1"}

Poll ==
    /\ Go("poll", IF Exited THEN "unwind" ELSE "connect")
    /\ UNCHANGED <<keep, run, buildVars, roundVars, serverVars, clockVars>>

Connect ==
    /\ Go("connect", IF port = "free" THEN "poll" ELSE "measure")
    /\ UNCHANGED <<keep, run, buildVars, roundVars, serverVars, clockVars>>

(* Inside the with: whole responses are read, from whoever is on the port, *)
(* or one is cut short and that is a SystemExit.                           *)
Served == port # "free"
OpenOne == port # "free"

Answered ==
    /\ Go("measure", "term")
    /\ answered' = answered \cup {port}
    /\ UNCHANGED <<keep, run, buildVars, round, left, stage, count, idle,
                   serverVars, clockVars>>

ServerInstructions == stage < 3 /\ Served /\ Answered
IdleBytes == stage = 3 /\ OpenOne /\ Answered

(* stop(): SIGTERM, then an exit status of 0 within a minute, then a port  *)
(* nobody answers on.                                                      *)
Terminate ==
    /\ Go("term", "reap")
    /\ srv' = IF srv = "starting" THEN "exit1"
              ELSE IF srv = "up" THEN "stopping" ELSE srv
    /\ UNCHANGED <<keep, run, buildVars, roundVars, port, clockVars>>

ReapWhatever ==
    /\ Exited
    /\ Go("reap", "release")
    /\ srv' = "none"
    /\ UNCHANGED <<keep, run, buildVars, roundVars, port, clockVars>>

Reap ==
    /\ Exited
    /\ Go("reap", IF srv = "exit0" THEN "release" ELSE "unwind")
    /\ srv' = "none"
    /\ UNCHANGED <<keep, run, buildVars, roundVars, port, clockVars>>

(* The with is left: a count, or the second of two, or the idle figure.    *)
Release ==
    /\ pc = "release"
    /\ port = "free"
    /\ IF stage = 3
       THEN /\ pc' = "pair"
            /\ left' = left \ {Now}
            /\ idle' = [idle EXCEPT ![Now[1]] = @ + 1]
            /\ UNCHANGED <<stage, count>>
       ELSE /\ pc' = "serve"
            /\ stage' = stage + 1
            /\ count' = IF stage = 2 THEN [count EXCEPT ![Now] = @ + 1]
                                     ELSE count
            /\ UNCHANGED <<left, idle>>
    /\ UNCHANGED <<keep, run, buildVars, round, answered, serverVars,
                   clockVars>>
-----------------------------------------------------------------------------
(* The clocked modules of a round, one after the other.                    *)
TimedOf(m) == {p \in Timed : p[2] = m}

ClockedRound ==
    /\ pc = "pair"
    /\ left = {}
    /\ \E part \in 0..2 : clock' = [min |-> 0, part |-> part]
    /\ IF Timed = {} THEN pc' = "round" /\ round' = round + 1 /\ left' = left
                     ELSE pc' = "wait" /\ round' = round /\ left' = Timed
    /\ signed' = {}
    /\ UNCHANGED <<keep, run, buildVars, stage, count, idle, answered,
                   serverVars, began>>

Tick ==
    /\ pc \in {"wait", "sign", "check"}
    /\ clock' = IF clock.part < 2 THEN [clock EXCEPT !.part = @ + 1]
                ELSE [min |-> clock.min + 1, part |-> 0]
    /\ clock'.min <= MaxMinute
    /\ UNCHANGED <<keep, pc, run, buildVars, roundVars, serverVars, began,
                   signed>>

(* inside_one_minute(): begun between second 10 and second 20, taken for   *)
(* every ref, and taken again when the minute or the hour is another.      *)
Wait ==
    /\ Go("wait", "sign")
    /\ clock.part = 1
    /\ began' = clock.min
    /\ signed' = {}
    /\ UNCHANGED <<keep, run, buildVars, roundVars, serverVars, clock>>

ClockedNow == Now[2]

Sign ==
    /\ pc = "sign"
    /\ \E p \in TimedOf(ClockedNow) :
           /\ ~ \E s \in signed : s.ref = p[1]
           /\ \A q \in TimedOf(ClockedNow) :
                  q[1] < p[1] => \E s \in signed : s.ref = q[1]
           /\ signed' = signed \cup {[ref |-> p[1], min |-> clock.min,
                                      part |-> clock.part]}
           /\ pc' = IF \A q \in TimedOf(ClockedNow) :
                           \E s \in signed' : s.ref = q[1]
                    THEN "check" ELSE "sign"
    /\ UNCHANGED <<keep, run, buildVars, roundVars, serverVars, clock, began>>

SameMinuteUnasked == TRUE
SameMinute == clock.min = began

Check ==
    /\ pc = "check"
    /\ IF SameMinute
       THEN /\ count' = [p \in Pairs |-> IF p \in TimedOf(ClockedNow)
                                         THEN count[p] + 1 ELSE count[p]]
            /\ left' = left \ TimedOf(ClockedNow)
            /\ IF left' = {} THEN pc' = "round" /\ round' = round + 1
                             ELSE pc' = "wait" /\ round' = round
       ELSE pc' = "wait" /\ UNCHANGED <<count, left, round>>
    /\ UNCHANGED <<keep, run, buildVars, stage, idle, answered, serverVars,
                   clockVars>>
-----------------------------------------------------------------------------
(* The finally clauses: of serving(), and of main().                       *)
KillServer ==
    /\ Go("unwind", "clean")
    /\ srv' = "none"
    /\ port' = IF port = "ours" THEN "free" ELSE port
    /\ UNCHANGED <<keep, run, buildVars, roundVars, clockVars>>

Clean ==
    /\ Go("clean", "idle")
    /\ IF keep THEN UNCHANGED <<tree, bins>>
       ELSE tree' = [r \in Ref |-> "absent"] /\ bins' = Nothing
    /\ UNCHANGED <<keep, run, ref, built, roundVars, serverVars, clockVars>>
-----------------------------------------------------------------------------
(* The server under test, and somebody else on its port.                   *)
ServerBinds ==
    /\ srv = "starting"
    /\ IF port = "free" THEN srv' = "up" /\ port' = "ours"
                        ELSE srv' = "exit1" /\ port' = port
    /\ UNCHANGED <<keep, pc, run, buildVars, roundVars, clockVars>>

ServerEnds ==
    /\ srv \in {"up", "stopping"}
    /\ srv' \in IF srv = "stopping" THEN {"exit0", "exit1"} ELSE {"exit1"}
    /\ port' = "free"
    /\ UNCHANGED <<keep, pc, run, buildVars, roundVars, clockVars>>

Stranger ==
    /\ \/ port = "free" /\ port' = "stranger"
       \/ port = "stranger" /\ srv # "starting" /\ port' = "free"
    /\ UNCHANGED <<keep, pc, run, buildVars, roundVars, srv, clockVars>>

Next ==
    \/ Begin \/ Unwind \/ HasTree \/ Export \/ BuildServer \/ BuildPrograms
    \/ Allocations \/ Round \/ MeasureProgram \/ MeasureHttp
    \/ PortIsFree \/ Spawn \/ EnterTry \/ Abandon \/ Poll \/ Connect
    \/ ServerInstructions \/ IdleBytes \/ Terminate
    \/ Reap \/ Release
    \/ ClockedRound \/ Tick \/ Wait \/ Sign \/ Check
    \/ KillServer \/ Clean
    \/ ServerBinds \/ ServerEnds \/ Stranger

Spec == Init /\ [][Next]_vars
-----------------------------------------------------------------------------
(* change() and table(): a cell compares with the column to its left, if   *)
(* that has readings.  A column is a sequence of readings, empty for n/a.  *)
Total(s) == LET sum[i \in 0..Len(s)] == IF i = 0 THEN 0 ELSE sum[i - 1] + s[i]
            IN  sum[Len(s)]
Lowest(s) == CHOOSE x \in {s[i] : i \in DOMAIN s} :
                 \A i \in DOMAIN s : x <= s[i]
Highest(s) == CHOOSE x \in {s[i] : i \in DOMAIN s} :
                  \A i \in DOMAIN s : x >= s[i]

ChangeUpwardsOnly(base, now) ==
    IF Total(base) * Len(now) = Total(now) * Len(base) THEN "unchanged"
    ELSE IF Lowest(now) <= Highest(base) THEN "inside the spread"
    ELSE "changed"

Change(base, now) ==
    IF Total(base) * Len(now) = Total(now) * Len(base) THEN "unchanged"
    ELSE IF Lowest(now) <= Highest(base) /\ Lowest(base) <= Highest(now)
    THEN "inside the spread"
    ELSE "changed"

Cell(columns, i) ==
    IF columns[i] = <<>> THEN "n/a"
    ELSE IF i = 1 \/ columns[i - 1] = <<>> THEN "first"
    ELSE Change(columns[i - 1], columns[i])

(* What main() hands to the tables.                                        *)
Reported == pc \in {"clean", "idle"} /\ round = Rounds
-----------------------------------------------------------------------------
(* serving() and stop(): outside the with our server neither runs nor      *)
(* holds the port, however the measurement ended (but for an interrupt     *)
(* before the try, see Abandon), and a reading somebody else answered for  *)
(* never reaches the report: their server was on the port when ours wanted *)
(* it, ours did not exit with 0, and stop() says so.                       *)
ReadingsAreOurs ==
    /\ pc \in {"idle", "export", "pair", "round", "serve", "spawn", "release",
              "wait", "clean"} => srv = "none" /\ port # "ours"
    /\ "stranger" \in answered =>
           pc \in {"term", "reap", "unwind", "clean", "idle"} /\ ~Reported

(* "Every ref is measured beside the others in one run, interleaved": no   *)
(* ref is ever more than a round ahead of another, and a report has one    *)
(* reading a round of everything that was built and none of what was not.  *)
RoundsAreEven ==
    /\ \A p, q \in built : count[p] <= count[q] + 1
    /\ \A p \in Pairs \ built : count[p] = 0
    /\ Reported => /\ \A p \in built : count[p] = Rounds
                   /\ \A r \in Ref :
                          idle[r] = IF <<r, "http">> \in built THEN Rounds
                                                              ELSE 0

(* "So a kept --work measures today's harness": what is measured was built *)
(* by this run, never found on disk, and in a tree of the whole commit.    *)
(* Only a kept --work whose export once failed half-way has another tree.  *)
MeasuresTheCommit ==
    \A p \in Pairs :
        count[p] > 0 /\ pc # "idle" =>
            /\ bins[p] = run
            /\ tree[p[1]] = "whole" \/ keep

(* inside_one_minute(): the refs' readings of a clocked module were taken  *)
(* in one minute, and none before its tenth second.                        *)
SignedInOneMinute ==
    pc = "round" =>
        \A s, t \in signed : s.min = t.min /\ s.part > 0

(* "A change is called one only when the two refs' ranges do not overlap", *)
(* and then always, against the column to the left and no other.  (A fact  *)
(* about the operators alone: it is looked at once, before the first run.) *)
Columns == {<<>>} \cup [1..Rounds -> Figures]
ChangesAreApart ==
    run = 0 /\ keep => \A old, new \in Columns :
        LET cell == Cell(<<old, new>>, 2)
        IN  cell = "changed" <=>
                /\ old # <<>> /\ new # <<>>
                /\ \/ \A i, j \in 1..Rounds : old[i] < new[j]
                   \/ \A i, j \in 1..Rounds : old[i] > new[j]
=============================================================================
