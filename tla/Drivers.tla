------------------------------ MODULE Drivers ------------------------------
(***************************************************************************)
(* The comparison harnesses and the checks, one at a time, and what they   *)
(* promise.  The check of the dev loop comes with nilo-dev, the program it *)
(* is a check of.                                                          *)
(***************************************************************************)
EXTENDS S3Driver, WsIdle, Checks, DevCheck

Measures == {"http", "s3", "ws"}
Scripts == Measures \cup {"shutdown", "fdlimit", "burst", "devloop"}

Init ==
    /\ script \in Scripts
    /\ InitServers
    /\ DevInit
    /\ script # "devloop" => incremental

Script ==
    \/ script = "http" /\ HttpNext
    \/ script = "s3" /\ S3Next
    \/ script = "ws" /\ WsNext
    \/ script = "shutdown" /\ ShutdownNext
    \/ script = "fdlimit" /\ FdLimitNext
    \/ script = "burst" /\ BurstNext

Outside == \/ \E i \in DOMAIN mine : Server(i)
           \/ \E s \in strays : Stray(s)
           \/ Interrupt

Next ==
    \/ (Script \/ Outside) /\ UNCHANGED <<ndvars, ck>>
    \/ script = "devloop" /\ DevNext /\ UNCHANGED vars

Spec == Init /\ [][Next]_<<vars, ndvars, ck>>
-----------------------------------------------------------------------------
(* The finally clauses: between two candidates, and once a script is gone, *)
(* no server of it is alive, however its candidates failed.  The files the *)
(* dev loop's check saved are as they were, and nilo-dev's build and its   *)
(* server are gone with it, unless nilo-dev took too long to stop and was  *)
(* killed.  Only a Popen that raised, or an interrupt while servers were   *)
(* being started or stopped, can leave something else.                     *)
NothingLeftBehind ==
    /\ pc \in {"idle", "next"} /\ harm \cap {"fork", "cut"} = {} => ~Alive
    /\ ck.step = "gone" /\ ck.hurt \notin {"fork", "cut"} =>
           /\ source = Original /\ ~ck.outside
           /\ ck.hurt # "killed" => running = NoVersion /\ watch # "up"

(* A recorded number, or a verdict that is good, was answered for by       *)
(* processes the script itself had started for that candidate, and not by  *)
(* what another candidate on the same port left behind; or, in the         *)
(* object-store driver, by nobody at all.  (Processes the script did not   *)
(* start are not on its ports: wait_up() would take them too.)             *)
NumbersAreOwn ==
    harm \cap {"fork", "cut"} = {} =>
        \A c \in Cands :
            LET row == results[c]
            IN  row.run # 0 => \/ row.by = "own"
                               \/ script = "s3" /\ row.by = "nobody"

(* load(): a run that was asked for some candidates leaves the rows of all *)
(* the others on disk as they were, unless the file was cut short by an    *)
(* interrupt in save() or a save() that raised in json.dump.               *)
OthersSurvive ==
    file # Torn /\ harm \cap {"torn", "short"} = {} /\ n > 0 =>
        \A c \in Cands \ only : file[c] = kept[c]

(* A run that ends by itself has a word on disk, a number or an error of   *)
(* this run, for every candidate it was asked for; a check has a verdict   *)
(* for every server it started.  Only a candidate that did not come up     *)
(* (compare) or failed (ws_idle) goes without, and then keeps the row it   *)
(* had.                                                                    *)
Word(c) == IF script \in Measures THEN file[c] ELSE results[c]

EveryoneIsAccountedFor ==
    pc = "idle" /\ going /\ n > 0 =>
        \A c \in only :
            \/ n \in {Word(c).run, Word(c).err}
            \/ script \in {"http", "ws"} /\ c \in missed /\ file[c] \in {kept[c], NoRow}

(* The two drivers' idle_memory() agree, whatever the server's cap: the    *)
(* readings are of more and more connections, so that no cost divides by   *)
(* zero, and the last is of all the connections there were.  (A fact about *)
(* the operators alone: it is looked at once, before the first run.)       *)
StaircasesAgree ==
    n = 0 /\ script = "http" => \A cap \in Caps :
        LET rows == HttpStaircase(cap)
        IN  /\ rows = S3Staircase(cap)
            /\ \A i \in DOMAIN rows : rows[i] > PrevN(SubSeq(rows, 1, i - 1))
            /\ cap # 0 /\ Steps # <<>> =>
                   PrevN(rows) = IF cap < Last(Steps) THEN cap ELSE Last(Steps)

(* What the table of bench/compare-s3 vouches for, errors or none: where a *)
(* cell carries no mark, the store route was served in every pass and cost *)
(* more than its floor, and the floor was served in at least half of the   *)
(* passes (more than half, unless REPEATS is even) or its own row in the   *)
(* table reads 0 req/s.  (Looked at once, before the first run.)           *)
PlainCellsAreCosts ==
    n = 0 /\ script = "s3" => \A passes \in AllPasses :
        LET r == Paired(passes)
        IN  r.agree /\ ~Void(<<r.median>>) =>
                /\ \A i \in 1..Passes :
                       /\ passes[i].store.rps > 0
                       /\ passes[i].store.ns > passes[i].floor.ns
                /\ \/ 2 * Cardinality({i \in 1..Passes :
                              passes[i].floor.rps > 0}) >= Passes
                   \/ Summarise([i \in 1..Passes |-> passes[i].floor]).rps = 0
=============================================================================
