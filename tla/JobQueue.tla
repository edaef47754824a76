------------------------------ MODULE JobQueue ------------------------------
(***************************************************************************)
(* A queue of jobs in a table several processes share: job/job.zig over    *)
(* job/table.zig.                                                          *)
(*                                                                         *)
(* Each process runs workers.  A worker reads the clock, claims a row, re- *)
(* seeds the schedules when a minute has passed, runs the row, and answers *)
(* the store under the fence of its claim.  A process is stopped, or dies, *)
(* at any step; a store call fails with or without having landed; a lease  *)
(* lapses under a run; and the program pushes, cancels, revives and sweeps *)
(* rows meanwhile.  Every step below is one statement on the table, with   *)
(* the local code that leads to the next one.                              *)
(***************************************************************************)
EXTENDS JobStore

CONSTANTS
    Procs,          \* the processes on the table
    Workers,        \* the worker loops of all of them
    ProcOf,         \* ProcOf[w]: the process a worker belongs to
    NoWorker,
    Times,          \* Times[k]: K.retry.times
    Delays,         \* Delays[k]: the waits K.retry.backoff may answer
    Transactional,  \* the kinds whose run takes a *Tx and leaves ending it to the worker
    Scheduled,      \* the kinds with a schedule
    Overlapping,    \* of those, the ones with overlap = .queue
    Dropping,       \* of those, the ones with missed = .drop
    Period,         \* Period[k]: schedule.every_ms
    ScheduleKey,    \* schedule_key
    UserKinds,      \* the kinds the program pushes itself
    Timeout,        \* the longest timeout_ms of any kind
    Margin,         \* the second leaseMicros adds to it
    Reseed,         \* reseed_us
    Waits,          \* the `.after_ms` a push of the program may ask for
    MaxTime,        \* bound: the clock stops here
    MaxPushes,      \* bound: rows the program pushes
    MaxFaults,      \* bound: store calls that fail
    MaxStops,       \* bound: crashes and shutdowns
    MaxRevivals     \* bound: retryDead calls that do something

Actors == Workers \cup Procs

ASSUME QueueAssumption ==
    /\ Ids \subseteq Nat \ {0}
    /\ Workers \cap Procs = {}
    /\ ProcOf \in [Workers -> Procs]
    /\ NoWorker \notin Workers
    /\ Times \in [Kinds -> Nat]
    /\ Delays \in [Kinds -> SUBSET Nat]
    /\ Transactional \subseteq Kinds
    /\ Scheduled \subseteq Kinds
    /\ Overlapping \subseteq Scheduled
    /\ Dropping \subseteq Scheduled
    /\ Period \in [Kinds -> Nat \ {0}]
    /\ ScheduleKey \in Keys
    /\ UserKinds \subseteq Kinds
    /\ Timeout \in Nat /\ Margin \in Nat /\ Reseed \in Nat
    /\ Waits \subseteq Nat
    /\ MaxTime \in Nat /\ MaxPushes \in Nat /\ MaxFaults \in Nat
    /\ MaxStops \in Nat /\ MaxRevivals \in Nat

VARIABLES
    now,        \* the clock every process reads
    rows,       \* the table
    proc,       \* where serveOn of each process is
    seeded,     \* reseeded_at of each process
    pc,         \* what each worker does next
    tok,        \* the claim each worker holds in its hand
    look,       \* the reading of the clock each actor goes by
    todo,       \* the kinds each actor has still to seed
    shield,     \* whether a worker holds the cancellation of a shutdown off
    budget,     \* what is left of each bound
    holder,     \* history: the worker whose claim of a row is the last one
    tainted,    \* history: rows revived while a claim of them was still out
    wrote       \* history: how often the writes of a transactional run landed

vars == <<now, rows, proc, seeded, pc, tok, look, todo, shield, budget, holder, tainted, wrote>>
history == <<holder, tainted, wrote>>

NoTok == [id |-> 0, kind |-> NoKind, attempts |-> 0, run_at |-> 0]
Token == [id : Ids, kind : Kinds, attempts : Nat \ {0}, run_at : Nat]

ProcStates == {"down", "seeding", "up", "draining"}
Steps == {"off", "idle", "claim", "seed", "begin", "unkey", "chain", "run", "done",
          "drop", "doneIn", "commit", "retry", "dead", "release"}

Budgets == [push : 0..MaxPushes, fault : 0..MaxFaults, stop : 0..MaxStops,
            revive : 0..MaxRevivals]

Lease == Timeout + Margin

TypeOK ==
    /\ now \in 0..MaxTime
    /\ rows \in [Ids -> Row]
    /\ proc \in [Procs -> ProcStates]
    /\ seeded \in [Procs -> Nat]
    /\ pc \in [Workers -> Steps]
    /\ tok \in [Workers -> Token \cup {NoTok}]
    /\ look \in [Actors -> Nat]
    /\ todo \in [Actors -> SUBSET Scheduled]
    /\ shield \in [Workers -> BOOLEAN]
    /\ budget \in Budgets
    /\ holder \in [Ids -> Workers \cup {NoWorker}]
    /\ tainted \in [Ids -> BOOLEAN]
    /\ wrote \in [Ids -> Nat]

Init ==
    /\ now = 0
    /\ rows = [i \in Ids |-> Absent]
    /\ proc = [p \in Procs |-> "down"]
    /\ seeded = [p \in Procs |-> 0]
    /\ pc = [w \in Workers |-> "off"]
    /\ tok = [w \in Workers |-> NoTok]
    /\ look = [a \in Actors |-> 0]
    /\ todo = [a \in Actors |-> {}]
    /\ shield = [w \in Workers |-> FALSE]
    /\ budget = [push |-> MaxPushes, fault |-> MaxFaults, stop |-> MaxStops,
                 revive |-> MaxRevivals]
    /\ holder = [i \in Ids |-> NoWorker]
    /\ tainted = [i \in Ids |-> FALSE]
    /\ wrote = [i \in Ids |-> 0]

-----------------------------------------------------------------------------
(* Inserting a row.                                                        *)

(* The table numbers its rows upwards; an id no row and no worker has is   *)
(* as good as a new number, so a bounded instance may use it again.        *)
Unused(i) == rows[i].state = "absent" /\ \A w \in Workers : tok[w].id # i
NewId == {i \in Ids : Unused(i) /\ \A j \in Ids : Unused(j) => i <= j}

(* insertOn: one row, or none when the key is taken.                       *)
Insert(k, u, at) ==
    \/ /\ KeyTaken(rows, k, u)
       /\ UNCHANGED <<rows, history>>
    \/ /\ ~KeyTaken(rows, k, u)
       /\ \E i \in NewId :
            /\ rows' = [rows EXCEPT ![i] = Queued(k, u, at)]
            /\ holder' = [holder EXCEPT ![i] = NoWorker]
            /\ tainted' = [tainted EXCEPT ![i] = FALSE]
            /\ wrote' = [wrote EXCEPT ![i] = 0]

Spend(what) == budget[what] > 0 /\ budget' = [budget EXCEPT ![what] = @ - 1]

(* A store call that fails: for a reason of the store's, or because the    *)
(* cancellation of a shutdown cut it off, which a worker holds off while   *)
(* it writes what became of a run.                                         *)
Faulted == Spend("fault")
CutOff(w) == proc[ProcOf[w]] = "draining" /\ ~shield[w] /\ UNCHANGED budget
Fails(w) == Faulted \/ CutOff(w)

(* pushNext: the successor of a tick, counted from the actor's reading of  *)
(* the clock.  A failure is logged and nothing more.                       *)
PushNext(a, k, Failure) ==
    \/ Insert(k, ScheduleKey, look[a] + Period[k]) /\ UNCHANGED budget
    \/ Failure /\ UNCHANGED <<rows, history>>
    \/ Failure /\ Insert(k, ScheduleKey, look[a] + Period[k])

-----------------------------------------------------------------------------
(* The program.                                                            *)

Tick ==
    /\ now < MaxTime
    /\ now' = now + 1
    /\ UNCHANGED <<rows, proc, seeded, pc, tok, look, todo, shield, budget, history>>

(* push, and pushIn at its commit.  A push with `.within` first reserves a *)
(* window in a cache: one that is refused there never reaches the table,   *)
(* and an errdefer gives the window back; neither is a step of the rows.   *)
Push(k, u, wait) ==
    /\ Spend("push")
    /\ Insert(k, u, now + wait)
    /\ UNCHANGED <<now, proc, seeded, pc, tok, look, todo, shield>>

Cancel(i) ==
    /\ rows[i].state = "queued"
    /\ rows' = [rows EXCEPT ![i] = Absent]
    /\ UNCHANGED <<now, proc, seeded, pc, tok, look, todo, shield, budget, history>>

RetryAnyDead(i) ==
    /\ rows[i].state = "dead"
    /\ Spend("revive")
    /\ rows' = [rows EXCEPT ![i] = Revived(@, now)]
    /\ UNCHANGED <<now, proc, seeded, pc, tok, look, todo, shield, history>>
RetryDead(i) ==
    /\ rows[i].state = "dead"
    /\ rows[i].kind \notin Scheduled
    /\ Spend("revive")
    /\ rows' = [rows EXCEPT ![i] = Revived(@, now)]
    /\ tainted' = [tainted EXCEPT ![i] = @ \/ \E w \in Workers : tok[w].id = i]
    /\ UNCHANGED <<now, proc, seeded, pc, tok, look, todo, shield, holder, wrote>>

(* sweep and sweepDead take the rows that finished before a moment.  When  *)
(* a row finished is not kept here, so it is any of them.                  *)
Delete(state) ==
    \E S \in SUBSET {i \in Ids : rows[i].state = state} :
        /\ S # {}
        /\ rows' = [i \in Ids |-> IF i \in S THEN Absent ELSE rows[i]]
        /\ UNCHANGED <<now, proc, seeded, pc, tok, look, todo, shield, budget, history>>

Sweep == Delete("done")
SweepDead == Delete("dead")

-----------------------------------------------------------------------------
(* A process.                                                              *)

(* serveOn, up to the first tick of the seed.  The moment is read by       *)
(* nobody in a program without schedules.                                  *)
Serve(p) ==
    /\ proc[p] = "down"
    /\ proc' = [proc EXCEPT ![p] = "seeding"]
    /\ seeded' = [seeded EXCEPT ![p] = IF Scheduled = {} THEN 0 ELSE now]
    /\ look' = [look EXCEPT ![p] = IF Scheduled = {} THEN 0 ELSE now]
    /\ todo' = [todo EXCEPT ![p] = Scheduled]
    /\ UNCHANGED <<now, rows, pc, tok, shield, budget, history>>

SeedFirst(p) ==
    /\ proc[p] = "seeding"
    /\ \E k \in todo[p] :
        /\ PushNext(p, k, Faulted)
        /\ todo' = [todo EXCEPT ![p] = @ \ {k}]
    /\ UNCHANGED <<now, proc, seeded, pc, tok, look, shield>>

StartWorkers(p) ==
    /\ proc[p] = "seeding"
    /\ todo[p] = {}
    /\ proc' = [proc EXCEPT ![p] = "up"]
    /\ pc' = [w \in Workers |-> IF ProcOf[w] = p THEN "idle" ELSE pc[w]]
    /\ look' = [look EXCEPT ![p] = 0]
    /\ UNCHANGED <<now, rows, seeded, tok, todo, shield, budget, history>>

(* serveOn is cancelled: `shutdown` is set, then the workers are cancelled.*)
Shutdown(p) ==
    /\ proc[p] = "up"
    /\ Spend("stop")
    /\ proc' = [proc EXCEPT ![p] = "draining"]
    /\ UNCHANGED <<now, rows, seeded, pc, tok, look, todo, shield, history>>

(* group.cancel returns once the last worker is out.                       *)
Exit(p) ==
    /\ proc[p] = "draining"
    /\ \A w \in Workers : ProcOf[w] = p => pc[w] = "off"
    /\ proc' = [proc EXCEPT ![p] = "down"]
    /\ seeded' = [seeded EXCEPT ![p] = 0]
    /\ UNCHANGED <<now, rows, pc, tok, look, todo, shield, budget, history>>

(* The process dies.  A transaction it had open is rolled back.            *)
Crash(p) ==
    /\ proc[p] # "down"
    /\ Spend("stop")
    /\ proc' = [proc EXCEPT ![p] = "down"]
    /\ seeded' = [seeded EXCEPT ![p] = 0]
    /\ pc' = [w \in Workers |-> IF ProcOf[w] = p THEN "off" ELSE pc[w]]
    /\ tok' = [w \in Workers |-> IF ProcOf[w] = p THEN NoTok ELSE tok[w]]
    /\ shield' = [w \in Workers |-> IF ProcOf[w] = p THEN FALSE ELSE shield[w]]
    /\ look' = [a \in Actors |->
                  IF a = p \/ (a \in Workers /\ ProcOf[a] = p) THEN 0 ELSE look[a]]
    /\ todo' = [a \in Actors |->
                  IF a = p \/ (a \in Workers /\ ProcOf[a] = p) THEN {} ELSE todo[a]]
    /\ UNCHANGED <<now, rows, history>>

-----------------------------------------------------------------------------
(* A worker's loop.                                                        *)

Me(w) == proc[ProcOf[w]]

(* The way out of executeKind, and of the loop's body.                     *)
Return(w) ==
    /\ pc' = [pc EXCEPT ![w] = "idle"]
    /\ tok' = [tok EXCEPT ![w] = NoTok]
    /\ look' = [look EXCEPT ![w] = 0]
    /\ shield' = [shield EXCEPT ![w] = FALSE]
    /\ UNCHANGED todo

Goto(w, step) ==
    /\ pc' = [pc EXCEPT ![w] = step]
    /\ UNCHANGED <<tok, look, todo, shield>>

(* The top of the loop, where a cancellation is asked for; a sleep that    *)
(* ends, woken or not, is the same place.  The clock is read before the    *)
(* claim is sent.                                                          *)
Look(w) ==
    /\ pc[w] = "idle" /\ Me(w) = "up"
    /\ pc' = [pc EXCEPT ![w] = "claim"]
    /\ look' = [look EXCEPT ![w] = now]
    /\ UNCHANGED <<now, rows, proc, seeded, tok, todo, shield, budget, history>>

LeaveOnClaim(w) ==
    /\ pc[w] = "claim" /\ Me(w) = "draining"
    /\ pc' = [pc EXCEPT ![w] = "off"]
    /\ look' = [look EXCEPT ![w] = 0]
    /\ UNCHANGED <<now, rows, proc, seeded, tok, todo, shield, budget, history>>
Leave(w) ==
    /\ pc[w] \in {"idle", "claim"} /\ Me(w) = "draining"
    /\ pc' = [pc EXCEPT ![w] = "off"]
    /\ look' = [look EXCEPT ![w] = 0]
    /\ UNCHANGED <<now, rows, proc, seeded, tok, todo, shield, budget, history>>

(* doneIn has updated the row in a transaction that is still open, so the  *)
(* row is locked: a claim skips it and a matching update waits.            *)
Locked(i) == \E w \in Workers : pc[w] = "commit" /\ tok[w].id = i

Claimable(w) ==
    MostUrgent(rows, {i \in Ids : Due(rows[i], look[w]) /\ ~Locked(i)})

(* reseedAt: whoever finds the minute over wins the exchange and seeds.    *)
SeedNever(w) == w \notin Workers
SeedDue(w) == Scheduled # {} /\ look[w] >= seeded[ProcOf[w]] + Reseed

(* What the loop does after a claim was answered.                          *)
Answered(w, claimed) ==
    IF SeedDue(w)
    THEN /\ seeded' = [seeded EXCEPT ![ProcOf[w]] = look[w]]
         /\ todo' = [todo EXCEPT ![w] = Scheduled]
         /\ pc' = [pc EXCEPT ![w] = "seed"]
         /\ UNCHANGED look
    ELSE /\ pc' = [pc EXCEPT ![w] = IF claimed THEN "begin" ELSE "idle"]
         /\ look' = [look EXCEPT ![w] = 0]
         /\ UNCHANGED <<seeded, todo>>

(* What the claim answers: the row as the statement left it.               *)
TicketBefore(i) ==
    [id |-> i, kind |-> rows[i].kind, attempts |-> rows[i].attempts, run_at |-> rows[i].run_at]
Ticket(i) ==
    [id |-> i, kind |-> rows[i].kind, attempts |-> rows[i].attempts + 1, run_at |-> rows[i].run_at]

Claim(w) ==
    /\ pc[w] = "claim"
    /\ \E i \in Claimable(w) :
        /\ rows' = [rows EXCEPT ![i] = Claimed(@, look[w] + Lease)]
        /\ tok' = [tok EXCEPT ![w] = Ticket(i)]
        /\ holder' = [holder EXCEPT ![i] = w]
    /\ Answered(w, TRUE)
    /\ UNCHANGED <<now, proc, shield, budget, tainted, wrote>>

ClaimNothing(w) ==
    /\ pc[w] = "claim"
    /\ Claimable(w) = {}
    /\ Answered(w, FALSE)
    /\ UNCHANGED <<now, rows, proc, tok, shield, budget, history>>

(* The claim fails, before or after the row was marked.  The loop sleeps   *)
(* and goes round, or leaves when the shutdown is what cut it off.         *)
ClaimFails(w) ==
    /\ pc[w] = "claim"
    /\ Fails(w)
    /\ \/ UNCHANGED <<rows, holder>>
       \/ \E i \in Claimable(w) :
            /\ rows' = [rows EXCEPT ![i] = Claimed(@, look[w] + Lease)]
            /\ holder' = [holder EXCEPT ![i] = NoWorker]
    /\ pc' = [pc EXCEPT ![w] = IF Me(w) = "draining" THEN "off" ELSE "idle"]
    /\ look' = [look EXCEPT ![w] = 0]
    /\ UNCHANGED <<now, proc, seeded, tok, todo, shield, tainted, wrote>>

(* seedAt, one kind at a time; and the pushNext that follows the end of a  *)
(* tick, after which the worker's hand is empty.                           *)
Seed(w) ==
    /\ pc[w] = "seed"
    /\ \E k \in todo[w] :
        /\ PushNext(w, k, Fails(w))
        /\ todo' = [todo EXCEPT ![w] = @ \ {k}]
        /\ IF todo[w] = {k}
           THEN /\ pc' = [pc EXCEPT ![w] = IF tok[w] = NoTok THEN "idle" ELSE "begin"]
                /\ look' = [look EXCEPT ![w] = 0]
                /\ shield' = [shield EXCEPT ![w] = FALSE]
           ELSE UNCHANGED <<pc, look, shield>>
    /\ UNCHANGED <<now, proc, seeded, tok>>

-----------------------------------------------------------------------------
(* executeKind.                                                            *)

(* Whether the row is still the claim in the worker's hand, and whether an *)
(* answer about it can be given now.                                       *)
Mine(w) == Held(rows[tok[w].id], tok[w].attempts)

Unlocked(w) ==
    ~(Mine(w) /\ \E v \in Workers \ {w} : pc[v] = "commit" /\ tok[v].id = tok[w].id)

Spent(w) == tok[w].attempts > Times[tok[w].kind]

(* A tick later than its own successor.                                    *)
Missed(w) ==
    tok[w].kind \in Dropping /\ tok[w].run_at + Period[tok[w].kind] <= now

(* A row claimed once more than its kind allows is a row whose lease ran   *)
(* out on every attempt.                                                   *)
FirstStep(w) ==
    IF tok[w].attempts > Times[tok[w].kind] + 1 THEN "dead"
    ELSE IF Missed(w) THEN "drop"
    ELSE IF tok[w].kind \in Overlapping THEN "unkey"
    ELSE "run"

Begin(w) ==
    /\ pc[w] = "begin"
    /\ pc' = [pc EXCEPT ![w] = FirstStep(w)]
    /\ look' = [look EXCEPT ![w] = IF FirstStep(w) \in {"drop", "unkey"} THEN now ELSE 0]
    /\ UNCHANGED <<now, rows, proc, seeded, tok, todo, shield, budget, history>>

(* A fenced call and `settled`: it lands and answers true; the row is not  *)
(* this worker's and it answers false, which ends the execution; or the    *)
(* store fails, having written or not, and the execution goes on.          *)
Settle(w, row, GoOn) ==
    /\ Unlocked(w)
    /\ \/ /\ Mine(w)
          /\ rows' = [rows EXCEPT ![tok[w].id] = row]
          /\ UNCHANGED budget
          /\ GoOn
       \/ /\ ~Mine(w)
          /\ UNCHANGED <<rows, budget>>
          /\ Return(w)
       \/ /\ Fails(w)
          /\ \/ UNCHANGED rows
             \/ Mine(w) /\ rows' = [rows EXCEPT ![tok[w].id] = row]
          /\ GoOn
    /\ UNCHANGED <<now, proc, seeded, history>>

MyRow(w) == rows[tok[w].id]

(* What follows a tick's end: its successor, counted from `after`.         *)
ThenNext(w, after) ==
    IF tok[w].kind \in Scheduled
    THEN /\ pc' = [pc EXCEPT ![w] = "seed"]
         /\ tok' = [tok EXCEPT ![w] = NoTok]
         /\ look' = [look EXCEPT ![w] = after]
         /\ todo' = [todo EXCEPT ![w] = {tok[w].kind}]
         /\ UNCHANGED shield
    ELSE Return(w)

(* A missed tick is done without a run.                                    *)
Drop(w) ==
    /\ pc[w] = "drop"
    /\ Settle(w, Done(MyRow(w)), ThenNext(w, look[w]))

Unkey(w) ==
    /\ pc[w] = "unkey"
    /\ Settle(w, Unkeyed(MyRow(w)), Goto(w, "chain"))

Chain(w) ==
    /\ pc[w] = "chain"
    /\ PushNext(w, tok[w].kind, Fails(w))
    /\ pc' = [pc EXCEPT ![w] = "run"]
    /\ look' = [look EXCEPT ![w] = 0]
    /\ UNCHANGED <<now, proc, seeded, tok, todo, shield>>

(* What failedAttempt makes of a failure that is not final.                *)
AfterFailure(w) == IF Spent(w) THEN "dead" ELSE "retry"

(* The payload cannot be read: never, or for want of memory this time.     *)
ParseFails(w) ==
    /\ pc[w] = "run"
    /\ \E step \in {"dead", AfterFailure(w)} : Goto(w, step)
    /\ UNCHANGED <<now, rows, proc, seeded, budget, history>>

(* How a run ends: well; in a failure, a final one killing the row         *)
(* whatever the count says; or cut off by the shutdown, which is not the   *)
(* run's failure.  A worker the shutdown has not reached yet, or whose     *)
(* deadline fired, has failed all the same.                                *)
Endings(w) ==
    {IF tok[w].kind \in Transactional THEN "doneIn" ELSE "done", "dead", AfterFailure(w)}
        \cup (IF Me(w) = "draining" THEN {"release"} ELSE {})

EndRun(w) ==
    /\ pc[w] = "run"
    /\ \E step \in Endings(w) : pc' = [pc EXCEPT ![w] = step]
    /\ shield' = [shield EXCEPT ![w] = TRUE]
    /\ UNCHANGED <<now, rows, proc, seeded, tok, look, todo, budget, history>>

FinishDone(w) ==
    /\ pc[w] = "done"
    /\ Settle(w, Done(MyRow(w)), ThenNext(w, now))

FinishDead(w) ==
    /\ pc[w] = "dead"
    /\ Settle(w, Dead(MyRow(w)), ThenNext(w, now))

FinishRetry(w) ==
    /\ pc[w] = "retry"
    /\ \E d \in Delays[tok[w].kind] :
        Settle(w, Retried(MyRow(w), now + d), Return(w))

FinishRelease(w) ==
    /\ pc[w] = "release"
    /\ Settle(w, Released(MyRow(w)), Return(w))

(* completeIn.  The row is updated inside the run's transaction: nobody    *)
(* sees it until the commit, and nobody else may touch it.                 *)
DoneInUnchecked(w) ==
    /\ pc[w] = "doneIn"
    /\ Goto(w, "commit")
    /\ UNCHANGED <<now, rows, proc, seeded, budget, history>>
DoneIn(w) ==
    /\ pc[w] = "doneIn"
    /\ Unlocked(w)
    /\ \/ Mine(w) /\ Goto(w, "commit") /\ UNCHANGED budget
       \/ ~Mine(w) /\ Return(w) /\ UNCHANGED budget
       \/ Faulted /\ Goto(w, AfterFailure(w))
    /\ UNCHANGED <<now, rows, proc, seeded, history>>

(* A COMMIT that errors may have landed.                                   *)
Land(w) ==
    /\ rows' = [rows EXCEPT ![tok[w].id] = Done(@)]
    /\ wrote' = [wrote EXCEPT ![tok[w].id] = @ + 1]

Commit(w) ==
    /\ pc[w] = "commit"
    /\ \/ Land(w) /\ ThenNext(w, now) /\ UNCHANGED budget
       \/ Land(w) /\ Faulted /\ Goto(w, AfterFailure(w))
       \/ Faulted /\ Goto(w, AfterFailure(w)) /\ UNCHANGED <<rows, wrote>>
    /\ UNCHANGED <<now, proc, seeded, holder, tainted>>

-----------------------------------------------------------------------------
WorkerStep(w) ==
    \/ Look(w) \/ Leave(w) \/ Claim(w) \/ ClaimNothing(w) \/ ClaimFails(w) \/ Seed(w)
    \/ Begin(w) \/ Drop(w) \/ Unkey(w) \/ Chain(w) \/ ParseFails(w) \/ EndRun(w)
    \/ FinishDone(w) \/ FinishDead(w) \/ FinishRetry(w) \/ FinishRelease(w)
    \/ DoneIn(w) \/ Commit(w)

ProcStep(p) == SeedFirst(p) \/ StartWorkers(p) \/ Exit(p)

Program ==
    \/ \E k \in UserKinds, u \in (Keys \ {ScheduleKey}) \cup {NoKey}, d \in Waits : Push(k, u, d)
    \/ \E i \in Ids : Cancel(i) \/ RetryDead(i)
    \/ Sweep \/ SweepDead

Next ==
    \/ Tick
    \/ Program
    \/ \E p \in Procs : Serve(p) \/ ProcStep(p) \/ Shutdown(p) \/ Crash(p)
    \/ \E w \in Workers : WorkerStep(w)

Spec == Init /\ [][Next]_vars

(* The clock goes on, a fiber that can run is run, and a run ends: it is   *)
(* cancelled at its timeout.  Nobody has to start a process again.         *)
Fairness ==
    /\ WF_vars(Tick)
    /\ \A p \in Procs : WF_vars(ProcStep(p))
    /\ \A w \in Workers : WF_vars(WorkerStep(w))

FairSpec == Spec /\ Fairness

-----------------------------------------------------------------------------
(* What the queue promises.                                                *)

(* A unique key names at most one row of a kind, and a row that carries    *)
(* one is queued or running: what a push answers null by, and what lets a  *)
(* key be used again the moment its row is done or dead.                   *)
KeyNamesOneLiveRow ==
    \A i, j \in Ids :
        rows[i].key # NoKey =>
            /\ Live(rows[i])
            /\ rows[j].kind = rows[i].kind /\ rows[j].key = rows[i].key => i = j

(* The fence is exact: an answer that would change a row comes from the    *)
(* worker whose claim of it is the last one, whatever leases lapsed and    *)
(* whatever was released in between.  Not so for a row that was revived    *)
(* while a claim of it was still out.                                      *)
FenceIsExact ==
    \A w \in Workers :
        tok[w] # NoTok /\ ~tainted[tok[w].id] /\ Mine(w) => holder[tok[w].id] = w

(* The same with no exception, as contract.zig states it.                  *)
LateAnswerMatchesNothing ==
    \A w \in Workers : tok[w] # NoTok /\ Mine(w) => holder[tok[w].id] = w

(* The writes of a transactional run land at most once, however often the  *)
(* row is claimed, and they land exactly when the row is done.             *)
WritesLandOnceWithDone ==
    \A i \in Ids :
        /\ wrote[i] <= 1
        /\ rows[i].kind \in Transactional \ Dropping =>
              (wrote[i] = 1 <=> rows[i].state = "done")

(* A kind with overlap = .skip never has two ticks queued or running,      *)
(* whatever crashed, failed or re-seeded between them.                     *)
SkipNeverOverlaps ==
    \A i, j \in Ids :
        /\ Live(rows[i]) /\ Live(rows[j])
        /\ rows[i].kind = rows[j].kind
        /\ rows[i].kind \in Scheduled \ (Overlapping \cup UserKinds)
        => i = j

(* While the lease of a claim runs, only the worker that made the claim    *)
(* changes the row.                                                        *)
LeaseIsRespected ==
    [][\A i \in Ids :
          /\ rows[i].state = "running" /\ rows[i].lease_until > now /\ ~tainted[i]
          /\ rows'[i] # rows[i]
          => \E w \in Workers :
                holder[i] = w /\ tok[w].id = i /\ pc'[w] # pc[w]]_vars

(* What is left of the trouble a bounded instance may still meet.          *)
Calm == budget.fault = 0 /\ budget.stop = 0

(* A schedule left with no tick holding its key is queued again by a       *)
(* process that is up, at its next re-seed.                                *)
Quiet(k) == \A i \in Ids : rows[i].kind = k => rows[i].key # ScheduleKey

SchedulesHeal ==
    \A k \in Scheduled, p \in Procs :
        Quiet(k) /\ Calm /\ proc[p] = "up" /\ seeded[p] + Reseed <= MaxTime
            ~> ~Quiet(k)

(* A row is claimed and brought to an end once it is due, and once the     *)
(* lease of a worker that is gone is over, as long as a process is up.     *)
DueAt(r) == IF r.state = "queued" THEN r.run_at ELSE r.lease_until

RowsEnd ==
    \A i \in Ids :
        Live(rows[i]) /\ DueAt(rows[i]) <= MaxTime /\ Calm /\ (\E p \in Procs : proc[p] = "up")
            ~> ~Live(rows[i]) \/ DueAt(rows[i]) > MaxTime

(* A process told to stop stops: every worker hands its row over and       *)
(* leaves.                                                                 *)
ShutdownEnds == \A p \in Procs : proc[p] = "draining" ~> proc[p] = "down"
=============================================================================
