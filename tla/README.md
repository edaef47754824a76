# Nilo: a verification development

Nilo is a Zig web library: an HTTP server whose handlers run as fibers, and
around it the parts a service needs (a job queue, rooms of live connections,
idempotent and cached routes, a cache, database access, migrations, an outbound
client, tokens).  Beside it the repository keeps a development loop, and a set
of Python programs that start servers, measure them, check them and publish the
numbers.  This directory holds TLA+ models of the parts whose correctness rests
on *interleaving, failure and time*, the TLC configurations that check them on
small instances, and TLAPS proofs of the properties that matter most, for every
value of the constants.

Paths below are relative to the repository.

## 1. The system

### 1.1 Parts, their state, and how they meet

| part | source | state it keeps | operations | meets |
|---|---|---|---|---|
| Job queue | `job/job.zig` | per process: `serving`, `stopping`, `shutdown`, `reseeded_at`; per worker: the claim in hand | `push`, `pushIn`, `cancel`, `retryDead`, `serve`, the worker loop (claim, re-seed, run, answer), shutdown | the job store; the cache (status); the server's life cycle |
| Job table | `job/table.zig`, `job/contract.zig` | rows: state, key, `run_at`, `attempts`, `lease_until` | push, claim, done, retry, dead, unkey, release, cancel, retryDead, sweep | shared by every process |
| In-memory store | `job/memory.zig` | the same rows in one process | the same contract | the job queue |
| Cron, time zones | `job/cron.zig`, `job/tz.zig` | none | next tick after an instant | the job queue's schedules |
| Gate | `http/bulkhead.zig` | `_free`, a linked list of waiters on their own stacks | `open`, `enter`, `enterWithin`, `leave` | password hashing, bulkheads around handlers |
| Room | `http/room.zig` | seats, roll, rings, kept posts, reference counts, bells | `say`/broadcast, sit, take, stand, replay | `http/stream.zig`, `http/websocket.zig`, `http/ctx.zig` |
| Rooms by key | `http/rooms.zig` | a pool of lent rooms, pins | lend, pin, vacated | Room |
| Idempotent routes | `http/idempotent.zig`, `http/typed.zig`, `sql/replays.zig` | one row per key: marker or answer, with an expiry | claim, read, keep, release, sweep | database or cache |
| Cached routes | `http/cached.zig`, `http/typed.zig` | a marker or page per key | claim, read, bounded wait | cache |
| Allowance | `http/allowance.zig` | lock-free slots of a window | take | cache |
| Cache store | `cache/store.zig` | sharded ring, index, versions | get with no lock, put, evict | nearly everything above |
| HTTP/1, HTTP/2 | `http/` | connection buffers; stream states and flow-control windows | frames in, frames out | server |
| Server life cycle | `http/` | listeners, live connections | listen, drain, stop | all fibers |
| Database, migrations | `sql/` | connection pool; schema version and advisory lock | query, transaction; migrate | job table, replays |
| Outbound requests, object store | `fetch/`, `s3/` | connection pool, retry budget | request, retry, upload | - |
| Tokens | `jwt/` | key ring and its refresh | verify, refresh | outbound requests |
| Ids, configuration, protobuf, JSON, routing, static files | several | none, or one fiber's own | conversions and lookups | - |
| Development loop | `dev/main.zig` | the stamp and the hash of what is served, the stamp pending, the build's and the server's process | poll, hash, drain, start; the way out | `zig build --watch`, the server |
| Its check | `bench/devloop.py` | two saved files, the lines read so far, a mark | save, wait for a line, wait for quiet, put back | the development loop |
| Comparison drivers | `bench/compare/drive.py`, `bench/compare-s3/drive.py`, `bench/ws_idle.py` | server processes, rows in memory, rows in a JSON file | start, wait up, verify, bench, idle memory, stop, save, load | servers, wrk, /proc |
| The object-store table | `bench/compare-s3/table.py` | none | pairing of passes, marks, errors | the driver's file |
| Regression checks | `bench/shutdown.py`, `bench/fdlimit.py`, `bench/burst.py` | one server | start, treat badly, conclude, stop | a server |
| Release numbers | `bench/release.py`, `bench/mem.py` | exported trees, binaries, readings by ref and module | export, build, rounds of measurements, comparison | git, zig, cachegrind, a server, the clock |
| SQL comparison | `bench/compare-sql/ops.py` and its five readers | rows of pooled blocks in a JSON file | passes over the candidates, merge, save; split, median, verdict | a database, candidates |

`PROJECT.json` ("components") lists every part with the files it is made of and
whether it is modelled.

### 1.2 What is hard here, and what correct means

* **Job queue.** Several processes, each with several workers, share one table
  and nothing else.  A lease lapses under a slow run; a store call fails and may
  have landed; a process dies, or is told to stop, between any two statements; a
  schedule's next tick is pushed by a statement of its own.  Correct means: the
  last claim alone may answer for a row; the writes of a transactional run land
  once and together with the row's end; a unique key names one live row; a
  schedule that skips never overlaps itself; a schedule that lost its row comes
  back; rows end; a shutdown ends.
* **Gate.** A turn is handed to a waiter that may already have timed out or been
  cancelled and is on its way back to the lock.  Correct means: no turn is lost
  or made, turns go in the order of arrival, nobody waits for ever, and the list
  never holds a node of a stack that has returned.
* **Room.** A post is shared by reference between a speaker, rings, the kept
  posts and writers, while connections sit and stand and speakers are cancelled.
  Correct means: a post is freed when nobody holds it and never before; a
  connection is written what was said since it sat, once and in order, with the
  missing ones counted; a parked connection with something to take has been rung.
* **Idempotent routes.** A claim is two statements, a failure releases the key,
  a marker runs out under a slow handler, a process dies with its marker in the
  row.  Correct means: one run between the requests that share a key, a replay
  only to the request it answers, no key blocked by a request that is over, and
  a kept answer that stays until it expires.
* **Development loop.** The build writes the binary whenever it likes, also
  between the loop's look at it, its hash, the drain of the old server and the
  start of the new one; the build and the server die; the check of the loop only
  sees lines, through a thread, and waits for so many seconds.  Correct means: a
  loop at rest serves what is on disk, and the check's verdict is right when its
  waits are long enough.
* **Comparison drivers and checks.** Servers bind and die when they like, two
  candidates share a port, a `Popen` raises half-way through a candidate of
  several processes, Ctrl-C comes anywhere, and the file is emptied before it is
  written.  Correct means: nothing started is left behind, a number was answered
  for by the candidate it is filed under, a partial run leaves the others' rows
  alone, and nobody asked for goes without a word.
* **Release numbers.** A stranger takes the port between a look and a bind, a
  kept work directory has another run's binaries, a module builds in one ref only,
  the minute turns under a measurement that has the clock in it.  Correct means:
  a reported reading is our server's, of this run's build, one a round for each
  ref, and a change is called one only when the ranges are apart.
* **SQL comparison.** Blocks of all passes are pooled without a mark and cut again
  by counting; a candidate drops out of a list while it is gone round; a fixture
  changes between passes.  Correct means: the cuts are the passes, and five
  readers of one file do not contradict each other.

The full list of hazards, each at the line where it bites, is in `PROJECT.json`
("hazards"), with the properties that would catch it.

## 2. The modules

| module | what it is |
|---|---|
| `JobStore` | the rows of the table and what each statement of `job/table.zig` does to one |
| `JobQueue` | processes, workers, schedules and the program around one table |
| `MCJobQueue` | instances of it |
| `JobQueueProofs`, `JobQueueSafety` | type correctness; the safety invariants and the lease |
| `FairGate` | the promise: a line, and at most so many turns out |
| `Gate` | the linked list, the hand-over and the ends of a wait |
| `MCGate`, `GateProofs` | instances; proofs |
| `Room`, `MCRoom` | one room with its seats, speakers and connections; instances |
| `Idempotent`, `MCIdempotent`, `IdempotentProofs` | requests sharing one key over one row; instances; proofs |
| `Servers` | what the harnesses share: server processes, ports, the loop over candidates, stop and save, the interrupt |
| `CompareDriver`, `S3Driver`, `WsIdle`, `Checks` | the scripts over it: the HTTP driver, the object-store driver and its table, the idle WebSockets, the three regression checks |
| `DevLoop`, `DevCheck` | nilo-dev beside its build; the check of it |
| `Drivers`, `MCDrivers` | all of these scripts and what they promise; instances |
| `Release`, `MCRelease` | the release numbers; instances |
| `Ops`, `MCOps` | the SQL comparison and its readers; instances |

`PROJECT.json` ("map") gives for each definition the lines it stands for.

### 2.1 JobStore and JobQueue

`rows` is the table.  Every statement is atomic, because each of them is one SQL
statement (or one transaction) whose `where` carries its own guard; `JobStore`
has one operator per statement's effect (`Claimed`, `Done`, `Retried`, `Dead`,
`Unkeyed`, `Released`, `Revived`) and one per guard (`Due`, `Held`, `KeyTaken`).
The guard `Held(r, attempts)` is the *fence*: `state = running and attempts = n`.

A worker's `pc` names the statement it sends next: `idle` (read the clock,
`Look`), `claim`, `seed`, `begin`, `unkey`, `chain`, `run`, and the answers
`done`, `drop`, `dead`, `retry`, `release`, `doneIn`, `commit`.  `tok` is the claim in
its hand, and `look` the clock it read *before* claiming, from which the lease
is counted.  `shield` is the cancellation protection that `finish` puts around
what must be said about the row.  `Fails(w)` is the failure of a statement,
either one of the bounded faults (which may land) or the cancellation of a
shutdown; `Settle` is the common shape of a fenced answer: it lands, matches
nothing, or fails with or without landing.

A process (`proc`) is down, seeding, up or draining; `Serve`, `SeedFirst` and
`StartWorkers` are `serveOn`; `Shutdown` and `Exit` its end; `Crash` takes the
process away at any step, with whatever its workers had in hand.  The program's
own calls are `Push`, `Cancel`, `RetryDead`, `Sweep` and `SweepDead`.  A schedule
is re-seeded by the worker that finds `look >= seeded + Reseed`.

History variables: `holder[i]` (whose claim of a row is the last), `tainted[i]`
(revived while a claim was still out, see finding 1) and `wrote[i]` (how often
the writes of a transactional run landed).

### 2.2 Gate and FairGate

Each action is what a caller does under one hold of the Gate's lock: `Enter`,
`Park`, `TakeTurn` (woken and granted), `PassOn` (cancelled but granted: the
turn goes on), `GiveUp` (leaves the line), `Leave`.  `Stir` is the end of the
wait on the condition, by signal, timeout or cancellation, which happens outside
the lock; a caller that has stirred and not yet got the lock can still be named
by `HandOn`.  `next`, `head` and `tail` are the pointers as the code keeps them.

The refinement maps the abstract `line` to the callers that are parked and not
granted, in the order they came, and `turn` to those inside or granted.

### 2.3 Room

A speaker (`talk`) goes through: make the post with one reference, take the
roster's lock, put the post into the seat at each place of the roll under that
seat's lock (`PutNext`, one step per seat: a connection may take from its ring
between two), keep it and let go of the lock, release its own reference.
`RosterRefused` and `PutRefused` are the cancellations at the two locks.  A
connection (`conn`) sits (`Sit`, which under the roster's lock also takes what
was kept since the last id it saw), takes from its ring, writes, parks on its
bell, wakes by the bell or its keep-alive, goes, and gives its seat up, draining
its ring and moving the roll's last entry into its place (`GiveUp`).

`era` distinguishes two occupants of one seat.  History: `said`, the order posts
were handed out in; `seen[c]`, what a client was written, of which a client whose
connection ends may have only the first part (`Arrives`): the id it comes back with
is of the last post it has, and the rest is handed to it again; `since[c]`, how
its stay began and the puts refused it, for counting what it missed.

### 2.4 Idempotent

`row` is the row of one key: free, a marker or an answer, with an expiry.
`Ask` reads the clock (`asked`), and `Insert` and `TakeOver` are the claim's two
statements, which go by that reading however late they come (`Wins`); `Read` is the look of one that lost; `Call` is the
handler's start; `Fail`, `Keep`, `TooLarge`, `TooManyHeaders`, `Send` and
`SendFails` are the ways out in `idempotentFinish`.  `ClaimFails` and `ReadFails`
are the store failing, landed or not; `Die` is the process dying.  `slips`
records the three ways a request gets out of step: running `unclaimed`, running
`late` past its marker, and freeing a key `twice`.

### 2.5 Servers, CompareDriver, S3Driver, WsIdle and Checks

`script` is which of the programs is run; `pc` the step it is at, `pos` and `only`
its loop over the candidates, `results` the rows in memory and `file` the rows on
disk (or `Torn`, a file emptied and not yet written: `Truncate` and `Dump` are the
two halves of `save`, `Loaded` is `load`).  `mine[i]` is what has become of the
i-th process in the script's list `procs`: starting, listening or dead, which
`Server(i)` changes on its own time.  `strays` are the live processes no list
names any more: those of a `start` that raised or was interrupted half-way
(`Dropped`), and whatever was alive when `procs` was assigned again.  A port
belongs to whoever listens on it, or to several when all of them share it
(`MayBind`); `Accepts` is `wait_up`, which is content with anybody, and
`WhoAnswers` is who it was.  `Terminate` and `Kill` are the two loops of `stop`.
`Interrupt` is Ctrl-C: inside a `try` it takes the `finally`, elsewhere it ends
the script; `SaveRaises` is a save that fails, with the file as it was or cut short,
in the `try`, in its except clause or at the end.  `harm` remembers what happened, as
`stopped` (cleanly), `torn` (an interrupt in a save), `cut` (one while servers were
started or stopped), `fork` (a `Popen` raised), and `unsaved` or `short` (a save did).

`CompareDriver` is `main` of `bench/compare/drive.py`, with the except clause
(`Failed`), a response cut short on which `recv` goes round for ever (`Spins`),
and the staircase of `idle_memory` step by step (`HttpStaircase`).
`S3Driver` has that file's own copies of the functions and its differences: not
starting is a recorded row, a route `wrk` has no figure for is a row of zeros, with
or without an error, figures may come with errors beside them (`OneRun`), and
`Summarise`, `Paired` and `Void` are what its table makes of the passes.
`WsIdle` always merges and saves once at the end; a row is noted after `measure`
has stopped its server (`WsKill`).  `Checks` has one server a check,
and its verdict is a row of `results`, never saved.

### 2.6 DevLoop and DevCheck

A version of the sources stands for the bytes they compile to.  `exe` is the
binary on disk with its stamp, `nd` nilo-dev's own variables (`serving`, `pending`,
`seen`, the `digest` of what is served) and where it is: boot, watch, poll, hash,
drain, start.  `WatchWrites`, `WatchHits`, `WatchFails` and `WatchDies` are the
build, at any moment; `ServerDies` is the server.  `Written` takes any stamp that
nobody remembers, since stamps are only compared.  `odd` is what went wrong around
the loop and `swapped` that the server was started from bytes other than those
hashed (see section 4).  `WayOut` is the end of `main`: on a signal, when the build has
stopped, or when a build cannot be started at all.

`DevCheck` adds the script (`ck`): its steps, how many lines its reader thread
has, the mark it looks from, and its failures.  A wait may end at any moment;
`hasty` says that one ended while the loop was at work or a line unread.  `Reap` is the
end of the wait for nilo-dev to stop; if it has not, it is killed (`hurt` is
`killed`), and what it had started stays.

### 2.7 Release

`tree` and `bins` are the work directory (absent, partial or whole; which run built
each binary), `built` the pairs of ref and module this run has a path for, `left`
the pairs this round still has to measure, in the order `Now` gives.  A program that
lands only when it is built again for its error (`late` in `BuildPrograms`) is on disk
and has no path (release.py:187), so it is not measured.  The server
measured (`srv`) binds and ends on its own time and `Stranger` takes and leaves
the port; between `Popen` and the `try` an interrupt leaves it running (`Abandon`),
and from then on it is somebody else on the port; `stage` is which of the three servers of one `http` measurement is up.
`clock` is a minute and a part of it (before second 10, 10 to 20, after), which
`inside_one_minute` waits on and compares.  `Unwind` is any `SystemExit` or
interrupt; `KillServer` and `Clean` are the two `finally` clauses.  `Change` and
`Cell` are the comparison as pure operators, checked over all short columns of
`Figures`.

### 2.8 Ops

`file` is the file of results, `fresh` what this run has collected, `turn` the rest
of the copy of `alive` this pass goes round.  A block keeps the run, the pass and
the fixture it was taken in, which the program forgets and the properties need.
`RunOnce`, `MergeRaises`, `RunFails` and `NextPass` are the loop, `Truncate`, `Dump`
and `DumpLast` the saves.  The readers are operators over a list of numbers:
`PassMedians`, `Paired` (the interval of order statistics), `Verdict` (`ops.py`),
`Tax` (`summarise.py`), `Real` (`artifact_data.py`), `Stability`, `Drifted` and
`SlowestPass`, and `Changed` (`compare_runs.py`).  A sorted list is only ever
indexed, so `Nth` says which number is at a place of it, and a comprehension over a
list is `Only`.

## 3. The runs

| run | instance | what it shows |
|---|---|---|
| `job_lease` | 2 processes with a worker each, 1 row, a plain and a transactional kind, clock to 4, one fault, one stop, one revival | `TypeOK`, `FenceIsExact`, `WritesLandOnceWithDone`, `LeaseIsRespected` through lapsed leases, crashes and lost answers |
| `job_schedule` | the same processes, 2 rows, a schedule that skips and drops missed ticks, clock to 3 | `KeyNamesOneLiveRow`, `SkipNeverOverlaps` through racing seeds, drops and revivals |
| `job_progress` | 1 process, 3 rows, a schedule that overlaps, clock to 5, fair | `SchedulesHeal`, `RowsEnd`, `ShutdownEnds` |
| `job_fence_doc` | as `job_lease` | violated: finding 1 |
| `gate` | 3 callers, 1 at once, fair | `TurnsAreKept`, `LineInOrder`, `OrderOfArrival`, the refinement `KeepsItsPromise`, and `NobodyWaitsForEver` |
| `room_seats` | 3 clients (one an event stream) for 2 seats, 2 speakers, 2 posts (one binary), rings of 1 that drop the oldest, 4 sits, 1 cancellation | `RefsAreExact`; `SeatsAreSound`, the roll and the bells; `DeliveryIsExact`, once, in order, and nothing missing unaccounted for |
| `room_history` | 1 event stream that comes back, 2 speakers, 4 posts of different sizes, 2 kept, rings of 1 that drop the newest, fair | `DeliveryIsExact` through the kept posts; `NobodyIsStuck`: rings drain and leavers get out |
| `idempotent` | a request, its retry, and a different one with the same key; marker 1, answer 2, clock to 3, failures on | `OneRunBetweenThem`, `ReplayIsOfTheSameRequest`, `NoMarkerLeftBehind`, `KeptUntilItExpires` |
| `idempotent_doc` | 3 equal requests, one instant, a store that never fails | violated: finding 2 |
| `drivers` | each of 6 scripts, run twice over a candidate of 1 process and one of 2 on the same port, one harm; memory steps 1, 2, 4 and servers that hold 0 to 5 connections; 3 passes of the table; and the check of the dev loop with 3 kinds of trouble | `NothingLeftBehind`, `NumbersAreOwn`, `OthersSurvive`, `EveryoneIsAccountedFor`, `ServerIsCurrent`, `VerdictIsTrue`, `StaircasesAgree`, `PlainCellsAreCosts` |
| `release` | 2 refs, 3 modules of which one is clocked, 2 rounds, run twice with and without `--work` | `ReadingsAreOurs`, `RoundsAreEven`, `MeasuresTheCommit`, `SignedInOneMinute`, `ChangesAreApart` |
| `ops` | 2 candidates, 2 passes of 2 blocks, 3 kinds of readings, 2 runs, a fixture that changes once, a kept copy | `SplitIsByPass`, `PassesAreLevel`, `RealPointsOneWay`, `ReadersAgree` |

**Bounds.** Every bound is a constant named in its module (`Max...`, `Failing`).
For the job queue, two claimants are what it takes for one claim to lapse under
another; attempts of one row are told apart by number, so a third worker adds no
new kind of match.  A row must be due, lapse, and be claimed again, which takes
`Lease + 1` ticks of the clock; schedules need in addition a period and a
re-seed.  One fault and one stop at *any* step reach each crash window; two at
once are beyond `job_lease` and left to the proofs, which have no bounds on
them.  Three callers on a Gate of one are two in line behind one inside: a waiter
leaves from the head or the tail while another is named; a line of any length is
left to the proofs.  In the Room, three clients for two seats make seats change
hands with posts in their rings and the roll move an entry; a ring of one
overflows on the second post.  Three requests are needed for finding 2;
`MarkerTtl < AnswerTtl < MaxNow` lets each run out in turn.

In `drivers`, two runs are what it takes for a partial run to meet an earlier one's
file, a candidate of two processes what it takes to be started half-way or stopped
half-way, and a shared port what it takes for one candidate to answer for another.
One harm at any step reaches each window of the scripts; the servers' own deaths
are not bounded.  `Caps` has a server that refuses everything, one that stops
exactly at each step and one between two steps.  Three passes are the fewest with
a majority.  In `release`, four figures make columns that are apart, touch, overlap
or have a zero; two refs and two rounds let one get ahead of the other;
the second run meets the first's trees; one minute over is one turn of the clock,
and a second turn repeats the first.  In `ops`, the readings agree, flip, straddle
zero or drift by a tenth; a second run of one candidate keeps the other's row
beside its own.  Two passes of two blocks leave none over; what leftovers can do is in
`ReadersConsistent`.

Symmetry is used only in runs with no liveness property and only over
interchangeable clients, speakers, processes or requests (the request that asks
something else, and the client that is an event stream, are kept apart).

**Deadlock** is checked in the job and gate runs.  In the Room runs the posts and
seats run out, in the idempotent ones every request ends, and the scripts of
`drivers`, `release` and `ops` end and are not run again, so those may stop and say
`CHECK_DEADLOCK FALSE`.

**Fairness.** `JobQueue`: weak fairness of the clock, of `serveOn`'s steps and of
each worker's; a fiber that can run is run by the scheduler, a statement is
answered or fails, and a run ends because `callTask` cancels it at its timeout.
Starting, stopping and crashing a process, and what the program pushes, are not
assumed to happen.  `Gate`: a caller that was signalled, or whose wait
has ended, gets the lock and goes on, and one inside leaves because its user
defers `leave`; nobody is assumed to arrive, to time out or to be cancelled.
`Room`: speakers in a broadcast and connections with something to do go on; nobody
is assumed to speak, sit or leave.  The scripts are checked for safety only: a
server need not ever answer, and `Spins` shows that a driver can wait for ever.

## 4. Findings

With a run each:

1. **A revived row's attempt numbers are used twice** (`job/table.zig:374`, run
   `job_fence_doc`).  `retryDead` sets `attempts` to 0, so a worker whose lease
   lapsed at attempt 1 matches the fence of the next attempt 1.
   `job/contract.zig:30-33` says a late answer "matches nothing".  `FenceIsExact`
   states what does hold: the fence is exact for rows not revived under a claim
   that is out.
2. **A request runs unclaimed after a lost claim and an empty read**
   (`http/typed.zig:726`, run `idempotent_doc`).  The first request failing
   between the two calls is enough; a third then claims the freed key and both
   are in the handler.  ADR 268 says they "must not both run the handler".
   `OneRunBetweenThem` states what holds without that, a handler outliving its
   marker, or a key freed twice.

Met on the way, and built into the models as the exceptions their properties name:

* **A lease can lapse before its run begins** (`job/job.zig:1021`).  It is counted
  from a clock read before the claim is sent, and the claim and a re-seed come
  between; `job/job.zig:1370-1371` says it "cannot lapse under a run that is being
  waited for".  `LeaseIsRespected` states what holds.
* An answer whose headers do not fit frees the key with `placed` still false, so
  that a failed send frees it again (`http/typed.zig:778`, the slip `twice`).
* A speaker cancelled at one seat's lock skips that seat without counting the post
  as missed (`http/room.zig:806`, accounted for as `refused`).
* **nilo-dev can serve a binary under another's hash** (`dev/main.zig:306-341`).
  The binary is hashed, the old server drains for up to five seconds, and then the
  file is started, as it is by then.  A build that lands in between is served with
  the hash of the one before it; saving the sources back to that one then looks
  like "the same bytes", and nothing restarts.  `ServerIsCurrent` holds but for
  `swapped`.
* `bench/devloop.py:153` saves its stale line before its `try`, so that a `Popen`
  that raises, or Ctrl-C, leaves it in the file its docstring says is "put back
  byte for byte, whatever happened" (`NothingLeftBehind` excepts `fork` and `cut`).
  And a start that fails can hide a restart from the check (`VerdictIsTrue` excepts
  `start`); so can one chain of three troubles, an old binary that could not be
  removed, its build failing and its server dying, after which the next server looks
  like the restart that was waited for.
* `bench/compare/drive.py`: the first `start` is outside the `try` (347), so that
  a `Popen` that raises takes the rest of the candidates with it; `recv` answering
  nothing goes round for ever (183; likewise `compare-s3/drive.py:434` and
  `ws_idle.py:201`); a candidate that did not start keeps an earlier run's numbers
  with no word on disk (350), and one that failed has its error beside them (390),
  which `EveryoneIsAccountedFor` states; a file torn in `save` makes the next
  partial run drop the others' rows, which `OthersSurvive` excepts; a save that raises
  inside the except clause ends the script with candidates left (391).
* `bench/burst.py:104` warms its server up before the `try`.
* `bench/release.py:150` takes a tree whose export once failed half-way for whole,
  when `--work` keeps it (`MeasuresTheCommit` excepts `keep`); a program that lands on
  the second build is reported as an error without words (187); and an interrupt
  between `Popen` and `try` (213) leaves a server on the port, where the next run
  finds it and stops.
* `bench/devloop.py:106` kills a nilo-dev that does not stop in 15 seconds, whose
  server, in a group of its own, goes on (`NothingLeftBehind` excepts `killed`).
* `bench/compare-sql`: the thirds of a candidate that dropped out in a later pass are
  not passes (`SplitIsByPass` is about complete ones); a checksum that moved is
  raised outside the `try` and ends the driver (`MergeRaises`); `summarise.py`
  calls a difference real without asking whether the passes agree on its sign
  (`Tax`, which is why `ReadersAgree` goes one way only).

## 5. The proofs

Each theorem holds for any number of processes, workers, rows, callers, requests,
seats, candidates, passes or refs, and any clock, under the named assumptions of the
modules: `StoreAssumption`, `QueueAssumption`, `GateAssumption`,
`IdempotentAssumption`, `RoomAssumption`, `ReleaseAssumption`, `CandsAssumption`,
`StepsAssumption`, `PassesAssumption`, `VersionsAssumption` and `OpsAssumption`.  They give the types of the constants, that
processes and workers are distinct, that `Callers`, `Requests`, `Conns` and `Speakers`
are finite, that lifetimes and rings are positive, that the modules of a release and
the candidates of `ops.py` are listed without repetition, that the memory steps rise,
that a file with a probe's line in it is not the file without, and that every run of one
candidate times equally many blocks (`OPS_BLOCKS`).  One theorem,
`ReadersConsistent`, has a hypothesis of its own, explained there.

* **`JobQueueProofs!TypeCorrect`** - type correctness, one lemma per group of
  actions.
* **`JobQueueSafety`** - `FenceLetsOneThrough`, `WritesLandOnce`,
  `KeysAreUnique`, `SkipHolds`, `LeaseHolds`.  None of these invariants is
  inductive alone.  `Safe` adds: what a worker at each step has in its hand
  (`Shape`); that nobody goes by a moment that has not come (`Past`); that a
  worker takes the way its kind declares (`Fitting`); that a claim in hand is
  never ahead of its row's attempts, and is behind them once the last claim is
  another's (`Fence`); that a claim remembers its row's kind (`KindKept`); that
  the row of an open transaction is its worker's and nobody else's (`Commits`);
  that a tick of a schedule that skips keeps its key while it lives (`Ticks`);
  and that writes that landed have ended their row (`Landed`).  Every action does
  one of a few things to the table, so each is first shown to have an `Outcome`
  (nothing, a row added, claimed, claimed with the answer lost, answered for, a
  transaction opened or landed, rows deleted, a row revived), and each conjunct is
  then proved once per outcome rather than once per action.  `LeaseHolds` follows
  from the same invariant.
* **`GateProofs`** - `TurnsKept`, `LineKept`, `FirstComeFirstServed`, and the
  refinement `GateKeepsItsPromise`.  `Inv`
  strengthens the two invariants by the shape of nodes nobody uses (`NoNode`)
  and by `Arrivals`, that no two callers came each before the other: with it, the
  list from `head` along `next` is the line in that order, so that
  unlinking anywhere keeps it, and `HandOn`'s head is the oldest.  The count of
  turns is a cardinality argument over finite sets.  For the refinement the list is
  read off as a sequence (`Line`, by place rather than by recursion): appending a
  node, unlinking one and taking the head are an `Append`, a removal and a `Tail` of
  it, so each action is one step of `FairGate` or none.
* **`IdempotentProofs`** - `OneRun`, `ReplaysAreTrue`, `MarkersAreTakenAway`,
  `AnswersAreKept`.  `Inv` adds that a clock read is in the past (`AskedBefore`),
  that without a slip the request at work owns the live marker (`MarkerHeld`), that
  what is in the row was written by the request it names (`RowIsSigned`), and
  where `placed` and the replies are set (`PlacedAtTheEnd`, `RepliedAtTheEnd`).
* **`RoomProofs`** - `RefsExact`, `SeatsSound`, `DeliveryExact`, from `RoomInvariant`.  `Inv` adds that
  the roll is a permutation of the seats with the taken ones in front, each where its
  slot says (`Listed`), through every exchange of sitting and giving up; that
  connections and taken seats belong to each other one to one (`Seated`), so that a
  seat given up is not its successor's; that one speaker at a time walks the roll
  (`Talking`); and that a post is in a ring, in a hand or kept at most once, and one
  being handed out has not reached the seats ahead of the walk (`PostsApart`).  A
  post's holders are then four disjoint finite sets, each step moves it in or out of
  one, and the count follows by cardinality.
  `DeliveryExact` needs a second invariant on top, `Delivery`, which says of every
  connection (`Client`) that the posts it has been written, has in its hand, finds in its
  ring and is about to be handed are, by their places in the history of what was said,
  in turn (`InTurn`), and that with those counted as dropped or refused they are as many
  as were meant for it (`Balanced`): in order and as many, nothing can be missing, and
  nothing comes twice because a post is said once (`SaidOnce`).  The kept posts are the
  last ones said that can be kept (`KeptInOrder`), so what a client that comes back is
  handed is the stretch between what it had and what will reach its ring; that the
  stretch has as many posts as the history has places there is a bijection.
* **`ReleaseProofs`** - `ReadingsOurs`, `RoundsEven`, `CommitMeasured`,
  `OneMinuteSigned`, `ChangesApart`, from `ReleaseInvariant`.  `Inv` adds where our server is
  when a stranger answers for it (`StrangerIsFound`), which pairs of ref and module are
  ahead at each place of a round (`Counted`), what is whole among the exported trees and
  in which order the refs are built (`WholeTrees`, `InBuild`), and that the clock of a
  reading is not behind the one it was started by (`OneMinute`).  `ChangesApart` is
  about sums of any number of readings, of any integers.
* **`DriversProofs`** - for the six scripts and the development loop together:
  `NothingIsLeft`, `NumbersOwn`, `OthersSurviveRuns`, `EveryoneAccounted`,
  `ServerCurrent`, from `DriversInvariant`.  `Inv` says where nothing may be alive
  (`Tidy`), hence that whoever answers is the script's own (`Owned`); that the file is
  torn only between the halves of a save and the rows of those not asked for are copied
  (`Spared`); that a row is as it was or of this run (`Remade`); and that the places
  of the list behind the loop have a word (`Accounted`).  The scripts share the
  actions of `Servers`, so each is a few kinds of steps (with a candidate in hand,
  between two, a save, a signal) proved once.  `LoopInv` says of the loop that
  the digest is that of the binary it runs, but for one swapped while the server
  before it drained (`ServedIsHashed`), and of the check that its files are put back
  before it stops the loop (`FilesPutBack`).  `NothingIsLeft` needs in addition that a
  loop that is over has neither a build nor a server (`LoopOver`).
  `VerdictAlwaysTrue` rests on a further invariant, `VerdictInv`, one conjunct per thing
  the check could be wrong about.  A wait that was not too short leaves the loop with
  nothing to do and every line read, and so it stays until the next save (`QuietTimes`).
  Hence nothing starts while the line outside stands (`NotMoved`), and a line that comes
  after the probe was saved is of a binary built after it (`ProbeServed`).  An old binary
  that could not be removed is followed from the boot on (`OldBinary`): either the build
  replaces it, and the restart shows, or the build fails, and then the save that puts the
  file back restarts nothing, unless the server had died (`FirstServer`).  With no trouble
  at all the loop serves each saved version in turn (`NoTrouble`), so the check does not
  fail.  The theorem is for any `MaxOdd`, where the run has 3.
  `StaircasesAlwaysAgree` and `PlainCellsAlwaysAreCosts` are about operators: a staircase
  is at step k or, once the server has stopped, at its cap (`StepOf`), which one
  reading of either driver keeps; and the middle pass of a route has exactly half of the
  passes before it (the ranks of a stable sort are a bijection), so that if it was served
  at least half were, and if not its row shows 0 req/s.  The store route needs no such
  count: a pass in which it was not served is at a cost of zero, which no floor is
  below, so the passes disagree or the cell is void.  Stated for any number of passes
  this is what holds: "more than half", which it says for the default of 3, fails for an
  even `REPEATS`, where half of the floor's passes may not have been served.
* **`OpsProofs`** - `PassesLevel`, `SplitByPass`, `RealOneWay`, `ReadersConsistent`,
  from `OpsInvariant`.  `Inv` says how far each row got: the blocks of the passes 1 to
  m, in that order, equally many of each (`Reached`), of one run over one fixture;
  in the loop m is told by whether the candidate still has its turn.  The readers are
  then facts about lists of any length: the k-th number of a list is positive exactly
  when fewer than k are not, so that each verdict compares one count, the numbers
  of the list that are not positive, with a place, and the counts of the parts add
  up to the list's but for the blocks a division leaves over.
  `ReadersConsistent` assumes `PASSES <= MinBlocks` (3 and 10 in the code, where only
  the first can be set, from the environment).  It does not hold without: with 9
  passes and parts of 2 blocks, a list of 26 leaves 8 over, which no part has and which
  can turn the pooled median against all nine parts; with parts of 10 blocks it takes
  41 passes.

Type correctness is a conjunct of each of these invariants and is proved with it.

No prover here instantiates an induction principle, but the well-foundedness of `<` on
the naturals and the minimum it gives can be cited (`LeastNumber`).  Facts about sums,
comprehensions, order statistics and the Gate's list are proved by least
counterexample from it, which is why these are recursive functions in the models and
neither `RECURSIVE` operators nor folds.

**Only model-checked**: the liveness properties (`SchedulesHeal`, `RowsEnd`,
`ShutdownEnds`, `NobodyWaitsForEver`, `NobodyIsStuck`), because the prover does not
handle fairness.  Every invariant of a passing run is stated by a theorem.

## 6. What is not modelled

* Job queue: a lone worker on a server with no threads of its own, wake-ups
  between processes (a worker may look at any time, which includes being woken),
  the status a route polls, SQLite's `BEGIN IMMEDIATE`, releasing rows of kinds
  this process does not know, a task that ends the transaction itself, and the window
  of a push with `.within` (`job/job.zig:588-608`), which lives in a cache: a push
  refused there never comes to the table, and the errdefer gives back what no row shows.
  All processes go by one clock.
* Room: a connection seated in several rooms through one chain, `forget`,
  `deinit`, a cancelled `take`, failing allocations, and how a post is formatted.
* Idempotent: eviction from a cache `Space` used in place of the table, and the
  refusals before the claim, which touch nothing.  Instances go by one clock, while
  `sql/replays.zig:40-44` says theirs may disagree about a row's last second: one that
  is behind is a claim whose clock was read early, which `Ask` has; one that is ahead,
  and takes a marker over a little before it runs out, is left out.  `Read` and `Keep`
  read the clock with their statement.  A row that does not decode
  (`http/typed.zig:730`) is left out, since only `encode` writes rows; it would end as
  the slip `unclaimed`.
* Development loop: the binary is written in one step (a half-written one is what
  the two equal stamps are for), the trail of cache directories a restart deletes,
  and sources that differ and compile to the same bytes; the lines of the build
  itself, which the check reads too, are abstracted to the waits they end.  The save
  outside the sources (`TouchOutside`) is of a file the compiler never reads: a build
  that runs for it, to copy the front end, does not touch the binary
  (`bench/devloop.py:25-26`), so it is no step of the model's build.
* Harnesses: what `wrk`, cachegrind and `/proc` measure, the HTTP/2 and gRPC clients
  of `mem.py`, the set-up of the object store, and the layout of the pages and
  tables; in `Release`, a stranger that takes the port while our server starts stays
  until it has failed to bind, and the refs name different commits (two refs of one
  commit share the tree `commit[:12]`, release.py:149, and the second's build replaces
  the first's binaries by its own of the same sources).
* Drivers: no process but the script's own is ever on its ports.  `wait_up`
  (`bench/compare/drive.py:135-143`) is content with anybody, so that a server somebody
  else runs there would be measured as the candidate; `NumbersAreOwn` is about what the
  script itself left behind, and only `Release` has strangers.
* SQL comparison: one `PASSES` for the driver and its readers.  Each script takes it from
  its own environment and the file does not record it; a reader told another number
  cuts rows elsewhere than between passes, which no property here could notice.
* The SQL census, compression and conformance scripts, the small load clients and
  the time-zone refresh: straight-line conversions or clients with nothing to keep.
* Elsewhere: byte-level parsing and formatting (HTTP/1, HPACK, WebSocket frames,
  JSON, protobuf), sealing and hashing, routing, binding worked out while
  compiling, static files, lints and examples.  These have no shared
  state to interleave; the repository's tests and fuzzers are the better tool.

## 7. Plan

In order of what the system relies on most:

1. `Rooms` - the pool of lent rooms, pins and `vacated` (the last connection leaves
   a room another pins under the same key, `http/rooms.zig:317`), composed with the
   seats of `Room`; the chain of tickets of a connection in several rooms, which
   shrinks as it stands (`http/stream.zig:640`).
2. `Cached` - claim, read and the bounded wait of several requests for one page,
   who claim again when its maker fails (`http/typed.zig:905`).
3. `CacheStore` - the ring, the index and versions, with readers that take no
   lock and check after copying (`cache/store.zig:1342`): what is returned was once
   put whole under that key.
4. `JobContract` - what a job store promises; the table and the in-memory store
   shown to implement it.  Job status, a cache entry written by pusher, worker and
   canceller in no fixed order (`job/job.zig:1141`); `serveOn` called twice, which
   does not clear `stopping` (`job/job.zig:866`).
5. `Allowance`; the windows of an HTTP/2 connection and of its streams, spent by
   handlers on several fibers (`http/h2conn.zig:532`); the key ring's refresh,
   migrations under the advisory lock, the server's drain, retries of outbound
   requests.
6. Cron and time zones as operators against a definition by search.
7. Proofs: the safety of `Rooms` and `Cached`; that the in-memory store and the table
   implement `JobContract`.
