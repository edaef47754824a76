-------------------------------- MODULE Ops --------------------------------
(***************************************************************************)
(* bench/compare-sql: ops.py runs every candidate once a pass, the passes  *)
(* round-robin over the candidates, pools the blocks of all passes in one  *)
(* list and saves the lot after every run of a candidate.  Five readers    *)
(* split that list again: the report of ops.py, artifact_data.py,          *)
(* summarise.py, stability.py, drift.py and compare_runs.py.               *)
(*                                                                         *)
(* A candidate is modelled with one shape and one mapper beside its        *)
(* control, timed in interleaved blocks: a block is a pair of times, and   *)
(* keeps where it was taken (the run of the driver, the pass and the       *)
(* fixture), which the program forgets and the properties need.  Times are *)
(* whole nanoseconds and medians are doubled to stay whole.                *)
(***************************************************************************)
EXTENDS Integers, Sequences, FiniteSets, FiniteSetsExt

CONSTANTS CANDIDATES,   \* the candidates' keys, in their order
          PASSES,
          MinBlocks,    \* blocks a pass must have to be split off (10)
          BeforePass,   \* the pass of the old run compare_runs.py keeps
          Readings,     \* what one run of a candidate may time: sequences of OPS_BLOCKS pairs
          MaxFixture,   \* how often the fixture may change, plus one
          MaxRuns       \* runs of the driver

ASSUME OpsAssumption ==
  /\ CANDIDATES \in Seq(STRING)
  /\ \A i, j \in DOMAIN CANDIDATES : CANDIDATES[i] = CANDIDATES[j] => i = j
  /\ PASSES \in Nat \ {0} /\ MinBlocks \in Nat \ {0}
  /\ BeforePass \in 1..PASSES /\ MaxFixture \in Nat /\ MaxRuns \in Nat
  /\ \A r \in Readings : r \in Seq(Int \X Int) /\ r # <<>>
  /\ \A r, q \in Readings : Len(r) = Len(q)

VARIABLES file,      \* results/ops-<transport>.json: rows by key, or Torn
          before,    \* the copy of it kept as the earlier run
          fixture,   \* what the database's rows add up to
          runs,      \* runs of the driver so far
          pc, pass,  \* where its loop stands
          turn,      \* list(alive), the part of it this pass has left
          alive,
          fresh,     \* what this run collected
          results    \* what it saves

state == <<file, before, fixture>>
loop == <<pass, turn, alive, fresh, results>>
vars == <<state, runs, pc, loop>>

ToSet(s) == {s[i] : i \in DOMAIN s}

\* [x for x in s if x in S]
Only(s, S) ==
  LET kept[i \in 0..Len(s)] == IF i = 0 THEN <<>>
                               ELSE IF s[i] \in S THEN Append(kept[i - 1], s[i]) ELSE kept[i - 1]
  IN kept[Len(s)]

Keys == ToSet(CANDIDATES)
Torn == <<>>
NoRow == [checksum |-> 0, blocks |-> <<>>]
NoRows == [k \in Keys |-> NoRow]

---------------------------------------------------------------------------
(* What the readers compute from a list of numbers.                        *)

Below(s, x) == {i \in DOMAIN s : s[i] < x}
UpTo(s, x) == {i \in DOMAIN s : s[i] <= x}

\* sorted(s)[k - 1]: fewer than k are less, and at least k are not greater.
Nth(s, k) == CHOOSE x \in ToSet(s) : Cardinality(Below(s, x)) < k /\ k <= Cardinality(UpTo(s, x))

\* Twice statistics.median.
Median(s) == Nth(s, (Len(s) + 1) \div 2) + Nth(s, Len(s) \div 2 + 1)

\* The readers take PASSES from their own environments; the file does not say
\* how many there were, and they are taken to be told what the driver was.
Per(s) == Len(s) \div PASSES
Slice(s, p) == SubSeq(s, (p - 1) * Per(s) + 1, p * Per(s))

\* The list cut into as many equal parts as there were passes, when a part is
\* long enough to say anything.
PassMedians(s) == IF Per(s) >= MinBlocks THEN [p \in 1..PASSES |-> Median(Slice(s, p))] ELSE <<>>

Signs(meds) == {m > 0 : m \in ToSet(meds)}
Agree(meds) == Cardinality(Signs(meds)) <= 1

\* int(1.96 * (n ** 0.5) / 2)
K(n) == CHOOSE k \in 0..n : 40000 * k * k <= 38416 * n /\ 38416 * n < 40000 * (k + 1) * (k + 1)

\* The interval is of order statistics around the middle; `at` counts from 0.
Paired(s) == LET n == Len(s)
                 at(i) == Nth(s, Min({Max({i, 0}), n - 1}) + 1)
             IN [median |-> Median(s), lo |-> at(n \div 2 - K(n)), hi |-> at(n \div 2 + K(n)),
                 passes |-> PassMedians(s), agree |-> Agree(PassMedians(s))]

AroundZero(p) == p.lo <= 0 /\ 0 <= p.hi

\* The verdict of ops.py's report, and of the tables of summarise.py.
Verdict(s) == LET p == Paired(s) IN
  IF AroundZero(p) THEN "indistinguishable" ELSE IF ~p.agree THEN "below resolution" ELSE "real"
Tax(s) == IF AroundZero(Paired(s)) THEN "indistinguishable" ELSE "real"

\* artifact_data.py: a difference is published as real when the passes of an
\* earlier run, where it has them, point the same way too.
OtherSignsPooled(prev) == IF prev = <<>> THEN {} ELSE {Median(prev) > 0}
OtherSigns(prev) == IF prev = <<>> THEN {} ELSE Signs(PassMedians(prev))
RealByInterval(s, prev) == ~AroundZero(Paired(s))
Real(s, prev) == LET p == Paired(s) IN
  ~AroundZero(p) /\ p.agree /\ Cardinality(OtherSigns(prev) \cup Signs(p.passes)) <= 1

\* ops.py's report: the rows are comparable when their checksums are one.
ChecksumsAgree(rows) == Cardinality({row.checksum : row \in rows}) = 1

\* stability.py, arm by arm.
Stability(s) ==
  LET deltas == ToSet(PassMedians(s))
      scale == Max({1} \cup {Max({d, -d}) : d \in deltas})
  IN IF PassMedians(s) = <<>> THEN "skipped"
     ELSE IF ~Agree(PassMedians(s)) THEN "flip"
     ELSE IF 4 * (Max(deltas) - Min(deltas)) > scale THEN "wide" ELSE "steady"

\* drift.py: does an arm's own time move more than 6% between passes?  A
\* lowest time of zero is no spread.
Drifted(s) == LET meds == ToSet(PassMedians(s))
              IN meds # {} /\ Min(meds) > 0 /\ 50 * (Max(meds) - Min(meds)) > 3 * Min(meds)
SlowestPass(s) == LET meds == PassMedians(s)
                  IN Min({p \in 1..PASSES : \A q \in 1..PASSES : meds[q] <= meds[p]})

\* compare_runs.py: one pass of the old run against all of the new one.
TailPass(s) == IF Per(s) < MinBlocks THEN s ELSE Slice(s, BeforePass)
Changed(old, new) == (Median(TailPass(old)) > 0) # (Median(new) > 0)

---------------------------------------------------------------------------
(* ops.py, run again and again over one file of results.                   *)

Arm(row, which) == [i \in DOMAIN row.blocks |-> row.blocks[i][which]]
Diffs(row) == [i \in DOMAIN row.blocks |-> row.blocks[i].mapper - row.blocks[i].control]

Init == /\ file = NoRows /\ before = NoRows /\ fixture = 1
        /\ runs = 0 /\ pc = "idle"
        /\ pass = 0 /\ turn = <<>> /\ alive = <<>> /\ fresh = NoRows /\ results = NoRows

Loaded == IF file = Torn THEN NoRows ELSE file

\* The driver is gone: finished, interrupted or dead of an exception.
Gone == /\ pc' = "idle"
        /\ pass' = 0 /\ turn' = <<>> /\ alive' = <<>> /\ fresh' = NoRows /\ results' = NoRows

\* main, to the head of its loop: a run of some candidates starts from what
\* is recorded, a run of all of them from nothing.
Begin(only) ==
  LET chosen == Only(CANDIDATES, IF only = {} THEN Keys ELSE only)
  IN /\ pc = "idle" /\ runs < MaxRuns
     /\ runs' = runs + 1
     /\ results' = IF only = {} THEN NoRows ELSE Loaded
     /\ fresh' = NoRows
     /\ alive' = chosen /\ turn' = chosen /\ pass' = 1
     /\ pc' = "run"
     /\ UNCHANGED state

\* merge: the pass's blocks go behind the ones collected before.
Blocks(reading) ==
  [i \in DOMAIN reading |-> [mapper |-> reading[i][1], control |-> reading[i][2],
                             run |-> runs, pass |-> pass, fixture |-> fixture]]
MergeIntoRecorded(into, reading) ==
  [checksum |-> fixture, blocks |-> results[Head(turn)].blocks \o Blocks(reading)]
Merge(into, reading) ==
  [checksum |-> IF into = NoRow THEN fixture ELSE into.checksum, blocks |-> into.blocks \o Blocks(reading)]
Moved(into) == into # NoRow /\ into.checksum # fixture

\* run_once answers, and its blocks are merged into what this run has.
RunOnce ==
  LET k == Head(turn) IN
  /\ pc = "run" /\ turn # <<>>
  /\ ~Moved(fresh[k])
  /\ \E r \in Readings : fresh' = [fresh EXCEPT ![k] = Merge(@, r)]
  /\ results' = [results EXCEPT ![k] = fresh'[k]]
  /\ turn' = Tail(turn)
  /\ pc' = "save"
  /\ UNCHANGED <<state, runs, pass, alive>>

\* The checksum moved between passes.  merge raises outside the `try` and
\* takes the driver with it.
MergeRaises ==
  /\ pc = "run" /\ turn # <<>>
  /\ Moved(fresh[Head(turn)])
  /\ Gone /\ UNCHANGED <<state, runs>>

\* run_once raises: no RESULT line.  The loop runs over a copy of `alive`.
LeftOverInPlace == IF Len(turn) > 1 THEN Tail(Tail(turn)) ELSE <<>>
LeftOver == Tail(turn)
RunFails ==
  /\ pc = "run" /\ turn # <<>>
  /\ alive' = Only(alive, Keys \ {Head(turn)})
  /\ turn' = LeftOver
  /\ UNCHANGED <<state, runs, pc, pass, fresh, results>>

NextPass ==
  /\ pc = "run" /\ turn = <<>>
  /\ IF pass < PASSES
       THEN pass' = pass + 1 /\ turn' = alive /\ pc' = "run"
       ELSE pc' = "last" /\ UNCHANGED <<pass, turn>>
  /\ UNCHANGED <<state, runs, alive, fresh, results>>

\* save: the file is emptied first and written then.
Truncate ==
  /\ pc \in {"save", "last"}
  /\ file' = Torn
  /\ pc' = IF pc = "save" THEN "dump" ELSE "dump last"
  /\ UNCHANGED <<before, fixture, runs, loop>>
Dump ==
  /\ pc = "dump"
  /\ file' = results
  /\ pc' = "run"
  /\ UNCHANGED <<before, fixture, runs, loop>>
DumpLast ==
  /\ pc = "dump last"
  /\ file' = results
  /\ Gone /\ UNCHANGED <<before, fixture, runs>>

\* ctrl-C or a kill, in the middle of a save too.
Interrupt == pc # "idle" /\ Gone /\ UNCHANGED <<state, runs>>

\* External: somebody keeps a copy of the results to compare with, and the
\* fixture changes under the runs.
KeepCopy == /\ pc = "idle" /\ file # Torn /\ before = NoRows /\ before' = file
            /\ file # NoRows /\ UNCHANGED <<file, fixture, runs, pc, loop>>
Refill == /\ fixture < MaxFixture /\ fixture' = fixture + 1
          /\ UNCHANGED <<file, before, runs, pc, loop>>

Next == \/ \E only \in SUBSET Keys : Begin(only)
        \/ RunOnce \/ MergeRaises \/ RunFails \/ NextPass
        \/ Truncate \/ Dump \/ DumpLast \/ Interrupt
        \/ KeepCopy \/ Refill

Spec == Init /\ [][Next]_vars

---------------------------------------------------------------------------
OnDisk == IF file = Torn THEN {} ELSE {file[k] : k \in Keys} \ {NoRow}

\* The candidate came through every pass of its run.
Complete(row) == \A p \in 1..PASSES : \E i \in DOMAIN row.blocks : row.blocks[i].pass = p

\* The blocks of a pass, picked by where they were taken.
Taken(row, p) == Only(row.blocks, {b \in ToSet(row.blocks) : b.pass = p})
Own(row, p) == [blocks |-> Taken(row, p)]

\* Long enough to be split, and of every pass.
Whole(row) == Complete(row) /\ Len(row.blocks) >= PASSES * MinBlocks

\* The report tells rows of different fixtures, kept beside each other by a
\* run of some candidates, from rows of one.
FixturesAreTold ==
  OnDisk # {} => ChecksumsAgree(OnDisk) <=>
    \A row, other \in OnDisk : row.blocks[1].fixture = other.blocks[1].fixture

\* A row is of one run of the driver over one fixture.
OfOneRun(row) ==
  \A i, j \in DOMAIN row.blocks : /\ row.blocks[i].run = row.blocks[j].run
                                  /\ row.blocks[i].fixture = row.blocks[j].fixture

\* stability.py dates a change of sign, drift.py a slow pass.
DatedRight(row) ==
  LET meds == [p \in 1..PASSES |-> Median(Diffs(Own(row, p)))]
      walls == [p \in 1..PASSES |-> Median(Arm(Own(row, p), "control"))]
  IN /\ Stability(Diffs(row)) = "flip" <=> \E p, q \in 1..PASSES : meds[p] > 0 /\ meds[q] <= 0
     /\ Drifted(Arm(row, "control")) <=> /\ \A p \in 1..PASSES : walls[p] > 0
                                         /\ \E p, q \in 1..PASSES : 100 * walls[q] > 106 * walls[p]
     /\ \A q \in 1..PASSES : walls[q] <= walls[SlowestPass(Arm(row, "control"))]

\* Every row on the disk is of one run of the driver over one fixture; and
\* when its candidate came through every pass, the parts stability.py and
\* drift.py cut the pooled list into are the passes, so that a sign flip and
\* the slowest pass are dated right; and the report tells rows of different
\* fixtures from rows of one (merge and report, ops.py:139-163, 226-248, over
\* stability.py:57-67 and drift.py:47-61, 79-83).
SplitIsByPass ==
  /\ FixturesAreTold
  /\ \A row \in OnDisk :
       /\ OfOneRun(row)
       /\ Complete(row) => \A p \in 1..PASSES : Slice(row.blocks, p) = Taken(row, p)
       /\ Whole(row) => DatedRight(row)

\* Passes go round the candidates: one that is still alive has been measured
\* in every pass up to this one, and in this one exactly when its turn is
\* over, however many others failed before it (ops.py:330-344).
PassesAreLevel ==
  pc # "idle" =>
    \A k \in ToSet(alive) :
      {b.pass : b \in ToSet(fresh[k].blocks)} = 1..(IF k \in ToSet(turn) THEN pass - 1 ELSE pass)

\* A difference the page publishes as real points one way: the interval, its
\* median, every pass of this run and every pass of the run it is held
\* against (paired and other_signs, artifact_data.py:37-106, 154-162).
RealPointsOneWay ==
  file # Torn => \A k \in Keys :
    LET now == file[k] was == before[k]
        up(row) == [p \in 1..PASSES |-> Median(Diffs(Own(row, p))) > 0]
    IN Whole(now) /\ Real(Diffs(now), Diffs(was)) =>
         LET p == Paired(Diffs(now)) IN
         /\ p.lo > 0 <=> p.median > 0
         /\ \A q \in 1..PASSES : up(now)[q] <=> p.lo > 0
         /\ Whole(was) => \A q \in 1..PASSES : up(was)[q] <=> p.lo > 0

\* The readers do not contradict each other: what the page calls real,
\* ops.py's report and summarise.py call real, stability.py sees no sign flip
\* in, and compare_runs.py sees no change of sign in since the run the page
\* held it against (ops.py:273-284, summarise.py:123, stability.py:66,
\* compare_runs.py:86-91).
ReadersAgree ==
  file # Torn => \A k \in Keys :
    LET now == Diffs(file[k]) was == Diffs(before[k])
    IN now # <<>> /\ Real(now, was) =>
         /\ Verdict(now) = "real" /\ Tax(now) = "real"
         /\ Stability(now) # "flip"
         /\ PassMedians(now) # <<>> /\ was # <<>> /\ PassMedians(was) # <<>> => ~Changed(was, now)
=============================================================================
