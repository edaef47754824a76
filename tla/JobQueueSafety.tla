--------------------------- MODULE JobQueueSafety ---------------------------
(***************************************************************************)
(* The safety properties of JobQueue as theorems.  Every step of the queue *)
(* is one of a few things that can happen to the table (Outcome, proved    *)
(* once, action by action); each part of the inductive invariant Safe is   *)
(* then shown against those few.                                           *)
(***************************************************************************)
EXTENDS JobQueueProofs

(* Nobody goes by a moment that has not come.                              *)
Past == \A a \in Actors : look[a] <= now

(* A worker takes the way through executeKind its row's kind declares.     *)
Fitting ==
    \A w \in Workers :
        /\ pc[w] = "drop" => tok[w].kind \in Dropping
        /\ pc[w] = "unkey" => tok[w].kind \in Overlapping
        /\ pc[w] = "done" => tok[w].kind \notin Transactional

(* The row of an open transaction is its worker's, and nobody else's.      *)
Commits ==
    \A w \in Workers : pc[w] = "commit" =>
        /\ Mine(w)
        /\ \A v \in Workers : pc[v] = "commit" /\ tok[v].id = tok[w].id => v = w

(* A claim remembers the kind of the row it is about.                      *)
KindKept ==
    \A w \in Workers :
        tok[w] # NoTok /\ rows[tok[w].id].state # "absent" =>
            tok[w].kind = rows[tok[w].id].kind

(* A claim in somebody's hand is never ahead of its row, and is behind a   *)
(* running row whose last claim is another's.                              *)
Fence ==
    \A w \in Workers :
        tok[w] # NoTok /\ ~tainted[tok[w].id] /\ rows[tok[w].id].state # "absent" =>
            /\ tok[w].attempts <= rows[tok[w].id].attempts
            /\ rows[tok[w].id].state = "running" /\ holder[tok[w].id] # w =>
                  tok[w].attempts < rows[tok[w].id].attempts

(* A tick of a kind that skips keeps the schedule's key while it lives.    *)
Ticks ==
    \A i \in Ids :
        Live(rows[i]) /\ rows[i].kind \in Scheduled \ (Overlapping \cup UserKinds) =>
            rows[i].key = ScheduleKey

(* Writes that landed have ended their row; a transactional row ends in no *)
(* other way.                                                              *)
Landed ==
    \A i \in Ids :
        /\ rows[i].state = "absent" => rows[i].kind = NoKind
        /\ wrote[i] \in {0, 1}
        /\ wrote[i] = 1 => rows[i].state \in {"done", "absent"}
        /\ rows[i].kind \in Transactional \ Dropping /\ rows[i].state = "done" => wrote[i] = 1

Safe ==
    /\ Shape /\ Past /\ Fitting /\ Commits /\ KindKept /\ Fence
    /\ KeyNamesOneLiveRow /\ Ticks /\ Landed

-----------------------------------------------------------------------------
(* What a step can do to the table.                                        *)

(* Nobody opens a transaction on a row, or moves one to another row.       *)
NoneEnters ==
    \A v \in Workers : pc'[v] = "commit" => pc[v] = "commit" /\ tok'[v] = tok[v]

(* Nobody gets a claim.                                                    *)
NoneGets == \A v \in Workers : tok'[v] = tok[v] \/ tok'[v] = NoTok

Still == UNCHANGED <<rows, history>> /\ NoneGets /\ NoneEnters

Add(k, u, t, i) ==
    /\ ~KeyTaken(rows, k, u)
    /\ u = ScheduleKey \/ k \in UserKinds
    /\ rows' = [rows EXCEPT ![i] = Queued(k, u, t)]
    /\ holder' = [holder EXCEPT ![i] = NoWorker]
    /\ tainted' = [tainted EXCEPT ![i] = FALSE]
    /\ wrote' = [wrote EXCEPT ![i] = 0]
    /\ tok' = tok /\ NoneEnters
Adding ==
    \E k \in Kinds, u \in Keys \cup {NoKey}, t \in Nat, i \in NewId : Add(k, u, t, i)

(* A claim that was answered, and one whose answer was lost.               *)
Marking(w, i) ==
    /\ pc[w] = "claim" /\ Due(rows[i], look[w]) /\ ~Locked(i)
    /\ \E t \in Nat : rows' = [rows EXCEPT ![i] = Claimed(rows[i], t)]
    /\ UNCHANGED <<tainted, wrote>> /\ NoneEnters
Claiming ==
    \E w \in Workers, i \in Ids :
        /\ Marking(w, i)
        /\ tok' = [tok EXCEPT ![w] = Ticket(i)]
        /\ holder' = [holder EXCEPT ![i] = w]
Losing ==
    \E w \in Workers, i \in Ids :
        Marking(w, i) /\ tok' = tok /\ holder' = [holder EXCEPT ![i] = NoWorker]

(* An answer about the row in the worker's hand.                           *)
Answer(w, r) ==
    \/ pc[w] \in {"done", "drop"} /\ r = Done(MyRow(w))
    \/ pc[w] = "dead" /\ r = Dead(MyRow(w))
    \/ pc[w] = "unkey" /\ r = Unkeyed(MyRow(w))
    \/ tok'[w] = NoTok /\ r = Released(MyRow(w))
    \/ tok'[w] = NoTok /\ \E t \in Nat : r = Retried(MyRow(w), t)

Answering ==
    \E w \in Workers, r \in Row :
        /\ tok[w] \in Token /\ Mine(w) /\ Unlocked(w) /\ Answer(w, r)
        /\ pc[w] # "commit" /\ pc'[w] # pc[w]
        /\ rows' = [rows EXCEPT ![tok[w].id] = r]
        /\ UNCHANGED history /\ NoneGets /\ NoneEnters

Entering ==
    \E w \in Workers :
        /\ tok[w] \in Token /\ Mine(w) /\ Unlocked(w)
        /\ pc' = [pc EXCEPT ![w] = "commit"]
        /\ UNCHANGED <<rows, tok, history>>

Landing ==
    \E w \in Workers :
        /\ tok[w] \in Token /\ pc[w] = "commit" /\ pc'[w] # "commit"
        /\ Land(w)
        /\ UNCHANGED <<holder, tainted>> /\ NoneGets /\ NoneEnters

Deleting ==
    \E S \in SUBSET {i \in Ids : rows[i].state # "running"} :
        /\ rows' = [i \in Ids |-> IF i \in S THEN Absent ELSE rows[i]]
        /\ UNCHANGED <<tok, history>> /\ NoneEnters

Reviving == \E i \in Ids : RetryDead(i)

Outcome ==
    \/ Still \/ Adding \/ Claiming \/ Losing \/ Answering \/ Entering \/ Landing
    \/ Deleting \/ Reviving

-----------------------------------------------------------------------------
LEMMA InsertOutcome ==
    ASSUME Shape, NEW k \in Kinds, NEW u \in Keys \cup {NoKey}, NEW t \in Nat,
           u = ScheduleKey \/ k \in UserKinds,
           Insert(k, u, t), UNCHANGED tok, NoneEnters
    PROVE  Still \/ Adding
  <1>1. CASE UNCHANGED <<rows, history>>
    BY <1>1 DEF Still, NoneGets
  <1>2. CASE ~KeyTaken(rows, k, u) /\ \E i \in NewId :
                /\ rows' = [rows EXCEPT ![i] = Queued(k, u, t)]
                /\ holder' = [holder EXCEPT ![i] = NoWorker]
                /\ tainted' = [tainted EXCEPT ![i] = FALSE]
                /\ wrote' = [wrote EXCEPT ![i] = 0]
    BY <1>2 DEF Adding, Add
  <1> QED
    BY <1>1, <1>2 DEF Insert

LEMMA PushNextOutcome ==
    ASSUME Shape, NEW a \in Actors, NEW k \in Kinds,
           \/ Insert(k, ScheduleKey, look[a] + Period[k])
           \/ UNCHANGED <<rows, history>>,
           UNCHANGED tok, NoneEnters
    PROVE  Still \/ Adding
  <1>1. ScheduleKey \in Keys \cup {NoKey} /\ look[a] + Period[k] \in Nat
    BY QueueAssumption DEF Shape, TypeOK
  <1>2. CASE Insert(k, ScheduleKey, look[a] + Period[k])
    BY <1>1, <1>2, InsertOutcome
  <1>3. CASE UNCHANGED <<rows, history>>
    BY <1>3 DEF Still, NoneGets
  <1> QED
    BY <1>2, <1>3

LEMMA ProgramOutcome ==
    ASSUME Shape, Tick \/ Program
    PROVE  Outcome
  <1>1. CASE Tick
    BY <1>1 DEF Tick, Outcome, Still, NoneGets, NoneEnters
  <1>2. ASSUME NEW k \in UserKinds, NEW u \in (Keys \ {ScheduleKey}) \cup {NoKey}, NEW d \in Waits,
               Push(k, u, d)
        PROVE  Outcome
    <2>1. k \in Kinds /\ u \in Keys \cup {NoKey} /\ now + d \in Nat /\ Insert(k, u, now + d)
      BY <1>2, QueueAssumption DEF Push, Shape, TypeOK
    <2>2. UNCHANGED tok /\ NoneEnters
      BY <1>2 DEF Push, NoneEnters
    <2> QED
      BY <2>1, <2>2, InsertOutcome DEF Outcome
  <1>3. ASSUME NEW i \in Ids, Cancel(i)
        PROVE  Outcome
    <2>1. rows' = [j \in Ids |-> IF j \in {i} THEN Absent ELSE rows[j]]
      BY <1>3 DEF Cancel, Shape, TypeOK
    <2>2. {i} \in SUBSET {j \in Ids : rows[j].state # "running"}
      BY <1>3 DEF Cancel
    <2>3. UNCHANGED <<tok, history>> /\ NoneEnters
      BY <1>3 DEF Cancel, NoneEnters
    <2> QED
      BY <2>1, <2>2, <2>3 DEF Outcome, Deleting
  <1>4. ASSUME NEW i \in Ids, RetryDead(i)
        PROVE  Outcome
    BY <1>4 DEF Outcome, Reviving
  <1>5. ASSUME NEW state \in {"done", "dead"}, Delete(state)
        PROVE  Outcome
    <2>1. PICK S \in SUBSET {i \in Ids : rows[i].state = state} :
                rows' = [i \in Ids |-> IF i \in S THEN Absent ELSE rows[i]]
      BY <1>5 DEF Delete
    <2>2. S \in SUBSET {i \in Ids : rows[i].state # "running"}
      OBVIOUS
    <2>3. UNCHANGED <<tok, history>> /\ NoneEnters
      BY <1>5 DEF Delete, NoneEnters
    <2> QED
      BY <2>1, <2>2, <2>3 DEF Outcome, Deleting
  <1> QED
    BY <1>1, <1>2, <1>3, <1>4, <1>5 DEF Program, Sweep, SweepDead

LEMMA ProcOutcome ==
    ASSUME Shape, NEW p \in Procs, Serve(p) \/ ProcStep(p) \/ Shutdown(p) \/ Crash(p)
    PROVE  Outcome
  <1>1. CASE SeedFirst(p)
    <2>1. PICK k \in todo[p] : PushNext(p, k, Faulted)
      BY <1>1 DEF SeedFirst
    <2>2. k \in Kinds /\ p \in Actors
      BY QueueAssumption DEF Shape, TypeOK, Actors
    <2>3. Insert(k, ScheduleKey, look[p] + Period[k]) \/ UNCHANGED <<rows, history>>
      BY <2>1 DEF PushNext
    <2>4. UNCHANGED tok /\ NoneEnters
      BY <1>1 DEF SeedFirst, NoneEnters
    <2> QED
      BY <2>2, <2>3, <2>4, PushNextOutcome DEF Outcome
  <1>2. CASE Serve(p) \/ Exit(p) \/ Shutdown(p)
    BY <1>2 DEF Serve, Exit, Shutdown, Outcome, Still, NoneGets, NoneEnters
  <1>3. CASE StartWorkers(p)
    BY <1>3 DEF StartWorkers, Outcome, Still, NoneGets, NoneEnters
  <1>4. CASE Crash(p)
    BY <1>4 DEF Crash, Outcome, Still, NoneGets, NoneEnters
  <1> QED
    BY <1>1, <1>2, <1>3, <1>4 DEF ProcStep

(* A claimable row is one the statement may mark.                          *)
LEMMA ClaimableRow ==
    ASSUME Shape, NEW w \in Workers, NEW i \in Claimable(w)
    PROVE  /\ i \in Ids /\ Due(rows[i], look[w]) /\ ~Locked(i)
           /\ look[w] + Lease \in Nat
  <1>1. i \in {j \in Ids : Due(rows[j], look[w]) /\ ~Locked(j)}
    BY DEF Claimable, MostUrgent
  <1>2. look[w] \in Nat /\ Lease \in Nat
    BY QueueAssumption DEF Shape, TypeOK, Actors, Lease
  <1> QED
    BY <1>1, <1>2

LEMMA LoopOutcome ==
    ASSUME Shape, NEW w \in Workers,
           Look(w) \/ Leave(w) \/ Claim(w) \/ ClaimNothing(w) \/ ClaimFails(w) \/ Seed(w)
    PROVE  Outcome
  <1> USE DEF Outcome
  <1>1. CASE Look(w) \/ Leave(w)
    BY <1>1 DEF Shape, TypeOK, Look, Leave, Still, NoneGets, NoneEnters
  <1>2. CASE Claim(w)
    <2>1. PICK i \in Claimable(w) :
              /\ rows' = [rows EXCEPT ![i] = Claimed(@, look[w] + Lease)]
              /\ tok' = [tok EXCEPT ![w] = Ticket(i)]
              /\ holder' = [holder EXCEPT ![i] = w]
      BY <1>2 DEF Claim
    <2>2. i \in Ids /\ Due(rows[i], look[w]) /\ ~Locked(i) /\ look[w] + Lease \in Nat
      BY ClaimableRow
    <2>3. \E t \in Nat : rows' = [rows EXCEPT ![i] = Claimed(rows[i], t)]
      BY <2>1, <2>2
    <2>4. NoneEnters
      <3>1. pc[w] = "claim" /\ Answered(w, TRUE)
        BY <1>2 DEF Claim
      <3>2. /\ \A v \in Workers \ {w} : pc'[v] = pc[v]
            /\ pc'[w] \in {"seed", "begin"}
        BY <3>1, AnsweredShape
      <3> QED
        BY <2>1, <3>2 DEF NoneEnters, Shape, TypeOK
    <2>5. UNCHANGED <<tainted, wrote>> /\ pc[w] = "claim"
      BY <1>2 DEF Claim
    <2>6. Marking(w, i)
      BY <2>2, <2>3, <2>4, <2>5 DEF Marking
    <2> QED
      BY <2>1, <2>2, <2>6 DEF Claiming
  <1>3. CASE ClaimNothing(w)
    <2>1. pc[w] = "claim" /\ Answered(w, FALSE) /\ UNCHANGED <<rows, tok, history>>
      BY <1>3 DEF ClaimNothing, history
    <2>2. /\ \A v \in Workers \ {w} : pc'[v] = pc[v]
          /\ pc'[w] \in {"seed", "idle"}
      BY <2>1, AnsweredShape
    <2> QED
      BY <2>1, <2>2 DEF Still, NoneGets, NoneEnters
  <1>4. CASE ClaimFails(w)
    <2>1. NoneEnters /\ UNCHANGED <<tok, tainted, wrote>> /\ pc[w] = "claim"
      BY <1>4 DEF ClaimFails, NoneEnters, Shape, TypeOK
    <2>2. CASE UNCHANGED <<rows, holder>>
      BY <2>1, <2>2 DEF Still, NoneGets, history
    <2>3. ASSUME NEW i \in Claimable(w),
                 rows' = [rows EXCEPT ![i] = Claimed(@, look[w] + Lease)],
                 holder' = [holder EXCEPT ![i] = NoWorker]
          PROVE  Outcome
      <3>1. i \in Ids /\ Due(rows[i], look[w]) /\ ~Locked(i) /\ look[w] + Lease \in Nat
        BY ClaimableRow
      <3>2. \E t \in Nat : rows' = [rows EXCEPT ![i] = Claimed(rows[i], t)]
        BY <2>3, <3>1
      <3>3. Marking(w, i)
        BY <2>1, <3>1, <3>2 DEF Marking
      <3> QED
        BY <2>1, <2>3, <3>1, <3>3 DEF Losing
    <2> QED
      BY <1>4, <2>2, <2>3 DEF ClaimFails
  <1>5. CASE Seed(w)
    <2>1. PICK k \in todo[w] : PushNext(w, k, Fails(w))
      BY <1>5 DEF Seed
    <2>2. k \in Kinds /\ w \in Actors
      BY QueueAssumption DEF Shape, TypeOK, Actors
    <2>3. Insert(k, ScheduleKey, look[w] + Period[k]) \/ UNCHANGED <<rows, history>>
      BY <2>1 DEF PushNext
    <2>4. UNCHANGED tok /\ NoneEnters
      BY <1>5 DEF Seed, NoneEnters, Shape, TypeOK
    <2> QED
      BY <2>2, <2>3, <2>4, PushNextOutcome
  <1> QED
    BY <1>1, <1>2, <1>3, <1>4, <1>5

(* The worker's own part of an answer: it goes on, or lets the claim go.   *)
LEMMA ReturnMoves ==
    ASSUME Shape, NEW w \in Workers, pc[w] # "idle", Return(w)
    PROVE  /\ NoneGets /\ NoneEnters /\ pc'[w] # pc[w] /\ tok'[w] = NoTok
           /\ pc'[w] # "commit"
  BY DEF Shape, TypeOK, Return, NoneGets, NoneEnters

LEMMA ThenNextMoves ==
    ASSUME Shape, NEW w \in Workers, pc[w] \in Acting, NEW t \in Nat, ThenNext(w, t)
    PROVE  NoneGets /\ NoneEnters /\ pc'[w] # pc[w] /\ pc'[w] # "commit"
  <1>1. CASE tok[w].kind \in Scheduled
    BY <1>1 DEF Shape, TypeOK, ThenNext, NoneGets, NoneEnters, Acting
  <1>2. CASE tok[w].kind \notin Scheduled
    BY <1>2, ReturnMoves DEF ThenNext, Acting
  <1> QED
    BY <1>1, <1>2

LEMMA GotoMoves ==
    ASSUME Shape, NEW w \in Workers, NEW step \in Steps \ {"commit"}, pc[w] # step, Goto(w, step)
    PROVE  NoneGets /\ NoneEnters /\ pc'[w] # pc[w] /\ pc'[w] # "commit"
  BY DEF Shape, TypeOK, Goto, NoneGets, NoneEnters

(* A fenced call is an answer, or leaves the table as it is.               *)
LEMMA SettleOutcome ==
    ASSUME Shape, NEW w \in Workers, pc[w] \in Acting \ {"commit"}, NEW row \in Row,
           Unlocked(w), UNCHANGED history,
           rows' = rows \/ (Mine(w) /\ Answer(w, row) /\ rows' = [rows EXCEPT ![tok[w].id] = row]),
           NoneGets, NoneEnters, pc'[w] # pc[w]
    PROVE  Still \/ Answering
  <1>1. tok[w] \in Token
    BY DEF Shape, Hands
  <1>2. CASE rows' = rows
    BY <1>2 DEF Still
  <1>3. CASE Mine(w) /\ Answer(w, row) /\ rows' = [rows EXCEPT ![tok[w].id] = row]
    BY <1>1, <1>3 DEF Answering
  <1> QED
    BY <1>2, <1>3

LEMMA ExecuteOutcome ==
    ASSUME Shape, NEW w \in Workers,
           \/ Begin(w) \/ Drop(w) \/ Unkey(w) \/ Chain(w) \/ ParseFails(w) \/ EndRun(w)
           \/ FinishDone(w) \/ FinishDead(w) \/ FinishRetry(w) \/ FinishRelease(w)
           \/ DoneIn(w) \/ Commit(w)
    PROVE  Outcome
  <1> USE DEF Outcome
  <1>a. /\ w \in Actors /\ now \in Nat /\ look[w] \in Nat
        /\ AfterFailure(w) \in {"dead", "retry"}
    BY QueueAssumption DEF Actors, Shape, TypeOK, AfterFailure
  <1>b. pc[w] \in Acting => tok[w] \in Token /\ MyRow(w) \in Row
    BY DEF Shape, Hands, TypeOK, Token, MyRow
  <1>1. CASE Begin(w)
    <2>1. FirstStep(w) # "commit"
      BY DEF FirstStep
    <2> QED
      BY <1>1, <2>1 DEF Begin, Shape, TypeOK, Still, NoneGets, NoneEnters
  <1>2. CASE Drop(w)
    <2>1. pc[w] = "drop" /\ Settle(w, Done(MyRow(w)), ThenNext(w, look[w]))
      BY <1>2 DEF Drop
    <2>2. Done(MyRow(w)) \in Row
      BY <1>a, <1>b, <2>1, RowCalls DEF Acting
    <2>3. Return(w) \/ ThenNext(w, look[w])
      BY <2>1 DEF Settle
    <2>4. NoneGets /\ NoneEnters /\ pc'[w] # pc[w]
      BY <1>a, <2>1, <2>3, ReturnMoves, ThenNextMoves DEF Acting, Steps
    <2>5. \/ rows' = rows
          \/ /\ Mine(w) /\ Answer(w, Done(MyRow(w)))
             /\ rows' = [rows EXCEPT ![tok[w].id] = Done(MyRow(w))]
      BY <2>1 DEF Settle, Answer
    <2>6. Unlocked(w) /\ UNCHANGED history
      BY <2>1 DEF Settle
    <2> QED
      BY <2>1, <2>2, <2>4, <2>5, <2>6, SettleOutcome DEF Acting
  <1>3. CASE Unkey(w)
    <2>1. pc[w] = "unkey" /\ Settle(w, Unkeyed(MyRow(w)), Goto(w, "chain"))
      BY <1>3 DEF Unkey
    <2>2. Unkeyed(MyRow(w)) \in Row
      BY <1>a, <1>b, <2>1, RowCalls DEF Acting
    <2>3. Return(w) \/ Goto(w, "chain")
      BY <2>1 DEF Settle
    <2>4. NoneGets /\ NoneEnters /\ pc'[w] # pc[w]
      BY <1>a, <2>1, <2>3, ReturnMoves, GotoMoves DEF Acting, Steps
    <2>5. \/ rows' = rows
          \/ /\ Mine(w) /\ Answer(w, Unkeyed(MyRow(w)))
             /\ rows' = [rows EXCEPT ![tok[w].id] = Unkeyed(MyRow(w))]
      BY <2>1 DEF Settle, Answer
    <2>6. Unlocked(w) /\ UNCHANGED history
      BY <2>1 DEF Settle
    <2> QED
      BY <2>1, <2>2, <2>4, <2>5, <2>6, SettleOutcome DEF Acting
  <1>4. CASE Chain(w)
    <2>1. tok[w].kind \in Kinds
      BY <1>b, <1>4 DEF Chain, Acting, Token
    <2>2. Insert(tok[w].kind, ScheduleKey, look[w] + Period[tok[w].kind])
              \/ UNCHANGED <<rows, history>>
      BY <1>4 DEF Chain, PushNext
    <2>3. UNCHANGED tok /\ NoneEnters
      BY <1>4 DEF Chain, NoneEnters, Shape, TypeOK
    <2> QED
      BY <1>a, <2>1, <2>2, <2>3, PushNextOutcome
  <1>5. CASE ParseFails(w)
    <2>1. PICK step \in {"dead", "retry"} : Goto(w, step)
      BY <1>a, <1>5 DEF ParseFails
    <2>2. pc[w] = "run" /\ UNCHANGED <<rows, history>>
      BY <1>5 DEF ParseFails
    <2>3. NoneGets /\ NoneEnters
      BY <2>1, <2>2, GotoMoves DEF Steps
    <2> QED
      BY <2>2, <2>3 DEF Still
  <1>6. CASE EndRun(w)
    <2>1. PICK step \in Endings(w) : pc' = [pc EXCEPT ![w] = step]
      BY <1>6 DEF EndRun
    <2>2. step # "commit"
      BY <1>a, <2>1 DEF Endings
    <2> QED
      BY <1>6, <2>1, <2>2 DEF EndRun, Shape, TypeOK, Still, NoneGets, NoneEnters
  <1>7. CASE FinishDone(w)
    <2>1. pc[w] = "done" /\ Settle(w, Done(MyRow(w)), ThenNext(w, now))
      BY <1>7 DEF FinishDone
    <2>2. Done(MyRow(w)) \in Row
      BY <1>a, <1>b, <2>1, RowCalls DEF Acting
    <2>3. Return(w) \/ ThenNext(w, now)
      BY <2>1 DEF Settle
    <2>4. NoneGets /\ NoneEnters /\ pc'[w] # pc[w]
      BY <1>a, <2>1, <2>3, ReturnMoves, ThenNextMoves DEF Acting, Steps
    <2>5. \/ rows' = rows
          \/ /\ Mine(w) /\ Answer(w, Done(MyRow(w)))
             /\ rows' = [rows EXCEPT ![tok[w].id] = Done(MyRow(w))]
      BY <2>1 DEF Settle, Answer
    <2>6. Unlocked(w) /\ UNCHANGED history
      BY <2>1 DEF Settle
    <2> QED
      BY <2>1, <2>2, <2>4, <2>5, <2>6, SettleOutcome DEF Acting
  <1>8. CASE FinishDead(w)
    <2>1. pc[w] = "dead" /\ Settle(w, Dead(MyRow(w)), ThenNext(w, now))
      BY <1>8 DEF FinishDead
    <2>2. Dead(MyRow(w)) \in Row
      BY <1>a, <1>b, <2>1, RowCalls DEF Acting
    <2>3. Return(w) \/ ThenNext(w, now)
      BY <2>1 DEF Settle
    <2>4. NoneGets /\ NoneEnters /\ pc'[w] # pc[w]
      BY <1>a, <2>1, <2>3, ReturnMoves, ThenNextMoves DEF Acting, Steps
    <2>5. \/ rows' = rows
          \/ /\ Mine(w) /\ Answer(w, Dead(MyRow(w)))
             /\ rows' = [rows EXCEPT ![tok[w].id] = Dead(MyRow(w))]
      BY <2>1 DEF Settle, Answer
    <2>6. Unlocked(w) /\ UNCHANGED history
      BY <2>1 DEF Settle
    <2> QED
      BY <2>1, <2>2, <2>4, <2>5, <2>6, SettleOutcome DEF Acting
  <1>9. CASE FinishRetry(w)
    <2>1. PICK d \in Delays[tok[w].kind] : Settle(w, Retried(MyRow(w), now + d), Return(w))
      BY <1>9 DEF FinishRetry
    <2>2. pc[w] = "retry" /\ now + d \in Nat
      BY <1>9, <1>a, <1>b, QueueAssumption DEF FinishRetry, Acting, Token
    <2>3. Retried(MyRow(w), now + d) \in Row
      BY <1>b, <2>2, RowCalls DEF Acting
    <2>4. NoneGets /\ NoneEnters /\ pc'[w] # pc[w] /\ tok'[w] = NoTok
      BY <2>1, <2>2, ReturnMoves DEF Settle
    <2>5. Answer(w, Retried(MyRow(w), now + d))
      BY <2>2, <2>4 DEF Answer
    <2>6. /\ rows' = rows \/ (Mine(w) /\ rows' = [rows EXCEPT ![tok[w].id] = Retried(MyRow(w), now + d)])
          /\ Unlocked(w) /\ UNCHANGED history
      BY <2>1 DEF Settle
    <2> QED
      BY <2>2, <2>3, <2>4, <2>5, <2>6, SettleOutcome DEF Acting
  <1>10. CASE FinishRelease(w)
    <2>1. pc[w] = "release" /\ Settle(w, Released(MyRow(w)), Return(w))
      BY <1>10 DEF FinishRelease
    <2>2. Mine(w) => Released(MyRow(w)) \in Row
      <3>1. Mine(w) => MyRow(w).attempts > 0
        BY <1>b, <2>1 DEF MyRow, Mine, Held, Token, Acting
      <3> QED
        BY <1>a, <1>b, <2>1, <3>1, RowCalls DEF Acting
    <2>3. NoneGets /\ NoneEnters /\ pc'[w] # pc[w] /\ tok'[w] = NoTok
      BY <2>1, ReturnMoves DEF Settle
    <2>4. Answer(w, Released(MyRow(w)))
      BY <2>3 DEF Answer
    <2>5. /\ rows' = rows \/ (Mine(w) /\ rows' = [rows EXCEPT ![tok[w].id] = Released(MyRow(w))])
          /\ Unlocked(w) /\ UNCHANGED history
      BY <2>1 DEF Settle
    <2>6. CASE Mine(w)
      BY <2>1, <2>2, <2>3, <2>4, <2>5, <2>6, SettleOutcome DEF Acting
    <2>7. CASE rows' = rows
      BY <2>3, <2>5, <2>7 DEF Still
    <2> QED
      BY <2>5, <2>6, <2>7
  <1>11. CASE DoneIn(w)
    <2>1. pc[w] = "doneIn" /\ Unlocked(w) /\ UNCHANGED <<rows, history>>
      BY <1>11 DEF DoneIn
    <2>2. CASE Mine(w) /\ Goto(w, "commit")
      BY <1>b, <2>1, <2>2 DEF Goto, Entering, Acting
    <2>3. CASE Return(w)
      BY <2>1, <2>3, ReturnMoves DEF Still
    <2>4. CASE Goto(w, AfterFailure(w))
      BY <1>a, <2>1, <2>4, GotoMoves DEF Still, Steps
    <2> QED
      BY <1>11, <2>2, <2>3, <2>4 DEF DoneIn
  <1>12. CASE Commit(w)
    <2>1. pc[w] = "commit" /\ UNCHANGED <<holder, tainted>> /\ tok[w] \in Token
      BY <1>12, <1>b DEF Commit, Acting
    <2>2. CASE ThenNext(w, now) /\ Land(w)
      BY <1>a, <2>1, <2>2, ThenNextMoves DEF Landing, Acting
    <2>3. CASE Goto(w, AfterFailure(w)) /\ Land(w)
      BY <1>a, <2>1, <2>3, GotoMoves DEF Landing, Steps
    <2>4. CASE Goto(w, AfterFailure(w)) /\ UNCHANGED <<rows, wrote>>
      BY <1>a, <2>1, <2>4, GotoMoves DEF Still, Steps, history
    <2> QED
      BY <1>12, <2>2, <2>3, <2>4 DEF Commit
  <1> QED
    BY <1>1, <1>2, <1>3, <1>4, <1>5, <1>6, <1>7, <1>8, <1>9, <1>10, <1>11, <1>12

(* Every step is one of these.                                             *)
LEMMA NextOutcome ==
    ASSUME Shape, [Next]_vars
    PROVE  Outcome
  <1>1. CASE UNCHANGED vars
    BY <1>1 DEF vars, history, Outcome, Still, NoneGets, NoneEnters
  <1>2. CASE Next
    BY <1>2, ProgramOutcome, ProcOutcome, LoopOutcome, ExecuteOutcome DEF Next, WorkerStep
  <1> QED
    BY <1>1, <1>2

-----------------------------------------------------------------------------
(* What an answer keeps of its row, whatever it is.                        *)
LEMMA AnswerFields ==
    ASSUME Shape, NEW w \in Workers, tok[w] \in Token, NEW r \in Row, Answer(w, r), Mine(w)
    PROVE  /\ tok[w].id \in Ids /\ rows[tok[w].id] \in Row
           /\ rows[tok[w].id].state = "running"
           /\ rows[tok[w].id].attempts = tok[w].attempts
           /\ r.kind = rows[tok[w].id].kind
           /\ r.key = NoKey \/ (r.key = rows[tok[w].id].key /\ r.state = "queued")
           /\ r.state # "absent"
           /\ r.state = "done" => pc[w] \in {"done", "drop"}
           /\ r.state = "running" => pc[w] = "unkey"
           /\ r.attempts = rows[tok[w].id].attempts
                \/ (tok'[w] = NoTok /\ r.state = "queued" /\ r.attempts = rows[tok[w].id].attempts - 1)
  <1>1. tok[w].id \in Ids /\ rows[tok[w].id] \in Row /\ MyRow(w) = rows[tok[w].id]
    BY DEF Token, Shape, TypeOK, MyRow
  <1>2. /\ rows[tok[w].id].state = "running" /\ rows[tok[w].id].attempts = tok[w].attempts
        /\ tok[w].attempts \in Nat /\ tok[w].attempts > 0
    BY DEF Mine, Held, Token
  <1>3. CASE pc[w] \in {"done", "drop"} /\ r = Done(MyRow(w))
    BY <1>1, <1>2, <1>3, RowFields
  <1>4. CASE pc[w] = "dead" /\ r = Dead(MyRow(w))
    BY <1>1, <1>2, <1>4, RowFields
  <1>5. CASE pc[w] = "unkey" /\ r = Unkeyed(MyRow(w))
    BY <1>1, <1>2, <1>5, RowFields
  <1>6. CASE tok'[w] = NoTok /\ r = Released(MyRow(w))
    BY <1>1, <1>2, <1>6, RowFields
  <1>7. ASSUME NEW t \in Nat, tok'[w] = NoTok, r = Retried(MyRow(w), t)
        PROVE  /\ r.kind = rows[tok[w].id].kind
               /\ r.key = rows[tok[w].id].key /\ r.state = "queued"
               /\ r.attempts = rows[tok[w].id].attempts
    BY <1>1, <1>7, RowFields
  <1> QED
    BY <1>1, <1>2, <1>3, <1>4, <1>5, <1>6, <1>7 DEF Answer

LEMMA MarkFields ==
    ASSUME Shape, NEW w \in Workers, NEW i \in Ids, Marking(w, i)
    PROVE  /\ \A j \in Ids \ {i} : rows'[j] = rows[j]
           /\ rows[i] \in Row /\ Live(rows[i])
           /\ rows'[i].kind = rows[i].kind /\ rows'[i].key = rows[i].key
           /\ rows'[i].state = "running" /\ rows'[i].attempts = rows[i].attempts + 1
  <1>1. PICK t \in Nat : rows' = [rows EXCEPT ![i] = Claimed(rows[i], t)]
    BY DEF Marking
  <1>2. rows[i] \in Row /\ rows \in [Ids -> Row]
    BY DEF Shape, TypeOK
  <1>3. Live(rows[i])
    BY DEF Marking, Due, Live
  <1> QED
    BY <1>1, <1>2, <1>3, RowFields

-----------------------------------------------------------------------------
(* Unique keys.                                                            *)
LEMMA KeysKept ==
    ASSUME KeyNamesOneLiveRow,
           \A i \in Ids : \/ rows'[i].key = NoKey
                          \/ rows'[i] = rows[i]
                          \/ /\ rows'[i].key = rows[i].key /\ rows'[i].kind = rows[i].kind
                             /\ Live(rows'[i])
    PROVE  KeyNamesOneLiveRow'
  BY DEF KeyNamesOneLiveRow, Live

LEMMA KeyStep ==
    ASSUME Shape, KeyNamesOneLiveRow, Outcome
    PROVE  KeyNamesOneLiveRow'
  <1>1. CASE Still \/ Entering
    BY <1>1, KeysKept DEF Still, Entering
  <1>2. CASE Adding
    <2>0. PICK k \in Kinds, u \in Keys \cup {NoKey}, t \in Nat, i \in NewId : Add(k, u, t, i)
      BY <1>2 DEF Adding
    <2>1. ~KeyTaken(rows, k, u) /\ rows' = [rows EXCEPT ![i] = Queued(k, u, t)]
      BY <2>0 DEF Add
    <2>2. i \in Ids
      BY NewIdUnused
    <2>3. /\ \A j \in Ids \ {i} : rows'[j] = rows[j]
          /\ rows'[i].key = u /\ rows'[i].kind = k /\ rows'[i].state = "queued"
      BY <2>1, <2>2 DEF Queued, Shape, TypeOK
    <2>4. u # NoKey => \A j \in Ids : ~(rows[j].kind = k /\ rows[j].key = u)
      BY <2>1 DEF KeyTaken
    <2> QED
      BY <2>2, <2>3, <2>4 DEF KeyNamesOneLiveRow, Live
  <1>3. ASSUME NEW w \in Workers, NEW i \in Ids, Marking(w, i)
        PROVE  KeyNamesOneLiveRow'
    BY <1>3, MarkFields, KeysKept DEF Live
  <1>4. CASE Answering
    <2>1. PICK w \in Workers, r \in Row :
            /\ tok[w] \in Token /\ Mine(w) /\ Answer(w, r)
            /\ rows' = [rows EXCEPT ![tok[w].id] = r]
      BY <1>4 DEF Answering
    <2>2. /\ tok[w].id \in Ids /\ r.kind = rows[tok[w].id].kind
          /\ r.key = NoKey \/ (r.key = rows[tok[w].id].key /\ r.state = "queued")
      BY <2>1, AnswerFields
    <2>3. rows'[tok[w].id] = r /\ \A j \in Ids \ {tok[w].id} : rows'[j] = rows[j]
      BY <2>1, <2>2 DEF Shape, TypeOK
    <2> QED
      BY <2>2, <2>3, KeysKept DEF Live
  <1>5. CASE Landing
    <2>1. PICK w \in Workers : tok[w] \in Token /\ Land(w)
      BY <1>5 DEF Landing
    <2>2. tok[w].id \in Ids
      BY <2>1 DEF Token
    <2>3. /\ rows'[tok[w].id].key = NoKey
          /\ \A j \in Ids \ {tok[w].id} : rows'[j] = rows[j]
      BY <2>1, <2>2, RowFields DEF Land, Shape, TypeOK
    <2> QED
      BY <2>3, KeysKept
  <1>6. CASE Deleting
    BY <1>6, KeysKept DEF Deleting, Absent
  <1>7. CASE Reviving
    <2>1. PICK i \in Ids : RetryDead(i)
      BY <1>7 DEF Reviving
    <2>2. now \in Nat /\ rows \in [Ids -> Row]
      BY DEF Shape, TypeOK
    <2>3. rows'[i].key = rows[i].key /\ \A j \in Ids \ {i} : rows'[j] = rows[j]
      BY <2>1, <2>2, RowFields DEF RetryDead
    <2>4. rows[i].key = NoKey
      BY <2>1 DEF RetryDead, KeyNamesOneLiveRow, Live
    <2> QED
      BY <2>3, <2>4, KeysKept
  <1> QED
    BY <1>1, <1>2, <1>3, <1>4, <1>5, <1>6, <1>7 DEF Outcome, Claiming, Losing

(* Open transactions.                                                      *)
LEMMA CommitsKept ==
    ASSUME Commits, NoneEnters,
           \A w \in Workers : pc[w] = "commit" /\ pc'[w] = "commit" =>
                rows'[tok[w].id] = rows[tok[w].id]
    PROVE  Commits'
  BY DEF Commits, NoneEnters, Mine, Held

LEMMA CommitsStep ==
    ASSUME Shape, Commits, Outcome
    PROVE  Commits'
  <1>0. /\ rows \in [Ids -> Row] /\ pc \in [Workers -> Steps]
        /\ \A w \in Workers : pc[w] = "commit" => tok[w] \in Token /\ tok[w].id \in Ids
                                                   /\ rows[tok[w].id].state = "running"
    BY DEF Shape, TypeOK, Hands, Acting, Token, Commits, Mine, Held
  <1>1. CASE Still
    BY <1>1, CommitsKept DEF Still
  <1>2. CASE Adding
    <2>0. PICK k \in Kinds, u \in Keys \cup {NoKey}, t \in Nat, i \in NewId : Add(k, u, t, i)
      BY <1>2 DEF Adding
    <2>1. rows' = [rows EXCEPT ![i] = Queued(k, u, t)] /\ NoneEnters
      BY <2>0 DEF Add
    <2>2. i \in Ids /\ \A w \in Workers : tok[w].id # i
      BY NewIdUnused
    <2> QED
      BY <1>0, <2>1, <2>2, CommitsKept
  <1>3. ASSUME NEW w \in Workers, NEW i \in Ids, Marking(w, i)
        PROVE  Commits'
    <2>1. NoneEnters /\ ~Locked(i) /\ \A j \in Ids \ {i} : rows'[j] = rows[j]
      BY <1>3, MarkFields DEF Marking
    <2> QED
      BY <1>0, <2>1, CommitsKept DEF Locked
  <1>4. CASE Answering
    <2>1. PICK w \in Workers, r \in Row :
            /\ tok[w] \in Token /\ Mine(w) /\ Unlocked(w) /\ pc[w] # "commit"
            /\ rows' = [rows EXCEPT ![tok[w].id] = r]
      BY <1>4 DEF Answering
    <2>2. \A v \in Workers : pc[v] = "commit" => tok[v].id # tok[w].id
      BY <2>1 DEF Unlocked
    <2> QED
      BY <1>0, <1>4, <2>1, <2>2, CommitsKept DEF Answering
  <1>5. CASE Entering
    <2>1. PICK w \in Workers :
            /\ tok[w] \in Token /\ Mine(w) /\ Unlocked(w)
            /\ pc' = [pc EXCEPT ![w] = "commit"]
            /\ UNCHANGED <<rows, tok, history>>
      BY <1>5 DEF Entering
    <2>2. \A v \in Workers \ {w} : pc[v] = "commit" => tok[v].id # tok[w].id
      BY <2>1 DEF Unlocked
    <2> QED
      BY <1>0, <2>1, <2>2 DEF Commits, Mine, Held
  <1>6. CASE Landing
    <2>1. PICK w \in Workers :
            /\ tok[w] \in Token /\ pc[w] = "commit" /\ pc'[w] # "commit" /\ Land(w)
      BY <1>6 DEF Landing
    <2>2. \A v \in Workers : pc[v] = "commit" /\ pc'[v] = "commit" => tok[v].id # tok[w].id
      BY <2>1 DEF Commits
    <2>3. \A j \in Ids \ {tok[w].id} : rows'[j] = rows[j]
      BY <1>0, <2>1 DEF Land
    <2> QED
      BY <1>0, <1>6, <2>2, <2>3, CommitsKept DEF Landing
  <1>7. CASE Deleting
    BY <1>0, <1>7, CommitsKept DEF Deleting
  <1>8. CASE Reviving
    <2>1. PICK i \in Ids : RetryDead(i)
      BY <1>8 DEF Reviving
    <2>2. NoneEnters /\ rows[i].state = "dead" /\ \A j \in Ids \ {i} : rows'[j] = rows[j]
      BY <1>0, <2>1 DEF RetryDead, NoneEnters
    <2> QED
      BY <1>0, <2>2, CommitsKept
  <1> QED
    BY <1>1, <1>2, <1>3, <1>4, <1>5, <1>6, <1>7, <1>8 DEF Outcome, Claiming, Losing

(* The kind a claim remembers.                                             *)
LEMMA KindStep ==
    ASSUME Shape, Commits, KindKept, Outcome
    PROVE  KindKept'
  <1>0. /\ rows \in [Ids -> Row] /\ tok \in [Workers -> Token \cup {NoTok}]
        /\ \A w \in Workers : tok[w] # NoTok => tok[w].id \in Ids
    BY DEF Shape, TypeOK, Token
  <1>1. CASE Still
    BY <1>1 DEF Still, KindKept, NoneGets
  <1>2. CASE Adding
    <2>0. PICK k \in Kinds, u \in Keys \cup {NoKey}, t \in Nat, i \in NewId : Add(k, u, t, i)
      BY <1>2 DEF Adding
    <2>1. rows' = [rows EXCEPT ![i] = Queued(k, u, t)] /\ tok' = tok
      BY <2>0 DEF Add
    <2>2. i \in Ids /\ \A w \in Workers : tok[w].id # i
      BY NewIdUnused
    <2> QED
      BY <1>0, <2>1, <2>2 DEF KindKept
  <1>3. ASSUME NEW w \in Workers, NEW i \in Ids, Marking(w, i),
               \A v \in Workers \ {w} : tok'[v] = tok[v],
               tok'[w] = tok[w] \/ tok'[w] = Ticket(i)
        PROVE  KindKept'
    <2>1. /\ \A j \in Ids \ {i} : rows'[j] = rows[j]
          /\ Live(rows[i]) /\ rows'[i].kind = rows[i].kind
      BY <1>3, MarkFields
    <2>2. Ticket(i).id = i /\ Ticket(i).kind = rows[i].kind
      BY DEF Ticket
    <2> QED
      BY <1>0, <1>3, <2>1, <2>2 DEF KindKept, Live
  <1>4. CASE Answering
    <2>1. PICK w \in Workers, r \in Row :
            /\ tok[w] \in Token /\ Mine(w) /\ Answer(w, r)
            /\ rows' = [rows EXCEPT ![tok[w].id] = r] /\ NoneGets
      BY <1>4 DEF Answering
    <2>2. /\ tok[w].id \in Ids /\ r.kind = rows[tok[w].id].kind
          /\ rows[tok[w].id].state = "running"
      BY <2>1, AnswerFields
    <2>3. rows'[tok[w].id] = r /\ \A j \in Ids \ {tok[w].id} : rows'[j] = rows[j]
      BY <1>0, <2>1, <2>2
    <2> QED
      BY <1>0, <2>1, <2>2, <2>3 DEF KindKept, NoneGets
  <1>5. CASE Entering
    BY <1>5 DEF Entering, KindKept
  <1>6. CASE Landing
    <2>1. PICK w \in Workers : tok[w] \in Token /\ pc[w] = "commit" /\ Land(w) /\ NoneGets
      BY <1>6 DEF Landing
    <2>2. tok[w].id \in Ids /\ rows[tok[w].id].state = "running"
      BY <2>1 DEF Token, Commits, Mine, Held
    <2>3. /\ rows'[tok[w].id].kind = rows[tok[w].id].kind
          /\ \A j \in Ids \ {tok[w].id} : rows'[j] = rows[j]
      BY <1>0, <2>1, <2>2, RowFields DEF Land
    <2> QED
      BY <1>0, <2>1, <2>2, <2>3 DEF KindKept, NoneGets
  <1>7. CASE Deleting
    BY <1>0, <1>7 DEF Deleting, Absent, KindKept
  <1>8. CASE Reviving
    <2>1. PICK i \in Ids : RetryDead(i)
      BY <1>8 DEF Reviving
    <2>2. now \in Nat
      BY DEF Shape, TypeOK
    <2>3. /\ rows'[i].kind = rows[i].kind /\ \A j \in Ids \ {i} : rows'[j] = rows[j]
          /\ rows[i].state = "dead" /\ tok' = tok
      BY <1>0, <2>1, <2>2, RowFields DEF RetryDead
    <2> QED
      BY <1>0, <2>3 DEF KindKept
  <1>9. CASE Claiming
    BY <1>0, <1>3, <1>9 DEF Claiming
  <1>10. CASE Losing
    BY <1>3, <1>10 DEF Losing
  <1> QED
    BY <1>1, <1>2, <1>4, <1>5, <1>6, <1>7, <1>8, <1>9, <1>10 DEF Outcome

(* The fence.                                                              *)
LEMMA FenceHolder ==
    ASSUME Shape, Fence, NEW w \in Workers, tok[w] # NoTok, ~tainted[tok[w].id], Mine(w)
    PROVE  holder[tok[w].id] = w
  <1>1. tok[w] \in Token /\ rows[tok[w].id].attempts = tok[w].attempts
        /\ rows[tok[w].id].state = "running" /\ tok[w].attempts \in Nat
    BY DEF Shape, TypeOK, Mine, Held, Token
  <1> QED
    BY <1>1 DEF Fence

LEMMA FenceStep ==
    ASSUME Shape, Commits, Fence, Outcome
    PROVE  Fence'
  <1>0. /\ rows \in [Ids -> Row] /\ tok \in [Workers -> Token \cup {NoTok}]
        /\ holder \in [Ids -> Workers \cup {NoWorker}] /\ tainted \in [Ids -> BOOLEAN]
        /\ \A w \in Workers : tok[w] # NoTok => tok[w].id \in Ids /\ tok[w].attempts \in Nat
        /\ \A i \in Ids : rows[i].attempts \in Nat
    BY DEF Shape, TypeOK, Token, Row
  <1>1. CASE Still
    BY <1>1 DEF Still, Fence, NoneGets, history
  <1>2. CASE Adding
    <2>0. PICK k \in Kinds, u \in Keys \cup {NoKey}, t \in Nat, i \in NewId : Add(k, u, t, i)
      BY <1>2 DEF Adding
    <2>1. /\ rows' = [rows EXCEPT ![i] = Queued(k, u, t)] /\ tok' = tok
          /\ holder' = [holder EXCEPT ![i] = NoWorker]
          /\ tainted' = [tainted EXCEPT ![i] = FALSE]
      BY <2>0 DEF Add
    <2>2. i \in Ids /\ \A w \in Workers : tok[w].id # i
      BY NewIdUnused
    <2> QED
      BY <1>0, <2>1, <2>2 DEF Fence
  <1>3. ASSUME NEW w \in Workers, NEW i \in Ids, Marking(w, i), NEW h \in {w, NoWorker},
               holder' = [holder EXCEPT ![i] = h],
               \A v \in Workers \ {w} : tok'[v] = tok[v],
               (tok'[w] = tok[w]) \/ (h = w /\ tok'[w] = Ticket(i))
        PROVE  Fence'
    <2>1. /\ \A j \in Ids \ {i} : rows'[j] = rows[j]
          /\ Live(rows[i]) /\ rows'[i].attempts = rows[i].attempts + 1
          /\ rows'[i].state = "running" /\ tainted' = tainted
      BY <1>3, MarkFields DEF Marking
    <2>2. Ticket(i).id = i /\ Ticket(i).attempts = rows[i].attempts + 1
      BY DEF Ticket
    <2>3. SUFFICES ASSUME NEW v \in Workers, tok'[v] # NoTok, ~tainted'[tok'[v].id],
                          rows'[tok'[v].id].state # "absent"
                   PROVE  /\ tok'[v].attempts <= rows'[tok'[v].id].attempts
                          /\ rows'[tok'[v].id].state = "running" /\ holder'[tok'[v].id] # v =>
                                tok'[v].attempts < rows'[tok'[v].id].attempts
      BY DEF Fence
    <2>4. CASE tok'[v] = tok[v] /\ tok[v].id # i
      BY <1>0, <1>3, <2>1, <2>3, <2>4 DEF Fence
    <2>5. CASE tok'[v] = tok[v] /\ tok[v].id = i
      <3>1. tok[v].attempts <= rows[i].attempts
        BY <2>1, <2>3, <2>5 DEF Fence, Live
      <3> QED
        BY <1>0, <2>1, <2>3, <2>5, <3>1
    <2>6. CASE v = w /\ h = w /\ tok'[w] = Ticket(i)
      BY <1>0, <1>3, <2>1, <2>2, <2>6
    <2> QED
      BY <1>3, <2>4, <2>5, <2>6
  <1>4. CASE Answering
    <2>1. PICK w \in Workers, r \in Row :
            /\ tok[w] \in Token /\ Mine(w) /\ Answer(w, r)
            /\ rows' = [rows EXCEPT ![tok[w].id] = r] /\ NoneGets
            /\ UNCHANGED history
      BY <1>4 DEF Answering
    <2>2. /\ tok[w].id \in Ids /\ rows[tok[w].id].state = "running"
          /\ rows[tok[w].id].attempts = tok[w].attempts
          /\ r.attempts = rows[tok[w].id].attempts
                \/ (tok'[w] = NoTok /\ r.state = "queued" /\ r.attempts = rows[tok[w].id].attempts - 1)
      BY <2>1, AnswerFields
    <2>3. rows'[tok[w].id] = r /\ \A j \in Ids \ {tok[w].id} : rows'[j] = rows[j]
      BY <1>0, <2>1, <2>2
    <2>4. SUFFICES ASSUME NEW v \in Workers, tok'[v] # NoTok, ~tainted'[tok'[v].id],
                          rows'[tok'[v].id].state # "absent"
                   PROVE  /\ tok'[v].attempts <= rows'[tok'[v].id].attempts
                          /\ rows'[tok'[v].id].state = "running" /\ holder'[tok'[v].id] # v =>
                                tok'[v].attempts < rows'[tok'[v].id].attempts
      BY DEF Fence
    <2>5. tok'[v] = tok[v] /\ tok[v].id \in Ids /\ holder' = holder /\ tainted' = tainted
      BY <1>0, <2>1, <2>4 DEF NoneGets, history
    <2>6. CASE tok[v].id # tok[w].id
      BY <1>0, <2>3, <2>4, <2>5, <2>6 DEF Fence
    <2>7. CASE tok[v].id = tok[w].id /\ r.attempts = rows[tok[w].id].attempts
      BY <1>0, <2>2, <2>3, <2>4, <2>5, <2>7 DEF Fence
    <2>8. CASE /\ tok[v].id = tok[w].id /\ tok'[w] = NoTok /\ r.state = "queued"
               /\ r.attempts = rows[tok[w].id].attempts - 1
      <3>1. v # w
        BY <2>4, <2>8
      <3>2. w \in Workers /\ tok[w] # NoTok /\ holder[tok[w].id] = w
        <4>1. tok[w] # NoTok
          BY <2>1, QueueAssumption DEF Token, NoTok
        <4> QED
          BY <2>1, <2>4, <2>5, <2>8, <4>1, FenceHolder
      <3>3. tok[v].attempts < rows[tok[w].id].attempts
        BY <2>2, <2>4, <2>5, <2>8, <3>1, <3>2 DEF Fence
      <3> QED
        BY <1>0, <2>2, <2>3, <2>4, <2>5, <2>8, <3>3
    <2> QED
      BY <2>2, <2>6, <2>7, <2>8
  <1>5. CASE Entering
    BY <1>5 DEF Entering, Fence, history
  <1>6. CASE Landing
    <2>1. PICK w \in Workers : /\ tok[w] \in Token /\ pc[w] = "commit" /\ Land(w) /\ NoneGets
                               /\ UNCHANGED <<holder, tainted>>
      BY <1>6 DEF Landing
    <2>2. tok[w].id \in Ids /\ rows[tok[w].id].state = "running"
      BY <2>1 DEF Token, Commits, Mine, Held
    <2>3. /\ rows'[tok[w].id].attempts = rows[tok[w].id].attempts
          /\ rows'[tok[w].id].state = "done"
          /\ \A j \in Ids \ {tok[w].id} : rows'[j] = rows[j]
      BY <1>0, <2>1, <2>2, RowFields DEF Land
    <2> QED
      BY <1>0, <2>1, <2>2, <2>3 DEF Fence, NoneGets
  <1>7. CASE Deleting
    BY <1>0, <1>7 DEF Deleting, Absent, Fence, history
  <1>8. CASE Reviving
    <2>1. PICK i \in Ids : RetryDead(i)
      BY <1>8 DEF Reviving
    <2>2. /\ \A j \in Ids \ {i} : rows'[j] = rows[j] /\ tainted'[j] = tainted[j]
          /\ tok' = tok /\ holder' = holder
          /\ (\E v \in Workers : tok[v].id = i) => tainted'[i] = TRUE
      BY <1>0, <2>1 DEF RetryDead
    <2> QED
      BY <1>0, <2>2 DEF Fence
  <1>9. CASE Claiming
    BY <1>0, <1>3, <1>9 DEF Claiming
  <1>10. CASE Losing
    BY <1>3, <1>10 DEF Losing
  <1> QED
    BY <1>1, <1>2, <1>4, <1>5, <1>6, <1>7, <1>8, <1>9, <1>10 DEF Outcome

(* The ticks of a kind that skips.                                         *)
LEMMA TicksStep ==
    ASSUME Shape, Fitting, KindKept, Ticks, Outcome
    PROVE  Ticks'
  <1>0. /\ rows \in [Ids -> Row] /\ tok \in [Workers -> Token \cup {NoTok}] /\ now \in Nat
    BY DEF Shape, TypeOK
  <1>1. CASE Still \/ Entering
    BY <1>1 DEF Still, Entering, Ticks
  <1>2. CASE Adding
    <2>0. PICK k \in Kinds, u \in Keys \cup {NoKey}, t \in Nat, i \in NewId : Add(k, u, t, i)
      BY <1>2 DEF Adding
    <2>1. rows' = [rows EXCEPT ![i] = Queued(k, u, t)] /\ (u = ScheduleKey \/ k \in UserKinds)
      BY <2>0 DEF Add
    <2>2. i \in Ids /\ Queued(k, u, t).kind = k /\ Queued(k, u, t).key = u
      BY NewIdUnused DEF Queued
    <2> QED
      BY <1>0, <2>1, <2>2 DEF Ticks
  <1>3. ASSUME NEW w \in Workers, NEW i \in Ids, Marking(w, i)
        PROVE  Ticks'
    BY <1>3, MarkFields DEF Ticks
  <1>4. CASE Answering
    <2>1. PICK w \in Workers, r \in Row :
            /\ tok[w] \in Token /\ Mine(w) /\ Answer(w, r)
            /\ rows' = [rows EXCEPT ![tok[w].id] = r]
      BY <1>4 DEF Answering
    <2>2. /\ tok[w].id \in Ids /\ rows[tok[w].id].state = "running"
          /\ r.kind = rows[tok[w].id].kind
          /\ r.key = NoKey \/ (r.key = rows[tok[w].id].key /\ r.state = "queued")
          /\ r.state = "running" => pc[w] = "unkey"
          /\ r.state = "queued" => r.key = rows[tok[w].id].key
      <3>1. r.state = "queued" => r.key = rows[tok[w].id].key
        <4>1. tok[w].id \in Ids /\ rows[tok[w].id] \in Row /\ MyRow(w) = rows[tok[w].id]
              /\ rows[tok[w].id].state = "running"
          BY <1>0, <2>1 DEF Token, MyRow, Mine, Held
        <4> QED
          BY <2>1, <4>1, RowFields DEF Answer
      <3> QED
        BY <2>1, <3>1, AnswerFields
    <2>3. rows'[tok[w].id] = r /\ \A j \in Ids \ {tok[w].id} : rows'[j] = rows[j]
      BY <1>0, <2>1, <2>2
    <2>4. tok[w].kind = rows[tok[w].id].kind
      <3>1. tok[w] # NoTok
        BY <2>1, QueueAssumption DEF Token, NoTok
      <3> QED
        BY <2>2, <3>1 DEF KindKept
    <2>5. pc[w] = "unkey" => r.kind \in Overlapping
      BY <2>2, <2>4 DEF Fitting
    <2> QED
      BY <2>2, <2>3, <2>5 DEF Ticks, Live
  <1>5. CASE Landing
    <2>1. PICK w \in Workers : tok[w] \in Token /\ Land(w)
      BY <1>5 DEF Landing
    <2>2. tok[w].id \in Ids
      BY <2>1 DEF Token
    <2>3. /\ rows'[tok[w].id].state = "done"
          /\ \A j \in Ids \ {tok[w].id} : rows'[j] = rows[j]
      BY <1>0, <2>1, <2>2, RowFields DEF Land
    <2> QED
      BY <2>2, <2>3 DEF Ticks, Live
  <1>6. CASE Deleting
    BY <1>0, <1>6 DEF Deleting, Absent, Ticks, Live
  <1>7. CASE Reviving
    <2>1. PICK i \in Ids : RetryDead(i)
      BY <1>7 DEF Reviving
    <2>2. /\ rows'[i].kind = rows[i].kind /\ rows[i].kind \notin Scheduled
          /\ \A j \in Ids \ {i} : rows'[j] = rows[j]
      BY <1>0, <2>1, RowFields DEF RetryDead
    <2> QED
      BY <2>2 DEF Ticks
  <1> QED
    BY <1>1, <1>2, <1>3, <1>4, <1>5, <1>6, <1>7 DEF Outcome, Claiming, Losing

(* The writes of a transactional run.                                      *)
LEMMA LandedStep ==
    ASSUME Shape, Fitting, Commits, KindKept, Landed, Outcome
    PROVE  Landed'
  <1>0. /\ rows \in [Ids -> Row] /\ tok \in [Workers -> Token \cup {NoTok}] /\ now \in Nat
        /\ wrote \in [Ids -> Nat]
    BY DEF Shape, TypeOK
  <1>1. CASE Still \/ Entering
    BY <1>1 DEF Still, Entering, Landed, history
  <1>2. CASE Adding
    <2>0. PICK k \in Kinds, u \in Keys \cup {NoKey}, t \in Nat, i \in NewId : Add(k, u, t, i)
      BY <1>2 DEF Adding
    <2>1. rows' = [rows EXCEPT ![i] = Queued(k, u, t)] /\ wrote' = [wrote EXCEPT ![i] = 0]
      BY <2>0 DEF Add
    <2>2. i \in Ids /\ Queued(k, u, t).state = "queued"
      BY NewIdUnused DEF Queued
    <2> QED
      BY <1>0, <2>1, <2>2 DEF Landed
  <1>3. ASSUME NEW w \in Workers, NEW i \in Ids, Marking(w, i)
        PROVE  Landed'
    <2>1. UNCHANGED wrote
      BY <1>3 DEF Marking
    <2> QED
      BY <1>3, <2>1, MarkFields DEF Landed, Live
  <1>4. CASE Answering
    <2>1. PICK w \in Workers, r \in Row :
            /\ tok[w] \in Token /\ Mine(w) /\ Answer(w, r)
            /\ rows' = [rows EXCEPT ![tok[w].id] = r] /\ wrote' = wrote
      BY <1>4 DEF Answering, history
    <2>2. /\ tok[w].id \in Ids /\ rows[tok[w].id].state = "running"
          /\ r.kind = rows[tok[w].id].kind /\ r.state # "absent"
          /\ r.state = "done" => pc[w] \in {"done", "drop"}
      BY <2>1, AnswerFields
    <2>3. rows'[tok[w].id] = r /\ \A j \in Ids \ {tok[w].id} : rows'[j] = rows[j]
      BY <1>0, <2>1, <2>2
    <2>4. tok[w].kind = rows[tok[w].id].kind
      <3>1. tok[w] # NoTok
        BY <2>1, QueueAssumption DEF Token, NoTok
      <3> QED
        BY <2>2, <3>1 DEF KindKept
    <2>5. r.state = "done" => r.kind \notin Transactional \ Dropping
      BY <2>2, <2>4 DEF Fitting
    <2> QED
      BY <2>1, <2>2, <2>3, <2>5 DEF Landed
  <1>5. CASE Landing
    <2>1. PICK w \in Workers : tok[w] \in Token /\ pc[w] = "commit" /\ Land(w)
      BY <1>5 DEF Landing
    <2>2. tok[w].id \in Ids /\ rows[tok[w].id].state = "running"
      BY <2>1 DEF Token, Commits, Mine, Held
    <2>3. wrote[tok[w].id] = 0
      BY <2>2 DEF Landed
    <2>4. /\ rows'[tok[w].id].state = "done" /\ wrote'[tok[w].id] = 1
          /\ \A j \in Ids \ {tok[w].id} : rows'[j] = rows[j] /\ wrote'[j] = wrote[j]
      BY <1>0, <2>1, <2>2, <2>3, RowFields DEF Land
    <2> QED
      BY <2>2, <2>4 DEF Landed
  <1>6. CASE Deleting
    BY <1>0, <1>6 DEF Deleting, Absent, Landed, history
  <1>7. CASE Reviving
    <2>1. PICK i \in Ids : RetryDead(i)
      BY <1>7 DEF Reviving
    <2>2. /\ rows'[i].state = "queued" /\ rows[i].state = "dead" /\ wrote' = wrote
          /\ \A j \in Ids \ {i} : rows'[j] = rows[j]
      BY <1>0, <2>1, RowFields DEF RetryDead
    <2> QED
      BY <2>2 DEF Landed
  <1> QED
    BY <1>1, <1>2, <1>3, <1>4, <1>5, <1>6, <1>7 DEF Outcome, Claiming, Losing

-----------------------------------------------------------------------------
(* The way through executeKind, and the clock.                             *)
Ways == {"drop", "unkey", "done"}

LEMMA FittingKept ==
    ASSUME Fitting,
           \A v \in Workers : pc'[v] \in Ways => pc'[v] = pc[v] /\ tok'[v] = tok[v]
    PROVE  Fitting'
  BY DEF Fitting, Ways

LEMMA ReturnFits ==
    ASSUME Shape, Fitting, NEW w \in Workers, Return(w)
    PROVE  Fitting'
  <1>1. \A v \in Workers : pc'[v] \in Ways => pc'[v] = pc[v] /\ tok'[v] = tok[v]
    BY DEF Shape, TypeOK, Return, Ways
  <1> QED
    BY <1>1, FittingKept

LEMMA GotoFits ==
    ASSUME Shape, Fitting, NEW w \in Workers, NEW step \in Steps \ Ways, Goto(w, step)
    PROVE  Fitting'
  <1>1. \A v \in Workers : pc'[v] \in Ways => pc'[v] = pc[v] /\ tok'[v] = tok[v]
    BY DEF Shape, TypeOK, Goto, Ways
  <1> QED
    BY <1>1, FittingKept

LEMMA ThenNextFits ==
    ASSUME Shape, Fitting, NEW w \in Workers, NEW t \in Nat, ThenNext(w, t)
    PROVE  Fitting'
  <1>1. CASE tok[w].kind \in Scheduled
    <2>1. \A v \in Workers : pc'[v] \in Ways => pc'[v] = pc[v] /\ tok'[v] = tok[v]
      BY <1>1 DEF Shape, TypeOK, ThenNext, Ways
    <2> QED
      BY <2>1, FittingKept
  <1>2. CASE tok[w].kind \notin Scheduled
    BY <1>2, ReturnFits DEF ThenNext
  <1> QED
    BY <1>1, <1>2

LEMMA FittingStep ==
    ASSUME Shape, Fitting, [Next]_vars
    PROVE  Fitting'
  <1>0. pc \in [Workers -> Steps] /\ tok \in [Workers -> Token \cup {NoTok}] /\ now \in Nat
        /\ \A w \in Workers : look[w] \in Nat
    BY DEF Shape, TypeOK, Actors
  <1>1. CASE UNCHANGED vars \/ Tick \/ Program
    <2>1. pc' = pc /\ tok' = tok
      BY <1>1 DEF vars, Tick, Program, Push, Cancel, RetryDead, Sweep, SweepDead, Delete
    <2> QED
      BY <2>1 DEF Fitting
  <1>2. ASSUME NEW p \in Procs, Serve(p) \/ ProcStep(p) \/ Shutdown(p) \/ Crash(p)
        PROVE  Fitting'
    <2>1. \A v \in Workers : pc'[v] \in Ways => pc'[v] = pc[v] /\ tok'[v] = tok[v]
      <3>1. CASE Serve(p) \/ SeedFirst(p) \/ Exit(p) \/ Shutdown(p)
        BY <3>1 DEF Serve, SeedFirst, Exit, Shutdown
      <3>2. CASE StartWorkers(p)
        BY <3>2 DEF StartWorkers, Ways
      <3>3. CASE Crash(p)
        BY <3>3 DEF Crash, Ways
      <3> QED
        BY <1>2, <3>1, <3>2, <3>3 DEF ProcStep
    <2> QED
      BY <2>1, FittingKept
  <1>3. ASSUME NEW w \in Workers, WorkerStep(w)
        PROVE  Fitting'
    <2>0. AfterFailure(w) \in {"dead", "retry"}
      BY DEF AfterFailure
    <2>1. CASE Look(w) \/ Leave(w) \/ ClaimFails(w) \/ Seed(w) \/ Chain(w)
      <3>1. \A v \in Workers : pc'[v] \in Ways => pc'[v] = pc[v] /\ tok'[v] = tok[v]
        BY <1>0, <2>1 DEF Look, Leave, ClaimFails, Seed, Chain, Ways
      <3> QED
        BY <3>1, FittingKept
    <2>2. CASE Claim(w) \/ ClaimNothing(w)
      <3>1. PICK claimed \in BOOLEAN : Answered(w, claimed)
        BY <2>2 DEF Claim, ClaimNothing
      <3>2. pc[w] = "claim" /\ \A v \in Workers \ {w} : tok'[v] = tok[v]
        BY <1>0, <2>2 DEF Claim, ClaimNothing
      <3>3. /\ \A v \in Workers \ {w} : pc'[v] = pc[v]
            /\ pc'[w] \in {"seed", IF claimed THEN "begin" ELSE "idle"}
        BY <3>1, <3>2, AnsweredShape
      <3> QED
        BY <3>2, <3>3, FittingKept DEF Ways
    <2>3. CASE Begin(w)
      <3>1. /\ FirstStep(w) = "drop" => tok[w].kind \in Dropping
            /\ FirstStep(w) = "unkey" => tok[w].kind \in Overlapping
            /\ FirstStep(w) # "done"
        BY DEF FirstStep, Missed
      <3> QED
        BY <1>0, <2>3, <3>1 DEF Begin, Fitting
    <2>4. CASE EndRun(w)
      <3>1. PICK step \in Endings(w) : pc' = [pc EXCEPT ![w] = step]
        BY <2>4 DEF EndRun
      <3>2. step \notin {"drop", "unkey"} /\ (step = "done" => tok[w].kind \notin Transactional)
        BY <2>0, <3>1 DEF Endings
      <3> QED
        BY <1>0, <2>4, <3>1, <3>2 DEF EndRun, Fitting
    <2>5. CASE ParseFails(w)
      <3>1. PICK step \in {"dead", "retry"} : Goto(w, step)
        BY <2>0, <2>5 DEF ParseFails
      <3> QED
        BY <3>1, GotoFits DEF Steps, Ways
    <2>6. CASE Drop(w) \/ FinishDone(w) \/ FinishDead(w)
      <3>1. Return(w) \/ \E t \in Nat : ThenNext(w, t)
        BY <1>0, <2>6 DEF Drop, FinishDone, FinishDead, Settle
      <3> QED
        BY <3>1, ReturnFits, ThenNextFits
    <2>7. CASE Unkey(w)
      <3>1. Return(w) \/ Goto(w, "chain")
        BY <2>7 DEF Unkey, Settle
      <3> QED
        BY <3>1, ReturnFits, GotoFits DEF Steps, Ways
    <2>8. CASE FinishRetry(w) \/ FinishRelease(w)
      <3>1. Return(w)
        BY <2>8 DEF FinishRetry, FinishRelease, Settle
      <3> QED
        BY <3>1, ReturnFits
    <2>9. CASE DoneIn(w) \/ Commit(w)
      <3>1. \/ Return(w) \/ ThenNext(w, now)
            \/ \E step \in {"commit", "dead", "retry"} : Goto(w, step)
        BY <2>0, <2>9 DEF DoneIn, Commit
      <3> QED
        BY <1>0, <3>1, ReturnFits, ThenNextFits, GotoFits DEF Steps, Ways
    <2> QED
      BY <1>3, <2>1, <2>2, <2>3, <2>4, <2>5, <2>6, <2>7, <2>8, <2>9 DEF WorkerStep
  <1> QED
    BY <1>1, <1>2, <1>3 DEF Next

LEMMA PastStep ==
    ASSUME Shape, Past, [Next]_vars
    PROVE  Past'
  <1>0. now \in Nat /\ look \in [Actors -> Nat] /\ Workers \subseteq Actors
    BY DEF Shape, TypeOK, Actors
  <1> DEFINE Reads == \A a \in Actors : look'[a] = look[a] \/ look'[a] = 0 \/ look'[a] = now
  <1>1. CASE Tick
    BY <1>0, <1>1 DEF Tick, Past
  <1>2. ASSUME Reads, now' = now
        PROVE  Past'
    BY <1>0, <1>2 DEF Past
  <1>3. CASE UNCHANGED vars \/ Program
    <2>1. look' = look /\ now' = now
      BY <1>3 DEF vars, Program, Push, Cancel, RetryDead, Sweep, SweepDead, Delete
    <2> QED
      BY <1>2, <2>1
  <1>4. ASSUME NEW p \in Procs, Serve(p) \/ ProcStep(p) \/ Shutdown(p) \/ Crash(p)
        PROVE  Past'
    <2>1. Reads /\ now' = now
      BY <1>0, <1>4 DEF Serve, ProcStep, SeedFirst, StartWorkers, Exit, Shutdown, Crash
    <2> QED
      BY <1>2, <2>1
  <1>5. ASSUME NEW w \in Workers, WorkerStep(w)
        PROVE  Past'
    <2>1. CASE \/ Look(w) \/ Leave(w) \/ ClaimFails(w) \/ Seed(w) \/ Begin(w)
               \/ Chain(w) \/ ParseFails(w) \/ EndRun(w)
      <3>1. Reads /\ now' = now
        BY <1>0, <2>1 DEF Look, Leave, ClaimFails, Seed, Begin, Chain, ParseFails, EndRun, Goto
      <3> QED
        BY <1>2, <3>1
    <2>2. CASE Claim(w) \/ ClaimNothing(w)
      <3>1. Reads /\ now' = now
        BY <1>0, <2>2 DEF Claim, ClaimNothing, Answered
      <3> QED
        BY <1>2, <3>1
    <2>3. CASE \/ Drop(w) \/ Unkey(w) \/ FinishDone(w) \/ FinishDead(w) \/ FinishRetry(w)
               \/ FinishRelease(w) \/ DoneIn(w) \/ Commit(w)
      <3>1. /\ now' = now
            /\ \/ Return(w) \/ ThenNext(w, now) \/ ThenNext(w, look[w])
               \/ \E step \in Steps : Goto(w, step)
        BY <2>3 DEF Drop, Unkey, FinishDone, FinishDead, FinishRetry, FinishRelease, DoneIn,
                    Commit, Settle, Steps, AfterFailure
      <3>2. Reads
        BY <1>0, <3>1 DEF Return, ThenNext, Goto
      <3> QED
        BY <1>2, <3>1, <3>2
    <2> QED
      BY <1>5, <2>1, <2>2, <2>3 DEF WorkerStep
  <1> QED
    BY <1>1, <1>3, <1>4, <1>5 DEF Next

-----------------------------------------------------------------------------
LEMMA InitSafe == Init => Safe
  <1> SUFFICES ASSUME Init PROVE Safe
    OBVIOUS
  <1>1. Shape
    BY InitShape
  <1>2. Past /\ Fitting /\ Commits /\ KindKept /\ Fence
    BY DEF Init, Past, Fitting, Commits, KindKept, Fence
  <1>3. KeyNamesOneLiveRow /\ Ticks /\ Landed
    BY DEF Init, KeyNamesOneLiveRow, Ticks, Landed, Live, Absent
  <1> QED
    BY <1>1, <1>2, <1>3 DEF Safe

LEMMA NextSafe == Safe /\ [Next]_vars => Safe'
  <1> SUFFICES ASSUME Safe, [Next]_vars PROVE Safe'
    OBVIOUS
  <1>1. Outcome
    BY NextOutcome DEF Safe
  <1>2. Shape' /\ Past' /\ Fitting'
    BY NextShape, PastStep, FittingStep DEF Safe
  <1>3. Commits' /\ KindKept' /\ Fence'
    BY <1>1, CommitsStep, KindStep, FenceStep DEF Safe
  <1>4. KeyNamesOneLiveRow' /\ Ticks' /\ Landed'
    BY <1>1, KeyStep, TicksStep, LandedStep DEF Safe
  <1> QED
    BY <1>2, <1>3, <1>4 DEF Safe

LEMMA SafeHolds == Spec => []Safe
  BY InitSafe, NextSafe, PTL DEF Spec

(* push, unkey, done, dead and the re-seed between them never leave two    *)
(* rows of a kind under one unique key, nor a key on a row that has ended. *)
THEOREM KeysAreUnique == Spec => []KeyNamesOneLiveRow
  <1>1. Safe => KeyNamesOneLiveRow
    BY DEF Safe
  <1> QED
    BY <1>1, SafeHolds, PTL

(* The fence the store's calls carry, state running and the attempt of the *)
(* claim, lets through the last claim's worker alone, for any number of    *)
(* workers, lapsed leases, releases and lost answers: as long as the row   *)
(* was not revived by retryDead with a claim of it still out.              *)
THEOREM FenceLetsOneThrough == Spec => []FenceIsExact
  <1>1. Safe => FenceIsExact
    BY FenceHolder DEF Safe, FenceIsExact
  <1> QED
    BY <1>1, SafeHolds, PTL

(* The writes of a run that takes a *Tx land at most once, and exactly     *)
(* when the row is done, whatever lapses, crashes or errs around the       *)
(* commit of completeIn.                                                   *)
THEOREM WritesLandOnce == Spec => []WritesLandOnceWithDone
  <1>1. Safe => WritesLandOnceWithDone
    <2> SUFFICES ASSUME Safe, NEW i \in Ids
                 PROVE  /\ wrote[i] <= 1
                        /\ rows[i].kind \in Transactional \ Dropping =>
                              (wrote[i] = 1 <=> rows[i].state = "done")
      BY DEF WritesLandOnceWithDone
    <2>1. wrote[i] \in {0, 1} /\ (wrote[i] = 1 => rows[i].state \in {"done", "absent"})
          /\ (rows[i].kind \in Transactional \ Dropping /\ rows[i].state = "done" => wrote[i] = 1)
      BY DEF Safe, Landed
    <2>2. rows[i].state = "absent" => rows[i].kind \notin Transactional
      BY QueueAssumption, StoreAssumption DEF Safe, Landed
    <2> QED
      BY <2>1, <2>2
  <1> QED
    BY <1>1, SafeHolds, PTL

(* A kind with overlap = .skip never has two ticks queued or running.      *)
THEOREM SkipHolds == Spec => []SkipNeverOverlaps
  <1>1. Safe => SkipNeverOverlaps
    <2> SUFFICES ASSUME Safe, NEW i \in Ids, NEW j \in Ids, Live(rows[i]), Live(rows[j]),
                        rows[i].kind = rows[j].kind,
                        rows[i].kind \in Scheduled \ (Overlapping \cup UserKinds)
                 PROVE  i = j
      BY DEF SkipNeverOverlaps
    <2>1. rows[i].key = ScheduleKey /\ rows[j].key = ScheduleKey
      BY DEF Safe, Ticks
    <2>2. ScheduleKey # NoKey
      BY QueueAssumption, StoreAssumption
    <2> QED
      BY <2>1, <2>2 DEF Safe, KeyNamesOneLiveRow
  <1> QED
    BY <1>1, SafeHolds, PTL

(* While the lease of a claim runs, only the worker that made the claim    *)
(* changes the row: a claim goes by a moment that has come, an answer is   *)
(* fenced, and a commit holds the row.                                     *)
THEOREM LeaseHolds == Spec => LeaseIsRespected
  <1> DEFINE Kept == \A i \in Ids :
                        /\ rows[i].state = "running" /\ rows[i].lease_until > now /\ ~tainted[i]
                        /\ rows'[i] # rows[i]
                        => \E w \in Workers :
                              holder[i] = w /\ tok[w].id = i /\ pc'[w] # pc[w]
  <1>1. Safe /\ [Next]_vars => Kept
    <2> SUFFICES ASSUME Safe, [Next]_vars, NEW i \in Ids,
                        rows[i].state = "running", rows[i].lease_until > now, ~tainted[i],
                        rows'[i] # rows[i]
                 PROVE  \E w \in Workers : holder[i] = w /\ tok[w].id = i /\ pc'[w] # pc[w]
      OBVIOUS
    <2>0. /\ rows \in [Ids -> Row] /\ now \in Nat /\ Outcome
          /\ \A w \in Workers : look[w] \in Nat /\ look[w] <= now
          /\ \A w \in Workers : tok[w] \in Token => tok[w].id \in Ids /\ tok[w] # NoTok
      BY NextOutcome, QueueAssumption DEF Safe, Shape, TypeOK, Past, Actors, Token, NoTok
    <2>1. CASE Still \/ Entering
      BY <2>1 DEF Still, Entering
    <2>2. CASE Adding
      <3>1. PICK k \in Kinds, u \in Keys \cup {NoKey}, t \in Nat, j \in NewId : Add(k, u, t, j)
        BY <2>2 DEF Adding
      <3>2. j # i
        BY NewIdUnused
      <3> QED
        BY <2>0, <3>1, <3>2, NewIdUnused DEF Add
    <2>3. ASSUME NEW w \in Workers, NEW j \in Ids, Marking(w, j)
          PROVE  FALSE
      <3>1. j = i
        BY <2>3, MarkFields DEF Safe
      <3>2. rows[i].lease_until <= look[w]
        BY <2>3, <3>1 DEF Marking, Due
      <3>3. rows[i].lease_until \in Nat
        BY <2>0 DEF Row
      <3> QED
        BY <2>0, <3>2, <3>3
    <2>4. CASE Answering
      <3>1. PICK w \in Workers, r \in Row :
              /\ tok[w] \in Token /\ Mine(w) /\ pc'[w] # pc[w]
              /\ rows' = [rows EXCEPT ![tok[w].id] = r]
        BY <2>4 DEF Answering
      <3>2. tok[w].id = i
        BY <2>0, <3>1
      <3> QED
        BY <2>0, <3>1, <3>2, FenceHolder DEF Safe
    <2>5. CASE Landing
      <3>1. PICK w \in Workers :
              tok[w] \in Token /\ pc[w] = "commit" /\ pc'[w] # "commit" /\ Land(w)
        BY <2>5 DEF Landing
      <3>2. tok[w].id = i
        BY <2>0, <3>1 DEF Land
      <3>3. Mine(w)
        BY <3>1 DEF Safe, Commits
      <3> QED
        BY <2>0, <3>1, <3>2, <3>3, FenceHolder DEF Safe
    <2>6. CASE Deleting
      BY <2>0, <2>6 DEF Deleting
    <2>7. CASE Reviving
      BY <2>0, <2>7 DEF Reviving, RetryDead
    <2> QED
      BY <2>0, <2>1, <2>2, <2>3, <2>4, <2>5, <2>6, <2>7 DEF Outcome, Claiming, Losing
  <1>2. Spec => [][Kept]_vars
    BY <1>1, SafeHolds, PTL DEF Spec
  <1> QED
    BY <1>2, PTL DEF LeaseIsRespected
=============================================================================
