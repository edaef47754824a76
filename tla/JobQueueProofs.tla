--------------------------- MODULE JobQueueProofs ---------------------------
(***************************************************************************)
(* Theorems about JobQueue, for any number of processes, workers, rows,    *)
(* kinds and keys, and whatever the bounds.                                *)
(***************************************************************************)
EXTENDS JobQueue, TLAPS

(* The steps in which a worker has a row in its hand.                      *)
Acting == {"begin", "unkey", "chain", "run", "done", "drop", "doneIn", "commit",
           "retry", "dead", "release"}

(* A worker between two claims has nothing in its hand, and one that acts  *)
(* has a claim.                                                            *)
Hands ==
    \A w \in Workers :
        /\ pc[w] \in {"off", "idle", "claim"} => tok[w] = NoTok
        /\ pc[w] \in Acting => tok[w] \in Token

(* The workers of a process start after its seed and are gone before it.   *)
Offline ==
    \A w \in Workers : proc[ProcOf[w]] \in {"down", "seeding"} => pc[w] = "off"

(* A row that may still be claimed is of a kind the program has.           *)
Known ==
    \A i \in Ids : rows[i].state \in {"queued", "running", "dead"} => rows[i].kind \in Kinds

Shape == TypeOK /\ Hands /\ Offline /\ Known

-----------------------------------------------------------------------------
(* What the calls of the store make of a row is a row.                     *)
LEMMA RowCalls ==
    ASSUME NEW r \in Row, NEW t \in Nat
    PROVE  /\ Claimed(r, t) \in Row /\ Done(r) \in Row /\ Retried(r, t) \in Row
           /\ Dead(r) \in Row /\ Unkeyed(r) \in Row
           /\ r.attempts > 0 => Released(r) \in Row
           /\ Revived(r, t) \in Row /\ Absent \in Row
  <1>0. /\ r.attempts \in Nat /\ r.attempts + 1 \in Nat
        /\ r.attempts > 0 => r.attempts - 1 \in Nat
    BY DEF Row
  <1>1. Claimed(r, t) \in Row
    BY <1>0 DEF Row, States, Claimed
  <1>2. Done(r) \in Row
    BY DEF Row, States, Done
  <1>3. Retried(r, t) \in Row
    BY DEF Row, States, Retried
  <1>4. Dead(r) \in Row
    BY DEF Row, States, Dead
  <1>5. Unkeyed(r) \in Row
    BY DEF Row, States, Unkeyed
  <1>6. r.attempts > 0 => Released(r) \in Row
    BY <1>0 DEF Row, States, Released
  <1>7. Revived(r, t) \in Row
    BY DEF Row, States, Revived
  <1>8. Absent \in Row
    BY DEF Row, States, Absent
  <1> QED
    BY <1>1, <1>2, <1>3, <1>4, <1>5, <1>6, <1>7, <1>8

LEMMA QueuedRow ==
    ASSUME NEW k \in Kinds, NEW u \in Keys \cup {NoKey}, NEW t \in Nat
    PROVE  Queued(k, u, t) \in Row
  BY DEF Row, States, Queued

(* Which fields a call keeps.                                              *)
LEMMA RowFields ==
    ASSUME NEW r \in Row, NEW t \in Nat
    PROVE  /\ Claimed(r, t).kind = r.kind /\ Claimed(r, t).key = r.key
           /\ Claimed(r, t).state = "running" /\ Claimed(r, t).attempts = r.attempts + 1
           /\ Done(r).kind = r.kind /\ Done(r).key = NoKey /\ Done(r).state = "done"
           /\ Dead(r).kind = r.kind /\ Dead(r).key = NoKey /\ Dead(r).state = "dead"
           /\ Dead(r).attempts = r.attempts /\ Done(r).attempts = r.attempts
           /\ Retried(r, t).kind = r.kind /\ Retried(r, t).key = r.key
           /\ Retried(r, t).state = "queued" /\ Retried(r, t).attempts = r.attempts
           /\ Unkeyed(r).kind = r.kind /\ Unkeyed(r).key = NoKey
           /\ Unkeyed(r).state = r.state /\ Unkeyed(r).attempts = r.attempts
           /\ Released(r).kind = r.kind /\ Released(r).key = r.key
           /\ Released(r).state = "queued"
           /\ Released(r).attempts = r.attempts - 1
           /\ Revived(r, t).kind = r.kind /\ Revived(r, t).key = r.key
           /\ Revived(r, t).state = "queued" /\ Revived(r, t).attempts = 0
           /\ Absent.kind = NoKind /\ Absent.key = NoKey /\ Absent.state = "absent"
  BY DEF Row, Claimed, Done, Retried, Dead, Unkeyed, Released, Revived, Absent

(* A new row is one nobody refers to.                                      *)
LEMMA NewIdUnused ==
    ASSUME NEW i \in NewId
    PROVE  i \in Ids /\ rows[i].state = "absent" /\ \A w \in Workers : tok[w].id # i
  BY DEF NewId, Unused

(* An insert adds one row to the table or leaves it as it was.             *)
LEMMA InsertShape ==
    ASSUME TypeOK, Known, NEW k \in Kinds, NEW u \in Keys \cup {NoKey}, NEW t \in Nat,
           Insert(k, u, t)
    PROVE  /\ rows' \in [Ids -> Row] /\ holder' \in [Ids -> Workers \cup {NoWorker}]
           /\ tainted' \in [Ids -> BOOLEAN] /\ wrote' \in [Ids -> Nat]
           /\ Known'
  <1>1. CASE UNCHANGED <<rows, history>>
    BY <1>1 DEF TypeOK, Known, history
  <1>2. CASE \E i \in NewId :
                /\ rows' = [rows EXCEPT ![i] = Queued(k, u, t)]
                /\ holder' = [holder EXCEPT ![i] = NoWorker]
                /\ tainted' = [tainted EXCEPT ![i] = FALSE]
                /\ wrote' = [wrote EXCEPT ![i] = 0]
    <2>1. PICK i \in NewId :
                /\ rows' = [rows EXCEPT ![i] = Queued(k, u, t)]
                /\ holder' = [holder EXCEPT ![i] = NoWorker]
                /\ tainted' = [tainted EXCEPT ![i] = FALSE]
                /\ wrote' = [wrote EXCEPT ![i] = 0]
      BY <1>2
    <2>2. i \in Ids
      BY NewIdUnused
    <2>3. Queued(k, u, t) \in Row /\ Queued(k, u, t).kind = k
      BY QueuedRow DEF Queued
    <2> QED
      BY <2>1, <2>2, <2>3 DEF TypeOK, Known
  <1> QED
    BY <1>1, <1>2 DEF Insert

-----------------------------------------------------------------------------
(* The budgets stay within their bounds.                                   *)
LEMMA SpendType ==
    ASSUME TypeOK, NEW what \in {"push", "fault", "stop", "revive"}, Spend(what)
    PROVE  budget' \in Budgets
  <1>1. /\ budget.push \in 0..MaxPushes /\ budget.fault \in 0..MaxFaults
        /\ budget.stop \in 0..MaxStops /\ budget.revive \in 0..MaxRevivals
        /\ MaxPushes \in Nat /\ MaxFaults \in Nat /\ MaxStops \in Nat /\ MaxRevivals \in Nat
    BY QueueAssumption DEF TypeOK, Budgets
  <1>2. CASE what = "push"
    <2>1. budget.push - 1 \in 0..MaxPushes
      BY <1>1, <1>2 DEF Spend
    <2> QED
      BY <1>2, <2>1 DEF Spend, TypeOK, Budgets
  <1>3. CASE what = "fault"
    <2>1. budget.fault - 1 \in 0..MaxFaults
      BY <1>1, <1>3 DEF Spend
    <2> QED
      BY <1>3, <2>1 DEF Spend, TypeOK, Budgets
  <1>4. CASE what = "stop"
    <2>1. budget.stop - 1 \in 0..MaxStops
      BY <1>1, <1>4 DEF Spend
    <2> QED
      BY <1>4, <2>1 DEF Spend, TypeOK, Budgets
  <1>5. CASE what = "revive"
    <2>1. budget.revive - 1 \in 0..MaxRevivals
      BY <1>1, <1>5 DEF Spend
    <2> QED
      BY <1>5, <2>1 DEF Spend, TypeOK, Budgets
  <1> QED
    BY <1>2, <1>3, <1>4, <1>5

LEMMA FailsType ==
    ASSUME TypeOK, NEW w \in Workers, Fails(w) \/ Faulted
    PROVE  budget' \in Budgets
  BY SpendType DEF Fails, Faulted, CutOff, TypeOK

(* A step of the program keeps the shape.                                  *)
LEMMA ProgramShape ==
    ASSUME Shape, Tick \/ Program
    PROVE  Shape'
  <1>1. CASE Tick
    <2>1. now' \in 0..MaxTime
      BY <1>1, QueueAssumption DEF Shape, TypeOK, Tick
    <2> QED
      BY <1>1, <2>1 DEF Shape, TypeOK, Hands, Offline, Known, Tick, history
  <1>2. ASSUME NEW k \in UserKinds, NEW u \in (Keys \ {ScheduleKey}) \cup {NoKey}, NEW d \in Waits,
               Push(k, u, d)
        PROVE  Shape'
    <2>1. k \in Kinds /\ u \in Keys \cup {NoKey} /\ now + d \in Nat /\ Insert(k, u, now + d)
      BY <1>2, QueueAssumption DEF Push, Shape, TypeOK
    <2>2. /\ rows' \in [Ids -> Row] /\ holder' \in [Ids -> Workers \cup {NoWorker}]
          /\ tainted' \in [Ids -> BOOLEAN] /\ wrote' \in [Ids -> Nat]
          /\ Known'
      BY <2>1, InsertShape DEF Shape
    <2>3. budget' \in Budgets
      BY <1>2, SpendType DEF Push, Shape
    <2> QED
      BY <1>2, <2>2, <2>3 DEF Push, Shape, TypeOK, Hands, Offline
  <1>3. ASSUME NEW i \in Ids, Cancel(i)
        PROVE  Shape'
    <2>1. rows' \in [Ids -> Row] /\ Known'
      BY <1>3, RowCalls DEF Shape, TypeOK, Known, Cancel, Absent
    <2> QED
      BY <1>3, <2>1 DEF Shape, TypeOK, Hands, Offline, Cancel, history
  <1>4. ASSUME NEW i \in Ids, RetryDead(i)
        PROVE  Shape'
    <2>1. now \in Nat /\ rows[i] \in Row
      BY DEF Shape, TypeOK
    <2>2. Revived(rows[i], now) \in Row /\ Revived(rows[i], now).kind = rows[i].kind
      BY <2>1, RowCalls, RowFields
    <2>3. rows' \in [Ids -> Row] /\ Known'
      BY <1>4, <2>2 DEF Shape, TypeOK, Known, RetryDead
    <2>4. budget' \in Budgets
      BY <1>4, SpendType DEF RetryDead, Shape
    <2>5. tainted' \in [Ids -> BOOLEAN]
      BY <1>4 DEF Shape, TypeOK, RetryDead
    <2> QED
      BY <1>4, <2>3, <2>4, <2>5 DEF Shape, TypeOK, Hands, Offline, RetryDead
  <1>5. ASSUME NEW state \in {"done", "dead"}, Delete(state)
        PROVE  Shape'
    <2>1. PICK S \in SUBSET {i \in Ids : rows[i].state = state} :
                rows' = [i \in Ids |-> IF i \in S THEN Absent ELSE rows[i]]
      BY <1>5 DEF Delete
    <2>2. rows' \in [Ids -> Row] /\ Known'
      BY <2>1, RowCalls DEF Shape, TypeOK, Known, Absent
    <2> QED
      BY <1>5, <2>2 DEF Shape, TypeOK, Hands, Offline, Delete, history
  <1> QED
    BY <1>1, <1>2, <1>3, <1>4, <1>5 DEF Program, Sweep, SweepDead

(* pushNext keeps the shape of the table.                                  *)
LEMMA PushNextShape ==
    ASSUME Shape, NEW a \in Actors, NEW k \in Kinds,
           \/ Insert(k, ScheduleKey, look[a] + Period[k])
           \/ UNCHANGED <<rows, history>>
    PROVE  /\ rows' \in [Ids -> Row] /\ holder' \in [Ids -> Workers \cup {NoWorker}]
           /\ tainted' \in [Ids -> BOOLEAN] /\ wrote' \in [Ids -> Nat]
           /\ Known'
  <1>1. ScheduleKey \in Keys \cup {NoKey} /\ look[a] + Period[k] \in Nat
    BY QueueAssumption DEF Shape, TypeOK
  <1>2. CASE Insert(k, ScheduleKey, look[a] + Period[k])
    BY <1>1, <1>2, InsertShape DEF Shape
  <1>3. CASE UNCHANGED <<rows, history>>
    BY <1>3 DEF Shape, TypeOK, Known, history
  <1> QED
    BY <1>2, <1>3

(* Starting, stopping and losing a process keeps the shape.                *)
LEMMA ProcShape ==
    ASSUME Shape, NEW p \in Procs, Serve(p) \/ ProcStep(p) \/ Shutdown(p) \/ Crash(p)
    PROVE  Shape'
  <1> USE DEF Shape
  <1>0. p \in Actors /\ Workers \subseteq Actors /\ ProcOf \in [Workers -> Procs]
        /\ Workers \cap Procs = {} /\ Scheduled \subseteq Kinds
    BY QueueAssumption DEF Actors
  <1>1. CASE Serve(p)
    <2>1. now \in Nat
      BY QueueAssumption DEF TypeOK
    <2> QED
      BY <1>0, <1>1, <2>1 DEF TypeOK, Hands, Offline, Known, Serve, history, ProcStates
  <1>2. CASE SeedFirst(p)
    <2>1. PICK k \in todo[p] : PushNext(p, k, Faulted) /\ todo' = [todo EXCEPT ![p] = @ \ {k}]
      BY <1>2 DEF SeedFirst
    <2>2. k \in Kinds
      BY <1>0, QueueAssumption DEF TypeOK
    <2>3. Insert(k, ScheduleKey, look[p] + Period[k]) \/ UNCHANGED <<rows, history>>
      BY <2>1 DEF PushNext
    <2>4. budget' \in Budgets
      BY <2>1, SpendType DEF PushNext, Faulted, TypeOK
    <2>5. /\ rows' \in [Ids -> Row] /\ holder' \in [Ids -> Workers \cup {NoWorker}]
          /\ tainted' \in [Ids -> BOOLEAN] /\ wrote' \in [Ids -> Nat]
          /\ Known'
      BY <1>0, <2>2, <2>3, PushNextShape
    <2>6. todo' \in [Actors -> SUBSET Scheduled]
      BY <1>0, <2>1 DEF TypeOK
    <2> QED
      BY <1>2, <2>4, <2>5, <2>6 DEF TypeOK, Hands, Offline, SeedFirst
  <1>3. CASE StartWorkers(p)
    <2>1. pc' \in [Workers -> Steps]
      BY <1>3 DEF StartWorkers, TypeOK, Steps
    <2>2. look' \in [Actors -> Nat]
      BY <1>3 DEF StartWorkers, TypeOK
    <2>3. Hands'
      BY <1>3, <1>0 DEF StartWorkers, TypeOK, Hands, Offline, Acting
    <2>4. Offline'
      BY <1>3, <1>0 DEF StartWorkers, TypeOK, Offline
    <2> QED
      BY <1>3, <2>1, <2>2, <2>3, <2>4 DEF TypeOK, Known, StartWorkers, history, ProcStates
  <1>4. CASE Exit(p)
    BY <1>0, <1>4 DEF TypeOK, Hands, Offline, Known, Exit, history, ProcStates
  <1>5. CASE Shutdown(p)
    <2>1. budget' \in Budgets
      BY <1>5, SpendType DEF Shutdown
    <2> QED
      BY <1>0, <1>5, <2>1 DEF TypeOK, Hands, Offline, Known, Shutdown, history, ProcStates
  <1>6. CASE Crash(p)
    <2>1. budget' \in Budgets
      BY <1>6, SpendType DEF Crash
    <2>2. /\ proc' \in [Procs -> ProcStates] /\ seeded' \in [Procs -> Nat]
          /\ pc' \in [Workers -> Steps] /\ shield' \in [Workers -> BOOLEAN]
      BY <1>6 DEF Crash, TypeOK, ProcStates, Steps
    <2>3. tok' \in [Workers -> Token \cup {NoTok}]
      BY <1>6 DEF Crash, TypeOK
    <2>4. look' \in [Actors -> Nat] /\ todo' \in [Actors -> SUBSET Scheduled]
      BY <1>6 DEF Crash, TypeOK
    <2>5. Hands'
      BY <1>6, <1>0 DEF Crash, TypeOK, Hands, Acting
    <2>6. Offline'
      BY <1>6, <1>0 DEF Crash, TypeOK, Offline
    <2> QED
      BY <1>6, <2>1, <2>2, <2>3, <2>4, <2>5, <2>6 DEF TypeOK, Known, Crash, history
  <1> QED
    BY <1>1, <1>2, <1>3, <1>4, <1>5, <1>6 DEF ProcStep

(* The steps of a worker about the row in its hand.                        *)
LEMMA SettleShape ==
    ASSUME Shape, NEW w \in Workers, tok[w] \in Token, NEW row \in Row,
           row.kind = MyRow(w).kind,
           rows' = rows \/ (Mine(w) /\ rows' = [rows EXCEPT ![tok[w].id] = row])
    PROVE  rows' \in [Ids -> Row] /\ Known'
  <1>1. tok[w].id \in Ids
    BY DEF Token
  <1>2. CASE rows' = rows
    BY <1>2 DEF Shape, TypeOK, Known
  <1>3. CASE Mine(w) /\ rows' = [rows EXCEPT ![tok[w].id] = row]
    <2>1. rows[tok[w].id].state = "running"
      BY <1>3 DEF Mine, Held
    <2> QED
      BY <1>1, <1>3, <2>1 DEF Shape, TypeOK, Known, MyRow
  <1> QED
    BY <1>2, <1>3

LEMMA ReturnShape ==
    ASSUME Shape, NEW w \in Workers, pc[w] # "off",
           Return(w)
    PROVE  /\ pc' \in [Workers -> Steps] /\ tok' \in [Workers -> Token \cup {NoTok}]
           /\ look' \in [Actors -> Nat] /\ todo' \in [Actors -> SUBSET Scheduled]
           /\ shield' \in [Workers -> BOOLEAN]
           /\ proc' = proc => Hands' /\ Offline'
  <1>1. Workers \subseteq Actors
    BY DEF Actors
  <1> QED
    BY <1>1 DEF Shape, TypeOK, Return, Steps, Hands, Offline, Acting

LEMMA GotoShape ==
    ASSUME Shape, NEW w \in Workers, tok[w] \in Token, pc[w] # "off", NEW step \in Acting,
           Goto(w, step)
    PROVE  /\ pc' \in [Workers -> Steps] /\ tok' \in [Workers -> Token \cup {NoTok}]
           /\ look' \in [Actors -> Nat] /\ todo' \in [Actors -> SUBSET Scheduled]
           /\ shield' \in [Workers -> BOOLEAN]
           /\ proc' = proc => Hands' /\ Offline'
  BY DEF Shape, TypeOK, Goto, Steps, Hands, Offline, Acting

LEMMA ThenNextShape ==
    ASSUME Shape, NEW w \in Workers, pc[w] # "off", NEW t \in Nat, ThenNext(w, t)
    PROVE  /\ pc' \in [Workers -> Steps] /\ tok' \in [Workers -> Token \cup {NoTok}]
           /\ look' \in [Actors -> Nat] /\ todo' \in [Actors -> SUBSET Scheduled]
           /\ shield' \in [Workers -> BOOLEAN]
           /\ proc' = proc => Hands' /\ Offline'
  <1>1. Workers \subseteq Actors
    BY DEF Actors
  <1>2. CASE tok[w].kind \in Scheduled
    BY <1>1, <1>2 DEF Shape, TypeOK, ThenNext, Steps, Hands, Offline, Acting
  <1>3. CASE tok[w].kind \notin Scheduled
    BY <1>3, ReturnShape DEF ThenNext
  <1> QED
    BY <1>2, <1>3

(* A claim: the row becomes one, and so does what it answers.              *)
LEMMA ClaimedShape ==
    ASSUME Shape, NEW w \in Workers, NEW i \in Claimable(w),
           rows' = [rows EXCEPT ![i] = Claimed(@, look[w] + Lease)]
    PROVE  i \in Ids /\ rows' \in [Ids -> Row] /\ Known' /\ Ticket(i) \in Token
  <1>1. i \in Ids /\ Due(rows[i], look[w])
    BY DEF Claimable, MostUrgent
  <1>2. rows[i] \in Row /\ look[w] + Lease \in Nat
    BY <1>1, QueueAssumption DEF Shape, TypeOK, Lease, Actors
  <1>3. rows[i].kind \in Kinds
    BY <1>1 DEF Shape, Known, Due
  <1>4. /\ Claimed(rows[i], look[w] + Lease) \in Row
        /\ Claimed(rows[i], look[w] + Lease).kind = rows[i].kind
    BY <1>2, RowCalls, RowFields
  <1>5. rows' \in [Ids -> Row] /\ Known'
    BY <1>1, <1>3, <1>4 DEF Shape, TypeOK, Known
  <1>6. rows[i].run_at \in Nat /\ rows[i].attempts + 1 \in Nat \ {0}
    BY <1>2 DEF Row
  <1> QED
    BY <1>1, <1>3, <1>5, <1>6 DEF Ticket, Token

LEMMA AnsweredShape ==
    ASSUME Shape, NEW w \in Workers, pc[w] # "off", NEW claimed \in BOOLEAN, Answered(w, claimed)
    PROVE  /\ pc' \in [Workers -> Steps] /\ look' \in [Actors -> Nat]
           /\ todo' \in [Actors -> SUBSET Scheduled] /\ seeded' \in [Procs -> Nat]
           /\ \A v \in Workers \ {w} : pc'[v] = pc[v]
           /\ pc'[w] \in {"seed", IF claimed THEN "begin" ELSE "idle"}
  <1>1. w \in Actors /\ ProcOf[w] \in Procs
    BY QueueAssumption DEF Actors
  <1>2. look[w] \in Nat
    BY <1>1 DEF Shape, TypeOK
  <1> QED
    BY <1>1, <1>2 DEF Shape, TypeOK, Answered, Steps

(* The loop of a worker keeps the shape.                                   *)
LEMMA LoopShape ==
    ASSUME Shape, NEW w \in Workers,
           Look(w) \/ Leave(w) \/ Claim(w) \/ ClaimNothing(w) \/ ClaimFails(w) \/ Seed(w)
    PROVE  Shape'
  <1> USE DEF Shape
  <1>0. w \in Actors /\ ProcOf[w] \in Procs /\ ProcOf \in [Workers -> Procs] /\ now \in Nat
    BY QueueAssumption DEF Actors, TypeOK
  <1>1. CASE Look(w)
    BY <1>0, <1>1 DEF TypeOK, Hands, Offline, Known, Look, Me, history, Steps, Acting
  <1>2. CASE Leave(w)
    BY <1>0, <1>2 DEF TypeOK, Hands, Offline, Known, Leave, Me, history, Steps, Acting
  <1>3. CASE Claim(w)
    <2>1. PICK i \in Claimable(w) :
              /\ rows' = [rows EXCEPT ![i] = Claimed(@, look[w] + Lease)]
              /\ tok' = [tok EXCEPT ![w] = Ticket(i)]
              /\ holder' = [holder EXCEPT ![i] = w]
      BY <1>3 DEF Claim
    <2>2. i \in Ids /\ rows' \in [Ids -> Row] /\ Known' /\ Ticket(i) \in Token
      BY <2>1, ClaimedShape
    <2>3. tok' \in [Workers -> Token \cup {NoTok}] /\ holder' \in [Ids -> Workers \cup {NoWorker}]
      BY <2>1, <2>2 DEF TypeOK
    <2>4. /\ pc' \in [Workers -> Steps] /\ look' \in [Actors -> Nat]
          /\ todo' \in [Actors -> SUBSET Scheduled] /\ seeded' \in [Procs -> Nat]
          /\ \A v \in Workers \ {w} : pc'[v] = pc[v]
          /\ pc'[w] \in {"seed", "begin"}
      BY <1>3, AnsweredShape DEF Claim
    <2>5. Hands'
      BY <2>1, <2>2, <2>4 DEF TypeOK, Hands, Acting
    <2>6. Offline'
      BY <1>0, <1>3, <2>4 DEF TypeOK, Offline, Claim
    <2> QED
      BY <1>3, <2>2, <2>3, <2>4, <2>5, <2>6 DEF TypeOK, Claim
  <1>4. CASE ClaimNothing(w)
    <2>1. /\ pc' \in [Workers -> Steps] /\ look' \in [Actors -> Nat]
          /\ todo' \in [Actors -> SUBSET Scheduled] /\ seeded' \in [Procs -> Nat]
          /\ \A v \in Workers \ {w} : pc'[v] = pc[v]
          /\ pc'[w] \in {"seed", "idle"}
      BY <1>4, AnsweredShape DEF ClaimNothing
    <2>2. Hands' /\ Offline'
      BY <1>0, <1>4, <2>1 DEF TypeOK, Hands, Offline, ClaimNothing, Acting
    <2> QED
      BY <1>4, <2>1, <2>2 DEF TypeOK, Known, ClaimNothing, history
  <1>5. CASE ClaimFails(w)
    <2>1. budget' \in Budgets
      BY <1>5, FailsType DEF ClaimFails
    <2>2. rows' \in [Ids -> Row] /\ Known' /\ holder' \in [Ids -> Workers \cup {NoWorker}]
      <3>1. CASE UNCHANGED <<rows, holder>>
        BY <3>1 DEF TypeOK, Known
      <3>2. ASSUME NEW i \in Claimable(w),
                   rows' = [rows EXCEPT ![i] = Claimed(@, look[w] + Lease)],
                   holder' = [holder EXCEPT ![i] = NoWorker]
            PROVE  rows' \in [Ids -> Row] /\ Known' /\ holder' \in [Ids -> Workers \cup {NoWorker}]
        BY <3>2, ClaimedShape DEF TypeOK
      <3> QED
        BY <1>5, <3>1, <3>2 DEF ClaimFails
    <2>3. pc' \in [Workers -> Steps] /\ look' \in [Actors -> Nat] /\ Hands' /\ Offline'
      BY <1>0, <1>5 DEF TypeOK, Hands, Offline, ClaimFails, Steps, Acting
    <2> QED
      BY <1>5, <2>1, <2>2, <2>3 DEF TypeOK, ClaimFails
  <1>6. CASE Seed(w)
    <2>1. PICK k \in todo[w] :
            /\ PushNext(w, k, Fails(w))
            /\ todo' = [todo EXCEPT ![w] = @ \ {k}]
            /\ IF todo[w] = {k}
               THEN /\ pc' = [pc EXCEPT ![w] = IF tok[w] = NoTok THEN "idle" ELSE "begin"]
                    /\ look' = [look EXCEPT ![w] = 0]
                    /\ shield' = [shield EXCEPT ![w] = FALSE]
               ELSE UNCHANGED <<pc, look, shield>>
      BY <1>6 DEF Seed
    <2>2. k \in Kinds
      BY <1>0, QueueAssumption DEF TypeOK
    <2>3. Insert(k, ScheduleKey, look[w] + Period[k]) \/ UNCHANGED <<rows, history>>
      BY <2>1 DEF PushNext
    <2>4. budget' \in Budgets
      BY <2>1, FailsType DEF PushNext, TypeOK
    <2>5. /\ rows' \in [Ids -> Row] /\ holder' \in [Ids -> Workers \cup {NoWorker}]
          /\ tainted' \in [Ids -> BOOLEAN] /\ wrote' \in [Ids -> Nat]
          /\ Known'
      BY <1>0, <2>2, <2>3, PushNextShape
    <2>6. todo' \in [Actors -> SUBSET Scheduled] /\ look' \in [Actors -> Nat]
          /\ shield' \in [Workers -> BOOLEAN] /\ pc' \in [Workers -> Steps]
      <3>1. todo' \in [Actors -> SUBSET Scheduled]
        BY <1>0, <2>1 DEF TypeOK
      <3>2. CASE todo[w] = {k}
        <4>1. (IF tok[w] = NoTok THEN "idle" ELSE "begin") \in Steps
          BY DEF Steps
        <4>2. pc' \in [Workers -> Steps]
          BY <2>1, <3>2, <4>1 DEF TypeOK
        <4>3. look' \in [Actors -> Nat]
          BY <2>1, <3>2 DEF TypeOK
        <4>4. shield' = [shield EXCEPT ![w] = FALSE]
          BY <2>1, <3>2
        <4>5. shield' \in [Workers -> BOOLEAN]
          BY <4>4 DEF TypeOK
        <4> QED
          BY <3>1, <4>2, <4>3, <4>5
      <3>3. CASE todo[w] # {k}
        BY <2>1, <3>1, <3>3 DEF TypeOK
      <3> QED
        BY <3>2, <3>3
    <2>7. Hands'
      <3>1. tok[w] = NoTok \/ tok[w] \in Token
        BY DEF TypeOK
      <3> QED
        BY <1>6, <2>1, <3>1 DEF TypeOK, Hands, Acting, Seed
    <2>8. Offline'
      BY <1>0, <1>6, <2>1 DEF TypeOK, Offline, Seed
    <2> QED
      BY <1>6, <2>4, <2>5, <2>6, <2>7, <2>8 DEF TypeOK, Seed
  <1> QED
    BY <1>1, <1>2, <1>3, <1>4, <1>5, <1>6

(* executeKind keeps the shape.                                            *)
LEMMA ExecuteShape ==
    ASSUME Shape, NEW w \in Workers,
           \/ Begin(w) \/ Drop(w) \/ Unkey(w) \/ Chain(w) \/ ParseFails(w) \/ EndRun(w)
           \/ FinishDone(w) \/ FinishDead(w) \/ FinishRetry(w) \/ FinishRelease(w)
           \/ DoneIn(w) \/ Commit(w)
    PROVE  Shape'
  <1> USE DEF Shape
  <1>0. w \in Actors /\ ProcOf[w] \in Procs /\ now \in Nat /\ look[w] \in Nat
    BY QueueAssumption DEF Actors, TypeOK
  <1>00. AfterFailure(w) \in {"dead", "retry"}
    BY DEF AfterFailure
  <1>1. CASE Begin(w)
    <2>1. FirstStep(w) \in {"dead", "drop", "unkey", "run"}
      BY DEF FirstStep
    <2>2. pc' \in [Workers -> Steps] /\ look' \in [Actors -> Nat]
      BY <1>0, <1>1, <2>1 DEF Begin, TypeOK, Steps
    <2>3. Hands' /\ Offline'
      BY <1>0, <1>1, <2>1 DEF Begin, TypeOK, Hands, Offline, Acting
    <2> QED
      BY <1>1, <2>2, <2>3 DEF Begin, TypeOK, Known, history
  <1>2. CASE Drop(w)
    <2>1. tok[w] \in Token /\ pc[w] # "off"
      BY <1>2 DEF Drop, Hands, Acting
    <2>2. Done(MyRow(w)) \in Row /\ Done(MyRow(w)).kind = MyRow(w).kind
      BY <1>0, <2>1, RowCalls, RowFields DEF MyRow, Token, TypeOK
    <2>3. rows' = rows \/ (Mine(w) /\ rows' = [rows EXCEPT ![tok[w].id] = Done(MyRow(w))])
      BY <1>2 DEF Drop, Settle
    <2>4. rows' \in [Ids -> Row] /\ Known'
      BY <2>1, <2>2, <2>3, SettleShape
    <2>5. budget' \in Budgets /\ UNCHANGED <<now, proc, seeded, history>>
      BY <1>2, FailsType DEF Drop, Settle, TypeOK
    <2>6. Return(w) \/ ThenNext(w, look[w])
      BY <1>2 DEF Drop, Settle
    <2>7. /\ pc' \in [Workers -> Steps] /\ tok' \in [Workers -> Token \cup {NoTok}]
          /\ look' \in [Actors -> Nat] /\ todo' \in [Actors -> SUBSET Scheduled]
          /\ shield' \in [Workers -> BOOLEAN]
          /\ Hands' /\ Offline'
      BY <1>0, <2>1, <2>5, <2>6, ReturnShape, ThenNextShape DEF Acting
    <2> QED
      BY <2>4, <2>5, <2>7 DEF TypeOK, history
  <1>3. CASE Unkey(w)
    <2>1. tok[w] \in Token /\ pc[w] # "off"
      BY <1>3 DEF Unkey, Hands, Acting
    <2>2. Unkeyed(MyRow(w)) \in Row /\ Unkeyed(MyRow(w)).kind = MyRow(w).kind
      BY <1>0, <2>1, RowCalls, RowFields DEF MyRow, Token, TypeOK
    <2>3. rows' = rows \/ (Mine(w) /\ rows' = [rows EXCEPT ![tok[w].id] = Unkeyed(MyRow(w))])
      BY <1>3 DEF Unkey, Settle
    <2>4. rows' \in [Ids -> Row] /\ Known'
      BY <2>1, <2>2, <2>3, SettleShape
    <2>5. budget' \in Budgets /\ UNCHANGED <<now, proc, seeded, history>>
      BY <1>3, FailsType DEF Unkey, Settle, TypeOK
    <2>6. Return(w) \/ Goto(w, "chain")
      BY <1>3 DEF Unkey, Settle
    <2>7. /\ pc' \in [Workers -> Steps] /\ tok' \in [Workers -> Token \cup {NoTok}]
          /\ look' \in [Actors -> Nat] /\ todo' \in [Actors -> SUBSET Scheduled]
          /\ shield' \in [Workers -> BOOLEAN]
          /\ Hands' /\ Offline'
      BY <1>0, <2>1, <2>5, <2>6, ReturnShape, GotoShape DEF Acting
    <2> QED
      BY <2>4, <2>5, <2>7 DEF TypeOK, history
  <1>4. CASE Chain(w)
    <2>1. tok[w] \in Token /\ pc[w] # "off"
      BY <1>4 DEF Chain, Hands, Acting
    <2>2. Insert(tok[w].kind, ScheduleKey, look[w] + Period[tok[w].kind])
              \/ UNCHANGED <<rows, history>>
      BY <1>4 DEF Chain, PushNext
    <2>3. /\ rows' \in [Ids -> Row] /\ holder' \in [Ids -> Workers \cup {NoWorker}]
          /\ tainted' \in [Ids -> BOOLEAN] /\ wrote' \in [Ids -> Nat]
          /\ Known'
      BY <1>0, <2>1, <2>2, PushNextShape DEF Token
    <2>4. budget' \in Budgets
      BY <1>4, FailsType DEF Chain, PushNext, TypeOK
    <2>5. pc' \in [Workers -> Steps] /\ look' \in [Actors -> Nat] /\ Hands' /\ Offline'
      BY <1>0, <1>4, <2>1 DEF Chain, TypeOK, Steps, Hands, Offline, Acting
    <2> QED
      BY <1>4, <2>3, <2>4, <2>5 DEF Chain, TypeOK
  <1>5. CASE ParseFails(w)
    <2>1. tok[w] \in Token /\ pc[w] # "off"
      BY <1>5 DEF ParseFails, Hands, Acting
    <2>2. PICK step \in {"dead", "retry"} : Goto(w, step)
      BY <1>00, <1>5 DEF ParseFails
    <2>3. /\ pc' \in [Workers -> Steps] /\ tok' \in [Workers -> Token \cup {NoTok}]
          /\ look' \in [Actors -> Nat] /\ todo' \in [Actors -> SUBSET Scheduled]
          /\ shield' \in [Workers -> BOOLEAN]
          /\ Hands' /\ Offline'
      BY <1>5, <2>1, <2>2, GotoShape DEF Acting, ParseFails
    <2> QED
      BY <1>5, <2>3 DEF ParseFails, TypeOK, Known, history
  <1>6. CASE EndRun(w)
    <2>1. tok[w] \in Token
      BY <1>6 DEF EndRun, Hands, Acting
    <2>2. PICK step \in Endings(w) : pc' = [pc EXCEPT ![w] = step]
      BY <1>6 DEF EndRun
    <2>3. step \in Acting /\ step \in Steps
      BY <1>00 DEF Endings, Acting, Steps
    <2>4. pc' \in [Workers -> Steps] /\ shield' \in [Workers -> BOOLEAN]
      BY <1>6, <2>2, <2>3 DEF EndRun, TypeOK
    <2>5. Hands' /\ Offline'
      BY <1>0, <1>6, <2>1, <2>2, <2>3 DEF EndRun, TypeOK, Hands, Offline, Acting
    <2> QED
      BY <1>6, <2>4, <2>5 DEF EndRun, TypeOK, Known, history
  <1>7. CASE FinishDone(w)
    <2>1. tok[w] \in Token /\ pc[w] # "off"
      BY <1>7 DEF FinishDone, Hands, Acting
    <2>2. Done(MyRow(w)) \in Row /\ Done(MyRow(w)).kind = MyRow(w).kind
      BY <1>0, <2>1, RowCalls, RowFields DEF MyRow, Token, TypeOK
    <2>3. rows' = rows \/ (Mine(w) /\ rows' = [rows EXCEPT ![tok[w].id] = Done(MyRow(w))])
      BY <1>7 DEF FinishDone, Settle
    <2>4. rows' \in [Ids -> Row] /\ Known'
      BY <2>1, <2>2, <2>3, SettleShape
    <2>5. budget' \in Budgets /\ UNCHANGED <<now, proc, seeded, history>>
      BY <1>7, FailsType DEF FinishDone, Settle, TypeOK
    <2>6. Return(w) \/ ThenNext(w, now)
      BY <1>7 DEF FinishDone, Settle
    <2>7. /\ pc' \in [Workers -> Steps] /\ tok' \in [Workers -> Token \cup {NoTok}]
          /\ look' \in [Actors -> Nat] /\ todo' \in [Actors -> SUBSET Scheduled]
          /\ shield' \in [Workers -> BOOLEAN]
          /\ Hands' /\ Offline'
      BY <1>0, <2>1, <2>5, <2>6, ReturnShape, ThenNextShape DEF Acting
    <2> QED
      BY <2>4, <2>5, <2>7 DEF TypeOK, history
  <1>8. CASE FinishDead(w)
    <2>1. tok[w] \in Token /\ pc[w] # "off"
      BY <1>8 DEF FinishDead, Hands, Acting
    <2>2. Dead(MyRow(w)) \in Row /\ Dead(MyRow(w)).kind = MyRow(w).kind
      BY <1>0, <2>1, RowCalls, RowFields DEF MyRow, Token, TypeOK
    <2>3. rows' = rows \/ (Mine(w) /\ rows' = [rows EXCEPT ![tok[w].id] = Dead(MyRow(w))])
      BY <1>8 DEF FinishDead, Settle
    <2>4. rows' \in [Ids -> Row] /\ Known'
      BY <2>1, <2>2, <2>3, SettleShape
    <2>5. budget' \in Budgets /\ UNCHANGED <<now, proc, seeded, history>>
      BY <1>8, FailsType DEF FinishDead, Settle, TypeOK
    <2>6. Return(w) \/ ThenNext(w, now)
      BY <1>8 DEF FinishDead, Settle
    <2>7. /\ pc' \in [Workers -> Steps] /\ tok' \in [Workers -> Token \cup {NoTok}]
          /\ look' \in [Actors -> Nat] /\ todo' \in [Actors -> SUBSET Scheduled]
          /\ shield' \in [Workers -> BOOLEAN]
          /\ Hands' /\ Offline'
      BY <1>0, <2>1, <2>5, <2>6, ReturnShape, ThenNextShape DEF Acting
    <2> QED
      BY <2>4, <2>5, <2>7 DEF TypeOK, history
  <1>9. CASE FinishRetry(w)
    <2>1. tok[w] \in Token /\ pc[w] # "off"
      BY <1>9 DEF FinishRetry, Hands, Acting
    <2>2. PICK d \in Delays[tok[w].kind] : Settle(w, Retried(MyRow(w), now + d), Return(w))
      BY <1>9 DEF FinishRetry
    <2>3. now + d \in Nat
      BY <1>0, <2>1, QueueAssumption DEF Token
    <2>4. /\ Retried(MyRow(w), now + d) \in Row
          /\ Retried(MyRow(w), now + d).kind = MyRow(w).kind
      <3>1. MyRow(w) \in Row
        BY <2>1 DEF MyRow, Token, TypeOK
      <3> QED
        BY <2>3, <3>1, RowCalls, RowFields
    <2>5. \/ rows' = rows
          \/ Mine(w) /\ rows' = [rows EXCEPT ![tok[w].id] = Retried(MyRow(w), now + d)]
      BY <2>2 DEF Settle
    <2>6. rows' \in [Ids -> Row] /\ Known'
      BY <2>1, <2>4, <2>5, SettleShape
    <2>7. budget' \in Budgets /\ UNCHANGED <<now, proc, seeded, history>>
      BY <2>2, FailsType DEF Settle, TypeOK
    <2>8. /\ pc' \in [Workers -> Steps] /\ tok' \in [Workers -> Token \cup {NoTok}]
          /\ look' \in [Actors -> Nat] /\ todo' \in [Actors -> SUBSET Scheduled]
          /\ shield' \in [Workers -> BOOLEAN]
          /\ Hands' /\ Offline'
      BY <2>1, <2>2, <2>7, ReturnShape DEF Settle
    <2> QED
      BY <2>6, <2>7, <2>8 DEF TypeOK, history
  <1>10. CASE FinishRelease(w)
    <2>1. tok[w] \in Token /\ pc[w] # "off"
      BY <1>10 DEF FinishRelease, Hands, Acting
    <2>2. ASSUME Mine(w)
          PROVE  Released(MyRow(w)) \in Row /\ Released(MyRow(w)).kind = MyRow(w).kind
      <3>1. MyRow(w) \in Row /\ MyRow(w).attempts > 0
        BY <1>0, <2>1, <2>2 DEF MyRow, Mine, Held, Token, TypeOK
      <3> QED
        BY <1>0, <3>1, RowCalls, RowFields
    <2>3. rows' = rows \/ (Mine(w) /\ rows' = [rows EXCEPT ![tok[w].id] = Released(MyRow(w))])
      BY <1>10 DEF FinishRelease, Settle
    <2>4. rows' \in [Ids -> Row] /\ Known'
      <3>1. CASE Mine(w)
        BY <2>1, <2>2, <2>3, <3>1, SettleShape
      <3>2. CASE rows' = rows
        BY <3>2 DEF Shape, TypeOK, Known
      <3> QED
        BY <2>3, <3>1, <3>2
    <2>5. budget' \in Budgets /\ UNCHANGED <<now, proc, seeded, history>>
      BY <1>10, FailsType DEF FinishRelease, Settle, TypeOK
    <2>6. Return(w)
      BY <1>10 DEF FinishRelease, Settle
    <2>7. /\ pc' \in [Workers -> Steps] /\ tok' \in [Workers -> Token \cup {NoTok}]
          /\ look' \in [Actors -> Nat] /\ todo' \in [Actors -> SUBSET Scheduled]
          /\ shield' \in [Workers -> BOOLEAN]
          /\ Hands' /\ Offline'
      BY <1>0, <2>1, <2>5, <2>6, ReturnShape
    <2> QED
      BY <2>4, <2>5, <2>7 DEF TypeOK, history
  <1>11. CASE DoneIn(w)
    <2>1. tok[w] \in Token /\ pc[w] # "off"
      BY <1>11 DEF DoneIn, Hands, Acting
    <2>2. budget' \in Budgets
      BY <1>11, FailsType DEF DoneIn, TypeOK
    <2>3. Return(w) \/ \E step \in {"commit", "dead", "retry"} : Goto(w, step)
      BY <1>00, <1>11 DEF DoneIn
    <2>4. /\ pc' \in [Workers -> Steps] /\ tok' \in [Workers -> Token \cup {NoTok}]
          /\ look' \in [Actors -> Nat] /\ todo' \in [Actors -> SUBSET Scheduled]
          /\ shield' \in [Workers -> BOOLEAN]
          /\ Hands' /\ Offline'
      BY <1>11, <2>1, <2>3, ReturnShape, GotoShape DEF Acting, DoneIn
    <2> QED
      BY <1>11, <2>2, <2>4 DEF DoneIn, TypeOK, Known, history
  <1>12. CASE Commit(w)
    <2>1. tok[w] \in Token /\ pc[w] # "off" /\ tok[w].id \in Ids
      BY <1>12 DEF Commit, Hands, Acting, Token
    <2>2. budget' \in Budgets
      BY <1>12, FailsType DEF Commit, TypeOK
    <2>3. Done(rows[tok[w].id]) \in Row /\ Done(rows[tok[w].id]).kind = rows[tok[w].id].kind
      BY <1>0, <2>1, RowCalls, RowFields DEF TypeOK
    <2>4. rows' \in [Ids -> Row] /\ wrote' \in [Ids -> Nat]
      BY <1>12, <2>1, <2>3 DEF Commit, Land, TypeOK
    <2>5. ThenNext(w, now) \/ \E step \in {"dead", "retry"} : Goto(w, step)
      BY <1>00, <1>12 DEF Commit
    <2>6. /\ pc' \in [Workers -> Steps] /\ tok' \in [Workers -> Token \cup {NoTok}]
          /\ look' \in [Actors -> Nat] /\ todo' \in [Actors -> SUBSET Scheduled]
          /\ shield' \in [Workers -> BOOLEAN]
          /\ Hands' /\ Offline'
      BY <1>0, <1>12, <2>1, <2>5, ThenNextShape, GotoShape DEF Acting, Commit
    <2>7. Known'
      <3>1. Done(rows[tok[w].id]).state = "done"
        BY <2>1, RowFields DEF TypeOK
      <3> QED
        BY <1>12, <2>1, <3>1 DEF Commit, Land, TypeOK, Known
    <2> QED
      BY <1>12, <2>2, <2>4, <2>6, <2>7 DEF Commit, TypeOK
  <1> QED
    BY <1>1, <1>2, <1>3, <1>4, <1>5, <1>6, <1>7, <1>8, <1>9, <1>10, <1>11, <1>12

-----------------------------------------------------------------------------
LEMMA InitShape == Init => Shape
  <1>1. Init => TypeOK
    BY QueueAssumption, RowCalls DEF Init, TypeOK, ProcStates, Steps, Budgets, Token, Absent, Row, States
  <1>2. Init => Hands /\ Offline
    BY QueueAssumption DEF Init, Hands, Offline, Acting
  <1>3. Init => Known
    BY DEF Init, Known, Absent
  <1> QED
    BY <1>1, <1>2, <1>3 DEF Shape

LEMMA NextShape == Shape /\ [Next]_vars => Shape'
  <1> SUFFICES ASSUME Shape, [Next]_vars PROVE Shape'
    OBVIOUS
  <1>1. CASE UNCHANGED vars
    BY <1>1 DEF Shape, TypeOK, Hands, Offline, Known, vars
  <1>2. CASE Next
    BY <1>2, ProgramShape, ProcShape, LoopShape, ExecuteShape DEF Next, WorkerStep
  <1> QED
    BY <1>1, <1>2

(* Every variable keeps its type: a worker's hand holds nothing or a claim *)
(* with a positive attempt number, a row a claim can reach is of a kind    *)
(* the program has, and the clock and the counters stay natural numbers    *)
(* through every release, retry and re-seed of job.zig.                    *)
THEOREM TypeCorrect == Spec => []TypeOK
  <1>1. Spec => []Shape
    BY InitShape, NextShape, PTL DEF Spec
  <1> QED
    BY <1>1, PTL DEF Shape
=============================================================================
