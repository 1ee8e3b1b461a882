---------------------------- MODULE CollectProofs -----------------------------
(***************************************************************************)
(* Theorems about Collect, for any row groups, columns and threads.  Both  *)
(* rest on who may hold a lane: it is in the queue once or run by one      *)
(* thread, until the cleanup has waited for the pool.                      *)
(***************************************************************************)
EXTENDS Collect, FiniteSetTheorems, TLAPS

CollectTypes ==
  /\ mask \subseteq Groups /\ opened \in Nat /\ submitted \in Nat
  /\ queue \in Seq(Nat)
  /\ running = [w \in {Main} \union PoolThreads |->
                  [tasks |-> running[w].tasks, read |-> running[w].read,
                   lane |-> running[w].lane]]

\* What the R thread's place says about the handle, the pool and the lanes.
PlaceInv ==
  /\ pc # "idle" => busy /\ handle = "open" /\ outcome = "none"
  /\ outcome = "none" /\ pc \in {"idle", "setup", "open"} =>
       lanes = <<>> /\ submitted = 0 /\ pool = 0
  /\ pool # 0 => pc \in {"submit", "prime", "strings", "rest", "signal", "unwind"}
  /\ pool = 0 => PoolIdle /\ pc \notin {"submit", "prime", "rest"}
  /\ pool # 0 /\ ~use_mmap => lanes # <<>>
  /\ pc = "prime" => lanes = <<>>
  /\ pc = "submit" => lanes # <<>> /\ submitted < opened
  /\ pc \in {"strings", "rest"} /\ pool # 0 /\ lanes # <<>> => submitted = n_tasks

\* A lane is queued once or run by one thread, and has a reader of its own.
LaneInv ==
  pool # 0 =>
    IF lanes = <<>> THEN \A w \in PoolThreads : running[w].lane = 0
    ELSE /\ Len(lanes) = opened
         /\ \A i \in 1..Len(queue) : queue[i] \in 1..opened
         /\ \A i, j \in 1..Len(queue) : i # j => queue[i] # queue[j]
         /\ \A w \in PoolThreads :
              running[w].lane \in 0..opened /\ (running[w] # Idle => running[w].lane # 0)
         /\ \A w \in PoolThreads : \A i \in 1..Len(queue) : queue[i] # running[w].lane
         /\ \A v, w \in PoolThreads :
              v # w /\ running[v] # Idle => running[v].lane # running[w].lane
         /\ pc = "submit" => /\ \A i \in 1..Len(queue) : queue[i] <= submitted
                             /\ \A w \in PoolThreads : running[w].lane <= submitted

CollectInv == CollectTypes /\ PlaceInv /\ LaneInv

\* A handle on which nothing is collected yet.
LEMMA InitCollect == Init => CollectInv
<1> SUFFICES ASSUME Init PROVE CollectInv
  OBVIOUS
<1>1. CollectTypes
  BY DEF Init, CollectTypes, Idle
<1>2. PlaceInv
  BY DEF Init, PlaceInv, PoolIdle
<1>3. LaneInv
  BY DEF Init, LaneInv
<1> QED BY <1>1, <1>2, <1>3 DEF CollectInv

\* The tasks depend on the selection alone.
LEMMA SameTasks == ASSUME mask' = mask PROVE n_tasks' = n_tasks
BY DEF n_tasks, n_groups

\* There are finitely many row groups, so finitely many tasks.
LEMMA TasksType == ASSUME mask \subseteq Groups PROVE n_tasks \in Nat
<1> DEFINE S == {g \in mask : RowsIn[g] > 0}
<1>1. IsFiniteSet(1..Len(RowsIn)) /\ Groups = 1..Len(RowsIn)
  BY CollectAssumption, FS_Interval DEF Groups
<1>2. IsFiniteSet(S) /\ Cardinality(S) \in Nat
  BY <1>1, FS_Subset, FS_CardinalityType
<1> QED BY <1>2, CollectAssumption DEF n_tasks, n_groups


\* A step that starts and stops no job.
LEMMA QuietStep ==
  ASSUME CollectInv, PlaceInv', UNCHANGED <<lanes, queue, running>>,
         pool' # 0 => pool # 0 /\ opened' = opened,
         pc' = "submit" => pc = "submit" /\ submitted' = submitted,
         mask' \subseteq Groups, opened' \in Nat, submitted' \in Nat
  PROVE  CollectInv'
<1>1. CollectTypes'
  BY DEF CollectInv, CollectTypes
<1>2. LaneInv'
  BY DEF CollectInv, LaneInv
<1> QED BY <1>1, <1>2 DEF CollectInv

\* A thread goes on with its lane, or has done its last task.
LEMMA ThreadStep ==
  ASSUME CollectInv, NEW w \in {Main} \union PoolThreads, NEW r,
         running' = [running EXCEPT ![w] = r],
         r = [tasks |-> r.tasks, read |-> r.read, lane |-> r.lane],
         r = Idle \/ r.lane = running[w].lane, running[w] # Idle \/ w = Main,
         UNCHANGED <<handle, use_mmap, busy, mask, pc, pool, opened, lanes, queue, outcome>>,
         submitted' \in Nat, submitted' = submitted \/ pc = "inline"
  PROVE  CollectInv'
<1>1. Main \notin PoolThreads
  BY DEF Main, PoolThreads
<1>2. n_tasks' = n_tasks
  BY SameTasks
<1>3. running'[w] = r /\ \A v \in PoolThreads \ {w} : running'[v] = running[v]
  BY DEF CollectInv, CollectTypes
<1>4. CollectTypes'
  BY <1>3 DEF CollectInv, CollectTypes
<1>5. PlaceInv'
  BY <1>1, <1>2, <1>3 DEF CollectInv, PlaceInv, PoolIdle
<1>6. LaneInv'
  <2>1. pool # 0 => submitted' = submitted
    BY DEF CollectInv, PlaceInv
  <2>2. CASE w = Main
    BY <2>2, <2>1, <1>1, <1>3 DEF CollectInv, LaneInv
  <2>3. CASE w \in PoolThreads
    <3>1. \A v \in PoolThreads :
            /\ \/ running'[v] = Idle /\ running'[v].lane = 0
               \/ running'[v].lane = running[v].lane
            /\ running'[v] # Idle => running[v] # Idle /\ running'[v].lane = running[v].lane
      <4>1. Idle.lane = 0
        BY DEF Idle
      <4> QED BY <4>1, <2>3, <1>1, <1>3
    <3>2. CASE lanes = <<>>
      BY <3>1, <3>2 DEF CollectInv, LaneInv
    <3>3. CASE lanes # <<>> /\ pool # 0
      <4>0. /\ opened \in Nat /\ Len(lanes) = opened
            /\ \A i \in 1..Len(queue) : queue[i] \in 1..opened
            /\ \A i, j \in 1..Len(queue) : i # j => queue[i] # queue[j]
        BY <3>3 DEF CollectInv, CollectTypes, LaneInv
      <4>1. \A v \in PoolThreads :
              running'[v].lane \in 0..opened /\ (running'[v] # Idle => running'[v].lane # 0)
        BY <3>1, <3>3, <4>0 DEF CollectInv, LaneInv
      <4>2. \A v \in PoolThreads : \A i \in 1..Len(queue) : queue[i] # running'[v].lane
        BY <3>1, <3>3, <4>0 DEF CollectInv, LaneInv
      <4>3. \A u, v \in PoolThreads :
              u # v /\ running'[u] # Idle => running'[u].lane # running'[v].lane
        BY <3>1, <3>3, <4>1 DEF CollectInv, LaneInv
      <4>4. pc = "submit" => /\ \A i \in 1..Len(queue) : queue[i] <= submitted
                             /\ \A v \in PoolThreads : running'[v].lane <= submitted
        <5>1. submitted \in Nat
          BY DEF CollectInv, CollectTypes
        <5> QED BY <3>1, <3>3, <5>1 DEF CollectInv, LaneInv
      <4> QED BY <2>1, <3>3, <4>0, <4>1, <4>2, <4>3, <4>4 DEF LaneInv
    <3> QED BY <3>2, <3>3 DEF LaneInv
  <2> QED BY <2>2, <2>3
<1> QED BY <1>4, <1>5, <1>6 DEF CollectInv

\* Every step of the R thread and of the pool's threads keeps CollectInv.
LEMMA NextCollect == CollectInv /\ [Next]_vars => CollectInv'
<1> SUFFICES ASSUME CollectInv, [Next]_vars PROVE CollectInv'
  OBVIOUS
<1>t. mask \subseteq Groups /\ opened \in Nat /\ submitted \in Nat /\ queue \in Seq(Nat)
  BY DEF CollectInv, CollectTypes
<1>p. PlaceInv
  BY DEF CollectInv
<1>1. CASE Close
  <2>1. PlaceInv'
    BY <1>1, <1>p, SameTasks DEF PlaceInv, Close, PoolIdle, poolVars
  <2> QED BY <1>1, <2>1, <1>t, QuietStep DEF Close, poolVars
<1>2. CASE Collect
  <2>1. PlaceInv'
    BY <1>2, <1>p DEF PlaceInv, Collect, PoolIdle
  <2> QED BY <1>2, <2>1, <1>t, <1>p, QuietStep DEF Collect, PlaceInv
<1>3. CASE ChoosePath
  <2>1. PlaceInv'
    BY <1>3, <1>p, SameTasks DEF PlaceInv, ChoosePath, PoolIdle, poolVars, callVars, handleVars, Parallel, OnSharedReader
  <2>2. LaneInv'
    BY <1>3, <1>p DEF PlaceInv, ChoosePath, PoolIdle, poolVars, LaneInv, Idle
  <2> QED BY <1>3, <2>1, <2>2 DEF ChoosePath, CollectInv, CollectTypes, poolVars, callVars
<1>4. CASE OpenReader
  <2>1. PlaceInv'
    BY <1>4, <1>p, <1>t, SameTasks
    DEF PlaceInv, OpenReader, PoolIdle, poolVars, callVars, handleVars
  <2> QED BY <1>4, <2>1, <1>t, <1>p, QuietStep DEF OpenReader, PlaceInv, poolVars, callVars
<1>5. CASE BuildLanes
  <2>1. \/ /\ lanes' = [l \in 1..opened |-> LaneOf(l)] /\ opened > 1
           /\ pool' = opened /\ pc' = "submit"
        \/ pc' = "inline" /\ UNCHANGED <<lanes, pool>>
    BY <1>5 DEF BuildLanes
  <2>2. /\ UNCHANGED <<callVars, opened, submitted, poolVars>> /\ pc = "open"
        /\ lanes = <<>> /\ submitted = 0 /\ pool = 0 /\ PoolIdle
    BY <1>5, <1>p DEF BuildLanes, PlaceInv
  <2>3. lanes' = <<>> \/ (Len(lanes') = opened /\ lanes' # <<>>)
    BY <2>1, <2>2, <1>t
  <2>4. PlaceInv'
    BY <2>1, <2>2, <2>3, <1>p, <1>t DEF PlaceInv, PoolIdle, poolVars, callVars, handleVars
  <2>5. LaneInv'
    BY <2>1, <2>2, <2>3, <1>t DEF LaneInv, PoolIdle, poolVars, Idle
  <2> QED BY <2>2, <2>4, <2>5 DEF CollectInv, CollectTypes, poolVars, callVars
<1>6. CASE SubmitLane \/ Prime \/ SubmitRest
  <2>1. /\ queue' = Append(queue, submitted + 1)
        /\ UNCHANGED <<callVars, pool, opened, lanes, running>>
        /\ pc \in {"submit", "prime", "rest"} /\ pool # 0
    BY <1>6, <1>p DEF SubmitLane, Prime, SubmitRest, Submit, PlaceInv
  <2>2. lanes # <<>> => pc = "submit" /\ submitted < opened /\ SubmitLane
    BY <1>6, <1>p, <1>t DEF SubmitLane, Prime, SubmitRest, PlaceInv
  <2>3. n_tasks' = n_tasks
    BY <2>1, SameTasks DEF callVars
  <2>4. lanes # <<>> => Len(lanes) = opened
    BY <2>1 DEF CollectInv, LaneInv
  <2>5. PlaceInv'
    <3>1. CASE SubmitLane
      BY <3>1, <2>1, <2>2, <2>3, <2>4, <1>p, <1>t
      DEF PlaceInv, SubmitLane, SubmittedWithLanes, callVars, handleVars
    <3>2. CASE Prime \/ SubmitRest
      BY <3>2, <2>1, <1>p, <1>t DEF PlaceInv, Prime, SubmitRest, callVars, handleVars
    <3> QED BY <1>6, <3>1, <3>2
  <2>6. submitted' \in Nat
    BY <1>6, <1>t, TasksType DEF SubmitLane, SubmittedWithLanes, Prime, SubmitRest
  <2>7. CollectTypes'
    BY <2>1, <2>6, <1>t DEF CollectInv, CollectTypes, callVars
  <2>8. LaneInv'
    <3>1. CASE lanes = <<>>
      BY <3>1, <2>1 DEF CollectInv, LaneInv
    <3>2. CASE lanes # <<>>
      <4>1. /\ \A i \in 1..Len(queue) : queue'[i] = queue[i]
            /\ Len(queue') = Len(queue) + 1 /\ queue'[Len(queue) + 1] = submitted + 1
            /\ Len(queue) \in Nat
        BY <2>1, <1>t
      <4>2. \A i \in 1..Len(queue') : i \in 1..Len(queue) \/ i = Len(queue) + 1
        BY <4>1
      <4>3. /\ \A i \in 1..Len(queue) : queue[i] <= submitted /\ queue[i] \in 1..opened
            /\ \A w \in PoolThreads : running[w].lane <= submitted /\ running[w].lane \in 0..opened
            /\ \A i, j \in 1..Len(queue) : i # j => queue[i] # queue[j]
            /\ \A w \in PoolThreads : \A i \in 1..Len(queue) : queue[i] # running[w].lane
        BY <3>2, <2>1, <2>2 DEF CollectInv, LaneInv
      <4>4. submitted + 1 \in 1..opened /\ (pc' = "submit" => submitted' = submitted + 1)
        BY <3>2, <2>2, <1>t DEF SubmitLane
      <4>5. ASSUME NEW i \in 1..Len(queue')
            PROVE  /\ queue'[i] \in 1..opened /\ queue'[i] <= submitted + 1
                   /\ \A w \in PoolThreads : queue'[i] # running[w].lane
        <5>1. CASE i \in 1..Len(queue)
          BY <5>1, <4>1, <4>3, <1>t
        <5>2. CASE i = Len(queue) + 1
          BY <5>2, <4>1, <4>3, <4>4, <1>t
        <5> QED BY <4>2, <5>1, <5>2
      <4>6. \A i, j \in 1..Len(queue') : i # j => queue'[i] # queue'[j]
        <5>1. \A i \in 1..Len(queue) : queue[i] # submitted + 1
          BY <4>3, <1>t
        <5> QED BY <5>1, <4>1, <4>2, <4>3
      <4>7. \A w \in PoolThreads : running[w].lane <= submitted + 1
        BY <4>3, <1>t
      <4> QED BY <3>2, <4>4, <4>5, <4>6, <4>7, <2>1, <2>4 DEF CollectInv, LaneInv
    <3> QED BY <3>1, <3>2
  <2> QED BY <2>5, <2>7, <2>8 DEF CollectInv
<1>7. ASSUME NEW w \in PoolThreads, Take(w) PROVE CollectInv'
  <2> DEFINE job == Head(queue)
             r == [tasks |-> JobTasks(job), read |-> 0,
                   lane |-> IF lanes = <<>> THEN 0 ELSE job]
  <2>1. /\ queue # <<>> /\ queue' = Tail(queue) /\ running' = [running EXCEPT ![w] = r]
        /\ UNCHANGED <<callVars, pc, pool, opened, lanes, submitted>> /\ running[w] = Idle
    BY <1>7 DEF Take
  <2>2. pool # 0
    BY <2>1, <1>p DEF PlaceInv, PoolIdle
  <2>3. /\ running'[w] = r /\ \A v \in PoolThreads \ {w} : running'[v] = running[v]
        /\ r.lane = IF lanes = <<>> THEN 0 ELSE job
    BY <2>1 DEF CollectInv, CollectTypes
  <2>4. CollectTypes'
    <3>1. queue' \in Seq(Nat)
      BY <2>1, <1>t
    <3> QED BY <3>1, <2>1, <2>3, <1>t DEF CollectInv, CollectTypes, callVars
  <2>5. PlaceInv'
    <3>1. n_tasks' = n_tasks
      BY <2>1, SameTasks DEF callVars
    <3> QED BY <3>1, <2>1, <2>2, <1>p DEF PlaceInv, callVars, handleVars
  <2>6. LaneInv'
    <3>1. CASE lanes = <<>>
      BY <3>1, <2>1, <2>2, <2>3 DEF CollectInv, LaneInv
    <3>2. CASE lanes # <<>>
      <4>1. /\ Len(queue) \in Nat \ {0} /\ Len(queue') = Len(queue) - 1
            /\ \A i \in 1..Len(queue') : i + 1 \in 1..Len(queue) /\ queue'[i] = queue[i + 1]
            /\ job = queue[1] /\ 1 \in 1..Len(queue)
        BY <2>1, <1>t
      <4> HIDE DEF job, r
      <4>a. /\ \A i \in 1..Len(queue) : queue[i] \in 1..opened
            /\ \A i, j \in 1..Len(queue) : i # j => queue[i] # queue[j]
            /\ \A v \in PoolThreads : \A i \in 1..Len(queue) : queue[i] # running[v].lane
        BY <3>2, <2>2 DEF CollectInv, LaneInv
      <4>b. Len(queue') \in Nat
        BY <4>1
      <4>2. /\ \A i \in 1..Len(queue') : queue'[i] \in 1..opened /\ queue'[i] # job
            /\ \A v \in PoolThreads : \A i \in 1..Len(queue') : queue'[i] # running[v].lane
            /\ job \in 1..opened /\ \A v \in PoolThreads : running[v].lane # job
        <5>1. ASSUME NEW i \in 1..Len(queue')
              PROVE  /\ queue'[i] \in 1..opened /\ queue'[i] # job
                     /\ \A v \in PoolThreads : queue'[i] # running[v].lane
          <6> DEFINE k == i + 1
          <6>1. k # 1 /\ k \in 1..Len(queue) /\ queue'[i] = queue[k]
            BY <4>b, <4>1
          <6> HIDE DEF k
          <6> QED BY <6>1, <4>1, <4>a
        <5>2. job \in 1..opened /\ \A v \in PoolThreads : running[v].lane # job
          BY <4>1, <4>a
        <5> QED BY <5>1, <5>2
      <4>c. ASSUME NEW i \in 1..Len(queue'), NEW j \in 1..Len(queue'), i # j
            PROVE  queue'[i] # queue'[j]
        <5> DEFINE k == i + 1
                   l == j + 1
        <5>1. /\ k # l /\ k \in 1..Len(queue) /\ l \in 1..Len(queue)
              /\ queue'[i] = queue[k] /\ queue'[j] = queue[l]
          BY <4>b, <4>1, <4>c
        <5> HIDE DEF k, l
        <5> QED BY <5>1, <4>a
      <4>3. r.lane = job
        BY <2>3, <3>2
      <4>4. \A v \in PoolThreads : \A i \in 1..Len(queue') : queue'[i] # running'[v].lane
        BY <4>2, <4>3, <2>3
      <4>5. /\ \A v \in PoolThreads : running'[v].lane \in 0..opened
                                        /\ (running'[v] # Idle => running'[v].lane # 0)
            /\ \A u, v \in PoolThreads : u # v /\ running'[u] # Idle =>
                                           running'[u].lane # running'[v].lane
        BY <4>2, <4>3, <3>2, <2>2, <2>3 DEF CollectInv, LaneInv
      <4>6. pc = "submit" => /\ \A i \in 1..Len(queue') : queue'[i] <= submitted
                             /\ \A v \in PoolThreads : running'[v].lane <= submitted
        BY <4>1, <4>3, <3>2, <2>2, <2>3 DEF CollectInv, LaneInv
      <4> QED BY <4>2, <4>c, <4>4, <4>5, <4>6, <3>2, <2>1, <2>2 DEF CollectInv, LaneInv
    <3> QED BY <3>1, <3>2
  <2> QED BY <2>4, <2>5, <2>6 DEF CollectInv
<1>8. ASSUME NEW w \in {Main} \union PoolThreads, TaskBatchDone(w) \/ TaskFails(w)
      PROVE  CollectInv'
  <2>1. running[w] # Idle /\ UNCHANGED <<handleVars, mask, pc, pool, opened, lanes,
                                         submitted, queue, outcome>>
    BY <1>8 DEF TaskBatchDone, TaskFails, callVars
  <2>2. PICK r : /\ running' = [running EXCEPT ![w] = r]
                 /\ r = [tasks |-> r.tasks, read |-> r.read, lane |-> r.lane]
                 /\ r = Idle \/ r.lane = running[w].lane
    <3>1. running[w] = [tasks |-> running[w].tasks, read |-> running[w].read,
                        lane |-> running[w].lane]
      BY DEF CollectInv, CollectTypes
    <3>2. \/ \E n : running' = [running EXCEPT ![w].read = n]
          \/ \E rest : running' = [running EXCEPT ![w] = [@ EXCEPT !.tasks = rest, !.read = 0]]
          \/ running' = [running EXCEPT ![w] = Idle]
      BY <1>8 DEF TaskBatchDone, TaskFails, NextInLane
    <3> QED BY <3>1, <3>2 DEF Idle
  <2> QED BY <2>1, <2>2, <1>t, ThreadStep DEF handleVars
<1>9. CASE Inline
  <2>1. /\ UNCHANGED <<callVars, pool, opened, lanes, queue>> /\ pc = "inline"
        /\ running[Main] = Idle /\ pool = 0
    BY <1>9, <1>p DEF Inline, PlaceInv
  <2>2. CASE submitted' = submitted /\ running' = running
    <3>1. PlaceInv'
      BY <1>9, <2>1, <2>2, <1>p DEF Inline, PlaceInv, PoolIdle, callVars, handleVars
    <3> QED BY <1>9, <2>1, <2>2, <3>1, <1>t, QuietStep DEF Inline, callVars
  <2>3. CASE /\ submitted' = submitted + 1 /\ pc' = pc
             /\ running' = [running EXCEPT ![Main].tasks = <<submitted'>>]
    <3> DEFINE r == [running[Main] EXCEPT !.tasks = <<submitted'>>]
    <3>1. running' = [running EXCEPT ![Main] = r]
      BY <2>3
    <3>2. r = [tasks |-> <<submitted'>>, read |-> 0, lane |-> 0]
      BY <2>1 DEF Idle
    <3>3. r = [tasks |-> r.tasks, read |-> r.read, lane |-> r.lane]
          /\ r.lane = running[Main].lane
      BY <2>1, <3>2 DEF Idle
    <3>4. /\ UNCHANGED <<handle, use_mmap, busy, mask, pc, pool, opened, lanes, queue, outcome>>
          /\ submitted' \in Nat /\ pc = "inline" /\ Main \in {Main} \union PoolThreads
      BY <2>1, <2>3, <1>t DEF callVars, handleVars
    <3> HIDE DEF r
    <3> QED BY <3>1, <3>3, <3>4, ThreadStep
  <2> QED BY <1>9, <2>2, <2>3 DEF Inline
<1>10. CASE OpenCell \/ ReadCell \/ AbandonDictionary \/ UNCHANGED vars
  <2>1. UNCHANGED <<handle, use_mmap, busy, mask, outcome, pc, pool, opened, lanes,
                    submitted, queue, running>>
    BY <1>10 DEF OpenCell, ReadCell, AbandonDictionary, callVars, handleVars, poolVars, vars
  <2>2. PlaceInv'
    BY <2>1, <1>p, SameTasks DEF PlaceInv, PoolIdle
  <2> QED BY <2>1, <2>2, <1>t, QuietStep
<1>11. CASE StringsDone \/ Join \/ Report \/ Raise \/ Unwind \/ CleanupPool
  <2>1. /\ UNCHANGED <<handle, use_mmap, busy, mask, outcome, opened, lanes, submitted,
                       queue, running>>
        /\ pool' = pool \/ (PoolIdle /\ pool' = 0)
        /\ pc # "idle"
        /\ \/ pc = "strings" /\ pool = 0 /\ pc' = "report"
           \/ pc = "strings" /\ pool # 0 /\ pc' = "rest" /\ pool' = pool
           \/ pc = "rest" /\ pc' = "report" /\ pool' = 0
           \/ pc = "report" /\ pc' \in {"signal", "return"}
           \/ pc' = "signal"
           \/ pc = "signal" /\ pc' = "unwind"
           \/ pc' = pc /\ pc \in {"return", "unwind"}
    BY <1>11 DEF StringsDone, Join, Report, Raise, Unwind, CleanupPool,
                 callVars, handleVars, poolVars
  <2>2. PlaceInv'
    BY <2>1, <1>p, SameTasks DEF PlaceInv, PoolIdle
  <2> QED BY <2>1, <2>2, <1>t, QuietStep
<1>12. CASE CleanupReaders
  <2>1. /\ UNCHANGED <<handle, use_mmap, mask, pool, lanes, submitted, queue, running>>
        /\ opened' = 0 /\ pc' = "idle" /\ outcome' # "none" /\ pool = 0
    BY <1>12 DEF CleanupReaders, MayCloseReaders, poolVars
  <2>2. PlaceInv'
    BY <2>1, <1>p DEF PlaceInv, PoolIdle
  <2> QED BY <2>1, <2>2, <1>t, QuietStep
<1> QED
  BY <1>1, <1>2, <1>3, <1>4, <1>5, <1>6, <1>7, <1>8, <1>9, <1>10, <1>11, <1>12
  DEF Next, RThread, Thread

\* CollectInv holds throughout, for any row groups, columns and threads.
THEOREM CollectInvariant == Spec => []CollectInv
BY InitCollect, NextCollect, PTL DEF Spec

\* Without mmap no two threads ever read through the same reader, for any number
\* of threads and tasks: a lane is in the queue once or in the hands of one
\* thread, and each lane has the reader of its own number.
THEOREM BufferedReaderIsPrivateHolds == Spec => []BufferedReaderIsPrivate
<1>1. CollectInv => BufferedReaderIsPrivate
  <2> SUFFICES ASSUME CollectInv, ~use_mmap
               PROVE  /\ \A v, w \in PoolThreads :
                           v # w /\ running[v] # Idle /\ running[w] # Idle =>
                             ReaderOf(v) # ReaderOf(w)
                      /\ \A w \in PoolThreads : running[w] # Idle /\ MainReads => ReaderOf(w) # 0
    BY DEF BufferedReaderIsPrivate
  <2>1. CASE pool = 0
    BY <2>1 DEF CollectInv, PlaceInv, PoolIdle
  <2>2. CASE pool # 0
    BY <2>2 DEF CollectInv, PlaceInv, LaneInv, ReaderOf
  <2> QED BY <2>1, <2>2
<1> QED BY <1>1, CollectInvariant, PTL

\* The cleanup of a collect, normal or after an R error, frees readers and tasks
\* only when no thread of the pool can still touch them, for every instance.
THEOREM NothingFreedInUseHolds == Spec => []NothingFreedInUse
<1>1. CollectInv => NothingFreedInUse
  <2> SUFFICES ASSUME CollectInv, ~PoolIdle
               PROVE  /\ pool # 0 /\ handle = "open" /\ pc # "idle"
                      /\ \A w \in PoolThreads : ReaderOf(w) <= opened
                      /\ lanes # <<>> => \A i \in DOMAIN queue : queue[i] <= opened
    BY DEF NothingFreedInUse
  <2>1. pool # 0 /\ handle = "open" /\ pc # "idle"
    BY DEF CollectInv, PlaceInv
  <2>2. opened \in Nat /\ DOMAIN queue = 1..Len(queue)
    BY DEF CollectInv, CollectTypes
  <2> QED BY <2>1, <2>2 DEF CollectInv, LaneInv, ReaderOf
<1> QED BY <1>1, CollectInvariant, PTL
===============================================================================
