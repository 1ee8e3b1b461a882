--------------------------- MODULE WorkerPoolProofs ---------------------------
(***************************************************************************)
(* Theorems about WorkerPool, for any number of workers, any capacity and  *)
(* any number of tasks, and about the creation of the pool.                *)
(***************************************************************************)
EXTENDS WorkerPool, PoolCreate, FiniteSetTheorems, TLAPS

Busy == {w \in Workers : wpc[w] \in {"run", "ran"}}

\* The client's current call: how many tasks it still has to enqueue.
CallInv ==
  /\ left + submitted <= MaxTasks
  /\ cpc \in {"submit", "submit_sleep"} => left >= 1
  /\ cpc \notin {"submit", "submit_sleep", "batch", "batch_sleep"} => left = 0

\* The queue holds the last queue_count tasks, oldest at the head.
RingInv ==
  /\ queue_count <= submitted
  /\ queue_tail = Wrap(queue_head + queue_count)
  /\ \A k \in 0..queue_count - 1 : QueuedAt(k) = submitted - queue_count + 1 + k

\* A worker has a task exactly while it executes it; the task has left the
\* queue, and no two workers have the same one.
HeldInv ==
  /\ \A w \in Workers : wtask[w] # NoTask <=> wpc[w] \in {"run", "ran"}
  /\ \A w \in Workers : wtask[w] <= submitted - queue_count
  /\ \A v, w \in Workers : v # w /\ wtask[v] # NoTask => wtask[v] # wtask[w]

RanInv ==
  \A t \in Tasks :
    ran[t] = IF /\ t <= submitted - queue_count
                /\ ~ \E w \in Workers : wpc[w] = "run" /\ wtask[w] = t
             THEN 1 ELSE 0

ActiveInv == IsFiniteSet(Busy) /\ active_tasks = Cardinality(Busy)

PoolInv == TypeOK /\ CallInv /\ RingInv /\ HeldInv /\ RanInv /\ ActiveInv

-------------------------------------------------------------------------------
\* Indices below twice the capacity wrap at most once.
LEMMA WrapValue ==
  ASSUME NEW i \in Nat, i < 2 * Capacity
  PROVE  Wrap(i) = IF i < Capacity THEN i ELSE i - Capacity
<1>1. CASE i < Capacity
  BY <1>1, PoolAssumption DEF Wrap
<1>2. CASE i >= Capacity
  <2>1. (i - Capacity) % Capacity = i - Capacity
    BY <1>2, PoolAssumption
  <2> QED BY <1>2, <2>1, PoolAssumption DEF Wrap
<1> QED BY <1>1, <1>2, PoolAssumption
\* The slot of the k-th queued task after one task is taken from the head.
LEMMA WrapShift ==
  ASSUME NEW h \in 0..Capacity - 1, NEW k \in 0..Capacity - 1
  PROVE  /\ Wrap(h + k) \in 0..Capacity - 1
         /\ Wrap(h + Capacity) = h
         /\ Wrap(Wrap(h + 1) + k) = Wrap(h + (k + 1))
<1>1. /\ h + k < 2 * Capacity /\ h + k \in Nat
      /\ h + Capacity < 2 * Capacity /\ h + Capacity \in Nat
      /\ h + 1 < 2 * Capacity /\ h + 1 \in Nat
      /\ h + (k + 1) < 2 * Capacity /\ h + (k + 1) \in Nat
  BY PoolAssumption
<1>2. Wrap(h + 1) = IF h + 1 < Capacity THEN h + 1 ELSE 0
  BY <1>1, WrapValue, PoolAssumption
<1>3. Wrap(h + 1) + k \in Nat /\ Wrap(h + 1) + k < 2 * Capacity
  BY <1>2, PoolAssumption
<1> QED BY <1>1, <1>2, <1>3, WrapValue, PoolAssumption

\* An index that moves on by one wraps the way the code's modulo does.
LEMMA WrapNext ==
  ASSUME NEW h \in 0..Capacity - 1
  PROVE  Wrap(h + 1) \in 0..Capacity - 1
<1>1. h + 1 \in Nat /\ h + 1 < 2 * Capacity
  BY PoolAssumption
<1> QED BY <1>1, WrapValue, PoolAssumption

-------------------------------------------------------------------------------
\* The pool carquet_worker_pool_create() returns.
LEMMA InitPool == Init => PoolInv
<1> SUFFICES ASSUME Init PROVE PoolInv
  OBVIOUS
<1> USE PoolAssumption DEF Init
<1>1. TypeOK
  <2>1. /\ queue \in [0..Capacity - 1 -> Tasks \union {NoTask}]
        /\ wpc \in [Workers -> {"lock", "sleep", "run", "ran", "exit"}]
        /\ wtask \in [Workers -> Tasks \union {NoTask}]
        /\ ran \in [Tasks -> Nat]
    OBVIOUS
  <2>2. /\ queue_head \in 0..Capacity - 1
        /\ queue_tail \in 0..Capacity - 1
        /\ queue_count \in 0..Capacity
        /\ active_tasks \in Nat
        /\ left \in 0..MaxTasks
        /\ submitted \in 0..MaxTasks
    OBVIOUS
  <2> QED BY <2>1, <2>2 DEF TypeOK
<1>2. CallInv /\ HeldInv /\ RanInv
  BY DEF CallInv, HeldInv, RanInv, NoTask, Tasks
<1>3. RingInv
  BY WrapValue DEF RingInv
<1>4. Busy = {}
  BY DEF Busy
<1>5. ActiveInv
  BY <1>4, FS_EmptySet DEF ActiveInv
<1> QED BY <1>1, <1>2, <1>3, <1>5 DEF PoolInv

\* One worker becomes busy.
LEMMA BusyGrows ==
  ASSUME ActiveInv, NEW w \in Workers, w \notin Busy, Busy' = Busy \union {w},
         active_tasks' = active_tasks + 1
  PROVE  ActiveInv'
BY FS_AddElement DEF ActiveInv

\* One worker stops being busy; the counter was at least one.
LEMMA BusyShrinks ==
  ASSUME ActiveInv, NEW w \in Busy, Busy' = Busy \ {w},
         active_tasks' = active_tasks - 1
  PROVE  ActiveInv' /\ active_tasks >= 1 /\ active_tasks \in Nat
<1>1. IsFiniteSet(Busy \ {w}) /\ Cardinality(Busy \ {w}) = Cardinality(Busy) - 1
  BY FS_RemoveElement DEF ActiveInv
<1>2. Cardinality(Busy) \in Nat /\ Cardinality(Busy \ {w}) \in Nat
  BY <1>1, FS_CardinalityType DEF ActiveInv
<1> QED BY <1>1, <1>2 DEF ActiveInv

\* Enqueueing n tasks, when there is room for them, keeps the queue in order.
LEMMA EnqueueKeepsRing ==
  ASSUME TypeOK, CallInv, RingInv,
         NEW n \in Nat, n <= Capacity - queue_count, n <= left,
         Enqueue(n)
  PROVE  /\ RingInv'
         /\ queue' \in [0..Capacity - 1 -> Tasks \union {NoTask}]
         /\ queue_head' \in 0..Capacity - 1
         /\ queue_tail' \in 0..Capacity - 1
         /\ queue_count' \in 0..Capacity
         /\ submitted' \in 0..MaxTasks
         /\ submitted' - queue_count' = submitted - queue_count
<1> USE PoolAssumption
<1>1. queue_head \in 0..Capacity - 1 /\ queue_tail \in 0..Capacity - 1
      /\ queue_count \in 0..Capacity /\ submitted \in 0..MaxTasks
      /\ left \in 0..MaxTasks /\ left + submitted <= MaxTasks
  BY DEF TypeOK, CallInv
<1>2. queue_head' = queue_head /\ queue_count' = queue_count + n
      /\ submitted' = submitted + n /\ queue_tail' = Wrap(queue_tail + n)
  BY DEF Enqueue
<1>3. queue_tail = IF queue_head + queue_count < Capacity
                     THEN queue_head + queue_count
                     ELSE queue_head + queue_count - Capacity
  BY <1>1, WrapValue DEF RingInv
<1>4. queue_tail' = IF queue_tail + n < Capacity
                      THEN queue_tail + n ELSE queue_tail + n - Capacity
  BY <1>1, <1>2, WrapValue
<1>5. Wrap(queue_head' + queue_count')
        = IF queue_head + queue_count + n < Capacity
            THEN queue_head + queue_count + n
            ELSE queue_head + queue_count + n - Capacity
  BY <1>1, <1>2, WrapValue
<1>6. queue_tail' = Wrap(queue_head' + queue_count')
  <2>1. CASE queue_head + queue_count + n < 2 * Capacity
    BY <2>1, <1>1, <1>3, <1>4, <1>5
  <2> QED BY <2>1, <1>1
<1>7. ASSUME NEW i \in 0..Capacity - 1
      PROVE  /\ queue'[i] = IF Wrap(i + Capacity - queue_tail) < n
                              THEN submitted + 1 + Wrap(i + Capacity - queue_tail)
                              ELSE queue[i]
             /\ Wrap(i + Capacity - queue_tail)
                  = IF i < queue_tail THEN i + Capacity - queue_tail
                                      ELSE i - queue_tail
  <2>1. i + Capacity - queue_tail \in Nat /\ i + Capacity - queue_tail < 2 * Capacity
    BY <1>1
  <2>2. Wrap(i + Capacity - queue_tail)
          = IF i + Capacity - queue_tail < Capacity
              THEN i + Capacity - queue_tail ELSE i - queue_tail
    BY <2>1, WrapValue, <1>1
  <2> QED BY <2>2, <1>1 DEF Enqueue
<1>8. queue' \in [0..Capacity - 1 -> Tasks \union {NoTask}]
  <2>1. ASSUME NEW i \in 0..Capacity - 1
        PROVE  queue'[i] \in Tasks \union {NoTask}
    <3>1. Wrap(i + Capacity - queue_tail) \in Nat
      BY <1>1, <1>7
    <3>2. CASE Wrap(i + Capacity - queue_tail) < n
      <4>1. submitted + 1 + Wrap(i + Capacity - queue_tail) \in 1..MaxTasks
        BY <1>1, <3>1, <3>2
      <4> QED BY <4>1, <3>2, <1>7 DEF Tasks
    <3>3. CASE ~ (Wrap(i + Capacity - queue_tail) < n)
      BY <3>3, <1>7 DEF TypeOK
    <3> QED BY <3>2, <3>3
  <2>2. queue' = [i \in 0..Capacity - 1 |-> queue'[i]]
    BY DEF Enqueue
  <2> QED BY <2>1, <2>2
<1>9. ASSUME NEW k \in 0..queue_count' - 1
      PROVE  QueuedAt(k)' = submitted' - queue_count' + 1 + k
  <2>1. k \in 0..Capacity - 1 /\ k < queue_count + n
    BY <1>1, <1>2
  <2>2. Wrap(queue_head + k) = IF queue_head + k < Capacity
                                 THEN queue_head + k ELSE queue_head + k - Capacity
    BY <2>1, <1>1, WrapValue
  <2>3. QueuedAt(k)' = queue'[Wrap(queue_head + k)]
    BY <1>2 DEF QueuedAt, Wrap
  <2>4. Wrap(queue_head + k) \in 0..Capacity - 1
    BY <2>1, <2>2, <1>1
  <2> DEFINE j == Wrap(queue_head + k)
  <2>7. Wrap(j + Capacity - queue_tail)
          = IF j < queue_tail THEN j + Capacity - queue_tail ELSE j - queue_tail
    BY <2>4, <1>7
  <2> HIDE DEF j
  <2>8. j = IF queue_head + k < Capacity
              THEN queue_head + k ELSE queue_head + k - Capacity
    BY <2>2 DEF j
  <2>5. CASE k < queue_count
    <3>1. ~ (Wrap(j + Capacity - queue_tail) < n)
      BY <2>1, <2>5, <2>7, <2>8, <1>1, <1>3
    <3>2. QueuedAt(k)' = QueuedAt(k)
      BY <3>1, <2>3, <2>4, <1>7 DEF QueuedAt, j
    <3>3. QueuedAt(k) = submitted - queue_count + 1 + k
      BY <2>1, <2>5, <1>1 DEF RingInv
    <3> QED BY <3>2, <3>3, <1>1, <1>2, <2>1
  <2>6. CASE k >= queue_count
    <3>1. Wrap(j + Capacity - queue_tail) = k - queue_count
      BY <2>1, <2>6, <2>7, <2>8, <1>1, <1>3
    <3>2. k - queue_count < n
      BY <2>1, <1>1
    <3>3. QueuedAt(k)' = submitted + 1 + (k - queue_count)
      BY <3>1, <3>2, <2>3, <2>4, <1>7 DEF j
    <3> QED BY <3>3, <1>1, <1>2, <2>1
  <2> QED BY <2>5, <2>6, <2>1, <1>1
<1>10. RingInv'
  BY <1>1, <1>2, <1>6, <1>9 DEF RingInv, Wrap
<1> QED BY <1>1, <1>2, <1>4, <1>8, <1>10
Locations == {"idle", "submit", "submit_sleep", "batch", "batch_sleep",
              "wait", "wait_sleep", "join", "gone"}

\* A step that only moves the client, or workers that execute nothing.
LEMMA ControlStep ==
  ASSUME PoolInv,
         UNCHANGED <<queueVars, active_tasks, wtask, submitted, ran>>,
         wpc' \in [Workers -> {"lock", "sleep", "run", "ran", "exit"}],
         \A w \in Workers : wpc'[w] # wpc[w] =>
            wpc[w] \notin {"run", "ran"} /\ wpc'[w] \notin {"run", "ran"},
         shutdown' \in BOOLEAN, then_wait' \in BOOLEAN,
         cpc' \in Locations, left' \in 0..MaxTasks, CallInv'
  PROVE  PoolInv'
<1> USE DEF PoolInv
<1>1. Busy' = Busy
  BY DEF Busy
<1>2. TypeOK'
  BY DEF TypeOK, queueVars, Locations
<1>3. RingInv'
  BY DEF RingInv, QueuedAt, queueVars, Wrap
<1>4. HeldInv'
  BY DEF HeldInv, queueVars
<1>5. RanInv'
  <2>1. \A t \in Tasks : (\E w \in Workers : wpc'[w] = "run" /\ wtask'[w] = t)
                         <=> (\E w \in Workers : wpc[w] = "run" /\ wtask[w] = t)
    OBVIOUS
  <2> QED BY <2>1 DEF RanInv, queueVars
<1>6. ActiveInv'
  BY <1>1 DEF ActiveInv
<1> QED BY <1>2, <1>3, <1>4, <1>5, <1>6

\* A step that enqueues n tasks and wakes workers.
LEMMA EnqueueStep ==
  ASSUME PoolInv, NEW n \in Nat, n <= Capacity - queue_count, n <= left,
         Enqueue(n), left' = left - n,
         wpc' \in [Workers -> {"lock", "sleep", "run", "ran", "exit"}],
         \A w \in Workers : wpc'[w] # wpc[w] =>
            wpc[w] \notin {"run", "ran"} /\ wpc'[w] \notin {"run", "ran"},
         UNCHANGED <<active_tasks, shutdown, wtask, then_wait, ran>>,
         cpc' \in Locations,
         cpc' \in {"submit", "submit_sleep"} => left' >= 1,
         cpc' \notin {"submit", "submit_sleep", "batch", "batch_sleep"} => left' = 0
  PROVE  PoolInv'
<1> USE DEF PoolInv
<1>1. /\ RingInv'
      /\ queue' \in [0..Capacity - 1 -> Tasks \union {NoTask}]
      /\ queue_head' \in 0..Capacity - 1
      /\ queue_tail' \in 0..Capacity - 1
      /\ queue_count' \in 0..Capacity
      /\ submitted' \in 0..MaxTasks
      /\ submitted' - queue_count' = submitted - queue_count
  BY EnqueueKeepsRing
<1>2. submitted' = submitted + n
  BY DEF Enqueue
<1>3. CallInv' /\ left' \in 0..MaxTasks
  BY <1>2, PoolAssumption DEF CallInv, TypeOK
<1>4. TypeOK'
  BY <1>1, <1>3 DEF TypeOK, Locations
<1>5. HeldInv'
  BY <1>1 DEF HeldInv
<1>6. RanInv'
  <2>1. \A t \in Tasks : (\E w \in Workers : wpc'[w] = "run" /\ wtask'[w] = t)
                         <=> (\E w \in Workers : wpc[w] = "run" /\ wtask[w] = t)
    OBVIOUS
  <2> QED BY <2>1, <1>1 DEF RanInv
<1>7. Busy' = Busy
  BY DEF Busy
<1> QED BY <1>1, <1>3, <1>4, <1>5, <1>6, <1>7 DEF ActiveInv

\* Taking the oldest task: it leaves the queue and has one new owner.
LEMMA TakeStep ==
  ASSUME PoolInv, NEW w \in Workers, WorkerTake(w)
  PROVE  PoolInv'
<1> USE PoolAssumption DEF PoolInv
<1>1. /\ wpc[w] = "lock" /\ queue_count \in 1..Capacity
      /\ queue_head \in 0..Capacity - 1 /\ submitted \in 0..MaxTasks
      /\ queue_count <= submitted
  BY DEF WorkerTake, MustSleep, MustExit, TypeOK, RingInv
<1>2. /\ queue_head' = Wrap(queue_head + 1) /\ queue_count' = queue_count - 1
      /\ queue' = queue /\ queue_tail' = queue_tail
      /\ submitted' = submitted /\ ran' = ran /\ left' = left
      /\ shutdown' = shutdown /\ then_wait' = then_wait
      /\ active_tasks' = active_tasks + 1
      /\ wtask' = [wtask EXCEPT ![w] = queue[queue_head]]
      /\ wpc' = [wpc EXCEPT ![w] = "run"]
      /\ cpc' = SignalNotFull
  BY DEF WorkerTake, Dequeue
<1>3. queue[queue_head] = submitted - queue_count + 1
  <2>1. 0 \in 0..queue_count - 1 /\ Wrap(queue_head + 0) = queue_head
    BY <1>1, WrapValue
  <2> QED BY <2>1, <1>1 DEF RingInv, QueuedAt
<1>4. queue_head' \in 0..Capacity - 1
  BY <1>1, <1>2, WrapNext
<1>5. cpc' \in Locations /\ CallInv'
  <2>1. \/ cpc = "submit_sleep" /\ cpc' = "submit"
        \/ cpc = "batch_sleep" /\ cpc' = "batch"
        \/ cpc' = cpc
    BY <1>2 DEF SignalNotFull
  <2>2. cpc \in Locations
    BY DEF TypeOK, Locations
  <2> QED BY <2>1, <2>2, <1>2 DEF CallInv, Locations
<1>6. TypeOK'
  <2>1. wtask' \in [Workers -> Tasks \union {NoTask}]
    BY <1>1, <1>2, <1>3 DEF TypeOK, Tasks
  <2>2. wpc' \in [Workers -> {"lock", "sleep", "run", "ran", "exit"}]
    BY <1>2 DEF TypeOK
  <2>3. queue_count' \in 0..Capacity /\ active_tasks' \in Nat
    BY <1>1, <1>2 DEF TypeOK
  <2> QED BY <2>1, <2>2, <2>3, <1>2, <1>4, <1>5 DEF TypeOK, Locations
<1>7. RingInv'
  <2>1. ASSUME NEW k \in 0..queue_count' - 1
        PROVE  QueuedAt(k)' = submitted' - queue_count' + 1 + k
    <3>1. k \in 0..Capacity - 1 /\ k + 1 \in 0..queue_count - 1
      BY <1>1, <1>2
    <3>2. QueuedAt(k)' = QueuedAt(k + 1)
      BY <3>1, <1>1, <1>2, WrapShift DEF QueuedAt, Wrap
    <3>3. QueuedAt(k + 1) = submitted - queue_count + 1 + (k + 1)
      BY <3>1 DEF RingInv
    <3> QED BY <3>2, <3>3, <1>1, <1>2
  <2>2. queue_tail' = Wrap(queue_head' + queue_count')
    <3>1. queue_count - 1 \in 0..Capacity - 1 /\ queue_count - 1 + 1 = queue_count
      BY <1>1
    <3>2. Wrap(Wrap(queue_head + 1) + (queue_count - 1))
            = Wrap(queue_head + (queue_count - 1 + 1))
      BY <3>1, <1>1, WrapShift
    <3> QED BY <3>1, <3>2, <1>2 DEF RingInv
  <2> QED BY <2>1, <2>2, <1>1, <1>2 DEF RingInv, Wrap
<1>8. HeldInv'
  <2>1. /\ submitted' - queue_count' = submitted - queue_count + 1
        /\ wtask'[w] = submitted - queue_count + 1 /\ wtask'[w] # NoTask
        /\ wpc'[w] = "run"
        /\ \A v \in Workers \ {w} : wtask'[v] = wtask[v] /\ wpc'[v] = wpc[v]
    BY <1>1, <1>2, <1>3 DEF TypeOK, NoTask
  <2>2. \A v \in Workers : wtask[v] <= submitted - queue_count /\ wtask[v] \in Nat
    BY DEF HeldInv, TypeOK, Tasks, NoTask
  <2> QED BY <2>1, <2>2, <1>1 DEF HeldInv
<1>9. RanInv'
  <2>1. ASSUME NEW t \in Tasks
        PROVE  ran'[t] = IF /\ t <= submitted' - queue_count'
                            /\ ~ \E v \in Workers : wpc'[v] = "run" /\ wtask'[v] = t
                         THEN 1 ELSE 0
    <3>1. wtask[w] = NoTask /\ t # NoTask
      BY <1>1 DEF HeldInv, Tasks, NoTask
    <3>2. \A v \in Workers \ {w} : wtask'[v] = wtask[v] /\ wpc'[v] = wpc[v]
      BY <1>2 DEF TypeOK
    <3>3. wtask'[w] = submitted - queue_count + 1 /\ wpc'[w] = "run"
      BY <1>2, <1>3 DEF TypeOK
    <3>4. CASE t = submitted - queue_count + 1
      BY <3>3, <3>4, <1>1, <1>2 DEF RanInv
    <3>5. CASE t # submitted - queue_count + 1
      <4>1. (\E v \in Workers : wpc'[v] = "run" /\ wtask'[v] = t)
              <=> (\E v \in Workers : wpc[v] = "run" /\ wtask[v] = t)
        BY <3>1, <3>2, <3>3, <3>5, <1>1
      <4>2. t <= submitted' - queue_count' <=> t <= submitted - queue_count
        BY <3>5, <1>1, <1>2 DEF Tasks
      <4> QED BY <4>1, <4>2, <1>2 DEF RanInv
    <3> QED BY <3>4, <3>5
  <2> QED BY <2>1 DEF RanInv
<1>10. ActiveInv'
  <2>1. w \notin Busy /\ Busy' = Busy \union {w}
    BY <1>1, <1>2 DEF Busy, TypeOK
  <2> QED BY <2>1, <1>2, BusyGrows
<1> QED BY <1>5, <1>6, <1>7, <1>8, <1>9, <1>10
\* A worker runs the task it has taken: it is counted once.
LEMMA RunStep ==
  ASSUME PoolInv, NEW w \in Workers, WorkerRun(w)
  PROVE  PoolInv'
<1> USE DEF PoolInv
<1>1. /\ wpc[w] = "run" /\ wpc' = [wpc EXCEPT ![w] = "ran"]
      /\ ran' = [ran EXCEPT ![wtask[w]] = @ + 1]
      /\ UNCHANGED <<poolVars, wtask, clientVars, submitted>>
  BY DEF WorkerRun
<1>2. wtask[w] \in Tasks /\ wtask[w] <= submitted - queue_count
  BY <1>1 DEF HeldInv, TypeOK, NoTask
<1>3. TypeOK' /\ CallInv'
  BY <1>1, <1>2 DEF TypeOK, CallInv, poolVars, queueVars, clientVars
<1>4. RingInv'
  BY <1>1 DEF RingInv, QueuedAt, Wrap, poolVars, queueVars
<1>5. HeldInv'
  BY <1>1 DEF HeldInv, TypeOK, poolVars, queueVars
<1>6. RanInv'
  <2>1. ASSUME NEW t \in Tasks
        PROVE  ran'[t] = IF /\ t <= submitted' - queue_count'
                            /\ ~ \E v \in Workers : wpc'[v] = "run" /\ wtask'[v] = t
                         THEN 1 ELSE 0
    <3>1. submitted' = submitted /\ queue_count' = queue_count /\ wtask' = wtask
      BY <1>1 DEF poolVars, queueVars
    <3>2. wpc'[w] = "ran" /\ \A v \in Workers \ {w} : wpc'[v] = wpc[v]
      BY <1>1 DEF TypeOK
    <3>3. CASE t = wtask[w]
      <4>1. ran[t] = 0
        BY <3>3, <1>1 DEF RanInv
      <4>2. ran'[t] = 1
        BY <3>3, <4>1, <1>1 DEF TypeOK
      <4>3. \A v \in Workers \ {w} : wtask[v] # t
        BY <3>3, <1>2 DEF HeldInv, Tasks, NoTask
      <4> QED BY <3>1, <3>2, <3>3, <4>2, <4>3, <1>2
    <3>4. CASE t # wtask[w]
      <4>1. ran'[t] = ran[t]
        BY <3>4, <1>1 DEF TypeOK
      <4> QED BY <3>1, <3>2, <3>4, <4>1 DEF RanInv
    <3> QED BY <3>3, <3>4
  <2> QED BY <2>1 DEF RanInv
<1>7. Busy' = Busy
  BY <1>1 DEF Busy, TypeOK
<1>8. ActiveInv'
  BY <1>7, <1>1 DEF ActiveInv, poolVars
<1> QED BY <1>3, <1>4, <1>5, <1>6, <1>8

\* A worker reports its task as done, which leaves the others alone.
LEMMA FinishStep ==
  ASSUME PoolInv, NEW w \in Workers, WorkerFinish(w)
  PROVE  PoolInv'
<1> USE DEF PoolInv
<1>1. /\ wpc[w] = "ran" /\ wpc' = [wpc EXCEPT ![w] = "lock"]
      /\ wtask' = [wtask EXCEPT ![w] = NoTask]
      /\ active_tasks' = active_tasks - 1
      /\ UNCHANGED <<queueVars, shutdown, left, then_wait, submitted, ran>>
      /\ cpc' = IF AllDone(active_tasks') THEN SignalDone ELSE cpc
  BY DEF WorkerFinish
<1>2. cpc' \in Locations /\ CallInv'
  <2>1. (cpc = "wait_sleep" /\ cpc' = "wait") \/ cpc' = cpc
    BY <1>1 DEF SignalDone
  <2> QED BY <2>1, <1>1 DEF CallInv, TypeOK, Locations
<1>3. w \in Busy /\ Busy' = Busy \ {w}
  BY <1>1 DEF Busy, TypeOK
<1>4. ActiveInv' /\ active_tasks >= 1 /\ active_tasks \in Nat
  BY <1>1, <1>3, BusyShrinks
<1>5. TypeOK'
  BY <1>1, <1>2, <1>4 DEF TypeOK, Locations, queueVars
<1>6. RingInv'
  BY <1>1 DEF RingInv, QueuedAt, Wrap, queueVars
<1>7. HeldInv'
  BY <1>1, PoolAssumption DEF HeldInv, TypeOK, RingInv, queueVars, NoTask
<1>8. RanInv'
  <2>1. \A t \in Tasks : (\E v \in Workers : wpc'[v] = "run" /\ wtask'[v] = t)
                         <=> (\E v \in Workers : wpc[v] = "run" /\ wtask[v] = t)
    BY <1>1 DEF TypeOK
  <2> QED BY <2>1, <1>1 DEF RanInv, queueVars
<1> QED BY <1>2, <1>4, <1>5, <1>6, <1>7, <1>8

\* Every step of the pool keeps the invariant.
LEMMA NextPool == PoolInv /\ [Next]_vars => PoolInv'
<1> SUFFICES ASSUME PoolInv, [Next]_vars PROVE PoolInv'
  OBVIOUS
<1> USE PoolAssumption DEF PoolInv
<1>1. ASSUME NEW w \in Workers,
             WorkerSleep(w) \/ WorkerExit(w) \/ SpuriousWorker(w)
      PROVE  PoolInv'
  <2>1. /\ UNCHANGED <<poolVars, wtask, clientVars, submitted, ran>>
        /\ wpc[w] \in {"lock", "sleep"}
        /\ wpc' \in [Workers -> {"lock", "sleep", "run", "ran", "exit"}]
        /\ wpc'[w] \in {"lock", "sleep", "exit"}
        /\ \A v \in Workers \ {w} : wpc'[v] = wpc[v]
    BY <1>1 DEF WorkerSleep, WorkerExit, SpuriousWorker, TypeOK
  <2>2. CallInv' /\ shutdown' \in BOOLEAN /\ then_wait' \in BOOLEAN
        /\ cpc' \in Locations /\ left' \in 0..MaxTasks
    BY <2>1 DEF CallInv, TypeOK, Locations, poolVars, clientVars
  <2> QED BY <2>1, <2>2, ControlStep DEF poolVars
<1>2. ASSUME NEW w \in Workers, WorkerTake(w) PROVE PoolInv'
  BY <1>2, TakeStep
<1>3. ASSUME NEW w \in Workers, WorkerRun(w) PROVE PoolInv'
  BY <1>3, RunStep
<1>4. ASSUME NEW w \in Workers, WorkerFinish(w) PROVE PoolInv'
  BY <1>4, FinishStep
<1>5. CASE \/ CallSubmit \/ CallParallelFor \/ CallSubmitBatch \/ CallWait
           \/ SubmitBlock \/ WaitBlock \/ WaitReturn \/ DestroyJoined
           \/ SpuriousClient
  <2>1. UNCHANGED <<poolVars, workerVars, submitted, ran>>
    BY <1>5 DEF CallSubmit, CallParallelFor, CallSubmitBatch, CallWait, SubmitBlock,
                WaitBlock, WaitReturn, DestroyJoined, SpuriousClient
  <2>2. CallInv' /\ then_wait' \in BOOLEAN /\ cpc' \in Locations
        /\ left' \in 0..MaxTasks
    <3>6. submitted' = submitted /\ submitted \in Nat /\ submitted <= MaxTasks
          /\ MaxTasks \in Nat
      BY <2>1, PoolAssumption DEF TypeOK
    <3>7. CASE CallSubmit \/ CallParallelFor \/ CallSubmitBatch
      <4>1. then_wait' \in BOOLEAN
        BY <3>7, Zenon DEF CallSubmit, CallParallelFor, CallSubmitBatch
      <4>2. left' \in 0..MaxTasks - submitted
        BY <3>7, <3>6 DEF CallSubmit, CallParallelFor, CallSubmitBatch
      <4>3. left' \in 0..MaxTasks /\ left' + submitted' <= MaxTasks
        <5> DEFINE l == left'
        <5>1. /\ l \in Nat /\ submitted \in Nat /\ MaxTasks \in Nat
              /\ l <= MaxTasks - submitted
          BY <4>2, <3>6
        <5> HIDE DEF l
        <5>2. l \in 0..MaxTasks /\ l + submitted <= MaxTasks
          BY <5>1
        <5> QED BY <5>2, <3>6 DEF l
      <4>4. \/ cpc' = "submit" /\ left' # 0
            \/ cpc' = "wait" /\ left' = 0
            \/ cpc' = "batch"
        BY <3>7 DEF CallSubmit, CallParallelFor, CallSubmitBatch
      <4>5. CallInv' /\ cpc' \in Locations
        BY <4>3, <4>4 DEF CallInv, Locations
      <4> QED BY <4>1, <4>3, <4>5
    <3> USE <2>1 DEF CallInv, TypeOK, Locations
    <3>4. CASE CallWait \/ SubmitBlock \/ WaitBlock \/ WaitReturn \/ DestroyJoined
      BY <3>4 DEF CallWait, SubmitBlock, WaitBlock, WaitReturn, DestroyJoined
    <3>5. CASE SpuriousClient
      <4>1. /\ left' = left /\ then_wait' = then_wait
            /\ \/ cpc = "submit_sleep" /\ cpc' = "submit"
               \/ cpc = "batch_sleep" /\ cpc' = "batch"
               \/ cpc = "wait_sleep" /\ cpc' = "wait"
        BY <3>5 DEF SpuriousClient
      <4> QED BY <4>1
    <3> QED BY <1>5, <3>7, <3>4, <3>5
  <2> QED BY <2>1, <2>2, ControlStep DEF poolVars, workerVars, TypeOK
<1>6. CASE SubmitEnqueue
  <2>1. 1 <= Capacity - queue_count /\ 1 <= left
    BY <1>6 DEF SubmitEnqueue, Full, CallInv, TypeOK
  <2>2. /\ wpc' \in [Workers -> {"lock", "sleep", "run", "ran", "exit"}]
        /\ \A w \in Workers : wpc'[w] # wpc[w] =>
             wpc[w] \notin {"run", "ran"} /\ wpc'[w] \notin {"run", "ran"}
    <3>1. wpc' \in SignalWork
      BY <1>6 DEF SubmitEnqueue
    <3>2. wpc' = wpc \/ \E w \in Sleeping : wpc' = [wpc EXCEPT ![w] = "lock"]
      BY <3>1 DEF SignalWork
    <3> QED BY <3>2 DEF Sleeping, TypeOK
  <2>3. /\ cpc' \in Locations
        /\ cpc' \in {"submit", "submit_sleep"} => left' >= 1
        /\ cpc' \notin {"submit", "submit_sleep", "batch", "batch_sleep"} => left' = 0
    BY <1>6, <2>1 DEF SubmitEnqueue, Locations, TypeOK
  <2>4. Enqueue(1) /\ left' = left - 1
        /\ UNCHANGED <<active_tasks, shutdown, wtask, then_wait, ran>>
    BY <1>6 DEF SubmitEnqueue
  <2> HIDE DEF PoolInv
  <2> QED BY <2>1, <2>2, <2>3, <2>4, EnqueueStep
<1>7. CASE SubmitBatch
  <2> DEFINE n == IF left > BatchRoom THEN BatchRoom ELSE left
  <2>1. n \in Nat /\ n <= Capacity - queue_count /\ n <= left
    BY DEF BatchRoom, TypeOK
  <2>2. Enqueue(n) /\ left' = left - n /\ wpc' = BroadcastWork
        /\ cpc' = (IF left' > 0 THEN "batch_sleep" ELSE "idle")
        /\ UNCHANGED <<active_tasks, shutdown, wtask, then_wait, ran>>
    BY <1>7 DEF SubmitBatch
  <2> HIDE DEF n
  <2>3. /\ wpc' \in [Workers -> {"lock", "sleep", "run", "ran", "exit"}]
        /\ \A w \in Workers : wpc'[w] # wpc[w] =>
             wpc[w] \notin {"run", "ran"} /\ wpc'[w] \notin {"run", "ran"}
    BY <2>2 DEF BroadcastWork, TypeOK
  <2>4. /\ cpc' \in Locations
        /\ cpc' \in {"submit", "submit_sleep"} => left' >= 1
        /\ cpc' \notin {"submit", "submit_sleep", "batch", "batch_sleep"} => left' = 0
    BY <2>1, <2>2 DEF Locations, TypeOK
  <2> HIDE DEF PoolInv
  <2> QED BY <2>1, <2>2, <2>3, <2>4, EnqueueStep
<1>8. CASE DestroyBegin
  <2>1. /\ UNCHANGED <<queueVars, active_tasks, wtask, left, then_wait, submitted, ran>>
        /\ shutdown' = TRUE /\ cpc' = "join" /\ cpc = "idle" /\ wpc' = BroadcastWork
    BY <1>8 DEF DestroyBegin
  <2>2. /\ wpc' \in [Workers -> {"lock", "sleep", "run", "ran", "exit"}]
        /\ \A w \in Workers : wpc'[w] # wpc[w] =>
             wpc[w] \notin {"run", "ran"} /\ wpc'[w] \notin {"run", "ran"}
    BY <2>1 DEF BroadcastWork, TypeOK
  <2>3. CallInv' /\ then_wait' \in BOOLEAN /\ cpc' \in Locations /\ left' \in 0..MaxTasks
    BY <2>1 DEF CallInv, TypeOK, Locations
  <2> QED BY <2>1, <2>2, <2>3, ControlStep
<1>9. CASE UNCHANGED vars
  <2>1. UNCHANGED <<queueVars, active_tasks, shutdown, wpc, wtask, cpc, left,
                    then_wait, submitted, ran>>
    BY <1>9 DEF vars, poolVars, workerVars, clientVars
  <2>2. CallInv'
    BY <2>1 DEF CallInv
  <2> QED BY <2>1, <2>2, ControlStep DEF TypeOK, Locations
<1> QED
  BY <1>1, <1>2, <1>3, <1>4, <1>5, <1>6, <1>7, <1>8, <1>9
  DEF Next, WorkerStep, ClientStep, ClientCall, Terminated
\* The invariant holds in every reachable state of the pool.
THEOREM PoolInvariant == Spec => []PoolInv
BY InitPool, NextPool, PTL DEF Spec

\* The pool's variables keep their types: the circular queue's indices stay
\* in range and its count between zero and the capacity, and active_tasks
\* never goes below zero.
THEOREM TypeCorrect == Spec => []TypeOK
<1>1. PoolInv => TypeOK
  BY DEF PoolInv
<1> QED BY <1>1, PoolInvariant, PTL

\* Every submitted task is executed exactly once, for any number of workers,
\* any capacity and any number of tasks.
THEOREM ExactlyOnceHolds == Spec => []ExactlyOnce
<1>1. PoolInv => ExactlyOnce
  <2> SUFFICES ASSUME PoolInv, NEW t \in Tasks
               PROVE  ran[t] = IF /\ t <= submitted
                                  /\ t \notin Queued
                                  /\ ~ \E w \in Workers : wpc[w] = "run" /\ wtask[w] = t
                               THEN 1 ELSE 0
    BY DEF ExactlyOnce
  <2>1. queue_count \in Nat /\ submitted \in Nat /\ queue_count <= submitted
        /\ t \in Nat
    BY PoolAssumption DEF PoolInv, TypeOK, RingInv, Tasks
  <2>2. t \in Queued <=> (t <= submitted /\ t > submitted - queue_count)
    <3>1. ASSUME t \in Queued PROVE t <= submitted /\ t > submitted - queue_count
      <4>1. PICK k \in 0..queue_count - 1 : t = QueuedAt(k)
        BY <3>1 DEF Queued
      <4> QED BY <4>1, <2>1 DEF PoolInv, RingInv
    <3>2. ASSUME t <= submitted, t > submitted - queue_count PROVE t \in Queued
      <4>1. t - (submitted - queue_count) - 1 \in 0..queue_count - 1
        BY <3>2, <2>1
      <4>2. QueuedAt(t - (submitted - queue_count) - 1) = t
        BY <4>1, <2>1 DEF PoolInv, RingInv
      <4> QED BY <4>1, <4>2 DEF Queued
    <3> QED BY <3>1, <3>2
  <2> QED BY <2>1, <2>2 DEF PoolInv, RanInv
<1> QED BY <1>1, PoolInvariant, PTL

\* carquet_worker_pool_wait returns only when every submitted task has run
\* and no worker is inside one.
THEOREM WaitMeansDoneHolds == Spec => WaitMeansDone
<1> DEFINE Done == cpc = "wait" /\ cpc' = "idle" =>
                     /\ \A t \in 1..submitted : ran[t] = 1
                     /\ \A w \in Workers : wpc[w] \notin {"run", "ran"}
<1>1. PoolInv /\ [Next]_vars => [Done]_vars
  <2> SUFFICES ASSUME PoolInv, Next, cpc = "wait", cpc' = "idle"
               PROVE  /\ \A t \in 1..submitted : ran[t] = 1
                      /\ \A w \in Workers : wpc[w] \notin {"run", "ran"}
    OBVIOUS
  <2>1. ~StillBusy
    <3>1. ASSUME NEW w \in Workers, WorkerStep(w) \/ SpuriousWorker(w) PROVE FALSE
      BY <3>1 DEF WorkerStep, SpuriousWorker, WorkerSleep, WorkerExit, WorkerTake,
                  WorkerRun, WorkerFinish, SignalNotFull, SignalDone, clientVars
    <3>2. ~ClientCall /\ ~SpuriousClient /\ ~Terminated
      BY DEF ClientCall, CallSubmit, CallParallelFor, CallSubmitBatch, CallWait,
             DestroyBegin, SpuriousClient, Terminated
    <3>3. ClientStep
      BY <3>1, <3>2 DEF Next
    <3> QED BY <3>3 DEF ClientStep, SubmitBlock, SubmitEnqueue, SubmitBatch,
                        WaitBlock, WaitReturn, DestroyJoined
  <2>2. queue_count = 0 /\ active_tasks = 0
    BY <2>1, PoolAssumption DEF StillBusy, PoolInv, TypeOK
  <2>3. Busy = {}
    BY <2>2, FS_EmptySet DEF PoolInv, ActiveInv
  <2>4. \A w \in Workers : wpc[w] \notin {"run", "ran"}
    BY <2>3 DEF Busy
  <2>5. ASSUME NEW t \in 1..submitted PROVE ran[t] = 1
    <3>1. t \in Tasks /\ t <= submitted - queue_count
      BY <2>2, PoolAssumption DEF PoolInv, TypeOK, Tasks
    <3> QED BY <3>1, <2>4 DEF PoolInv, RanInv
  <2> QED BY <2>4, <2>5
<1> QED BY <1>1, PoolInvariant, PTL DEF Spec, WaitMeansDone

-------------------------------------------------------------------------------
(* No sleeper is needed.                                                   *)

Awake == {w \in Workers : wpc[w] = "lock"}

\* Moving one worker in or out of the loop test changes the number of awake
\* workers by one.
LEMMA AwakeCount ==
  /\ IsFiniteSet(Awake) /\ Cardinality(Awake) \in Nat
  /\ \A w \in Workers \ Awake : Cardinality(Awake \union {w}) = Cardinality(Awake) + 1
  /\ \A w \in Awake : Cardinality(Awake \ {w}) = Cardinality(Awake) - 1
<1>1. IsFiniteSet(Awake)
  BY PoolAssumption, FS_Subset DEF Awake
<1> QED BY <1>1, FS_CardinalityType, FS_AddElement, FS_RemoveElement DEF Awake

\* Awake workers can only be too few when tasks are added or a worker leaves
\* the loop test; each such step either takes a task, finds the queue empty,
\* or wakes a sleeper.
LEMMA NextAwake ==
  ASSUME TypeOK, NoSleeperIsNeeded, [Next]_vars, queue_count' \in Nat
  PROVE  NoSleeperIsNeeded'
<1> USE DEF TypeOK
<1>0. NoSleeperIsNeeded <=> (Sleeping # {} => queue_count <= Cardinality(Awake))
  BY DEF NoSleeperIsNeeded, Awake
<1>a. NoSleeperIsNeeded' <=> (Sleeping' # {} => queue_count' <= Cardinality(Awake'))
  BY DEF NoSleeperIsNeeded, Awake
<1>b. queue_count \in Nat
  BY PoolAssumption
<1>c. IsFiniteSet(Awake') /\ Cardinality(Awake') \in Nat
  BY PoolAssumption, FS_Subset, FS_CardinalityType DEF Awake
<1>1. CASE queue_count' = 0
  BY <1>1, <1>a, <1>c
<1>2. ASSUME NEW w \in Workers, WorkerSleep(w) \/ WorkerExit(w)
      PROVE  queue_count' = 0
  BY <1>2, <1>b DEF WorkerSleep, WorkerExit, MustSleep, MustExit, poolVars, queueVars
<1>3. ASSUME NEW w \in Workers, WorkerTake(w) PROVE NoSleeperIsNeeded'
  <2>1. /\ Awake' = Awake \ {w} /\ w \in Awake /\ Sleeping' = Sleeping
        /\ queue_count' = queue_count - 1
    BY <1>3 DEF WorkerTake, Dequeue, Awake, Sleeping
  <2> QED BY <2>1, <1>0, <1>a, <1>b, AwakeCount
<1>4. ASSUME NEW w \in Workers, WorkerRun(w) PROVE NoSleeperIsNeeded'
  <2>1. Awake' = Awake /\ Sleeping' = Sleeping /\ queue_count' = queue_count
    BY <1>4 DEF WorkerRun, Awake, Sleeping, poolVars, queueVars
  <2> QED BY <2>1, <1>0, <1>a
<1>5. ASSUME NEW w \in Workers, WorkerFinish(w) \/ SpuriousWorker(w)
      PROVE  NoSleeperIsNeeded'
  <2>1. /\ Awake' = Awake \union {w} /\ w \in Workers \ Awake
        /\ Sleeping' \subseteq Sleeping /\ queue_count' = queue_count
    BY <1>5 DEF WorkerFinish, SpuriousWorker, Awake, Sleeping, poolVars, queueVars
  <2> QED BY <2>1, <1>0, <1>a, <1>b, AwakeCount
<1>6. CASE SubmitEnqueue
  <2>1. wpc' \in SignalWork /\ queue_count' = queue_count + 1
    BY <1>6 DEF SubmitEnqueue, Enqueue
  <2>2. CASE Sleeping = {}
    <3>1. Sleeping' = {}
      BY <2>1, <2>2 DEF SignalWork, Sleeping
    <3> QED BY <3>1, <1>a
  <2>3. CASE Sleeping # {}
    <3>1. PICK w \in Sleeping : wpc' = [wpc EXCEPT ![w] = "lock"]
      BY <2>1, <2>3 DEF SignalWork
    <3>2. Awake' = Awake \union {w} /\ w \in Workers \ Awake
      BY <3>1 DEF Awake, Sleeping
    <3> QED BY <3>2, <2>1, <2>3, <1>0, <1>a, <1>b, AwakeCount
  <2> QED BY <2>2, <2>3
<1>7. CASE SubmitBatch \/ DestroyBegin
  <2>1. Sleeping' = {}
    BY <1>7 DEF SubmitBatch, DestroyBegin, BroadcastWork, Sleeping
  <2> QED BY <2>1, <1>a
<1>8. CASE \/ CallSubmit \/ CallParallelFor \/ CallSubmitBatch \/ CallWait
           \/ SubmitBlock \/ WaitBlock \/ WaitReturn \/ DestroyJoined
           \/ SpuriousClient \/ UNCHANGED vars
  <2>1. wpc' = wpc /\ queue_count' = queue_count
    BY <1>8 DEF CallSubmit, CallParallelFor, CallSubmitBatch, CallWait, SubmitBlock,
                WaitBlock, WaitReturn, DestroyJoined, SpuriousClient, vars, poolVars,
                queueVars, workerVars
  <2> QED BY <2>1, <1>0, <1>a DEF Awake, Sleeping
<1> QED
  BY <1>1, <1>2, <1>3, <1>4, <1>5, <1>6, <1>7, <1>8
  DEF Next, WorkerStep, ClientStep, ClientCall, Terminated

\* No wakeup is lost, for any number of workers and any capacity: whatever the
\* interleaving of submits, finishes and spurious wakeups, while a worker sleeps
\* at least as many are on their way to the queue as there are tasks in it.
THEOREM NoSleeperIsNeededHolds == Spec => []NoSleeperIsNeeded
<1>1. Init => NoSleeperIsNeeded
  BY DEF Init, NoSleeperIsNeeded, Sleeping
<1>2. PoolInv /\ PoolInv' /\ NoSleeperIsNeeded /\ [Next]_vars => NoSleeperIsNeeded'
  BY NextAwake, PoolAssumption DEF PoolInv, TypeOK
<1> QED BY <1>1, <1>2, PoolInvariant, PTL DEF Spec

-------------------------------------------------------------------------------
(* The refinement of TaskPool.                                             *)

\* A worker leaves its function only once destroy has been called and the
\* queue is empty, and nothing is enqueued after destroy.
ExitInv ==
  /\ shutdown => cpc \in {"join", "gone"}
  /\ \A w \in Workers : wpc[w] = "exit" => shutdown /\ queue_count = 0

\* No step lets a worker leave early, or enqueues after destroy.
LEMMA NextExit ==
  ASSUME TypeOK, ExitInv, [Next]_vars
  PROVE  ExitInv'
<1> USE DEF TypeOK
<1>1. ASSUME NEW w \in Workers, WorkerStep(w) \/ SpuriousWorker(w) PROVE ExitInv'
  <2>1. CASE WorkerExit(w)
    BY <2>1, PoolAssumption DEF WorkerExit, MustExit, ExitInv, poolVars, queueVars, clientVars
  <2>2. CASE WorkerTake(w)
    <3>1. ~ (shutdown /\ queue_count = 0) /\ shutdown' = shutdown
          /\ wpc' = [wpc EXCEPT ![w] = "run"] /\ cpc' = SignalNotFull
      BY <2>2 DEF WorkerTake, MustExit
    <3> QED BY <3>1 DEF ExitInv, SignalNotFull
  <2>3. CASE WorkerFinish(w)
    <3>1. /\ shutdown' = shutdown /\ queue_count' = queue_count
          /\ wpc' = [wpc EXCEPT ![w] = "lock"] /\ (cpc' = cpc \/ cpc = "wait_sleep")
      BY <2>3 DEF WorkerFinish, SignalDone, queueVars
    <3> QED BY <3>1 DEF ExitInv
  <2>4. CASE WorkerSleep(w) \/ WorkerRun(w) \/ SpuriousWorker(w)
    BY <2>4 DEF WorkerSleep, WorkerRun, SpuriousWorker, ExitInv, poolVars, queueVars, clientVars
  <2> QED BY <1>1, <2>1, <2>2, <2>3, <2>4 DEF WorkerStep
<1>2. CASE SubmitEnqueue \/ SubmitBatch
  <2>1. ~shutdown /\ shutdown' = shutdown /\ \A w \in Workers : wpc[w] # "exit"
    BY <1>2 DEF SubmitEnqueue, SubmitBatch, ExitInv
  <2>2. \A w \in Workers : wpc'[w] \in {wpc[w], "lock"}
    BY <1>2 DEF SubmitEnqueue, SubmitBatch, SignalWork, Sleeping, BroadcastWork
  <2> QED BY <2>1, <2>2 DEF ExitInv
<1>3. CASE DestroyBegin
  BY <1>3 DEF DestroyBegin, BroadcastWork, ExitInv, queueVars
<1>4. CASE \/ CallSubmit \/ CallParallelFor \/ CallSubmitBatch \/ CallWait
           \/ SubmitBlock \/ WaitBlock \/ WaitReturn \/ SpuriousClient
  <2>1. /\ wpc' = wpc /\ queue_count' = queue_count /\ shutdown' = shutdown
        /\ cpc \notin {"join", "gone"}
    BY <1>4 DEF CallSubmit, CallParallelFor, CallSubmitBatch, CallWait, SubmitBlock,
                WaitBlock, WaitReturn, SpuriousClient, poolVars, queueVars, workerVars
  <2> QED BY <2>1 DEF ExitInv
<1>5. CASE DestroyJoined \/ UNCHANGED vars
  <2>1. /\ wpc' = wpc /\ queue_count' = queue_count /\ shutdown' = shutdown
        /\ cpc' \in {cpc, "gone"}
    BY <1>5 DEF DestroyJoined, vars, poolVars, queueVars, workerVars, clientVars
  <2> QED BY <2>1 DEF ExitInv
<1> QED
  BY <1>1, <1>2, <1>3, <1>4, <1>5
  DEF Next, ClientStep, ClientCall, Terminated

\* The values TaskPool's variables have under the refinement mapping.
Taken == submitted - queue_count
Finished == {t \in 1..Taken : \A w \in Workers : wtask[w] # t}

\* Each worker step is a step of TaskPool, or changes nothing there.
LEMMA WorkerStepRefines ==
  ASSUME PoolInv, NEW w \in Workers, WorkerStep(w) \/ SpuriousWorker(w)
  PROVE  Abstract!Take \/ Abstract!Finish \/ UNCHANGED Abstract!vars
<1> USE DEF PoolInv
<1>1. queue_count \in Nat /\ submitted \in Nat /\ queue_count <= submitted
  BY PoolAssumption DEF TypeOK, RingInv
<1>2. CASE WorkerSleep(w) \/ WorkerExit(w) \/ WorkerRun(w) \/ SpuriousWorker(w)
  <2>1. submitted' = submitted /\ queue_count' = queue_count /\ wtask' = wtask /\ cpc' = cpc
    BY <1>2 DEF WorkerSleep, WorkerExit, WorkerRun, SpuriousWorker,
                poolVars, queueVars, clientVars
  <2> QED BY <2>1 DEF Abstract!vars, Phase
<1>3. CASE WorkerTake(w)
  <2>1. /\ wpc[w] = "lock" /\ queue_count >= 1 /\ queue_count' = queue_count - 1
        /\ submitted' = submitted /\ cpc' = SignalNotFull
        /\ wtask' = [wtask EXCEPT ![w] = queue[queue_head]]
    BY <1>1, <1>3 DEF WorkerTake, MustSleep, MustExit, Dequeue
  <2>2. queue[queue_head] = Taken + 1
    <3>1. 0 \in 0..queue_count - 1 /\ Wrap(queue_head + 0) = queue_head
      BY <2>1, <1>1, WrapValue, PoolAssumption DEF TypeOK
    <3> QED BY <3>1, <1>1 DEF RingInv, QueuedAt, Taken
  <2>3. Taken' = Taken + 1 /\ Taken < submitted
    BY <2>1, <1>1 DEF Taken
  <2>4. Finished' = Finished
    <3>1. wtask[w] = NoTask
      BY <2>1 DEF HeldInv
    <3>2. wtask'[w] = Taken + 1 /\ \A v \in Workers \ {w} : wtask'[v] = wtask[v]
      BY <2>1, <2>2 DEF TypeOK
    <3>3. \A v \in Workers : wtask[v] <= Taken /\ wtask[v] \in Nat
      BY PoolAssumption DEF HeldInv, TypeOK, Tasks, NoTask, Taken
    <3>4. Taken \in Nat
      BY <1>1 DEF Taken
    <3>5. ASSUME NEW t \in 1..Taken + 1
          PROVE  (\A v \in Workers : wtask'[v] # t)
                   <=> t \in 1..Taken /\ \A v \in Workers : wtask[v] # t
      BY <3>1, <3>2, <3>4 DEF NoTask
    <3>6. 1..Taken \subseteq 1..Taken + 1
      BY <3>4
    <3> QED BY <2>3, <3>5, <3>6 DEF Finished
  <2>5. Phase' = Phase
    BY <2>1 DEF Phase, SignalNotFull
  <2> QED BY <2>1, <2>3, <2>4, <2>5 DEF Abstract!Take, Taken, Finished
<1>4. CASE WorkerFinish(w)
  <2>1. /\ wpc[w] = "ran" /\ queue_count' = queue_count /\ submitted' = submitted
        /\ wtask' = [wtask EXCEPT ![w] = NoTask]
        /\ \/ cpc' = cpc
           \/ cpc = "wait_sleep" /\ cpc' = "wait"
    BY <1>4 DEF WorkerFinish, SignalDone, queueVars
  <2>2. wtask[w] \in (1..Taken) \ Finished
    BY <2>1 DEF HeldInv, TypeOK, Tasks, NoTask, Taken, Finished
  <2>3. Taken' = Taken
    BY <2>1 DEF Taken
  <2>4. Finished' = Finished \union {wtask[w]}
    <3>1. wtask'[w] = NoTask /\ \A v \in Workers \ {w} : wtask'[v] = wtask[v]
      BY <2>1 DEF TypeOK
    <3>2. \A v \in Workers \ {w} : wtask[v] # wtask[w]
      BY <2>1 DEF HeldInv
    <3>3. \A t \in 1..Taken : t # NoTask
      BY <1>1 DEF NoTask, Taken
    <3> QED BY <3>1, <3>2, <3>3, <2>2, <2>3 DEF Finished
  <2>5. Phase' = Phase
    BY <2>1 DEF Phase
  <2> QED BY <2>1, <2>2, <2>3, <2>4, <2>5 DEF Abstract!Finish, Taken, Finished
<1> QED BY <1>2, <1>3, <1>4 DEF WorkerStep

\* With an empty queue and no busy worker everything submitted has finished.
LEMMA DrainedMeansFinished ==
  ASSUME PoolInv, queue_count = 0, \A w \in Workers : wpc[w] \notin {"run", "ran"}
  PROVE  Finished = 1..submitted
<1>1. Taken = submitted
  BY PoolAssumption DEF PoolInv, TypeOK, Taken
<1>2. \A w \in Workers : wtask[w] = NoTask
  BY DEF PoolInv, HeldInv
<1>3. \A t \in 1..submitted : t # NoTask
  BY PoolAssumption DEF PoolInv, TypeOK, NoTask
<1> QED BY <1>1, <1>2, <1>3 DEF Finished

\* Each step of the client is a step of TaskPool, or changes nothing there.
LEMMA ClientStepRefines ==
  ASSUME PoolInv, ExitInv, PoolInv', ClientStep \/ ClientCall \/ SpuriousClient
  PROVE  Abstract!Next \/ UNCHANGED Abstract!vars
<1>1. queue_count \in Nat /\ submitted \in Nat /\ submitted' \in 0..MaxTasks /\ MaxTasks \in Nat
  BY PoolAssumption DEF PoolInv, TypeOK
<1>2. CASE CallSubmit \/ CallSubmitBatch \/ SubmitBlock \/ WaitBlock \/ SpuriousClient
  <2>1. /\ submitted' = submitted /\ queue_count' = queue_count /\ wtask' = wtask
        /\ \/ /\ cpc \in {"idle", "submit", "submit_sleep", "batch_sleep"}
              /\ cpc' \in {"submit", "submit_sleep", "batch"}
           \/ cpc \in {"wait", "wait_sleep"} /\ cpc' \in {"wait", "wait_sleep"}
    BY <1>2 DEF CallSubmit, CallSubmitBatch, SubmitBlock, WaitBlock, SpuriousClient,
                poolVars, queueVars, workerVars
  <2>2. Phase' = Phase
    BY <2>1 DEF Phase
  <2> QED BY <2>1, <2>2 DEF Abstract!vars
<1>3. CASE CallWait \/ CallParallelFor \/ DestroyBegin
  <2>1. /\ submitted' = submitted /\ queue_count' = queue_count /\ wtask' = wtask
        /\ cpc = "idle" /\ cpc' \in {"wait", "submit", "join"}
    BY <1>3 DEF CallWait, CallParallelFor, DestroyBegin, poolVars, queueVars, workerVars
  <2>2. Phase = "open" /\ Phase' \in {"waiting", "open", "closing"}
    BY <2>1 DEF Phase
  <2> QED BY <2>1, <2>2 DEF Abstract!Next, Abstract!BeginWait, Abstract!Close, Abstract!vars
<1>4. CASE SubmitEnqueue \/ SubmitBatch
  <2>1. PICK n \in Nat : Enqueue(n)
    <3>1. BatchRoom \in Nat /\ left \in Nat
      BY PoolAssumption DEF PoolInv, TypeOK, BatchRoom
    <3> QED BY <1>4, <3>1 DEF SubmitEnqueue, SubmitBatch
  <2>2. /\ submitted' = submitted + n /\ queue_count' = queue_count + n
        /\ wtask' = wtask /\ cpc \in {"submit", "batch"}
        /\ cpc' \in {"submit", "batch_sleep", "wait", "idle"}
    BY <1>4, <2>1 DEF SubmitEnqueue, SubmitBatch, Enqueue
  <2>3. Phase = "open" /\ Phase' \in {"open", "waiting"}
    BY <2>2 DEF Phase
  <2>4. Taken' = Taken /\ submitted' \in submitted..MaxTasks
    BY <2>2, <1>1 DEF Taken
  <2>5. Finished' = Finished
    BY <2>2, <2>4 DEF Finished
  <2> QED BY <2>3, <2>4, <2>5
          DEF Abstract!Next, Abstract!Submit, Abstract!SubmitAndWait, Taken, Finished
<1>5. CASE WaitReturn \/ DestroyJoined
  <2>1. queue_count = 0 /\ \A w \in Workers : wpc[w] \notin {"run", "ran"}
    <3>1. CASE WaitReturn
      <4>1. queue_count = 0 /\ active_tasks = 0
        BY <3>1, PoolAssumption DEF WaitReturn, StillBusy, PoolInv, TypeOK
      <4>2. Busy = {}
        BY <4>1, FS_EmptySet DEF PoolInv, ActiveInv
      <4> QED BY <4>1, <4>2 DEF Busy
    <3>2. CASE DestroyJoined
      BY <3>2, PoolAssumption DEF DestroyJoined, ExitInv
    <3> QED BY <1>5, <3>1, <3>2
  <2>2. Finished = 1..submitted
    BY <2>1, DrainedMeansFinished
  <2>3. /\ submitted' = submitted /\ queue_count' = queue_count /\ wtask' = wtask
        /\ \/ cpc = "wait" /\ cpc' = "idle"
           \/ cpc = "join" /\ cpc' = "gone"
    BY <1>5 DEF WaitReturn, DestroyJoined, poolVars, queueVars, workerVars
  <2>4. \/ Phase = "waiting" /\ Phase' = "open"
        \/ Phase = "closing" /\ Phase' = "closed"
    BY <2>3 DEF Phase
  <2> QED BY <2>2, <2>3, <2>4
          DEF Abstract!Next, Abstract!EndWait, Abstract!Closed, Taken, Finished
<1> QED BY <1>2, <1>3, <1>4, <1>5 DEF ClientStep, ClientCall

\* The ring, the condition variables and the worker loop implement the abstract
\* pool, for every instance: tasks are taken in the order of submission, each
\* finishes once, wait ends only when all are finished, and the pool closes only
\* after that.
THEOREM PoolRefinesTaskPool == Spec => ImplementsTaskPool
<1>1. Init => Abstract!Init /\ ExitInv
  <2> SUFFICES ASSUME Init PROVE Abstract!Init /\ ExitInv
    OBVIOUS
  <2>1. submitted = 0 /\ queue_count = 0 /\ cpc = "idle" /\ ~shutdown
        /\ \A w \in Workers : wpc[w] = "lock"
    BY DEF Init
  <2>2. Phase = "open"
    BY <2>1 DEF Phase
  <2> QED BY <2>1, <2>2 DEF Abstract!Init, ExitInv
<1>2. PoolInv /\ ExitInv /\ [Next]_vars => ExitInv'
  BY NextExit DEF PoolInv
<1>3. PoolInv /\ PoolInv' /\ ExitInv /\ [Next]_vars => [Abstract!Next]_(Abstract!vars)
  <2> SUFFICES ASSUME PoolInv, PoolInv', ExitInv, [Next]_vars
               PROVE  Abstract!Next \/ UNCHANGED Abstract!vars
    OBVIOUS
  <2>1. ASSUME NEW w \in Workers, WorkerStep(w) \/ SpuriousWorker(w)
        PROVE  Abstract!Next \/ UNCHANGED Abstract!vars
    BY <2>1, WorkerStepRefines DEF Abstract!Next
  <2>2. CASE ClientStep \/ ClientCall \/ SpuriousClient
    BY <2>2, ClientStepRefines
  <2>3. CASE UNCHANGED vars
    BY <2>3 DEF vars, poolVars, queueVars, workerVars, clientVars, Abstract!vars, Phase
  <2> QED BY <2>1, <2>2, <2>3 DEF Next, Terminated
<1> QED
  BY <1>1, <1>2, <1>3, PoolInvariant, PTL DEF Spec, ImplementsTaskPool, Abstract!Spec

-------------------------------------------------------------------------------
(* Creation.                                                               *)

CreateTypeOK ==
  /\ creator \in {"alloc", "start", "broadcast", "join", "pool", "null"}
  /\ started \in 0..num_threads
  /\ joined \in 0..started
  /\ thread_at \in [ThreadIds -> {"none", "lock", "wait", "sleep", "exit"}]

\* Threads 1..started exist, a thread leaves its function only after the stop,
\* which comes only when creation has failed, and 1..joined have left.
CreateInv ==
  /\ CreateTypeOK
  /\ \A i \in ThreadIds : thread_at[i] = "none" <=> i > started
  /\ \A i \in ThreadIds : thread_at[i] = "exit" => stopping
  /\ stopping => creator \in {"broadcast", "join", "null"}
  /\ \A i \in 1..joined : thread_at[i] = "exit"
  /\ allocated <=> creator \in {"start", "broadcast", "join", "pool"}
  /\ creator = "alloc" => started = 0
  /\ creator = "pool" => started = num_threads
  /\ creator = "null" => joined = started

\* carquet_worker_pool_create() starts with no thread and no memory.
LEMMA InitCreate == CreateInit => CreateInv
BY CreateAssumption DEF CreateInit, CreateInv, CreateTypeOK, ThreadIds

\* Every step of the creator and of the threads it has started keeps CreateInv.
LEMMA NextCreate == CreateInv /\ [CreateNext]_createVars => CreateInv'
<1> SUFFICES ASSUME CreateInv, [CreateNext]_createVars PROVE CreateInv'
  OBVIOUS
<1> USE CreateAssumption DEF CreateInv, CreateTypeOK, ThreadIds
<1>1. CASE AllocatePool
  BY <1>1 DEF AllocatePool
<1>2. CASE StartThread
  BY <1>2 DEF StartThread
<1>3. CASE BroadcastStop
  BY <1>3 DEF BroadcastStop
<1>4. CASE JoinThread
  BY <1>4 DEF JoinThread
<1>5. CASE FreePool \/ ReturnPool
  BY <1>5 DEF FreePool, ReturnPool, AllJoined
<1>6. ASSUME NEW i \in DOMAIN thread_at, ThreadTests(i) \/ ThreadSleeps(i) \/ ThreadWakes(i)
      PROVE  CreateInv'
  BY <1>6 DEF ThreadTests, ThreadSleeps, ThreadWakes
<1>7. CASE UNCHANGED createVars
  BY <1>7 DEF createVars
<1> QED BY <1>1, <1>2, <1>3, <1>4, <1>5, <1>6, <1>7 DEF CreateNext

\* For any number of threads, and wherever the start of one fails, the pool that
\* carquet_worker_pool_create() returns has all of its threads, and a NULL leaves
\* none behind that could touch the freed pool.
THEOREM PoolIsAllOrNothingHolds == CreateSpec => []PoolIsAllOrNothing
<1>1. CreateInv => PoolIsAllOrNothing
  BY CreateAssumption DEF CreateInv, CreateTypeOK, ThreadIds, PoolIsAllOrNothing
<1> QED BY <1>1, InitCreate, NextCreate, PTL DEF CreateSpec
===============================================================================
