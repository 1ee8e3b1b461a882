------------------------------ MODULE WorkerPool ------------------------------
(***************************************************************************)
(* carquet's persistent thread pool (reader/worker_pool.c): a circular     *)
(* task queue, a mutex and three condition variables.  Every access to the *)
(* pool after its creation is made with the mutex held, so the code from   *)
(* a lock to the next unlock or wait is one action.  A thread asleep on a  *)
(* condition variable is at a "..._sleep" location; being woken sends it   *)
(* back to the loop test that put it to sleep, which is where the code     *)
(* resumes.  Task execution happens with the mutex released and is a step  *)
(* of its own.  PoolCreate has the creation of the threads.                *)
(***************************************************************************)
EXTENDS Naturals, FiniteSets

CONSTANTS
  Workers,    \* the pool's threads
  Capacity,   \* CARQUET_POOL_QUEUE_CAPACITY
  MaxTasks    \* bound on the tasks submitted over the pool's life

ASSUME PoolAssumption ==
  /\ IsFiniteSet(Workers) /\ Workers # {}
  /\ Capacity \in Nat \ {0}
  /\ MaxTasks \in Nat

Tasks == 1..MaxTasks
NoTask == 0

VARIABLES
  queue, queue_head, queue_tail, queue_count,   \* the circular queue
  active_tasks, shutdown,
  wpc,        \* [Workers -> location in worker_thread_func]
  wtask,      \* [Workers -> the local variable task, NoTask if dead]
  cpc,        \* the client's location
  left,       \* tasks the client's current call has still to enqueue
  then_wait,  \* the current call is parallel_for
  submitted,  \* number of tasks enqueued so far: they are 1..submitted
  ran         \* history: [Tasks -> how often the task was executed]

queueVars == <<queue, queue_head, queue_tail, queue_count>>
poolVars == <<queueVars, active_tasks, shutdown>>
workerVars == <<wpc, wtask>>
clientVars == <<cpc, left, then_wait>>
vars == <<poolVars, workerVars, clientVars, submitted, ran>>

Sleeping == {w \in Workers : wpc[w] = "sleep"}

-------------------------------------------------------------------------------
(* Condition variables.  A signal wakes one sleeper, whichever it is; with *)
(* no sleeper it is lost.  The results are the new values of wpc and cpc.  *)

SignalWork_Lost == {wpc}

SignalWork == IF Sleeping = {} THEN {wpc}
              ELSE {[wpc EXCEPT ![w] = "lock"] : w \in Sleeping}

BroadcastWork == [w \in Workers |-> IF wpc[w] = "sleep" THEN "lock" ELSE wpc[w]]

SignalNotFull_Lost == cpc

SignalNotFull == CASE cpc = "submit_sleep" -> "submit"
                   [] cpc = "batch_sleep" -> "batch"
                   [] OTHER -> cpc

SignalDone == IF cpc = "wait_sleep" THEN "wait" ELSE cpc

-------------------------------------------------------------------------------
(* The queue.                                                              *)

Full_OffByOne == queue_count > Capacity

Full == queue_count >= Capacity

Wrap_None(i) == i

Wrap(i) == i % Capacity

Dequeue ==
  /\ queue_head' = Wrap(queue_head + 1)
  /\ queue_count' = queue_count - 1
  /\ UNCHANGED <<queue, queue_tail>>

\* n tasks are written from the tail on; they get the next n numbers.
Enqueue(n) ==
  /\ queue' = [i \in 0..Capacity - 1 |->
                 LET k == Wrap(i + Capacity - queue_tail)
                 IN IF k < n THEN submitted + 1 + k ELSE queue[i]]
  /\ queue_tail' = Wrap(queue_tail + n)
  /\ queue_count' = queue_count + n
  /\ submitted' = submitted + n
  /\ UNCHANGED queue_head

-------------------------------------------------------------------------------
(* worker_thread_func                                                      *)

MustSleep == queue_count = 0 /\ ~shutdown

MustExit_Undrained == shutdown

MustExit == shutdown /\ queue_count = 0

WorkerSleep(w) ==
  /\ wpc[w] = "lock"
  /\ MustSleep
  /\ wpc' = [wpc EXCEPT ![w] = "sleep"]
  /\ UNCHANGED <<poolVars, wtask, clientVars, submitted, ran>>

WorkerExit(w) ==
  /\ wpc[w] = "lock"
  /\ ~MustSleep
  /\ MustExit
  /\ wpc' = [wpc EXCEPT ![w] = "exit"]
  /\ UNCHANGED <<poolVars, wtask, clientVars, submitted, ran>>

WorkerTake(w) ==
  /\ wpc[w] = "lock"
  /\ ~MustSleep
  /\ ~MustExit
  /\ wtask' = [wtask EXCEPT ![w] = queue[queue_head]]
  /\ Dequeue
  /\ active_tasks' = active_tasks + 1
  /\ cpc' = SignalNotFull
  /\ wpc' = [wpc EXCEPT ![w] = "run"]
  /\ UNCHANGED <<shutdown, left, then_wait, submitted, ran>>

\* task.fn(task.arg), outside the lock
WorkerRun(w) ==
  /\ wpc[w] = "run"
  /\ ran' = [ran EXCEPT ![wtask[w]] = @ + 1]
  /\ wpc' = [wpc EXCEPT ![w] = "ran"]
  /\ UNCHANGED <<poolVars, wtask, clientVars, submitted>>

AllDone_QueueOnly(active) == active = 1 /\ queue_count = 0

AllDone(active) == active = 0 /\ queue_count = 0

WorkerFinish(w) ==
  /\ wpc[w] = "ran"
  /\ active_tasks' = active_tasks - 1
  /\ cpc' = IF AllDone(active_tasks') THEN SignalDone ELSE cpc
  /\ wtask' = [wtask EXCEPT ![w] = NoTask]
  /\ wpc' = [wpc EXCEPT ![w] = "lock"]
  /\ UNCHANGED <<queueVars, shutdown, left, then_wait, submitted, ran>>

-------------------------------------------------------------------------------
(* The client: one thread, one call at a time.  In qio it is the R main    *)
(* thread, in a batch reader the thread that asks for the next batch.      *)

CallSubmit ==
  /\ cpc = "idle"
  /\ submitted < MaxTasks
  /\ cpc' = "submit" /\ left' = 1 /\ then_wait' = FALSE
  /\ UNCHANGED <<poolVars, workerVars, submitted, ran>>

CallParallelFor ==
  /\ cpc = "idle"
  /\ left' \in 0..MaxTasks - submitted
  /\ cpc' = (IF left' = 0 THEN "wait" ELSE "submit") /\ then_wait' = TRUE
  /\ UNCHANGED <<poolVars, workerVars, submitted, ran>>

CallSubmitBatch ==
  /\ cpc = "idle"
  /\ left' \in 0..MaxTasks - submitted
  /\ cpc' = "batch" /\ then_wait' = FALSE
  /\ UNCHANGED <<poolVars, workerVars, submitted, ran>>

CallWait ==
  /\ cpc = "idle"
  /\ cpc' = "wait"
  /\ UNCHANGED <<poolVars, workerVars, left, then_wait, submitted, ran>>

SubmitBlock ==
  /\ cpc = "submit"
  /\ Full
  /\ cpc' = "submit_sleep"
  /\ UNCHANGED <<poolVars, workerVars, left, then_wait, submitted, ran>>

SubmitEnqueue ==
  /\ cpc = "submit"
  /\ ~Full
  /\ Enqueue(1)
  /\ left' = left - 1
  /\ wpc' \in SignalWork
  /\ cpc' = IF left' > 0 THEN "submit" ELSE IF then_wait THEN "wait" ELSE "idle"
  /\ UNCHANGED <<active_tasks, shutdown, wtask, then_wait, ran>>

BatchRoom == Capacity - queue_count

\* The loop fills the queue; with tasks left over the client wakes the
\* workers and sleeps, otherwise it wakes them and returns.
SubmitBatch ==
  /\ cpc = "batch"
  /\ LET n == IF left > BatchRoom THEN BatchRoom ELSE left
     IN /\ Enqueue(n)
        /\ left' = left - n
  /\ wpc' = BroadcastWork
  /\ cpc' = IF left' > 0 THEN "batch_sleep" ELSE "idle"
  /\ UNCHANGED <<active_tasks, shutdown, wtask, then_wait, ran>>

StillBusy_QueueOnly == queue_count > 0

StillBusy == queue_count > 0 \/ active_tasks > 0

WaitBlock ==
  /\ cpc = "wait"
  /\ StillBusy
  /\ cpc' = "wait_sleep"
  /\ UNCHANGED <<poolVars, workerVars, left, then_wait, submitted, ran>>

WaitReturn ==
  /\ cpc = "wait"
  /\ ~StillBusy
  /\ cpc' = "idle"
  /\ UNCHANGED <<poolVars, workerVars, left, then_wait, submitted, ran>>

DestroyBegin ==
  /\ cpc = "idle"
  /\ shutdown' = TRUE
  /\ wpc' = BroadcastWork
  /\ cpc' = "join"
  /\ UNCHANGED <<queueVars, active_tasks, wtask, left, then_wait, submitted, ran>>

DestroyJoined ==
  /\ cpc = "join"
  /\ \A w \in Workers : wpc[w] = "exit"
  /\ cpc' = "gone"
  /\ UNCHANGED <<poolVars, workerVars, left, then_wait, submitted, ran>>

-------------------------------------------------------------------------------
(* pthread_cond_wait and SleepConditionVariableCS may also return without  *)
(* a signal.                                                               *)

SpuriousWorker(w) ==
  /\ wpc[w] = "sleep"
  /\ wpc' = [wpc EXCEPT ![w] = "lock"]
  /\ UNCHANGED <<poolVars, wtask, clientVars, submitted, ran>>

SpuriousClient ==
  /\ cpc \in {"submit_sleep", "batch_sleep", "wait_sleep"}
  /\ cpc' = CASE cpc = "submit_sleep" -> "submit"
              [] cpc = "batch_sleep" -> "batch"
              [] cpc = "wait_sleep" -> "wait"
  /\ UNCHANGED <<poolVars, workerVars, left, then_wait, submitted, ran>>

\* The pool has been freed: nothing is left to happen.
Terminated == cpc = "gone" /\ UNCHANGED vars

-------------------------------------------------------------------------------
Init ==
  /\ queue = [i \in 0..Capacity - 1 |-> NoTask]
  /\ queue_head = 0 /\ queue_tail = 0 /\ queue_count = 0
  /\ active_tasks = 0
  /\ shutdown = FALSE
  /\ wpc = [w \in Workers |-> "lock"]
  /\ wtask = [w \in Workers |-> NoTask]
  /\ cpc = "idle" /\ left = 0 /\ then_wait = FALSE
  /\ submitted = 0
  /\ ran = [t \in Tasks |-> 0]

WorkerStep(w) ==
  \/ WorkerSleep(w) \/ WorkerExit(w) \/ WorkerTake(w)
  \/ WorkerRun(w) \/ WorkerFinish(w)

\* What the client does inside a call it has made.
ClientStep ==
  \/ SubmitBlock \/ SubmitEnqueue \/ SubmitBatch
  \/ WaitBlock \/ WaitReturn \/ DestroyJoined

\* What the client may decide to do.
ClientCall ==
  CallSubmit \/ CallParallelFor \/ CallSubmitBatch \/ CallWait \/ DestroyBegin

Next ==
  \/ \E w \in Workers : WorkerStep(w) \/ SpuriousWorker(w)
  \/ ClientStep \/ ClientCall \/ SpuriousClient
  \/ Terminated

Spec == Init /\ [][Next]_vars

\* The operating system runs every runnable thread: a worker that can step
\* does, and so does the client inside a call.  Nothing obliges the client
\* to make another call, and nothing obliges a wakeup to be spurious.
Fairness ==
  /\ \A w \in Workers : WF_vars(WorkerStep(w))
  /\ WF_vars(ClientStep)

FairSpec == Spec /\ Fairness
-------------------------------------------------------------------------------
(* Properties.                                                             *)

QueuedAt(k) == queue[Wrap(queue_head + k)]

Queued == {QueuedAt(k) : k \in 0..queue_count - 1}

TypeOK ==
  /\ queue \in [0..Capacity - 1 -> Tasks \union {NoTask}]
  /\ queue_head \in 0..Capacity - 1
  /\ queue_tail \in 0..Capacity - 1
  /\ queue_count \in 0..Capacity
  /\ active_tasks \in Nat
  /\ shutdown \in BOOLEAN
  /\ wpc \in [Workers -> {"lock", "sleep", "run", "ran", "exit"}]
  /\ wtask \in [Workers -> Tasks \union {NoTask}]
  /\ cpc \in {"idle", "submit", "submit_sleep", "batch", "batch_sleep",
              "wait", "wait_sleep", "join", "gone"}
  /\ left \in 0..MaxTasks
  /\ then_wait \in BOOLEAN
  /\ submitted \in 0..MaxTasks
  /\ ran \in [Tasks -> Nat]

\* Exactly-once execution.  A task has been executed once if it was
\* submitted and is neither in the circular queue nor in the hands of a
\* worker about to run it, and never otherwise: no interleaving loses a
\* task, overwrites its slot, or hands it to two workers.
ExactlyOnce ==
  \A t \in Tasks :
    ran[t] = IF /\ t <= submitted
                /\ t \notin Queued
                /\ ~ \E w \in Workers : wpc[w] = "run" /\ wtask[w] = t
             THEN 1 ELSE 0

\* No lost wakeup.  submit signals one worker and submit_batch all of them,
\* so while a worker sleeps there are at least as many awake workers on
\* their way to the queue as there are queued tasks.
NoSleeperIsNeeded ==
  Sleeping # {} => queue_count <= Cardinality({w \in Workers : wpc[w] = "lock"})

\* carquet_worker_pool_wait returns only when every task submitted so far
\* has been executed and no worker is still inside one: qio frees the
\* result's tasks and closes their readers right after it.
WaitMeansDone ==
  [][cpc = "wait" /\ cpc' = "idle" =>
       /\ \A t \in 1..submitted : ran[t] = 1
       /\ \A w \in Workers : wpc[w] \notin {"run", "ran"}]_vars

\* The pool implements TaskPool: tasks leave the queue in submission order,
\* and destroy joins the workers only after the queue has been drained.
Phase == CASE cpc \in {"wait", "wait_sleep"} -> "waiting"
           [] cpc = "join" -> "closing"
           [] cpc = "gone" -> "closed"
           [] OTHER -> "open"

Abstract == INSTANCE TaskPool WITH
  taken <- submitted - queue_count,
  finished <- {t \in 1..submitted - queue_count :
                 \A w \in Workers : wtask[w] # t},
  phase <- Phase

ImplementsTaskPool == Abstract!Spec

\* Every submitted task is eventually executed, whatever the client does
\* next, a destroy with tasks still queued included.
EveryTaskRuns == \A t \in Tasks : submitted >= t ~> ran[t] = 1

\* Every call returns: a submit blocked on a full queue, a wait, and the
\* joins of destroy all come to an end.
CallsReturn == cpc # "idle" ~> cpc \in {"idle", "gone"}

===============================================================================
