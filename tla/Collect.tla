-------------------------------- MODULE Collect --------------------------------
(***************************************************************************)
(* collect() on an open parquet handle: qio_parquet_collect,               *)
(* qio_collect_body and qio_batch_cleanup of qio_file.c.  Numeric columns  *)
(* are decoded by tasks, one per row group and column, on carquet's worker *)
(* pool: on the shared reader when it is memory-mapped, in lanes with a    *)
(* private reader each when it is buffered, or inline.  Text columns are   *)
(* decoded by the R thread meanwhile.  Any call of the R API may jump out, *)
(* through a cleanup.  The pool is the one TaskPool specifies: tasks are   *)
(* taken in order and submit blocks while Capacity of them are queued.     *)
(*                                                                         *)
(* A value is the row group and row it was decoded from.                   *)
(***************************************************************************)
EXTENDS Integers, Sequences, FiniteSets, SequencesExt, FiniteSetsExt

CONSTANTS
  RowsIn,        \* rows of each row group
  NumericColumns,\* columns decoded by tasks: 1..NumericColumns
  TextColumns,   \* columns decoded on the R thread, numbered after them
  ThreadsAsked,  \* values of open_parquet(threads =) to consider
  Capacity,      \* CARQUET_POOL_QUEUE_CAPACITY
  TaskBatch,     \* QIO_TASK_BATCH
  BatchSize,     \* collect(batch_size =)
  MinRows        \* QIO_PRIVATE_READER_MIN_ROWS

ASSUME CollectAssumption ==
  /\ RowsIn \in Seq(Nat) /\ NumericColumns \in Nat /\ TextColumns \in Nat
  /\ ThreadsAsked \subseteq Nat \ {0}
  /\ {Capacity, TaskBatch, BatchSize} \subseteq Nat \ {0} /\ MinRows \in Nat

VARIABLES
  \* the handle
  handle,        \* "open" or "closed"
  use_mmap,      \* how it was opened
  handle_threads,\* its threads
  busy,
  \* the call's context
  mask,          \* the selected row groups
  pc,            \* where the R thread is
  pool,          \* threads of the pool, 0 when it is NULL
  opened,        \* private readers and their streams that are open
  lanes,         \* the lanes: a sequence of sequences of tasks
  submitted,     \* tasks handed out so far
  cell,          \* text chunk being read, how, and how many rows of it
  coerced,       \* columns with a value that became NA
  result,        \* column -> row -> value
  \* tasks and the pool's threads
  status,        \* task -> "todo", "ok", "failed"
  task_coerced,  \* tasks that saw a value become NA
  queue,         \* jobs submitted and not taken: lane numbers or tasks
  running,       \* thread -> the tasks it still has to run, and rows read
  \* observations
  ran,           \* task -> times it was started
  lost,          \* columns in which a value really became NA
  warned,        \* columns named by the warnings
  outcome        \* "none", "ok", "error"

handleVars == <<handle, use_mmap, handle_threads, busy>>
poolVars == <<status, task_coerced, queue, running, ran>>
vars == <<handleVars, mask, pc, pool, opened, lanes, submitted, cell, coerced,
          result, poolVars, lost, warned, outcome>>

-------------------------------------------------------------------------------
(* The selection: row groups with rows, their offsets, the tasks.          *)

Groups == DOMAIN RowsIn
Numeric == 1..NumericColumns
Text == NumericColumns + 1..NumericColumns + TextColumns
Columns == Numeric \union Text

total_rows == MapThenSumSet(LAMBDA g : RowsIn[g], mask)

n_groups == Cardinality({g \in mask : RowsIn[g] > 0})

rg_index == SelectSeq([g \in Groups |-> g], LAMBDA g : g \in mask /\ RowsIn[g] > 0)

rg_offset(g) == MapThenSumSet(LAMBDA h : RowsIn[h], {h \in mask : h < g})

n_tasks == n_groups * NumericColumns
Tasks == 1..n_tasks
TaskGroup(t) == rg_index[1 + (t - 1) \div NumericColumns]
TaskColumn(t) == 1 + ((t - 1) % NumericColumns)

\* the text chunks, row group by row group
n_cells == n_groups * TextColumns
CellGroup(k) == rg_index[1 + (k - 1) \div TextColumns]
CellColumn(k) == NumericColumns + 1 + ((k - 1) % TextColumns)

Smaller(a, b) == IF a < b THEN a ELSE b

threads == Smaller(handle_threads, n_tasks)

Main == 0                             \* the R thread, when it runs a task inline
PoolThreads == 1..Max(ThreadsAsked)
Idle == [tasks |-> <<>>, read |-> 0, lane |-> 0]
NoCell == [at |-> 0, how |-> "none", read |-> 0]
Missing == <<0, 0>>

\* n rows of column c of group g, from row number read, put in their place
Scatter(c, g, read, n) ==
  result' = [result EXCEPT ![c] = [r \in DOMAIN @ |->
               IF r - rg_offset(g) \in read + 1..read + n THEN <<g, r - rg_offset(g)>> ELSE @[r]]]

-------------------------------------------------------------------------------
(* The handle.                                                             *)

\* open_parquet(): what use_mmap records is what happened.
Init ==
  /\ handle = "open" /\ busy = FALSE
  /\ use_mmap \in BOOLEAN /\ handle_threads \in ThreadsAsked
  /\ mask = {} /\ pc = "idle" /\ pool = 0 /\ opened = 0 /\ lanes = <<>>
  /\ submitted = 0 /\ cell = NoCell /\ coerced = {} /\ result = <<>>
  /\ status = <<>> /\ task_coerced = {} /\ queue = <<>> /\ ran = <<>>
  /\ running = [w \in {Main} \union PoolThreads |-> Idle]
  /\ lost = {} /\ warned = {} /\ outcome = "none"

\* R code runs between calls, and in the calling handlers of an error, before
\* the stack is unwound; qio_parquet_close refuses while a read is active.
Close ==
  /\ pc \in {"idle", "signal"}
  /\ handle = "open" /\ ~busy
  /\ handle' = "closed"
  /\ UNCHANGED <<use_mmap, handle_threads, busy, mask, pc, pool, opened, lanes,
                 submitted, cell, coerced, result, poolVars, lost, warned, outcome>>

\* qio_parquet_collect up to R_UnwindProtect, and the result's allocation.
Collect ==
  /\ pc = "idle" /\ outcome = "none"
  /\ handle = "open" /\ ~busy
  /\ mask' \in SUBSET Groups
  /\ busy' = TRUE
  /\ pc' = IF total_rows' = 0 THEN "return" ELSE "setup"
  /\ result' = [c \in Columns |-> [r \in 1..total_rows' |-> Missing]]
  /\ status' = [t \in 1..n_tasks' |-> "todo"]
  /\ ran' = [t \in 1..n_tasks' |-> 0]
  /\ UNCHANGED <<handle, use_mmap, handle_threads, pool, opened, lanes, submitted,
                 cell, coerced, task_coerced, queue, running, lost, warned, outcome>>

-------------------------------------------------------------------------------
(* The R thread: choosing how the tasks run.                               *)

callVars == <<handleVars, mask, lost, warned, outcome>>

Parallel == handle_threads # 1 /\ threads > 1 /\ n_tasks > 1

OnSharedReader_Any == TRUE

OnSharedReader == use_mmap

\* A mapped reader is shared by the pool's threads; with a buffered one and
\* enough rows private readers are opened; a pool that cannot be created means
\* no parallelism.
ChoosePath ==
  /\ pc = "setup"
  /\ CASE Parallel /\ OnSharedReader ->
            \/ pc' = "prime" /\ pool' = threads
            \/ pc' = "inline" /\ UNCHANGED pool
       [] Parallel /\ ~OnSharedReader /\ total_rows >= MinRows ->
            pc' = "open" /\ UNCHANGED pool
       [] OTHER -> pc' = "inline" /\ UNCHANGED pool
  /\ UNCHANGED <<callVars, opened, lanes, submitted, cell, coerced, result, poolVars>>

OpenReader ==
  /\ pc = "open" /\ opened < threads
  /\ opened' = opened + 1
  /\ UNCHANGED <<callVars, pc, pool, lanes, submitted, cell, coerced, result, poolVars>>

LaneOf(l) == [k \in 1..(n_tasks - l) \div opened + 1 |-> l + (k - 1) * opened]

\* All opened, or one could not be: fewer lanes, or none.
BuildLanes ==
  /\ pc = "open"
  /\ IF opened > 1
     THEN \/ /\ lanes' = [l \in 1..opened |-> LaneOf(l)]
             /\ pool' = opened /\ pc' = "submit"
          \/ pc' = "inline" /\ UNCHANGED <<lanes, pool>>
     ELSE pc' = "inline" /\ UNCHANGED <<lanes, pool>>
  /\ UNCHANGED <<callVars, opened, submitted, cell, coerced, result, poolVars>>

\* carquet_worker_pool_submit waits on queue_not_full
Submit(job) == Len(queue) < Capacity /\ queue' = Append(queue, job)

SubmittedWithLanes_None == 0

\* every task is already queued, inside its lane
SubmittedWithLanes == n_tasks

\* submitted counts the lanes here, and the tasks once they are all queued.
SubmitLane ==
  /\ pc = "submit"
  /\ Submit(submitted + 1)
  /\ IF submitted + 1 < Len(lanes)
     THEN submitted' = submitted + 1 /\ pc' = "submit"
     ELSE submitted' = SubmittedWithLanes /\ pc' = "strings"
  /\ UNCHANGED <<callVars, pool, opened, lanes, cell, coerced, result, status,
                 task_coerced, running, ran>>

FirstWave == Smaller(n_tasks, Capacity)

Prime ==
  /\ pc = "prime"
  /\ Submit(submitted + 1)
  /\ submitted' = submitted + 1
  /\ pc' = IF submitted' = FirstWave THEN "strings" ELSE "prime"
  /\ UNCHANGED <<callVars, pool, opened, lanes, cell, coerced, result, status,
                 task_coerced, running, ran>>

\* A task that failed is reported at once, and there is no pool to wait for.
Inline ==
  /\ pc = "inline" /\ running[Main] = Idle
  /\ IF \E t \in Tasks : status[t] = "failed"
     THEN pc' = "signal" /\ UNCHANGED <<submitted, running, ran>>
     ELSE IF submitted < n_tasks
     THEN /\ submitted' = submitted + 1
          /\ running' = [running EXCEPT ![Main].tasks = <<submitted'>>]
          /\ ran' = [ran EXCEPT ![submitted'] = @ + 1]
          /\ UNCHANGED pc
     ELSE pc' = "strings" /\ UNCHANGED <<submitted, running, ran>>
  /\ UNCHANGED <<callVars, pool, opened, lanes, cell, coerced, result, status,
                 task_coerced, queue>>

-------------------------------------------------------------------------------
(* Tasks, on the pool's threads or inline.                                 *)

\* A job is a lane, or one task on the mapped reader.
JobTasks(j) == IF lanes = <<>> THEN <<j>> ELSE lanes[j]

Take(w) ==
  /\ w \in 1..pool /\ running[w] = Idle /\ queue # <<>>
  /\ LET job == Head(queue) IN
       /\ queue' = Tail(queue)
       /\ running' = [running EXCEPT ![w] =
            [tasks |-> JobTasks(job), read |-> 0,
             lane |-> IF lanes = <<>> THEN 0 ELSE job]]
       /\ ran' = [ran EXCEPT ![Head(JobTasks(job))] = @ + 1]
  /\ UNCHANGED <<callVars, pc, pool, opened, lanes, submitted, cell, coerced, result,
                 status, task_coerced>>

\* the lane goes on after a task that is done, if there is a next one
NextInLane(w) ==
  LET rest == Tail(running[w].tasks) IN
    /\ running' = [running EXCEPT ![w] =
                     IF rest = <<>> THEN Idle ELSE [@ EXCEPT !.tasks = rest, !.read = 0]]
    /\ ran' = IF rest = <<>> THEN ran ELSE [ran EXCEPT ![Head(rest)] = @ + 1]

\* One batch of qio_column_task_run: values are read and scattered.
TaskBatchDone(w) ==
  /\ running[w] # Idle
  /\ LET t == Head(running[w].tasks)
         g == TaskGroup(t)
         c == TaskColumn(t)
         n == Smaller(TaskBatch, RowsIn[g] - running[w].read)
     IN /\ Scatter(c, g, running[w].read, n)
        /\ \/ UNCHANGED <<task_coerced, lost>>
           \/ task_coerced' = task_coerced \union {t} /\ lost' = lost \union {c}
        /\ IF running[w].read + n < RowsIn[g]
           THEN /\ running' = [running EXCEPT ![w].read = @ + n]
                /\ UNCHANGED <<status, ran>>
           ELSE status' = [status EXCEPT ![t] = "ok"] /\ NextInLane(w)
  /\ UNCHANGED <<handleVars, mask, pc, pool, opened, lanes, submitted, cell, coerced,
                 queue, warned, outcome>>

\* No column reader, no scratch, a decode error or a short read: the lane stops.
TaskFails(w) ==
  /\ running[w] # Idle
  /\ status' = [status EXCEPT ![Head(running[w].tasks)] = "failed"]
  /\ running' = [running EXCEPT ![w] = Idle]
  /\ UNCHANGED <<callVars, pc, pool, opened, lanes, submitted, cell, coerced, result,
                 task_coerced, queue, ran>>

-------------------------------------------------------------------------------
(* The R thread: text columns, the rest of the tasks, the end.             *)

\* The chunk's reader is opened; a dictionary page makes the read start with
\* the dictionary path.
OpenCell ==
  /\ pc = "strings" /\ cell.how = "none" /\ cell.at < n_cells
  /\ cell' \in [at : {cell.at + 1}, how : {"dictionary", "plain"}, read : {0}]
  /\ UNCHANGED <<callVars, pc, pool, opened, lanes, submitted, coerced, result, poolVars>>

ReadCell ==
  /\ pc = "strings" /\ cell.how # "none"
  /\ LET g == CellGroup(cell.at)
         n == Smaller(BatchSize, RowsIn[g] - cell.read)
     IN /\ Scatter(CellColumn(cell.at), g, cell.read, n)
        /\ cell' = IF cell.read + n < RowsIn[g] THEN [cell EXCEPT !.read = @ + n]
                   ELSE [cell EXCEPT !.how = "none", !.read = 0]
  /\ UNCHANGED <<callVars, pc, pool, opened, lanes, submitted, coerced, poolVars>>

Restarted_InPlace == [cell EXCEPT !.how = "plain"]

Restarted == [cell EXCEPT !.how = "plain", !.read = 0]

\* The dictionary path meets a page it cannot read, or could not start: what
\* it wrote so far may be wrong, and the chunk is read again from its first row.
AbandonDictionary ==
  /\ pc = "strings" /\ cell.how = "dictionary"
  /\ cell' = Restarted
  /\ result' = [result EXCEPT ![CellColumn(cell.at)] = [r \in DOMAIN @ |->
       IF r - rg_offset(CellGroup(cell.at)) \in 1..cell.read THEN Missing ELSE @[r]]]
  /\ UNCHANGED <<callVars, pc, pool, opened, lanes, submitted, coerced, poolVars>>

StringsDone ==
  /\ pc = "strings" /\ cell.how = "none" /\ cell.at = n_cells
  /\ pc' = IF pool = 0 THEN "report" ELSE "rest"
  /\ UNCHANGED <<callVars, pool, opened, lanes, submitted, cell, coerced, result, poolVars>>

SubmitRest ==
  /\ pc = "rest" /\ submitted < n_tasks
  /\ Submit(submitted + 1)
  /\ submitted' = submitted + 1
  /\ UNCHANGED <<callVars, pc, pool, opened, lanes, cell, coerced, result, status,
                 task_coerced, running, ran>>

PoolIdle_AllTasks == queue = <<>> /\ \A t \in 1..submitted : status[t] # "todo"

\* what carquet_worker_pool_wait waits for: jobs, not tasks
PoolIdle == queue = <<>> /\ \A w \in PoolThreads : running[w] = Idle

\* carquet_worker_pool_wait and carquet_worker_pool_destroy
Join ==
  /\ pc = "rest" /\ submitted = n_tasks
  /\ PoolIdle
  /\ pool' = 0 /\ pc' = "report"
  /\ UNCHANGED <<callVars, opened, lanes, submitted, cell, coerced, result, poolVars>>

\* The first recorded failure is raised, or the tasks' flags are merged.
Report ==
  /\ pc = "report"
  /\ IF \E t \in Tasks : status[t] = "failed"
     THEN pc' = "signal" /\ UNCHANGED coerced
     ELSE pc' = "return" /\ coerced' = coerced \union {TaskColumn(t) : t \in task_coerced}
  /\ UNCHANGED <<callVars, pool, opened, lanes, submitted, cell, result, poolVars>>

\* An interrupt, an allocation failure or an error of the text pass, wherever
\* the R API is called.
Raise ==
  /\ pc \in {"setup", "open", "strings", "rest"} \/ (pc = "inline" /\ running[Main] = Idle)
  /\ ~(pc = "open" /\ opened = 1)
  /\ pc' = "signal"
  /\ UNCHANGED <<callVars, pool, opened, lanes, submitted, cell, coerced, result, poolVars>>

\* The error's calling handlers are done: the stack is unwound.
Unwind ==
  /\ pc = "signal"
  /\ pc' = "unwind"
  /\ UNCHANGED <<callVars, pool, opened, lanes, submitted, cell, coerced, result, poolVars>>

-------------------------------------------------------------------------------
(* qio_batch_cleanup, on return and on a jump.                             *)

CleanupPool ==
  /\ pc \in {"return", "unwind"} /\ pool # 0
  /\ PoolIdle
  /\ pool' = 0 /\ cell' = NoCell
  /\ UNCHANGED <<callVars, pc, opened, lanes, submitted, coerced, result, poolVars>>

MayCloseReaders_AtOnce == TRUE

\* closed only after the pool has stopped
MayCloseReaders == pool = 0

CleanupReaders ==
  /\ pc \in {"return", "unwind"} /\ MayCloseReaders
  /\ opened' = 0 /\ cell' = NoCell
  /\ busy' = FALSE
  /\ pc' = "idle"
  /\ outcome' = IF pc = "return" THEN "ok" ELSE "error"
  /\ warned' = IF pc = "return" THEN coerced ELSE {}
  /\ UNCHANGED <<handle, use_mmap, handle_threads, mask, pool, lanes, submitted,
                 coerced, result, poolVars, lost>>

-------------------------------------------------------------------------------

RThread ==
  \/ ChoosePath \/ OpenReader \/ BuildLanes \/ SubmitLane \/ Prime \/ Inline
  \/ TaskBatchDone(Main) \/ TaskFails(Main)
  \/ OpenCell \/ ReadCell \/ AbandonDictionary \/ StringsDone
  \/ SubmitRest \/ Join \/ Report \/ Raise \/ Unwind \/ CleanupPool \/ CleanupReaders

Thread(w) == Take(w) \/ TaskBatchDone(w) \/ TaskFails(w)

Next == Collect \/ Close \/ RThread \/ \E w \in PoolThreads : Thread(w)

\* The R thread runs its call to the end, and the operating system schedules
\* the threads of the pool; nobody has to call collect() or close().
Spec == /\ Init /\ [][Next]_vars
        /\ WF_vars(RThread) /\ \A w \in PoolThreads : WF_vars(Thread(w))

-------------------------------------------------------------------------------
(* Properties.                                                             *)

\* A collect() that returns has every selected row of every column in its
\* place, however the tasks were spread over threads and whatever the
\* dictionary path wrote before it was abandoned; and its warnings name
\* exactly the columns in which a value became NA.  At no time has a task been
\* run twice, by a lane and by itself or by the R thread: two runs would use
\* one reader and one part of the result from two threads.
ResultIsExact ==
  /\ \A t \in DOMAIN ran : ran[t] <= 1
  /\ outcome = "ok" =>
       /\ \A c \in Columns : result[c] =
            FlattenSeq([i \in DOMAIN rg_index |->
                          [r \in 1..RowsIn[rg_index[i]] |-> <<rg_index[i], r>>]])
       /\ warned = lost

\* the reader a thread reads through: 0 is the handle's, l is lane l's own
ReaderOf(w) == running[w].lane
MainReads == running[Main] # Idle \/ (pc = "strings" /\ cell.how # "none")

\* A buffered reader shares its FILE* and prebuffer among column readers, so
\* no two threads are ever inside one; only a mapped one is shared.
BufferedReaderIsPrivate ==
  ~use_mmap =>
    /\ \A v, w \in PoolThreads : v # w /\ running[v] # Idle /\ running[w] # Idle =>
         ReaderOf(v) # ReaderOf(w)
    /\ \A w \in PoolThreads : running[w] # Idle /\ MainReads => ReaderOf(w) # 0

\* While a thread of the pool runs a task, everything the task uses is alive:
\* its reader, the handle, the result vectors; so whichever way the call ends,
\* nothing of it is released under a running or queued task.
NothingFreedInUse ==
  ~PoolIdle =>
    /\ pool # 0 /\ handle = "open" /\ pc # "idle"
    /\ \A w \in PoolThreads : ReaderOf(w) <= opened
    /\ lanes # <<>> => \A i \in DOMAIN queue : queue[i] <= opened

\* Every collect() comes to an end: no submit or wait blocks for ever.
CollectEnds == busy ~> ~busy

===============================================================================
