----------------------------- MODULE BatchReader ------------------------------
(***************************************************************************)
(* carquet's batch reader (reader/batch_reader.c) as walk_batches() drives *)
(* it: one call of carquet_batch_reader_next per batch, a callback that    *)
(* uses the batch, and carquet_batch_reader_free at the end, also when the *)
(* callback fails.  A mapped, compressed, null-free file is read through   *)
(* the pipeline: a ring of slots, each one row group decoded in whole by   *)
(* tasks of the worker pool.  Any other file is read sequentially.  Either *)
(* path may have a page filter.                                            *)
(*                                                                         *)
(* The pool is taken at its contract (TaskPool): tasks start in order, at  *)
(* most Threads at a time, and wait returns when none is left.  The value  *)
(* of a decoded buffer is the number of the row group it holds; a column   *)
(* chunk is one page.                                                      *)
(***************************************************************************)
EXTENDS Integers, Sequences, FiniteSets, SequencesExt, FiniteSetsExt

CONSTANTS
  RowsIn,           \* rows of each row group of the file
  NumColumns,       \* projected columns
  BatchSize,        \* config.batch_size
  Threads,          \* the pool's threads
  PipelineCap,      \* pt * 2, the most slots of the ring
  Coalesced,        \* columns for which can_coalesce_column holds
  VerifyChecksums,  \* options.verify_checksums, and every page has a checksum
  Faults,           \* what may go wrong: "alloc", "damage", "eval"
  MaxFilters        \* bound on the calls of set_page_filter

ASSUME BatchReaderAssumption ==
  /\ RowsIn \in Seq(Nat)
  /\ {NumColumns, BatchSize, Threads, PipelineCap} \subseteq Nat \ {0}
  /\ Coalesced \subseteq 1..NumColumns
  /\ VerifyChecksums \in BOOLEAN
  /\ Faults \subseteq {"alloc", "damage", "eval"}
  /\ MaxFilters \in Nat

Groups == 1..Len(RowsIn)
Columns == 1..NumColumns
Rows(g) == 1..RowsIn[g]

NoGroup == 0     \* rg_index = -1; a buffer nothing was decoded into
Junk == -1       \* values that are in no row group of the file
Idle == [slot |-> -1]

VARIABLES
  mask,                    \* row groups the row_group_filter keeps
  damaged,                 \* <<group, column>> chunks with a damaged page
  eval_fails,              \* groups whose page index cannot be evaluated
  low_memory,              \* an allocation may fail
  pipeline_active,
  filtered, matches,       \* filter_clauses # NULL, and the rows they keep
  filters,                 \* calls of set_page_filter so far
  rg_order_next, pipeline_head, pipeline_count,
  pipeline,                \* [slot -> rg, rows, rows_consumed, values]
  task_args,
  current_row_group,       \* sequential path: the group being read
  todo,                    \*   and its rows still to deliver
  rows_skipped,
  queue, running,          \* the pool: queued argument indexes, and by thread
  pc, delivered,           \* the client, and the batches it was given
  outcome                  \* how the walk ended: "none", "end", "error", "jump"

fileVars == <<mask, damaged, eval_fails, low_memory, pipeline_active>>
filterVars == <<filtered, matches, filters>>
ringVars == <<rg_order_next, pipeline_head, pipeline_count, pipeline, task_args>>
seqVars == <<current_row_group, todo>>
poolVars == <<queue, running>>
vars == <<fileVars, filterVars, ringVars, seqVars, rows_skipped, poolVars, pc,
          delivered, outcome>>

Fault(kind) == kind \in Faults

rg_order == SetToSortSeq(mask, <)

pipeline_depth == Max({1, Min({Len(rg_order), PipelineCap})})

Slots == 0..pipeline_depth - 1
tasks_per_slot == 2 * NumColumns

\* the rows of a row group that survive the filter, in order
Kept(g) == SetToSortSeq(matches[g], <)

Skipped(g) == RowsIn[g] - Cardinality(matches[g])

NoSlot == [rg |-> NoGroup, rows |-> <<>>, rows_consumed |-> 0,
           values |-> [c \in Columns |-> NoGroup]]

\* the chunks that have a page
Pages == {g \in Groups : RowsIn[g] > 0} \X Columns

\* carquet_batch_reader_create allocates the projection and what it needs of the
\* schema; without memory there is no reader, and the walk ends at once.
Created == {"ready"} \union (IF low_memory THEN {"error"} ELSE {})

\* The rest of it: the worker pool, the ring and the task arguments, or the
\* sequential path where one of them is not to be had.  One thing goes wrong
\* at a time, and a file has at most one damaged chunk.
Init ==
  /\ mask \in SUBSET Groups
  /\ damaged \in {{}} \union (IF Fault("damage") THEN {{x} : x \in Pages} ELSE {})
  /\ eval_fails \in {{}} \union (IF Fault("eval") THEN {{g} : g \in Groups} ELSE {})
  /\ low_memory \in (IF Fault("alloc") THEN BOOLEAN ELSE {FALSE})
  /\ Cardinality(damaged) + Cardinality(eval_fails) <= (IF low_memory THEN 0 ELSE 1)
  /\ pipeline_active \in BOOLEAN
  /\ filtered = FALSE /\ matches = [g \in Groups |-> Rows(g)] /\ filters = 0
  /\ rg_order_next = 1 /\ pipeline_head = 0 /\ pipeline_count = 0
  /\ pipeline = [s \in Slots |-> NoSlot]
  /\ task_args = [i \in 0..pipeline_depth * tasks_per_slot - 1 |-> Idle]
  /\ current_row_group = 0 /\ todo = <<>>
  /\ rows_skipped = 0
  /\ queue = <<>> /\ running = [w \in 1..Threads |-> Idle]
  /\ pc \in Created /\ delivered = <<>> /\ outcome = "none"

PoolIdle == queue = <<>> /\ \A w \in 1..Threads : running[w] = Idle

-------------------------------------------------------------------------------
(* carquet_batch_reader_set_page_filter: drop what was read ahead and      *)
(* start over.  It waits for the pool first.                               *)

Restart ==
  /\ pipeline' = [s \in Slots |-> [pipeline[s] EXCEPT !.rg = NoGroup]]
  /\ pipeline_head' = 0 /\ pipeline_count' = 0
  /\ rg_order_next' = 1

SetPageFilter ==
  /\ pc = "ready" /\ filters < MaxFilters /\ PoolIdle
  /\ filters' = filters + 1
  /\ filtered' = TRUE
  /\ matches' \in {f \in [Groups -> SUBSET UNION {Rows(g) : g \in Groups}] :
                     \A g \in Groups : f[g] \subseteq Rows(g)}
  /\ Restart
  /\ current_row_group' = 0 /\ todo' = <<>>
  /\ delivered' = <<>>
  /\ UNCHANGED <<fileVars, task_args, rows_skipped, poolVars, pc, outcome>>

-------------------------------------------------------------------------------
(* pipeline_fill, one iteration of its loop to a step.  Threads already    *)
(* work on the tasks of the earlier iterations.                            *)

CanFill == pipeline_count < pipeline_depth /\ rg_order_next <= Len(rg_order)

target_rg == rg_order[rg_order_next]

NextSlot_Head == pipeline_head

NextSlot == (pipeline_head + pipeline_count) % pipeline_depth

\* where carquet_batch_reader_next goes on after pipeline_fill returns
AfterFill == IF pc = "refill" THEN "serve"
             ELSE IF pipeline_count = 0 THEN "end" ELSE "wait"

NoteSkipped == rows_skipped' =
                 IF filtered THEN rows_skipped + Skipped(target_rg) ELSE rows_skipped

PassFailed_Retry == UNCHANGED rg_order_next

PassFailed == rg_order_next' = rg_order_next + 1

\* carquet_page_filter_eval_row_group fails: on to the next row group
FillSkipsFailed ==
  /\ pc \in {"fill", "refill"} /\ CanFill
  /\ filtered /\ target_rg \in eval_fails
  /\ PassFailed
  /\ UNCHANGED <<fileVars, filterVars, pipeline_head, pipeline_count, pipeline,
                 task_args, seqVars, rows_skipped, poolVars, pc, delivered, outcome>>

\* no row of the row group survives the filter
FillSkipsEmpty ==
  /\ pc \in {"fill", "refill"} /\ CanFill
  /\ filtered /\ target_rg \notin eval_fails /\ matches[target_rg] = {}
  /\ NoteSkipped
  /\ rg_order_next' = rg_order_next + 1
  /\ UNCHANGED <<fileVars, filterVars, pipeline_head, pipeline_count, pipeline,
                 task_args, seqVars, poolVars, pc, delivered, outcome>>

Readable == filtered => target_rg \notin eval_fails /\ matches[target_rg] # {}

\* An early return: no memory for the slot's buffers or column readers.
FillGivesUp ==
  /\ pc \in {"fill", "refill"} /\ CanFill /\ Readable
  /\ low_memory
  /\ NoteSkipped
  /\ pc' = AfterFill
  /\ UNCHANGED <<fileVars, filterVars, ringVars, seqVars, poolVars, delivered, outcome>>

TaskIndex(c) == pipeline_count * tasks_per_slot + c - 1

FillSubmits ==
  /\ pc \in {"fill", "refill"} /\ CanFill /\ Readable
  /\ NoteSkipped
  /\ pipeline' = [pipeline EXCEPT ![NextSlot] =
                    [@ EXCEPT !.rg = target_rg, !.rows = Kept(target_rg),
                              !.rows_consumed = 0]]
  /\ task_args' = [i \in DOMAIN task_args |->
                     IF \E c \in Columns : i = TaskIndex(c)
                     THEN [slot |-> NextSlot, rg |-> target_rg,
                           col |-> i - TaskIndex(1) + 1, ranges |-> filtered]
                     ELSE task_args[i]]
  /\ queue' = queue \o [c \in Columns |-> TaskIndex(c)]
  /\ pipeline_count' = pipeline_count + 1
  /\ rg_order_next' = rg_order_next + 1
  /\ UNCHANGED <<fileVars, filterVars, pipeline_head, seqVars, running, pc,
                 delivered, outcome>>

FillReturns ==
  /\ pc \in {"fill", "refill"} /\ ~CanFill
  /\ pc' = AfterFill
  /\ UNCHANGED <<fileVars, filterVars, ringVars, seqVars, rows_skipped, poolVars,
                 delivered, outcome>>

-------------------------------------------------------------------------------
(* A thread of the pool.  A task reads its arguments when it starts.  What *)
(* bulk_read_task leaves in the buffer: the chunk's values; when a page is *)
(* damaged, what was there before, or wrong values where nothing checks    *)
(* the page.  The coalesced branch never compares a checksum.              *)

StartTask(w) ==
  /\ queue # <<>> /\ running[w] = Idle
  /\ running' = [running EXCEPT ![w] = task_args[Head(queue)]]
  /\ queue' = Tail(queue)
  /\ UNCHANGED <<fileVars, filterVars, ringVars, seqVars, rows_skipped, pc,
                 delivered, outcome>>

Checked(t) == VerifyChecksums /\ (t.ranges \/ t.col \notin Coalesced)

bulk_read_task(t, old) ==
  IF <<t.rg, t.col>> \notin damaged THEN {t.rg}
  ELSE IF Checked(t) THEN {old} ELSE {old, Junk}

FinishTask(w) ==
  /\ running[w] # Idle
  /\ LET t == running[w] IN
       \E v \in bulk_read_task(t, pipeline[t.slot].values[t.col]) :
         pipeline' = [pipeline EXCEPT ![t.slot].values[t.col] = v]
  /\ running' = [running EXCEPT ![w] = Idle]
  /\ UNCHANGED <<fileVars, filterVars, rg_order_next, pipeline_head,
                 pipeline_count, task_args, seqVars, rows_skipped, queue, pc,
                 delivered, outcome>>

-------------------------------------------------------------------------------
(* carquet_batch_reader_next, the pipeline.                                *)

HeadSlot == pipeline[pipeline_head]

Exhausted_LastBatch == HeadSlot.rows_consumed + BatchSize >= Len(HeadSlot.rows)

Exhausted == HeadSlot.rows_consumed >= Len(HeadSlot.rows)

PipelineNext ==
  /\ pc = "ready" /\ pipeline_active
  /\ IF pipeline_count > 0 /\ Exhausted
     THEN /\ pipeline' = [pipeline EXCEPT ![pipeline_head].rg = NoGroup]
          /\ pipeline_head' = (pipeline_head + 1) % pipeline_depth
          /\ pipeline_count' = pipeline_count - 1
          /\ pc' = "fill"
     ELSE /\ pc' = IF pipeline_count > 0 THEN "serve" ELSE "fill"
          /\ UNCHANGED <<pipeline, pipeline_head, pipeline_count>>
  /\ UNCHANGED <<fileVars, filterVars, rg_order_next, task_args, seqVars,
                 rows_skipped, poolVars, delivered, outcome>>

\* carquet_worker_pool_wait
PipelineWait ==
  /\ pc = "wait" /\ PoolIdle
  /\ pc' = "refill"
  /\ UNCHANGED <<fileVars, filterVars, ringVars, seqVars, rows_skipped, poolVars,
                 delivered, outcome>>

Batch(g, rows, data) == [rg |-> g, rows |-> rows, data |-> data]

\* The counts the tasks left in col_num_values are not looked at.
PipelineServe ==
  /\ pc = "serve"
  /\ LET from == HeadSlot.rows_consumed
         to == Min({from + BatchSize, Len(HeadSlot.rows)})
     IN /\ delivered' = Append(delivered,
             Batch(HeadSlot.rg, SubSeq(HeadSlot.rows, from + 1, to), HeadSlot.values))
        /\ pipeline' = [pipeline EXCEPT ![pipeline_head].rows_consumed = to]
  /\ pc' = "hold"
  /\ UNCHANGED <<fileVars, filterVars, rg_order_next, pipeline_head,
                 pipeline_count, task_args, seqVars, rows_skipped, poolVars, outcome>>

-------------------------------------------------------------------------------
(* carquet_batch_reader_next without the pipeline: the sequential path     *)
(* and, with a filter, batch_reader_next_filtered.  Column readers are     *)
(* reset for each row group that has something to read.                    *)

\* the row groups of the row_group_filter still to be read
Coming == {g \in mask : g > current_row_group}

SequentialEnd ==
  /\ pc = "ready" /\ ~pipeline_active /\ ~filtered
  /\ todo = <<>> /\ Coming = {}
  /\ current_row_group' = Len(RowsIn) + 1
  /\ pc' = "end"
  /\ UNCHANGED <<fileVars, filterVars, ringVars, todo, rows_skipped, poolVars,
                 delivered, outcome>>

\* open_row_group_readers: what the readers have to deliver, or no memory
OpenReaders(g) ==
  \/ todo' = Kept(g) /\ pc' = "read"
  \/ low_memory /\ pc' = "error" /\ UNCHANGED todo

SequentialOpen ==
  /\ pc = "ready" /\ ~pipeline_active /\ ~filtered
  /\ todo = <<>> /\ Coming # {}
  /\ current_row_group' = Min(Coming)
  /\ OpenReaders(Min(Coming))
  /\ UNCHANGED <<fileVars, filterVars, ringVars, rows_skipped, poolVars, delivered,
                 outcome>>

(* filter_advance_to_active_row_group: the search stops at a row group of  *)
(* which a row survives, or whose page index cannot be evaluated.          *)

Stops == {g \in Coming : g \in eval_fails \/ matches[g] # {}}

SkippedUpTo(last) ==
  MapThenSumSet(Skipped, {g \in Coming \ eval_fails : g <= last})

FilterEnd ==
  /\ pc = "ready" /\ ~pipeline_active /\ filtered
  /\ todo = <<>> /\ Stops = {}
  /\ current_row_group' = Len(RowsIn) + 1
  /\ rows_skipped' = rows_skipped + SkippedUpTo(Len(RowsIn))
  /\ pc' = "end"
  /\ UNCHANGED <<fileVars, filterVars, ringVars, todo, poolVars, delivered, outcome>>

FilterOpen ==
  /\ pc = "ready" /\ ~pipeline_active /\ filtered
  /\ todo = <<>> /\ Stops # {}
  /\ LET g == Min(Stops) IN
       /\ current_row_group' = g
       /\ rows_skipped' = rows_skipped + SkippedUpTo(g)
       /\ \/ g \notin eval_fails /\ OpenReaders(g)
          \/ g \in eval_fails /\ pc' = "error" /\ UNCHANGED todo
  /\ UNCHANGED <<fileVars, filterVars, ringVars, poolVars, delivered, outcome>>

SequentialContinue ==
  /\ pc = "ready" /\ ~pipeline_active /\ todo # <<>>
  /\ pc' = "read"
  /\ UNCHANGED <<fileVars, filterVars, ringVars, seqVars, rows_skipped, poolVars,
                 delivered, outcome>>

HasDamage == \E c \in Columns : <<current_row_group, c>> \in damaged

ReadColumns == [c \in Columns |-> IF <<current_row_group, c>> \in damaged
                                  THEN Junk ELSE current_row_group]

\* A batch of the next n rows; where checksums are verified a damaged page is
\* never decoded.
Deliver(n) ==
  /\ (todo # <<>> /\ HasDamage) => ~VerifyChecksums
  /\ delivered' = Append(delivered,
       Batch(current_row_group, SubSeq(todo, 1, n), ReadColumns))
  /\ todo' = SubSeq(todo, n + 1, Len(todo))
  /\ pc' = "hold"
  /\ UNCHANGED <<fileVars, filterVars, ringVars, current_row_group, rows_skipped,
                 poolVars, outcome>>

\* clamp_rows_to_zero_copy_window: where every column has its page as a view,
\* the batch is cut to the shortest of these pages.
Clamped(rows_to_read) == Min({1, rows_to_read})..rows_to_read

SequentialRead ==
  /\ pc = "read" /\ ~filtered
  /\ \E n \in Clamped(Min({BatchSize, Len(todo)})) : Deliver(n)

\* the range of consecutive rows that comes next
RangeLength == Max({n \in 0..Len(todo) :
                      \A i \in 1..n : todo[i] = todo[1] + i - 1})

\* batch_reader_next_filtered: a batch stays within one range.
FilteredRead ==
  /\ pc = "read" /\ filtered
  /\ Deliver(Min({BatchSize, RangeLength}))

\* A column cannot be decoded, or there is no memory for a batch.
NextFails ==
  /\ \/ pc = "read" /\ todo # <<>> /\ HasDamage
     \/ pc \in {"read", "serve"} /\ delivered = <<>> /\ low_memory
  /\ pc' = "error"
  /\ UNCHANGED <<fileVars, filterVars, ringVars, seqVars, rows_skipped, poolVars,
                 delivered, outcome>>

-------------------------------------------------------------------------------
(* qio_walk_body: the callback returns, or raises an error or is           *)
(* interrupted; then qio_batch_cleanup frees the reader, which waits for   *)
(* the pool before anything is released.                                   *)

CallbackReturns ==
  /\ pc = "hold"
  /\ pc' = "ready"
  /\ UNCHANGED <<fileVars, filterVars, ringVars, seqVars, rows_skipped, poolVars,
                 delivered, outcome>>

LeaveWalk ==
  /\ pc \in {"hold", "end", "error"}
  /\ outcome' = IF pc = "hold" THEN "jump" ELSE pc
  /\ pc' = "free"
  /\ UNCHANGED <<fileVars, filterVars, ringVars, seqVars, rows_skipped, poolVars,
                 delivered>>

MayFree_AtOnce == TRUE

MayFree == PoolIdle

Free ==
  /\ pc = "free" /\ MayFree
  /\ pc' = "freed"
  /\ UNCHANGED <<fileVars, filterVars, ringVars, seqVars, rows_skipped, poolVars,
                 delivered, outcome>>

-------------------------------------------------------------------------------

Main ==
  \/ PipelineNext \/ PipelineWait \/ PipelineServe
  \/ FillSkipsFailed \/ FillSkipsEmpty \/ FillGivesUp \/ FillSubmits \/ FillReturns
  \/ SequentialEnd \/ SequentialOpen \/ SequentialContinue \/ SequentialRead
  \/ FilterEnd \/ FilterOpen \/ FilteredRead
  \/ NextFails \/ CallbackReturns \/ LeaveWalk \/ Free

Thread(w) == StartTask(w) \/ FinishTask(w)

Next == Main \/ SetPageFilter \/ \E w \in 1..Threads : Thread(w)

\* The R thread runs until the walk is over, the pool's threads are scheduled
\* by the operating system, and a client sets a filter at most MaxFilters times.
Spec == Init /\ [][Next]_vars /\ WF_vars(Main) /\ \A w \in 1..Threads : WF_vars(Thread(w))

-------------------------------------------------------------------------------
(* Properties.                                                             *)

RowIds(g, rows) == [i \in DOMAIN rows |-> <<g, rows[i]>>]

\* the rows handed to the client so far, and the rows it should get
Given == FlattenSeq([i \in DOMAIN delivered |-> RowIds(delivered[i].rg, delivered[i].rows)])
Expected == FlattenSeq([i \in DOMAIN rg_order |-> RowIds(rg_order[i], Kept(rg_order[i]))])

Task == [slot : Slots, rg : Groups, col : Columns, ranges : BOOLEAN]

Undisturbed == damaged = {} /\ eval_fails = {} /\ ~low_memory
Earlier(a, b) == a[1] < b[1] \/ (a[1] = b[1] /\ a[2] < b[2])

\* Whatever fails, walk_batches() sees rows in the order of the file and none
\* twice, never more than batch_size at a time, and without damage every column
\* of a batch comes from the batch's own row group.  Where nothing fails these are
\* the selected rows, END_OF_DATA comes when all of them were seen, and
\* carquet_batch_reader_rows_skipped accounts for the others, whichever path
\* read the file.
WalkIsExact ==
  /\ \A i, j \in DOMAIN Given : i < j => Earlier(Given[i], Given[j])
  /\ \A i \in DOMAIN delivered :
       /\ Len(delivered[i].rows) <= BatchSize
       /\ damaged = {} /\ ~low_memory => \A c \in Columns : delivered[i].data[c] = delivered[i].rg
  /\ Undisturbed =>
       /\ IsPrefix(Given, Expected)
       /\ outcome = "end" =>
            /\ Given = Expected
            /\ filtered /\ filters = 1 =>
                 Len(Given) + rows_skipped = MapThenSumSet(LAMBDA g : RowsIn[g], mask)

\* A batch is a view of its slot's buffers: while the callback uses it no
\* task, running or queued, is going to write there.
ViewIsStable ==
  pc = "hold" /\ pipeline_active =>
    /\ \A w \in 1..Threads : running[w].slot # pipeline_head
    /\ \A i \in Range(queue) : task_args[i].slot # pipeline_head

\* carquet_batch_reader_free releases slots, column readers and arguments only
\* when no thread of the pool can still use them, however the walk ended.
FreeWaits == pc = "freed" => PoolIdle

\* The walk comes to an end: next never waits for a task that is not queued
\* and the fill loop makes progress.
WalkEnds == <>(pc = "freed")

\* open_parquet(verify_checksums = TRUE): "Verify Parquet page checksums when
\* present".  No batch holds values of a damaged page.
DamageIsReported ==
  VerifyChecksums =>
    \A i \in DOMAIN delivered : \A c \in Columns : delivered[i].data[c] = delivered[i].rg
===============================================================================
