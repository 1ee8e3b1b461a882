----------------------------- MODULE WriteParquet -----------------------------
(***************************************************************************)
(* write_parquet(): qio_write_body (qio.c) driving carquet's file writer,  *)
(* and qio_write_cleanup, which R_UnwindProtect runs however the body      *)
(* ends.  An R error, a failing allocation inside R or a user interrupt    *)
(* leaves the body by a long jump; here it moves to "cleanup" with         *)
(* finished still FALSE.  The same path may be written several times.      *)
(***************************************************************************)
EXTENDS FileWriter

CONSTANTS
  Chunk,      \* QIO_WRITE_CHUNK
  MaxCalls    \* bound on the calls of write_parquet

ASSUME CallAssumption == Chunk \in Nat \ {0} /\ MaxCalls \in Nat

VARIABLES
  pc,                \* location in qio_write_body
  args,              \* the call's arguments
  group, col, row0,  \* the loop variables, columns counted from 1
  file,              \* ctx->file is open
  finished,          \* ctx->finished
  result,            \* what the last call came to: "none", "ok" or "error"
  before,            \* history: the file when the call was made
  created,           \* history: this call has opened the path for writing
  calls

loop == <<group, col, row0>>
ctx == <<args, file, finished>>
outcome == <<result, before, created, calls>>
wvars == <<vars, pc, loop, ctx, outcome>>

Min(a, b) == IF a < b THEN a ELSE b

-------------------------------------------------------------------------------
(* The partition of the frame into row groups and chunks.                  *)

GroupRows == LET n == IF args.group_rows > 0 THEN args.group_rows ELSE args.nrow
             IN IF n < 1 THEN 1 ELSE n

NumGroups_Floor == LET n == args.nrow \div GroupRows IN IF n < 1 THEN 1 ELSE n

NumGroups == LET n == (args.nrow + GroupRows - 1) \div GroupRows
             IN IF n < 1 THEN 1 ELSE n

GroupStart(g) == g * GroupRows

GroupEnd(g) == Min(GroupStart(g) + GroupRows, args.nrow)

ChunkRows == IF Min(args.nrow, Chunk) < 1 THEN 1 ELSE Min(args.nrow, Chunk)

ChunkLen_Unclamped == ChunkRows

ChunkLen == Min(GroupEnd(group) - row0, ChunkRows)

Existing == IF args.append THEN Len(ColumnOf(before, ReadFooter(before), 1)) ELSE 0

\* The rows of the chunk, by their numbers in the file.
Vals == [i \in 1..ChunkLen |-> Existing + row0 + i]

-------------------------------------------------------------------------------
(* write_parquet                                                           *)

\* R reads an existing file before it appends to it (qio_prepare_append).
Call ==
  /\ pc = "idle" /\ calls < MaxCalls
  /\ \E append, sorted \in BOOLEAN, group_rows \in 0..MaxRows, nrow \in 0..MaxRows :
       /\ append => /\ ReadFooter(disk) # NoFooter
                    /\ nrow + Len(ColumnOf(disk, ReadFooter(disk), 1)) <= MaxRows
       /\ args' = [append |-> append, sorted |-> sorted, group_rows |-> group_rows,
                   nrow |-> nrow]
  /\ pc' = "schema" /\ calls' = calls + 1
  /\ file' = FALSE /\ finished' = FALSE
  /\ result' = "none" /\ before' = disk /\ created' = FALSE
  /\ wstate' = "none" /\ mode' = "stream"
  /\ UNCHANGED <<disk, stream, header_written, file_offset, groups, current, sorting,
                 history, loop>>

\* The long jump out of the body.
Jump == pc' = "cleanup" /\ UNCHANGED <<loop, ctx, outcome>>

GoTo(l) == pc' = l /\ UNCHANGED <<loop, ctx, outcome>>

CreateSchema ==
  /\ pc = "schema"
  /\ GoTo("open") \/ Jump
  /\ UNCHANGED vars

\* fopen(path, "wb") and carquet_writer_create_file; either may fail.
OpenNew ==
  /\ pc = "open" /\ ~args.append
  /\ \/ Jump /\ UNCHANGED vars
     \/ /\ Create("stream")
        /\ pc' = "configure" /\ file' = TRUE /\ created' = TRUE
        /\ UNCHANGED <<loop, args, finished, result, before, calls>>
     \/ /\ disk' = <<>> /\ base' = 0 /\ out' = <<>>
        /\ pc' = "cleanup" /\ file' = TRUE /\ created' = TRUE
        /\ UNCHANGED <<writerVars, history, loop, args, finished, result, before, calls>>

\* carquet_writer_open_append; a failure leaves the file alone.
OpenOld ==
  /\ pc = "open" /\ args.append
  /\ \/ Jump /\ UNCHANGED vars
     \/ OpenAppend /\ GoTo("configure")

\* Encodings, key/value metadata and the sort declaration.
Configure ==
  /\ pc = "configure"
  /\ \/ Jump /\ UNCHANGED vars
     \/ /\ IF args.sorted THEN SetSorting ELSE UNCHANGED vars
        /\ group' = 0 /\ col' = 1 /\ row0' = 0
        /\ pc' = IF args.nrow > 0 THEN "write" ELSE "boundary"
        /\ UNCHANGED <<ctx, outcome>>

\* The end of an iteration of the chunk loop.
NextChunk ==
  /\ IF row0 + ChunkRows < GroupEnd(group)
     THEN row0' = row0 + ChunkRows /\ UNCHANGED <<col, pc>>
     ELSE IF col < NumColumns
          THEN col' = col + 1 /\ row0' = GroupStart(group) /\ UNCHANGED pc
          ELSE pc' = "boundary" /\ UNCHANGED <<col, row0>>
  /\ UNCHANGED <<group, ctx, outcome>>

\* One chunk: its conversion may raise an error before anything is written,
\* carquet_writer_write_batch may fail, and after a batch has been written
\* R_CheckUserInterrupt may jump.
WriteChunk ==
  /\ pc = "write"
  /\ \/ Jump /\ UNCHANGED vars
     \/ Fail(BatchCells(col, Vals)) /\ Jump
     \/ WriteBatch(col, Vals) /\ (NextChunk \/ Jump)

\* carquet_writer_new_row_group between two groups, never after the last.
Boundary ==
  /\ pc = "boundary"
  /\ IF group + 1 < NumGroups
     THEN \/ /\ NewRowGroup
             /\ group' = group + 1 /\ col' = 1 /\ row0' = GroupStart(group + 1)
             /\ pc' = "write"
             /\ UNCHANGED <<ctx, outcome>>
          \/ Fail(LastCells) /\ Jump
     ELSE GoTo("close") /\ UNCHANGED vars

CloseWriter ==
  /\ pc = "close"
  /\ \/ \E ok \in BOOLEAN : Close(ok) /\ GoTo("fclose")
     \/ CloseFails /\ Jump

\* The fclose of qio's own stream.
FinalFclose ==
  /\ pc = "fclose"
  /\ IF file
     THEN \E ok \in BOOLEAN : Fclose(out, ok) /\ finished' = ok
     ELSE finished' = TRUE /\ UNCHANGED <<disk, synced>>
  /\ file' = FALSE
  /\ pc' = "cleanup"
  /\ UNCHANGED <<stream, writerVars, old, sent, loop, args, outcome>>

Removes_WithWriter == ~finished /\ ~args.append /\ wstate \in {"open", "failed"}

Removes == ~finished /\ ~args.append

\* ctx->writer is NULL: it was never created, or close has consumed it.
LeavesWriter == wstate \notin {"open", "failed"}

\* qio_write_cleanup
Cleanup ==
  /\ pc = "cleanup"
  /\ wstate' = IF LeavesWriter THEN wstate ELSE "aborted"
  /\ CASE Removes -> disk' = NoFile /\ UNCHANGED synced
       [] ~Removes /\ ~LeavesWriter /\ owns_file -> \E ok \in BOOLEAN : Fclose(out, ok)
       [] OTHER -> UNCHANGED <<disk, synced>>
  /\ file' = FALSE
  /\ pc' = "idle"
  /\ result' = IF finished THEN "ok" ELSE "error"
  /\ UNCHANGED <<stream, mode, header_written, file_offset, groups, current, sorting,
                 old, sent, loop, args, finished, before, created, calls>>

Init ==
  /\ disk = NoFile
  /\ base = 0 /\ out = <<>>
  /\ mode = "stream" /\ wstate = "none"
  /\ header_written = FALSE /\ file_offset = 0
  /\ groups = <<>> /\ cols = NoRows /\ rows = 0 /\ est = 0
  /\ sorting = FALSE
  /\ old = NoFooter /\ sent = [c \in Columns |-> 0] /\ synced = FALSE
  /\ pc = "idle" /\ group = 0 /\ col = 1 /\ row0 = 0
  /\ args = [append |-> FALSE, sorted |-> FALSE, group_rows |-> 0, nrow |-> 0]
  /\ file = FALSE /\ finished = FALSE
  /\ result = "none" /\ before = NoFile /\ created = FALSE /\ calls = 0

Next ==
  \/ Call \/ CreateSchema \/ OpenNew \/ OpenOld \/ Configure \/ WriteChunk \/ Boundary
  \/ CloseWriter \/ FinalFclose \/ Cleanup

Spec == Init /\ [][Next]_wvars
-------------------------------------------------------------------------------
(* Properties.                                                             *)

Done == pc = "idle" /\ result = "ok"
Failed == pc = "idle" /\ result = "error"

\* The new tail is the last thing in the file: an append wrote at least as
\* much as it overwrote.
Covered == base + Len(out) = Len(disk)

\* The rows of the row groups the call has added.
NewGroupRows ==
  LET footer == ReadFooter(disk)
      first == IF args.append THEN Len(old) ELSE 0
  IN [i \in 1..Len(footer) - first |-> footer[first + i].rows]

\* When write_parquet returns and its data reached the disk, the file holds
\* the frame, after the rows it already had if it was appended to: each row
\* once, in order, all columns alike, over every row group boundary and
\* chunk boundary.  And its new row groups are the ones asked for by
\* row_group_size, the last one shorter, none of them empty: carquet's own
\* byte-target flush adds no boundary, because two columns or more are aligned
\* only where a group ends anyway (a single column is after every chunk).
WrittenFileIsWhole ==
  Done /\ synced /\ Covered =>
    LET footer == ReadFooter(disk)
        size == IF args.group_rows > 0 THEN args.group_rows ELSE args.nrow
        n == Len(NewGroupRows)
    IN /\ footer # NoFooter /\ Holds(disk, footer, Existing + args.nrow)
       /\ args.nrow > 0 /\ NumColumns > 1 =>
            /\ (n - 1) * size < args.nrow /\ args.nrow <= n * size
            /\ \A i \in 1..n - 1 : NewGroupRows[i] = size
            /\ NewGroupRows[n] = args.nrow - (n - 1) * size

\* A write that fails leaves no partial file behind, wherever it failed: at
\* the open, in a column, at a boundary, in close or in the last fclose.  And
\* however a call ends, the stream is closed and the writer is gone: it was
\* closed, or aborted exactly when it had not been handed to close.
FailureLeavesNothing ==
  /\ (Failed /\ ~args.append) => disk = NoFile
  /\ pc = "idle" => ~file /\ wstate \notin {"open", "failed"}

\* qio.c on the cleanup: "Only a file this call created may be removed."
OnlyOwnFileRemoved == Failed /\ ~created => disk = before

\* qio.c on the cleanup: "An append failure leaves the original alone:
\* carquet's abort closes it without truncating, and the footer it did not
\* rewrite still describes the original row groups."
FailedAppendKeepsOriginal ==
  Failed /\ args.append => ReadFooter(disk) = ReadFooter(before)
===============================================================================
