------------------------------ MODULE FileWriter ------------------------------
(***************************************************************************)
(* carquet's file writer (writer/file_writer.c, with the row group writer  *)
(* it drives): a client opens a writer on a path, on a stream of its own   *)
(* or on an existing file, writes batches of rows column by column, ends   *)
(* row groups, and closes or aborts.  Every call may fail, for want of     *)
(* memory or of disk space.                                                *)
(*                                                                         *)
(* Bytes go through a stdio stream: out holds what has been written since  *)
(* the writer was opened, and the file itself changes when the stream is   *)
(* closed.  Nothing else looks at the file in between, so when exactly     *)
(* stdio empties its buffer does not matter, only that a failing close     *)
(* leaves some prefix of out behind.                                       *)
(***************************************************************************)
EXTENDS ParquetFile

CONSTANTS
  RowGroupSize,      \* options.row_group_size, in bytes
  Width,             \* bytes a row adds to the estimate
  IntMax,            \* stands for INT64_MAX
  Bloom, PageIndex,  \* options.write_bloom_filters, options.write_page_index
  MaxRows            \* bound on the rows of the file

ASSUME WriterAssumption ==
  /\ {RowGroupSize, Width, IntMax, MaxRows} \subseteq Nat
  /\ Bloom \in BOOLEAN /\ PageIndex \in BOOLEAN

VARIABLES
  disk,             \* the file at the path, NoFile if there is none
  base, out,        \* the stream: where it started writing, and what it wrote
  mode,             \* "path", "stream" or "append": how the writer was opened
  wstate,           \* the writer: "none", "open", "failed", "closed", "aborted"
  header_written, file_offset,
  groups,           \* row_groups
  cols, rows,       \* the current row group: what its columns hold, its rows
  est,              \* current_row_group_estimated_bytes
  sorting,          \* sorting_columns has been set
  old,              \* history: the file's metadata when it was opened for append
  sent,             \* history: rows of the file written to each column so far
  synced            \* history: the stream was closed without an error

stream == <<base, out>>
current == <<cols, rows, est>>
writerVars == <<mode, wstate, header_written, file_offset, groups, current, sorting>>
history == <<old, sent, synced>>
vars == <<disk, stream, writerVars, history>>

owns_file == mode # "stream"
NoRows == [c \in Columns |-> <<>>]

-------------------------------------------------------------------------------
(* The stream.                                                             *)

Prefixes(cells) == {SubSeq(cells, 1, n) : n \in 0..Len(cells)}

\* fclose of a stream that wrote cells: all of them are in the file if it
\* succeeds, some prefix if it does not.
Fclose(cells, ok) ==
  /\ synced' = ok
  /\ disk' \in {Overlay(disk, base, p) : p \in IF ok THEN {cells} ELSE Prefixes(cells)}

-------------------------------------------------------------------------------
(* Opening.                                                                *)

Fresh(m) ==
  /\ mode' = m /\ wstate' = "open"
  /\ cols' = NoRows /\ rows' = 0 /\ est' = 0
  /\ sorting' = FALSE
  /\ out' = <<>>
  /\ synced' = FALSE

\* fopen(path, "wb") truncates what was there.
Create(m) ==
  /\ Fresh(m)
  /\ disk' = <<>> /\ base' = 0
  /\ groups' = <<>>
  /\ header_written' = FALSE /\ file_offset' = 0
  /\ old' = NoFooter /\ sent' = [c \in Columns |-> 0]

\* What the writer keeps of a row group of the existing footer: everything
\* but its sort declaration.
RestoreRowGroup(g) == [rows |-> g.rows, data |-> g.data, aux |-> g.aux]

SeekTo_Start(offset) == 0

\* Where the stream stands after carquet_fseek64.
SeekTo(offset) == offset

\* The existing footer is parsed, its row groups are restored, and writing
\* starts where it began.
OpenAppend ==
  LET metadata == ReadFooter(disk)
  IN /\ metadata # NoFooter
     /\ Fresh("append")
     /\ groups' = [i \in DOMAIN metadata |-> RestoreRowGroup(metadata[i])]
     /\ base' = SeekTo(FooterStart(disk))
     /\ header_written' = TRUE /\ file_offset' = FooterStart(disk)
     /\ old' = metadata
     /\ sent' = [c \in Columns |-> Len(ColumnOf(disk, metadata, c))]
     /\ UNCHANGED disk

SetSorting ==
  /\ sorting' = TRUE
  /\ UNCHANGED <<disk, stream, mode, wstate, header_written, file_offset, groups,
                 current, history>>

-------------------------------------------------------------------------------
(* Writing.  Each operator below is given the cells written before it in   *)
(* the same call.                                                          *)

\* ensure_header_written
Header == IF header_written THEN <<>> ELSE <<Magic>>

ChunkCells(cs) == [c \in Columns |-> Data(c, cs[c])]

\* The bloom filters of all columns, then both indexes of each column.
AuxKinds ==
  (IF Bloom THEN [c \in Columns |-> <<"bloom", c>>] ELSE <<>>)
  \o (IF PageIndex
      THEN [i \in 1..2 * NumColumns |->
              <<IF i % 2 = 1 THEN "column_index" ELSE "offset_index", (i + 1) \div 2>>]
      ELSE <<>>)

AuxCells(cs) == [i \in DOMAIN AuxKinds |->
                   Aux(AuxKinds[i][1], AuxKinds[i][2], cs[AuxKinds[i][2]])]

GroupCells(cs) == ChunkCells(cs) \o AuxCells(cs)

RowGroup_AuxAtStart(n, at) ==
  [rows |-> n,
   data |-> [c \in Columns |-> at + c - 1],
   aux |-> [i \in DOMAIN AuxKinds |->
              [kind |-> AuxKinds[i][1], c |-> AuxKinds[i][2], at |-> at + i - 1]]]

\* The metadata of a row group of n rows that starts at offset at.
RowGroup(n, at) ==
  [rows |-> n,
   data |-> [c \in Columns |-> at + c - 1],
   aux |-> [i \in DOMAIN AuxKinds |->
              [kind |-> AuxKinds[i][1], c |-> AuxKinds[i][2],
               at |-> at + NumColumns + i - 1]]]

\* flush_row_group on a row group that holds n rows in cs; cells is what the
\* call wrote before.
Flush(cells, cs, n) ==
  LET at == file_offset + Len(cells)
  IN /\ out' = out \o cells \o GroupCells(cs)
     /\ groups' = Append(groups, RowGroup(n, at))
     /\ file_offset' = at + Len(GroupCells(cs))
     /\ cols' = NoRows /\ rows' = 0 /\ est' = 0

SaturatingAdd(a, b) == IF b <= 0 \/ a >= IntMax - b THEN IntMax ELSE a + b

Aligned_FirstColumn(cs, n) == n > 0 /\ Len(cs[1]) = n

\* current_row_group_is_aligned
Aligned(cs, n) == n > 0 /\ \A c \in Columns : Len(cs[c]) = n

AutoFlush(b) ==
  RowGroupSize > 0 /\ b.est > RowGroupSize /\ Aligned(b.cols, b.rows)

\* estimate_column_batch_bytes, for columns of one width
Estimate(vals) == Len(vals) * Width

\* The current row group with the rows vals added to column c.
Batch(c, vals) ==
  [cols |-> [cols EXCEPT ![c] = @ \o vals],
   rows |-> IF c = 1 THEN rows + Len(vals) ELSE rows,
   est |-> SaturatingAdd(est, Estimate(vals))]

\* carquet_writer_write_batch of vals to column c, when nothing fails.
WriteBatch(c, vals) ==
  LET b == Batch(c, vals)
  IN /\ IF AutoFlush(b)
        THEN Flush(Header, b.cols, b.rows)
        ELSE /\ out' = out \o Header
             /\ file_offset' = file_offset + Len(Header)
             /\ cols' = b.cols /\ rows' = b.rows /\ est' = b.est
             /\ UNCHANGED groups
     /\ header_written' = TRUE
     /\ sent' = [sent EXCEPT ![c] = @ + Len(vals)]
     /\ UNCHANGED <<disk, base, mode, wstate, sorting, old, synced>>

\* carquet_writer_new_row_group; an empty row group is not written.
NewRowGroup ==
  /\ IF rows > 0
     THEN Flush(Header, cols, rows)
     ELSE /\ out' = out \o Header
          /\ file_offset' = file_offset + Len(Header)
          /\ UNCHANGED <<groups, current>>
  /\ header_written' = TRUE
  /\ UNCHANGED <<disk, base, mode, wstate, sorting, history>>

\* What carquet_writer_write_batch writes to the stream besides the header.
BatchCells(c, vals) ==
  IF AutoFlush(Batch(c, vals)) THEN GroupCells(Batch(c, vals).cols) ELSE <<>>

\* A call that fails has written some part of what it had to write.  The
\* writer can still be closed or aborted; a client aborts it.
Fail(cells) ==
  /\ \E p \in Prefixes(Header \o cells) : out' = out \o p
  /\ wstate' = "failed"
  /\ UNCHANGED <<disk, base, mode, header_written, file_offset, groups, current,
                 sorting, history>>

-------------------------------------------------------------------------------
(* Closing.                                                                *)

\* build_file_metadata: the writer's sort declaration goes to every row group.
FileMetadata(gs) ==
  [i \in DOMAIN gs |-> [rows |-> gs[i].rows, data |-> gs[i].data, aux |-> gs[i].aux,
                        sorted |-> sorting]]

LastGroup_Dropped == <<>>

LastGroup == IF rows > 0
             THEN <<RowGroup(rows, file_offset + Len(Header))>>
             ELSE <<>>

LastCells == IF rows > 0 THEN GroupCells(cols) ELSE <<>>

\* What carquet_writer_close writes: the header if there is none yet, the
\* last row group, the footer and the tail.
ClosingCells ==
  LET metadata == FileMetadata(groups \o LastGroup)
  IN Header \o LastCells \o FooterCells(metadata) \o <<TailCell(metadata)>>

\* carquet_writer_close returns CARQUET_OK.  A file the writer opened itself
\* is closed, and the result of fclose is not looked at.
Close(fclose_ok) ==
  /\ out' = out \o ClosingCells
  /\ wstate' = "closed"
  /\ IF owns_file THEN Fclose(out', fclose_ok) ELSE UNCHANGED <<disk, synced>>
  /\ UNCHANGED <<base, mode, header_written, file_offset, groups, current, sorting,
                 old, sent>>

\* carquet_writer_close returns an error; the writer is freed all the same.
CloseFails ==
  /\ \E p \in Prefixes(ClosingCells) : out' = out \o p
  /\ wstate' = "close_failed"
  /\ IF owns_file THEN Fclose(out', FALSE) ELSE UNCHANGED <<disk, synced>>
  /\ UNCHANGED <<base, mode, header_written, file_offset, groups, current, sorting,
                 old, sent>>

Abort_KeepsFile(fclose_ok) ==
  /\ wstate' = "aborted"
  /\ IF owns_file THEN Fclose(out, fclose_ok) ELSE UNCHANGED <<disk, synced>>
  /\ UNCHANGED <<stream, mode, header_written, file_offset, groups, current, sorting,
                 old, sent>>

\* carquet_writer_abort: the file is closed if the writer opened it, and
\* removed unless it was there before.
Abort(fclose_ok) ==
  /\ wstate' = "aborted"
  /\ CASE mode = "path" -> disk' = NoFile /\ synced' = fclose_ok
       [] mode = "append" -> Fclose(out, fclose_ok)
       [] mode = "stream" -> UNCHANGED <<disk, synced>>
  /\ UNCHANGED <<stream, mode, header_written, file_offset, groups, current, sorting,
                 old, sent>>

===============================================================================
