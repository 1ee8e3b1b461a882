----------------------------- MODULE ColumnChunk ------------------------------
(***************************************************************************)
(* One column of a file, from the batches an application writes to the     *)
(* rows another one reads: the column writer makes a chunk of each row     *)
(* group, the reader opens it and reads, skips and repositions in any      *)
(* order, and the statistics and the page index decide which rows a filter *)
(* leaves out.  A chunk may also come from another program: with other     *)
(* page boundaries, a dictionary used by several pages, given up in mid    *)
(* chunk, misplaced or not declared in the metadata, or no page index.     *)
(***************************************************************************)
EXTENDS ColumnWriter, ColumnReader

CONSTANTS
  Values,      \* the values of a column
  Schemas,     \* the columns that may be written
  Foreign,     \* chunks of other programs: schema, rows, layout, encodings, place, indexed
  Clauses,     \* the filters
  MaxBatch,    \* bound: rows of a batch that is written
  MaxRead,     \* bound: rows of a read or of a skip
  MaxRows      \* bound: rows of a row group

ASSUME ChunkAssumption ==
  /\ Values \subseteq Nat
  /\ {MaxBatch, MaxRead, MaxRows} \subseteq Nat

VARIABLES
  phase,      \* "writing", "closed" (the chunk is in the file), "reading"
  rows,       \* the rows of the chunk
  pos,        \* the row at which the reader was told to be, or Lost
  out         \* the last call of the reader: its rows, and whether they are too few
              \* although nothing went wrong

vars == <<schema, writer, chunk, reader, phase, rows, pos, out>>

Lost == -1

NoChunk == [buffer |-> <<>>]
NoReader == [page_loaded |-> FALSE]
NoCall == [rows |-> <<>>, short |-> FALSE]

Batches == UNION {[1..n -> Values \cup IF schema.nullable THEN {Null} ELSE {}] :
                  n \in 1..MaxBatch}
-------------------------------------------------------------------------------
(* A chunk of another program, from its description f.                     *)

\* Before page i of the layout there are this many rows.
FirstRow(f, i) == FoldLeft(+, 0, SubSeq(f.layout, 1, i - 1))

ForeignData(f, i) ==
  LET part == SubSeq(f.rows, FirstRow(f, i) + 1, FirstRow(f, i) + f.layout[i])
      values == Present(part)
      es == Entries(Present(f.rows))
      plain == f.encodings = "plain" \/ (f.encodings = "mixed" /\ i > 1)
  IN  IF plain THEN DataPage("PLAIN", Levels(part), <<values>>)
      ELSE DataPage("DICTIONARY", Levels(part),
                    <<[k \in DOMAIN values |-> IndexIn(es, values[k])]>>)

\* The dictionary is declared with the data behind it, declared with the data
\* said to be in its place, or not declared.
ForeignChunk(f) ==
  LET dict == IF f.encodings = "plain" THEN <<>>
              ELSE <<DictionaryPage(Entries(Present(f.rows)))>>
      data == [i \in DOMAIN f.layout |-> ForeignData(f, i)]
      declared == dict # <<>> /\ f.place # "undeclared"
  IN  [buffer |-> dict \o data, num_values |-> Len(f.rows),
       dictionary_page_offset |-> IF declared THEN 1 ELSE 0,
       data_page_offset |-> IF declared /\ f.place = "behind" THEN 2 ELSE 1,
       column_index |-> <<>>, null_count |-> 0, bounds |-> NoBounds,
       offset_index |-> IF f.indexed
         THEN [i \in DOMAIN f.layout |-> [offset |-> Len(dict) + i,
                                          first_row_index |-> FirstRow(f, i)]]
         ELSE <<>>]
-------------------------------------------------------------------------------
WriteColumn ==
  /\ schema \in Schemas
  /\ phase = "writing" /\ rows = <<>> /\ chunk = NoChunk
  /\ CreateWriter

FromElsewhere ==
  \E f \in Foreign :
    /\ schema = f.schema
    /\ phase = "closed" /\ rows = f.rows /\ chunk = ForeignChunk(f)
    /\ writer = NewWriter(FALSE, "PLAIN")

Init ==
  /\ WriteColumn \/ FromElsewhere
  /\ reader = NoReader /\ pos = 0 /\ out = NoCall

Write ==
  /\ phase = "writing"
  /\ \E batch \in Batches, beyond \in Values :
       /\ Len(rows) + Len(batch) <= MaxRows
       /\ WriteBatch(batch, beyond)
       /\ rows' = rows \o batch
  /\ UNCHANGED <<schema, chunk, reader, phase, pos, out>>

\* The row group is closed: the metadata is taken from the finalized writer.
Close ==
  /\ phase = "writing"
  /\ Finalize
  /\ chunk' = ChunkOf(Finalized(writer))
  /\ phase' = "closed"
  /\ UNCHANGED <<schema, reader, rows, pos, out>>

NextRowGroup ==
  /\ phase = "closed" /\ chunk.num_values > 0 /\ chunk.column_index # <<>>
  /\ Reset
  /\ phase' = "writing" /\ rows' = <<>> /\ chunk' = NoChunk
  /\ UNCHANGED <<schema, reader, pos, out>>

\* Dictionaries are preserved where the metadata declares one.
Open ==
  /\ phase = "closed"
  /\ \E preserve \in {FALSE, Declared} : reader' = FreshReader(chunk, preserve)
  /\ phase' = "reading"
  /\ UNCHANGED <<schema, writer, chunk, rows, pos, out>>

\* With a preserved dictionary the caller looks the indices up.
Looked(r, values) ==
  IF ~r.preserve_dictionary THEN values
  ELSE [i \in DOMAIN values |->
          IF values[i] + 1 \in DOMAIN r.dictionary THEN r.dictionary[values[i] + 1] ELSE Junk]

ReadBatch ==
  /\ phase = "reading" /\ pos # Lost
  /\ \E n \in 1..MaxRead, bad \in FaultsOf(chunk.buffer) :
     \E s \in {ReadRows(reader, n, bad)} :
       /\ reader' = s.r
       /\ out' = [rows |-> Scatter(s.levels, Looked(s.r, s.values)),
                  short |-> bad = NoFault /\ Len(s.levels) < n]
       /\ pos' = pos + Len(s.levels)
  /\ UNCHANGED <<schema, writer, chunk, phase, rows>>

\* carquet_column_read_batch of no rows loads a page and hands out nothing.
Peek ==
  /\ phase = "reading" /\ pos # Lost
  /\ reader.values_remaining > 0 /\ ~reader.page_loaded
  /\ \E bad \in FaultsOf(chunk.buffer) : reader' = EnsurePage(reader, bad).r
  /\ out' = NoCall
  /\ UNCHANGED <<schema, writer, chunk, phase, rows, pos>>

Skip ==
  /\ phase = "reading" /\ pos # Lost
  /\ \E n \in 1..MaxRead, bad \in FaultsOf(chunk.buffer) :
     \E s \in {SkipRows(reader, n, bad)} :
       /\ reader' = s.r
       /\ out' = [NoCall EXCEPT !.short = bad = NoFault /\ s.done < n]
       /\ pos' = pos + s.done
  /\ UNCHANGED <<schema, writer, chunk, phase, rows>>

\* The batch reader positions anew before it reads on when positioning failed.
Position ==
  /\ phase = "reading"
  /\ \E row \in 0..Len(rows) - 1, bad \in FaultsOf(chunk.buffer) :
     \E p \in {PositionAt(reader, row, bad)} :
       /\ reader' = p.r
       /\ pos' = IF p.ok THEN row ELSE Lost
  /\ out' = NoCall
  /\ UNCHANGED <<schema, writer, chunk, phase, rows>>

Next == Write \/ Close \/ NextRowGroup \/ Open \/ ReadBatch \/ Peek \/ Skip \/ Position

Spec == Init /\ [][Next]_vars
-------------------------------------------------------------------------------
(* Properties.                                                             *)

\* Whatever batches a chunk was written in, and however reads, peeks, skips,
\* jumps and failed calls follow each other, a read hands out the rows at the
\* place where the caller believes the reader to be: each present value with its
\* own row, across pages (carquet_column_read_batch).
ReadBack ==
  pos # Lost => out.rows = SubSeq(rows, pos - Len(out.rows) + 1, pos)

\* The page at which the reader stands is one it cannot decode, or a dictionary
\* that it was not told of.
Stuck ==
  LET p == reader.data_start_offset + reader.current_page
  IN  p \in DOMAIN chunk.buffer /\ ~(IsData(p) /\ Decodable(reader, chunk.buffer[p]))

\* A read or a skip that nothing disturbs comes up short only at the end of the
\* chunk (carquet_column_read_batch, carquet_column_skip), and values_remaining,
\* which bounds every loop of the reader and keeps it inside the chunk, is the
\* number of rows behind the caller's place.
ShortMeansEnd ==
  pos # Lost =>
    /\ out.short => pos = Len(rows) \/ Stuck
    /\ phase = "reading" => reader.values_remaining = Len(rows) - pos

\* The page index describes the pages: their places, the rows they start at and
\* the nulls they hold; the chunk's null count is the sum (flush_current_page).
PageIndexIsExact ==
  phase = "closed" /\ chunk.column_index # <<>> =>
    /\ [i \in DOMAIN chunk.offset_index |-> chunk.offset_index[i].offset] =
         SetToSortSeq(DataPages(chunk.buffer), <)
    /\ \A i \in DOMAIN chunk.offset_index :
         LET at == chunk.offset_index[i]
             page == chunk.buffer[at.offset]
         IN  /\ at.first_row_index = RowsBefore(chunk.buffer, at.offset)
             /\ chunk.column_index[i].null_count =
                  Len(page.levels) - NumPresent(page.levels)
    /\ chunk.null_count = Len(rows) - Len(Present(rows))

\* A page filter leaves out no row that satisfies it ("Page filters are
\* conservative", carquet/carquet.h), also when its ranges are intersected with
\* those of a clause on another column.
FilterKeepsMatches ==
  phase = "closed" /\ chunk.column_index # <<>> =>
    \A clause \in Clauses :
      LET kept == ClauseRanges(chunk, clause)
      IN  /\ \A i \in DOMAIN rows : RowMatches(rows[i], clause) => i - 1 \in RowsOf(kept)
          /\ clause.op = "EQ" => \A other \in SUBSET (0..Len(rows) - 1) :
               LET list == FoldLeft(LAMBDA l, r : AppendRange(l, r, r + 1), <<>>,
                                    SetToSortSeq(other, <))
               IN  RowsOf(Intersect(kept, list)) = RowsOf(kept) \cap other

\* A row group that its statistics rule out holds no row that satisfies the
\* comparison (carquet_reader_row_group_matches).
RowGroupFilterKeepsMatches ==
  phase = "closed" =>
    \A clause \in {c \in Clauses : c.op \in {"EQ", "NE", "LT", "LE", "GT", "GE"}} :
      (\E i \in DOMAIN rows : RowMatches(rows[i], clause)) => RowGroupMatches(chunk, clause)
=============================================================================
