----------------------------- MODULE ColumnWriter -----------------------------
(***************************************************************************)
(* carquet's column writer and the page writer under it                    *)
(* (writer/column_writer.c, writer/page_writer.c): batches of rows are cut *)
(* into page-sized pieces, or kept whole until the row group ends for a    *)
(* dictionary that may be given up, and leave as pages with statistics and *)
(* a page index.  Flat columns in PLAIN and dictionary encoding; the       *)
(* deferred encoding of OpenMP builds is not in the package's build.       *)
(*                                                                         *)
(* "int" stands for the fixed-width types, a value being one unit long;    *)
(* "text" for BYTE_ARRAY, where v is a string of length v and 0 the empty  *)
(* one.  Sizes are scaled: the 1024 and 8192 of the code are constants.    *)
(***************************************************************************)
EXTENDS ColumnPages

CONSTANTS
  TargetPageSize,    \* target_page_size
  MinChunkRows,      \* 1024: the least rows of a piece of a fixed-width batch
  FallbackRows,      \* 8192: rows of a text page when a dictionary is given up
  WriteBatchSize,    \* write_batch_size, 0 when unset
  MaxRowsPerPage,    \* max_rows_per_page, 0 when unset
  DictionaryLimit    \* dictionary_page_size_limit

ASSUME WriterAssumption ==
  /\ {TargetPageSize, MinChunkRows, FallbackRows, DictionaryLimit} \subseteq Nat \ {0}
  /\ {WriteBatchSize, MaxRowsPerPage} \subseteq Nat

VARIABLES
  writer      \* carquet_column_writer_internal_t with its page writer

\* The bytes of a value, and of its PLAIN encoding with the length prefix.
ByteLength(v) == IF schema.kind = "int" THEN 1 ELSE v
PlainSize(v) == IF schema.kind = "int" THEN 1 ELSE v + 1

SizeOf(values) == FoldLeft(LAMBDA n, v : n + PlainSize(v), 0, values)

NoBounds == <<>>

Bounds(values) ==
  IF values = <<>> THEN NoBounds ELSE <<Min(ToSet(values)), Max(ToSet(values))>>

Merge(a, b) ==
  IF NoBounds \in {a, b} THEN a \o b ELSE <<Min({a[1], b[1]}), Max({a[2], b[2]})>>

EmptyPage == [levels |-> <<>>, streams |-> <<>>, num_nulls |-> 0, bounds |-> NoBounds]

NewWriter(dictionary, encoding) ==
  [use_dictionary |-> dictionary, encoding |-> encoding, page |-> EmptyPage,
   column_buffer |-> <<>>, total_values |-> 0, total_nulls |-> 0,
   bounds |-> NoBounds, page_row_offset |-> 0, column_index |-> <<>>,
   offset_index |-> <<>>, dict_rows |-> <<>>, has_dictionary_page |-> FALSE]

AppendStream_PerCall(w, values) == Append(w.page.streams, values)

\* PLAIN values go on where the last call stopped, in the middle of a byte for
\* booleans.
AppendStream(w, values) == <<FlattenSeq(w.page.streams) \o values>>

\* The fused copy and min/max of PLAIN integers starts from the first value of
\* the array, also when it was told there is none.
Measured(w, values, beyond) ==
  IF values = <<>> /\ schema.kind = "int" /\ w.encoding = "PLAIN"
  THEN <<beyond>> ELSE values

\* carquet_page_writer_add_values; beyond is what lies behind the values.
AddValues(w, rows, beyond) ==
  LET values == Present(rows)
  IN  [w EXCEPT !.page =
        [levels |-> @.levels \o Levels(rows),
         streams |-> AppendStream(w, values),
         num_nulls |-> @.num_nulls + Len(rows) - Len(values),
         bounds |-> IF schema.statistics
                    THEN Merge(@.bounds, Bounds(Measured(w, values, beyond)))
                    ELSE @.bounds]]

EstimatedSize(page) ==
  SizeOf(FlattenSeq(page.streams)) + (IF schema.nullable THEN Len(page.levels) ELSE 0)

HasEmptyBound(bounds) == \E i \in DOMAIN bounds : ByteLength(bounds[i]) = 0

\* merge_page_statistics
MergePageStatistics(bounds, page_bounds) ==
  IF HasEmptyBound(page_bounds) THEN bounds ELSE Merge(bounds, page_bounds)

\* carquet_column_index_add_page keeps no bound of length zero.
IndexEntry(page) ==
  LET kept(i) == IF page.bounds = NoBounds THEN Null
                 ELSE IF ByteLength(page.bounds[i]) = 0 THEN Null ELSE page.bounds[i]
  IN  [null_count |-> page.num_nulls, is_null_page |-> page.bounds = NoBounds,
       min_value |-> kept(1), max_value |-> kept(2)]

PageReset_KeepsNulls(page) == [EmptyPage EXCEPT !.num_nulls = page.num_nulls]

\* carquet_page_writer_reset
PageReset(page) == EmptyPage

\* flush_current_page
FlushPage(w) ==
  IF w.page.levels = <<>> THEN w
  ELSE [w EXCEPT
    !.column_buffer = Append(@, DataPage(w.encoding, w.page.levels, w.page.streams)),
    !.total_nulls = @ + w.page.num_nulls,
    !.bounds = MergePageStatistics(@, w.page.bounds),
    !.column_index = Append(@, IndexEntry(w.page)),
    !.offset_index = Append(@, [offset |-> Len(w.column_buffer) + 1,
                                first_row_index |-> w.page_row_offset]),
    !.page_row_offset = @ + Len(w.page.levels),
    !.page = PageReset(@)]

PageIsFull(page) ==
  \/ EstimatedSize(page) >= TargetPageSize
  \/ MaxRowsPerPage > 0 /\ Len(page.levels) >= MaxRowsPerPage

\* The pieces of n rows when each takes at most size of them, as <<from, to>>.
Pieces(n, size) ==
  [i \in 1..((n + size - 1) \div size) |-> <<(i - 1) * size + 1, Min({i * size, n})>>]

MaxChunk(n) ==
  LET whole == IF schema.kind = "int" THEN Max({TargetPageSize, MinChunkRows}) ELSE n
  IN  IF WriteBatchSize > 0 THEN Min({WriteBatchSize, whole}) ELSE whole

\* encode_batch_eager
EncodeBatch(w, rows, beyond) ==
  LET step(v, piece) ==
        LET rest == Present(SubSeq(rows, piece[1], Len(rows)))
            next == IF rest = <<>> THEN beyond ELSE rest[1]
            added == AddValues(v, SubSeq(rows, piece[1], piece[2]), next)
        IN  IF PageIsFull(added.page) THEN FlushPage(added) ELSE added
  IN  FoldLeft(step, w, Pieces(Len(rows), MaxChunk(Len(rows))))

\* carquet_column_writer_write_batch: with a dictionary the rows are only kept.
WriteRows(w, rows, beyond) ==
  LET encoded == IF w.use_dictionary THEN [w EXCEPT !.dict_rows = @ \o rows]
                 ELSE EncodeBatch(w, rows, beyond)
  IN  [encoded EXCEPT !.total_values = @ + Len(rows)]

\* dict_fallback_to_plain: each span of rows becomes a page; a span without a
\* value is given a dummy of zeros.
FallBack(w) ==
  LET span == IF schema.kind = "int" THEN Max({TargetPageSize, MinChunkRows})
              ELSE Max({FallbackRows, MinChunkRows})
      step(v, piece) ==
        FlushPage(AddValues(v, SubSeq(w.dict_rows, piece[1], piece[2]), 0))
  IN  FoldLeft(step, [w EXCEPT !.encoding = "PLAIN", !.use_dictionary = FALSE],
               Pieces(Len(w.dict_rows), span))

\* The distinct values in the order in which they appear.
Entries(values) ==
  FoldLeft(LAMBDA es, v : IF Contains(es, v) THEN es ELSE Append(es, v), <<>>, values)

IndexIn(es, v) == (CHOOSE i \in DOMAIN es : es[i] = v) - 1

WorthADictionary(values) ==
  /\ SizeOf(Entries(values)) <= DictionaryLimit
  /\ Len(Entries(values)) < Len(values)

\* carquet_page_writer_set_min_max
InjectedBounds(values) ==
  IF schema.statistics /\ ~HasEmptyBound(Bounds(values)) THEN Bounds(values) ELSE NoBounds

EmitDictionary(w) ==
  LET values == Present(w.dict_rows)
      es == Entries(values)
  IN  FlushPage([w EXCEPT
        !.column_buffer = Append(@, DictionaryPage(es)),
        !.has_dictionary_page = TRUE,
        !.encoding = "DICTIONARY",
        !.page = [levels |-> Levels(w.dict_rows),
                  streams |-> <<[i \in DOMAIN values |-> IndexIn(es, values[i])]>>,
                  num_nulls |-> Len(w.dict_rows) - Len(values),
                  bounds |-> InjectedBounds(values)]])

\* finalize_dictionary
FinalizeDictionary(w) ==
  IF w.dict_rows = <<>> THEN w
  ELSE IF WorthADictionary(Present(w.dict_rows)) THEN EmitDictionary(w) ELSE FallBack(w)

\* carquet_column_writer_finalize
Finalized(w) == IF w.use_dictionary THEN FinalizeDictionary(w) ELSE FlushPage(w)

\* What the row group's metadata says of the chunk.
ChunkOf(w) ==
  [buffer |-> w.column_buffer, num_values |-> w.total_values,
   dictionary_page_offset |-> IF w.has_dictionary_page THEN 1 ELSE 0,
   data_page_offset |-> IF w.has_dictionary_page THEN 2 ELSE 1,
   column_index |-> w.column_index, offset_index |-> w.offset_index,
   null_count |-> w.total_nulls,
   bounds |-> IF schema.statistics /\ ~HasEmptyBound(w.bounds) THEN w.bounds ELSE NoBounds]
-------------------------------------------------------------------------------
(* The operations.                                                         *)

CreateWriter ==
  writer = NewWriter(schema.encoding = "DICTIONARY",
                     IF schema.encoding = "DICTIONARY" THEN "PLAIN" ELSE schema.encoding)

WriteBatch(rows, beyond) == writer' = WriteRows(writer, rows, beyond)

Finalize == writer' = Finalized(writer)

\* carquet_column_writer_reset, for the next row group.  A dictionary that was
\* given up is not tried again.
Reset == writer' = NewWriter(writer.use_dictionary, writer.encoding)
=============================================================================
