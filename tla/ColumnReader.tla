----------------------------- MODULE ColumnReader -----------------------------
(***************************************************************************)
(* carquet's column reader (reader/column_reader.c and the page state      *)
(* machine of reader/page_reader.c): reading, peeking, skipping and        *)
(* repositioning in one column chunk, with pages loaded on demand and a    *)
(* load that may fail and be tried again.  The mapped and the buffered     *)
(* path of the page loader differ in where bytes come from; one model      *)
(* stands for both.  Flat columns only.                                    *)
(***************************************************************************)
EXTENDS ColumnPages

-----------------------------------------------------------------------------
(* Choosing rows from statistics alone: reader/page_filter.c decides page by
   page from the column index, reader/statistics.c chunk by chunk from the row
   group's metadata.  A clause has an operator and its operands; a bound that is
   absent, or of length zero, is Null.  The order of the values is the column's;
   NaN is not modelled. *)

\* A row range list: <<first_row, end_row>> pairs, ascending and apart.
RowsOf(list) == UNION {list[i][1]..list[i][2] - 1 : i \in DOMAIN list}

\* carquet_row_range_list_append
AppendRange(list, first, end) ==
  IF end <= first THEN list
  ELSE IF list # <<>> /\ Last(list)[2] = first
       THEN Append(Front(list), <<Last(list)[1], end>>)
       ELSE Append(list, <<first, end>>)

Compare(op, x, v) ==
  CASE op = "EQ" -> x = v
    [] op = "NE" -> x # v
    [] op = "LT" -> x < v
    [] op = "LE" -> x <= v
    [] op = "GT" -> x > v
    [] op = "GE" -> x >= v

\* Does a row satisfy the clause?
RowMatches(x, clause) ==
  CASE clause.op = "IS_NULL" -> x = Null
    [] clause.op = "IS_NOT_NULL" -> x # Null
    [] clause.op = "RANGE" -> /\ x # Null
                              /\ clause.lo # Null => x >= clause.lo
                              /\ clause.hi # Null => x <= clause.hi
    [] clause.op = "IN" -> x # Null /\ x \in clause.values
    [] OTHER -> x # Null /\ Compare(clause.op, x, clause.value)

\* May a value between min and max satisfy the clause, either bound being
\* unknown when Null?
WithinBounds(min, max, clause) ==
  LET notBelow(v) == min # Null => v >= min
      notAbove(v) == max # Null => v <= max
  IN  CASE clause.op = "EQ" -> notBelow(clause.value) /\ notAbove(clause.value)
        [] clause.op = "NE" -> Null \in {min, max} \/ {min, max} # {clause.value}
        [] clause.op = "LT" -> min # Null => min < clause.value
        [] clause.op = "LE" -> notBelow(clause.value)
        [] clause.op = "GT" -> max # Null => max > clause.value
        [] clause.op = "GE" -> notAbove(clause.value)
        [] clause.op = "RANGE" -> /\ clause.lo # Null => notAbove(clause.lo)
                                  /\ clause.hi # Null => notBelow(clause.hi)
        [] clause.op = "IN" -> \E v \in clause.values : notBelow(v) /\ notAbove(v)

AllNull_Any(stats, page_rows) == stats.is_null_page \/ stats.null_count > 0

AllNull(stats, page_rows) == stats.is_null_page \/ stats.null_count >= page_rows

\* page_matches_clause
PageMatches(stats, clause, page_rows) ==
  CASE clause.op = "IS_NULL" -> stats.null_count > 0 \/ stats.is_null_page
    [] clause.op = "IS_NOT_NULL" -> ~AllNull(stats, page_rows)
    [] OTHER -> /\ ~AllNull(stats, page_rows)
                /\ \/ stats.min_value = Null /\ stats.max_value = Null
                   \/ WithinBounds(stats.min_value, stats.max_value, clause)

\* find_page_for_row and eval_clause_to_ranges take a page to end where the
\* next one starts, and the last one where the row group ends.
EndRow(chunk, i) ==
  IF i < Len(chunk.offset_index) THEN chunk.offset_index[i + 1].first_row_index
  ELSE chunk.num_values

\* eval_clause_to_ranges
ClauseRanges(chunk, clause) ==
  LET step(list, i) ==
        LET first == chunk.offset_index[i].first_row_index
            end == EndRow(chunk, i)
        IN  IF end > first /\ PageMatches(chunk.column_index[i], clause, end - first)
            THEN AppendRange(list, first, end) ELSE list
  IN  FoldLeft(step, <<>>, [i \in DOMAIN chunk.offset_index |-> i])

\* Which of two ranges intersect_lists is done with.
FirstIsDone(a, b) == a[2] <= b[2]

\* intersect_lists: a merge of two ascending lists.
Intersect(a, b) ==
  LET step(s, k) ==
        IF s.i > Len(a) \/ s.j > Len(b) THEN s
        ELSE LET lo == Max({a[s.i][1], b[s.j][1]})
                 hi == Min({a[s.i][2], b[s.j][2]})
                 done == FirstIsDone(a[s.i], b[s.j])
             IN  [out |-> AppendRange(s.out, lo, hi),
                  i |-> IF done THEN s.i + 1 ELSE s.i,
                  j |-> IF done THEN s.j ELSE s.j + 1]
  IN  FoldLeft(step, [out |-> <<>>, i |-> 1, j |-> 1],
               [k \in 1..(Len(a) + Len(b)) |-> k]).out

\* carquet_reader_row_group_matches
RowGroupMatches(chunk, clause) ==
  chunk.bounds # <<>> => WithinBounds(chunk.bounds[1], chunk.bounds[2], clause)

\* find_page_for_row: the page whose rows include row, by halving the index.
FindPage(chunk, row) ==
  LET step(s, k) ==
        IF s.lo > s.hi \/ s.found # 0 THEN s
        ELSE LET mid == s.lo + (s.hi - s.lo) \div 2
             IN  IF row < chunk.offset_index[mid].first_row_index
                 THEN [s EXCEPT !.hi = mid - 1]
                 ELSE IF row >= EndRow(chunk, mid) THEN [s EXCEPT !.lo = mid + 1]
                 ELSE [s EXCEPT !.found = mid]
      n == Len(chunk.offset_index)
  IN  FoldLeft(step, [lo |-> 1, hi |-> n, found |-> 0], [k \in 1..n |-> k]).found

-----------------------------------------------------------------------------
(* The reader. *)

VARIABLES
  chunk,      \* the column chunk and its metadata
  reader      \* carquet_column_reader_t

NoPage == [levels |-> <<>>, values |-> <<>>]

\* carquet_reader_get_column; reset_column_reader_for_row_group brings a reader
\* back to it.
FreshReader(c, preserve) ==
  [preserve_dictionary |-> preserve, values_remaining |-> c.num_values,
   data_start_offset |-> c.data_page_offset, has_dictionary |-> FALSE,
   dictionary |-> <<>>, current_page |-> 0, page_loaded |-> FALSE, page |-> NoPage,
   page_values_read |-> 0, page_dense_values_read |-> 0]

Declared == chunk.dictionary_page_offset # 0

IsData(p) == p \in DOMAIN chunk.buffer /\ chunk.buffer[p].type = "data"

\* What goes wrong in one call: the header of a page cannot be read, or its
\* payload.  NoFault is no page.
NoFault == <<0, "none">>
FaultsOf(buffer) == {NoFault} \cup ((DOMAIN buffer) \X {"header", "payload"})
BadHeader(p, bad) == bad = <<p, "header">>
BadPage(p, bad) == bad[1] = p

Ok(r) == [ok |-> TRUE, r |-> r]
Failed(r) == [ok |-> FALSE, r |-> r]

\* load_dictionary_page: an undeclared dictionary is looked for in the place of
\* the first data page.
LoadDictionary(r, bad) ==
  LET p == IF Declared THEN chunk.dictionary_page_offset ELSE chunk.data_page_offset
  IN  CASE IsData(p) -> IF Declared \/ BadHeader(p, bad) THEN Failed(r) ELSE Ok(r)
        [] ~IsData(p) /\ BadPage(p, bad) -> Failed(r)
        [] OTHER -> Ok([r EXCEPT !.has_dictionary = TRUE, !.data_start_offset = p + 1,
                                 !.dictionary = chunk.buffer[p].streams[1]])

\* carquet_column_ensure_dictionary_loaded
EnsureDictionary(r, bad) ==
  IF Declared /\ ~r.has_dictionary THEN LoadDictionary(r, bad) ELSE Ok(r)

\* page_values_can_be_viewed_directly
Viewed(page) == page.encoding = "PLAIN" /\ ~schema.nullable /\ schema.kind = "int"

\* carquet_read_data_page_v1: a preserved dictionary leaves the indices.
Decodable(r, page) ==
  /\ page.encoding = "DICTIONARY" => r.has_dictionary
  /\ page.encoding = "PLAIN" /\ r.preserve_dictionary => Viewed(page)

PageValues(r, page) ==
  Decoded(page, IF r.preserve_dictionary THEN <<>> ELSE r.dictionary)

\* load_next_page
LoadNextPage(r, bad) ==
  LET d == IF ~r.has_dictionary /\ r.current_page = 0 THEN LoadDictionary(r, bad) ELSE Ok(r)
      p == d.r.data_start_offset + d.r.current_page
  IN  IF d.ok /\ IsData(p) /\ ~BadPage(p, bad) /\ Decodable(d.r, chunk.buffer[p])
      THEN Ok([d.r EXCEPT !.page_loaded = TRUE, !.page_values_read = 0,
                          !.page = [levels |-> chunk.buffer[p].levels,
                                    values |-> PageValues(d.r, chunk.buffer[p])]])
      ELSE Failed(d.r)

PageUsedUp(r) == r.page_values_read >= Len(r.page.levels)

LeavePage(r) ==
  IF r.page_loaded
  THEN [r EXCEPT !.current_page = @ + 1, !.page_loaded = FALSE]
  ELSE r

DropPage(r) ==
  IF r.page_loaded
  THEN [r EXCEPT !.page_loaded = FALSE, !.page = NoPage, !.page_values_read = 0]
  ELSE r

ResetDense_Never(r) == r

ResetDense(r) == [r EXCEPT !.page_dense_values_read = 0]

\* carquet_column_ensure_page_loaded
EnsurePage(r, bad) ==
  IF r.page_loaded /\ ~PageUsedUp(r) THEN Ok(r)
  ELSE LET l == LoadNextPage(LeavePage(r), bad)
       IN  IF l.ok THEN Ok(ResetDense(l.r)) ELSE l

PresentNext(r, n) == NumPresent(SubSeq(r.page.levels, r.page_values_read + 1,
                                       r.page_values_read + n))

\* Handing out up to n rows of the loaded page.  The last read of a page takes
\* all its values that are left; the others count levels.
CopyRows(s, n) ==
  LET r == s.r
      available == Len(r.page.levels) - r.page_values_read
      to_copy == Min({n, available})
      start == IF schema.nullable THEN r.page_dense_values_read ELSE r.page_values_read
      present == IF ~schema.nullable THEN to_copy
                 ELSE IF n >= available THEN NumPresent(r.page.levels) - start
                 ELSE PresentNext(r, n)
  IN  [s EXCEPT
        !.levels = @ \o SubSeq(r.page.levels, r.page_values_read + 1,
                               r.page_values_read + to_copy),
        !.values = @ \o SubSeq(r.page.values, start + 1, start + present),
        !.r = [r EXCEPT !.page_values_read = @ + to_copy,
                        !.page_dense_values_read = @ + present,
                        !.values_remaining = @ - to_copy]]

\* carquet_read_next_page
ReadNextPage(s, n, bad) ==
  LET e == EnsurePage(s.r, bad)
  IN  IF e.ok THEN CopyRows([s EXCEPT !.r = e.r], n - Len(s.levels))
      ELSE [s EXCEPT !.r = e.r, !.failed = TRUE]

\* carquet_column_read_batch of n > 0 rows: page after page until there are n.
\* Each turn yields a row, ends the chunk or fails.
ReadRows(r, n, bad) ==
  LET step(s, k) ==
        IF s.failed \/ Len(s.levels) >= n \/ s.r.values_remaining <= 0 THEN s
        ELSE ReadNextPage(s, n, bad)
  IN  FoldLeft(step, [r |-> r, levels |-> <<>>, values |-> <<>>, failed |-> FALSE],
               [k \in 1..n |-> k])

\* Dropping rows that are already decoded.
DropDecoded(s, want) ==
  LET r == s.r
      n == Min({Len(r.page.levels) - r.page_values_read, want, r.values_remaining})
  IN  [s EXCEPT !.done = @ + n,
                !.r = [r EXCEPT !.page_values_read = @ + n,
                                !.values_remaining = @ - n,
                                !.page_dense_values_read =
                                   IF schema.nullable THEN @ + PresentNext(r, n) ELSE @]]

\* carquet_column_skip: its loop has four cases.  A whole page is passed by its
\* header alone.
SkipStep(s, n, bad) ==
  LET r == s.r
      want == n - s.done
      p == r.data_start_offset + r.current_page
      rows == Len(chunk.buffer[p].levels)
      e == EnsurePage(r, bad)
  IN  CASE r.page_loaded /\ ~PageUsedUp(r) -> DropDecoded(s, want)
        [] r.page_loaded /\ PageUsedUp(r) ->
             [s EXCEPT !.r = [DropPage(r) EXCEPT !.current_page = @ + 1]]
        [] ~r.page_loaded /\ (~IsData(p) \/ BadHeader(p, bad)) -> [s EXCEPT !.stopped = TRUE]
        [] OTHER -> IF rows <= Min({want, r.values_remaining})
                    THEN [s EXCEPT !.done = @ + rows,
                                   !.r = [r EXCEPT !.current_page = @ + 1,
                                                   !.values_remaining = @ - rows]]
                    ELSE [s EXCEPT !.r = e.r, !.stopped = ~e.ok]

SkipRows(r, n, bad) ==
  LET d == EnsureDictionary(r, bad)
      step(s, k) == IF s.stopped \/ s.done >= n \/ s.r.values_remaining <= 0 THEN s
                    ELSE SkipStep(s, n, bad)
      start == [r |-> d.r, done |-> 0, stopped |-> ~d.ok]
  IN  IF n <= 0 \/ r.values_remaining <= 0 THEN [start EXCEPT !.r = r]
      ELSE FoldLeft(step, start, [k \in 1..(3 * Len(chunk.buffer) + 3) |-> k])

Walked_FromHere(r, p) == r.data_start_offset + r.current_page..p - 1

\* The headers the seek walks over, from the start of the data.
Walked(r, p) == r.data_start_offset..p - 1

\* carquet_column_reader_seek_to_data_page, to the page at offset p.  A header
\* that cannot be read on the way leaves the old place with the page dropped.
SeekTo(r, p, bad) ==
  LET d == EnsureDictionary(r, bad)
      walk == Walked(d.r, p)
      before == MapThenSumSet(LAMBDA q : Len(chunk.buffer[q].levels), walk)
  IN  IF ~d.ok \/ p < d.r.data_start_offset THEN Failed(d.r)
      ELSE IF \E q \in walk : BadHeader(q, bad) THEN Failed(DropPage(d.r))
      ELSE Ok([DropPage(d.r) EXCEPT
                 !.current_page = p - d.r.data_start_offset,
                 !.values_remaining = Max({0, chunk.num_values - before})])

\* position_projected_column: by the offset index, or from the start without it.
PositionAt(r, row, bad) ==
  LET i == FindPage(chunk, row)
      seek == SeekTo(r, chunk.offset_index[i].offset, bad)
      intra == row - chunk.offset_index[i].first_row_index
      inPage == SkipRows(seek.r, intra, bad)
      skipped == SkipRows(FreshReader(chunk, r.preserve_dictionary), row, bad)
  IN  IF chunk.offset_index = <<>>
      THEN [ok |-> skipped.done = row, r |-> skipped.r]
      ELSE IF i = 0 \/ ~seek.ok THEN Failed(seek.r)
      ELSE [ok |-> inPage.done = intra, r |-> inPage.r]
=============================================================================
