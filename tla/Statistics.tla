----------------------------- MODULE Statistics -----------------------------
(***************************************************************************)
(* Minimum and maximum of a column, byte for byte: how the page writer     *)
(* keeps them (writer/page_writer.c), how the column writer merges them or *)
(* takes them from a dictionary's values (writer/column_writer.c), what    *)
(* the footer gets of them (writer/file_writer.c), the library's separate  *)
(* builder (metadata/statistics.c), how a reader compares a predicate with *)
(* them (reader/statistics.c, reader/page_filter.c), and what R shows of   *)
(* them (qio_file.c).                                                      *)
(*                                                                         *)
(* A value is the sequence of its bytes, lowest first for numbers.  Five   *)
(* places of the code compare such values, each with its own switch on the *)
(* physical and the logical type; they must agree on the column's order.   *)
(***************************************************************************)
EXTENDS Integers, Sequences, SequencesExt

CONSTANTS
  StatColumns,       \* columns: physical type, logical and converted annotation
  StatValues(_),     \* the values written to a column and asked for
  MaxValues,         \* bound: values of a column chunk
  MaxStatistics,     \* max_statistics_size: longer bounds of text are cut
  BuilderBytes,      \* 256: the builder passes over longer text
  WellFormed(_)      \* qio_utf8_invalid_at finds nothing in these bytes

ASSUME StatisticsAssumption == {MaxValues, MaxStatistics, BuilderBytes} \subseteq Nat \ {0}

VARIABLES
  measured,    \* the column, a record of StatColumns
  keeper,      \* who keeps the bounds: "pages", "dictionary" or "builder"
  open,        \* values of the page being filled
  bounds,      \* has_min_max, min_value, max_value of that page, bool_seen_*
  pages,       \* the flushed pages: their values and their bounds
  chunk,       \* the bounds of the chunk
  footer       \* the chunk's statistics in the file, <<>> until it is closed

statVars == <<measured, keeper, open, bounds, pages, chunk, footer>>

-----------------------------------------------------------------------------
\* Orders on bytes.

\* memcmp, the shorter first when one is a prefix of the other
LexLess(a, b) ==
  \E n \in DOMAIN b :
    /\ n > Len(a) \/ (n <= Len(a) /\ a[n] < b[n])
    /\ \A k \in 1..n - 1 : k <= Len(a) /\ a[k] = b[k]

Flipped(a) == [Reverse(a) EXCEPT ![1] = (@ + 128) % 256]

Negative(x) == x[Len(x)] >= 128
Magnitude(x) == [Reverse(x) EXCEPT ![1] = @ % 128]
IsZero(x) == ToSet(Magnitude(x)) = {0}
SignedZero(negative, width) ==
  [i \in 1..width |-> IF i = width /\ negative THEN 128 ELSE 0]

\* The magnitude of infinity in 4 and in 8 bytes.
Infinity(width) ==
  [i \in 1..width |-> CASE i = 1 -> 127 [] i = 2 -> IF width = 4 THEN 128 ELSE 240
                        [] OTHER -> 0]
isnan(x) == LexLess(Infinity(Len(x)), Magnitude(x))

\* < of float and double
FloatLess(a, b) ==
  /\ ~isnan(a) /\ ~isnan(b)
  /\ IF Negative(a) THEN IF Negative(b) THEN LexLess(Magnitude(b), Magnitude(a))
                         ELSE ~(IsZero(a) /\ IsZero(b))
     ELSE ~Negative(b) /\ LexLess(Magnitude(a), Magnitude(b))

\* The four bytes of sign and magnitude bits.
FloatBytes(sign, f) ==
  <<f % 256, (f \div 256) % 256, (f \div 65536) % 256, f \div 16777216 + 128 * sign>>

\* A half as the float of the same value: exponent and mantissa are moved, a
\* subnormal is shifted until its leading bit falls on the implicit one.
carquet_half_to_float(h) ==
  LET bits == h[1] + 256 * h[2]
      sign == bits \div 32768
      exp == (bits \div 1024) % 32
      mant == bits % 1024
      shift == CHOOSE k \in 1..10 : mant * 2^k \in 1024..2047
  IN  FloatBytes(sign,
        CASE exp = 0 /\ mant = 0 -> 0
          [] exp = 0 /\ mant # 0 -> (113 - shift) * 2^23 + (mant * 2^shift - 1024) * 2^13
          [] exp = 31 -> 255 * 2^23 + mant * 2^13
          [] OTHER -> (exp + 112) * 2^23 + mant * 2^13)

Before(order, a, b) ==
  CASE order = "bytes" -> LexLess(a, b)
    [] order = "unsigned" -> LexLess(Reverse(a), Reverse(b))
    [] order = "signed" -> LexLess(Flipped(a), Flipped(b))
    [] order = "float" -> FloatLess(a, b)
    [] order = "half" -> FloatLess(carquet_half_to_float(a), carquet_half_to_float(b))
    [] order = "bool" -> a[1] = 0 /\ b[1] # 0

\* CMP3: values that are not ordered, a NaN and anything, compare equal.
CMP3(order, a, b) == IF Before(order, a, b) THEN -1 ELSE IF Before(order, b, a) THEN 1 ELSE 0

\* The order the format gives a column: what all of the code below must follow.
OrderOf(column) ==
  CASE column.type = "BOOLEAN" -> "bool"
    [] column.type \in {"INT32", "INT64"} -> IF column.logical = "UINT" THEN "unsigned" ELSE "signed"
    [] column.type \in {"FLOAT", "DOUBLE"} -> "float"
    [] column.logical = "FLOAT16" -> "half"
    [] OTHER -> "bytes"

NotANumber(column, x) ==
  CASE OrderOf(column) = "float" -> isnan(x)
    [] OrderOf(column) = "half" -> isnan(carquet_half_to_float(x))
    [] OTHER -> FALSE

-----------------------------------------------------------------------------
\* The page writer.

NoBounds == [has_min_max |-> FALSE, min |-> <<>>, max |-> <<>>, seen |-> {}]

stats_order_defined_for_logical(logical) ==
  logical \notin {"GEOMETRY", "GEOGRAPHY", "VARIANT", "MAP", "LIST"}

logical_integer_is_unsigned(logical) == logical = "UINT"

stats_set_fixed(b, min, max) == [b EXCEPT !.has_min_max = TRUE, !.min = min, !.max = max]

\* The least and the greatest of values as a loop finds them that starts from
\* the first one.
MinMax(order, values) ==
  FoldLeft(LAMBDA m, v : [min |-> IF Before(order, v, m.min) THEN v ELSE m.min,
                          max |-> IF Before(order, m.max, v) THEN v ELSE m.max],
           [min |-> Head(values), max |-> Head(values)], Tail(values))

Widened(order, b, m) ==
  stats_set_fixed(b, IF Before(order, m.min, b.min) THEN m.min ELSE b.min,
                     IF Before(order, b.max, m.max) THEN m.max ELSE b.max)

update_statistics_int(b, logical, values) ==
  LET order == IF logical_integer_is_unsigned(logical) THEN "unsigned" ELSE "signed"
      m == MinMax(order, values)
  IN  IF b.has_min_max THEN Widened(order, b, m) ELSE stats_set_fixed(b, m.min, m.max)

\* float_minmax_nan_safe: the kernel's result, unless a NaN got into it; <<>>
\* when there is nothing but NaN.
minmax_nan_safe(values) ==
  LET kernel == MinMax("float", values)
      real == SelectSeq(values, LAMBDA v : ~isnan(v))
  IN  IF ~isnan(kernel.min) /\ ~isnan(kernel.max) THEN <<kernel>>
      ELSE IF real = <<>> THEN <<>> ELSE <<MinMax("float", real)>>

\* A zero minimum is stored as -0.0, a zero maximum as +0.0.
ZerosSigned(b) ==
  [b EXCEPT !.min = IF IsZero(@) THEN SignedZero(TRUE, Len(@)) ELSE @,
            !.max = IF IsZero(@) THEN SignedZero(FALSE, Len(@)) ELSE @]

\* A NaN that the kernel put into its result is not noticed.
update_statistics_float_Unchecked(b, values) ==
  LET m == MinMax("float", values)
  IN  ZerosSigned(IF b.has_min_max THEN Widened("float", b, m)
                  ELSE stats_set_fixed(b, m.min, m.max))

update_statistics_float(b, values) ==
  LET safe == minmax_nan_safe(values)
      m == ZerosSigned(safe[1])
  IN  IF safe = <<>> THEN b
      ELSE IF b.has_min_max THEN ZerosSigned(Widened("float", b, m))
      ELSE stats_set_fixed(b, m.min, m.max)

update_statistics_boolean(b, values) ==
  LET seen == b.seen \union {v[1] # 0 : v \in ToSet(values)}
  IN  stats_set_fixed([b EXCEPT !.seen = seen],
                      <<IF FALSE \in seen THEN 0 ELSE 1>>, <<IF TRUE \in seen THEN 1 ELSE 0>>)

update_statistics_byte_array(b, values) ==
  FoldLeft(LAMBDA s, v : IF s.has_min_max THEN Widened("bytes", s, [min |-> v, max |-> v])
                         ELSE stats_set_fixed(s, v, v),
           b, values)

\* Halves are compared as floats and stored as they were given.
update_statistics_float16(b, values) ==
  LET real == SelectSeq(values, LAMBDA v : ~isnan(carquet_half_to_float(v)))
      s == FoldLeft(LAMBDA t, v : IF t.has_min_max THEN Widened("half", t, [min |-> v, max |-> v])
                                  ELSE stats_set_fixed(t, v, v),
                    b, real)
  IN  IF s.has_min_max THEN ZerosSigned(s) ELSE b

update_statistics_flba(b, column, values) ==
  IF column.logical = "FLOAT16" /\ column.length = 2 THEN update_statistics_float16(b, values)
  ELSE update_statistics_byte_array(b, values)

\* What add_values does with the values of a batch, INT96 having no order.
update_statistics(b, column, values) ==
  IF values = <<>> \/ ~stats_order_defined_for_logical(column.logical) THEN b
  ELSE CASE column.type \in {"INT32", "INT64"} -> update_statistics_int(b, column.logical, values)
         [] column.type \in {"FLOAT", "DOUBLE"} -> update_statistics_float(b, values)
         [] column.type = "BOOLEAN" -> update_statistics_boolean(b, values)
         [] column.type = "BYTE_ARRAY" -> update_statistics_byte_array(b, values)
         [] column.type = "FIXED" -> update_statistics_flba(b, column, values)
         [] column.type = "INT96" -> b

-----------------------------------------------------------------------------
\* The column writer.

compare_stat_values(column, a, b) ==
  LET order == IF Len(a) # Len(b) THEN "bytes"
               ELSE CASE column.type \in {"INT32", "INT64"} ->
                           IF logical_integer_is_unsigned(column.logical) THEN "unsigned" ELSE "signed"
                      [] column.type \in {"FLOAT", "DOUBLE"} -> "float"
                      [] column.type = "FIXED" /\ column.logical = "FLOAT16" /\ Len(a) = 2 -> "half"
                      [] OTHER -> "bytes"
  IN  CMP3(order, a, b)

\* A page with an empty bound is passed over.
merge_page_statistics(column, c, b) ==
  IF ~b.has_min_max \/ b.min = <<>> \/ b.max = <<>> THEN c
  ELSE IF ~c.has_min_max THEN stats_set_fixed(c, b.min, b.max)
  ELSE stats_set_fixed(c, IF compare_stat_values(column, b.min, c.min) < 0 THEN b.min ELSE c.min,
                          IF compare_stat_values(column, b.max, c.max) > 0 THEN b.max ELSE c.max)

\* The bounds of a dictionary column, over all its values.
dict_compute_min_max(column, values) ==
  FoldLeft(LAMBDA m, v : [min |-> IF compare_stat_values(column, v, m.min) < 0 THEN v ELSE m.min,
                          max |-> IF compare_stat_values(column, v, m.max) > 0 THEN v ELSE m.max],
           [min |-> Head(values), max |-> Head(values)], Tail(values))

carquet_page_writer_set_min_max(b, column, m) ==
  IF ~stats_order_defined_for_logical(column.logical) \/ m.min = <<>> \/ m.max = <<>> THEN b
  ELSE stats_set_fixed(b, m.min, m.max)

\* dict_eligible_type
HasDictionary(column) == column.type \notin {"BOOLEAN", "INT96", "FIXED"}

-----------------------------------------------------------------------------
\* The footer.

\* The least text above all that start with the given prefix: its last byte
\* that is not 255 is increased and ends it; <<>> when there is none.
Incremented(text) ==
  LET kept == {i \in DOMAIN text : text[i] # 255}
      last == CHOOSE i \in kept : \A j \in kept : j <= i
  IN  IF kept = {} THEN <<>> ELSE [SubSeq(text, 1, last) EXCEPT ![last] = @ + 1]

leaf_statistics_sort_order_defined(column) ==
  column.logical \notin {"GEOMETRY", "GEOGRAPHY", "VARIANT"} /\ ~column.in_variant

deprecated_stats_are_compatible(column) ==
  /\ ~logical_integer_is_unsigned(column.logical)
  /\ leaf_statistics_sort_order_defined(column)

NoStatistics == [min_value |-> <<>>, max_value |-> <<>>, min_deprecated |-> <<>>,
                 max_deprecated |-> <<>>]

\* build_file_metadata: the statistics of a chunk, the absent fields empty.
FooterStatistics(column, c) ==
  LET long(x) == column.type = "BYTE_ARRAY" /\ Len(x) > MaxStatistics
      cut(x) == SubSeq(x, 1, MaxStatistics)
      max == IF long(c.max) THEN Incremented(cut(c.max)) ELSE c.max
      old == deprecated_stats_are_compatible(column)
  IN  IF ~c.has_min_max \/ c.min = <<>> \/ c.max = <<>>
           \/ ~leaf_statistics_sort_order_defined(column)
      THEN NoStatistics
      ELSE [min_value |-> IF long(c.min) THEN cut(c.min) ELSE c.min,
            max_value |-> max,
            min_deprecated |-> IF old /\ ~long(c.min) THEN c.min ELSE <<>>,
            max_deprecated |-> IF old /\ ~long(c.max) THEN c.max ELSE <<>>]

-----------------------------------------------------------------------------
\* Readers of the footer.

\* carquet_reader_column_statistics: the new fields, or the old ones.
carquet_reader_column_statistics(s) ==
  CASE s.min_value # <<>> /\ s.max_value # <<>> -> [NoBounds EXCEPT !.has_min_max = TRUE, !.min = s.min_value, !.max = s.max_value]
    [] (s.min_value = <<>> \/ s.max_value = <<>>) /\ s.min_deprecated # <<>> /\ s.max_deprecated # <<>> ->
         [NoBounds EXCEPT !.has_min_max = TRUE, !.min = s.min_deprecated, !.max = s.max_deprecated]
    [] OTHER -> NoBounds

IsUnsignedConverted(column) == column.converted \in {"UINT_8", "UINT_16", "UINT_32", "UINT_64"}

\* The reader goes by the physical type and forgets the annotation.
get_cmp_kind_Signed(column) ==
  CASE column.type = "BOOLEAN" -> [order |-> "bool", width |-> 1]
    [] column.type \in {"INT32", "FLOAT"} -> [order |-> IF column.type = "INT32" THEN "signed" ELSE "float", width |-> 4]
    [] column.type \in {"INT64", "DOUBLE"} -> [order |-> IF column.type = "INT64" THEN "signed" ELSE "float", width |-> 8]
    [] OTHER -> [order |-> "bytes", width |-> 0]

get_cmp_kind(column) ==
  LET unsigned == IF column.logical \in {"INT", "UINT"} THEN column.logical = "UINT"
                  ELSE IsUnsignedConverted(column)
  IN  CASE column.type = "BOOLEAN" -> [order |-> "bool", width |-> 1]
        [] column.type = "INT32" -> [order |-> IF unsigned THEN "unsigned" ELSE "signed", width |-> 4]
        [] column.type = "INT64" -> [order |-> IF unsigned THEN "unsigned" ELSE "signed", width |-> 8]
        [] column.type = "FLOAT" -> [order |-> "float", width |-> 4]
        [] column.type = "DOUBLE" -> [order |-> "float", width |-> 8]
        [] column.type = "FIXED" /\ column.logical = "FLOAT16" -> [order |-> "half", width |-> 2]
        [] OTHER -> [order |-> "bytes", width |-> 0]

\* stat_compare gives up when one of its operands is too short.
Comparable(kind, a, b) == Len(a) >= kind.width /\ Len(b) >= kind.width

\* The rules by which carquet_reader_row_group_matches skips.
RuledOut(op, cmp_min, cmp_max) ==
  CASE op = "EQ" -> cmp_min < 0 \/ cmp_max > 0
    [] op = "NE" -> cmp_min = 0 /\ cmp_max = 0
    [] op = "LT" -> cmp_min <= 0
    [] op = "LE" -> cmp_min < 0
    [] op = "GT" -> cmp_max >= 0
    [] op = "GE" -> cmp_max > 0

carquet_reader_row_group_matches(column, s, op, value) ==
  LET stats == carquet_reader_column_statistics(s)
      kind == get_cmp_kind(column)
  IN  \/ ~stats.has_min_max
      \/ ~Comparable(kind, value, stats.min) \/ ~Comparable(kind, value, stats.max)
      \/ ~RuledOut(op, CMP3(kind.order, value, stats.min), CMP3(kind.order, value, stats.max))

\* carquet_reader_filter_row_groups: the row groups, by number, that are not
\* ruled out, up to as many as asked for.
carquet_reader_filter_row_groups(column, groups, op, value, max_indices) ==
  LET kept == SelectSeq([i \in DOMAIN groups |-> i],
                LAMBDA i : carquet_reader_row_group_matches(column, groups[i], op, value))
  IN  SubSeq(kept, 1, IF max_indices < Len(kept) THEN max_indices ELSE Len(kept))

-----------------------------------------------------------------------------
\* Readers of the page index.

\* decode_float16: the page filter's own conversion of a half.
decode_float16(b) ==
  LET raw == b[1] + 256 * b[2]
      exp == (raw \div 1024) % 32
      mant == raw % 1024
      steps == CHOOSE k \in 1..10 : mant * 2^k \in 1024..2047
      e == -14 - steps
  IN  FloatBytes(raw \div 32768,
        CASE exp = 0 /\ mant = 0 -> 0
          [] exp = 0 /\ mant # 0 -> (e + 127) * 2^23 + ((mant * 2^steps) % 1024) * 2^13
          [] exp = 31 -> 255 * 2^23 + mant * 2^13
          [] OTHER -> (exp - 15 + 127) * 2^23 + mant * 2^13)

\* lookup_column_type: either annotation makes a column unsigned.
lookup_column_type(column) ==
  [type |-> column.type, length |-> column.length, is_float16 |-> column.logical = "FLOAT16",
   is_unsigned |-> column.logical = "UINT" \/ IsUnsignedConverted(column)]

scalar_size(ti) ==
  CASE ti.type = "BOOLEAN" -> 1
    [] ti.type \in {"INT32", "FLOAT"} -> 4
    [] ti.type \in {"INT64", "DOUBLE"} -> 8
    [] ti.type = "FIXED" -> ti.length
    [] OTHER -> 0

stat_len_ok(ti, x) == x # <<>> /\ scalar_size(ti) \in {0, Len(x)}

compare_typed(ti, a, b) ==
  IF ti.type = "FIXED" /\ ti.is_float16 /\ Len(a) = 2 /\ Len(b) = 2
  THEN CMP3("float", decode_float16(a), decode_float16(b))
  ELSE CMP3(CASE ti.type = "BOOLEAN" -> "bool"
              [] ti.type \in {"INT32", "INT64"} -> IF ti.is_unsigned THEN "unsigned" ELSE "signed"
              [] ti.type \in {"FLOAT", "DOUBLE"} -> "float"
              [] OTHER -> "bytes", a, b)

predicate_value_is_nan(ti, v) ==
  CASE ti.type \in {"FLOAT", "DOUBLE"} -> isnan(v)
    [] ti.type = "FIXED" /\ ti.is_float16 -> isnan(decode_float16(v))
    [] OTHER -> FALSE

\* validate_scalar_size
ValidSize(ti, v) ==
  CASE ti.type = "BYTE_ARRAY" -> TRUE
    [] ti.type = "FIXED" -> ti.length > 0 /\ Len(v) = ti.length
    [] OTHER -> scalar_size(ti) > 0

MaxInValues == 256

\* carquet_page_filter_validate_clause; an omitted end of a range is <<>>.
carquet_page_filter_validate_clause(column, clause) ==
  LET ti == lookup_column_type(column)
  IN  /\ ti.type # "INT96"
      /\ CASE clause.op = "RANGE" -> /\ clause.lo # <<>> \/ clause.hi # <<>>
                                     /\ \A v \in {clause.lo, clause.hi} : v # <<>> => ValidSize(ti, v)
           [] clause.op = "IN" -> Len(clause.values) \in 1..MaxInValues
           [] clause.op \in {"IS_NULL", "IS_NOT_NULL"} -> TRUE
           [] OTHER -> ValidSize(ti, clause.value)

\* page_matches_clause for a page without nulls.  A page that has no bounds is
\* marked in the index as one of nulls only and cannot match; a bound of the
\* wrong length is unknown, and with neither bound the page is kept.
page_matches_clause(column, b, clause) ==
  LET ti == lookup_column_type(column)
      have_min == stat_len_ok(ti, b.min)
      have_max == stat_len_ok(ti, b.max)
      below(v) == have_min /\ compare_typed(ti, v, b.min) < 0
      above(v) == have_max /\ compare_typed(ti, v, b.max) > 0
      odd(v) == predicate_value_is_nan(ti, v)
  IN  b.has_min_max /\
      \/ ~have_min /\ ~have_max
      \/ CASE clause.op = "EQ" -> ~odd(clause.value) /\ ~below(clause.value) /\ ~above(clause.value)
           [] clause.op = "NE" -> \/ ~have_min \/ ~have_max \/ odd(clause.value)
                                  \/ compare_typed(ti, b.min, b.max) # 0
                                  \/ compare_typed(ti, clause.value, b.min) # 0
           [] clause.op = "LT" -> /\ ~odd(clause.value)
                                  /\ have_min => compare_typed(ti, b.min, clause.value) < 0
           [] clause.op = "LE" -> ~odd(clause.value) /\ ~below(clause.value)
           [] clause.op = "GT" -> /\ ~odd(clause.value)
                                  /\ have_max => compare_typed(ti, b.max, clause.value) > 0
           [] clause.op = "GE" -> ~odd(clause.value) /\ ~above(clause.value)
           [] clause.op = "RANGE" -> /\ clause.lo # <<>> => ~odd(clause.lo) /\ ~above(clause.lo)
                                     /\ clause.hi # <<>> => ~odd(clause.hi) /\ ~below(clause.hi)
           [] clause.op = "IN" -> \E v \in ToSet(clause.values) : ~odd(v) /\ ~below(v) /\ ~above(v)

-----------------------------------------------------------------------------
\* What column_statistics() and page_index() show.

IsText(column) == column.type = "BYTE_ARRAY" /\ column.logical \in {"STRING", "ENUM", "JSON"}

\* 0 where the values of a type have no fixed width
qio_statistic_width(column) ==
  CASE column.type = "BOOLEAN" -> 1
    [] column.type \in {"INT32", "FLOAT"} -> 4
    [] column.type \in {"INT64", "DOUBLE"} -> 8
    [] column.type = "INT96" -> 12
    [] column.type = "FIXED" -> column.length
    [] OTHER -> 0

\* R's integer of these bytes would be NA.
LeastInt32 == <<0, 0, 0, 128>>

NotShown == [class |-> "NULL", order |-> "bytes", of |-> <<>>]

\* A bound as an R value: the number its bytes are read as, signed whatever the
\* annotation says, or text, or the bytes.  (A double next to an INT64 beyond
\* 2^53 is on no other side of any value: the number stands for it.  A bound of no
\* bytes, which only text can have, is kept nowhere and is not shown.)
qio_statistic_value(column, x) ==
  LET width == qio_statistic_width(column)
      number(class, order) == [class |-> class, order |-> order, of |-> x]
  IN  IF x = <<>> \/ (width > 0 /\ Len(x) # width) THEN NotShown
      ELSE CASE column.type = "BOOLEAN" -> number("logical", "bool")
             [] column.type = "INT32" -> number(IF x = LeastInt32 THEN "double" ELSE "integer", "signed")
             [] column.type = "INT64" -> number("double", "signed")
             [] column.type \in {"FLOAT", "DOUBLE"} -> number("double", "float")
             [] IsText(column) -> IF WellFormed(x) THEN number("character", "bytes") ELSE NotShown
             [] OTHER -> number("raw", OrderOf(column))

Frame(column, b) ==
  [min |-> IF b.has_min_max THEN qio_statistic_value(column, b.min) ELSE NotShown,
   max |-> IF b.has_min_max THEN qio_statistic_value(column, b.max) ELSE NotShown]

qio_parquet_column_statistics(column, s) == Frame(column, carquet_reader_column_statistics(s))

\* One row for each page of the column index; where the pages are is known from
\* the offset index, and is left out here.
qio_parquet_page_index(column, index) ==
  [p \in DOMAIN index |-> [null_page |-> ~index[p].bounds.has_min_max,
                           shown |-> Frame(column, index[p].bounds)]]

-----------------------------------------------------------------------------
\* The library's own builder.  It knows the physical type only, and puts NaN
\* behind all numbers.

BuilderCompare(column, a, b) ==
  CASE column.type \in {"FLOAT", "DOUBLE"} /\ (isnan(a) \/ isnan(b)) ->
         CASE isnan(a) /\ isnan(b) -> 0 [] isnan(a) /\ ~isnan(b) -> 1 [] OTHER -> -1
    [] column.type \in {"FLOAT", "DOUBLE"} /\ ~isnan(a) /\ ~isnan(b) -> CMP3("float", a, b)
    [] column.type \in {"INT32", "INT64"} -> CMP3("signed", a, b)
    [] column.type \in {"BOOLEAN", "INT96"} -> CMP3("unsigned", a, b)
    [] OTHER -> CMP3("bytes", a, b)

BuilderAdd(column, b, v) ==
  IF ~b.has_min_max THEN stats_set_fixed(b, v, v)
  ELSE stats_set_fixed(b, IF BuilderCompare(column, v, b.min) < 0 THEN v ELSE b.min,
                          IF BuilderCompare(column, v, b.max) > 0 THEN v ELSE b.max)

carquet_statistics_add_values(column, b, values) ==
  FoldLeft(LAMBDA s, v : BuilderAdd(column, s, v), b, values)

\* A text too long for the builder's buffer is left out of the bounds.
carquet_statistics_add_byte_arrays(column, b, values) ==
  FoldLeft(LAMBDA s, v : IF Len(v) > BuilderBytes THEN s ELSE BuilderAdd(column, s, v), b, values)

carquet_statistics_build(b) ==
  IF b.has_min_max THEN [NoStatistics EXCEPT !.min_value = b.min, !.max_value = b.max]
  ELSE NoStatistics

-----------------------------------------------------------------------------
\* A chunk is written and its statistics are asked.

StatInit ==
  /\ measured \in StatColumns
  /\ keeper \in {"pages", "builder"} \union (IF HasDictionary(measured) THEN {"dictionary"} ELSE {})
  /\ open = <<>> /\ bounds = NoBounds
  /\ pages = <<>> /\ chunk = NoBounds /\ footer = <<>>

StatIdle ==
  /\ measured = <<>> /\ keeper = "none" /\ open = <<>> /\ bounds = NoBounds
  /\ pages = <<>> /\ chunk = NoBounds /\ footer = <<>>

ValuesGiven == FlattenSeq([i \in DOMAIN pages |-> pages[i].values]) \o open

Batches(room) ==
  UNION {[1..n -> StatValues(measured)] : n \in 1..(IF room < 2 THEN room ELSE 2)}

\* add_values of the page writer or of the builder; a dictionary column keeps
\* its values until it is closed.
AddBatch ==
  /\ keeper # "none" /\ footer = <<>>
  /\ \E values \in Batches(MaxValues - Len(ValuesGiven)) :
       /\ open' = open \o values
       /\ bounds' = CASE keeper = "pages" -> update_statistics(bounds, measured, values)
                      [] keeper = "dictionary" -> bounds
                      [] measured.type = "BYTE_ARRAY" -> carquet_statistics_add_byte_arrays(measured, bounds, values)
                      [] OTHER -> carquet_statistics_add_values(measured, bounds, values)
  /\ UNCHANGED <<measured, keeper, pages, chunk, footer>>

\* flush_current_page
FlushPage ==
  /\ keeper = "pages" /\ open # <<>> /\ footer = <<>>
  /\ pages' = Append(pages, [values |-> open, bounds |-> bounds])
  /\ chunk' = merge_page_statistics(measured, chunk, bounds)
  /\ open' = <<>> /\ bounds' = NoBounds
  /\ UNCHANGED <<measured, keeper, footer>>

\* finalize_dictionary: one page with the bounds of all the values.
EmitDictionary ==
  /\ keeper = "dictionary" /\ open # <<>> /\ footer = <<>>
  /\ LET b == carquet_page_writer_set_min_max(NoBounds, measured, dict_compute_min_max(measured, open))
     IN  /\ pages' = <<[values |-> open, bounds |-> b]>>
         /\ chunk' = merge_page_statistics(measured, NoBounds, b)
  /\ open' = <<>>
  /\ UNCHANGED <<measured, keeper, bounds, footer>>

\* The chunk's metadata is made; the builder's statistics stand on their own.
CloseChunk ==
  /\ keeper # "none" /\ footer = <<>> /\ ValuesGiven # <<>>
  /\ keeper # "builder" => open = <<>>
  /\ footer' = <<IF keeper = "builder" THEN carquet_statistics_build(bounds)
                 ELSE FooterStatistics(measured, chunk)>>
  /\ UNCHANGED <<measured, keeper, open, bounds, pages, chunk>>

StatNext == AddBatch \/ FlushPage \/ EmitDictionary \/ CloseChunk

-----------------------------------------------------------------------------
Equal(column, x, v) ==
  /\ ~NotANumber(column, x) /\ ~NotANumber(column, v)
  /\ CMP3(OrderOf(column), x, v) = 0

\* Does a value satisfy a comparison, in the column's order?
Satisfies(column, x, op, v) ==
  LET less(a, b) == Before(OrderOf(column), a, b)
  IN  CASE op = "EQ" -> Equal(column, x, v)
        [] op = "NE" -> ~Equal(column, x, v)
        [] op = "LT" -> less(x, v)
        [] op = "LE" -> less(x, v) \/ Equal(column, x, v)
        [] op = "GT" -> less(v, x)
        [] op = "GE" -> less(v, x) \/ Equal(column, x, v)

Operators == {"EQ", "NE", "LT", "LE", "GT", "GE"}

Clauses(column) ==
  LET values == StatValues(column)
  IN  [op : Operators, value : values]
      \union [op : {"RANGE"}, lo : values, hi : values \union {<<>>}]
      \union [op : {"IN"}, values : {<<v, w>> : v \in values, w \in {CHOOSE w \in values : TRUE}}]

SatisfiesClause(column, x, clause) ==
  CASE clause.op = "RANGE" -> /\ clause.lo # <<>> => Satisfies(column, x, "GE", clause.lo)
                              /\ clause.hi # <<>> => Satisfies(column, x, "LE", clause.hi)
    [] clause.op = "IN" -> \E v \in ToSet(clause.values) : Equal(column, x, v)
    [] OTHER -> Satisfies(column, x, clause.op, clause.value)

\* Tight bounds: no value lies outside, each bound is reached, and zeros have
\* the sign that lets both zeros in.
Tight(column, b, values) ==
  LET real == {v \in ToSet(values) : ~NotANumber(column, v)}
      reached(x) == \E v \in real : Equal(column, v, x)
  IN  IF real = {} THEN ~b.has_min_max
      ELSE /\ b.has_min_max /\ reached(b.min) /\ reached(b.max)
           /\ \A v \in real : ~Before(OrderOf(column), v, b.min) /\ ~Before(OrderOf(column), b.max, v)

\* The frame's bounds have every value between them, compared as R compares
\* what it shows.
Encloses(row, values) ==
  \A v \in ToSet(values) :
    /\ row.min.class # "NULL" => ~Before(row.min.order, v, row.min.of)
    /\ row.max.class # "NULL" => ~Before(row.max.order, row.max.of, v)

\* PROPERTY PageBoundsAreTight: however a page's values arrive in batches, and
\* whatever zeros, NaNs and subnormals are among them, the page writer's bounds
\* (update_statistics_* in page_writer.c) are those of the column's order, and
\* there are none exactly when no value can be ordered.  What column_statistics()
\* and page_index() show of them in R encloses the values of the chunk and of the
\* page, also when text was cut for the footer, and a bound of a fixed width is
\* never lost between the writer's width and the width R expects.  Unsigned
\* columns are left out of the latter: R shows their bounds as signed numbers.
PageBoundsAreTight ==
  keeper = "pages" /\ stats_order_defined_for_logical(measured.logical) /\ measured.type # "INT96" =>
    /\ Tight(measured, bounds, open)
    /\ \A i \in DOMAIN pages : Tight(measured, pages[i].bounds, pages[i].values)
    /\ OrderOf(measured) \in {"float", "half"} /\ bounds.has_min_max =>
         /\ IsZero(bounds.min) => Negative(bounds.min)
         /\ IsZero(bounds.max) => ~Negative(bounds.max)
    /\ measured.logical # "UINT" /\ footer # <<>> =>
         LET row == qio_parquet_column_statistics(measured, footer[1])
             rows == qio_parquet_page_index(measured, pages)
         IN  /\ Encloses(row, ValuesGiven)
             /\ \A p \in DOMAIN pages : Encloses(rows[p].shown, pages[p].values)
             /\ measured.type # "BYTE_ARRAY" =>
                  \A p \in DOMAIN pages : ~rows[p].null_page =>
                    "NULL" \notin {row.min.class, row.max.class, rows[p].shown.min.class}

\* Comparisons that statistics cannot decide once NaN is about: a NaN is never
\* among the bounds, yet it differs from every value.
Undecided(values, op, v) ==
  op = "NE" /\ \E x \in ToSet(values) \union {v} : NotANumber(measured, x)

\* A dictionary column takes its first value for a bound even if it is NaN.
NanBound == keeper = "dictionary" /\ \E x \in ToSet(ValuesGiven) : NotANumber(measured, x)

\* PROPERTY PredicatesKeepMatches: a row group (carquet_reader_row_group_matches
\* on the footer's statistics) or a page (page_matches_clause on the page's) that
\* holds a value satisfying a predicate is never ruled out, although writer and
\* readers pick the order of the values by different rules, bounds of text are
\* cut, and zeros, NaNs and halves have orders of their own.  Two cases are left
\* out, where the code does rule out matches: != with NaN about, and a
\* dictionary column that holds NaN.  A page is judged by itself, so chunks of
\* one page show every page.
PredicatesKeepMatches ==
  footer # <<>> /\ keeper # "builder" /\ ~NanBound =>
    /\ \A op \in Operators, v \in StatValues(measured) :
         /\ ~Undecided(ValuesGiven, op, v)
         /\ \E x \in ToSet(ValuesGiven) : Satisfies(measured, x, op, v)
         => carquet_reader_row_group_matches(measured, footer[1], op, v)
    /\ Len(pages) = 1 /\ pages[1].bounds.has_min_max =>
         \A clause \in Clauses(measured) :
           /\ carquet_page_filter_validate_clause(measured, clause)
           /\ clause.op = "NE" => ~Undecided(pages[1].values, "NE", clause.value)
           /\ \E x \in ToSet(pages[1].values) : SatisfiesClause(measured, x, clause)
           => page_matches_clause(measured, pages[1].bounds, clause)
=============================================================================
