---------------------------- MODULE Materialize ----------------------------
(***************************************************************************)
(* From the values of a column chunk to an R vector: the conversions of    *)
(* src/qio_file.c, with the read plan of R/parquet-plan.R around them.     *)
(* The values arrive batch by batch along one of three paths: "dense", the *)
(* present values packed beside the definition levels (collect);           *)
(* "aligned", one value per row beside a null bitmap (walk_batches); or    *)
(* "dictionary", one index per present value (text in collect), which is   *)
(* abandoned for the dense path when a page holds no indices.              *)
(*                                                                         *)
(* A stored value is an integer, a fraction, a sequence of bytes or an     *)
(* INT96 [nanos, day]; Null stands for an absent one.                      *)
(***************************************************************************)
EXTENDS ReadPlan, TLC

CONSTANTS Null,
          Int32Bits, Int64Bits,   \* the widths; -2^(bits-1) is R's missing value
          ExactBits,              \* a double is exact up to 2^ExactBits
          NanosPerSecond, EpochDay,
          AsciiWord,              \* bytes that qio_skip_ascii tests at a time
          CacheSize, CacheMaxUsed, CacheTrial, CacheProbes,
          ReadColumns             \* the reads: see column

VARIABLES
    column,    \* [leaf, options, rows, coded, walk, batch_size]: the rows hold values or Null; the
               \* first `coded` of them are in dictionary pages; walk_batches() or collect()
    plan,      \* the column's row of the read plan
    path,      \* how the values arrive
    read,      \* rows delivered
    dest,      \* the R vector: row -> value
    strings,   \* the cache of strings
    flags,     \* int32_sentinel and int64_coerced
    phase      \* "plan", "read", "done" or "error"
materializeVars == <<column, plan, path, read, dest, strings, flags, phase>>

NA_INTEGER == -(2^(Int32Bits - 1))
INT64_MIN == -(2^(Int64Bits - 1))
QIO_DOUBLE_EXACT_MAX == 2^ExactBits

(* ------------------------------- numbers -------------------------------- *)

\* An R integer, and bit64's integer64, spell NA as their smallest value.
AsInteger(v) == IF v = NA_INTEGER THEN NA ELSE Number(v)
AsInteger64(v) == IF v = INT64_MIN THEN NA ELSE Number(v)
AsUnsigned(v, bits) == IF v < 0 THEN v + 2^bits ELSE v

\* (double): beyond the exact range, the nearest even number, ties to a multiple of 4.
AsDouble(v) ==
    IF v \in -QIO_DOUBLE_EXACT_MAX..QIO_DOUBLE_EXACT_MAX \/ v % 2 = 0 THEN Number(v)
    ELSE Number(IF (v + 1) % 4 = 0 THEN v + 1 ELSE v - 1)

qio_int96_to_seconds(v) ==
    <<(v.day - EpochDay) * SecondsPerDay * NanosPerSecond + v.nanos, NanosPerSecond>>

\* The value placed, and whether it had to be replaced by NA: in "double" mode what a
\* double cannot hold exactly, in "integer64" mode what would be, or is, bit64's NA.
PlacedDouble(raw, is_unsigned) ==
    LET value == IF is_unsigned THEN AsUnsigned(raw, Int64Bits) ELSE raw
        lost == value < -QIO_DOUBLE_EXACT_MAX \/ value > QIO_DOUBLE_EXACT_MAX
    IN  [lost |-> lost, value |-> IF lost THEN NA ELSE Number(value)]

PlacedBit64_Unnoticed(raw, is_unsigned) ==
    [lost |-> is_unsigned /\ raw < 0, value |-> AsInteger64(IF is_unsigned /\ raw < 0 THEN INT64_MIN ELSE raw)]
PlacedBit64(raw, is_unsigned) ==
    [lost |-> IF is_unsigned THEN raw < 0 ELSE raw = INT64_MIN,
     value |-> AsInteger64(IF is_unsigned /\ raw < 0 THEN INT64_MIN ELSE raw)]

qio_place_int64(raw, mode_, is_unsigned) ==
    IF mode_ = "BIT64" THEN PlacedBit64(raw, is_unsigned) ELSE PlacedDouble(raw, is_unsigned)

(* -------------------------------- text ---------------------------------- *)

RECURSIVE qio_skip_ascii(_, _)
qio_skip_ascii(bytes, i) ==
    IF Len(bytes) - i >= AsciiWord /\ \A k \in 1..AsciiWord : bytes[i + k] < 128
    THEN qio_skip_ascii(bytes, i + AsciiWord) ELSE i

Extra(byte) == CASE byte \div 32 = 6 -> 1 [] byte \div 16 = 14 -> 2 [] byte \div 8 = 30 -> 3 [] OTHER -> 0
LeadBits(byte, extra) == byte % (CASE extra = 1 -> 32 [] extra = 2 -> 16 [] OTHER -> 8)
IsContinuation(byte) == byte \div 64 = 2

\* The code point that starts after i, or -1 when the sequence is malformed.
CodePoint(bytes, i, extra) ==
    LET code[k \in 0..extra] == IF k = 0 THEN LeadBits(bytes[i + 1], extra)
                                ELSE (code[k - 1] * 64) + (bytes[i + 1 + k] % 64)
    IN  IF extra = 0 \/ i + extra >= Len(bytes) \/ \E k \in 1..extra : ~ IsContinuation(bytes[i + 1 + k])
        THEN -1 ELSE code[extra]

Overlong_Short(code, extra) == extra = 1 /\ code < 128
Overlong(code, extra) == \/ extra = 1 /\ code < 128
                         \/ extra = 2 /\ code < 2048
                         \/ extra = 3 /\ code < 65536

\* The 1-based offset of the first malformed sequence after i, or 0.
RECURSIVE InvalidAfter(_, _)
InvalidAfter(bytes, from) ==
    LET i == qio_skip_ascii(bytes, from)
        extra == Extra(bytes[i + 1])
        code == CodePoint(bytes, i, extra)
    IN  IF i >= Len(bytes) THEN 0
        ELSE IF bytes[i + 1] < 128 THEN InvalidAfter(bytes, i + 1)
        ELSE IF code = -1 \/ Overlong(code, extra) \/ code > 1114111 \/ code \in 55296..57343 THEN i + 1
        ELSE InvalidAfter(bytes, i + extra + 1)

qio_utf8_invalid_at(bytes) == InvalidAfter(bytes, 0)

\* qio_check_string_bytes raises an error unless this holds.
qio_check_string_bytes(bytes) ==
    /\ \A k \in DOMAIN bytes : bytes[k] # 0
    /\ qio_utf8_invalid_at(bytes) = 0

\* Hexadecimal digits 0..15, the hyphen is 16.
Hyphen == 16
qio_format_uuid(bytes) ==
    LET group_bytes == <<4, 2, 2, 2, 6>>
        first[g \in 1..6] == IF g = 1 THEN 0 ELSE first[g - 1] + group_bytes[g - 1]
        digits(g) == [k \in 1..2 * group_bytes[g] |->
                        LET byte == bytes[first[g] + 1 + (k - 1) \div 2]
                        IN  IF k % 2 = 1 THEN byte \div 16 ELSE byte % 16]
    IN  digits(1) \o <<Hyphen>> \o digits(2) \o <<Hyphen>> \o digits(3) \o <<Hyphen>>
            \o digits(4) \o <<Hyphen>> \o digits(5)

(* -------------- the cache of strings, keyed by their address -------------- *)

NoEntry == [key |-> -1, length |-> 0, value |-> <<>>]
EmptyCache == [entries |-> [s \in 0..CacheSize - 1 |-> NoEntry], used |-> 0, lookups |-> 0, hits |-> 0,
               enabled |-> TRUE]

\* The cache is good for one batch only: the next one reuses the addresses.
qio_charcache_reset_Kept(cache) == cache
qio_charcache_reset(cache) == EmptyCache

qio_charcache_hash(key) == key % CacheSize

\* The slot that holds the key, or the one to fill, or CacheSize for neither.
Probe(cache, key, length) ==
    LET slot(s) == (qio_charcache_hash(key) + s) % CacheSize
        holds(s) == cache.entries[slot(s)].key = key /\ cache.entries[slot(s)].length = length
        ends == {s \in 0..CacheProbes - 1 : cache.entries[slot(s)].key = -1 \/ holds(s)}
    IN  IF ends = {} THEN [hit |-> FALSE, at |-> CacheSize]
        ELSE LET s == CHOOSE s \in ends : \A t \in ends : s <= t
             IN  [hit |-> holds(s), at |-> slot(s)]

qio_charcache_get(cache, key, length) ==
    LET looked == [cache EXCEPT !.lookups = @ + 1]
        probe == Probe(cache, key, length)
    IN  CASE ~ cache.enabled -> [hit |-> FALSE, at |-> CacheSize, cache |-> cache]
          [] cache.enabled /\ looked.lookups = CacheTrial /\ cache.hits * 4 < looked.lookups ->
                [hit |-> FALSE, at |-> CacheSize, cache |-> [looked EXCEPT !.enabled = FALSE]]
          [] OTHER -> [hit |-> probe.hit, at |-> probe.at,
                       cache |-> IF probe.hit THEN [looked EXCEPT !.hits = @ + 1] ELSE looked]

qio_charcache_put(cache, at, key, value) ==
    IF at >= CacheSize \/ cache.used >= CacheMaxUsed THEN cache
    ELSE [cache EXCEPT !.used = @ + 1,
                       !.entries[at] = [key |-> key, length |-> Len(value), value |-> value]]

\* The strings of one batch: texts and their addresses, through the cache.
RECURSIVE InternFrom(_, _, _, _)
InternFrom(texts, keys, cache, done) ==
    LET text == Head(texts)
        got == qio_charcache_get(cache, Head(keys), Len(text))
        rest(c, v) == InternFrom(Tail(texts), Tail(keys), c, Append(done, v))
    IN  IF texts = <<>> THEN [ok |-> TRUE, values |-> done, cache |-> cache]
        ELSE IF text # <<>> /\ got.hit THEN rest(got.cache, got.cache.entries[got.at].value)
        ELSE IF ~ qio_check_string_bytes(text) THEN [ok |-> FALSE, values |-> done, cache |-> cache]
        ELSE IF text = <<>> THEN rest(cache, text)
        ELSE rest(qio_charcache_put(got.cache, got.at, Head(keys), text), text)

(* ------------------------- one batch of a column ------------------------- *)

leaf == column.leaf
kind == qio_column_kinds(plan.converter)
mode == IF kind = "INT64" THEN qio_int64_code(column.options) ELSE "none"
unsigned64 == LogicalId(leaf) = "INTEGER" /\ leaf.logical.bit_width = 64 /\ ~ leaf.logical.is_signed

qio_needs_main_thread == kind \in {"BINARY", "UUID"} \/ leaf.physical \in Bytes_

\* What the selection refuses, and what the allocation cannot build.
Selectable(k) ==
    /\ ~ leaf.nested
    /\ leaf.physical = "FIXED_LEN_BYTE_ARRAY" => k \in {"BINARY", "UUID"} /\ leaf.type_length > 0

qio_allocate_column ==
    CASE kind = "BINARY" -> "list"
      [] kind = "UUID" -> "character"
      [] kind = "UINT32" -> "double"
      [] leaf.physical = "BOOLEAN" -> "logical"
      [] leaf.physical = "INT32" -> "integer"
      [] leaf.physical \in {"INT64", "INT96", "FLOAT", "DOUBLE"} -> "double"
      [] OTHER -> "character"

\* A present number as it is written to the vector.
Placed(v) ==
    CASE leaf.physical = "BOOLEAN" -> v # 0
      [] leaf.physical = "INT32" /\ kind = "UINT32" -> Number(AsUnsigned(v, Int32Bits))
      [] leaf.physical = "INT32" /\ kind # "UINT32" -> AsInteger(v)
      [] leaf.physical = "INT64" /\ mode = "none" -> AsDouble(v)
      [] leaf.physical = "INT64" /\ mode # "none" -> qio_place_int64(v, mode, unsigned64).value
      [] leaf.physical = "INT96" -> qio_int96_to_seconds(v)
      [] OTHER -> v

\* The substitutions are looked for in the values, never in the vector, where a null
\* has the same bits.
Sentinel(values) == /\ leaf.physical = "INT32" /\ kind # "UINT32"
                    /\ \E k \in DOMAIN values : values[k] = NA_INTEGER
Coerced(values) == /\ leaf.physical = "INT64" /\ mode # "none"
                   /\ \E k \in DOMAIN values : qio_place_int64(values[k], mode, unsigned64).lost
Flagged(values) == [int32_sentinel |-> flags.int32_sentinel \/ Sentinel(values),
                    int64_coerced |-> flags.int64_coerced \/ Coerced(values)]

Present(rows) == SelectSeq(rows, LAMBDA v : v # Null)
\* The place of row i in the packed values.
Rank(rows, i) == Cardinality({k \in 1..i : rows[k] # Null})

\* Packed values to their rows; a REQUIRED column has no levels, and a value per row.
Scatter(rows, values) ==
    [i \in DOMAIN rows |-> IF leaf.max_def = 0 THEN values[i]
                           ELSE IF rows[i] # Null THEN values[Rank(rows, i)] ELSE NA]

\* A dictionary page holds the distinct values of its rows, in order of appearance.
RECURSIVE Distinct(_, _)
Distinct(values, seen) ==
    IF values = <<>> THEN seen
    ELSE Distinct(Tail(values), IF \E k \in DOMAIN seen : seen[k] = Head(values) THEN seen
                                ELSE Append(seen, Head(values)))
dictionary == Distinct(Present(SubSeq(column.rows, 1, column.coded)), <<>>)
IndexOf(v) == CHOOSE k \in DOMAIN dictionary : dictionary[k] = v

\* Where the bytes of the k-th value of a batch are: in the entry of the dictionary,
\* or in the page, whose buffer every batch uses again.
Address(rows, k) ==
    LET i == CHOOSE i \in DOMAIN rows : rows[i] # Null /\ Rank(rows, i) = k
    IN  IF read + i <= column.coded THEN IndexOf(rows[i]) ELSE Len(dictionary) + k

UuidRefused == kind = "UUID" /\ leaf.type_length # 16
Written(rows, values) == [i \in DOMAIN column.rows |->
                            IF i - read \in DOMAIN rows THEN values[i - read] ELSE dest[i]]
Wanted == LET left == Len(column.rows) - read
          IN  SubSeq(column.rows, read + 1, read + (IF left < column.batch_size THEN left ELSE column.batch_size))

Refuse == phase' = "error" /\ UNCHANGED <<column, plan, path, read, dest, strings, flags>>
Deliver(rows, values) ==
    /\ read' = read + Len(rows)
    /\ dest' = Written(rows, values)
    /\ UNCHANGED <<column, plan, path, phase>>

Reading(p) == phase = "read" /\ path = p /\ read < Len(column.rows)

qio_scatter_dense_column ==
    LET rows == Wanted
        values == Present(rows)
        interned == InternFrom(values, [k \in DOMAIN values |-> Address(rows, k)],
                               qio_charcache_reset(strings), <<>>)
    IN  /\ Reading("dense")
        /\ IF UuidRefused THEN Refuse
           ELSE IF kind = "UUID"
                THEN /\ Deliver(rows, Scatter(rows, [k \in DOMAIN values |-> qio_format_uuid(values[k])]))
                     /\ UNCHANGED <<strings, flags>>
           ELSE IF kind = "BINARY"
                THEN Deliver(rows, Scatter(rows, values)) /\ UNCHANGED <<strings, flags>>
           ELSE IF leaf.physical = "BYTE_ARRAY"
                THEN IF ~ interned.ok THEN Refuse
                     ELSE /\ Deliver(rows, Scatter(rows, interned.values))
                          /\ strings' = interned.cache
                          /\ UNCHANGED flags
           ELSE /\ Deliver(rows, Scatter(rows, [k \in DOMAIN values |-> Placed(values[k])]))
                /\ flags' = Flagged(values)
                /\ UNCHANGED strings

\* walk_batches(): every row has a slot, so there is no cursor to keep.
qio_copy_batch_column ==
    LET rows == Wanted
        text == leaf.physical = "BYTE_ARRAY" /\ kind # "BINARY"
        value(v) == CASE v = Null -> NA
                      [] v # Null /\ kind = "UUID" -> qio_format_uuid(v)
                      [] v # Null /\ (kind = "BINARY" \/ text) -> v
                      [] OTHER -> Placed(v)
    IN  /\ Reading("aligned")
        /\ IF UuidRefused \/ (text /\ \E i \in DOMAIN rows : rows[i] # Null /\ ~ qio_check_string_bytes(rows[i]))
           THEN Refuse
           ELSE /\ Deliver(rows, [i \in DOMAIN rows |-> value(rows[i])])
                /\ flags' = IF kind = "BINARY" \/ kind = "UUID" \/ text THEN flags ELSE Flagged(Present(rows))
                /\ UNCHANGED strings

\* The indices of the batch, gathered from the strings of the dictionary; a batch that
\* reaches a page without indices comes back short, and the chunk is read again.
qio_scatter_dictionary_strings ==
    LET rows == Wanted
        indices == [k \in DOMAIN Present(rows) |-> IndexOf(Present(rows)[k])]
    IN  /\ Reading("dictionary")
        /\ IF read = 0 /\ \E k \in DOMAIN dictionary : ~ qio_check_string_bytes(dictionary[k]) THEN Refuse
           ELSE IF read + Len(rows) > column.coded
                THEN /\ path' = "dense" /\ read' = 0
                     /\ UNCHANGED <<column, plan, dest, strings, flags, phase>>
           ELSE /\ Deliver(rows, Scatter(rows, [k \in DOMAIN indices |-> dictionary[indices[k]]]))
                /\ UNCHANGED <<strings, flags>>

(* ------------------------------ the read ------------------------------ *)

\* collect() and walk_batches(): plan, select, allocate.
PlanRead ==
    /\ phase = "plan"
    /\ plan' = qio_build_plan(leaf, column.options)
    /\ path' = IF column.walk THEN "aligned"
               ELSE IF qio_column_kinds(plan'.converter) = "TEXT" /\ column.coded > 0 THEN "dictionary" ELSE "dense"
    /\ phase' = IF Selectable(qio_column_kinds(plan'.converter)) THEN "read" ELSE "error"
    /\ UNCHANGED <<column, read, dest, strings, flags>>

\* The converters run over the whole vector, after the last batch.
ApplyPlan ==
    /\ phase = "read" /\ read = Len(column.rows)
    /\ IF Refuses(dest, plan.converter) THEN Refuse
       ELSE /\ dest' = qio_apply_plan(dest, plan)
            /\ phase' = "done"
            /\ UNCHANGED <<column, plan, path, read, strings, flags>>

NoColumn == [leaf |-> [physical |-> "BOOLEAN", logical |-> NA, type_length |-> 0, max_def |-> 0, nested |-> FALSE],
             options |-> [int64 |-> "double", time |-> "numeric", tz |-> "UTC"],
             rows |-> <<>>, coded |-> 0, walk |-> FALSE, batch_size |-> 1]
Reset(c, p) ==
    /\ column = c /\ phase = p /\ read = 0
    /\ plan = Unresolved /\ path = "dense"
    /\ dest = [i \in DOMAIN c.rows |-> Null]
    /\ strings = EmptyCache
    /\ flags = [int32_sentinel |-> FALSE, int64_coerced |-> FALSE]
MaterializeInit == \E k \in DOMAIN ReadColumns : \E c \in ReadColumns[k] : Reset(c, "plan")
MaterializeIdle == Reset(NoColumn, "done")
MaterializeNext == \/ PlanRead \/ qio_scatter_dense_column \/ qio_copy_batch_column
                   \/ qio_scatter_dictionary_strings \/ ApplyPlan

(* ------------------- what the stored values stand for ------------------- *)

\* Unicode's table of well-formed byte sequences.
Cont == 128..191
SecondBytes(lead) == CASE lead = 224 -> 160..191 [] lead = 237 -> 128..159
                       [] lead = 240 -> 144..191 [] lead = 244 -> 128..143 [] OTHER -> Cont
SequenceLength(lead) == CASE lead \in 0..127 -> 1 [] lead \in 194..223 -> 2 [] lead \in 224..239 -> 3
                          [] lead \in 240..244 -> 4 [] OTHER -> 5
RECURSIVE IsUtf8(_)
IsUtf8(bytes) ==
    bytes = <<>> \/ LET n == SequenceLength(bytes[1])
                    IN  /\ n <= Len(bytes) /\ n <= 4
                        /\ n >= 2 => bytes[2] \in SecondBytes(bytes[1])
                        /\ \A k \in 3..n : bytes[k] \in Cont
                        /\ IsUtf8(SubSeq(bytes, n + 1, Len(bytes)))

TwosComplement(bytes) ==
    LET sum[k \in 0..Len(bytes)] == IF k = 0 THEN 0 ELSE sum[k - 1] * 256 + bytes[k]
    IN  sum[Len(bytes)] - (IF bytes[1] >= 128 THEN 256^Len(bytes) ELSE 0)

\* binary16 by its definition: a subnormal has the exponent of the smallest normal.
Half(bytes) ==
    LET e == (bytes[2] \div 4) % 32
        f == bytes[1] + 256 * (bytes[2] % 4)
        s == IF bytes[2] >= 128 THEN -1 ELSE 1
    IN  CASE e = 31 /\ f > 0 -> NaN
          [] e = 31 /\ f = 0 -> IF s = 1 THEN Inf ELSE MinusInf
          [] OTHER -> [m |-> s * (IF e = 0 THEN f ELSE f + 1024), e |-> (IF e = 0 THEN 1 ELSE e) - 15 - 10]

Digits(text) == SelectSeq(text, LAMBDA c : c # Hyphen)
IsUuidText(text, bytes) ==
    /\ {i \in DOMAIN text : text[i] = Hyphen} = {9, 14, 19, 24}
    /\ Digits(text) = [k \in 1..32 |-> IF k % 2 = 1 THEN bytes[(k + 1) \div 2] \div 16 ELSE bytes[k \div 2] % 16]

SameNumber(x, y) == IF IsNumber(x) /\ IsNumber(y) THEN x[1] * y[2] = y[1] * x[2] ELSE x = y

\* A count may have been rounded to a double when it is beyond the exact range.
SameCount(x, v, per) ==
    \/ SameNumber(x, <<v, per>>)
    \/ (v > QIO_DOUBLE_EXACT_MAX \/ v < -QIO_DOUBLE_EXACT_MAX)
        /\ (SameNumber(x, <<v + 1, per>>) \/ SameNumber(x, <<v - 1, per>>))

UnitsOf(l) == PerSecond[Lower(l.logical.unit)]
Is(ids) == LogicalId(leaf) \in ids

\* x is the R value of the stored v.
StandsFor(x, v) ==
    CASE leaf.physical = "BOOLEAN" -> x = (v = 1)
      [] leaf.physical = "INT96" -> SameNumber(x, <<(v.day - EpochDay) * SecondsPerDay * NanosPerSecond + v.nanos,
                                                    NanosPerSecond>>)
      [] leaf.physical \in {"FLOAT", "DOUBLE"} -> SameNumber(x, v)
      [] Is({"UUID"}) /\ leaf.physical = "FIXED_LEN_BYTE_ARRAY" -> IsUuidText(x, v)
      [] Is({"FLOAT16"}) /\ leaf.physical = "FIXED_LEN_BYTE_ARRAY" -> x = Half(v)
      [] Is({"DECIMAL"}) /\ leaf.physical \in Bytes_ ->
            SameNumber(x, <<TwosComplement(v), Power(10, leaf.logical.scale)>>)
      [] Is({"DECIMAL"}) /\ leaf.physical \notin Bytes_ -> SameCount(x, v, Power(10, leaf.logical.scale))
      [] leaf.physical \in Bytes_ /\ ~ Is({"UUID", "FLOAT16", "DECIMAL"}) -> x = v
      [] Is({"TIME"}) -> SameCount(x, v, UnitsOf(leaf))
      [] Is({"TIMESTAMP"}) ->
            IF leaf.logical.is_adjusted_to_utc \/ column.options.tz = "UTC" THEN SameCount(x, v, UnitsOf(leaf))
            ELSE \E e \in {-1, 0, 1} : /\ SameCount(<<v + e, UnitsOf(leaf)>>, v, UnitsOf(leaf))
                                       /\ SameNumber(x, ZoneInstant(column.options.tz, <<v + e, UnitsOf(leaf)>>))
      [] Is({"INTEGER"}) /\ ~ leaf.logical.is_signed -> SameNumber(x, Number(IF v < 0 THEN v + 2^leaf.width ELSE v))
      [] OTHER -> SameNumber(x, Number(v))

\* A wall clock time that the zone skipped.
NoSuchTime(v) == /\ Is({"TIMESTAMP"}) /\ ~ leaf.logical.is_adjusted_to_utc /\ column.options.tz # "UTC"
                 /\ ZoneInstant(column.options.tz, <<v, UnitsOf(leaf)>>) = NA

\* No R value stands for it.
Unreadable(v) ==
    \/ Is({"STRING", "ENUM", "JSON"}) /\ leaf.physical = "BYTE_ARRAY"
        /\ (~ IsUtf8(v) \/ \E k \in DOMAIN v : v[k] = 0)
    \/ Is({"UUID"}) /\ leaf.physical = "FIXED_LEN_BYTE_ARRAY" /\ leaf.type_length # 16
    \/ Is({"FLOAT16"}) /\ leaf.physical = "FIXED_LEN_BYTE_ARRAY" /\ Len(v) # 2
    \/ Is({"TIME"}) /\ (v < 0 \/ v >= SecondsPerDay * UnitsOf(leaf))

(* ------------------------------ properties ------------------------------ *)

\* qio_scatter_dense_column, qio_copy_batch_column, qio_scatter_dictionary_strings and
\* the converters: along every path, whatever the batches, each row of the result is
\* NA where the file has a null, and otherwise NA or what the stored value stands for.
\* And the checks of the converters, qio_check_string_bytes and qio_check_uuid_width
\* refuse a read exactly when some value of the column has no R value.
ColumnIsFaithful ==
    /\ phase = "done" => \A i \in DOMAIN column.rows :
                           IF column.rows[i] = Null THEN dest[i] = NA
                           ELSE dest[i] = NA \/ StandsFor(dest[i], column.rows[i])
    /\ phase \in {"done", "error"} =>
           (phase = "error" <=> \E i \in DOMAIN column.rows : column.rows[i] # Null /\ Unreadable(column.rows[i]))

\* qio_place_int64 and the INT32 sentinel: a stored value reads as NA only in a column
\* that will be warned about, and a column is warned about only if one did.
LossIsFlagged ==
    phase = "done" =>
        LET lost == \E i \in DOMAIN column.rows : /\ column.rows[i] # Null /\ dest[i] = NA
                                                  /\ ~ NoSuchTime(column.rows[i])
        IN  lost <=> (flags.int32_sentinel \/ flags.int64_coerced)

=============================================================================
