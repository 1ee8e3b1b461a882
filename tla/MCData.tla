------------------------------- MODULE MCData -------------------------------
(***************************************************************************)
(* The parts of the library that hold, convert or transport data and share *)
(* no state with one another, side by side: a behaviour belongs to one of  *)
(* them, and the others stay idle.                                         *)
(***************************************************************************)
EXTENDS Formats, ParquetTypes, Bloom, Materialize, WriteColumns, Statistics,
        DataPages, Schema, WriterOptions, SimdDispatch, SimdVariants, Codecs, Handle, PoolCreate

(* ----------------------------- the encodings ----------------------------- *)

Of(decoded) == [ok |-> ~decoded.bad, values |-> decoded.values]

\* The page, or the dictionary page and the index page.
MCEncoded(j) ==
    CASE j.kind = "plain" /\ j.type = "BOOLEAN" -> carquet_encode_plain_boolean(j.values)
      [] j.kind = "plain" /\ j.type = "BYTE_ARRAY" -> carquet_encode_plain_byte_array(j.values)
      [] j.kind = "plain" /\ j.type = "FIXED" -> carquet_encode_plain_fixed_byte_array(j.values)
      [] j.kind = "plain" /\ j.type = "INT32" -> carquet_encode_plain_int32(j.values)
      [] j.kind = "plain" /\ j.type = "INT96" -> carquet_encode_plain_int96(j.values)
      [] j.kind = "delta" -> carquet_delta_encode_int64(j.values, j.capacity).data
      [] j.kind = "delta_length" -> carquet_delta_length_encode(j.values).data
      [] j.kind = "delta_strings" -> carquet_delta_strings_encode(j.values).data
      [] j.kind = "split" -> carquet_byte_stream_split_encode(j.values, j.width, Len(j.values) * j.width).data
      [] j.kind = "levels" -> carquet_rle_encode_levels(j.values, j.width)
      [] j.kind = "dictionary" -> carquet_dictionary_encode_capped(j.type, j.values, 0, j.hash).indices

DictPage(j) == carquet_dictionary_encode_capped(j.type, j.values, 0, j.hash)

MCDecoded(j, bytes) ==
    LET n == Len(j.values)
    IN  CASE j.kind = "plain" -> Of(carquet_decode_plain(bytes, j.type, j.width, n))
          [] j.kind = "delta" -> carquet_delta_decode_int64(bytes, n)
          [] j.kind = "delta_length" -> carquet_delta_length_decode(bytes, n)
          [] j.kind = "delta_strings" ->
                carquet_delta_strings_decode(bytes, n, carquet_delta_strings_decoded_size(bytes, n).size)
          [] j.kind = "split" -> carquet_byte_stream_split_decode(bytes, j.width, n)
          [] j.kind = "levels" -> LET out == carquet_rle_decode_all(bytes, j.width, n)
                                  IN  [ok |-> Len(out) = n, values |-> out]
          [] j.kind = "dictionary" ->
                carquet_dictionary_decode_int32(DictPage(j).dict, DictPage(j).count, bytes, n)


\* Values that repeat, alternate, climb and jump, of any length up to n.
Pattern(f, n, Value(_)) ==
    [i \in 1..n |-> Value(CASE f = "same" -> 0
                            [] f = "alternate" -> i % 2
                            [] f = "climb" -> i
                            [] f = "runs" -> (i \div 9) % 2
                            [] f = "late" -> IF i > 8 THEN i % 3 ELSE 0)]
Shapes == {"same", "alternate", "climb", "runs", "late"}
Word(v, width) == [b \in 1..width |-> (v * 7 + b) % 256]
NumberBytes(v, width) == [b \in 1..width |-> IF b = 1 THEN v ELSE IF b = width THEN 128 ELSE 0]

FixedWidth == [kind : {"plain"}, type : {"INT32"}, width : {4},
          values : {Pattern(f, n, LAMBDA v : Word(v, 4)) : f \in Shapes, n \in 0..3}]
Int96 == [kind : {"plain"}, type : {"INT96"}, width : {12},
          values : {Pattern(f, n, LAMBDA v : Word(v, 12)) : f \in Shapes, n \in 0..2}]
FixedArrays == [kind : {"plain"}, type : {"FIXED"}, width : {3},
          values : {Pattern(f, n, LAMBDA v : Word(v, 3)) : f \in Shapes, n \in 0..3}]
Booleans == [kind : {"plain"}, type : {"BOOLEAN"}, width : {1},
             values : {Pattern(f, n, LAMBDA v : v % 2) : f \in Shapes, n \in {0, 1, 7, 8, 9, 16, 17}}]
Strings == UNION {[1..n -> {<<>>, <<1>>, <<1, 1>>, <<1, 2>>}] : n \in 0..3}
Texts == [kind : {"plain"}, type : {"BYTE_ARRAY"}, width : {0}, values : Strings]
Lengths3 == [kind : {"delta_length", "delta_strings"}, values : Strings]
Numbers == {Pattern(f, n, LAMBDA v : (v - 2) * k) : f \in Shapes, n \in {0, 1, 2, 9, 10, 17, 18, 20}, k \in {1, 100}}
Deltas == [kind : {"delta"}, capacity : {400}, values : Numbers \cup {<<2047, -2048, 2047>>, <<-2048, 2047>>}]
SplitJobs == {j \in [kind : {"split"}, width : {2, 4, 8},
                  values : {Pattern(f, n, LAMBDA v : Word(v, w)) : f \in Shapes, n \in 0..5, w \in {2, 4, 8}}] :
           \A i \in DOMAIN j.values : Len(j.values[i]) = j.width}
LevelJobs == UNION {[kind : {"levels"}, width : {w},
           values : {Pattern(f, n, LAMBDA v : v % 2^w) : f \in Shapes, n \in {0, 1, 7, 8, 9, 16, 17, 25}}] : w \in {1, 2, 9}}
Keys == {NumberBytes(v, 4) : v \in 0..4}
Dicts == [kind : {"dictionary"}, type : {"INT32"}, hash : {[k \in Keys |-> 0], [k \in Keys |-> k[1]], [k \in Keys |-> 4 * k[1]]},
          values : UNION {[1..n -> Keys] : n \in 1..2}
                    \cup {Pattern(f, n, LAMBDA v : NumberBytes(v % 5, 4)) : f \in Shapes, n \in {8, 9, 17}}]

MCJobs == <<FixedWidth, Int96, FixedArrays, Booleans, Texts, Lengths3, Deltas, SplitJobs, LevelJobs, Dicts>>

(* Footers, page headers, page indexes and bloom filters as jobs of Formats. *)

(* ------------------------------- the bytes ------------------------------ *)

\* A field that a later version of the format may add, of every wire type.
Unknown == {<<>>} \cup {<<[id |-> i, type |-> f.type, bytes |-> f.bytes]>> : i \in {9, 40}, f \in
   {[type |-> TRUE_TYPE, bytes |-> <<>>], [type |-> BYTE, bytes |-> <<5>>], [type |-> I64, bytes |-> <<200, 1>>],
    [type |-> DOUBLE, bytes |-> [i \in 1..8 |-> i]], [type |-> BINARY, bytes |-> <<2, 0, 0>>],
    [type |-> LIST, bytes |-> <<37, 2, 4>>], [type |-> SET_TYPE, bytes |-> <<24, 1, 7>>],
    [type |-> MAP, bytes |-> <<1, 88, 2, 1, 9>>], [type |-> MAP, bytes |-> <<0>>],
    [type |-> STRUCT, bytes |-> <<17, 28, 0, 0>>], [type |-> UUID, bytes |-> [i \in 1..16 |-> i]]}}

MetadataEncoded(j) ==
    LET bits == carquet_bloom_filter_data(j.values)
    IN
    CASE j.kind = "page_header" -> parquet_write_page_header(j.values)
      [] j.kind = "future_header" -> thrift_write_struct(WireFields(j.values, PageHeaderWritten) \o j.extra)
      [] j.kind \in {"file_metadata", "legacy"} -> parquet_write_file_metadata(j.values)
      [] j.kind = "column_index" -> carquet_column_index_serialize(j.index)
      [] j.kind = "offset_index" -> carquet_offset_index_serialize(j.index)
      [] j.kind = "bloom" -> BloomHeader(Len(bits)) \o bits

\* A footer is also read, written again and read again, as an append does.
\* A schema as callers see it: the logical type says all that the converted type does.
Seen(meta) ==
    [meta EXCEPT !.schema =
       [i \in DOMAIN @ |-> IF "logical_type" \notin DOMAIN @[i] THEN @[i]
                           ELSE [Without(@[i], "converted_type") EXCEPT !.scale = 0, !.precision = 0]]]

MetadataDecoded(j, bytes) ==
    LET first == parquet_parse_file_metadata(bytes)
    IN
    CASE j.kind \in {"page_header", "future_header"} -> parquet_parse_page_header(bytes)
      [] j.kind \in {"file_metadata", "legacy"} ->
            IF ~first.ok THEN first
            ELSE LET again == parquet_parse_file_metadata(parquet_write_file_metadata(first.values))
                 IN  [ok |-> Seen(again.values) = Seen(first.values),
                      values |-> IF j.kind = "legacy" THEN j.values ELSE Seen(first.values)]
      [] j.kind = "column_index" ->
            LET x == carquet_column_index_parse(bytes)
            IN  [ok |-> x.ok, values |-> <<x.boundary_order,
                                           [p \in 1..x.num_pages |-> carquet_column_index_get_page_stats(x, p)]>>]
      [] j.kind = "offset_index" -> LET x == carquet_offset_index_parse(bytes)
                                    IN  [ok |-> x.ok, values |-> x.page_locations]
      [] j.kind = "bloom" -> LET f == carquet_reader_get_bloom_filter(bytes) IN [ok |-> f # <<>>, values |-> f]

(* ------------------------------- page headers --------------------------- *)

Maybe(name, vs) == {<<>>} \cup {[n \in {name} |-> v] : v \in vs}
Both(rs, qs) == {r @@ q : r \in rs, q \in qs}
Sizes == [uncompressed_page_size : {0, 300}, compressed_page_size : {1, 70}]
DataHeaders == Both(Both([type : {DATA_PAGE}], Sizes), Both(Maybe("crc", {-1, 12345}),
    [data_page_header : [num_values : {0, 1, 1000}, encoding : {0, 8}, definition_level_encoding : {3},
                         repetition_level_encoding : {3}]]))
DictHeaders == Both(Both([type : {DICTIONARY_PAGE}], Sizes), Both(Maybe("crc", {-7}),
    [dictionary_page_header : [num_values : {0, 64}, encoding : {0}, is_sorted : BOOLEAN]]))
V2Headers == Both(Both([type : {DATA_PAGE_V2}], Sizes), Both(Maybe("crc", {99}),
    [data_page_header_v2 : [num_values : {3, 200}, num_nulls : {0, 2}, num_rows : {3}, encoding : {0},
        definition_levels_byte_length : {0, 130}, repetition_levels_byte_length : {0}, is_compressed : BOOLEAN]]))
PageHeaders == [kind : {"page_header"}, values : DataHeaders \cup DictHeaders \cup V2Headers]
FutureHeaders == [kind : {"future_header"}, extra : Unknown,
                  values : {h \in DataHeaders : h.uncompressed_page_size = 300 /\ h.data_page_header.num_values = 1}]

(* --------------------------------- footers ------------------------------ *)

AnElement == [type_length |-> 0, num_children |-> 0, scale |-> 0, precision |-> 0, name |-> <<97>>]
LogicalTypes == {Bare(n) : n \in {"STRING", "MAP", "LIST", "ENUM", "DATE", "NULL", "JSON", "BSON", "UUID", "FLOAT16", "INTERVAL"}}
    \cup {[n \in {t} |-> [is_adjusted_to_utc |-> utc, unit |-> Bare(u)]] :
             t \in {"TIME", "TIMESTAMP"}, utc \in BOOLEAN, u \in {"MILLIS", "MICROS", "NANOS"}}
    \cup {Integer(w, s) : w \in {8, 16, 32, 64}, s \in BOOLEAN}
    \cup {[DECIMAL |-> [scale |-> 2, precision |-> 9]], [VARIANT |-> [specification_version |-> 1]],
          [GEOMETRY |-> [crs |-> <<>>]], [GEOMETRY |-> [crs |-> <<9>>]],
          [GEOGRAPHY |-> [crs |-> <<>>]], [GEOGRAPHY |-> [crs |-> <<9>>, algorithm |-> 2]]}
Elements == {AnElement, [AnElement EXCEPT !.num_children = 2], [AnElement EXCEPT !.type_length = 16] @@ [type |-> 7]}
    \cup {AnElement @@ [type |-> 1, repetition_type |-> r, field_id |-> 300] : r \in 0..2}
    \cup {AnElement @@ [type |-> 6, logical_type |-> lt] : lt \in LogicalTypes}
Legacy == {[AnElement EXCEPT !.scale = 1, !.precision = 4] @@ [type |-> 1, converted_type |-> c] : c \in 0..21}

Statistics == Both(Both([max_deprecated : {<<>>, <<3>>}, min_deprecated : {<<>>}, max_value : {<<1, 2>>}, min_value : {<<>>, <<0>>}],
                        Maybe("null_count", {0, 5})), Both(Maybe("distinct_count", {4}), Maybe("is_max_value_exact", BOOLEAN)))
Column == [type |-> 1, encodings |-> <<0, 3>>, path_in_schema |-> <<<<97>>, <<98, 98>>>>, codec |-> 1, num_values |-> 5,
           total_uncompressed_size |-> 900, total_compressed_size |-> 70, key_value_metadata |-> <<>>,
           encoding_stats |-> <<>>, data_page_offset |-> 4]
Corner == [i \in 1..8 |-> i]
Box == [xmin |-> Corner, xmax |-> Corner, ymin |-> Corner, ymax |-> Corner]
ColumnMetas == {Column, [Column EXCEPT !.path_in_schema = [i \in 1..16 |-> <<i>>]]}
    \cup {Column @@ x : x \in Both(Both(Maybe("dictionary_page_offset", {4}), Maybe("index_page_offset", {64})),
                                   Both(Maybe("bloom_filter_offset", {700}), Maybe("bloom_filter_length", {40})))}
    \cup {Column @@ [geospatial_statistics |-> g] :
            g \in Both(Maybe("bbox", {Box, Box @@ [zmin |-> Corner, zmax |-> Corner]}), [types : {<<>>, <<1, 1001>>}])}
Chunk == [file_offset |-> 4]
Chunks == {Chunk @@ [metadata |-> c] : c \in ColumnMetas}
    \cup {Chunk @@ [metadata |-> Column @@ [statistics |-> s]] : s \in Statistics}
    \cup Both({Chunk}, Both(Both(Maybe("file_path", {<<47>>}), Maybe("offset_index_offset", {64})), Maybe("column_index_length", {3})))
Group == [columns |-> <<>>, total_byte_size |-> 8, num_rows |-> 3, sorting_columns |-> <<>>]
RowGroupMetas == {[Group EXCEPT !.columns = <<c, Chunk>>] : c \in Chunks}
    \cup {[Group EXCEPT !.sorting_columns = <<s>>] : s \in [column_idx : {1}, descending : BOOLEAN, nulls_first : BOOLEAN]}
    \cup Both({Group}, Both(Both(Maybe("file_offset", {4}), Maybe("ordinal", {2})), Maybe("total_compressed_size", {8})))
Footer == [version |-> 2, schema |-> <<AnElement>>, num_rows |-> 3, row_groups |-> <<>>, key_value_metadata |-> <<>>, column_orders |-> <<>>]
Footers == {[kind |-> "file_metadata", values |-> v] : v \in
       {[Footer EXCEPT !.schema = <<e, AnElement>>] : e \in Elements}
          \cup {[Footer EXCEPT !.schema = [i \in 1..n |-> AnElement]] : n \in {14, 15, 16}}
          \cup {[Footer EXCEPT !.row_groups = <<g>>] : g \in RowGroupMetas}
          \cup {[Footer EXCEPT !.key_value_metadata = <<p>>] : p \in Both([key : {<<1>>}], Maybe("value", {<<>>, <<2>>}))}
          \cup {[Footer EXCEPT !.column_orders = <<[TYPE_ORDER |-> <<>>]>>] @@ [created_by |-> <<113>>]}}
LegacyFooters == {[kind |-> "legacy", values |-> [Footer EXCEPT !.schema = <<e>>]] : e \in Legacy}

(* --------------------------------- indexes ------------------------------ *)

IndexPages == [null_count : {0, 9}, min_value : {<<>>, <<1>>}, max_value : {<<2, 3>>}, is_null_page : BOOLEAN]
Lists(n, from) == UNION {[1..k -> from] : k \in 0..n}
Built(entries, order) ==
    LET add[i \in 0..Len(entries)] ==
          IF i = 0 THEN carquet_column_index_builder_create("INT32", FALSE)
          ELSE carquet_column_index_add_page(add[i - 1], entries[i].null_count, entries[i].min_value, entries[i].max_value,
                                             entries[i].is_null_page)
    IN  carquet_column_index_set_boundary_order(add[Len(entries)], order)
ColumnIndexes == {[kind |-> "column_index", values |-> <<o, entries>>, index |-> Built(entries, o)] :
                    o \in {0, 2}, entries \in Lists(2, IndexPages) \cup {[i \in 1..16 |-> CHOOSE p \in IndexPages : TRUE]}}
Locations == [offset : {4, 900}, compressed_size : {70}, first_row_index : {0, 8}]
Located(places, track) ==
    LET add[i \in 0..Len(places)] ==
          IF i = 0 THEN carquet_offset_index_builder_create(track)
          ELSE carquet_offset_index_add_page(add[i - 1], places[i].offset - 4, places[i].compressed_size,
                                             places[i].first_row_index, 64)
    IN  carquet_offset_index_builder_shift_offsets(add[Len(places)], 4)
OffsetIndexes == {[kind |-> "offset_index", values |-> places, index |-> Located(places, track)] :
                    places \in Lists(2, Locations) \cup {[i \in 1..16 |-> CHOOSE p \in Locations : TRUE]}, track \in BOOLEAN}
Inserted(f, keys) == LET add[i \in 0..Len(keys)] == IF i = 0 THEN f
                              ELSE carquet_bloom_filter_insert_hash(add[i - 1], [top |-> 9 * keys[i], key |-> keys[i]])
                     IN  add[Len(keys)]
BloomFilters == {[kind |-> "bloom", values |-> Inserted(carquet_bloom_filter_create(n), keys)] :
                   n \in {1, 4, 9}, keys \in Lists(2, {1, 5, 7})}

MetadataJobs == <<PageHeaders, FutureHeaders, Footers, LegacyFooters,
                  ColumnIndexes, OffsetIndexes, BloomFilters>>

(* ------------------------------- the codecs ------------------------------ *)

MCHash4(w) == (w[1] * 3 + w[2] + w[3] * 5 + w[4] * 7) % 4
MCHashSlots == 0..3

Periodic(p, n) == [i \in 1..n |-> ((i - 1) % p) + 1]
Mixed(p, n) == [i \in 1..n |-> IF i % p = 0 THEN i ELSE (i - 1) % 4]
Payloads == {Periodic(p, n) : p \in {1, 2, 3, 4, 8, 9, 20, 70}, n \in {1, 13, 16, 33, 100}}
              \cup {Mixed(p, n) : p \in {3, 9, 17, 23}, n \in {20, 33, 100}}
Packed == [kind : {"lz4", "snappy"}, values : Payloads, vector : BOOLEAN]

CodecEncoded(j) ==
    LET n == Len(j.values)
    IN  IF j.kind = "lz4" THEN carquet_lz4_compress(j.values, LZ4_compressBound(n)).data
        ELSE carquet_snappy_compress(j.values)

\* A page header says how long the data becomes, and a page is never empty.
CodecDecoded(j, bytes) ==
    LET n == Len(j.values)
        got == IF j.kind = "lz4" THEN carquet_lz4_decompress(bytes, n, j.vector)
               ELSE carquet_snappy_decompress(bytes, n, j.vector)
    IN  IF bytes = <<>> THEN [ok |-> FALSE, values |-> <<>>]
        ELSE [ok |-> got.ok /\ Len(got.values) >= n, values |-> got.values]

(* ------------------------------ all formats ------------------------------ *)

DataJobs == MCJobs \o MetadataJobs \o <<Packed>>
Compressed == {"lz4", "snappy"}
Described == {"page_header", "future_header", "file_metadata", "legacy", "column_index", "offset_index", "bloom"}

DataEncoded(j) ==
    LET coded == IF j.kind \in Compressed THEN CodecEncoded(j)
                 ELSE IF j.kind \in Described THEN MetadataEncoded(j) ELSE MCEncoded(j)
    IN  coded
DataDecoded(j, bytes) ==
    LET made == IF j.kind \in Compressed THEN CodecDecoded(j, bytes)
                ELSE IF j.kind \in Described THEN MetadataDecoded(j, bytes) ELSE MCDecoded(j, bytes)
    IN  made

(* --------------------------- the dispatch table -------------------------- *)

MCMachines ==
    {[arch |-> "none", advertised |-> {}, os |-> "none"],
     [arch |-> "arm", advertised |-> {"sve"}, os |-> "none"],
     [arch |-> "x86", advertised |-> {"sse", "avx", "avx2", "avx512"}, os |-> "ymm"],
     [arch |-> "x86", advertised |-> {"sse", "avx", "avx2", "avx512"}, os |-> "zmm"]}

\* Two kernels of builds the package does not make disagree with the scalar code
\* and are left out: the run length of SVE, and the wide unpacks of AVX-512, whose
\* entries another thread can be rewriting (README, section 5).
MCKernelsOn(m) ==
    CASE m.arch = "x86" -> (ScalarEntries \cup Unpack8 \cup Wide)
                              \ (IF m.os = "zmm" THEN {"bitunpack_wide_4", "bitunpack_wide_8"} ELSE {})
      [] m.arch = "arm" -> (ScalarEntries \cup Unpack8 \cup Wide) \ {"find_run_length_i32"}
      [] m.arch = "none" -> {"find_run_length_i32", "checked_gather_i32", "bitunpack8_3", "bitunpack_wide_4"}

MCKernel(tier, in) ==
    CASE tier = "scalar" -> Scalar(in) [] tier = "neon" -> Neon(in) [] tier = "sve" -> Sve(in)
      [] tier = "sse" -> Sse(in) [] tier = "avx" -> Avx(in) [] tier = "avx2" -> Avx2(in)
      [] tier = "avx512" -> Avx512(in)

Counts == {0, 5, 17, 35}
LongCounts == Counts \cup {70}
Seq3(n) == [i \in 1..n |-> (i * i + 2) % 3]
ByteAt(i) == (i * 37 + 11) % 256
Value(i, width) == [b \in 1..width |-> ByteAt(i * width + b)]
WidthOf(k) == CASE k \in {"bitunpack8_1", "bitunpack_wide_1"} -> 1
                [] k = "bitunpack8_2" -> 2 [] k = "bitunpack8_3" -> 3
                [] k \in {"bitunpack8_4", "bitunpack_wide_4"} -> 4
                [] k = "bitunpack8_5" -> 5 [] k = "bitunpack8_6" -> 6 [] k = "bitunpack8_7" -> 7
                [] k \in {"bitunpack8_8", "bitunpack_wide_8"} -> 8
                [] k \in {"bitunpack8_16", "bitunpack_wide_16"} -> 16

\* The greatest and the smallest value stand at every place in turn.
Peaks(n) == {[i \in 1..n |-> IF i = p THEN 9 ELSE IF i = q THEN -9 ELSE Seq3(n)[i]] :
                p \in {1, n \div 2 + 1, n}, q \in {1, 3, n}}

MCInputsOf(k) ==
    CASE k \in PrefixSums -> {[kernel |-> k, values |-> Seq3(n), initial |-> 5, word |-> 16] : n \in Counts}
      [] k \in Gathers -> {[kernel |-> k, dict |-> <<7, 8, 9>>, indices |-> Seq3(n)] : n \in Counts}
      [] k \in CheckedGathers ->
            {[kernel |-> k, dict |-> d, indices |-> [i \in 1..n |-> IF i = bad THEN 3 ELSE Seq3(n)[i]]] :
                n \in Counts, bad \in {0, 1, 17, 35}, d \in {<<>>, <<7, 8, 9>>}}
      [] k \in {"byte_split_encode_float", "byte_split_encode_double"} ->
            LET w == IF k = "byte_split_encode_float" THEN 4 ELSE 8
            IN  {[kernel |-> k, width |-> w, values |-> [i \in 1..n |-> Value(i, w)]] : n \in Counts}
      [] k \in {"byte_split_decode_float", "byte_split_decode_double"} ->
            LET w == IF k = "byte_split_decode_float" THEN 4 ELSE 8
            IN  {[kernel |-> k, width |-> w, count |-> n, data |-> [i \in 1..w * n |-> ByteAt(i)]] : n \in Counts}
      [] k = "unpack_bools" -> {[kernel |-> k, count |-> n, input |-> Value(1, 9)] : n \in LongCounts}
      [] k = "pack_bools" -> {[kernel |-> k, input |-> Seq3(n)] : n \in LongCounts}
      [] k = "find_run_length_i32" ->
            {[kernel |-> k, values |-> [i \in 1..n |-> IF i > run THEN i % 2 ELSE 0]] :
                n \in Counts, run \in {0, 1, 3, 4, 8, 15, 17, 34}}
      [] k = "match_length" ->
            {[kernel |-> k, p |-> Seq3(n), match |-> [i \in 1..n |-> IF i = d THEN 5 ELSE Seq3(n)[i]]] :
                n \in Counts, d \in {0, 1, 8, 9, 16, 17, 35}}
      [] k = "match_copy" ->
            {[kernel |-> k, mem |-> [i \in 1..40 |-> i], offset |-> o, len |-> n] :
                n \in {0, 1, 5, 8, 16}, o \in {3, 5, 6, 7}}
            \cup {[kernel |-> k, mem |-> [i \in 1..40 |-> i], offset |-> o, len |-> n] :
                n \in Counts, o \in {1, 2, 4, 8, 9, 16, 20, 32, 40}}
      [] k \in {"count_non_nulls", "build_null_bitmap"} -> {[kernel |-> k, levels |-> Seq3(n), max |-> 2] : n \in Counts}
      [] k = "fill_def_levels" -> {[kernel |-> k, count |-> n, value |-> 3] : n \in LongCounts}
      [] k \in Minmaxes \cup CopyMinmaxes -> {[kernel |-> k, values |-> v] : v \in UNION {Peaks(n) : n \in {1, 5, 9, 18}}}
      [] k \in Unpack8 -> {[kernel |-> k, width |-> WidthOf(k), count |-> 8, input |-> Value(j, 16)] : j \in 1..3}
      [] k \in Wide -> {[kernel |-> k, width |-> WidthOf(k), count |-> n, input |-> Value(1, 2 * n)] : n \in Counts}

(* ------------------------------ the columns ------------------------------ *)

(* The columns that Materialize reads: every mapping of the plan, with the     *)
(* values at the ends of the ranges, nulls, and the three paths.               *)

MCPerSecond == [millis |-> 2, micros |-> 4, nanos |-> 8]
\* An hour east of UTC, with a gap at civil time 3.
MCZoneInstant(tz, s) == IF s = NA THEN NA ELSE IF s[1] = 3 * s[2] THEN NA ELSE <<s[1] - s[2], s[2]>>

LeafLike(physical, logical, def) ==
    [physical |-> physical, logical |-> logical, type_length |-> 0, max_def |-> def, nested |-> FALSE,
     width |-> IF physical = "INT32" THEN Int32Bits ELSE Int64Bits]
Fixed_(logical, length, def) == [LeafLike("FIXED_LEN_BYTE_ARRAY", logical, def) EXCEPT !.type_length = length]
Plain_(id) == [id |-> id]
Int_(width, signed) == [id |-> "INTEGER", bit_width |-> width, is_signed |-> signed]
Clock(id, unit, utc) == [id |-> id, unit |-> unit, is_adjusted_to_utc |-> utc]
Decimal(scale) == [id |-> "DECIMAL", precision |-> 9, scale |-> scale]

Options == [int64 : {"double", "integer64"}, time : {"numeric", "hms"}, tz : {"UTC", "Zone_A"}]
Default == [int64 |-> "double", time |-> "numeric", tz |-> "UTC"]
Exact == [Default EXCEPT !.int64 = "integer64"]
Away == [Default EXCEPT !.tz = "Zone_A"]

Upto(S, n) == UNION {[1..k -> S] : k \in 0..n}
Reads(leaves, options, values, n) ==
    LET of(l) == Upto(IF l.max_def = 0 THEN values ELSE values \cup {Null}, n)
        one(l, rows) == [leaf : {l}, options : options, rows : {rows}, coded : {0}, walk : BOOLEAN, batch_size : {1, 2}]
    IN  UNION {UNION {one(l, rows) : rows \in of(l)} : l \in leaves}
BothOf(f(_)) == {f(0), f(1)}

INT32_MAX == -NA_INTEGER - 1
INT64_MAX == -INT64_MIN - 1
Ends32 == {NA_INTEGER, -1, 0, INT32_MAX}
Ends64 == {INT64_MIN, -QIO_DOUBLE_EXACT_MAX - 1, -QIO_DOUBLE_EXACT_MAX, -1, 2, QIO_DOUBLE_EXACT_MAX,
           QIO_DOUBLE_EXACT_MAX + 1, QIO_DOUBLE_EXACT_MAX + 3, INT64_MAX}

Numeric ==
    <<Reads(BothOf(LAMBDA d : LeafLike("BOOLEAN", NA, d)), {Default}, {0, 1}, 3),
      Reads({LeafLike("INT32", l, d) : l \in {NA, Plain_("DATE"), Int_(8, TRUE), Int_(32, TRUE), Int_(16, FALSE)},
                                   d \in {0, 1}} , {Default}, Ends32 \ {-1}, 2),
      Reads({LeafLike("INT32", Int_(32, FALSE), d) : d \in {0, 1}}, {Default}, Ends32, 3),
      Reads({LeafLike("INT64", l, 1) : l \in {NA, Int_(64, TRUE), Int_(64, FALSE)}}, {Default, Exact}, Ends64, 2),
      Reads({LeafLike("INT64", Clock("TIMESTAMP", u, z), 1) : u \in Units, z \in BOOLEAN}, {Default, Away},
            {INT64_MIN, -QIO_DOUBLE_EXACT_MAX - 1, -1, 2, 6, QIO_DOUBLE_EXACT_MAX + 1}, 2),
      Reads({LeafLike("INT32", Clock("TIME", "MILLIS", TRUE), 1), LeafLike("INT64", Clock("TIME", "NANOS", TRUE), 0)},
            {Default, [Default EXCEPT !.time = "hms"]}, {-1, 0, 5, 2 * SecondsPerDay - 1, 2 * SecondsPerDay}, 2),
      Reads({LeafLike("INT32", Decimal(2), 1), LeafLike("INT64", Decimal(1), 0)}, {Default}, {-7, 0, 5}, 2),
      Reads({LeafLike("INT96", NA, 1)}, {Default}, [nanos : {0, 3}, day : EpochDay - 1..EpochDay + 1], 2),
      Reads({LeafLike(p, NA, d) : p \in {"FLOAT", "DOUBLE"}, d \in {0, 1}}, {Default}, {NaN, Inf, <<1, 2>>}, 2),
      Reads({LeafLike("INT32", Plain_("NULL"), 1), LeafLike("BYTE_ARRAY", Plain_("NULL"), 1)}, {Default}, {}, 2)>>

Uuid == [k \in 1..16 |-> (k * 37) % 256]
Binary ==
    <<Reads({LeafLike("BYTE_ARRAY", Decimal(1), 1)}, {Default}, {<<127>>, <<128>>, <<255, 1>>, <<1, 0>>}, 2),
      Reads({Fixed_(Decimal(0), 2, 0)}, {Default}, {<<127, 255>>, <<128, 0>>}, 2),
      Reads({LeafLike("BYTE_ARRAY", l, 1) : l \in {NA, Plain_("BSON")}}, {Default}, {<<>>, <<0>>, <<255, 7>>}, 3),
      Reads({Fixed_(Plain_("UUID"), 16, 1)}, {Default}, {Uuid}, 3),
      Reads({Fixed_(Plain_("UUID"), 2, 0)}, {Default}, {<<1, 2>>}, 1),
      Reads({Fixed_(Plain_("FLOAT16"), 2, 1)}, {Default},
            {<<0, 0>>, <<1, 0>>, <<255, 3>>, <<0, 4>>, <<0, 188>>, <<255, 123>>, <<0, 124>>, <<1, 252>>, <<0, 252>>}, 2),
      Reads({Fixed_(Plain_("FLOAT16"), 3, 1)}, {Default}, {<<0, 0, 1>>}, 1),
      Reads({Fixed_(NA, 1, 1)}, {Default}, {<<0>>, <<9>>}, 2)>>

\* Bytes at the edges of the ranges of UTF-8.
Leads == {65, 128, 193, 194, 224, 237, 239, 240, 244, 245}
Follows == {0, 65, 127, 128, 143, 144, 159, 160, 191, 194}
Sequences ==
    {<<a>> : a \in Leads} \cup (Leads \X Follows) \cup (Leads \X Follows \X {65, 128, 191})
      \cup ({240, 241, 244, 245} \X {128, 143, 144, 191} \X {127, 128, 191} \X {128, 192})
      \cup {<<65, 66, 67, 194, 128>>, <<65, 66, 195>>, <<195, 128, 65, 66, 67, 237>>}
Text(rows, coded, sizes, walks) ==
    [leaf : {LeafLike("BYTE_ARRAY", Plain_("STRING"), 1)}, options : {Default}, rows : {rows}, coded : {coded},
     walk : walks, batch_size : sizes]
TextWords == {<<65>>, <<66>>, <<>>}
TextReads ==
    <<UNION {Text(<<b>>, k, {1}, BOOLEAN) : b \in Sequences, k \in {0, 1}},
      UNION {UNION {Text(rows, k, {1, 2, 4}, {FALSE}) : k \in {0, 2, 4}} : rows \in [1..4 -> TextWords \cup {Null}]},
      UNION {Text(rows, 0, {1, 2}, {TRUE}) : rows \in [1..2 -> TextWords \cup {Null}]}>>

MCReadColumns == Numeric \o Binary \o TextReads

(* The frames that WriteColumns writes: every class with every declaration,   *)
(* the values at the ends of the ranges, and a second frame to append.        *)

Spec_(type, repetition) == [type |-> type, unit |-> "absent", utc |-> "absent", repetition |-> repetition]
StampOf(unit, utc, repetition) == [type |-> "TIMESTAMP", unit |-> unit, utc |-> utc, repetition |-> repetition]
Types == {"AUTO", "BOOLEAN", "INT32", "INT64", "FLOAT", "DOUBLE", "STRING", "DATE", "DECIMAL"}
Scalars == {Spec_(t, r) : t \in Types, r \in Repetitions}
Stamps == {StampOf(u, z, "AUTO") : u \in {"absent", "MILLIS", "NANOS", "SECONDS"}, z \in {"absent", "true", "false"}}
Timed == {StampOf("MILLIS", "absent", "OPTIONAL"), [StampOf("MILLIS", "absent", "AUTO") EXCEPT !.type = "INT64"]}
Specs == Scalars \cup Stamps \cup Timed
NoSchema == <<>>
Named(spec) == <<[name |-> "a", spec |-> spec]>>
Schemas == {NoSchema} \cup {Named(s) : s \in Specs}

Rows_(S, n) == UNION {[1..k -> S] : k \in 0..n}
Column_(class, values) == [class |-> class, values |-> values]
Frame_(columns, schema) == [names |-> SubSeq(<<"a", "b">>, 1, Len(columns)), columns |-> columns, schema |-> schema,
                            sorted_by |-> <<>>]
One(classes, S, n, schemas) == {Frame_(<<Column_(c, v)>>, s) : c \in classes, v \in Rows_(S, n), s \in schemas}
Alone(F) == {<<f>> : f \in F}

Largest == -NA_INTEGER - 1
Whole_ == {NA, Number(NA_INTEGER), Number(NA_INTEGER - 1), Number(0), Number(Largest), Number(Largest + 1),
           Number(QIO_DOUBLE_EXACT_MAX), Number(QIO_DOUBLE_EXACT_MAX + 1), Number(2^FloatBits + 1)}
DoublesOf == Whole_ \cup {NaN, Inf, <<3, 2>>}
Integers_ == {NA, Number(NA_INTEGER + 1), Number(0), Number(Largest)}
Seconds == {NA, NaN, Inf, <<0, 1>>, <<-5, 16>>, <<3, 16>>, Number(-4), Number(4), Number(8), Number(16)}
Strings_ == {NA} \cup {[bytes |-> b, enc |-> "latin1"] : b \in {<<65, 233>>}}
              \cup {[bytes |-> b, enc |-> "UTF-8"] : b \in {<<>>, <<65>>, <<195, 169>>}}
              \cup {[bytes |-> <<255>>, enc |-> "bytes"]}

\* Two frames to one path: the second in the units, the class or the nullability of the first, or not.
Few(class, S, specs) == One({class}, S, 2, {NoSchema} \cup {Named(s) : s \in specs})
Reps(type) == {Spec_(type, r) : r \in {"REQUIRED", "OPTIONAL"}}
Pairs(F) == F \X F
Twice ==
    <<Pairs(Few("POSIXct", {NA, <<1, 2>>}, {StampOf(u, "absent", "AUTO") : u \in Units})),
      Pairs(Few("double", {NA, Number(1)}, Reps("INT32") \cup Reps("DOUBLE") \cup {Spec_("DATE", "AUTO")})
              \cup Few("Date", {NA, Number(1)}, {}) \cup Few("integer", {NA, Number(1)}, {})),
      Pairs(Few("factor", {NA, [bytes |-> <<65>>, enc |-> "UTF-8"]}, Reps("STRING")))>>

\* Two columns: a declaration, and a sort order, by name.
Sort_(name) == [column |-> name, descending |-> TRUE, nulls_first |-> FALSE]
WideFrames ==
    {[names |-> n, columns |-> <<Column_("integer", <<Number(1), NA>>), Column_("double", <<Number(0), NaN>>)>>,
      schema |-> s, sorted_by |-> o] :
        n \in {<<"a", "b">>, <<"b", "a">>, <<"a", "a">>},
        s \in {NoSchema, Named(Spec_("INT64", "AUTO")), <<[name |-> "z", spec |-> Spec_("INT64", "AUTO")]>>,
               <<[name |-> "b", spec |-> Spec_("FLOAT", "OPTIONAL")], [name |-> "a", spec |-> Spec_("AUTO", "OPTIONAL")]>>},
        o \in {<<>>, <<Sort_("b")>>, <<Sort_("a"), Sort_("b")>>, <<Sort_("a"), Sort_("a")>>, <<Sort_("c")>>}}

MCWrittenFrames ==
    <<Alone(One({"logical"}, {TRUE, FALSE, NA}, 2, Schemas)),
      Alone(One({"double"}, DoublesOf, 1, Schemas)), Alone(One({"double"}, {NA, Number(0), NaN, <<3, 2>>}, 2, Schemas)),
      Alone(One({"integer"}, Integers_, 2, Schemas)),
      Alone(One({"Date"}, Whole_ \cup {NaN}, 1, Schemas)), Alone(One({"POSIXct"}, Seconds, 1, Schemas)),
      Alone(One({"POSIXct"}, {NA, NaN, <<3, 16>>, Number(4)}, 2, Schemas)),
      Alone(One({"character", "factor"}, Strings_, 2, {NoSchema} \cup {Named(s) : s \in Reps("STRING") \cup Reps("INT32")})),
      Alone(One({"complex"}, {NA}, 1, Schemas)),
      Alone(WideFrames)>> \o Twice

(* Instances of Statistics: the orders and the odd values of each type. *)

StatColumn(type, logical) ==
  [type |-> type, logical |-> logical, in_variant |-> FALSE,
   length |-> IF type = "FIXED" THEN 2 ELSE 0,
   converted |-> IF logical = "UINT" THEN "UINT_32" ELSE "NONE"]

MCStatColumns ==
  {StatColumn("INT32", "NONE"), StatColumn("INT32", "UINT"), StatColumn("INT64", "NONE"),
   StatColumn("FLOAT", "NONE"), StatColumn("DOUBLE", "NONE"), StatColumn("FIXED", "FLOAT16"),
   StatColumn("FIXED", "NONE"), StatColumn("BYTE_ARRAY", "STRING"), StatColumn("BOOLEAN", "NONE"),
   StatColumn("INT96", "NONE"), StatColumn("BYTE_ARRAY", "GEOMETRY"),
   [StatColumn("BYTE_ARRAY", "NONE") EXCEPT !.in_variant = TRUE]}

ZeroValues(n) == [i \in 1..n |-> 0]
\* 0, 1, -1 (or the greatest) and the least (or the middle)
IntegerValues(n) ==
  {ZeroValues(n), [ZeroValues(n) EXCEPT ![1] = 1], [i \in 1..n |-> 255], [ZeroValues(n) EXCEPT ![n] = 128]}
\* 0, -0, 1, -2 and NaN; fewer of the wide ones
Floats(n) ==
  LET top(a, b) == [ZeroValues(n) EXCEPT ![n] = a, ![n - 1] = b]
  IN  IF n = 4 THEN {top(0, 0), top(128, 0), top(63, 128), top(192, 0), top(127, 192)}
      ELSE {top(0, 0), top(63, 240), top(127, 248)}
\* 0, the least subnormal, a negative one, 1, NaN
HalfValues == {<<0, 0>>, <<1, 0>>, <<255, 131>>, <<0, 60>>, <<0, 126>>}
WordValues == {<<1>>, <<1, 255, 9>>, <<255, 255, 1>>, <<2>>}

MCStatValues(c) ==
  LET sets == [INT32 |-> IntegerValues(4), INT64 |-> {ZeroValues(8), [i \in 1..8 |-> 255]}, FLOAT |-> Floats(4),
               DOUBLE |-> Floats(8), BYTE_ARRAY |-> WordValues, BOOLEAN |-> {<<0>>, <<1>>},
               INT96 |-> {ZeroValues(12), [ZeroValues(12) EXCEPT ![12] = 1]},
               FIXED |-> IF c.logical = "FLOAT16" THEN HalfValues ELSE {<<0, 1>>, <<1, 0>>, <<200, 0>>}]
  IN  sets[c.type]

MCWellFormed(bytes) == qio_utf8_invalid_at(bytes) = 0

(* The columns and the batches of the data pages. *)

\* A codec that is exact and puts a byte in front.
MCPack(codec, bytes) == LET packed == <<7>> \o bytes IN packed
MCUnpack(codec, bytes, capacity) ==
    LET fits == bytes # <<>> /\ Len(bytes) - 1 <= capacity
    IN  [ok |-> IF fits THEN bytes[1] = 7 ELSE FALSE, out |-> SubSeq(bytes, 2, Len(bytes))]

PageColumn(type, width, encoding, max_def, max_rep, v2, codec, crc) ==
    [type |-> type, width |-> width, encoding |-> encoding, max_def |-> max_def, max_rep |-> max_rep,
     v2 |-> v2, codec |-> codec, crc |-> crc, dict |-> FALSE, limit |-> 0, foreign |-> FALSE]
Indexed(type, width, max_def, v2, codec, limit) ==
    [PageColumn(type, width, "PLAIN", max_def, 0, v2, codec, TRUE) EXCEPT !.dict = TRUE, !.limit = limit]
Foreign == [PageColumn("BOOLEAN", 1, "RLE", 1, 1, FALSE, "UNCOMPRESSED", FALSE) EXCEPT !.foreign = TRUE]

MCPageColumns == {
    PageColumn("BOOLEAN", 1, "PLAIN", 1, 0, FALSE, "UNCOMPRESSED", TRUE),
    PageColumn("BOOLEAN", 1, "PLAIN", 0, 0, TRUE, "SNAPPY", FALSE),
    PageColumn("INT32", 4, "PLAIN", 0, 0, FALSE, "UNCOMPRESSED", TRUE),
    PageColumn("INT64", 8, "PLAIN", 0, 0, FALSE, "ZSTD", FALSE),
    PageColumn("INT32", 4, "PLAIN", 1, 0, TRUE, "SNAPPY", TRUE),
    PageColumn("INT32", 4, "PLAIN", 2, 1, FALSE, "UNCOMPRESSED", FALSE),
    PageColumn("INT32", 4, "PLAIN", 2, 1, TRUE, "LZ4_RAW", TRUE),
    PageColumn("INT64", 8, "DELTA_BINARY_PACKED", 1, 0, FALSE, "UNCOMPRESSED", FALSE),
    PageColumn("BYTE_ARRAY", 0, "PLAIN", 1, 0, FALSE, "UNCOMPRESSED", TRUE),
    PageColumn("BYTE_ARRAY", 0, "PLAIN", 0, 0, FALSE, "SNAPPY", FALSE),
    PageColumn("BYTE_ARRAY", 0, "PLAIN", 1, 0, TRUE, "GZIP", TRUE),
    PageColumn("BYTE_ARRAY", 0, "DELTA_LENGTH_BYTE_ARRAY", 1, 0, FALSE, "SNAPPY", FALSE),
    PageColumn("BYTE_ARRAY", 0, "DELTA_BYTE_ARRAY", 1, 0, TRUE, "UNCOMPRESSED", FALSE),
    PageColumn("FIXED", 2, "DELTA_BYTE_ARRAY", 0, 0, FALSE, "LZO", FALSE),
    PageColumn("FLOAT", 4, "BYTE_STREAM_SPLIT", 1, 0, FALSE, "UNCOMPRESSED", TRUE),
    Indexed("INT32", 4, 1, FALSE, "SNAPPY", 0), Indexed("INT32", 4, 0, TRUE, "UNCOMPRESSED", 4),
    Indexed("BYTE_ARRAY", 0, 1, TRUE, "SNAPPY", 0), Foreign}

PageValue(c, v) == CASE c.type = "BOOLEAN" -> v % 2
                 [] c.encoding = "DELTA_BINARY_PACKED" -> v * 5 - 7
                 [] c.type = "BYTE_ARRAY" -> SubSeq(<<9, 9, v>>, 1, v)
                 [] OTHER -> [b \in 1..c.width |-> v + b]
Batch(c, values, defs, reps, n) ==
    [values |-> [i \in DOMAIN values |-> PageValue(c, values[i])], defs |-> defs, reps |-> reps, n |-> n]

MCPageBatches(c) ==
    LET kinds ==
        CASE c.max_rep = 1 /\ c.max_def = 2 ->
               {Batch(c, <<1, 2>>, <<2, 2, 1>>, <<0, 1, 0>>, 3), Batch(c, <<>>, <<0>>, <<0>>, 1)}
          [] c.max_rep = 1 -> {Batch(c, <<1, 0, 1, 1>>, <<1, 1, 0, 1, 1>>, <<0, 1, 0, 0, 1>>, 5),
                               Batch(c, <<>>, <<0>>, <<0>>, 1)}
          [] c.max_def = 1 -> {Batch(c, <<1, 2>>, <<>>, <<>>, 2),
                               Batch(c, <<1, 1, 2, 3, 1>>, <<1, 0, 1, 1, 0, 0, 1, 0, 1>>, <<>>, 9)}
                              \cup (IF c.v2 THEN {} ELSE {Batch(c, <<>>, <<0, 0>>, <<>>, 2)})
          [] OTHER -> {Batch(c, <<1>>, <<>>, <<>>, 1), Batch(c, <<2, 3, 1, 1, 2, 3, 3, 1, 2>>, <<>>, <<>>, 9)}
    IN  kinds

MCLoad(r, c, laid, stale) == LET got == load_next_page(r, c, laid, stale) IN got

(* Bloom filters: four salts, hashes that collide, numbers and text without a class. *)

MCSALT == <<11, 29, 39, 53>>
MCHash(v) == [top |-> (v * 23 + 7) % 64, key |-> (v * 45 + 13) % 64]
MCPlain == [sexp : {"INTSXP", "REALSXP"}, class : {"numeric"}, number : ColumnValues, na : BOOLEAN]
            \cup [sexp : {"STRSXP"}, class : {"character"}, number : ColumnValues, na : BOOLEAN]

(* The columns and groups of schemas. *)

MCColumn(name, type, logical, length) == [name |-> name, type |-> type, logical |-> logical, length |-> length]

MCColumns ==
    {MCColumn(<<"a">>, "INT64", [id |-> "TIMESTAMP", unit |-> "MICROS"], 0),
     MCColumn(<<"a", "a">>, "FIXED_LEN_BYTE_ARRAY", NoLogical, 0),
     MCColumn(<<"b">>, "FIXED_LEN_BYTE_ARRAY", [id |-> "DECIMAL", precision |-> 3, scale |-> 0], 1)}

MCGroupNames == {<<"a">>}

MCCoercions == {[to |-> "none", truncate |-> FALSE], [to |-> "MILLIS", truncate |-> FALSE],
                [to |-> "MILLIS", truncate |-> TRUE], [to |-> "NANOS", truncate |-> FALSE]}

MCInstants == {-3, 2, 4}
MCGroupRows == <<2, 3>>

(* Two columns whose default encodings differ, the options and setters that change
   them, and batches that keep, outgrow or never fill a dictionary. *)

MCLeafTypes == <<"DOUBLE", "BYTE_ARRAY">>
MCOptionChoices ==
    {[carquet_writer_options_init EXCEPT !.compression = codec, !.write_bloom_filters = more,
                                         !.write_statistics = ~more, !.write_page_index = more,
                                         !.data_page_version = IF more THEN 2 ELSE 1]
        : codec \in {"UNCOMPRESSED", "LZ4"}, more \in BOOLEAN}
MCSetterCalls ==
    [set : {"encoding"}, column : {1}, value : {"RLE_DICTIONARY", "DELTA_BINARY_PACKED"}]
    \cup [set : {"encoding"}, column : {2}, value : {"PLAIN_DICTIONARY", "PLAIN"}]
    \cup [set : {"compression"}, column : {1}, value : {"UNCOMPRESSED", "LZ4"}]
    \cup [set : {"bloom_options"}, column : {1}, value : BOOLEAN]
    \cup [set : {"statistics", "bloom"}, column : {1}, value : {FALSE}]
MCRowBatches == {<<"repeats", "distinct">>, <<"nulls", "repeats">>, <<"distinct", "wide">>}

(* ------------------------------- the parts ------------------------------- *)

\* The parts that are idle while one of them runs.
FormatsIdle == FormatIdle /\ DispatchIdle /\ BloomIdle
ColumnsIdle == MaterializeIdle /\ WriteIdle
ChunksIdle == StatIdle /\ PageIdle /\ SchemaIdle /\ OptionsIdle
SessionIdle == HandleIdle /\ CreateIdle

Init ==
    \/ FormatInit /\ DispatchIdle /\ BloomIdle /\ ColumnsIdle /\ ChunksIdle /\ SessionIdle
    \/ FormatIdle /\ DispatchInit /\ BloomIdle /\ ColumnsIdle /\ ChunksIdle /\ SessionIdle
    \/ FormatIdle /\ DispatchIdle /\ BloomInit /\ ColumnsIdle /\ ChunksIdle /\ SessionIdle
    \/ FormatsIdle /\ MaterializeInit /\ WriteIdle /\ ChunksIdle /\ SessionIdle
    \/ FormatsIdle /\ WriteInit /\ ChunksIdle /\ SessionIdle
    \/ FormatsIdle /\ ColumnsIdle /\ StatInit /\ PageIdle /\ SchemaIdle /\ OptionsIdle /\ SessionIdle
    \/ FormatsIdle /\ ColumnsIdle /\ StatIdle /\ PageInit /\ SchemaIdle /\ OptionsIdle /\ SessionIdle
    \/ FormatsIdle /\ ColumnsIdle /\ StatIdle /\ PageIdle /\ SchemaInit /\ OptionsIdle /\ SessionIdle
    \/ FormatsIdle /\ ColumnsIdle /\ StatIdle /\ PageIdle /\ SchemaIdle /\ OptionsInit /\ SessionIdle
    \/ FormatsIdle /\ ColumnsIdle /\ ChunksIdle /\ HandleInit /\ CreateIdle
    \/ FormatsIdle /\ ColumnsIdle /\ ChunksIdle /\ HandleIdle /\ CreateInit

formatsVars == <<formatVars, dispatchVars, bloomVars>>
columnsVars == <<materializeVars, writeVars>>
chunksVars == <<statVars, pageVars, schemaVars, optionVars>>
sessionVars == <<handleVars, createVars>>

FormatStep == FormatNext /\ UNCHANGED <<dispatchVars, bloomVars, columnsVars, chunksVars, sessionVars>>
DispatchStep == DispatchNext /\ UNCHANGED <<formatVars, bloomVars, columnsVars, chunksVars, sessionVars>>
BloomStep == BloomNext /\ UNCHANGED <<formatVars, dispatchVars, columnsVars, chunksVars, sessionVars>>
ReadStep == frames = <<>> /\ MaterializeNext /\ UNCHANGED <<writeVars, formatsVars, chunksVars, sessionVars>>
WriteStep == WriteNext /\ UNCHANGED <<formatsVars, chunksVars, sessionVars>>
StatStep == StatNext /\ UNCHANGED <<formatsVars, columnsVars, pageVars, schemaVars, optionVars, sessionVars>>
PageStep == PageNext /\ UNCHANGED <<formatsVars, columnsVars, statVars, schemaVars, optionVars, sessionVars>>
SchemaStep == SchemaNext /\ UNCHANGED <<formatsVars, columnsVars, statVars, pageVars, optionVars, sessionVars>>
OptionsStep == OptionsNext /\ UNCHANGED <<formatsVars, columnsVars, statVars, pageVars, schemaVars, sessionVars>>
HandleStep == HandleNext /\ UNCHANGED <<formatsVars, columnsVars, chunksVars, createVars>>
CreateStep == CreateNext /\ UNCHANGED <<formatsVars, columnsVars, chunksVars, handleVars>>

Next ==
    \/ FormatStep \/ DispatchStep \/ BloomStep \/ ReadStep \/ WriteStep \/ StatStep \/ PageStep
    \/ SchemaStep \/ OptionsStep \/ HandleStep \/ CreateStep

Spec == Init /\ [][Next]_<<formatsVars, columnsVars, chunksVars, sessionVars>>
=============================================================================
