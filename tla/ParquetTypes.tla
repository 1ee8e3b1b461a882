---------------------------- MODULE ParquetTypes ----------------------------
(***************************************************************************)
(* The footer and the page headers: src/carquet/thrift/parquet_types.c.    *)
(* A C structure is a record; the fields with a has_ flag are in its       *)
(* domain when the flag is set.  A union (a logical type, a time unit) is  *)
(* a record with the one member it holds, or with none when the parser did *)
(* not know the member.  A string is a sequence of bytes.  parse_x and     *)
(* write_x are the layouts by which the functions of that name read and    *)
(* write: the two lists are separate, as in the code.                      *)
(***************************************************************************)
EXTENDS Thrift

MAX_SCHEMA_ELEMENTS == 10000
MAX_ROW_GROUPS == 100000
MAX_COLUMNS_PER_RG == 10000
MAX_KEY_VALUE_PAIRS == 10000
MAX_ENCODINGS == 100
MAX_PATH_ELEMENTS == 100
GEO_MAX_TYPES == 64
Unlimited == 2^30
i32 == AnInt(I32)
i64 == AnInt(I64)

(* ------------------------------ statistics ------------------------------ *)

\* No bound and an empty bound are the same thing in memory.
parse_statistics ==
    <<Zeroed(1, "max_deprecated", ABinary, <<>>), Zeroed(2, "min_deprecated", ABinary, <<>>),
      IfSet(3, "null_count", i64), IfSet(4, "distinct_count", i64),
      Zeroed(5, "max_value", ABinary, <<>>), Zeroed(6, "min_value", ABinary, <<>>),
      IfSet(7, "is_max_value_exact", ABool), IfSet(8, "is_min_value_exact", ABool)>>

write_statistics ==
    <<Zeroed(1, "max_deprecated", ABinary, <<>>), Zeroed(2, "min_deprecated", ABinary, <<>>),
      IfSet(3, "null_count", i64), IfSet(4, "distinct_count", i64),
      Zeroed(5, "max_value", ABinary, <<>>), Zeroed(6, "min_value", ABinary, <<>>),
      IfSet(7, "is_max_value_exact", ABool), IfSet(8, "is_min_value_exact", ABool)>>

(* ----------------------------- logical types ---------------------------- *)

TimeUnit == AStruct(<<IfSet(1, "MILLIS", AnEmptyStruct), IfSet(2, "MICROS", AnEmptyStruct),
                      IfSet(3, "NANOS", AnEmptyStruct)>>)
Millis == [MILLIS |-> <<>>]

parse_logical_type ==
    LET empty(id, name) == IfSet(id, name, AnEmptyStruct)
        time(id, name) == IfSet(id, name, AStruct(<<Zeroed(1, "is_adjusted_to_utc", ABool, FALSE),
                                                      Zeroed(2, "unit", TimeUnit, Millis)>>))
    IN  <<empty(1, "STRING"), empty(2, "MAP"), empty(3, "LIST"), empty(4, "ENUM"),
          IfSet(5, "DECIMAL", AStruct(<<Zeroed(1, "scale", i32, 0), Zeroed(2, "precision", i32, 0)>>)),
          empty(6, "DATE"), time(7, "TIME"), time(8, "TIMESTAMP"),
          IfSet(10, "INTEGER", AStruct(<<Zeroed(1, "bit_width", AByte, 0), Zeroed(2, "is_signed", ABool, FALSE)>>)),
          empty(11, "NULL"), empty(12, "JSON"), empty(13, "BSON"), empty(14, "UUID"), empty(15, "FLOAT16"),
          IfSet(16, "VARIANT", AStruct(<<Zeroed(1, "specification_version", AByte, 1)>>)),
          IfSet(17, "GEOMETRY", AStruct(<<Zeroed(1, "crs", ABinary, <<>>)>>)),
          IfSet(18, "GEOGRAPHY", AStruct(<<Zeroed(1, "crs", ABinary, <<>>), IfSet(2, "algorithm", i32)>>))>>

write_logical_type ==
    LET empty(id, name) == IfSet(id, name, AnEmptyStruct)
        time(id, name) == IfSet(id, name, AStruct(<<Always(1, "is_adjusted_to_utc", ABool),
                                                      Always(2, "unit", TimeUnit)>>))
    IN  <<empty(1, "STRING"), empty(2, "MAP"), empty(3, "LIST"), empty(4, "ENUM"),
          IfSet(5, "DECIMAL", AStruct(<<Always(1, "scale", i32), Always(2, "precision", i32)>>)),
          empty(6, "DATE"), time(7, "TIME"), time(8, "TIMESTAMP"),
          IfSet(10, "INTEGER", AStruct(<<Always(1, "bit_width", AByte), Always(2, "is_signed", ABool)>>)),
          empty(11, "NULL"), empty(12, "JSON"), empty(13, "BSON"), empty(14, "UUID"), empty(15, "FLOAT16"),
          IfSet(16, "VARIANT", AStruct(<<Always(1, "specification_version", AByte)>>)),
          IfSet(17, "GEOMETRY", AStruct(<<Zeroed(1, "crs", ABinary, <<>>)>>)),
          IfSet(18, "GEOGRAPHY", AStruct(<<Zeroed(1, "crs", ABinary, <<>>), IfSet(2, "algorithm", i32)>>))>>

Bare(name) == [n \in {name} |-> <<>>]      \* a logical type without parameters
Integer(width, signed) == [INTEGER |-> [bit_width |-> width, is_signed |-> signed]]
TimeOf(name, unit) == [n \in {name} |-> [is_adjusted_to_utc |-> TRUE, unit |-> Bare(unit)]]

\* The converted types in the order of their codes; DECIMAL (5) takes its parameters
\* from the element.
logical_type_from_converted_type(converted, scale, precision) ==
    IF converted = 5 THEN [DECIMAL |-> [scale |-> scale, precision |-> precision]]
    ELSE <<Bare("STRING"), Bare("MAP"), Bare("MAP"), Bare("LIST"), Bare("ENUM"), <<>>, Bare("DATE"),
           TimeOf("TIME", "MILLIS"), TimeOf("TIME", "MICROS"),
           TimeOf("TIMESTAMP", "MILLIS"), TimeOf("TIMESTAMP", "MICROS"),
           Integer(8, FALSE), Integer(16, FALSE), Integer(32, FALSE), Integer(64, FALSE),
           Integer(8, TRUE), Integer(16, TRUE), Integer(32, TRUE), Integer(64, TRUE),
           Bare("JSON"), Bare("BSON"), Bare("INTERVAL")>>[converted + 1]

\* The codes that stand for a logical type: the first is written.  A time is looked
\* up by its unit alone.
converted_type_from_logical_type(lt) ==
    LET is(name) == name \in DOMAIN lt
        simple == [STRING |-> 0, MAP |-> 1, LIST |-> 3, ENUM |-> 4, DECIMAL |-> 5, DATE |-> 6,
                   JSON |-> 19, BSON |-> 20, INTERVAL |-> 21]
        width(base, i) == IF i.bit_width \in {8, 16, 32, 64}
                          THEN {base + (CASE i.bit_width = 8 -> 0 [] i.bit_width = 16 -> 1
                                          [] i.bit_width = 32 -> 2 [] OTHER -> 3)}
                          ELSE {}
        unit(base, t) == {base + k : k \in {n \in 0..1 : <<"MILLIS", "MICROS">>[n + 1] \in DOMAIN t.unit}}
    IN  IF is("TIME") THEN unit(7, lt.TIME)
        ELSE IF is("TIMESTAMP") THEN unit(9, lt.TIMESTAMP)
        ELSE IF is("INTEGER") THEN width(IF lt.INTEGER.is_signed THEN 15 ELSE 11, lt.INTEGER)
        ELSE {simple[n] : n \in DOMAIN simple \cap DOMAIN lt}

(* -------------------------------- schema -------------------------------- *)

parse_schema_element ==
    <<IfSet(1, "type", i32), Zeroed(2, "type_length", i32, 0), IfSet(3, "repetition_type", i32),
      IfSet(4, "name", ABinary), Zeroed(5, "num_children", i32, 0), IfSet(6, "converted_type", i32),
      Zeroed(7, "scale", i32, 0), Zeroed(8, "precision", i32, 0), IfSet(9, "field_id", i32),
      IfSet(10, "logical_type", AStruct(parse_logical_type))>>

write_schema_element ==
    <<IfSet(1, "type", i32), Zeroed(2, "type_length", i32, 0), IfSet(3, "repetition_type", i32),
      IfSet(4, "name", ABinary), Zeroed(5, "num_children", i32, 0), IfSet(6, "converted_type", i32),
      Zeroed(7, "scale", i32, 0), Zeroed(8, "precision", i32, 0), IfSet(9, "field_id", i32),
      IfSet(10, "logical_type", AStruct(write_logical_type))>>

Without(rec, name) == [n \in DOMAIN rec \ {name} |-> rec[n]]

\* What every schema element becomes before it is written: an interval has no
\* logical type on the wire, and neither has one the library does not know.
schema_element_with_logical_compat(elem) ==
    LET lt == elem.logical_type
        codes == converted_type_from_logical_type(lt)
        coded == IF codes = {} THEN elem ELSE [converted_type |-> CHOOSE c \in codes : TRUE] @@ elem
        decimal == IF "DECIMAL" \in DOMAIN lt
                   THEN [coded EXCEPT !.scale = lt.DECIMAL.scale, !.precision = lt.DECIMAL.precision]
                   ELSE coded
    IN  IF "logical_type" \notin DOMAIN elem THEN elem
        ELSE IF "INTERVAL" \in DOMAIN lt \/ DOMAIN lt = {} THEN Without(decimal, "logical_type") ELSE decimal

\* What the parser adds to an element that only has a converted type.
WithLogicalType(elem) ==
    IF "logical_type" \notin DOMAIN elem /\ "converted_type" \in DOMAIN elem /\ elem.converted_type \in 0..21
    THEN [logical_type |-> logical_type_from_converted_type(elem.converted_type, elem.scale, elem.precision)] @@ elem
    ELSE elem

(* ------------------------------ row groups ------------------------------ *)

parse_key_value == <<IfSet(1, "key", ABinary), IfSet(2, "value", ABinary)>>
write_key_value == <<Always(1, "key", ABinary), IfSet(2, "value", ABinary)>>

\* A corner of the box that was not there stays zero; the writer has z and m both or
\* not at all.
BoundingBox == AStruct(<<Always(1, "xmin", ADouble), Always(2, "xmax", ADouble), Always(3, "ymin", ADouble),
                         Always(4, "ymax", ADouble), IfSet(5, "zmin", ADouble), IfSet(6, "zmax", ADouble),
                         IfSet(7, "mmin", ADouble), IfSet(8, "mmax", ADouble)>>)
parse_geospatial_statistics == <<IfSet(1, "bbox", BoundingBox), Zeroed(2, "types", AList(i32, Unlimited), <<>>)>>
write_geospatial_statistics == <<IfSet(1, "bbox", BoundingBox), Always(2, "types", AList(i32, Unlimited))>>

parse_column_metadata ==
    <<Zeroed(1, "type", i32, 0), Zeroed(2, "encodings", AList(i32, MAX_ENCODINGS), <<>>),
      Zeroed(3, "path_in_schema", AList(ABinary, MAX_PATH_ELEMENTS), <<>>), Zeroed(4, "codec", i32, 0),
      Zeroed(5, "num_values", i64, 0), Zeroed(6, "total_uncompressed_size", i64, 0),
      Zeroed(7, "total_compressed_size", i64, 0),
      Zeroed(8, "key_value_metadata", AList(AStruct(parse_key_value), MAX_KEY_VALUE_PAIRS), <<>>),
      Zeroed(9, "data_page_offset", i64, 0), IfSet(10, "index_page_offset", i64),
      IfSet(11, "dictionary_page_offset", i64), IfSet(12, "statistics", AStruct(parse_statistics)),
      Zeroed(13, "encoding_stats", AList(AStruct(<<Zeroed(1, "page_type", i32, 0), Zeroed(2, "encoding", i32, 0),
                                                   Zeroed(3, "count", i32, 0)>>), MAX_ENCODINGS), <<>>),
      IfSet(14, "bloom_filter_offset", i64), IfSet(15, "bloom_filter_length", i32),
      IfSet(17, "geospatial_statistics", AStruct(parse_geospatial_statistics))>>

\* The key-value pairs and the encoding statistics of a column are read, never written.
write_column_metadata ==
    <<Always(1, "type", i32), Always(2, "encodings", AList(i32, Unlimited)),
      Always(3, "path_in_schema", AList(ABinary, Unlimited)), Always(4, "codec", i32),
      Always(5, "num_values", i64), Always(6, "total_uncompressed_size", i64),
      Always(7, "total_compressed_size", i64), Always(9, "data_page_offset", i64),
      IfSet(10, "index_page_offset", i64), IfSet(11, "dictionary_page_offset", i64),
      IfSet(12, "statistics", AStruct(write_statistics)),
      IfSet(14, "bloom_filter_offset", i64), IfSet(15, "bloom_filter_length", i32),
      IfSet(17, "geospatial_statistics", AStruct(write_geospatial_statistics))>>

parse_column_chunk ==
    <<IfSet(1, "file_path", ABinary), Zeroed(2, "file_offset", i64, 0),
      IfSet(3, "metadata", AStruct(parse_column_metadata)),
      IfSet(4, "offset_index_offset", i64), IfSet(5, "offset_index_length", i32),
      IfSet(6, "column_index_offset", i64), IfSet(7, "column_index_length", i32)>>

write_column_chunk ==
    <<IfSet(1, "file_path", ABinary), Always(2, "file_offset", i64),
      IfSet(3, "metadata", AStruct(write_column_metadata)),
      IfSet(4, "offset_index_offset", i64), IfSet(5, "offset_index_length", i32),
      IfSet(6, "column_index_offset", i64), IfSet(7, "column_index_length", i32)>>

SortingColumn == <<Always(1, "column_idx", i32), Always(2, "descending", ABool), Always(3, "nulls_first", ABool)>>

parse_row_group ==
    <<Zeroed(1, "columns", AList(AStruct(parse_column_chunk), MAX_COLUMNS_PER_RG), <<>>),
      Zeroed(2, "total_byte_size", i64, 0), Zeroed(3, "num_rows", i64, 0),
      Zeroed(4, "sorting_columns", AList(AStruct(SortingColumn), MAX_COLUMNS_PER_RG), <<>>),
      IfSet(5, "file_offset", i64), IfSet(6, "total_compressed_size", i64),
      IfSet(7, "ordinal", AnInt(I16))>>

write_row_group ==
    <<Always(1, "columns", AList(AStruct(write_column_chunk), Unlimited)),
      Always(2, "total_byte_size", i64), Always(3, "num_rows", i64),
      Zeroed(4, "sorting_columns", AList(AStruct(SortingColumn), Unlimited), <<>>),
      IfSet(5, "file_offset", i64), IfSet(6, "total_compressed_size", i64),
      IfSet(7, "ordinal", AnInt(I16))>>

(* ----------------------------- file metadata ---------------------------- *)

\* Only the number of column orders is kept.
write_column_order_type_defined == AStruct(<<IfSet(1, "TYPE_ORDER", AnEmptyStruct)>>)

FileMetadataRead ==
    <<Zeroed(1, "version", i32, 0),
      Zeroed(2, "schema", AList(AStruct(parse_schema_element), MAX_SCHEMA_ELEMENTS), <<>>),
      Zeroed(3, "num_rows", i64, 0),
      Zeroed(4, "row_groups", AList(AStruct(parse_row_group), MAX_ROW_GROUPS), <<>>),
      Zeroed(5, "key_value_metadata", AList(AStruct(parse_key_value), MAX_KEY_VALUE_PAIRS), <<>>),
      IfSet(6, "created_by", ABinary),
      Zeroed(7, "column_orders", AList(write_column_order_type_defined, MAX_COLUMNS_PER_RG), <<>>)>>

FileMetadataWritten ==
    <<Always(1, "version", i32), Always(2, "schema", AList(AStruct(write_schema_element), Unlimited)),
      Always(3, "num_rows", i64), Always(4, "row_groups", AList(AStruct(write_row_group), Unlimited)),
      Zeroed(5, "key_value_metadata", AList(AStruct(write_key_value), Unlimited), <<>>),
      IfSet(6, "created_by", ABinary),
      Zeroed(7, "column_orders", AList(write_column_order_type_defined, Unlimited), <<>>)>>

Each(Op(_), s) == [i \in DOMAIN s |-> Op(s[i])]

parquet_write_file_metadata(metadata) ==
    WriteAs([metadata EXCEPT !.schema = Each(schema_element_with_logical_compat, @)], AStruct(FileMetadataWritten))

parquet_parse_file_metadata(data) ==
    LET r == ReadAs(thrift_decoder_init(data), AStruct(FileMetadataRead))
    IN  IF r.d.status # "ok" THEN [ok |-> FALSE, status |-> r.d.status, values |-> <<>>]
        ELSE [ok |-> TRUE, status |-> "ok", values |-> [r.v EXCEPT !.schema = Each(WithLogicalType, @)]]

(* ------------------------------ page headers ---------------------------- *)

DATA_PAGE == 0
DICTIONARY_PAGE == 2
DATA_PAGE_V2 == 3

\* The statistics of a page are skipped: only that they were there is kept.
PageHeaderRead ==
    <<Zeroed(1, "type", i32, 0), Zeroed(2, "uncompressed_page_size", i32, 0), Zeroed(3, "compressed_page_size", i32, 0),
      IfSet(4, "crc", i32),
      IfSet(5, "data_page_header", AStruct(
         <<Zeroed(1, "num_values", i32, 0), Zeroed(2, "encoding", i32, 0),
           Zeroed(3, "definition_level_encoding", i32, 0), Zeroed(4, "repetition_level_encoding", i32, 0),
           IfSet(5, "statistics", AnEmptyStruct)>>)),
      IfSet(7, "dictionary_page_header", AStruct(
         <<Zeroed(1, "num_values", i32, 0), Zeroed(2, "encoding", i32, 0), Zeroed(3, "is_sorted", ABool, FALSE)>>)),
      IfSet(8, "data_page_header_v2", AStruct(
         <<Zeroed(1, "num_values", i32, 0), Zeroed(2, "num_nulls", i32, 0), Zeroed(3, "num_rows", i32, 0),
           Zeroed(4, "encoding", i32, 0), Zeroed(5, "definition_levels_byte_length", i32, 0),
           Zeroed(6, "repetition_levels_byte_length", i32, 0), Zeroed(7, "is_compressed", ABool, TRUE),
           IfSet(8, "statistics", AnEmptyStruct)>>))>>

PageHeaderWritten ==
    <<Always(1, "type", i32), Always(2, "uncompressed_page_size", i32), Always(3, "compressed_page_size", i32),
      IfSet(4, "crc", i32),
      IfSet(5, "data_page_header", AStruct(
         <<Always(1, "num_values", i32), Always(2, "encoding", i32),
           Always(3, "definition_level_encoding", i32), Always(4, "repetition_level_encoding", i32),
           IfSet(5, "statistics", AStruct(write_statistics))>>)),
      IfSet(7, "dictionary_page_header", AStruct(
         <<Always(1, "num_values", i32), Always(2, "encoding", i32), Always(3, "is_sorted", ABool)>>)),
      IfSet(8, "data_page_header_v2", AStruct(
         <<Always(1, "num_values", i32), Always(2, "num_nulls", i32), Always(3, "num_rows", i32),
           Always(4, "encoding", i32), Always(5, "definition_levels_byte_length", i32),
           Always(6, "repetition_levels_byte_length", i32), Always(7, "is_compressed", ABool)>>))>>

\* The header that goes with the type is written, whatever else is set.
parquet_write_page_header(header) ==
    LET own == CASE header.type = DATA_PAGE -> "data_page_header"
                 [] header.type = DICTIONARY_PAGE -> "dictionary_page_header"
                 [] header.type = DATA_PAGE_V2 -> "data_page_header_v2"
                 [] OTHER -> "none"
        others == {"data_page_header", "dictionary_page_header", "data_page_header_v2"} \ {own}
    IN  WriteAs([n \in DOMAIN header \ others |-> header[n]], AStruct(PageHeaderWritten))

parquet_parse_page_header(data) ==
    LET r == ReadAs(thrift_decoder_init(data), AStruct(PageHeaderRead))
    IN  IF r.d.status # "ok" THEN [ok |-> FALSE, status |-> r.d.status, values |-> <<>>, bytes_read |-> 0]
        ELSE [ok |-> TRUE, status |-> "ok", values |-> r.v, bytes_read |-> r.d.pos]

(***************************************************************************)
(* The column index (null pages, bounds and null counts of every page) and *)
(* the offset index (where every page lies) of a column chunk: their       *)
(* builders, their Thrift form and their parsers.                          *)
(* src/carquet/metadata/page_index.c.  A bound that is not there is the    *)
(* empty sequence of bytes.                                                *)
(***************************************************************************)

MAX_INDEX_PAGES == 1000000
UNORDERED == 0

(* ------------------------------- builders ------------------------------- *)

carquet_column_index_builder_create(type, is_unsigned) ==
    [type |-> type, is_unsigned |-> is_unsigned, boundary_order |-> UNORDERED,
     null_pages |-> <<>>, min_values |-> <<>>, max_values |-> <<>>, null_counts |-> <<>>]

carquet_column_index_add_page(b, null_count, min_value, max_value, is_null_page) ==
    [b EXCEPT !.null_counts = Append(@, null_count), !.null_pages = Append(@, is_null_page),
              !.min_values = Append(@, min_value), !.max_values = Append(@, max_value)]

carquet_column_index_set_boundary_order(b, order) == [b EXCEPT !.boundary_order = order]

carquet_offset_index_builder_create(track_uncompressed) ==
    [track_uncompressed |-> track_uncompressed, page_locations |-> <<>>, uncompressed_sizes |-> <<>>]

carquet_offset_index_add_page(b, offset, compressed_size, first_row_index, uncompressed_size) ==
    [b EXCEPT !.page_locations = Append(@, [offset |-> offset, compressed_size |-> compressed_size,
                                            first_row_index |-> first_row_index]),
              !.uncompressed_sizes = IF b.track_uncompressed THEN Append(@, uncompressed_size) ELSE @]

\* Offsets are relative to the chunk until its place in the file is known.
carquet_offset_index_builder_shift_offsets(b, delta) ==
    [b EXCEPT !.page_locations = [i \in DOMAIN @ |-> [@[i] EXCEPT !.offset = @ + delta]]]

(* --------------------------- page_might_match --------------------------- *)

\* -1, 0 or 1, the most significant byte first.
RECURSIVE memcmp(_, _)
memcmp(a, b) == IF a = <<>> \/ b = <<>> THEN 0
                ELSE IF Head(a) # Head(b) THEN IF Head(a) < Head(b) THEN -1 ELSE 1
                ELSE memcmp(Tail(a), Tail(b))

\* A little-endian integer with its bytes turned round, the sign bit flipped when it
\* is signed: these compare as the integers do.
Ordinal(bytes, signed) ==
    LET n == Len(bytes)
    IN  [i \in 1..n |-> IF i = 1 /\ signed THEN (bytes[n] + 128) % 256 ELSE bytes[n + 1 - i]]

compare_index_values(b, x, y) ==
    LET signed == ~b.is_unsigned
        c == memcmp(x, y)
    IN  IF Len(x) = Len(y) /\ b.type \in {"INT32", "INT64"} THEN memcmp(Ordinal(x, signed), Ordinal(y, signed))
        ELSE IF c # 0 THEN c
        ELSE IF Len(x) < Len(y) THEN -1
        ELSE IF Len(x) > Len(y) THEN 1 ELSE 0

\* A bound of the query that is <<>> is no bound.
carquet_column_index_page_might_match(b, page, min_value, max_value) ==
    /\ ~b.null_pages[page]
    /\ ~(/\ max_value # <<>> /\ b.min_values[page] # <<>>
         /\ compare_index_values(b, max_value, b.min_values[page]) < 0)
    /\ ~(/\ min_value # <<>> /\ b.max_values[page] # <<>>
         /\ compare_index_values(b, min_value, b.max_values[page]) > 0)

(* ------------------------------ Thrift form ----------------------------- *)

carquet_column_index_serialize(b) ==
    WriteAs(b, AStruct(<<Always(1, "null_pages", AList(ABool, Unlimited)),
                         Always(2, "min_values", AList(ABinary, Unlimited)),
                         Always(3, "max_values", AList(ABinary, Unlimited)),
                         Always(4, "boundary_order", i32),
                         Always(5, "null_counts", AList(i64, Unlimited))>>))

PageLocation == AStruct(<<Always(1, "offset", i64), Always(2, "compressed_size", i32), Always(3, "first_row_index", i64)>>)

\* The uncompressed sizes, when tracked, go where the format has another list.
carquet_offset_index_serialize(b) ==
    WriteAs([n \in {"page_locations"} \cup (IF b.track_uncompressed THEN {"uncompressed_sizes"} ELSE {}) |-> b[n]],
            AStruct(<<Always(1, "page_locations", AList(PageLocation, Unlimited)),
                      IfSet(2, "uncompressed_sizes", AList(i32, Unlimited))>>))

ParsedIndex(data, fields) ==
    LET r == ReadFields(thrift_read_struct_begin(thrift_decoder_init(data)), fields, 0, <<>>)
    IN  [ok |-> data # <<>> /\ r.d.status = "ok", got |-> r.v]

\* num_pages is the shortest of the lists that were there; without null_pages no page
\* is known.
carquet_column_index_parse(data) ==
    LET p == ParsedIndex(data, <<Once(1, "null_pages", AList(ABool, MAX_INDEX_PAGES)),
                                 Once(2, "min_values", AList(ABinary, MAX_INDEX_PAGES)),
                                 Once(3, "max_values", AList(ABinary, MAX_INDEX_PAGES)),
                                 Zeroed(4, "boundary_order", i32, UNORDERED),
                                 Once(5, "null_counts", AList(i64, MAX_INDEX_PAGES))>>)
        lengths == {Len(p.got[id]) : id \in DOMAIN p.got \ {4}}
    IN  IF ~p.ok THEN [ok |-> FALSE, num_pages |-> 0, boundary_order |-> UNORDERED, lists |-> <<>>]
        ELSE [ok |-> TRUE,
              num_pages |-> IF 1 \notin DOMAIN p.got THEN 0 ELSE CHOOSE n \in lengths : \A k \in lengths : n <= k,
              boundary_order |-> IF 4 \in DOMAIN p.got THEN p.got[4] ELSE UNORDERED,
              lists |-> p.got]

ListItem(index, id, page, none) == IF id \in DOMAIN index.lists THEN index.lists[id][page] ELSE none

carquet_column_index_get_page_stats(index, page) ==
    [null_count |-> ListItem(index, 5, page, 0), min_value |-> ListItem(index, 2, page, <<>>),
     max_value |-> ListItem(index, 3, page, <<>>), is_null_page |-> ListItem(index, 1, page, FALSE)]

\* Only the locations are read back.
carquet_offset_index_parse(data) ==
    LET p == ParsedIndex(data, <<Once(1, "page_locations", AList(PageLocation, MAX_INDEX_PAGES))>>)
    IN  IF ~p.ok \/ 1 \notin DOMAIN p.got THEN [ok |-> p.ok, page_locations |-> <<>>]
        ELSE [ok |-> TRUE, page_locations |-> p.got[1]]
=============================================================================
