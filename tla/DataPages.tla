----------------------------- MODULE DataPages -----------------------------
(***************************************************************************)
(* The pages of a column chunk as bytes: the page writer (writer/page_     *)
(* writer.c), which takes the batches of a column, keeps levels and values *)
(* in three buffers and assembles a page from them, and the page loader of *)
(* the column reader (reader/page_reader.c) with its two sources, a mapped *)
(* file and a stream.                                                      *)
(*                                                                         *)
(* A page is its header, a record, and its payload, a sequence of bytes:   *)
(* ParquetTypes has the bytes of a header.  Sizes stay far below the 256   *)
(* MB limit of a page and the 64 bytes of slack of the decompression       *)
(* buffer.  The checksum is the bytes it covers: CRC32 tells them apart    *)
(* when a single byte differs, which is the damage modelled.  Values are   *)
(* the ones of Plain; a DELTA_BINARY_PACKED column has integers.           *)
(***************************************************************************)
EXTENDS Delta, Plain, Rle

-----------------------------------------------------------------------------
(* Dictionary encoding (encoding/dictionary.c): the hash table that gives every
   distinct value an index, the dictionary page and the index page, and the
   decoders.  A value is its bytes.  The hash is a parameter, a function from
   values to numbers: the three hash functions only have to be functions.
   Allocations succeed. *)

CONSTANT InitialBuckets   \* DICT_BUILDER_INITIAL_BUCKETS, a power of two

ASSUME BucketsAssumption == \E k \in 0..20 : InitialBuckets = 2^k

dict_builder_init(variable, max_bytes) ==
    [buckets |-> [b \in 0..InitialBuckets - 1 |-> <<>>], entries |-> <<>>, payload |-> <<>>,
     indices |-> <<>>, variable |-> variable, max_bytes |-> max_bytes, abandoned |-> FALSE]

\* Chains are rebuilt front to back, so a moved chain is reversed.
RECURSIVE Moved(_, _, _)
Moved(chain, hash, buckets) ==
    IF chain = <<>> THEN buckets
    ELSE LET b == hash[Head(chain).value] % Cardinality(DOMAIN buckets)
         IN  Moved(Tail(chain), hash, [buckets EXCEPT ![b] = <<Head(chain)>> \o @])
RECURSIVE MoveAll(_, _, _, _)
MoveAll(old, b, hash, buckets) ==
    IF b \notin DOMAIN old THEN buckets ELSE MoveAll(old, b + 1, hash, Moved(old[b], hash, buckets))
dict_builder_rehash(old, hash) ==
    MoveAll(old, 0, hash, [b \in 0..2 * Cardinality(DOMAIN old) - 1 |-> <<>>])

BucketOf(hash, value, buckets) == hash[value] % Cardinality(DOMAIN buckets)

\* An entry is found by its bytes in the chain of its bucket; a new one goes to
\* the front of the chain, after the table has grown when it is 3/4 full.
dict_builder_add(builder, value, hash) ==
    LET chain == builder.buckets[BucketOf(hash, value, builder.buckets)]
        found == {i \in DOMAIN chain : chain[i].value = value}
        full == (Len(builder.entries) + 1) * 4 > Cardinality(DOMAIN builder.buckets) * 3
        buckets == IF full THEN dict_builder_rehash(builder.buckets, hash) ELSE builder.buckets
        entry == [value |-> value, index |-> Len(builder.entries)]
        payload == builder.payload \o (IF builder.variable THEN carquet_write_u32_le(Len(value)) ELSE <<>>) \o value
    IN  IF found # {}
        THEN [builder EXCEPT !.indices = Append(@, chain[CHOOSE i \in found : \A j \in found : i <= j].index)]
        ELSE [builder EXCEPT !.buckets = [buckets EXCEPT ![BucketOf(hash, value, buckets)] = <<entry>> \o @],
                             !.entries = Append(@, value), !.payload = payload,
                             !.indices = Append(@, entry.index),
                             !.abandoned = builder.max_bytes # 0 /\ Len(payload) > builder.max_bytes]

bit_width_for_count(count) ==
    IF count = 0 THEN 0 ELSE CHOOSE w \in 1..20 : count <= 2^w /\ (w > 1 => count > 2^(w - 1))

RECURSIVE AddAll(_, _, _)
AddAll(builder, values, hash) ==
    IF values = <<>> \/ builder.abandoned THEN builder
    ELSE AddAll(dict_builder_add(builder, Head(values), hash), Tail(values), hash)

\* The dictionary page, its number of entries and the page of indices.
Pages(builder) ==
    LET w == bit_width_for_count(Len(builder.entries))
    IN  [dict |-> builder.payload, count |-> Len(builder.entries), abandoned |-> FALSE,
         indices |-> <<w>> \o carquet_rle_encode_all(builder.indices, w)]
Abandoned == [dict |-> <<>>, count |-> 0, abandoned |-> TRUE, indices |-> <<>>]

carquet_dictionary_encode_int32(values, hash) == Pages(AddAll(dict_builder_init(FALSE, 0), values, hash))
carquet_dictionary_encode_int64(values, hash) == Pages(AddAll(dict_builder_init(FALSE, 0), values, hash))
carquet_dictionary_encode_float(values, hash) == Pages(AddAll(dict_builder_init(FALSE, 0), values, hash))
carquet_dictionary_encode_double(values, hash) == Pages(AddAll(dict_builder_init(FALSE, 0), values, hash))
carquet_dictionary_encode_byte_array(values, hash) == Pages(AddAll(dict_builder_init(TRUE, 0), values, hash))
\* Callers give at least one value.
carquet_dictionary_encode_capped(type, values, max_bytes, hash) ==
    LET builder == AddAll(dict_builder_init(type = "BYTE_ARRAY", max_bytes), values, hash)
    IN  IF builder.abandoned THEN Abandoned ELSE Pages(builder)

\* The dictionary, the indices and the bounds are all tested before a value is
\* given out.
DecodeWith(dict, dict_count, width, indices, count) ==
    LET got == carquet_rle_decode_all(Tail(indices), indices[1], count)
        entries == DecodeFixed(dict, width, dict_count).values
        gathered == scalar_checked_gather([dict |-> entries, indices |-> got])
    IN  IF count <= 0 THEN [ok |-> TRUE, values |-> <<>>]
        ELSE IF dict_count <= 0 \/ Len(dict) < dict_count * width \/ indices = <<>>
        THEN [ok |-> FALSE, values |-> <<>>]
        ELSE IF Len(got) < count THEN [ok |-> FALSE, values |-> <<>>]
        ELSE [ok |-> gathered.ok, values |-> gathered.out]
carquet_dictionary_decode_int32(dict, n, indices, count) == DecodeWith(dict, n, 4, indices, count)
carquet_dictionary_decode_int64(dict, n, indices, count) == DecodeWith(dict, n, 8, indices, count)
carquet_dictionary_decode_float(dict, n, indices, count) == DecodeWith(dict, n, 4, indices, count)
carquet_dictionary_decode_double(dict, n, indices, count) == DecodeWith(dict, n, 8, indices, count)

-----------------------------------------------------------------------------
(* Pages. *)

CONSTANTS
    PageColumns,        \* columns: type, width, encoding, max_def, max_rep, v2, codec,
                        \* crc, dict (dictionary encoded, up to limit bytes),
                        \* foreign (another writer's)
    PageBatches(_),     \* the batches a column may be given: values, defs, reps, n
    MaxBatches,         \* batches of a chunk
    MaxPages,           \* data pages of a chunk
    MaxFaults,          \* calls that run out of memory
    SliceLen,           \* booleans decoded at a time (512)
    Registered,         \* codecs the program has registered an implementation for
    Pack(_, _),         \* what a codec makes of bytes,
    Unpack(_, _, _),    \* and how it gets them back, within a capacity
    Load(_, _, _, _)    \* load_next_page: a parameter, which keeps it out of the
                        \* coverage statistics

VARIABLES
    col,        \* the column
    writer,     \* its page writer
    taken,      \* the batches accepted for the page being written
    faults,     \* calls that failed
    image,      \* the pages in the file
    written,    \* per data page, the batches it is made of
    damaged,    \* the page with a damaged payload, or 0
    reader,     \* the column reader
    handed,     \* the pages loaded for the current batch: which, and what came of it
    stage       \* "write", "read" or "failed"

pageVars == <<col, writer, taken, faults, image, written, damaged, reader, handed, stage>>

-----------------------------------------------------------------------------
(* The page writer. *)

carquet_page_writer_create(c) ==
    [values |-> <<>>, defs |-> <<>>, reps |-> <<>>, bool_bits |-> 0, num_values |-> 0,
     num_nulls |-> 0, num_rows |-> 0, bss_applied |-> FALSE, encoding |-> c.encoding]
carquet_page_writer_reset(w, c) == [carquet_page_writer_create(c) EXCEPT !.encoding = w.encoding]

bit_width_for_max(max) == CHOOSE w \in 0..15 : max < 2^w /\ (w > 0 => max >= 2^(w - 1))
NonNull(defs, max) == Len(SelectSeq(defs, LAMBDA d : d = max))

\* Without levels every entry of an optional column is present.  No length
\* prefix: the streams of several batches follow each other.
encode_levels(levels, count, max) ==
    LET w == bit_width_for_max(max)
    IN  IF max = 0 THEN <<>>
        ELSE IF levels # <<>> THEN carquet_rle_encode_levels(levels, w)
        ELSE carquet_rle_encoder_flush(carquet_rle_encoder_put_repeat(
                 carquet_rle_encoder_init(w), max, count)).buffer

\* The bits continue in the partial byte the page ends with.
append_plain_boolean(w, values) ==
    LET bits == scalar_unpack_bools([input |-> w.values, count |-> w.bool_bits])
    IN  [w EXCEPT !.values = scalar_pack_bools([input |-> bits \o values]),
                  !.bool_bits = @ + Len(values)]

\* BYTE_STREAM_SPLIT keeps plain values until the page is whole; the delta
\* encodings also have a header when there is no value.
encode_int32_values(w, values) ==
    IF w.encoding = "DELTA_BINARY_PACKED"
    THEN carquet_delta_encode_int64(values, 9 * Len(values) + 512).data
    ELSE carquet_encode_plain_int32(values)
encode_byte_array_values(w, values) ==
    CASE w.encoding = "DELTA_LENGTH_BYTE_ARRAY" -> carquet_delta_length_encode(values).data
      [] w.encoding = "DELTA_BYTE_ARRAY" -> carquet_delta_strings_encode(values).data
      [] OTHER -> carquet_encode_plain_byte_array(values)
EncodeFixed(w, values) ==
    IF w.encoding = "DELTA_BYTE_ARRAY"
    THEN IF values = <<>> THEN <<>> ELSE carquet_delta_strings_encode(values).data
    ELSE carquet_encode_plain_fixed_byte_array(values)

EncodeValues(w, c, values) ==
    CASE c.type = "BOOLEAN" -> append_plain_boolean(w, values)
      [] c.type \in {"INT32", "INT64"} -> [w EXCEPT !.values = @ \o encode_int32_values(w, values)]
      [] c.type = "BYTE_ARRAY" -> [w EXCEPT !.values = @ \o encode_byte_array_values(w, values)]
      [] c.type = "FIXED" -> [w EXCEPT !.values = @ \o EncodeFixed(w, values)]
      [] OTHER -> [w EXCEPT !.values = @ \o carquet_encode_plain_double(values)]

Rows(c, b) == IF c.max_rep > 0 /\ b.reps # <<>> THEN NonNull(b.reps, 0) ELSE b.n
Nulls(c, b) == IF c.max_def > 0 /\ b.defs # <<>> THEN b.n - NonNull(b.defs, c.max_def) ELSE 0

WithDefs(w, c, b) == [w EXCEPT !.num_nulls = @ + Nulls(c, b),
                               !.defs = @ \o encode_levels(b.defs, b.n, c.max_def)]
WithReps(w, c, b) == [w EXCEPT !.reps = @ \o (IF b.reps = <<>> THEN <<>>
                                              ELSE encode_levels(b.reps, b.n, c.max_rep))]

carquet_page_writer_add_values(w, c, b) ==
    [EncodeValues(WithReps(WithDefs(w, c, b), c, b), c, b.values)
        EXCEPT !.num_values = @ + b.n, !.num_rows = @ + (IF c.v2 THEN Rows(c, b) ELSE 0)]

\* What a call that fails leaves: the sizes and the counts it began with.
RolledBack(w, partial) ==
    [partial EXCEPT !.values = SubSeq(@, 1, Len(w.values)), !.defs = SubSeq(@, 1, Len(w.defs)),
                    !.reps = SubSeq(@, 1, Len(w.reps)),
                    !.num_values = w.num_values, !.num_nulls = w.num_nulls]

-----------------------------------------------------------------------------
(* Assembling a page. *)

carquet_crc32(bytes) == bytes
carquet_custom_codec_lookup(codec) == codec \in Registered

BuiltIn == {"SNAPPY", "LZ4", "LZ4_RAW", "GZIP", "ZSTD"}
\* A registered implementation wins over the built-in one.
compress_data(codec, input) ==
    IF codec = "UNCOMPRESSED" THEN [ok |-> TRUE, out |-> input]
    ELSE IF carquet_custom_codec_lookup(codec) \/ codec \in BuiltIn
    THEN [ok |-> TRUE, out |-> Pack(codec, input)]
    ELSE [ok |-> FALSE, out |-> <<>>]

append_v1_level_section(levels) ==
    IF levels = <<>> THEN <<>> ELSE carquet_write_u32_le(Len(levels)) \o levels
build_page_payload(w) ==
    append_v1_level_section(w.reps) \o append_v1_level_section(w.defs) \o w.values
\* Of a page that is not compressed: section by section, as it will lie in the
\* file.
compute_page_crc(w) == carquet_crc32(append_v1_level_section(w.reps)
                           \o append_v1_level_section(w.defs) \o w.values)

append_data_page_header(w, c, uncompressed, compressed, crc) ==
    [type |-> "DATA", uncompressed |-> uncompressed, compressed |-> compressed,
     has_crc |-> c.crc, crc |-> IF c.crc THEN crc ELSE <<>>, num_values |-> w.num_values,
     encoding |-> w.encoding, levels |-> "RLE"]
append_data_page_header_v2(w, c, uncompressed, compressed, crc, is_compressed) ==
    [type |-> "DATA_V2", uncompressed |-> uncompressed, compressed |-> compressed,
     has_crc |-> c.crc, crc |-> IF c.crc THEN crc ELSE <<>>, num_values |-> w.num_values,
     num_nulls |-> w.num_nulls, num_rows |-> w.num_rows, encoding |-> w.encoding,
     def_bytes |-> Len(w.defs), rep_bytes |-> Len(w.reps), is_compressed |-> is_compressed]

\* The levels are not compressed, and values that are not there are not either.
finalize_v2_to_buffer(w, c) ==
    LET is_compressed == c.codec # "UNCOMPRESSED" /\ w.values # <<>>
        packed == IF is_compressed THEN compress_data(c.codec, w.values)
                  ELSE [ok |-> TRUE, out |-> w.values]
        levels == w.reps \o w.defs
    IN  [ok |-> packed.ok, payload |-> levels \o packed.out,
         header |-> append_data_page_header_v2(w, c, Len(levels) + Len(w.values),
                        Len(levels) + Len(packed.out), carquet_crc32(levels \o packed.out), is_compressed)]

\* The bytes of the values, regrouped by their place in a value: once for a
\* page, however often it is finalized.
apply_byte_stream_split(w, c) ==
    LET n == Len(w.values) \div c.width
    IN  IF w.encoding # "BYTE_STREAM_SPLIT" \/ w.bss_applied \/ w.values = <<>> THEN w
        ELSE [w EXCEPT !.bss_applied = TRUE,
                       !.values = [k \in DOMAIN @ |->
                           @[((k - 1) % n) * c.width + (k - 1) \div n + 1]]]

\* Of a writer whose values have been split.
carquet_page_writer_finalize_to_buffer(w, c) ==
    LET payload == build_page_payload(w)
        packed == compress_data(c.codec, payload)
        crc == IF c.codec = "UNCOMPRESSED" THEN compute_page_crc(w) ELSE carquet_crc32(packed.out)
    IN  IF c.v2 THEN finalize_v2_to_buffer(w, c)
        ELSE [ok |-> packed.ok, payload |-> packed.out,
              header |-> append_data_page_header(w, c, Len(payload), Len(packed.out), crc)]

carquet_page_writer_emit_dictionary_page(c, plain, entries) ==
    LET packed == compress_data(c.codec, plain)
    IN  [ok |-> packed.ok, payload |-> packed.out,
         header |-> [type |-> "DICTIONARY", uncompressed |-> Len(plain), compressed |-> Len(packed.out),
                     has_crc |-> c.crc, crc |-> IF c.crc THEN carquet_crc32(packed.out) ELSE <<>>,
                     num_values |-> entries, encoding |-> "PLAIN"]]

\* The indices take the place of the values; the counts are set, not added.
carquet_page_writer_add_dictionary_indices(w, c, indices, b) ==
    [WithReps(WithDefs(w, c, b), c, b)
        EXCEPT !.values = @ \o indices, !.num_values = b.n, !.num_nulls = Nulls(c, b),
               !.num_rows = @ + (IF c.v2 THEN Rows(c, b) ELSE 0)]

\* Entries are counted by walking the payload.
RECURSIVE EntriesFrom(_, _)
EntriesFrom(payload, pos) ==
    IF pos + 4 > Len(payload) THEN 0
    ELSE 1 + EntriesFrom(payload, pos + 4 + carquet_read_i32_le(payload, pos))
dict_entry_count(c, payload) ==
    IF c.type = "BYTE_ARRAY" THEN EntriesFrom(payload, 0) ELSE Len(payload) \div c.width

\* The batches of a page, as one; levels that were not given are all present.
FilledDefs(c, b) == IF c.max_def > 0 /\ b.defs = <<>> THEN Repeat(c.max_def, b.n) ELSE b.defs
dict_accumulate(c, batches) ==
    [n |-> SumOf([i \in DOMAIN batches |-> batches[i].n]),
     values |-> Concat([i \in DOMAIN batches |-> batches[i].values]),
     defs |-> Concat([i \in DOMAIN batches |-> FilledDefs(c, batches[i])]),
     reps |-> Concat([i \in DOMAIN batches |-> batches[i].reps])]

-----------------------------------------------------------------------------
(* The column reader.  A byte array it hands out is a place in a buffer,   *)
(* [buf, from, len]: the mapped file's page, the page buffer or the        *)
(* decompression buffer, both used again for the next page, the dictionary *)
(* or a page retained.                                                     *)

NoDictionary == [count |-> -1, data |-> <<>>]
carquet_column_reader_create(path, verify, keep, declared, total) ==
    [path |-> path, verify |-> verify, keep |-> keep, declared |-> declared, total |-> total,
     next |-> 1, dict |-> NoDictionary, page |-> <<>>, decompressed |-> <<>>, retained |-> <<>>,
     prebuffer |-> <<>>, decoded |-> [capacity |-> 0, size |-> 0]]

\* A page of a stream, from the bytes read ahead when there are any; a short read
\* is a failure.
prebuf_read_at(r, page) ==
    LET bytes == IF r.prebuffer = <<>> THEN page.payload ELSE r.prebuffer[r.next]
    IN  [ok |-> Len(bytes) = page.header.compressed, payload |-> bytes]
Source(r, page) == IF r.path = "mmap" THEN [ok |-> TRUE, payload |-> page.payload]
                   ELSE prebuf_read_at(r, page)

Overwritten(old, new) == new \o SubSeq(old, Len(new) + 1, Len(old))
\* The slack behind the payload is zeroed.
ensure_decompress_capacity(old, new) == new \o Zeros(IF Len(old) > Len(new) THEN Len(old) - Len(new) ELSE 0)

carquet_decompress_page(codec, compressed, capacity) ==
    IF carquet_custom_codec_lookup(codec) \/ codec \in BuiltIn
    THEN Unpack(codec, compressed, capacity)
    ELSE [ok |-> codec = "UNCOMPRESSED" /\ Len(compressed) <= capacity, out |-> compressed]

validate_page_payload_size(h, allow_empty) ==
    /\ h.compressed > 0 \/ allow_empty
    /\ h.type = "DATA_V2" => /\ h.num_values > 0
                             /\ h.rep_bytes + h.def_bytes <= h.compressed
                             /\ h.rep_bytes + h.def_bytes <= h.uncompressed
    /\ h.type = "DATA" => h.num_values > 0

CrcMatches(r, h, payload) == h.has_crc /\ r.verify => carquet_crc32(payload) = h.crc

NotLoaded(r) == [ok |-> FALSE, r |-> r]

\* The levels and the values of a data page, where they are after this.
prepare_data_page_payload(r, c, h, payload) ==
    LET levels == IF h.type = "DATA_V2" THEN h.rep_bytes + h.def_bytes ELSE 0
        packed == c.codec # "UNCOMPRESSED" /\ (h.type = "DATA_V2" => h.is_compressed)
        got == carquet_decompress_page(c.codec, From(payload, levels), h.uncompressed - levels)
        whole == SubSeq(payload, 1, levels) \o got.out
    IN  IF ~packed THEN [ok |-> TRUE, r |-> r, data |-> payload, used |-> FALSE]
        ELSE IF ~got.ok THEN NotLoaded(r)
        ELSE [ok |-> TRUE, data |-> whole, used |-> TRUE,
              r |-> [r EXCEPT !.decompressed = ensure_decompress_capacity(@, whole)]]

decode_levels_rle(data, w, n) ==
    LET out == IF w = 0 THEN Zeros(n) ELSE carquet_rle_decode_levels(data, w, n)
    IN  [ok |-> Len(out) = n, levels |-> out]

NoSection == [ok |-> FALSE, levels |-> <<>>, rest |-> 0]
\* "rest" is where what follows the section begins.
decode_v1_level_section(data, pos, encoding, w, n) ==
    LET packed == carquet_decode_bitpacked_levels(From(data, pos), w, n)
        size == carquet_read_i32_le(data, pos)
        rle == decode_levels_rle(SubSeq(data, pos + 5, pos + 4 + size), w, n)
    IN  IF encoding = "BIT_PACKED"
        THEN [ok |-> ~packed.bad, levels |-> packed.levels, rest |-> pos + packed.consumed]
        ELSE IF Len(data) - pos < 4 THEN NoSection
        ELSE IF size < 0 \/ size > Len(data) - pos - 4 THEN NoSection
        ELSE [ok |-> rle.ok, levels |-> rle.levels, rest |-> pos + 4 + size]

\* The sections of a V2 page have their sizes in the header; an empty one is zeros.
V2Section(data, pos, size, max, n) ==
    LET rle == decode_levels_rle(SubSeq(data, pos + 1, pos + size), bit_width_for_max(max), n)
    IN  IF max = 0 THEN [ok |-> TRUE, levels |-> <<>>, rest |-> pos + size]
        ELSE IF size > Len(data) - pos THEN NoSection
        ELSE IF size = 0 THEN [ok |-> TRUE, levels |-> Zeros(n), rest |-> pos]
        ELSE [ok |-> rle.ok, levels |-> rle.levels, rest |-> pos + size]
V1Section(data, pos, encoding, max, n) ==
    IF max = 0 THEN [ok |-> TRUE, levels |-> <<>>, rest |-> pos]
    ELSE decode_v1_level_section(data, pos, encoding, bit_width_for_max(max), n)

\* Repetition levels, definition levels, and where the values begin.
ReadLevels(c, h, data) ==
    LET v2 == h.type = "DATA_V2"
        reps == IF v2 THEN V2Section(data, 0, h.rep_bytes, c.max_rep, h.num_values)
                ELSE V1Section(data, 0, h.levels, c.max_rep, h.num_values)
        defs == IF v2 THEN V2Section(data, reps.rest, h.def_bytes, c.max_def, h.num_values)
                ELSE V1Section(data, reps.rest, h.levels, c.max_def, h.num_values)
    IN  IF ~reps.ok THEN [ok |-> FALSE] ELSE IF ~defs.ok THEN [ok |-> FALSE]
        ELSE [ok |-> TRUE, reps |-> reps.levels, defs |-> defs.levels, at |-> defs.rest,
              present |-> IF c.max_def > 0 THEN NonNull(defs.levels, c.max_def) ELSE h.num_values]

Place(buf, k, from, len) == [buf |-> buf, k |-> k, from |-> from, len |-> len]
\* Values that lie one after the other, each behind a prefix.
Places(buf, k, from, prefix, values) ==
    [i \in DOMAIN values |-> Place(buf, k, from + i * prefix
        + SumOf([j \in 1..i - 1 |-> Len(values[j])]), Len(values[i]))]
Decoded_(r, ok, values) == [ok |-> ok, r |-> r, values |-> values]

PlainValues(r, c, buf, data, at, n) ==
    LET got == carquet_decode_plain(From(data, at), c.type, c.width, n)
    IN  Decoded_(r, ~r.keep /\ ~got.bad,
                 IF c.type = "BYTE_ARRAY" THEN Places(buf, r.next, at, 4, got.values) ELSE got.values)

\* A stream of indices that ends early leaves the rest of the index buffer as it
\* was: "stale" stands for what is there.
IndexedValues(r, c, data, at, n, stale) ==
    LET got == carquet_rle_decode_all(From(data, at + 1), data[at + 1], n)
        indices == got \o Repeat(stale, n - Len(got))
    IN  IF r.dict.count < 0 \/ at >= Len(data) THEN NotLoaded(r)
        ELSE IF r.keep THEN Decoded_(r, TRUE, indices)
        ELSE IF \E i \in 1..n : indices[i] >= r.dict.count THEN NotLoaded(r)
        ELSE Decoded_(r, TRUE, [i \in 1..n |->
                 IF c.type = "BYTE_ARRAY" THEN r.dict.places[indices[i] + 1]
                 ELSE SubSeq(r.dict.data, indices[i] * c.width + 1, (indices[i] + 1) * c.width)])

RECURSIVE RleSlices(_, _)
RleSlices(dec, n) ==
    LET want == Min2(n, SliceLen)
        got == carquet_rle_decoder_get_batch(dec, want)
        rest == RleSlices(got.dec, n - want)
    IN  IF n = 0 THEN [ok |-> TRUE, values |-> <<>>]
        ELSE IF Len(got.out) # want THEN [ok |-> FALSE, values |-> <<>>]
        ELSE [ok |-> rest.ok, values |-> got.out \o rest.values]

RleBooleans(r, data, at, n) ==
    LET size == carquet_read_i32_le(data, at)
        got == RleSlices(carquet_rle_decoder_init(SubSeq(data, at + 5, at + 4 + size), 1), n)
    IN  IF n = 0 THEN Decoded_(r, TRUE, <<>>)
        ELSE IF Len(data) - at < 4 THEN NotLoaded(r)
        ELSE IF size < 0 \/ size > Len(data) - at - 4 THEN NotLoaded(r)
        ELSE Decoded_(r, got.ok, got.values)

\* The strings are put together in a page of the retained list.
RebuiltStrings(r, c, data, at, n) ==
    LET size == carquet_delta_strings_decoded_size(From(data, at), n)
        got == carquet_delta_strings_decode(From(data, at), n, size.size)
        kept == [r EXCEPT !.retained = Append(@, Concat(got.values))]
    IN  IF n = 0 THEN Decoded_(r, TRUE, <<>>)
        ELSE IF ~size.ok \/ ~got.ok THEN NotLoaded(r)
        ELSE IF c.type = "BYTE_ARRAY"
        THEN Decoded_(kept, TRUE, Places("retained", Len(kept.retained), 0, 0, got.values))
        ELSE Decoded_(kept, \A i \in 1..n : Len(got.values[i]) = c.width, got.values)

decode_phase3_values(r, c, encoding, buf, data, at, n) ==
    LET bytes == From(data, at)
        numbers == IF c.type = "INT32" THEN carquet_delta_decode_int32(bytes, n)
                   ELSE carquet_delta_decode_int64(bytes, n)
        strings == carquet_delta_length_decode(bytes, n)
        planes == carquet_byte_stream_split_decode(bytes, c.width, n)
    IN  IF r.keep THEN NotLoaded(r)
        ELSE CASE encoding = "DELTA_BINARY_PACKED" -> Decoded_(r, numbers.ok, numbers.values)
               [] encoding = "DELTA_LENGTH_BYTE_ARRAY" ->
                     Decoded_(r, strings.ok, Places(buf, r.next,
                         at + strings.consumed - Len(Concat(strings.values)), 0, strings.values))
               [] encoding = "DELTA_BYTE_ARRAY" -> RebuiltStrings(r, c, data, at, n)
               [] encoding = "BYTE_STREAM_SPLIT" -> Decoded_(r, planes.ok, planes.values)
               [] encoding = "RLE" -> RleBooleans(r, data, at, n)

\* A page of either version.
ReadValues(r, c, h, buf, data, at, n, stale) ==
    CASE h.encoding = "PLAIN" -> PlainValues(r, c, buf, data, at, n)
      [] h.encoding = "RLE_DICTIONARY" -> IndexedValues(r, c, data, at, n, stale)
      [] OTHER -> decode_phase3_values(r, c, h.encoding, buf, data, at, n)
LoadedPage(l, got) ==
    IF ~got.ok THEN NotLoaded(got.r)
    ELSE [ok |-> TRUE, r |-> got.r, page |-> [defs |-> l.defs, reps |-> l.reps, values |-> got.values]]
ValuesAfter(l, r, c, h, buf, data, stale) ==
    IF ~l.ok THEN NotLoaded(r)
    ELSE LoadedPage(l, ReadValues(r, c, h, buf, data, l.at, l.present, stale))
carquet_read_data_page(r, c, h, buf, data, stale) ==
    ValuesAfter(ReadLevels(c, h, data), r, c, h, buf, data, stale)

\* Dictionary entries have to lie inside the page; the byte arrays' places are
\* found once.
RECURSIVE DictionaryPlaces(_, _, _)
DictionaryPlaces(data, pos, n) ==
    LET len == carquet_read_i32_le(data, pos)
        rest == DictionaryPlaces(data, pos + 4 + len, n - 1)
    IN  IF n = 0 THEN [ok |-> TRUE, places |-> <<>>]
        ELSE IF Len(data) - pos < 4 THEN [ok |-> FALSE, places |-> <<>>]
        ELSE IF len < 0 \/ Len(data) - pos < 4 + len THEN [ok |-> FALSE, places |-> <<>>]
        ELSE [ok |-> rest.ok, places |-> <<Place("dictionary", 0, pos + 4, len)>> \o rest.places]
carquet_read_dictionary_page(r, c, h, data) ==
    LET found == DictionaryPlaces(data, 0, h.num_values)
        adopted == [r EXCEPT !.dict = [count |-> h.num_values, data |-> data,
                                       places |-> IF c.type = "BYTE_ARRAY" THEN found.places ELSE <<>>]]
    IN  IF IF c.type = "BYTE_ARRAY" THEN found.ok ELSE h.num_values * c.width <= Len(data)
        THEN [ok |-> TRUE, r |-> [adopted EXCEPT !.next = 2]] ELSE NotLoaded(r)

\* Tried before the first page; a chunk may turn out to have none.
load_dictionary_page(r, c, page) ==
    LET source == Source(r, page)
        got == carquet_decompress_page(c.codec, source.payload, page.header.uncompressed)
    IN  IF page.header.type # "DICTIONARY" THEN [ok |-> ~r.declared, r |-> r]
        ELSE IF ~validate_page_payload_size(page.header, TRUE) \/ ~source.ok THEN NotLoaded(r)
        ELSE IF ~CrcMatches(r, page.header, source.payload) THEN NotLoaded(r)
        ELSE IF ~got.ok THEN NotLoaded(r)
        ELSE carquet_read_dictionary_page(r, c, page.header, got.out)

page_values_can_be_viewed_directly(c, h) ==
    h.encoding = "PLAIN" /\ c.max_def = 0 /\ c.max_rep = 0 /\ c.type \notin {"BOOLEAN", "BYTE_ARRAY"}

\* Values taken where they lie.  Of an uncompressed page of a mapped file nobody
\* asks whether they are all there.
Viewed(r, c, h, data, zero_copy) ==
    IF ~zero_copy /\ Len(data) < h.num_values * c.width THEN NotLoaded(r)
    ELSE [ok |-> TRUE, r |-> r, page |-> [defs |-> <<>>, reps |-> <<>>,
              values |-> DecodeFixed(data, c.width, h.num_values).values]]

carquet_column_retain_page(r, data) == [r EXCEPT !.retained = Append(@, data)]
\* The byte arrays now point into the copy.
Retained(got, data) ==
    LET r == carquet_column_retain_page(got.r, data)
    IN  [got EXCEPT !.r = r, !.page.values = [i \in DOMAIN @ |->
             [@[i] EXCEPT !.buf = "retained", !.k = Len(r.retained)]]]

\* Only the pages of a stream are copied.
KeepStrings_Stream(got, c, h, mapped, used, data) ==
    IF got.ok /\ c.type = "BYTE_ARRAY" /\ h.encoding \in {"PLAIN", "DELTA_LENGTH_BYTE_ARRAY"} /\ ~mapped
    THEN Retained(got, data) ELSE got

\* Byte arrays that lie in a buffer the next page uses again are moved to a copy.
KeepStrings(got, c, h, mapped, used, data) ==
    IF got.ok /\ c.type = "BYTE_ARRAY" /\ h.encoding \in {"PLAIN", "DELTA_LENGTH_BYTE_ARRAY"}
          /\ (~mapped \/ used)
    THEN Retained(got, data) ELSE got

get_value_size(r, c) == IF r.keep THEN 4
                        ELSE CASE c.type = "BOOLEAN" -> 1 [] c.type = "BYTE_ARRAY" -> 16 [] OTHER -> c.width
\* The buffer a page is decoded into grows, and is made anew for values of another
\* size.  A page never has more values than its chunk.
ensure_decoded_page_buffers(r, c, n) ==
    LET size == get_value_size(r, c)
    IN  IF n > r.total THEN NotLoaded(r)
        ELSE [ok |-> TRUE, r |-> IF n > r.decoded.capacity \/ size # r.decoded.size
                                 THEN [r EXCEPT !.decoded = [capacity |-> n, size |-> size]] ELSE r]

ReadInto(room, c, h, mapped, used, data, stale) ==
    IF ~room.ok THEN room
    ELSE KeepStrings(
             carquet_read_data_page(room.r, c, h, IF used THEN "decompressed" ELSE
                                    IF mapped THEN "file" ELSE "page", data, stale),
             c, h, mapped, used, data)
ReadPrepared(body, c, h, mapped, stale) ==
    IF ~body.ok THEN body
    ELSE IF h.type = "DATA" /\ page_values_can_be_viewed_directly(c, h)
    THEN Viewed([body.r EXCEPT !.decoded.capacity = 0], c, h, body.data, mapped /\ ~body.used)
    ELSE ReadInto(ensure_decoded_page_buffers(body.r, c, h.num_values),
                  c, h, mapped, body.used, body.data, stale)

\* The next data page.  A stream is read into the page buffer.
LoadDataPage(r0, c, page, stale) ==
    LET mapped == r0.path = "mmap"
        source == Source(r0, page)
        r == IF mapped THEN r0 ELSE [r0 EXCEPT !.page = Overwritten(@, source.payload)]
    IN  IF page.header.type = "DICTIONARY" THEN NotLoaded(r0)
        ELSE IF ~validate_page_payload_size(page.header, FALSE) \/ ~source.ok THEN NotLoaded(r)
        ELSE IF ~CrcMatches(r, page.header, source.payload) THEN NotLoaded(r)
        ELSE ReadPrepared(prepare_data_page_payload(r, c, page.header, source.payload),
                          c, page.header, mapped, stale)

\* load_next_page_mmap and load_next_page_fread: the dictionary first.
AfterDictionary(first, c, pages, stale) ==
    IF ~first.ok THEN first ELSE LoadDataPage(first.r, c, pages[first.r.next], stale)
load_next_page(r, c, pages, stale) ==
    AfterDictionary(IF r.next = 1 /\ r.dict.count < 0 THEN load_dictionary_page(r, c, pages[1])
                    ELSE [ok |-> TRUE, r |-> r], c, pages, stale)

-----------------------------------------------------------------------------
(* The operations. *)

\* Each call of a delta encoding writes a stream of its own, and a reader reads
\* one: such a page takes one batch.  Values are not added to a page that could
\* not be finalized.
Delta_(c) == c.encoding \in {"DELTA_BINARY_PACKED", "DELTA_LENGTH_BYTE_ARRAY", "DELTA_BYTE_ARRAY"}
MayAdd == /\ stage = "write" /\ Len(written) < MaxPages /\ ~writer.bss_applied
          /\ Len(taken) + SumOf([k \in DOMAIN written |-> Len(written[k])]) < MaxBatches
          /\ Delta_(col) => taken = <<>>
          /\ col.dict \/ col.foreign => written = <<>>

AddValues ==
    /\ MayAdd
    /\ \E b \in PageBatches(col) :
           /\ taken' = Append(taken, b)
           /\ writer' = IF col.dict \/ col.foreign THEN writer ELSE carquet_page_writer_add_values(writer, col, b)
    /\ UNCHANGED <<col, faults, image, written, damaged, reader, handed, stage>>

\* Memory runs out at the definition levels, the repetition levels or the values.
AddFails ==
    /\ MayAdd /\ ~col.dict /\ ~col.foreign /\ faults < MaxFaults
    /\ \E b \in PageBatches(col) :
           \E partial \in {WithDefs(writer, col, [b EXCEPT !.n = 0, !.defs = <<>>]), WithDefs(writer, col, b),
                           WithReps(WithDefs(writer, col, b), col, b)} :
               writer' = RolledBack(writer, partial)
    /\ faults' = faults + 1
    /\ UNCHANGED <<col, taken, image, written, damaged, reader, handed, stage>>

FinishPage ==
    /\ stage = "write" /\ taken # <<>> /\ ~col.dict /\ ~col.foreign
    /\ LET split == apply_byte_stream_split(writer, col)
           page == carquet_page_writer_finalize_to_buffer(split, col)
       IN  /\ page.ok
           /\ image' = Append(image, [header |-> page.header, payload |-> page.payload])
           /\ writer' = carquet_page_writer_reset(split, col)
    /\ written' = Append(written, taken) /\ taken' = <<>>
    /\ UNCHANGED <<col, faults, damaged, reader, handed, stage>>

\* The page does not fit into the output: it is finalized again later.
FinishFails ==
    /\ stage = "write" /\ taken # <<>> /\ ~col.dict /\ ~col.foreign /\ faults < MaxFaults
    /\ writer' = apply_byte_stream_split(writer, col)
    /\ faults' = faults + 1
    /\ UNCHANGED <<col, taken, image, written, damaged, reader, handed, stage>>

AsPage(p) == [header |-> p.header, payload |-> p.payload]

\* A dictionary column is written when the chunk is closed: the dictionary and
\* one page of indices, or one plain page when there is no value or the
\* dictionary outgrows its limit.
FinishDictionary ==
    /\ stage = "write" /\ taken # <<>> /\ col.dict /\ written = <<>>
    /\ LET b == dict_accumulate(col, taken)
           e == carquet_dictionary_encode_capped(col.type, b.values, col.limit,
                    [v \in {b.values[i] : i \in DOMAIN b.values} |-> 0])
           plain == carquet_page_writer_add_values([writer EXCEPT !.encoding = "PLAIN"], col, b)
           indexed == carquet_page_writer_add_dictionary_indices(
                          [writer EXCEPT !.encoding = "RLE_DICTIONARY"], col, e.indices, b)
           fallback == b.values = <<>> \/ e.abandoned
           page == carquet_page_writer_finalize_to_buffer(IF fallback THEN plain ELSE indexed, col)
           dictionary == carquet_page_writer_emit_dictionary_page(col, e.dict, dict_entry_count(col, e.dict))
       IN  image' = IF fallback THEN <<AsPage(page)>> ELSE <<AsPage(dictionary), AsPage(page)>>
    /\ written' = <<taken>> /\ taken' = <<>>
    /\ UNCHANGED <<col, writer, faults, damaged, reader, handed, stage>>

\* What another writer may write: BIT_PACKED levels, the first level in the high
\* bits, and booleans as a stream of runs behind its length.
BitPacked(levels, max) ==
    LET w == bit_width_for_max(max)
        bit(k) == IF k < Len(levels) * w THEN BitOf(levels[k \div w + 1], w - 1 - (k % w)) ELSE 0
    IN  [j \in 1..(Len(levels) * w + 7) \div 8 |->
            Weighted([i \in 1..8 |-> bit(8 * (j - 1) + 8 - i)])]
FinishForeign ==
    /\ stage = "write" /\ taken # <<>> /\ col.foreign /\ written = <<>>
    /\ LET b == dict_accumulate(col, taken)
           rle == carquet_rle_encode_all(b.values, 1)
           payload == BitPacked(b.reps, col.max_rep) \o BitPacked(b.defs, col.max_def)
                      \o carquet_write_u32_le(Len(rle)) \o rle
       IN  image' = <<[payload |-> payload, header |->
                         [type |-> "DATA", uncompressed |-> Len(payload), compressed |-> Len(payload),
                          has_crc |-> FALSE, crc |-> <<>>, num_values |-> b.n, encoding |-> "RLE",
                          levels |-> "BIT_PACKED"]]>>
    /\ written' = <<taken>> /\ taken' = <<>>
    /\ UNCHANGED <<col, writer, faults, damaged, reader, handed, stage>>

\* The indices are asked for only of a chunk with a dictionary page.  Verifying is
\* the same as not verifying when there are no checksums.
OpenColumn ==
    /\ stage = "write" /\ taken = <<>> /\ written # <<>>
    /\ \E path \in {"mmap", "fread"}, verify, keep \in BOOLEAN :
           /\ keep => image[1].header.type = "DICTIONARY"
           /\ verify => col.crc
           /\ reader' = carquet_column_reader_create(path, verify, keep, image[1].header.type = "DICTIONARY",
                          SumOf([k \in DOMAIN written |-> dict_accumulate(col, written[k]).n]))
    /\ stage' = "read"
    /\ UNCHANGED <<col, writer, taken, faults, image, written, damaged, handed>>

\* The chunk of an unmapped file is read ahead.
carquet_reader_prebuffer ==
    /\ stage = "read" /\ reader.next = 1 /\ reader.path = "fread" /\ reader.prebuffer = <<>> /\ damaged = 0
    /\ reader' = [reader EXCEPT !.prebuffer = [k \in DOMAIN image |-> image[k].payload]]
    /\ UNCHANGED <<col, writer, taken, faults, image, written, damaged, handed, stage>>

\* Before it is read, the file is damaged (the first or the last byte of a payload)
\* or, not being mapped, cut short.
Damage ==
    /\ stage = "read" /\ reader.next = 1 /\ damaged = 0 /\ faults < MaxFaults
    /\ \E k \in DOMAIN image : LET bytes == image[k].payload IN
           /\ \/ reader.verify /\ \E i \in {1, Len(bytes)} :
                     image' = [image EXCEPT ![k].payload[i] = (@ + 1) % 256]
              \/ reader.path = "fread" /\ k = Len(image)
                     /\ image' = [image EXCEPT ![k].payload = SubSeq(bytes, 1, Len(bytes) - 1)]
           /\ damaged' = k
    /\ faults' = faults + 1
    /\ UNCHANGED <<col, writer, taken, written, reader, handed, stage>>

DictionaryPages == Cardinality({k \in DOMAIN image : image[k].header.type = "DICTIONARY"})
LoadPage ==
    /\ stage = "read" /\ reader.next <= Len(image)
    /\ \E stale \in IF col.dict THEN 0..1 ELSE {0} : \E got \in {Load(reader, col, image, stale)} :
           IF got.ok
           THEN /\ reader' = [got.r EXCEPT !.next = @ + 1]
                /\ handed' = Append(handed, [number |-> got.r.next - DictionaryPages, page |-> got.page])
                /\ UNCHANGED stage
           ELSE stage' = "failed" /\ UNCHANGED <<reader, handed>>
    /\ UNCHANGED <<col, writer, taken, faults, image, written, damaged>>

\* The batch reader begins a batch: what the last one was given is gone.
carquet_column_clear_retained_pages ==
    /\ stage = "read" /\ handed # <<>>
    /\ reader' = [reader EXCEPT !.retained = <<>>] /\ handed' = <<>>
    /\ UNCHANGED <<col, writer, taken, faults, image, written, damaged, stage>>

PageNext == \/ AddValues \/ AddFails \/ FinishPage \/ FinishFails \/ FinishDictionary \/ FinishForeign
            \/ OpenColumn \/ carquet_reader_prebuffer \/ Damage \/ LoadPage \/ carquet_column_clear_retained_pages

NoReader == carquet_column_reader_create("mmap", FALSE, FALSE, FALSE, 0)
PageIdle ==
    /\ col = "none" /\ writer = "none" /\ taken = <<>> /\ faults = 0 /\ image = <<>> /\ written = <<>>
    /\ damaged = 0 /\ reader = NoReader /\ handed = <<>> /\ stage = "idle"
PageInit ==
    /\ col \in PageColumns /\ writer = carquet_page_writer_create(col)
    /\ taken = <<>> /\ faults = 0 /\ image = <<>> /\ written = <<>>
    /\ damaged = 0 /\ reader = NoReader /\ handed = <<>> /\ stage = "write"

-----------------------------------------------------------------------------

\* The bytes a caller finds where a value points to, now.
BytesAt(p) ==
    LET buffer == CASE p.buf = "file" -> image[p.k].payload
                    [] p.buf = "page" -> reader.page
                    [] p.buf = "decompressed" -> reader.decompressed
                    [] p.buf = "dictionary" -> reader.dict.data
                    [] OTHER -> reader.retained[p.k]
    IN  SubSeq(buffer, p.from + 1, p.from + p.len)
Entry(i) == IF col.type = "BYTE_ARRAY" THEN BytesAt(reader.dict.places[i + 1])
            ELSE SubSeq(reader.dict.data, i * col.width + 1, (i + 1) * col.width)
ValuesOf(page) == [i \in DOMAIN page.values |->
    IF reader.keep THEN Entry(page.values[i])
    ELSE IF col.type = "BYTE_ARRAY" THEN BytesAt(page.values[i]) ELSE page.values[i]]

\* Every page handed out for a batch holds the levels and the values the page was
\* written from, whatever the calls they came in, and still does when later pages of
\* the batch have been loaded; a page is refused only when it was damaged, and a
\* damaged page is never handed out by a reader that verifies checksums.
PagesReadBack ==
    /\ \A i \in DOMAIN handed :
           LET b == dict_accumulate(col, written[handed[i].number])
           IN  /\ handed[i].page.defs = b.defs /\ handed[i].page.reps = b.reps
               /\ ValuesOf(handed[i].page) = b.values
    /\ stage = "failed" => damaged # 0
=============================================================================
