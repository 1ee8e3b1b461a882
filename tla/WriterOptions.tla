--------------------------- MODULE WriterOptions ---------------------------
(***************************************************************************)
(* How the file writer resolves its options into what a column chunk is    *)
(* written with (file_writer.c, row_group_writer.c, column_writer.c): the  *)
(* options of the whole file, the setters of one column, the writers made  *)
(* from both for the first row group and reused for every later one, and   *)
(* what the footer then says of each chunk.                                *)
(*                                                                         *)
(* A column's rows are abstracted to what the encoder tells apart: the     *)
(* kinds of batches added to the chunk.  FileWriter models the cells, the  *)
(* offsets and the failures of a flush.                                    *)
(***************************************************************************)
EXTENDS Naturals, Sequences, FiniteSets

CONSTANTS
    LeafTypes,       \* the physical type of each column
    OptionChoices,   \* the options a writer is opened with
    SetterCalls,     \* the calls of the per-column setters
    RowBatches,         \* the batches of rows, by the kind each column's values are:
                     \* "nulls", "distinct", "repeats" or "wide" (large values)
    MaxSetters,      \* bound: setter calls in a behaviour
    MaxRowGroups     \* bound: row groups in a file

VARIABLES
    settings,     \* writer->options
    overrides,    \* writer->column_*_overrides, allocated together
    leaf_writers, \* writer->current_row_group's columns; <<>> is no row group
    resolved,     \* settings and overrides when leaf_writers was made
    chunks,       \* the row groups in the file, each with its footer entry
    setters       \* setter calls made so far

optionVars == <<settings, overrides, leaf_writers, resolved, chunks, setters>>

Leaves == 1..Len(LeafTypes)
NotSet == "unset"
Dictionaries == {"RLE_DICTIONARY", "PLAIN_DICTIONARY"}
DictionaryTypes == {"INT32", "INT64", "FLOAT", "DOUBLE", "BYTE_ARRAY"}

(* -------------------------------- options -------------------------------- *)

carquet_writer_options_init ==
    [compression |-> "UNCOMPRESSED", write_statistics |-> TRUE, write_page_index |-> FALSE,
     write_bloom_filters |-> FALSE, data_page_version |-> 1]

NoOverrides ==
    [allocated |-> FALSE,
     encoding |-> [c \in Leaves |-> NotSet], compression |-> [c \in Leaves |-> NotSet],
     statistics |-> [c \in Leaves |-> FALSE], bloom |-> [c \in Leaves |-> FALSE],
     bloom_set |-> {}]

\* The statistics and filter flags start as copies of the file's options.
ensure_column_overrides(o, s) ==
    IF o.allocated THEN o
    ELSE [o EXCEPT !.allocated = TRUE,
                   !.statistics = [c \in Leaves |-> s.write_statistics],
                   !.bloom = [c \in Leaves |-> s.write_bloom_filters]]

writer_encoding_supported(encoding, type) ==
    \/ encoding = "PLAIN"
    \/ encoding = "BYTE_STREAM_SPLIT"
         /\ type \in {"FLOAT", "DOUBLE", "INT32", "INT64", "FIXED_LEN_BYTE_ARRAY"}
    \/ encoding = "DELTA_BINARY_PACKED" /\ type \in {"INT32", "INT64"}
    \/ encoding = "DELTA_LENGTH_BYTE_ARRAY" /\ type = "BYTE_ARRAY"
    \/ encoding = "DELTA_BYTE_ARRAY" /\ type \in {"BYTE_ARRAY", "FIXED_LEN_BYTE_ARRAY"}
    \/ encoding \in Dictionaries /\ type \in DictionaryTypes

\* The legacy LZ4 codec names another framing: blocks are LZ4_RAW.
effective_column_compression(s, o, c) ==
    LET codec == IF o.allocated /\ o.compression[c] # NotSet THEN o.compression[c] ELSE s.compression
    IN  IF codec = "LZ4" THEN "LZ4_RAW" ELSE codec

effective_column_encoding(s, o, c) ==
    IF o.allocated /\ o.encoding[c] # NotSet THEN o.encoding[c]
    ELSE IF effective_column_compression(s, o, c) # "UNCOMPRESSED" /\ LeafTypes[c] \in {"FLOAT", "DOUBLE"}
         THEN "BYTE_STREAM_SPLIT"
    ELSE "PLAIN"

any_column_bloom_options_set(o) == o.allocated /\ o.bloom_set # {}

(* --------------------------- the column writers -------------------------- *)

\* carquet_row_group_writer_set_options: what every column added later gets.
RowGroupOptions(s) ==
    [write_bloom_filters |-> s.write_bloom_filters, write_page_index |-> s.write_page_index,
     write_statistics |-> s.write_statistics]

\* carquet_column_writer_create, with its page writer.
NewLeafWriter(encoding, compression, c) ==
    [page_encoding |-> encoding, page_compression |-> compression,
     page_version |-> 1, page_statistics |-> TRUE,
     use_dictionary |-> encoding \in Dictionaries /\ LeafTypes[c] \in DictionaryTypes,
     has_dictionary_page |-> FALSE,
     page_index |-> FALSE,
     bloom_ndv |-> FALSE,                    \* bloom_ndv > 0: a reset makes a new filter
     filter |-> FALSE, filtered |-> {},      \* the filter, what it was given
     held |-> {}, bounded |-> {},            \* rows, rows the bounds cover
     info_encoding |-> NotSet, info_compression |-> NotSet]   \* column_chunk_info

enable_bloom_filter(w) == IF w.filter THEN w ELSE [w EXCEPT !.bloom_ndv = TRUE, !.filter = TRUE]
enable_page_index(w) == [w EXCEPT !.page_index = TRUE]
set_statistics(w, enabled) == [w EXCEPT !.page_statistics = enabled]
set_data_page_v2(w) == [w EXCEPT !.page_version = 2]

\* Before any data: a filter made for every column is made anew or dropped.
configure_bloom_filter(w, enabled) == [w EXCEPT !.bloom_ndv = enabled, !.filter = enabled]

\* carquet_row_group_writer_add_column.
add_column(group, encoding, compression, c) ==
    LET made    == NewLeafWriter(encoding, compression, c)
        bloomed == IF group.write_bloom_filters THEN enable_bloom_filter(made) ELSE made
        indexed == IF group.write_page_index THEN enable_page_index(bloomed) ELSE bloomed
    IN  [set_statistics(indexed, group.write_statistics)
           EXCEPT !.info_encoding = encoding, !.info_compression = compression]

\* Once one column has filter options of its own, a column without has none.
ConfigureLeaf(w, s, o, c) ==
    LET paged == IF s.data_page_version = 2 THEN set_data_page_v2(w) ELSE w
    IN  IF any_column_bloom_options_set(o)
        THEN configure_bloom_filter(paged, c \in o.bloom_set /\ o.bloom[c])
        ELSE paged

\* The writers are made once: a later row group finds them and keeps them.
ensure_row_group(s, o) ==
    IF leaf_writers # <<>> THEN leaf_writers
    ELSE [c \in Leaves |->
            ConfigureLeaf(add_column(RowGroupOptions(s), effective_column_encoding(s, o, c),
                                     effective_column_compression(s, o, c), c), s, o, c)]

\* A batch feeds the filter at once and the bounds when its page is flushed.
AddRows(w, kind) ==
    [w EXCEPT !.held = @ \cup {kind},
              !.filtered = IF w.filter THEN @ \cup ({kind} \ {"nulls"}) ELSE @]

\* Why a dictionary is given up: no value, too large, or every value distinct.
GivesUp(w) == w.held \ {"nulls"} = {} \/ "wide" \in w.held \/ w.held \ {"nulls"} = {"distinct"}

dict_fallback_to_plain(w) == [w EXCEPT !.page_encoding = "PLAIN", !.use_dictionary = FALSE]

finalize_dictionary(w) ==
    IF GivesUp(w) THEN dict_fallback_to_plain(w)
    ELSE [w EXCEPT !.has_dictionary_page = TRUE, !.page_encoding = "RLE_DICTIONARY"]

\* carquet_column_writer_finalize: the chunk's last page is flushed.
FinalizeLeaf(w) ==
    LET done == IF w.use_dictionary THEN finalize_dictionary(w) ELSE w
    IN  [done EXCEPT !.bounded = IF w.page_statistics THEN w.held ELSE {}]

\* carquet_column_writer_reset: the encoding a chunk fell back to is kept.
ResetLeaf(w) ==
    [w EXCEPT !.has_dictionary_page = FALSE, !.filter = w.bloom_ndv, !.filtered = {},
              !.held = {}, !.bounded = {}]

(* ------------------------------- the footer ------------------------------ *)

ListedEncodings_Configured(w) ==
    IF w.info_encoding \in Dictionaries THEN <<"PLAIN", "RLE_DICTIONARY", "RLE">> ELSE <<w.info_encoding, "RLE">>

\* The encodings a chunk's metadata lists, once its pages are known.
ListedEncodings(w) ==
    IF w.has_dictionary_page THEN <<"PLAIN", "RLE_DICTIONARY", "RLE">>
    ELSE <<IF w.info_encoding \in Dictionaries THEN "PLAIN" ELSE w.info_encoding, "RLE">>

\* One column switched off suppresses its statistics; none is ever added.  The
\* leaves have an order: one without would have no statistics at all.
EmitStatistics(s, o, c) == IF o.allocated THEN o.statistics[c] ELSE s.write_statistics

FooterChunk(s, o, w, c) ==
    [codec |-> w.info_compression, encodings |-> ListedEncodings(w),
     has_dictionary_page_offset |-> w.has_dictionary_page,
     has_statistics |-> EmitStatistics(s, o, c) /\ s.write_statistics,
     has_bloom_filter_offset |-> s.write_bloom_filters /\ w.filter,
     has_column_index_offset |-> s.write_page_index /\ w.page_index]

\* What a reader is told of a chunk: the first four encodings, and a feature
\* only where the footer gives it a place.
carquet_reader_column_chunk_metadata(f) ==
    [codec |-> f.codec, has_dictionary_page |-> f.has_dictionary_page_offset,
     encodings |-> SubSeq(f.encodings, 1, IF Len(f.encodings) < 4 THEN Len(f.encodings) ELSE 4),
     has_bloom_filter |-> f.has_bloom_filter_offset,
     has_column_index |-> f.has_column_index_offset, has_offset_index |-> f.has_column_index_offset]

\* One row per row group and column, row groups outermost.
qio_parquet_column_chunks ==
    [at \in 1..(Len(chunks) * Len(LeafTypes)) |->
        LET g == ((at - 1) \div Len(LeafTypes)) + 1
            c == ((at - 1) % Len(LeafTypes)) + 1
            chunk == carquet_reader_column_chunk_metadata(chunks[g][c].footer)
        IN  [row_group |-> g, column |-> c, physical_type |-> LeafTypes[c], compression |-> chunk.codec,
             encodings |-> {chunk.encodings[e] : e \in DOMAIN chunk.encodings},
             dictionary_page |-> chunk.has_dictionary_page, bloom_filter |-> chunk.has_bloom_filter,
             page_index |-> chunk.has_column_index \/ chunk.has_offset_index]]

(* -------------------------------- actions -------------------------------- *)

SetEncoding(call) ==
    /\ call.set = "encoding"
    /\ overrides' =
         IF writer_encoding_supported(call.value, LeafTypes[call.column])
         THEN [ensure_column_overrides(overrides, settings) EXCEPT !.encoding[call.column] = call.value]
         ELSE overrides
    /\ UNCHANGED settings

SetCompression(call) ==
    /\ call.set = "compression"
    /\ overrides' = [ensure_column_overrides(overrides, settings) EXCEPT !.compression[call.column] = call.value]
    /\ UNCHANGED settings

SetStatistics(call) ==
    /\ call.set = "statistics"
    /\ overrides' = [ensure_column_overrides(overrides, settings) EXCEPT !.statistics[call.column] = call.value]
    /\ UNCHANGED settings

SetBloomFilter(call) ==
    /\ call.set = "bloom"
    /\ overrides' = [ensure_column_overrides(overrides, settings) EXCEPT !.bloom[call.column] = call.value]
    /\ UNCHANGED settings

SetBloomFilterOptions(call) ==
    /\ call.set = "bloom_options"
    /\ overrides' = [ensure_column_overrides(overrides, settings) EXCEPT !.bloom[call.column] = call.value,
                                                                         !.bloom_set = @ \cup {call.column}]
    /\ settings' = [settings EXCEPT !.write_bloom_filters = @ \/ call.value]

\* A setter may be called at any time; the header asks for before any data.
Set ==
    /\ settings # <<>> /\ setters < MaxSetters
    /\ setters' = setters + 1
    /\ \E call \in SetterCalls :
         \/ SetEncoding(call) \/ SetCompression(call) \/ SetStatistics(call)
         \/ SetBloomFilter(call) \/ SetBloomFilterOptions(call)
    /\ UNCHANGED <<leaf_writers, resolved, chunks>>

\* One batch for every column.  Where the writers cannot be made, the row group
\* is destroyed again and the call fails: nothing has changed.
WriteRows ==
    /\ settings # <<>> /\ Len(chunks) < MaxRowGroups
    /\ \E kinds \in RowBatches :
         leaf_writers' = [c \in Leaves |-> AddRows(ensure_row_group(settings, overrides)[c], kinds[c])]
    /\ resolved' = IF leaf_writers = <<>> THEN <<settings, overrides>> ELSE resolved
    /\ UNCHANGED <<settings, overrides, chunks, setters>>

\* flush_row_group: the chunks, their footer entries, and the writers reset.
FlushRowGroup ==
    /\ leaf_writers # <<>> /\ \A c \in Leaves : leaf_writers[c].held # {}
    /\ LET done == [c \in Leaves |-> FinalizeLeaf(leaf_writers[c])]
       IN  /\ chunks' = Append(chunks, [c \in Leaves |->
                          [written |-> done[c], footer |-> FooterChunk(settings, overrides, done[c], c)]])
           /\ leaf_writers' = [c \in Leaves |-> ResetLeaf(done[c])]
    /\ UNCHANGED <<settings, overrides, resolved, setters>>

OptionsIdle ==
    /\ settings = <<>> /\ overrides = <<>> /\ leaf_writers = <<>> /\ resolved = <<>>
    /\ chunks = <<>> /\ setters = 0

OptionsInit ==
    /\ settings \in OptionChoices /\ overrides = NoOverrides
    /\ leaf_writers = <<>> /\ resolved = <<>> /\ chunks = <<>> /\ setters = 0

OptionsNext == Set \/ WriteRows \/ FlushRowGroup

(* ------------------------------- properties ------------------------------ *)

\* The encoding a chunk's values may have: what the column was resolved to
\* when the first batch arrived, or PLAIN where that was a dictionary.
AllowedEncodings(s, o, c) ==
    LET asked == effective_column_encoding(s, o, c)
    IN  IF asked \in Dictionaries THEN {"RLE_DICTIONARY", "PLAIN"} ELSE {asked}

\* The filter a column asked for: its own options first, the file's otherwise.
FilterWanted(s, o, c) ==
    IF any_column_bloom_options_set(o) THEN c \in o.bloom_set /\ o.bloom[c]
    ELSE s.write_bloom_filters

\* Every row group of a file is written under the options in force when its
\* first batch arrived, whatever setter is called between row groups, whether
\* or not a dictionary was given up on the way; and the row column_chunks()
\* shows of a chunk tells what its pages really are: the codec, the encodings,
\* the dictionary page, the page index, a filter and bounds made from this
\* chunk's values alone.
ChunksFollowOptions ==
    \A at \in DOMAIN qio_parquet_column_chunks :
        LET shown == qio_parquet_column_chunks[at]
            g == shown.row_group
            c == shown.column
            w == chunks[g][c].written
        IN  /\ w.page_compression = effective_column_compression(resolved[1], resolved[2], c)
            /\ w.page_encoding \in AllowedEncodings(resolved[1], resolved[2], c)
            /\ w.page_version = resolved[1].data_page_version
            /\ w.filter = FilterWanted(resolved[1], resolved[2], c)
            /\ shown.compression = w.page_compression
            /\ w.page_encoding \in shown.encodings
            /\ w.has_dictionary_page = ("RLE_DICTIONARY" \in shown.encodings)
            /\ shown.dictionary_page = (w.page_encoding = "RLE_DICTIONARY")
            /\ shown.bloom_filter = w.filter
            /\ shown.page_index = resolved[1].write_page_index
            /\ w.filter => w.filtered = w.held \ {"nulls"}
            /\ chunks[g][c].footer.has_statistics => w.bounded = w.held
=============================================================================
