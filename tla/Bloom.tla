------------------------------- MODULE Bloom --------------------------------
(***************************************************************************)
(* Split block bloom filters: src/carquet/metadata/bloom_filter.c, their   *)
(* Thrift header as writer/file_writer.c writes it and                     *)
(* reader/file_reader.c reads it with a parser of its own.  A filter is a  *)
(* sequence of blocks, a block a sequence of words, a word the set of its  *)
(* bits.  A hash is a pair: what the top half of the 64 bits says of the   *)
(* block, and the low half, the key, that the salts are multiplied with.   *)
(***************************************************************************)
EXTENDS ParquetTypes, FiniteSets

CONSTANTS SALT,       \* one odd number per word of a block
          KeyBits,    \* width of the key, 32 in the code
          BitBits     \* 2^BitBits bits in a word, 5 in the code

ASSUME BloomAssumption == BitBits <= KeyBits /\ \A i \in DOMAIN SALT : SALT[i] \in 0..2^KeyBits - 1

WordsPerBlock == Len(SALT)
BlockSize_ == WordsPerBlock * (2^BitBits \div 8)      \* in bytes

bloom_filter_block_index(hash, num_blocks) == (hash.top * num_blocks) \div 2^KeyBits

bit_pos(i, hash) == ((SALT[i] * hash.key) % 2^KeyBits) \div 2^(KeyBits - BitBits)
bloom_filter_block_insert(block, hash) == [i \in DOMAIN block |-> block[i] \cup {bit_pos(i, hash)}]
bloom_filter_block_check(block, hash) == \A i \in DOMAIN block : bit_pos(i, hash) \in block[i]

\* At least one block, and whole blocks.
carquet_bloom_filter_create(num_bytes) ==
    LET least == IF num_bytes < BlockSize_ THEN BlockSize_ ELSE num_bytes
    IN  [b \in 1..(least + BlockSize_ - 1) \div BlockSize_ |-> [i \in 1..WordsPerBlock |-> {}]]

\* The block by the remainder, as an earlier form of the format had it.
carquet_bloom_filter_insert_hash_Modulo(filter, hash) ==
    [filter EXCEPT ![(hash.top % Len(filter)) + 1] = bloom_filter_block_insert(@, hash)]

carquet_bloom_filter_insert_hash(filter, hash) ==
    [filter EXCEPT ![bloom_filter_block_index(hash, Len(filter)) + 1] = bloom_filter_block_insert(@, hash)]

carquet_bloom_filter_check_hash(filter, hash) ==
    bloom_filter_block_check(filter[bloom_filter_block_index(hash, Len(filter)) + 1], hash)

carquet_bloom_filter_merge(dest, src) ==
    IF Len(dest) # Len(src) THEN dest
    ELSE [b \in DOMAIN dest |-> [i \in 1..WordsPerBlock |-> dest[b][i] \cup src[b][i]]]

(* -------------------------------- bytes --------------------------------- *)

\* The words of the blocks, little-endian.
BytesOfWord(word) == [k \in 1..2^BitBits \div 8 |->
                        LET ones == {j \in 0..7 : (k - 1) * 8 + j \in word}
                            sum[s \in SUBSET ones] == IF s = {} THEN 0
                                                      ELSE LET j == CHOOSE j \in s : TRUE IN 2^j + sum[s \ {j}]
                        IN  sum[ones]]
carquet_bloom_filter_data(filter) ==
    Concatenated([b \in DOMAIN filter |-> Concatenated([i \in 1..WordsPerBlock |-> BytesOfWord(filter[b][i])])])

\* Whole blocks, or no filter.
carquet_bloom_filter_from_data(data) ==
    LET per == 2^BitBits \div 8
        byte(b, i, k) == data[(b - 1) * BlockSize_ + (i - 1) * per + k]
    IN  IF Len(data) < BlockSize_ \/ Len(data) % BlockSize_ # 0 THEN <<>>
        ELSE [b \in 1..Len(data) \div BlockSize_ |-> [i \in 1..WordsPerBlock |->
                {p \in 0..2^BitBits - 1 : (byte(b, i, (p \div 8) + 1) \div 2^(p % 8)) % 2 = 1}]]

Tagged == AStruct(<<IfSet(1, "kind", AnEmptyStruct)>>)

\* numBytes, then three unions that each say their one choice.
BloomHeader(num_bytes) ==
    WriteAs([num_bytes |-> num_bytes, algorithm |-> [kind |-> <<>>], hash |-> [kind |-> <<>>],
             compression |-> [kind |-> <<>>]],
            AStruct(<<Always(1, "num_bytes", i32), Always(2, "algorithm", Tagged), Always(3, "hash", Tagged),
                      Always(4, "compression", Tagged)>>))

(* ------------------- the reader's own parser of the header -------------- *)

\* p past a varint that starts there.
RECURSIVE PastVarint(_, _)
PastVarint(data, p) == IF p >= Len(data) THEN Len(data)
                       ELSE IF data[p + 1] < 128 THEN p + 1 ELSE PastVarint(data, p + 1)
VarintAt(data, p) == thrift_read_varint([thrift_decoder_init(data) EXCEPT !.pos = p])

\* p past a value of this wire type; lists, sets and maps are not skipped.
PastValue(data, p, type) ==
    CASE type \in {I32, I64} -> PastVarint(data, p)
      [] type = DOUBLE -> p + 8
      [] type = BYTE -> p + 1
      [] type = BINARY -> LET n == VarintAt(data, p)
                          IN  IF n.v > Len(data) - n.d.pos THEN Len(data) ELSE n.d.pos + n.v
      [] OTHER -> p

\* Where the value of a field whose header was just read starts.
PastId(data, p, header) == IF header \div 16 = 0 THEN PastVarint(data, p) ELSE p

\* The structures nested in the header, by counting the STOPs.
RECURSIVE PastStruct(_, _, _)
PastStruct(data, p, depth) ==
    IF p >= Len(data) \/ depth = 0 THEN p
    ELSE LET h == data[p + 1]
             q == PastId(data, p + 1, h)
         IN  IF h = 0 THEN PastStruct(data, p + 1, depth - 1)
             ELSE IF h % 16 = STRUCT THEN PastStruct(data, q, depth + 1)
             ELSE PastStruct(data, PastValue(data, q, h % 16), depth)

\* The first i32 is numBytes, whatever its field id.
RECURSIVE HeaderFrom(_, _, _)
HeaderFrom(data, p, num_bytes) ==
    IF p >= Len(data) THEN [num_bytes |-> num_bytes, size |-> p]
    ELSE LET h == data[p + 1]
             q == PastId(data, p + 1, h)
             n == VarintAt(data, q)
         IN  IF h = 0 THEN [num_bytes |-> num_bytes, size |-> p + 1]
             ELSE IF h % 16 = I32 /\ num_bytes = 0
             THEN HeaderFrom(data, n.d.pos, carquet_zigzag_decode64(n.v))
             ELSE IF h % 16 = STRUCT THEN HeaderFrom(data, PastStruct(data, q, 1), num_bytes)
             ELSE HeaderFrom(data, PastValue(data, q, h % 16), num_bytes)

\* The filter of a chunk, <<>> when there is none to be had.
carquet_reader_get_bloom_filter(region) ==
    LET h == HeaderFrom(region, 0, 0)
    IN  IF region = <<>> \/ h.num_bytes <= 0 \/ h.size + h.num_bytes > Len(region) THEN <<>>
        ELSE carquet_bloom_filter_from_data(SubSeq(region, h.size + 1, h.size + h.num_bytes))

(***************************************************************************)
(* A column chunk's bloom filter from the values the column writer inserts *)
(* to the answer R gets: src/carquet/writer/column_writer.c, file_writer.c *)
(* and bloom_filter_may_contain(), qio_parquet_bloom_check in qio_file.c.  *)
(* A column value is the integer the writer hashes.  An R value has the    *)
(* storage C sees, the class R sees, and the number it stands for; a       *)
(* timestamp stands for seconds and is stored in TicksPerSecond.           *)
(***************************************************************************)

CONSTANTS ColumnTypes,       \* physical types of the column
          ColumnValues,      \* what the column may hold
          RValues,           \* what R may ask for
          Hash(_),           \* carquet_xxhash64
          TicksPerSecond,
          FilterBytes,       \* the sizes asked for
          MaxInserts

VARIABLES chunk_type, inserted, filter, region, batches, asked, answer

bloomVars == <<chunk_type, inserted, filter, region, batches, asked, answer>>

\* update_bloom_filter: the present values of one batch.
bloom_insert_values(values) ==
    /\ region = <<>> /\ batches < MaxInserts
    /\ inserted' = inserted \cup values /\ batches' = batches + 1
    /\ filter' = LET insert[s \in SUBSET values] ==
                        IF s = {} THEN filter
                        ELSE LET v == CHOOSE v \in s : TRUE
                             IN  carquet_bloom_filter_insert_hash(insert[s \ {v}], Hash(v))
                 IN  insert[values]
    /\ UNCHANGED <<chunk_type, region, asked, answer>>

\* The header and the bits go behind the row group's data.
WriteFilter ==
    /\ region = <<>> /\ batches > 0
    /\ region' = BloomHeader(Len(carquet_bloom_filter_data(filter))) \o carquet_bloom_filter_data(filter)
    /\ UNCHANGED <<chunk_type, inserted, filter, batches, asked, answer>>

\* What C reads in the storage of an R number: an integer64 is the bits of an integer
\* in a double, which as a double lies between 0 and the smallest normal number.
AsInserted(v) == IF v.class = "integer64" THEN 0 ELSE v.number

qio_parquet_bloom_check(v) ==
    LET numeric == chunk_type \in {"INT32", "INT64", "FLOAT", "DOUBLE"}
        text == chunk_type \in {"BYTE_ARRAY", "FIXED_LEN_BYTE_ARRAY"}
        found == carquet_reader_get_bloom_filter(region)
    IN  IF ~numeric /\ ~text THEN "error"
        ELSE IF numeric # (v.sexp \in {"INTSXP", "REALSXP"}) THEN "error"
        ELSE IF found = <<>> THEN "error"
        ELSE IF v.na THEN "NA"
        ELSE IF carquet_bloom_filter_check_hash(found, Hash(AsInserted(v))) THEN "maybe" ELSE "absent"

bloom_filter_may_contain(v) ==
    /\ region # <<>> /\ answer = "none"
    /\ asked' = v /\ answer' = qio_parquet_bloom_check(v)
    /\ UNCHANGED <<chunk_type, inserted, filter, region, batches>>

NoValue == [sexp |-> "NILSXP", class |-> "none", number |-> 0, na |-> TRUE]

BloomInit == /\ chunk_type \in ColumnTypes /\ inserted = {} /\ region = <<>> /\ batches = 0
             /\ filter \in {carquet_bloom_filter_create(n) : n \in FilterBytes}
             /\ asked = NoValue /\ answer = "none"
BloomIdle == /\ chunk_type = "none" /\ inserted = {} /\ region = <<>> /\ batches = 0 /\ filter = <<>>
             /\ asked = NoValue /\ answer = "none"
BloomNext == \/ \E values \in SUBSET ColumnValues : chunk_type # "none" /\ bloom_insert_values(values)
             \/ WriteFilter
             \/ \E v \in RValues : bloom_filter_may_contain(v)

\* The integer the column holds for this R value.
Physical(v) == IF v.class = "POSIXct" THEN v.number * TicksPerSecond ELSE v.number

\* A value that the column chunk holds is never called absent, however the values
\* were batched, whatever bits they share, and through the header and the bytes of
\* the file: FALSE is proof of absence.
FalseMeansAbsent == answer = "absent" => Physical(asked) \notin inserted
=============================================================================
