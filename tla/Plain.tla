------------------------------- MODULE Plain --------------------------------
(***************************************************************************)
(* PLAIN (encoding/plain.c).  A value of a fixed type is the tuple of its  *)
(* little-endian bytes, a boolean 0 or 1 and a byte array any tuple of     *)
(* bytes.  A decoder gives the values and the bytes it used; "bad" stands  *)
(* for -1.                                                                 *)
(***************************************************************************)
EXTENDS SimdKernels

Undecodable == [values |-> <<>>, used |-> 0, bad |-> TRUE]

\* The generic shape of the fixed types: one bounds test, one copy.
DecodeFixed(input, width, count) ==
    IF Len(input) < count * width THEN Undecodable
    ELSE [values |-> [i \in 1..count |-> SubSeq(input, (i - 1) * width + 1, i * width)],
          used |-> count * width, bad |-> FALSE]

carquet_decode_plain_boolean(input, count) ==
    LET needed == (count + 7) \div 8
    IN  IF Len(input) < needed THEN Undecodable
        ELSE [values |-> scalar_unpack_bools([input |-> input, count |-> count]),
              used |-> needed, bad |-> FALSE]
carquet_decode_plain_int32(input, count) == DecodeFixed(input, 4, count)
carquet_decode_plain_int64(input, count) == DecodeFixed(input, 8, count)
carquet_decode_plain_int96(input, count) == DecodeFixed(input, 12, count)
carquet_decode_plain_float(input, count) == DecodeFixed(input, 4, count)
carquet_decode_plain_double(input, count) == DecodeFixed(input, 8, count)
carquet_decode_plain_fixed_byte_array(input, count, fixed_len) ==
    IF fixed_len <= 0 THEN Undecodable ELSE DecodeFixed(input, fixed_len, count)

carquet_read_i32_le(input, pos) ==
    IF input[pos + 4] >= 128 THEN -1 ELSE Field(input, 8 * pos, 31)

\* A length, tested against what is left, and then the bytes.  A length whose
\* sign bit is set is negative.
RECURSIVE ByteArrays(_, _, _)
ByteArrays(input, pos, count) ==
    IF count = 0 THEN [values |-> <<>>, used |-> pos, bad |-> FALSE]
    ELSE IF pos + 4 > Len(input) THEN Undecodable
    ELSE LET len == carquet_read_i32_le(input, pos)
         IN  IF len < 0 \/ pos + 4 + len > Len(input) THEN Undecodable
             ELSE LET rest == ByteArrays(input, pos + 4 + len, count - 1)
                  IN  [rest EXCEPT !.values = <<SubSeq(input, pos + 5, pos + 4 + len)>> \o @]
carquet_decode_plain_byte_array(input, count) == ByteArrays(input, 0, count)

\* The bits are written over zeros; a page without values needs no byte.
carquet_encode_plain_boolean(values) == scalar_pack_bools([input |-> values])
carquet_encode_plain_int32(values) == Join(values)
carquet_encode_plain_int64(values) == Join(values)
carquet_encode_plain_int96(values) == Join(values)
carquet_encode_plain_float(values) == Join(values)
carquet_encode_plain_double(values) == Join(values)
carquet_encode_plain_fixed_byte_array(values) == Join(values)

carquet_write_u32_le(v) == [k \in 1..4 |-> IF k = 4 THEN v \div 2^24 ELSE (v \div 256^(k - 1)) % 256]
carquet_encode_plain_byte_array(values) ==
    Fold(LAMBDA out, v : out \o carquet_write_u32_le(Len(v)) \o v, <<>>, values)

carquet_decode_plain(input, type, type_length, count) ==
    CASE type = "BOOLEAN" -> carquet_decode_plain_boolean(input, count)
      [] type = "INT32" -> carquet_decode_plain_int32(input, count)
      [] type = "INT64" -> carquet_decode_plain_int64(input, count)
      [] type = "INT96" -> carquet_decode_plain_int96(input, count)
      [] type = "FLOAT" -> carquet_decode_plain_float(input, count)
      [] type = "DOUBLE" -> carquet_decode_plain_double(input, count)
      [] type = "BYTE_ARRAY" -> carquet_decode_plain_byte_array(input, count)
      [] type = "FIXED" -> carquet_decode_plain_fixed_byte_array(input, count, type_length)

(***************************************************************************)
(* BYTE_STREAM_SPLIT (encoding/byte_stream_split.c): byte b of every value *)
(* in stream b.  A page of more values than a tile is decoded tile by      *)
(* tile, each tile gathered from all streams first.                        *)
(***************************************************************************)

CONSTANTS TileFloat,   \* BSS_TILE_FLOAT
          TileDouble   \* BSS_TILE_DOUBLE

ASSUME TileAssumption == TileFloat \in Nat \ {0} /\ TileDouble \in Nat \ {0}

Unsplit(data, count, width) == scalar_byte_split_decode([data |-> data, count |-> count, width |-> width])

\* The slice of every stream that a tile holds, laid end to end.
GatherTile(data, count, width, offset, n) ==
    [p \in 1..width * n |-> data[((p - 1) \div n) * count + offset + ((p - 1) % n) + 1]]

RECURSIVE Tiles(_, _, _, _, _)
Tiles(data, count, width, tile, offset) ==
    IF offset >= count THEN <<>>
    ELSE LET n == Min2(count - offset, tile)
         IN  Unsplit(GatherTile(data, count, width, offset, n), n, width)
                 \o Tiles(data, count, width, tile, offset + n)

carquet_bss_decode_float_tiled(data, count) ==
    IF count <= TileFloat THEN Unsplit(data, count, 4) ELSE Tiles(data, count, 4, TileFloat, 0)
carquet_bss_decode_double_tiled(data, count) ==
    IF count <= TileDouble THEN Unsplit(data, count, 8) ELSE Tiles(data, count, 8, TileDouble, 0)

\* A capacity too small is an error before anything is written.
Split(values, width, capacity) ==
    IF capacity < Len(values) * width THEN [ok |-> FALSE, data |-> <<>>]
    ELSE [ok |-> TRUE, data |-> scalar_byte_split_encode([values |-> values, width |-> width])]
carquet_byte_stream_split_encode_float(values, capacity) == Split(values, 4, capacity)
carquet_byte_stream_split_encode_double(values, capacity) == Split(values, 8, capacity)
carquet_byte_stream_split_encode(values, width, capacity) ==
    IF width <= 0 THEN [ok |-> FALSE, data |-> <<>>]
    ELSE IF width = 4 THEN carquet_byte_stream_split_encode_float(values, capacity)
    ELSE IF width = 8 THEN carquet_byte_stream_split_encode_double(values, capacity)
    ELSE Split(values, width, capacity)

carquet_byte_stream_split_decode_float(data, count) ==
    IF Len(data) < count * 4 THEN [ok |-> FALSE, values |-> <<>>]
    ELSE [ok |-> TRUE, values |-> Unsplit(data, count, 4)]
carquet_byte_stream_split_decode_double(data, count) ==
    IF Len(data) < count * 8 THEN [ok |-> FALSE, values |-> <<>>]
    ELSE [ok |-> TRUE, values |-> Unsplit(data, count, 8)]
carquet_byte_stream_split_decode(data, width, count) ==
    IF width <= 0 \/ Len(data) < count * width THEN [ok |-> FALSE, values |-> <<>>]
    ELSE [ok |-> TRUE,
          values |-> IF width = 4 THEN carquet_bss_decode_float_tiled(data, count)
                     ELSE IF width = 8 THEN carquet_bss_decode_double_tiled(data, count)
                     ELSE Unsplit(data, count, width)]
=============================================================================
