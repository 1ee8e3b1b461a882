-------------------------------- MODULE Rle --------------------------------
(***************************************************************************)
(* The RLE/bit-packing hybrid (encoding/rle.c): the encoder and the        *)
(* decoder as records that each call maps to the next record, and the      *)
(* whole-buffer functions that decode levels without the decoder.          *)
(* Headers stay below 2^31, so the 32-bit truncation of a run of 2^31      *)
(* values is outside the model.                                            *)
(***************************************************************************)
EXTENDS Bitpack

ValueBytes(w) == (w + 7) \div 8
Repeat(v, n) == [i \in 1..n |-> v]
Int16(v) == IF v >= 2^15 THEN v - 2^16 ELSE v

RECURSIVE write_varint(_)
write_varint(v) == IF v >= 128 THEN <<(v % 128) + 128>> \o write_varint(v \div 128) ELSE <<v>>

\* Five bytes at most; "bad" stands for -1, truncated or too long.
RECURSIVE read_varint(_, _, _, _)
read_varint(data, pos, shift, sum) ==
    IF pos >= Len(data) \/ shift >= 32 THEN [pos |-> pos, value |-> sum, bad |-> TRUE]
    ELSE LET byte == data[pos + 1]
             next == sum + (byte % 128) * 2^shift
         IN  IF byte < 128 THEN [pos |-> pos + 1, value |-> next, bad |-> FALSE]
             ELSE read_varint(data, pos + 1, shift + 7, next)

write_value_bytes(v, n) == [k \in 1..n |-> (v \div 256^(k - 1)) % 256]
ReadValue(data, pos, w) == Weighted([b \in 1..8 * ValueBytes(w) |->
                               BitOf(data[pos + (b - 1) \div 8 + 1], (b - 1) % 8)]) % 2^w

-----------------------------------------------------------------------------
(* The encoder. *)

carquet_rle_encoder_init(w) ==
    [buffer |-> <<>>, w |-> w, has_prev |-> FALSE, prev |-> 0, repeat |-> 0,
     bitpack |-> <<>>, total |-> 0]

flush_rle(enc) ==
    IF enc.repeat = 0 THEN enc
    ELSE [enc EXCEPT !.buffer = @ \o write_varint(enc.repeat * 2)
                                  \o write_value_bytes(enc.prev, ValueBytes(enc.w)),
                     !.repeat = 0]

\* The bytes of a partial group: an RLE run for each stretch of equal values.
RECURSIVE RunsOf(_, _)
RunsOf(values, w) ==
    IF values = <<>> THEN <<>>
    ELSE LET n == CHOOSE k \in 1..Len(values) :
                    /\ \A i \in 1..k : values[i] = values[1]
                    /\ k < Len(values) => values[k + 1] # values[1]
         IN  write_varint(n * 2) \o write_value_bytes(values[1], ValueBytes(w))
                 \o RunsOf(From(values, n), w)

flush_bitpack_as_rle(enc) ==
    [enc EXCEPT !.buffer = @ \o RunsOf(enc.bitpack, enc.w), !.bitpack = <<>>, !.total = 0]

Groups(n, bytes) == [i \in 1..n * Len(bytes) |-> bytes[((i - 1) % Len(bytes)) + 1]]

flush_bitpack(enc) ==
    IF enc.bitpack = <<>> THEN enc
    ELSE IF Len(enc.bitpack) < 8 THEN flush_bitpack_as_rle(enc)
    ELSE LET num_groups == (enc.total + 7) \div 8
         IN  [enc EXCEPT !.buffer = @ \o write_varint(num_groups * 2 + 1)
                             \o Groups(num_groups, carquet_bitpack8_32(enc.bitpack, enc.w)),
                         !.bitpack = <<>>, !.total = 0]

\* The pending repeats become bit-packed values, a full group at a time.
RECURSIVE Buffered(_)
Buffered(enc) ==
    IF enc.repeat = 0 THEN enc
    ELSE LET more == [enc EXCEPT !.bitpack = Append(@, enc.prev), !.total = @ + 1,
                                 !.repeat = @ - 1]
         IN  Buffered(IF Len(more.bitpack) = 8 THEN flush_bitpack(more) ELSE more)

carquet_rle_encoder_put(enc, v) ==
    IF ~enc.has_prev THEN [enc EXCEPT !.prev = v, !.repeat = 1, !.has_prev = TRUE]
    ELSE IF v = enc.prev THEN [enc EXCEPT !.repeat = @ + 1]
    ELSE LET done == IF enc.repeat >= 8 THEN flush_rle(flush_bitpack(enc)) ELSE Buffered(enc)
         IN  [done EXCEPT !.prev = v, !.repeat = 1]

carquet_rle_encoder_put_repeat(enc, v, count) ==
    IF count <= 0 THEN enc
    ELSE IF enc.has_prev /\ v = enc.prev THEN [enc EXCEPT !.repeat = @ + count]
    ELSE IF enc.has_prev
    THEN [carquet_rle_encoder_put(enc, v) EXCEPT !.repeat = @ + count - 1]
    ELSE [enc EXCEPT !.prev = v, !.repeat = count, !.has_prev = TRUE]

carquet_rle_encoder_flush(enc) ==
    IF enc.repeat >= 8 THEN flush_rle(flush_bitpack(enc))
    ELSE IF enc.repeat > 0 THEN flush_bitpack(Buffered(enc))
    ELSE enc

RECURSIVE PutAll(_, _)
PutAll(enc, values) ==
    IF values = <<>> THEN enc
    ELSE PutAll(carquet_rle_encoder_put(enc, Head(values)), Tail(values))
carquet_rle_encode_all(values, w) ==
    carquet_rle_encoder_flush(PutAll(carquet_rle_encoder_init(w), values)).buffer
carquet_rle_encode_levels(levels, w) == carquet_rle_encode_all(levels, w)

-----------------------------------------------------------------------------
(* The decoder. *)

carquet_rle_decoder_init(data, w) ==
    LET valid == w \in 0..32
    IN  [data |-> data, w |-> IF valid THEN w ELSE 0, pos |-> 0, ok |-> valid,
         in_rle |-> FALSE, remaining |-> 0, value |-> 0, staged |-> <<>>]

carquet_rle_decoder_has_next(dec) == dec.ok /\ (dec.remaining > 0 \/ dec.pos < Len(dec.data))

\* A header, and the value of an RLE run; "started" is the return value.
RECURSIVE start_new_run(_)
start_new_run(dec) ==
    IF dec.pos >= Len(dec.data) THEN [dec |-> dec, started |-> FALSE]
    ELSE LET h == read_varint(dec.data, dec.pos, 0, 0)
             at == [dec EXCEPT !.pos = h.pos]
             run == [at EXCEPT !.in_rle = h.value % 2 = 0,
                               !.remaining = IF h.value % 2 = 0 THEN h.value \div 2
                                             ELSE (h.value \div 2) * 8]
             vb == ValueBytes(dec.w)
         IN  IF h.bad THEN [dec |-> [dec EXCEPT !.ok = FALSE], started |-> FALSE]
             ELSE IF run.remaining = 0 THEN start_new_run(run)
             ELSE IF ~run.in_rle
             THEN [dec |-> [run EXCEPT !.staged = <<>>], started |-> TRUE]
             ELSE IF run.pos + vb > Len(run.data)
             THEN [dec |-> [run EXCEPT !.ok = FALSE], started |-> FALSE]
             ELSE [dec |-> [run EXCEPT !.value = ReadValue(run.data, run.pos, run.w),
                                       !.pos = @ + vb],
                   started |-> TRUE]

\* The buffer of one unpacked group: "staged" is what bitpack_pos has not
\* passed of it.
fill_bitpack_buffer(dec) ==
    IF dec.remaining <= 0 THEN [dec |-> dec, filled |-> FALSE]
    ELSE IF dec.pos + dec.w > Len(dec.data)
    THEN [dec |-> [dec EXCEPT !.ok = FALSE], filled |-> FALSE]
    ELSE [dec |-> [dec EXCEPT !.staged = carquet_bitunpack8_32(From(dec.data, dec.pos), dec.w),
                              !.pos = @ + dec.w],
          filled |-> TRUE]

\* Up to n staged values leave the buffer.
Drained(dec, n) ==
    LET k == Min2(n, Min2(Len(dec.staged), dec.remaining))
    IN  [dec |-> [dec EXCEPT !.staged = From(@, k), !.remaining = @ - k],
         out |-> SubSeq(dec.staged, 1, k)]

carquet_rle_decoder_get(dec) ==
    LET begun == IF dec.ok /\ dec.remaining <= 0 THEN start_new_run(dec)
                 ELSE [dec |-> dec, started |-> dec.ok]
        full == IF begun.dec.staged = <<>> /\ ~begun.dec.in_rle THEN fill_bitpack_buffer(begun.dec)
                ELSE [dec |-> begun.dec, filled |-> TRUE]
    IN  IF ~begun.started THEN [dec |-> begun.dec, out |-> <<0>>]
        ELSE IF begun.dec.in_rle
        THEN [dec |-> [begun.dec EXCEPT !.remaining = @ - 1], out |-> <<begun.dec.value>>]
        ELSE IF ~full.filled THEN [dec |-> full.dec, out |-> <<0>>]
        ELSE Drained(full.dec, 1)

\* Whole groups go straight to the caller's buffer.
InPlace(dec, n) ==
    LET want == Min2(n, dec.remaining) \div 8
        have == IF dec.w = 0 THEN want ELSE Min2(want, (Len(dec.data) - dec.pos) \div dec.w)
    IN  [dec |-> [dec EXCEPT !.pos = @ + have * dec.w, !.remaining = @ - 8 * have,
                             !.ok = @ /\ have = want],
         out |-> carquet_bitunpack_32(From(dec.data, dec.pos), 8 * have, dec.w).values]

\* The values short of a group go through the buffer.
RECURSIVE Staged(_, _)
Staged(dec, n) ==
    IF n <= 0 \/ dec.remaining <= 0 THEN [dec |-> dec, out |-> <<>>]
    ELSE LET full == IF dec.staged = <<>> THEN fill_bitpack_buffer(dec)
                     ELSE [dec |-> dec, filled |-> TRUE]
         IN  IF ~full.filled THEN [dec |-> full.dec, out |-> <<>>]
             ELSE LET part == Drained(full.dec, n)
                      rest == Staged(part.dec, n - Len(part.out))
                  IN  [dec |-> rest.dec, out |-> part.out \o rest.out]

BitPackedPart(dec, n) ==
    LET a == Drained(dec, n)
        b == InPlace(a.dec, n - Len(a.out))
        c == Staged(b.dec, n - Len(a.out) - Len(b.out))
    IN  [dec |-> c.dec, out |-> a.out \o b.out \o c.out]

RlePart(dec, n) ==
    LET k == Min2(n, dec.remaining)
    IN  [dec |-> [dec EXCEPT !.remaining = @ - k], out |-> Repeat(dec.value, k)]

RECURSIVE carquet_rle_decoder_get_batch(_, _)
carquet_rle_decoder_get_batch(dec, count) ==
    IF count <= 0 \/ ~carquet_rle_decoder_has_next(dec) THEN [dec |-> dec, out |-> <<>>]
    ELSE LET begun == IF dec.remaining <= 0 THEN start_new_run(dec)
                      ELSE [dec |-> dec, started |-> TRUE]
         IN  IF ~begun.started THEN [dec |-> begun.dec, out |-> <<>>]
             ELSE LET part == IF begun.dec.in_rle THEN RlePart(begun.dec, count)
                              ELSE BitPackedPart(begun.dec, count)
                      rest == carquet_rle_decoder_get_batch(part.dec, count - Len(part.out))
                  IN  [dec |-> rest.dec, out |-> part.out \o rest.out]

\* A skip walks the staged group and unpacks the ones it passes.
RECURSIVE carquet_rle_decoder_skip(_, _)
carquet_rle_decoder_skip(dec, count) ==
    IF count <= 0 \/ ~carquet_rle_decoder_has_next(dec) THEN [dec |-> dec, skipped |-> 0]
    ELSE LET begun == IF dec.remaining <= 0 THEN start_new_run(dec)
                      ELSE [dec |-> dec, started |-> TRUE]
         IN  IF ~begun.started THEN [dec |-> begun.dec, skipped |-> 0]
             ELSE LET part == IF begun.dec.in_rle THEN RlePart(begun.dec, count)
                              ELSE Staged(begun.dec, count)
                      rest == carquet_rle_decoder_skip(part.dec, count - Len(part.out))
                  IN  [dec |-> rest.dec, skipped |-> Len(part.out) + rest.skipped]

carquet_rle_decode_all(data, w, max) ==
    carquet_rle_decoder_get_batch(carquet_rle_decoder_init(data, w), max).out

-----------------------------------------------------------------------------
(* Levels, decoded without the decoder. *)

\* The groups of a bit-packed run that are present, until max values are out.
RECURSIVE LevelGroups(_, _, _, _, _)
LevelGroups(data, pos, w, groups, max) ==
    IF groups = 0 \/ max <= 0 \/ pos + w > Len(data) THEN [pos |-> pos, out |-> <<>>]
    ELSE LET rest == LevelGroups(data, pos + w, w, groups - 1, max - 8)
         IN  [pos |-> rest.pos,
              out |-> SubSeq(carquet_bitunpack8_32(From(data, pos), w), 1, Min2(8, max)) \o rest.out]

RECURSIVE DecodeLevels(_, _, _, _)
DecodeLevels(data, pos, w, max) ==
    IF max <= 0 \/ pos >= Len(data) THEN <<>>
    ELSE LET h == read_varint(data, pos, 0, 0)
             n == h.value \div 2
             vb == ValueBytes(w)
         IN  IF n = 0 THEN DecodeLevels(data, h.pos, w, max)
             ELSE IF h.value % 2 = 0
             THEN IF h.pos + vb > Len(data) THEN <<>>
                  ELSE Repeat(Int16(ReadValue(data, h.pos, w)), Min2(n, max))
                          \o DecodeLevels(data, h.pos + vb, w, max - Min2(n, max))
             ELSE LET bulk == w >= 1 /\ n <= (Len(data) - h.pos) \div w /\ n * 8 <= max
                      all == carquet_bitunpack_32(From(data, h.pos), n * 8, w)
                      run == IF bulk THEN [pos |-> h.pos + all.used, out |-> all.values]
                             ELSE LevelGroups(data, h.pos, w, n, max)
                  IN  [i \in DOMAIN run.out |-> Int16(run.out[i])]
                          \o DecodeLevels(data, run.pos, w, max - Len(run.out))

carquet_rle_decode_levels(data, w, max) ==
    IF max <= 0 \/ w \notin 0..32 THEN <<>> ELSE DecodeLevels(data, 0, w, max)

\* "bad" stands for -1.
carquet_rle_decode_levels_prefixed(data, w, max) ==
    IF Len(data) < 4 THEN [out |-> <<>>, consumed |-> 0, bad |-> TRUE]
    ELSE LET n == Field(data, 0, 24)
         IN  IF 4 + n > Len(data) THEN [out |-> <<>>, consumed |-> 0, bad |-> TRUE]
             ELSE [out |-> carquet_rle_decode_levels(SubSeq(data, 5, 4 + n), w, max),
                   consumed |-> 4 + n, bad |-> FALSE]

\* The presence bits of a width-1 stream: the set of positions whose bit is
\* set, and how many positions were read.
RECURSIVE Bitmap(_, _, _, _)
Bitmap(data, pos, count, max) ==
    IF count >= max \/ pos >= Len(data) THEN [count |-> count, set |-> {}]
    ELSE LET h == read_varint(data, pos, 0, 0)
             n == h.value \div 2
             k == Min2(n, max - count)
         IN  IF n = 0 THEN Bitmap(data, h.pos, count, max)
             ELSE IF h.value % 2 = 0
             THEN IF h.pos >= Len(data) THEN [count |-> count, set |-> {}]
                  ELSE LET rest == Bitmap(data, h.pos + 1, count + k, max)
                       IN  [rest EXCEPT !.set = @ \cup IF data[h.pos + 1] % 2 = 1
                                                       THEN count..count + k - 1 ELSE {}]
             ELSE LET run == LevelGroups(data, h.pos, 1, n, max - count)
                      rest == Bitmap(data, run.pos, count + Len(run.out), max)
                  IN  [rest EXCEPT !.set = @ \cup {count + i - 1 : i \in
                                        {j \in DOMAIN run.out : run.out[j] = 1}}]

carquet_rle_decode_to_bitmap(data, max) ==
    IF max <= 0 \/ data = <<>> THEN [count |-> 0, set |-> {}] ELSE Bitmap(data, 0, 0, max)
=============================================================================
