------------------------------- MODULE Delta --------------------------------
(***************************************************************************)
(* DELTA_BINARY_PACKED (encoding/delta.c): blocks of differences, each     *)
(* block with its smallest difference, cut into mini-blocks of one width   *)
(* each.  The 64-bit word is WordBits wide and the 32-bit one PackBits:    *)
(* differences wrap at WordBits, widths up to PackBits are bit-packed and  *)
(* wider ones are stored as whole bytes.                                   *)
(***************************************************************************)
EXTENDS Bitpack, FiniteSets

CONSTANTS WordBits,   \* 64 in the code
          PackBits,   \* 32: the widest bit-packed difference, and INT32
          BlockSize,  \* DELTA_BLOCK_SIZE
          MiniBlocks, \* DELTA_MINI_BLOCKS
          MaxBlock,   \* DELTA_MAX_BLOCK_SIZE
          MaxMini     \* DELTA_MAX_MINI_BLOCKS

ASSUME DeltaAssumption ==
    /\ {WordBits, PackBits, BlockSize, MiniBlocks, MaxBlock, MaxMini} \subseteq Nat \ {0}
    /\ PackBits < WordBits
    /\ BlockSize % (8 * MiniBlocks) = 0 /\ BlockSize <= MaxBlock /\ MiniBlocks <= MaxMini

\* A number as a word of w bits, read as signed and as unsigned.
Unsigned(x, w) == x % 2^w
Signed(x, w) == IF x % 2^w >= 2^(w - 1) THEN (x % 2^w) - 2^w ELSE x % 2^w

zigzag_encode64(n) == IF n >= 0 THEN 2 * n ELSE -2 * n - 1
zigzag_decode64(u) == IF u % 2 = 0 THEN u \div 2 ELSE -(u \div 2) - 1

RECURSIVE write_uleb128(_)
write_uleb128(v) == IF v >= 128 THEN <<(v % 128) + 128>> \o write_uleb128(v \div 128) ELSE <<v>>

\* Ten bytes at most; bytes = 0 stands for a truncated or endless number.
RECURSIVE read_uleb128(_, _, _, _)
read_uleb128(data, pos, i, sum) ==
    IF pos + i >= Len(data) \/ i >= 10 THEN [value |-> 0, bytes |-> 0]
    ELSE LET b == data[pos + i + 1]
             next == sum + (b % 128) * 2^(7 * i)
         IN  IF b < 128 THEN [value |-> next, bytes |-> i + 1]
             ELSE read_uleb128(data, pos, i + 1, next)

bit_width_required(v) == CHOOSE w \in 0..WordBits : v < 2^w /\ (w > 0 => v >= 2^(w - 1))

-----------------------------------------------------------------------------
(* The encoder. *)

LittleEndian(v, n) == [k \in 1..n |-> (v \div 256^(k - 1)) % 256]
RECURSIVE Concat(_)
Concat(seqs) == IF seqs = <<>> THEN <<>> ELSE Head(seqs) \o Concat(Tail(seqs))

SmallestOf(s) == CHOOSE x \in {s[i] : i \in DOMAIN s} : \A i \in DOMAIN s : x <= s[i]
GreatestOf(s) == CHOOSE x \in {s[i] : i \in DOMAIN s} : \A i \in DOMAIN s : x >= s[i]

MiniBlockSize == BlockSize \div MiniBlocks
PackedMini(v, w) ==
    IF w = 0 THEN <<>>
    ELSE IF w <= PackBits THEN carquet_bitpack_32(v, w)
    ELSE Concat([i \in DOMAIN v |-> LittleEndian(v[i], (w + 7) \div 8)])
\* The space reserved for a mini-block, before anything is written.
MiniBytes(w) == IF w <= PackBits THEN (MiniBlockSize * w) \div 8
                ELSE MiniBlockSize * ((w + 7) \div 8)
RECURSIVE SumOf(_)
SumOf(s) == IF s = <<>> THEN 0 ELSE Head(s) + SumOf(Tail(s))

\* The differences of a whole block measured from its first one instead.
Adjusted_FromFirst(deltas) ==
    [i \in 1..BlockSize |-> IF i <= Len(deltas) THEN Unsigned(deltas[i] - deltas[1], WordBits) ELSE 0]

\* The differences of a block less the smallest one, padded with zeros.
Adjusted(deltas) ==
    LET min == SmallestOf(deltas)
    IN  [i \in 1..BlockSize |-> IF i <= Len(deltas) THEN Unsigned(deltas[i] - min, WordBits) ELSE 0]
MiniOf(block, mb) == SubSeq(block, (mb - 1) * MiniBlockSize + 1, mb * MiniBlockSize)

delta_encoder_flush_block(enc, deltas) ==
    LET block == Adjusted(deltas)
        widths == [mb \in 1..MiniBlocks |-> bit_width_required(GreatestOf(MiniOf(block, mb)))]
        needed == 10 + MiniBlocks + SumOf([mb \in 1..MiniBlocks |-> MiniBytes(widths[mb])])
    IN  IF deltas = <<>> \/ ~enc.ok THEN enc
        ELSE IF Len(enc.data) + needed > enc.capacity THEN [enc EXCEPT !.ok = FALSE]
        ELSE [enc EXCEPT !.data = @ \o write_uleb128(zigzag_encode64(SmallestOf(deltas)))
                  \o widths \o Concat([mb \in 1..MiniBlocks |->
                                          PackedMini(MiniOf(block, mb), widths[mb])])]

RECURSIVE Blocks(_, _)
Blocks(enc, deltas) ==
    IF deltas = <<>> THEN enc
    ELSE LET n == Min2(BlockSize, Len(deltas))
         IN  Blocks(delta_encoder_flush_block(enc, SubSeq(deltas, 1, n)), From(deltas, n))

\* An empty page still has its header, with the first value 0.
carquet_delta_encode(values, capacity) ==
    LET n == Len(values)
        header == write_uleb128(BlockSize) \o write_uleb128(MiniBlocks) \o write_uleb128(n)
                     \o write_uleb128(zigzag_encode64(IF n = 0 THEN 0 ELSE values[1]))
        deltas == [i \in 1..(n - 1) |-> Signed(values[i + 1] - values[i], WordBits)]
    IN  IF capacity < 40 THEN [data |-> <<>>, capacity |-> capacity, ok |-> FALSE]
        ELSE Blocks([data |-> header, capacity |-> capacity, ok |-> TRUE], deltas)
carquet_delta_encode_int32(values, capacity) == carquet_delta_encode(values, capacity)
carquet_delta_encode_int64(values, capacity) == carquet_delta_encode(values, capacity)

-----------------------------------------------------------------------------
(* The decoder; a failed one has ok = FALSE. *)

delta_decoder_init(data) ==
    LET a == read_uleb128(data, 0, 0, 0)
        b == read_uleb128(data, a.bytes, 0, 0)
        c == read_uleb128(data, a.bytes + b.bytes, 0, 0)
        d == read_uleb128(data, a.bytes + b.bytes + c.bytes, 0, 0)
        ok == /\ a.bytes > 0 /\ b.bytes > 0 /\ c.bytes > 0 /\ d.bytes > 0
              /\ b.value \in 1..MaxMini
              /\ a.value \in 1..MaxBlock
    IN  [data |-> data, ok |-> ok, block |-> a.value, minis |-> b.value,
         pos |-> a.bytes + b.bytes + c.bytes + d.bytes,
         first |-> zigzag_decode64(d.value), min |-> 0, widths |-> <<>>,
         current |-> b.value, values |-> <<>>]

delta_decoder_read_block(dec) ==
    LET m == read_uleb128(dec.data, dec.pos, 0, 0)
        at == dec.pos + m.bytes
    IN  IF m.bytes = 0 \/ at + dec.minis > Len(dec.data) THEN [dec EXCEPT !.ok = FALSE]
        ELSE [dec EXCEPT !.min = zigzag_decode64(m.value), !.pos = at + dec.minis,
                         !.widths = SubSeq(dec.data, at + 1, at + dec.minis), !.current = 0]

\* The next mini-block, the next block's header before it where one is due.
delta_decoder_read_mini_block(dec0) ==
    LET dec == IF dec0.current >= dec0.minis THEN delta_decoder_read_block(dec0) ELSE dec0
        size == dec.block \div dec.minis
        w == dec.widths[dec.current + 1]
        stride == (w + 7) \div 8
        bytes == IF w <= PackBits THEN (size * w + 7) \div 8 ELSE size * stride
        raw == IF w <= PackBits
               THEN carquet_bitunpack_32(From(dec.data, dec.pos), size, w).values
               ELSE [i \in 1..size |-> Field(dec.data, 8 * (dec.pos + (i - 1) * stride), 8 * stride)]
    IN  IF ~dec.ok THEN dec
        ELSE IF w > WordBits \/ dec.pos + bytes > Len(dec.data) THEN [dec EXCEPT !.ok = FALSE]
        ELSE [dec EXCEPT !.values = [i \in 1..size |-> Signed(dec.min + raw[i], WordBits)],
                         !.pos = @ + bytes, !.current = @ + 1]

\* The first n differences; dec is the decoder after them.
RECURSIVE TakeDeltas(_, _)
TakeDeltas(dec, n) ==
    IF n = 0 THEN [dec |-> dec, out |-> <<>>]
    ELSE LET next == IF dec.values = <<>> THEN delta_decoder_read_mini_block(dec) ELSE dec
             k == Min2(n, Len(next.values))
         IN  IF ~next.ok THEN [dec |-> next, out |-> <<>>]
             ELSE LET rest == TakeDeltas([next EXCEPT !.values = From(@, k)], n - k)
                  IN  [dec |-> rest.dec, out |-> SubSeq(next.values, 1, k) \o rest.out]

\* Sums of a sequence of differences from a first value, in words of w bits.
RECURSIVE prefix_sum(_, _, _)
prefix_sum(deltas, initial, w) ==
    IF deltas = <<>> THEN <<>>
    ELSE LET sum == Signed(initial + Head(deltas), w)
         IN  <<sum>> \o prefix_sum(Tail(deltas), sum, w)

carquet_delta_decode(data, n, w) ==
    LET dec == delta_decoder_init(data)
        got == TakeDeltas(dec, n - 1)
        first == Signed(dec.first, w)
    IN  IF ~dec.ok THEN [ok |-> FALSE, values |-> <<>>, consumed |-> 0]
        ELSE IF n = 0 THEN [ok |-> TRUE, values |-> <<>>, consumed |-> dec.pos]
        ELSE IF ~got.dec.ok THEN [ok |-> FALSE, values |-> <<>>, consumed |-> 0]
        ELSE [ok |-> TRUE, values |-> <<first>> \o prefix_sum(got.out, first, w),
              consumed |-> got.dec.pos]
carquet_delta_decode_int32(data, n) == carquet_delta_decode(data, n, PackBits)
carquet_delta_decode_int64(data, n) == carquet_delta_decode(data, n, WordBits)

(***************************************************************************)
(* The two byte array encodings built on Delta: DELTA_LENGTH_BYTE_ARRAY    *)
(* (encoding/delta_length.c), lengths and then the bytes, and              *)
(* DELTA_BYTE_ARRAY (encoding/delta_strings.c), where each value keeps the *)
(* part it does not share with the one before it.  Allocations succeed.    *)
(***************************************************************************)

Capacity(n) == n * 10 + 100
Failed == [ok |-> FALSE, values |-> <<>>, consumed |-> 0]

carquet_delta_length_encode(values) ==
    LET lengths == carquet_delta_encode_int32([i \in DOMAIN values |-> Len(values[i])],
                       IF values = <<>> THEN 64 ELSE Capacity(Len(values)))
    IN  IF ~lengths.ok THEN [ok |-> FALSE, data |-> <<>>]
        ELSE [ok |-> TRUE, data |-> lengths.data \o Concat(values)]

\* Where each value starts in the bytes that follow the lengths.
Starts(lengths) == [i \in DOMAIN lengths |-> SumOf(SubSeq(lengths, 1, i - 1))]

carquet_delta_length_decode(data, n) ==
    LET lengths == carquet_delta_decode_int32(data, n)
        total == SumOf(lengths.values)
        at == Starts(lengths.values)
    IN  IF ~lengths.ok THEN Failed
        ELSE IF \E i \in 1..n : lengths.values[i] < 0 THEN Failed
        ELSE IF lengths.consumed + total > Len(data) THEN Failed
        ELSE [ok |-> TRUE, consumed |-> lengths.consumed + total,
              values |-> [i \in 1..n |-> SubSeq(data, lengths.consumed + at[i] + 1,
                                             lengths.consumed + at[i] + lengths.values[i])]]

common_prefix_length(a, b) ==
    CHOOSE k \in 0..Min2(Len(a), Len(b)) :
        /\ \A i \in 1..k : a[i] = b[i]
        /\ k < Min2(Len(a), Len(b)) => a[k + 1] # b[k + 1]

PrefixLengths(values) == [i \in DOMAIN values |->
                        IF i = 1 THEN 0 ELSE common_prefix_length(values[i - 1], values[i])]

carquet_delta_strings_encode(values) ==
    LET prefix == PrefixLengths(values)
        suffix == [i \in DOMAIN values |-> Len(values[i]) - prefix[i]]
        room == IF values = <<>> THEN 64 ELSE Capacity(Len(values))
        a == carquet_delta_encode_int32(prefix, room)
        b == carquet_delta_encode_int32(suffix, room)
    IN  IF ~a.ok \/ ~b.ok THEN [ok |-> FALSE, data |-> <<>>]
        ELSE [ok |-> TRUE, data |-> a.data \o b.data
                  \o Concat([i \in DOMAIN values |-> From(values[i], prefix[i])])]

\* Both length streams of a page.
Lengths(data, n) ==
    LET a == carquet_delta_decode_int32(data, n)
        b == carquet_delta_decode_int32(From(data, a.consumed), n)
    IN  [ok |-> /\ a.ok /\ b.ok
                /\ \A i \in 1..n : a.values[i] >= 0 /\ b.values[i] >= 0,
         prefix |-> a.values, suffix |-> b.values, consumed |-> a.consumed + b.consumed]

carquet_delta_strings_decoded_size(data, n) ==
    LET l == Lengths(data, n)
    IN  IF n <= 0 \/ ~l.ok THEN [ok |-> FALSE, size |-> 0]
        ELSE [ok |-> TRUE, size |-> SumOf(l.prefix) + SumOf(l.suffix)]

\* The strings from the i-th on, each made from the one before it; work is
\* what is left of the buffer that holds them.
RECURSIVE Rebuilt(_, _, _, _, _, _)
Rebuilt(data, l, i, pos, prev, work) ==
    IF i > Len(l.prefix) THEN [ok |-> TRUE, out |-> <<>>]
    ELSE IF l.prefix[i] + l.suffix[i] > work \/ l.prefix[i] > Len(prev)
    THEN [ok |-> FALSE, out |-> <<>>]
    ELSE LET s == SubSeq(prev, 1, l.prefix[i]) \o SubSeq(data, pos + 1, pos + l.suffix[i])
             rest == Rebuilt(data, l, i + 1, pos + l.suffix[i], s, work - Len(s))
         IN  [ok |-> rest.ok, out |-> <<s>> \o rest.out]

carquet_delta_strings_decode(data, n, work) ==
    LET l == Lengths(data, n)
        total == SumOf(l.suffix)
    IN  IF ~l.ok THEN Failed
        ELSE IF l.consumed + total > Len(data) THEN Failed
        ELSE LET r == Rebuilt(data, l, 1, l.consumed, <<>>, work)
             IN  IF ~r.ok THEN Failed
                 ELSE [ok |-> TRUE, values |-> r.out, consumed |-> l.consumed + total]

carquet_delta_strings_work_buffer_size(values) ==
    SumOf([i \in DOMAIN values |-> Len(values[i])])
carquet_delta_strings_max_encoded_size(values) ==
    IF values = <<>> THEN 0
    ELSE carquet_delta_strings_work_buffer_size(values) + Len(values) * 10 + 200
carquet_delta_length_max_encoded_size(values) ==
    IF values = <<>> THEN 0
    ELSE carquet_delta_strings_work_buffer_size(values) + Len(values) * 5 + 100
=============================================================================
