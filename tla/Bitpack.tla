------------------------------ MODULE Bitpack ------------------------------
(***************************************************************************)
(* Bit packing (core/bitpack.c): values of w bits laid end to end, least   *)
(* significant bit first, in groups of eight values that fill w bytes.     *)
(* Bytes are numbers below 256 and a byte string is a sequence of them;    *)
(* arrays of the code, indexed from 0, are sequences indexed from 1.       *)
(* Words stay below 2^31, so w is at most 22 here.                         *)
(***************************************************************************)
EXTENDS Integers, Sequences

Min2(a, b) == IF a <= b THEN a ELSE b
From(s, pos) == SubSeq(s, pos + 1, Len(s))
Zeros(n) == [i \in 1..n |-> 0]
BitOf(x, b) == (x \div 2^b) % 2

\* From left to right.  (The fold of the community modules recurses through
\* sets of positions, too deep for TLC on the longer inputs.)
Fold(Op(_, _), base, s) ==
    LET f[i \in 0..Len(s)] == IF i = 0 THEN base ELSE Op(f[i - 1], s[i]) IN f[Len(s)]

\* The sum of f[i] * 2^(i-1).
RECURSIVE Weighted(_)
Weighted(f) == IF f = <<>> THEN 0 ELSE Head(f) + 2 * Weighted(Tail(f))

\* The w bits of a little-endian byte string that start at bit k: what a
\* read_le followed by a shift and a mask gives.
Field(bytes, k, w) ==
    Weighted([b \in 1..w |-> BitOf(bytes[(k + b - 1) \div 8 + 1], (k + b - 1) % 8)])

carquet_packed_size(count, w) == (count * w + 7) \div 8

\* Widths 1 to 8 have an unrolled function each.
bitunpack8_fixed(input, w) == [i \in 1..8 |-> Field(input, (i - 1) * w, w)]

\* Widths 9 to 32: an accumulator refilled a byte at a time.
RECURSIVE Accumulate(_, _, _, _, _)
Accumulate(input, w, acc, held, got) ==
    IF Len(got) = 8 THEN got
    ELSE IF held < w
         THEN Accumulate(Tail(input), w, acc + Head(input) * 2^held, held + 8, got)
         ELSE Accumulate(input, w, acc \div 2^w, held - w, Append(got, acc % 2^w))

carquet_bitunpack8_32(input, w) ==
    IF w = 0 THEN Zeros(8)
    ELSE IF w <= 8 THEN bitunpack8_fixed(input, w)
    ELSE Accumulate(input, w, 0, 0, <<>>)

\* Whole groups first; the rest is unpacked from a copy padded with zeros, so
\* that no byte past the packed values is read.
RECURSIVE carquet_bitunpack_32(_, _, _)
carquet_bitunpack_32(input, count, w) ==
    IF w = 0 THEN [values |-> Zeros(count), used |-> 0]
    ELSE IF count = 0 THEN [values |-> <<>>, used |-> 0]
    ELSE IF count >= 8
    THEN LET rest == carquet_bitunpack_32(From(input, w), count - 8, w)
         IN  [values |-> carquet_bitunpack8_32(input, w) \o rest.values,
              used |-> w + rest.used]
    ELSE LET tail == carquet_packed_size(count, w)
             padded == SubSeq(input, 1, tail) \o Zeros(32 - tail)
         IN  [values |-> SubSeq(carquet_bitunpack8_32(padded, w), 1, count),
              used |-> tail]

\* Bit p of a packed group belongs to value p \div w.
carquet_bitpack8_32(values, w) ==
    [k \in 1..w |-> Weighted([b \in 1..8 |->
        LET p == 8 * (k - 1) + b - 1 IN BitOf(values[p \div w + 1] % 2^w, p % w)])]

RECURSIVE carquet_bitpack_32(_, _)
carquet_bitpack_32(values, w) ==
    IF w = 0 \/ values = <<>> THEN <<>>
    ELSE IF Len(values) >= 8
    THEN carquet_bitpack8_32(SubSeq(values, 1, 8), w) \o carquet_bitpack_32(From(values, 8), w)
    ELSE SubSeq(carquet_bitpack8_32(values \o Zeros(8 - Len(values)), w), 1,
                carquet_packed_size(Len(values), w))

\* The deprecated level encoding, most significant bit first; "bad" stands for
\* the return value -1.
carquet_decode_bitpacked_levels(data, w, count) ==
    IF w = 0 THEN [levels |-> Zeros(count), consumed |-> 0, bad |-> FALSE]
    ELSE IF w < 0 \/ w > 16 \/ carquet_packed_size(count, w) > Len(data)
    THEN [levels |-> <<>>, consumed |-> 0, bad |-> TRUE]
    ELSE [levels |-> [i \in 1..count |-> Weighted([b \in 1..w |->
                        LET p == i * w - b IN BitOf(data[p \div 8 + 1], 7 - (p % 8))])],
          consumed |-> carquet_packed_size(count, w), bad |-> FALSE]
=============================================================================
