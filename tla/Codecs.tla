------------------------------- MODULE Codecs -------------------------------
(***************************************************************************)
(* The compression codecs of the repository, Snappy and LZ4.               *)
(*                                                                         *)
(* The output buffer of a decompressor: a sequence of bytes in which the   *)
(* ones not written yet are Unset.  Positions count from 0.  The block     *)
(* copies read and write more than the match they copy, so what lies       *)
(* behind the write position matters.  A write past the end leaves <<>>.   *)
(***************************************************************************)
EXTENDS Integers, Sequences

Unset == -1
Fresh(n) == [k \in 1..n |-> Unset]

\* n bytes from one place of the buffer to another, all read before any is written.
CopyBytes(mem, from, to, n) ==
    [k \in 1..Len(mem) |-> IF k - 1 \in to..to + n - 1 THEN mem[from + (k - to)] ELSE mem[k]]
Block(mem, from, to, n) == IF to + n > Len(mem) THEN <<>> ELSE CopyBytes(mem, from, to, n)

\* Byte by byte: the bytes between src and op come round again and again.
CopyByByte(mem, src, op, limit) ==
    [k \in 1..Len(mem) |-> IF k - 1 \in op..limit - 1 THEN mem[src + ((k - 1 - op) % (op - src)) + 1] ELSE mem[k]]

\* Bytes of the input into the buffer.
PutBytes(mem, op, bytes) ==
    IF op + Len(bytes) > Len(mem) THEN <<>>
    ELSE [k \in 1..Len(mem) |-> IF k - op \in DOMAIN bytes THEN bytes[k - op] ELSE mem[k]]

AtOf(src, ip, n) == SubSeq(src, ip + 1, ip + n)
Corrupt == [ok |-> FALSE, values |-> <<>>]

(***************************************************************************)
(* src/carquet/compression/snappy.c: blocks of literals and matches.       *)
(***************************************************************************)

CONSTANTS SNAPPY_HASH_SIZE, snappy_hash(_),  \* the table, and the hash of four bytes
          SNAPPY_BLOCK_SIZE                  \* 65536 in the code

SNAPPY_SLOP_BYTES == 64
BigPattern == 16
Margin == 15          \* no search in the last bytes of a block

SnappyMin(a, b) == IF a < b THEN a ELSE b
load32(src, p) == SubSeq(src, p + 1, p + 4)

RECURSIVE snappy_write_varint(_)
snappy_write_varint(v) == IF v < 128 THEN <<v>> ELSE <<(v % 128) + 128>> \o snappy_write_varint(v \div 128)

\* [n, v]: how many bytes, and the value; n = 0 when there is none.  Five bytes at
\* most, the fifth below 16.
RECURSIVE SnappyVarint(_, _, _)
SnappyVarint(src, i, weight) ==
    IF i >= Len(src) THEN [n |-> 0, v |-> 0]
    ELSE IF i = 4 THEN (IF src[5] < 16 THEN [n |-> 5, v |-> src[5] * weight] ELSE [n |-> 0, v |-> 0])
    ELSE IF src[i + 1] < 128 THEN [n |-> i + 1, v |-> src[i + 1] * weight]
    ELSE LET rest == SnappyVarint(src, i + 1, weight * 128)
         IN  [rest EXCEPT !.v = @ + (src[i + 1] - 128) * weight]
snappy_read_varint(src) == SnappyVarint(src, 0, 1)

carquet_snappy_compress_bound(n) == 32 + n + n \div 6

(* ------------------------------ compression ----------------------------- *)

fast_match_length(src, p, match) ==
    LET most == Len(src) - p
    IN  CHOOSE n \in 0..most : /\ \A k \in 0..n - 1 : src[p + k + 1] = src[match + k + 1]
                               /\ n = most \/ src[p + n + 1] # src[match + n + 1]

\* The length less one in the tag, or in one or two bytes behind it.
snappy_emit_literal(literal) ==
    LET n == Len(literal) - 1
    IN  (IF n < 60 THEN <<n * 4>>
         ELSE IF n < 256 THEN <<60 * 4, n>> ELSE <<61 * 4, n % 256, n \div 256>>) \o literal

CopyTwo(offset, len) == <<(len - 1) * 4 + 2, offset % 256, offset \div 256>>

\* 64 bytes at a time, and never a rest of less than four.
RECURSIVE snappy_emit_copy(_, _)
snappy_emit_copy(offset, len) ==
    IF len >= 68 THEN CopyTwo(offset, 64) \o snappy_emit_copy(offset, len - 64)
    ELSE IF len > 64 THEN CopyTwo(offset, 60) \o snappy_emit_copy(offset, len - 60)
    ELSE IF len < 12 /\ offset < 2048 THEN <<(offset \div 256) * 32 + (len - 4) * 4 + 1, offset % 256>>
    ELSE CopyTwo(offset, len)

Literal(src, from, to) == IF to > from THEN snappy_emit_literal(SubSeq(src, from + 1, to)) ELSE <<>>
EmitRemainder(src, s) == s.out \o Literal(src, s.anchor, Len(src))

RECURSIVE Startup(_, _, _), Search(_, _), EmitMatch(_, _, _)

\* The position of these four bytes in the table, and the table with this one.
Candidate(src, s) == s.table[snappy_hash(load32(src, s.ip))]
Seen32(src, table, p) == [table EXCEPT ![snappy_hash(load32(src, p))] = p]

\* Positions 1..16 one by one.
Startup(src, i, s) ==
    IF i = 16 THEN Search(src, s)
    ELSE LET c == Candidate(src, s)
             t == [s EXCEPT !.table = Seen32(src, @, s.ip)]
         IN  IF load32(src, c) = load32(src, s.ip)
             THEN EmitMatch(src, [t EXCEPT !.out = Literal(src, 0, s.ip)], c)
             ELSE Startup(src, i + 1, [t EXCEPT !.ip = @ + 1])

\* Further and further apart as long as nothing matches.
Search(src, s) ==
    LET between == s.skip \div 32
        c == Candidate(src, s)
        t == [s EXCEPT !.table = Seen32(src, @, s.ip)]
    IN  IF s.ip + between > Len(src) - Margin THEN EmitRemainder(src, s)
        ELSE IF load32(src, c) = load32(src, s.ip)
        THEN EmitMatch(src, [t EXCEPT !.out = @ \o Literal(src, s.anchor, s.ip)], c)
        ELSE Search(src, [t EXCEPT !.ip = @ + between, !.skip = @ + between])

EmitMatch(src, s, c) ==
    LET len == 4 + fast_match_length(src, s.ip + 4, c + 4)
        ip == s.ip + len
        t == [s EXCEPT !.ip = ip, !.anchor = ip, !.skip = 32, !.out = @ \o snappy_emit_copy(s.ip - c, len)]
        u == [t EXCEPT !.table = Seen32(src, @, ip - 1)]
        v == [u EXCEPT !.table = Seen32(src, @, ip)]
    IN  IF ip >= Len(src) - Margin THEN EmitRemainder(src, t)
        ELSE IF load32(src, ip) = load32(src, Candidate(src, u)) THEN EmitMatch(src, v, Candidate(src, u))
        ELSE Search(src, [v EXCEPT !.ip = @ + 1])

snappy_compress_block(src) ==
    LET s == [ip |-> 1, anchor |-> 0, skip |-> 32, out |-> <<>>, table |-> [h \in 0..SNAPPY_HASH_SIZE - 1 |-> 0]]
    IN  IF Len(src) < 15 THEN Literal(src, 0, Len(src))
        ELSE IF Len(src) - Margin - 1 >= 16 THEN Startup(src, 0, s) ELSE Search(src, s)

RECURSIVE Blocks32(_)
Blocks32(src) == IF src = <<>> THEN <<>>
                 ELSE LET n == SnappyMin(Len(src), SNAPPY_BLOCK_SIZE)
                      IN  snappy_compress_block(SubSeq(src, 1, n)) \o Blocks32(SubSeq(src, n + 1, Len(src)))

carquet_snappy_compress(src) == snappy_write_varint(Len(src)) \o Blocks32(src)

(* ----------------------------- decompression ---------------------------- *)

\* Byte by byte: the bytes between src and op come round again and again.
incremental_copy_slow(mem, src, op, limit) == CopyByByte(mem, src, op, limit)

RECURSIVE Blocks16(_, _, _, _, _), Doubling(_, _, _, _), Blocks8(_, _, _, _)

\* The first block always, the next while they begin before the limit.
Blocks16(mem, src, op, at, limit) ==
    IF at > 0 /\ op + at >= limit THEN mem
    ELSE Blocks16(Block(mem, src + at, op + at, 16), src, op, at + 16, limit)

\* A vector of the pattern over and over, stored like Blocks16.
StorePattern(mem, src, op, limit) ==
    LET size == op - src
        stores == ((limit - op) + 15) \div 16
    IN  IF op + 16 * stores > Len(mem) THEN <<>>
        ELSE [k \in 1..Len(mem) |-> IF k - 1 \in op..op + 16 * stores - 1
                                    THEN mem[src + ((k - 1 - op) % size) + 1] ELSE mem[k]]

\* The pattern made at least eight bytes wide.
Doubling(mem, src, op, size) ==
    IF size >= 8 THEN [mem |-> mem, op |-> op, size |-> size]
    ELSE Doubling(Block(mem, src, op, 8), src, op + size, 2 * size)
Blocks8(mem, src, op, limit) ==
    IF op + 8 <= limit /\ op + 8 <= Len(mem) THEN Blocks8(Block(mem, src, op, 8), src + 8, op + 8, limit)
    ELSE incremental_copy_slow(mem, src, op, limit)

RECURSIVE NearEnd(_, _, _, _)
NearEnd(mem, src, op, limit) ==
    IF op < Len(mem) - 16 THEN NearEnd(Block(mem, src, op, 16), src + 16, op + 16, limit)
    ELSE IF op >= limit THEN mem
    ELSE IF op <= Len(mem) - 8 THEN incremental_copy_slow(Block(mem, src, op, 8), src + 8, op + 8, limit)
    ELSE incremental_copy_slow(mem, src, op, limit)

\* vector: a build with byte shuffles (ARM), or the plain code.
incremental_copy(mem, src, op, limit, vector) ==
    LET room == limit <= Len(mem) - 15
    IN  IF op - src < BigPattern
        THEN IF vector THEN (IF room THEN StorePattern(mem, src, op, limit) ELSE incremental_copy_slow(mem, src, op, limit))
             ELSE IF op <= Len(mem) - 11
             THEN LET d == Doubling(mem, src, op, op - src)
                  IN  IF d.op >= limit THEN d.mem ELSE Blocks8(d.mem, d.op - d.size, d.op, limit)
             ELSE incremental_copy_slow(mem, src, op, limit)
        ELSE IF room THEN Blocks16(mem, src, op, 0, limit)
        ELSE NearEnd(mem, src, op, limit)

\* A match, by the widest copy that what is around it allows.
SnappyMatch(mem, op, offset, len, vector) ==
    LET slop == IF Len(mem) >= SNAPPY_SLOP_BYTES THEN Len(mem) - SNAPPY_SLOP_BYTES + 1 ELSE 0
    IN  IF offset >= 16 /\ op + len <= slop THEN Blocks16(mem, op - offset, op, 0, op + len)
        ELSE IF len <= SNAPPY_SLOP_BYTES /\ op + len <= slop /\ offset >= len
        THEN Block(mem, op - offset, op, SNAPPY_SLOP_BYTES)
        ELSE incremental_copy(mem, op - offset, op, op + len, vector)

RECURSIVE LittleEnd(_)
LittleEnd(bytes) == IF bytes = <<>> THEN 0 ELSE Head(bytes) + 256 * LittleEnd(Tail(bytes))

RECURSIVE Tags(_, _, _, _, _)
Tags(src, ip, mem, op, vector) ==
    LET tag == src[ip + 1]
        type == tag % 4
        top == tag \div 4
        extra == IF type # 0 THEN (CASE type = 1 -> 1 [] type = 2 -> 2 [] type = 3 -> 4)
                 ELSE IF top >= 60 THEN top - 59 ELSE 0
        more == LittleEnd(AtOf(src, ip + 1, extra))
        from == ip + 1 + extra
        literal == IF top >= 60 THEN more + 1 ELSE top + 1
        short == literal <= 16 /\ from + 16 <= Len(src) /\ op + 16 <= Len(mem)
        len == IF type = 1 THEN (top % 8) + 4 ELSE top + 1
        offset == IF type = 1 THEN (tag \div 32) * 256 + more ELSE more
        copied == IF type = 3 THEN incremental_copy(mem, op - offset, op, op + len, vector)
                  ELSE SnappyMatch(mem, op, offset, len, vector)
    IN  IF ~(ip < Len(src) /\ op < Len(mem))
        THEN IF op = Len(mem) /\ ip = Len(src) THEN [ok |-> TRUE, values |-> mem] ELSE Corrupt
        ELSE IF from > Len(src) THEN Corrupt
        ELSE IF type = 0
        THEN IF short THEN Tags(src, from + literal, PutBytes(mem, op, AtOf(src, from, 16)), op + literal, vector)
             ELSE IF from + literal > Len(src) \/ op + literal > Len(mem) THEN Corrupt
             ELSE Tags(src, from + literal, PutBytes(mem, op, AtOf(src, from, literal)), op + literal, vector)
        ELSE IF offset = 0 \/ offset > op \/ op + len > Len(mem) THEN Corrupt
        ELSE IF copied = <<>> THEN Corrupt
        ELSE Tags(src, from, copied, op + len, vector)

\* An empty input is an empty output.
carquet_snappy_decompress(src, capacity, vector) ==
    LET n == snappy_read_varint(src)
    IN  IF src = <<>> THEN [ok |-> TRUE, values |-> <<>>]
        ELSE IF n.n = 0 \/ n.v > capacity THEN Corrupt
        ELSE Tags(src, n.n, Fresh(n.v), 0, vector)

carquet_snappy_get_uncompressed_length(src) == snappy_read_varint(src)

(***************************************************************************)
(* src/lz4/lz4.c as carquet/compression/lz4.c calls it: a whole block with *)
(* no dictionary, compressed by LZ4_compress_default and decompressed by   *)
(* LZ4_decompress_safe.  Positions count from 0.                           *)
(***************************************************************************)

CONSTANTS LZ4_DISTANCE_MAX,            \* 65535 in the code
          LZ4_skipTrigger,             \* 6 in the code
          HashSlots,                   \* of the table
          LZ4_hash4(_), LZ4_hash5(_)   \* of four and of five bytes

MINMATCH == 4
WILDCOPYLENGTH == 8
LASTLITERALS == 5
MFLIMIT == 12
MATCH_SAFEGUARD_DISTANCE == 2 * WILDCOPYLENGTH - MINMATCH
FASTLOOP_SAFE_DISTANCE == 64
RUN_MASK == 15
LZ4_minLength == MFLIMIT + 1
LZ4_64Klimit == LZ4_DISTANCE_MAX + 1 + (MFLIMIT - 1)

LZ4_compressBound(n) == n + n \div 255 + 16

LZ4_readLE16(src, p) == src[p + 1] + 256 * src[p + 2]
LZ4_writeLE16(v) == <<v % 256, v \div 256>>
LZ4_read32(src, p) == AtOf(src, p, 4)

(* ------------------------------ compression ----------------------------- *)

\* A short input has a table of 16-bit indexes, and no match of it is too far.
LZ4_hashPosition(src, p, tableType) ==
    IF tableType = "byU16" THEN LZ4_hash4(AtOf(src, p, 4)) ELSE LZ4_hash5(AtOf(src, p, 5))
LZ4_putIndexOnHash(src, p, s) == [s.table EXCEPT ![LZ4_hashPosition(src, p, s.type)] = p]
LZ4_getIndexOnHash(src, p, s) == s.table[LZ4_hashPosition(src, p, s.type)]
SameFour(src, p, c, s) ==
    /\ s.type = "byU16" \/ c + LZ4_DISTANCE_MAX >= p
    /\ LZ4_read32(src, c) = LZ4_read32(src, p)

LZ4_count(src, p, match, limit) ==
    CHOOSE n \in 0..limit - p : /\ \A k \in 1..n : src[p + k] = src[match + k]
                                /\ n = limit - p \/ src[p + n + 1] # src[match + n + 1]

\* How far a match reaches back before the place where it was found.
CatchUp(src, p, match, anchor) ==
    CHOOSE n \in 0..p - anchor :
        /\ n <= match /\ \A k \in 0..n - 1 : src[p - k] = src[match - k]
        /\ n = p - anchor \/ n = match \/ src[p - n] # src[match - n]

\* Four bits of a length in the token, what is more in bytes behind it.
Nibble(n) == IF n >= RUN_MASK THEN RUN_MASK ELSE n
More(n) == IF n < RUN_MASK THEN <<>>
           ELSE [i \in 1..(n - RUN_MASK) \div 255 |-> 255] \o <<(n - RUN_MASK) % 255>>

Sequence(literals, offset, code) ==
    <<16 * Nibble(Len(literals)) + Nibble(code)>> \o More(Len(literals)) \o literals
        \o LZ4_writeLE16(offset) \o More(code)

NoRoom == [ok |-> FALSE, data |-> <<>>]

\* limit is -1 where the output has room for the worst case.
LastLiterals(src, s) ==
    LET rest == AtOf(src, s.anchor, Len(src) - s.anchor)
        out == s.out \o <<16 * Nibble(Len(rest))>> \o More(Len(rest)) \o rest
    IN  IF s.limit >= 0 /\ Len(s.out) + Len(rest) + 1 + (Len(rest) + 255 - RUN_MASK) \div 255 > s.limit
        THEN NoRoom ELSE [ok |-> TRUE, data |-> out]

RECURSIVE FindMatch(_, _, _, _, _), NextMatch(_, _, _, _, _)

\* Further and further apart as long as nothing matches.
FindMatch(src, s, p, gap, number) ==
    LET c == LZ4_getIndexOnHash(src, p, s)
        t == [s EXCEPT !.table = LZ4_putIndexOnHash(src, p, s)]
        back == CatchUp(src, p, c, s.anchor)
        n == p - back - s.anchor
    IN  IF p + gap > Len(src) - MFLIMIT + 1 THEN LastLiterals(src, s)
        ELSE IF ~SameFour(src, p, c, s)
        THEN FindMatch(src, t, p + gap, number \div 2^LZ4_skipTrigger, number + 1)
        ELSE IF s.limit >= 0 /\ Len(s.out) + 1 + n + (2 + 1 + LASTLITERALS) + n \div 255 > s.limit THEN NoRoom
        ELSE NextMatch(src, t, AtOf(src, s.anchor, n), p - back, c - back)

\* A match right behind a match has a token of its own, and no literals.
NextMatch(src, s, literals, p, match) ==
    LET code == LZ4_count(src, p + MINMATCH, match + MINMATCH, Len(src) - LASTLITERALS)
        before == Len(s.out) + 1 + Len(More(Len(literals))) + Len(literals) + 2
        q == p + MINMATCH + code
        t == [s EXCEPT !.out = @ \o Sequence(literals, p - match, code), !.anchor = q]
        u == [t EXCEPT !.table = LZ4_putIndexOnHash(src, q - 2, t)]
        c == LZ4_getIndexOnHash(src, q, u)
        v == [u EXCEPT !.table = LZ4_putIndexOnHash(src, q, u)]
    IN  IF s.limit >= 0 /\ before + 1 + LASTLITERALS + (code + 240) \div 255 > s.limit THEN NoRoom
        ELSE IF q >= Len(src) - MFLIMIT + 1 THEN LastLiterals(src, t)
        ELSE IF SameFour(src, q, c, v) THEN NextMatch(src, v, <<>>, q, c)
        ELSE FindMatch(src, v, q + 1, 1, 2^LZ4_skipTrigger)

LZ4_compress_generic(src, limit, tableType) ==
    LET s == [anchor |-> 0, out |-> <<>>, limit |-> limit, type |-> tableType, table |-> [h \in HashSlots |-> 0]]
        t == [s EXCEPT !.table = LZ4_putIndexOnHash(src, 0, s)]
    IN  IF Len(src) < LZ4_minLength THEN LastLiterals(src, s)
        ELSE FindMatch(src, t, 1, 1, 2^LZ4_skipTrigger)

LZ4_compress_fast_extState(src, capacity) ==
    LZ4_compress_generic(src, IF capacity >= LZ4_compressBound(Len(src)) THEN -1 ELSE capacity,
                         IF Len(src) < LZ4_64Klimit THEN "byU16" ELSE "byU32")

carquet_lz4_compress(src, capacity) ==
    IF src = <<>> THEN [ok |-> TRUE, data |-> <<>>] ELSE LZ4_compress_fast_extState(src, capacity)

(* ----------------------------- decompression ---------------------------- *)

\* [ip, n]: the bytes of a length up to one below 255; n = -1 where they reach the limit.
RECURSIVE LengthBytes(_, _, _)
LengthBytes(src, ip, limit) ==
    IF ip + 1 > limit THEN [ip |-> ip + 1, n |-> -1]
    ELSE IF src[ip + 1] # 255 THEN [ip |-> ip + 1, n |-> src[ip + 1]]
    ELSE LET rest == LengthBytes(src, ip + 1, limit)
         IN  IF rest.n = -1 THEN rest ELSE [rest EXCEPT !.n = @ + 255]
read_variable_length(src, ip, limit, initial) ==
    IF initial /\ ip >= limit THEN [ip |-> ip, n |-> -1] ELSE LengthBytes(src, ip, limit)

\* A length of the token with the bytes behind it, if there are any.
WholeLength(src, ip, nibble, limit, initial) ==
    LET more == read_variable_length(src, ip, limit, initial)
    IN  IF nibble # RUN_MASK THEN [ip |-> ip, n |-> nibble]
        ELSE IF more.n = -1 THEN more ELSE [more EXCEPT !.n = @ + RUN_MASK]

\* Whole blocks up to the end, the first one always.
RECURSIVE WildCopy(_, _, _, _, _)
WildCopy(mem, from, to, end, width) ==
    LET next == Block(mem, from, to, width)
    IN  IF to + width >= end THEN next ELSE WildCopy(next, from + width, to + width, end, width)
LZ4_wildCopy8(mem, from, to, end) == WildCopy(mem, from, to, end, 8)
LZ4_wildCopy32(mem, from, to, end) ==    \* two blocks of 16 at a time
    WildCopy(mem, from, to, to + 32 * ((end - to + 31) \div 32), 16)
\* The same from the input.
WildLiterals(src, ip, mem, op, n, width) == PutBytes(mem, op, AtOf(src, ip, width * ((n + width - 1) \div width)))

inc32table == <<0, 1, 2, 1, 0, 4, 4, 4>>
dec64table == <<0, 0, 0, -1, -4, 1, 2, 3>>

\* Eight bytes of a match, and where it goes on: an offset below eight is made a
\* multiple of it that is not.
FirstEight(mem, match, op, offset) ==
    LET zeros == PutBytes(mem, op, <<0, 0, 0, 0>>)
        four == IF offset = 0 THEN zeros ELSE CopyByByte(zeros, match, op, op + 4)
        from == match + inc32table[offset + 1]
    IN  IF offset >= 8 THEN [mem |-> Block(mem, match, op, 8), match |-> match + 8]
        ELSE [mem |-> Block(four, from, op + 4, 4), match |-> from - dec64table[offset + 1]]

LZ4_memcpy_using_offset_base(mem, match, op, end, offset) ==
    LET first == FirstEight(mem, match, op, offset)
    IN  LZ4_wildCopy8(first.mem, first.match, op + 8, end)

\* A pattern of 1, 2 or 4 bytes fills a vector of eight.
LZ4_memcpy_using_offset(mem, match, op, end, offset) ==
    LET v == [i \in 1..8 |-> mem[match + ((i - 1) % offset) + 1]]
    IN  IF offset \in {1, 2, 4}
        THEN PutBytes(mem, op, [i \in 1..8 * ((end - op + 7) \div 8) |-> v[((i - 1) % 8) + 1]])
        ELSE LZ4_memcpy_using_offset_base(mem, match, op, end, offset)

EighteenBytes(mem, match, op) ==
    Block(Block(Block(mem, match, op, 8), match + 8, op + 8, 8), match + 16, op + 16, 2)

RECURSIVE FastLoop(_, _), FastMatch(_, _, _, _), SafeLoop(_, _), SafeLiterals(_, _, _, _), CopyMatch(_, _, _, _), SafeMatchCopy(_, _, _, _)

\* s: [ip, op, mem].  As long as 64 bytes of output are left.
FastLoop(src, s) ==
    LET token == src[s.ip + 1]
        lit == WholeLength(src, s.ip + 1, token \div 16, Len(src) - RUN_MASK, TRUE)
        long == token \div 16 = RUN_MASK
        near == IF long THEN s.op + lit.n > Len(s.mem) - 32 \/ lit.ip + lit.n > Len(src) - 32
                ELSE lit.ip > Len(src) - (16 + 1)
        t == [ip |-> lit.ip + lit.n + 2, op |-> s.op + lit.n,
              mem |-> IF long THEN WildLiterals(src, lit.ip, s.mem, s.op, lit.n, 32)
                      ELSE PutBytes(s.mem, s.op, AtOf(src, lit.ip, 16))]
    IN  IF lit.n = -1 THEN Corrupt
        ELSE IF near THEN SafeLiterals(src, [s EXCEPT !.ip = lit.ip], token, lit.n)
        ELSE FastMatch(src, t, token, LZ4_readLE16(src, lit.ip + lit.n))

FastMatch(src, s, token, offset) ==
    LET code == WholeLength(src, s.ip, token % 16, Len(src) - LASTLITERALS + 1, FALSE)
        len == code.n + MINMATCH
        match == s.op - offset
        end == s.op + len
        t == [s EXCEPT !.ip = code.ip, !.op = end]
    IN  IF code.n = -1 THEN Corrupt
        ELSE IF end >= Len(s.mem) - FASTLOOP_SAFE_DISTANCE
        THEN SafeMatchCopy(src, [s EXCEPT !.ip = code.ip], offset, len)
        ELSE IF token % 16 # RUN_MASK /\ match >= 0 /\ offset >= 8
        THEN FastLoop(src, [t EXCEPT !.mem = EighteenBytes(@, match, s.op)])
        ELSE IF match < 0 THEN Corrupt
        ELSE FastLoop(src, [t EXCEPT !.mem = IF offset < 16 THEN LZ4_memcpy_using_offset(@, match, s.op, end, offset)
                                             ELSE LZ4_wildCopy32(@, match, s.op, end)])

SafeLoop(src, s) ==
    LET token == src[s.ip + 1]
        nibble == token \div 16
        ip == s.ip + 1
        offset == LZ4_readLE16(src, ip + nibble)
        t == [ip |-> ip + nibble + 2, op |-> s.op + nibble, mem |-> PutBytes(s.mem, s.op, AtOf(src, ip, 16))]
        lit == WholeLength(src, ip, nibble, Len(src) - RUN_MASK, TRUE)
    IN  IF nibble # RUN_MASK /\ ip < Len(src) - 14 - 2 /\ s.op <= Len(s.mem) - 14 - 18
        THEN IF token % 16 # RUN_MASK /\ offset >= 8 /\ offset <= t.op
             THEN SafeLoop(src, [t EXCEPT !.op = @ + (token % 16) + MINMATCH,
                                          !.mem = EighteenBytes(@, t.op - offset, t.op)])
             ELSE CopyMatch(src, t, token, offset)
        ELSE IF lit.n = -1 THEN Corrupt
        ELSE SafeLiterals(src, [s EXCEPT !.ip = lit.ip], token, lit.n)

\* The last literals end the input; other ones leave room behind them.
SafeLiterals(src, s, token, n) ==
    LET t == [ip |-> s.ip + n + 2, op |-> s.op + n, mem |-> WildLiterals(src, s.ip, s.mem, s.op, n, 8)]
    IN  IF s.op + n > Len(s.mem) - MFLIMIT \/ s.ip + n > Len(src) - (2 + 1 + LASTLITERALS)
        THEN IF s.ip + n # Len(src) \/ s.op + n > Len(s.mem) THEN Corrupt
             ELSE [ok |-> TRUE, values |-> AtOf(PutBytes(s.mem, s.op, AtOf(src, s.ip, n)), 0, s.op + n)]
        ELSE CopyMatch(src, t, token, LZ4_readLE16(src, s.ip + n))

CopyMatch(src, s, token, offset) ==
    LET code == WholeLength(src, s.ip, token % 16, Len(src) - LASTLITERALS + 1, FALSE)
    IN  IF code.n = -1 THEN Corrupt
        ELSE SafeMatchCopy(src, [s EXCEPT !.ip = code.ip], offset, code.n + MINMATCH)

SafeMatchCopy(src, s, offset, len) ==
    LET end == s.op + len
        first == FirstEight(s.mem, s.op - offset, s.op, offset)
        op == s.op + 8
        limit == Len(s.mem) - (WILDCOPYLENGTH - 1)
        wild == LZ4_wildCopy8(first.mem, first.match, op, limit)
        near == IF op < limit THEN CopyByByte(wild, first.match + (limit - op), limit, end)
                ELSE CopyByByte(first.mem, first.match, op, end)
        second == Block(first.mem, first.match, op, 8)
        far == IF len > 16 THEN LZ4_wildCopy8(second, first.match + 8, op + 8, end) ELSE second
    IN  IF offset > s.op THEN Corrupt
        ELSE IF end <= Len(s.mem) - MATCH_SAFEGUARD_DISTANCE THEN SafeLoop(src, [s EXCEPT !.op = end, !.mem = far])
        ELSE IF end > Len(s.mem) - LASTLITERALS THEN Corrupt
        ELSE SafeLoop(src, [s EXCEPT !.op = end, !.mem = near])

\* fast: a build with the fast loop (x86, most of ARM).
LZ4_decompress_safe(src, capacity, fast) ==
    LET s == [ip |-> 0, op |-> 0, mem |-> Fresh(capacity)]
    IN  IF capacity = 0 THEN [ok |-> src = <<0>>, values |-> <<>>]
        ELSE IF src = <<>> THEN Corrupt
        ELSE IF fast /\ capacity >= FASTLOOP_SAFE_DISTANCE THEN FastLoop(src, s) ELSE SafeLoop(src, s)

carquet_lz4_decompress(src, capacity, fast) ==
    IF src = <<>> THEN [ok |-> TRUE, values |-> <<>>] ELSE LZ4_decompress_safe(src, capacity, fast)
=============================================================================
