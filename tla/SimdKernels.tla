---------------------------- MODULE SimdKernels ----------------------------
(***************************************************************************)
(* The kernels behind carquet's dispatch table (simd/dispatch.c): the      *)
(* scalar ones the table starts from, the loop shapes that the vector ones *)
(* of simd/arm and simd/x86 share, and the NEON kernels of an arm64 build  *)
(* (the others are in SimdVariants).  A vector kernel walks its input      *)
(* in chunks of a few fixed sizes and finishes value by value; what it     *)
(* does inside a chunk is modelled lane by lane, the intrinsics being      *)
(* replaced by the lanes they compute.                                     *)
(*                                                                         *)
(* A float or a double is a number or NaN where it is compared, and the    *)
(* tuple of its bytes where it is moved.                                   *)
(***************************************************************************)
EXTENDS Bitpack, FiniteSets

CONSTANT QuietNaN   \* no comparison with it is true

Less(a, b) == a # QuietNaN /\ b # QuietNaN /\ a < b
Greater(a, b) == Less(b, a)

-----------------------------------------------------------------------------
(* Chunks. *)

\* While a chunk of the first size fits it is taken, then the next size, and
\* at the end single values.
RECURSIVE Cut(_, _)
Cut(s, sizes) ==
    IF s = <<>> THEN <<>>
    ELSE IF sizes = <<>> THEN [i \in DOMAIN s |-> <<s[i]>>]
    ELSE IF Len(s) < Head(sizes) THEN Cut(s, Tail(sizes))
    ELSE <<SubSeq(s, 1, Head(sizes))>> \o Cut(From(s, Head(sizes)), sizes)

\* A predicated loop: the last chunk has only the active lanes.
RECURSIVE CutBy(_, _)
CutBy(s, vl) ==
    IF Len(s) <= vl THEN (IF s = <<>> THEN <<>> ELSE <<s>>)
    ELSE <<SubSeq(s, 1, vl)>> \o CutBy(From(s, vl), vl)

Positions(n) == [i \in 1..n |-> i]
RECURSIVE Join(_)
Join(chunks) ==
    IF chunks = <<>> THEN <<>>
    ELSE IF Len(chunks) = 1 THEN chunks[1]
    ELSE LET h == Len(chunks) \div 2 IN Join(SubSeq(chunks, 1, h)) \o Join(From(chunks, h))
Bytes(bits) == [k \in 1..((Len(bits) + 7) \div 8) |-> Weighted(SubSeq(bits, 8 * k - 7, Min2(8 * k, Len(bits))))]

-----------------------------------------------------------------------------
(* Prefix sums, modulo the word. *)

\* A register added to itself moved up by k lanes, for k = 1, 2, 4, ...
ShiftAdd(v, k) == [i \in DOMAIN v |-> v[i] + (IF i > k THEN v[i - k] ELSE 0)]
RECURSIVE Scan(_, _)
Scan(v, k) == IF k >= Len(v) THEN v ELSE Scan(ShiftAdd(v, k), 2 * k)

\* The scan stays inside each half of a 256-bit register; the sum of the low
\* half is then added to the high one.
ScanHalves(v) ==
    LET h == Len(v) \div 2
        lo == Scan(SubSeq(v, 1, h), 1)
        hi == Scan(From(v, h), 1)
    IN  lo \o [i \in 1..h |-> hi[i] + lo[h]]

\* The running sum is the last lane stored.
RunningSum(chunks, initial, word, ScanOp(_)) ==
    Tail(Fold(LAMBDA out, c : LET s == ScanOp(c) IN
                      out \o [i \in DOMAIN c |-> (out[Len(out)] + s[i]) % word], <<initial>>, chunks))
ScanOne(v) == Scan(v, 1)
ScanWide(v) == IF Len(v) = 1 THEN v ELSE ScanHalves(v)

scalar_prefix_sum(in) == RunningSum(Cut(in.values, <<>>), in.initial, in.word, ScanOne)

-----------------------------------------------------------------------------
(* Dictionary gathers.  Indices count from 0. *)

GatherChunks(dict, chunks) == Join([k \in DOMAIN chunks |-> [i \in DOMAIN chunks[k] |-> dict[chunks[k][i] + 1]]])

\* The bounds of a whole chunk are tested before any of it is gathered, and
\* the first bad chunk ends the call.
CheckedGatherChunks(dict, chunks) ==
    LET bad == {k \in DOMAIN chunks : \E i \in DOMAIN chunks[k] : chunks[k][i] >= Len(dict)}
    IN  IF bad = {} THEN [ok |-> TRUE, out |-> GatherChunks(dict, chunks)]
        ELSE [ok |-> FALSE, out |-> <<>>]

scalar_gather(in) == GatherChunks(in.dict, Cut(in.indices, <<>>))
scalar_checked_gather(in) == CheckedGatherChunks(in.dict, Cut(in.indices, <<>>))
validate_gather_indices(indices, dict) == \A i \in DOMAIN indices : indices[i] < Len(dict)

-----------------------------------------------------------------------------
(* Byte-stream split: byte b of every value, for b = 1, 2, ...             *)

\* Each chunk adds its bytes to the streams; decoding reads a chunk of every
\* stream and puts the values together again.
SplitChunks(chunks, width) ==
    Join([b \in 1..width |-> Join([k \in DOMAIN chunks |-> [i \in DOMAIN chunks[k] |-> chunks[k][i][b]]])])
MergeChunks(data, count, width, chunks) ==
    Join([k \in DOMAIN chunks |-> [i \in DOMAIN chunks[k] |->
              [b \in 1..width |-> data[(b - 1) * count + chunks[k][i]]]]])

scalar_byte_split_encode(in) == [p \in 1..(in.width * Len(in.values)) |->
    in.values[((p - 1) % Len(in.values)) + 1][((p - 1) \div Len(in.values)) + 1]]
scalar_byte_split_decode(in) == MergeChunks(in.data, in.count, in.width, Cut(Positions(in.count), <<>>))

-----------------------------------------------------------------------------
(* Booleans. *)

\* The bits of a chunk's bytes, broadcast and masked.
UnpackChunks(input, chunks) ==
    Join([k \in DOMAIN chunks |-> [i \in DOMAIN chunks[k] |->
              BitOf(input[(chunks[k][i] - 1) \div 8 + 1], (chunks[k][i] - 1) % 8)]])
\* Whole octets of a chunk become bytes; what is left of the input, one byte.
PackChunks(chunks) == Join([k \in DOMAIN chunks |-> Bytes([i \in DOMAIN chunks[k] |-> IF chunks[k][i] # 0 THEN 1 ELSE 0])])

scalar_unpack_bools(in) == UnpackChunks(in.input, Cut(Positions(in.count), <<>>))
scalar_pack_bools(in) == PackChunks(CutBy(in.input, 8))

-----------------------------------------------------------------------------
(* Runs and matches. *)

Leading(flags) == Cardinality({k \in DOMAIN flags : \A i \in 1..k : flags[i]})
\* Chunks whose lanes all agree are passed over; the first other chunk gives
\* the place of its first disagreeing lane.
AgreeingLength(chunks) ==
    Fold(LAMBDA acc, c : IF acc.stop THEN acc
                             ELSE [n |-> acc.n + Leading(c), stop |-> Leading(c) < Len(c)],
             [n |-> 0, stop |-> FALSE], chunks).n
RunFlags(values) == [i \in DOMAIN values |-> values[i] = values[1]]
MatchFlags(in) == [i \in DOMAIN in.p |-> in.p[i] = in.match[i]]

scalar_find_run_length_i32(in) == AgreeingLength(Cut(RunFlags(in.values), <<>>))
scalar_match_length(in) == AgreeingLength(Cut(MatchFlags(in), <<>>))

\* A copy from offset bytes back: each chunk is read whole, then written.
CopyBack(mem, offset, chunks) ==
    Fold(LAMBDA m, c : m \o SubSeq(m, Len(m) - offset + 1, Len(m) - offset + Len(c)), mem, chunks)
\* A pattern stored over and over from its first byte.
Stamp(mem, pattern, len) == mem \o [k \in 1..len |-> pattern[((k - 1) % Len(pattern)) + 1]]
LastBytes(mem, n) == SubSeq(mem, Len(mem) - n + 1, Len(mem))

scalar_match_copy(in) ==
    CopyBack(in.mem, in.offset, Cut(Positions(in.len), IF in.offset >= 8 THEN <<8>> ELSE <<>>))

-----------------------------------------------------------------------------
(* Definition levels. *)

CountChunks(chunks, max) ==
    Fold(LAMBDA n, c : n + Cardinality({i \in DOMAIN c : c[i] = max}), 0, chunks)
BitmapChunks(chunks, max) ==
    Join([k \in DOMAIN chunks |-> Bytes([i \in DOMAIN chunks[k] |-> IF chunks[k][i] = max THEN 1 ELSE 0])])
FillChunks(chunks, value) == Join([k \in DOMAIN chunks |-> [i \in DOMAIN chunks[k] |-> value]])
\* Octets, and in the vector kernels groups of octets first.
Octets(s, sizes) == LET whole == Cut(SubSeq(s, 1, 8 * (Len(s) \div 8)), sizes)
                    IN  whole \o CutBy(From(s, 8 * (Len(s) \div 8)), 8)

scalar_count_non_nulls(in) == CountChunks(Cut(in.levels, <<>>), in.max)
scalar_build_null_bitmap(in) == BitmapChunks(Octets(in.levels, <<8>>), in.max)
scalar_fill_def_levels(in) == FillChunks(Cut(Positions(in.count), <<>>), in.value)

-----------------------------------------------------------------------------
(* Smallest and greatest value. *)

\* The three ways a lane keeps the better of two values: a compare and a blend
\* (the scalar code too), the x86 min and max, which give their second operand
\* when the operands do not compare, and the ARM ones, which give NaN.
Keep(better, a, b) == IF (IF better = "min" THEN Less(b, a) ELSE Greater(b, a)) THEN b ELSE a
KeepX86(better, a, b) == IF (IF better = "min" THEN Less(a, b) ELSE Greater(a, b)) THEN a ELSE b
KeepArm(better, a, b) == IF a = QuietNaN \/ b = QuietNaN THEN QuietNaN ELSE Keep(better, a, b)

\* The lanes of an accumulator of n lanes after the whole chunks of values.
Lanes(values, first, n, LaneOp(_, _)) ==
    LET whole == (Len(values) - first + 1) \div n
    IN  [j \in 1..n |-> Fold(LaneOp, values[1], [k \in 1..whole |-> values[first + (k - 1) * n + j - 1]])]
Rest(values, first, n) == From(values, first - 1 + n * ((Len(values) - first + 1) \div n))

\* The lanes are reduced, and the values that filled no chunk follow.
Best(values, first, n, better, LaneOp(_, _), Reduced(_)) ==
    Fold(LAMBDA a, b : Keep(better, a, b), Reduced(Lanes(values, first, n, LaneOp)), Rest(values, first, n))

\* One value after the other.
scalar_minmax(in) == <<Fold(LAMBDA a, b : Keep("min", a, b), in.values[1], Tail(in.values)),
                       Fold(LAMBDA a, b : Keep("max", a, b), in.values[1], Tail(in.values))>>
scalar_copy_minmax(in) == [out |-> in.values, minmax |-> scalar_minmax(in)]

\* Compare and blend from the first value on, the lanes stored and compared
\* with the first value again.
BlendBest(values, first, n, better) ==
    Best(values, first, n, better, LAMBDA a, b : Keep(better, a, b),
         LAMBDA lanes : Fold(LAMBDA a, b : Keep(better, a, b), values[1], lanes))
BlendMinmax(values, first, n) == <<BlendBest(values, first, n, "min"), BlendBest(values, first, n, "max")>>

-----------------------------------------------------------------------------
(* Bit unpacking.  A byte broadcast to eight lanes and masked, nibbles         *)
(* interleaved, bytes or pairs of bytes widened, and otherwise a little-endian  *)
(* word shifted and masked.                                                     *)

Broadcast(input, n) == [i \in 1..n |-> BitOf(input[(i - 1) \div 8 + 1], (i - 1) % 8)]
Nibbles(input, n) == [i \in 1..n |-> IF i % 2 = 1 THEN input[(i + 1) \div 2] % 16 ELSE input[i \div 2] \div 16]
Widen8(input, n) == [i \in 1..n |-> input[i]]
Widen16(input, n) == [i \in 1..n |-> input[2 * i - 1] + 256 * input[2 * i]]
ShiftMask(input, n, w) == [i \in 1..n |-> Field(input, (i - 1) * w, w)]

-----------------------------------------------------------------------------

\* The scalar kernel of a table entry, or the code that stands in for an entry
\* the table may leave empty.
Scalar(in) ==
    CASE in.kernel \in {"prefix_sum_i32", "prefix_sum_i64"} -> scalar_prefix_sum(in)
      [] in.kernel \in {"gather_i32", "gather_i64", "gather_float", "gather_double"} -> scalar_gather(in)
      [] in.kernel \in {"checked_gather_i32", "checked_gather_i64", "checked_gather_float",
                        "checked_gather_double"} -> scalar_checked_gather(in)
      [] in.kernel \in {"byte_split_encode_float", "byte_split_encode_double"} -> scalar_byte_split_encode(in)
      [] in.kernel \in {"byte_split_decode_float", "byte_split_decode_double"} -> scalar_byte_split_decode(in)
      [] in.kernel = "unpack_bools" -> scalar_unpack_bools(in)
      [] in.kernel = "pack_bools" -> scalar_pack_bools(in)
      [] in.kernel = "find_run_length_i32" -> scalar_find_run_length_i32(in)
      [] in.kernel = "match_copy" -> scalar_match_copy(in)
      [] in.kernel = "match_length" -> scalar_match_length(in)
      [] in.kernel = "count_non_nulls" -> scalar_count_non_nulls(in)
      [] in.kernel = "build_null_bitmap" -> scalar_build_null_bitmap(in)
      [] in.kernel = "fill_def_levels" -> scalar_fill_def_levels(in)
      [] in.kernel \in {"minmax_i32", "minmax_i64", "minmax_float", "minmax_double"} -> scalar_minmax(in)
      [] in.kernel \in {"copy_minmax_i32", "copy_minmax_i64", "copy_minmax_float",
                        "copy_minmax_double"} -> scalar_copy_minmax(in)
      [] OTHER -> carquet_bitunpack_32(in.input, in.count, in.width).values

-----------------------------------------------------------------------------
(* The NEON kernels (simd/arm/neon_ops.c), which an arm64 build of the package
   installs. *)

carquet_neon_bitunpack8_1bit(in) == Broadcast(in.input, 8)
carquet_neon_bitunpack8_2bit(in) == ShiftMask(in.input, 8, 2)
carquet_neon_bitunpack8_3bit(in) == ShiftMask(in.input, 8, 3)
carquet_neon_bitunpack8_4bit(in) == Nibbles(in.input, 8)
carquet_neon_bitunpack8_5bit(in) == ShiftMask(in.input, 8, 5)
carquet_neon_bitunpack8_6bit(in) == ShiftMask(in.input, 8, 6)
carquet_neon_bitunpack8_7bit(in) == ShiftMask(in.input, 8, 7)
carquet_neon_bitunpack8_8bit(in) == Widen8(in.input, 8)
carquet_neon_bitunpack8_16bit(in) == Widen16(in.input, 8)
carquet_neon_bitunpack32_1bit(in) == Broadcast(in.input, 32)
carquet_neon_bitunpack16_4bit(in) == Nibbles(in.input, 16)
carquet_neon_bitunpack16_8bit(in) == Widen8(in.input, 16)
carquet_neon_bitunpack16_16bit(in) == Widen16(in.input, 16)
carquet_neon_bitunpack32_4bit(in) ==
    carquet_neon_bitunpack16_4bit(in) \o carquet_neon_bitunpack16_4bit([in EXCEPT !.input = From(@, 8)])

carquet_neon_byte_stream_split_encode_float(in) == SplitChunks(Cut(in.values, <<4>>), 4)
carquet_neon_byte_stream_split_decode_float(in) ==
    MergeChunks(in.data, in.count, 4, Cut(Positions(in.count), <<4>>))
carquet_neon_byte_stream_split_encode_double(in) == SplitChunks(Cut(in.values, <<8>>), 8)
carquet_neon_byte_stream_split_decode_double(in) ==
    MergeChunks(in.data, in.count, 8, Cut(Positions(in.count), <<8>>))

carquet_neon_prefix_sum_i32(in) == RunningSum(Cut(in.values, <<4>>), in.initial, in.word, ScanOne)
carquet_neon_prefix_sum_i64(in) == RunningSum(Cut(in.values, <<2>>), in.initial, in.word, ScanOne)

carquet_neon_gather_i32(in) == GatherChunks(in.dict, Cut(in.indices, <<8, 4>>))
carquet_neon_gather_i64(in) == GatherChunks(in.dict, Cut(in.indices, <<4>>))
carquet_neon_gather_float(in) == carquet_neon_gather_i32(in)
carquet_neon_gather_double(in) == carquet_neon_gather_i64(in)
carquet_neon_checked_gather_i32(in) == CheckedGatherChunks(in.dict, Cut(in.indices, <<8, 4>>))
carquet_neon_checked_gather_i64(in) == CheckedGatherChunks(in.dict, Cut(in.indices, <<4>>))
carquet_neon_checked_gather_float(in) == carquet_neon_checked_gather_i32(in)
carquet_neon_checked_gather_double(in) == carquet_neon_checked_gather_i64(in)

carquet_neon_unpack_bools(in) == UnpackChunks(in.input, Cut(Positions(in.count), <<64, 8>>))
carquet_neon_pack_bools(in) == PackChunks(Octets(in.input, <<16, 8>>))
carquet_neon_find_run_length_i32(in) == AgreeingLength(Cut(RunFlags(in.values), <<8, 4>>))
carquet_neon_match_length(in) == AgreeingLength(Cut(MatchFlags(in), <<16>>))

carquet_neon_memset(in) == FillChunks(Cut(Positions(in.count), <<64, 16, 8>>), in.value)
carquet_neon_memcpy(in) == Join(Cut(in.input, <<64, 16, 8>>))

carquet_neon_count_non_nulls(in) == CountChunks(Cut(in.levels, <<8>>), in.max)
carquet_neon_build_null_bitmap(in) == BitmapChunks(Octets(in.levels, <<8>>), in.max)
carquet_neon_fill_def_levels(in) == FillChunks(Cut(Positions(in.count), <<32, 8>>), in.value)
\* Offsets of 16 and more are copied in registers, of 8 to 15 in words of 8
\* bytes.  A seed of 1, 2 or 4 bytes fills a register, as does one of 3, 5, 6
\* or 7 bytes tiled to 16, and the register is stored over and over.
Tiled(seed) == [i \in 1..16 |-> seed[((i - 1) % Len(seed)) + 1]]
carquet_neon_match_copy(in) ==
    LET seed == LastBytes(in.mem, in.offset)
    IN  IF in.offset >= 16 THEN CopyBack(in.mem, in.offset, Cut(Positions(in.len), <<16, 8>>))
        ELSE IF in.offset \in {1, 2, 4} THEN Stamp(in.mem, seed, in.len)
        ELSE IF in.offset >= 8 THEN CopyBack(in.mem, in.offset, Cut(Positions(in.len), <<8>>))
        ELSE Stamp(in.mem, Tiled(seed), in.len)

\* Integers and doubles leave the reduction to a comparison of two lanes, or of
\* all of them in the across-vector minimum; floats to the latter, which gives
\* NaN if any lane is NaN.
AcrossVector(better, lanes) == Fold(LAMBDA a, b : KeepArm(better, a, b), lanes[1], Tail(lanes))
AcrossBest(values, first, n, better) ==
    Best(values, first, n, better, LAMBDA a, b : KeepArm(better, a, b), LAMBDA l : AcrossVector(better, l))
TwoLaneBest(values, first, better) ==
    Best(values, first, 2, better, LAMBDA a, b : KeepArm(better, a, b), LAMBDA l : KeepX86(better, l[1], l[2]))
\* 64-bit integers have no vector minimum: a comparison selects.
carquet_neon_min_s64(a, b) == KeepX86("min", a, b)
carquet_neon_max_s64(a, b) == KeepX86("max", a, b)
carquet_neon_minmax_i32(in) == <<AcrossBest(in.values, 2, 4, "min"), AcrossBest(in.values, 2, 4, "max")>>
carquet_neon_minmax_i64(in) ==
    <<Best(in.values, 2, 2, "min", carquet_neon_min_s64, LAMBDA l : carquet_neon_min_s64(l[1], l[2])),
      Best(in.values, 2, 2, "max", carquet_neon_max_s64, LAMBDA l : carquet_neon_max_s64(l[1], l[2]))>>
carquet_neon_minmax_float(in) == <<AcrossBest(in.values, 2, 4, "min"), AcrossBest(in.values, 2, 4, "max")>>
carquet_neon_minmax_double(in) == <<TwoLaneBest(in.values, 2, "min"), TwoLaneBest(in.values, 2, "max")>>
carquet_neon_copy_minmax_i32(in) ==
    [out |-> Join(Cut(in.values, <<4>>)),
     minmax |-> <<AcrossBest(in.values, 1, 4, "min"), AcrossBest(in.values, 1, 4, "max")>>]
carquet_neon_copy_minmax_i64(in) ==
    [out |-> Join(Cut(in.values, <<2>>)),
     minmax |-> <<Best(in.values, 1, 2, "min", carquet_neon_min_s64, LAMBDA l : carquet_neon_min_s64(l[1], l[2])),
      Best(in.values, 1, 2, "max", carquet_neon_max_s64, LAMBDA l : carquet_neon_max_s64(l[1], l[2]))>>]
carquet_neon_copy_minmax_float(in) ==
    [out |-> Join(Cut(in.values, <<4>>)),
     minmax |-> <<AcrossBest(in.values, 1, 4, "min"), AcrossBest(in.values, 1, 4, "max")>>]
carquet_neon_copy_minmax_double(in) ==
    [out |-> Join(Cut(in.values, <<2>>)),
     minmax |-> <<TwoLaneBest(in.values, 1, "min"), TwoLaneBest(in.values, 1, "max")>>]
\* The kernels the table gets.  Prefix sums, the float splits and the 64-bit
\* integer statistics stay scalar.
Neon(in) ==
    CASE in.kernel = "gather_i32" -> carquet_neon_gather_i32(in)
      [] in.kernel = "gather_i64" -> carquet_neon_gather_i64(in)
      [] in.kernel = "gather_float" -> carquet_neon_gather_float(in)
      [] in.kernel = "gather_double" -> carquet_neon_gather_double(in)
      [] in.kernel = "checked_gather_i32" -> carquet_neon_checked_gather_i32(in)
      [] in.kernel = "checked_gather_i64" -> carquet_neon_checked_gather_i64(in)
      [] in.kernel = "checked_gather_float" -> carquet_neon_checked_gather_float(in)
      [] in.kernel = "checked_gather_double" -> carquet_neon_checked_gather_double(in)
      [] in.kernel = "byte_split_encode_double" -> carquet_neon_byte_stream_split_encode_double(in)
      [] in.kernel = "byte_split_decode_double" -> carquet_neon_byte_stream_split_decode_double(in)
      [] in.kernel = "unpack_bools" -> carquet_neon_unpack_bools(in)
      [] in.kernel = "pack_bools" -> carquet_neon_pack_bools(in)
      [] in.kernel = "find_run_length_i32" -> carquet_neon_find_run_length_i32(in)
      [] in.kernel = "match_copy" -> carquet_neon_match_copy(in)
      [] in.kernel = "match_length" -> carquet_neon_match_length(in)
      [] in.kernel = "count_non_nulls" -> carquet_neon_count_non_nulls(in)
      [] in.kernel = "build_null_bitmap" -> carquet_neon_build_null_bitmap(in)
      [] in.kernel = "fill_def_levels" -> carquet_neon_fill_def_levels(in)
      [] in.kernel = "minmax_i32" -> carquet_neon_minmax_i32(in)
      [] in.kernel = "minmax_float" -> carquet_neon_minmax_float(in)
      [] in.kernel = "minmax_double" -> carquet_neon_minmax_double(in)
      [] in.kernel = "copy_minmax_i32" -> carquet_neon_copy_minmax_i32(in)
      [] in.kernel = "copy_minmax_float" -> carquet_neon_copy_minmax_float(in)
      [] in.kernel = "copy_minmax_double" -> carquet_neon_copy_minmax_double(in)
      [] in.kernel = "bitunpack8_1" -> carquet_neon_bitunpack8_1bit(in)
      [] in.kernel = "bitunpack8_2" -> carquet_neon_bitunpack8_2bit(in)
      [] in.kernel = "bitunpack8_3" -> carquet_neon_bitunpack8_3bit(in)
      [] in.kernel = "bitunpack8_4" -> carquet_neon_bitunpack8_4bit(in)
      [] in.kernel = "bitunpack8_5" -> carquet_neon_bitunpack8_5bit(in)
      [] in.kernel = "bitunpack8_6" -> carquet_neon_bitunpack8_6bit(in)
      [] in.kernel = "bitunpack8_7" -> carquet_neon_bitunpack8_7bit(in)
      [] in.kernel = "bitunpack8_8" -> carquet_neon_bitunpack8_8bit(in)
      [] in.kernel = "bitunpack8_16" -> carquet_neon_bitunpack8_16bit(in)
      [] in.kernel = "bitunpack_wide_1" -> carquet_neon_bitunpack32_1bit(in)
      [] in.kernel = "bitunpack_wide_4" -> carquet_neon_bitunpack32_4bit(in)
      [] in.kernel = "bitunpack_wide_8" -> carquet_neon_bitunpack16_8bit(in)
      [] in.kernel = "bitunpack_wide_16" -> carquet_neon_bitunpack16_16bit(in)
=============================================================================
