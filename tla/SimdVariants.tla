---------------------------- MODULE SimdVariants ----------------------------
(***************************************************************************)
(* The vector kernels for processors other than plain arm64: SVE           *)
(* (simd/arm/sve_ops.c) and the x86 tiers SSE4.2, AVX, AVX2 and AVX-512    *)
(* (simd/x86).                                                             *)
(***************************************************************************)
EXTENDS SimdKernels
LOCAL INSTANCE SequencesExt

-----------------------------------------------------------------------------
(* SVE, whose vector length is the processor's.  The package builds carquet
   without it. *)

CONSTANT VectorBytes   \* svcntb()

ASSUME SveAssumption == VectorBytes \in Nat \ {0} /\ VectorBytes % 16 = 0

carquet_sve_get_vector_length_bytes == VectorBytes
carquet_sve_get_vector_length_32 == VectorBytes \div 4
carquet_sve_get_vector_length_64 == VectorBytes \div 8
Halves == VectorBytes \div 2
Words == carquet_sve_get_vector_length_32
Doubles == carquet_sve_get_vector_length_64

carquet_sve_bitunpack_8to32(input, count) == Join(CutBy(Widen8(input, count), Words))
carquet_sve_bitunpack_16to32(input, count) == Join(CutBy(Widen16(input, count), Words))
carquet_sve_bitunpack8_1bit(in) == Broadcast(in.input, 8)
carquet_sve_bitunpack8_2bit(in) == ShiftMask(in.input, 8, 2)
carquet_sve_bitunpack8_3bit(in) == ShiftMask(in.input, 8, 3)
carquet_sve_bitunpack8_4bit(in) == ShiftMask(in.input, 8, 4)
carquet_sve_bitunpack8_5bit(in) == ShiftMask(in.input, 8, 5)
carquet_sve_bitunpack8_6bit(in) == ShiftMask(in.input, 8, 6)
carquet_sve_bitunpack8_7bit(in) == ShiftMask(in.input, 8, 7)
carquet_sve_bitunpack8_8bit(in) == carquet_sve_bitunpack_8to32(in.input, 8)
carquet_sve_bitunpack8_16bit(in) == carquet_sve_bitunpack_16to32(in.input, 8)

carquet_sve_byte_stream_split_encode_float(in) == SplitChunks(CutBy(in.values, VectorBytes), 4)
carquet_sve_byte_stream_split_decode_float(in) ==
    MergeChunks(in.data, in.count, 4, CutBy(Positions(in.count), VectorBytes))
carquet_sve_byte_stream_split_encode_double(in) == SplitChunks(Cut(in.values, <<Halves>>), 8)
carquet_sve_byte_stream_split_decode_double(in) ==
    MergeChunks(in.data, in.count, 8, Cut(Positions(in.count), <<Halves>>))

carquet_sve_prefix_sum_i32(in) == RunningSum(Cut(in.values, <<>>), in.initial, in.word, ScanOne)
carquet_sve_prefix_sum_i64(in) == RunningSum(Cut(in.values, <<>>), in.initial, in.word, ScanOne)

carquet_sve_gather_i32(in) == GatherChunks(in.dict, CutBy(in.indices, Words))
carquet_sve_gather_i64(in) == GatherChunks(in.dict, CutBy(in.indices, Doubles))
carquet_sve_gather_float(in) == GatherChunks(in.dict, CutBy(in.indices, Words))
carquet_sve_gather_double(in) == GatherChunks(in.dict, CutBy(in.indices, Doubles))
carquet_sve_checked_gather_i32(in) == CheckedGatherChunks(in.dict, CutBy(in.indices, Words))
carquet_sve_checked_gather_i64(in) == CheckedGatherChunks(in.dict, CutBy(in.indices, Doubles))
carquet_sve_checked_gather_float(in) == carquet_sve_checked_gather_i32(in)
carquet_sve_checked_gather_double(in) == carquet_sve_checked_gather_i64(in)

carquet_sve_memset(in) == FillChunks(CutBy(Positions(in.count), VectorBytes), in.value)
carquet_sve_memcpy(in) == Join(CutBy(in.input, VectorBytes))
carquet_sve_unpack_bools(in) == UnpackChunks(in.input, CutBy(Positions(in.count), 8))
carquet_sve_pack_bools(in) == PackChunks(CutBy(in.input, 8))

carquet_sve_count_non_nulls(in) == CountChunks(CutBy(in.levels, Halves), in.max)
carquet_sve_build_null_bitmap(in) == BitmapChunks(CutBy(in.levels, 8), in.max)
carquet_sve_fill_def_levels(in) == FillChunks(CutBy(Positions(in.count), Halves), in.value)
\* The smallest and greatest of a chunk, NaN if it holds one, compared with the
\* best so far.
ChunkBest(start, chunks, better) ==
    Fold(LAMBDA best, c : Keep(better, best,
                 Fold(LAMBDA a, b : KeepArm(better, a, b), c[1], Tail(c))), start, chunks)
ChunkMinmax(values, scanned, n) == <<ChunkBest(values[1], CutBy(scanned, n), "min"),
                                     ChunkBest(values[1], CutBy(scanned, n), "max")>>
carquet_sve_minmax_i32(in) == ChunkMinmax(in.values, Tail(in.values), Words)
carquet_sve_minmax_i64(in) == ChunkMinmax(in.values, Tail(in.values), Doubles)
carquet_sve_minmax_float(in) == ChunkMinmax(in.values, Tail(in.values), Words)
carquet_sve_minmax_double(in) == ChunkMinmax(in.values, Tail(in.values), Doubles)
carquet_sve_copy_minmax_i32(in) ==
    [out |-> Join(CutBy(in.values, Words)), minmax |-> ChunkMinmax(in.values, in.values, Words)]
carquet_sve_copy_minmax_i64(in) ==
    [out |-> Join(CutBy(in.values, Doubles)), minmax |-> ChunkMinmax(in.values, in.values, Doubles)]
carquet_sve_copy_minmax_float(in) ==
    [out |-> Join(CutBy(in.values, Words)), minmax |-> ChunkMinmax(in.values, in.values, Words)]
carquet_sve_copy_minmax_double(in) ==
    [out |-> Join(CutBy(in.values, Doubles)), minmax |-> ChunkMinmax(in.values, in.values, Doubles)]
\* Only the first lane of a chunk is tested: a chunk that begins inside the run
\* is passed over whole.
carquet_sve_find_run_length_i32(in) ==
    Fold(LAMBDA acc, c : IF acc.stop THEN acc
                             ELSE IF c[1] THEN [acc EXCEPT !.n = @ + Len(c)] ELSE [acc EXCEPT !.stop = TRUE],
             [n |-> 0, stop |-> FALSE], CutBy(RunFlags(in.values), Words)).n

Sve(in) ==
    CASE in.kernel = "gather_i32" -> carquet_sve_gather_i32(in)
      [] in.kernel = "gather_i64" -> carquet_sve_gather_i64(in)
      [] in.kernel = "gather_float" -> carquet_sve_gather_float(in)
      [] in.kernel = "gather_double" -> carquet_sve_gather_double(in)
      [] in.kernel = "checked_gather_i32" -> carquet_sve_checked_gather_i32(in)
      [] in.kernel = "checked_gather_i64" -> carquet_sve_checked_gather_i64(in)
      [] in.kernel = "checked_gather_float" -> carquet_sve_checked_gather_float(in)
      [] in.kernel = "checked_gather_double" -> carquet_sve_checked_gather_double(in)
      [] in.kernel = "byte_split_encode_float" -> carquet_sve_byte_stream_split_encode_float(in)
      [] in.kernel = "byte_split_decode_float" -> carquet_sve_byte_stream_split_decode_float(in)
      [] in.kernel = "byte_split_encode_double" -> carquet_sve_byte_stream_split_encode_double(in)
      [] in.kernel = "byte_split_decode_double" -> carquet_sve_byte_stream_split_decode_double(in)
      [] in.kernel = "find_run_length_i32" -> carquet_sve_find_run_length_i32(in)
      [] in.kernel = "count_non_nulls" -> carquet_sve_count_non_nulls(in)
      [] in.kernel = "fill_def_levels" -> carquet_sve_fill_def_levels(in)
      [] in.kernel = "minmax_i32" -> carquet_sve_minmax_i32(in)
      [] in.kernel = "minmax_i64" -> carquet_sve_minmax_i64(in)
      [] in.kernel = "minmax_float" -> carquet_sve_minmax_float(in)
      [] in.kernel = "minmax_double" -> carquet_sve_minmax_double(in)
      [] in.kernel = "copy_minmax_i32" -> carquet_sve_copy_minmax_i32(in)
      [] in.kernel = "copy_minmax_i64" -> carquet_sve_copy_minmax_i64(in)
      [] in.kernel = "copy_minmax_float" -> carquet_sve_copy_minmax_float(in)
      [] in.kernel = "copy_minmax_double" -> carquet_sve_copy_minmax_double(in)
      [] in.kernel = "bitunpack8_1" -> carquet_sve_bitunpack8_1bit(in)
      [] in.kernel = "bitunpack8_2" -> carquet_sve_bitunpack8_2bit(in)
      [] in.kernel = "bitunpack8_3" -> carquet_sve_bitunpack8_3bit(in)
      [] in.kernel = "bitunpack8_4" -> carquet_sve_bitunpack8_4bit(in)
      [] in.kernel = "bitunpack8_5" -> carquet_sve_bitunpack8_5bit(in)
      [] in.kernel = "bitunpack8_6" -> carquet_sve_bitunpack8_6bit(in)
      [] in.kernel = "bitunpack8_7" -> carquet_sve_bitunpack8_7bit(in)
      [] in.kernel = "bitunpack8_8" -> carquet_sve_bitunpack8_8bit(in)
      [] in.kernel = "bitunpack8_16" -> carquet_sve_bitunpack8_16bit(in)

-----------------------------------------------------------------------------
(* x86.  The package builds carquet without these kernels; another build
   installs every tier its processor has, each over the one before. *)

\* Bytes copied one by one from where the seed stands.
SeedTail(mem, start, offset, n) == Fold(LAMBDA m, j : Append(m, m[start - offset + j]), mem, Positions(n))
\* A seed stored in whole registers, the rest copied from the seed.
StampThenCopy(in, unit) ==
    LET stamped == unit * (in.len \div unit)
    IN  SeedTail(Stamp(in.mem, LastBytes(in.mem, in.offset), stamped), Len(in.mem), in.offset, in.len - stamped)

-----------------------------------------------------------------------------
(* SSE4.2. *)

carquet_sse_bitunpack8_1bit(in) == Broadcast(in.input, 8)
carquet_sse_bitunpack8_2bit(in) == ShiftMask(in.input, 8, 2)
carquet_sse_bitunpack8_3bit(in) == ShiftMask(in.input, 8, 3)
carquet_sse_bitunpack8_4bit(in) == Nibbles(in.input, 8)
carquet_sse_bitunpack8_5bit(in) == ShiftMask(in.input, 8, 5)
carquet_sse_bitunpack8_6bit(in) == ShiftMask(in.input, 8, 6)
carquet_sse_bitunpack8_7bit(in) == ShiftMask(in.input, 8, 7)
carquet_sse_bitunpack8_8bit(in) == Widen8(in.input, 8)
carquet_sse_bitunpack8_16bit(in) == Widen16(in.input, 8)
carquet_sse_bitunpack32_1bit(in) == Broadcast(in.input, 32)

carquet_sse_byte_stream_split_encode_float(in) == SplitChunks(Cut(in.values, <<4>>), 4)
carquet_sse_byte_stream_split_decode_float(in) ==
    MergeChunks(in.data, in.count, 4, Cut(Positions(in.count), <<4>>))
carquet_sse_byte_stream_split_encode_double(in) == SplitChunks(Cut(in.values, <<2>>), 8)
carquet_sse_byte_stream_split_decode_double(in) ==
    MergeChunks(in.data, in.count, 8, Cut(Positions(in.count), <<2>>))

carquet_sse_prefix_sum_i32(in) == RunningSum(Cut(in.values, <<4>>), in.initial, in.word, ScanOne)
carquet_sse_prefix_sum_i64(in) == RunningSum(Cut(in.values, <<2>>), in.initial, in.word, ScanOne)

carquet_sse_gather_i32(in) == GatherChunks(in.dict, Cut(in.indices, <<8, 4>>))
carquet_sse_gather_i64(in) == GatherChunks(in.dict, Cut(in.indices, <<4>>))
carquet_sse_gather_float(in) == GatherChunks(in.dict, Cut(in.indices, <<8, 4>>))
carquet_sse_gather_double(in) == GatherChunks(in.dict, Cut(in.indices, <<4>>))
carquet_sse_checked_gather_i32(in) == CheckedGatherChunks(in.dict, Cut(in.indices, <<4>>))
carquet_sse_checked_gather_i64(in) == CheckedGatherChunks(in.dict, Cut(in.indices, <<4>>))
carquet_sse_checked_gather_float(in) == carquet_sse_checked_gather_i32(in)
carquet_sse_checked_gather_double(in) == carquet_sse_checked_gather_i64(in)

carquet_sse_memset_small(in) == FillChunks(Cut(Positions(in.count), <<64, 16>>), in.value)
carquet_sse_memcpy_small(in) == Join(Cut(in.input, <<64, 16>>))

carquet_sse_unpack_bools(in) == UnpackChunks(in.input, Cut(Positions(in.count), <<16>>))
carquet_sse_pack_bools(in) == PackChunks(Octets(in.input, <<8>>))
carquet_sse_match_length(in) == AgreeingLength(Cut(MatchFlags(in), <<16>>))
carquet_sse_find_run_length_i32(in) == AgreeingLength(Cut(RunFlags(in.values), <<4>>))

carquet_sse_count_non_nulls(in) == CountChunks(Cut(in.levels, <<8>>), in.max)
carquet_sse_build_null_bitmap(in) == BitmapChunks(Octets(in.levels, <<8>>), in.max)
carquet_sse_fill_def_levels(in) == FillChunks(Cut(Positions(in.count), <<8>>), in.value)

carquet_sse_minmax_i32(in) == BlendMinmax(in.values, 2, 4)
carquet_sse_minmax_i64(in) == BlendMinmax(in.values, 2, 2)
carquet_sse_minmax_float(in) == BlendMinmax(in.values, 2, 4)
carquet_sse_minmax_double(in) == BlendMinmax(in.values, 2, 2)
carquet_sse_copy_minmax_i32(in) == [out |-> in.values, minmax |-> BlendMinmax(in.values, 1, 4)]
carquet_sse_copy_minmax_i64(in) == [out |-> in.values, minmax |-> BlendMinmax(in.values, 1, 2)]
carquet_sse_copy_minmax_float(in) == [out |-> in.values, minmax |-> BlendMinmax(in.values, 1, 4)]
carquet_sse_copy_minmax_double(in) == [out |-> in.values, minmax |-> BlendMinmax(in.values, 1, 2)]
\* As on ARM, a seed of 3, 5, 6 or 7 bytes is tiled to 16 bytes.
carquet_sse_match_copy(in) ==
    LET seed == LastBytes(in.mem, in.offset)
        tiled == [i \in 1..16 |-> seed[((i - 1) % in.offset) + 1]]
    IN  IF in.offset >= 16 THEN CopyBack(in.mem, in.offset, Cut(Positions(in.len), <<16, 8>>))
        ELSE IF in.offset \in {1, 2} THEN Stamp(in.mem, seed, in.len)
        ELSE IF in.offset = 4 THEN StampThenCopy(in, 4)
        ELSE IF in.offset >= 8 THEN CopyBack(in.mem, in.offset, Cut(Positions(in.len), <<8>>))
        ELSE Stamp(in.mem, tiled, in.len)

Sse(in) ==
    CASE in.kernel = "prefix_sum_i32" -> carquet_sse_prefix_sum_i32(in)
      [] in.kernel = "prefix_sum_i64" -> carquet_sse_prefix_sum_i64(in)
      [] in.kernel = "gather_i32" -> carquet_sse_gather_i32(in)
      [] in.kernel = "gather_i64" -> carquet_sse_gather_i64(in)
      [] in.kernel = "gather_float" -> carquet_sse_gather_float(in)
      [] in.kernel = "gather_double" -> carquet_sse_gather_double(in)
      [] in.kernel = "checked_gather_i32" -> carquet_sse_checked_gather_i32(in)
      [] in.kernel = "checked_gather_i64" -> carquet_sse_checked_gather_i64(in)
      [] in.kernel = "checked_gather_float" -> carquet_sse_checked_gather_float(in)
      [] in.kernel = "checked_gather_double" -> carquet_sse_checked_gather_double(in)
      [] in.kernel = "byte_split_encode_float" -> carquet_sse_byte_stream_split_encode_float(in)
      [] in.kernel = "byte_split_decode_float" -> carquet_sse_byte_stream_split_decode_float(in)
      [] in.kernel = "byte_split_encode_double" -> carquet_sse_byte_stream_split_encode_double(in)
      [] in.kernel = "byte_split_decode_double" -> carquet_sse_byte_stream_split_decode_double(in)
      [] in.kernel = "unpack_bools" -> carquet_sse_unpack_bools(in)
      [] in.kernel = "pack_bools" -> carquet_sse_pack_bools(in)
      [] in.kernel = "find_run_length_i32" -> carquet_sse_find_run_length_i32(in)
      [] in.kernel = "match_copy" -> carquet_sse_match_copy(in)
      [] in.kernel = "match_length" -> carquet_sse_match_length(in)
      [] in.kernel = "count_non_nulls" -> carquet_sse_count_non_nulls(in)
      [] in.kernel = "build_null_bitmap" -> carquet_sse_build_null_bitmap(in)
      [] in.kernel = "fill_def_levels" -> carquet_sse_fill_def_levels(in)
      [] in.kernel = "minmax_i32" -> carquet_sse_minmax_i32(in)
      [] in.kernel = "minmax_i64" -> carquet_sse_minmax_i64(in)
      [] in.kernel = "minmax_float" -> carquet_sse_minmax_float(in)
      [] in.kernel = "minmax_double" -> carquet_sse_minmax_double(in)
      [] in.kernel = "copy_minmax_i32" -> carquet_sse_copy_minmax_i32(in)
      [] in.kernel = "copy_minmax_i64" -> carquet_sse_copy_minmax_i64(in)
      [] in.kernel = "copy_minmax_float" -> carquet_sse_copy_minmax_float(in)
      [] in.kernel = "copy_minmax_double" -> carquet_sse_copy_minmax_double(in)
      [] in.kernel = "bitunpack8_1" -> carquet_sse_bitunpack8_1bit(in)
      [] in.kernel = "bitunpack8_2" -> carquet_sse_bitunpack8_2bit(in)
      [] in.kernel = "bitunpack8_3" -> carquet_sse_bitunpack8_3bit(in)
      [] in.kernel = "bitunpack8_4" -> carquet_sse_bitunpack8_4bit(in)
      [] in.kernel = "bitunpack8_5" -> carquet_sse_bitunpack8_5bit(in)
      [] in.kernel = "bitunpack8_6" -> carquet_sse_bitunpack8_6bit(in)
      [] in.kernel = "bitunpack8_7" -> carquet_sse_bitunpack8_7bit(in)
      [] in.kernel = "bitunpack8_8" -> carquet_sse_bitunpack8_8bit(in)
      [] in.kernel = "bitunpack8_16" -> carquet_sse_bitunpack8_16bit(in)
      [] in.kernel = "bitunpack_wide_1" -> carquet_sse_bitunpack32_1bit(in)

-----------------------------------------------------------------------------
(* AVX: the floating-point statistics use the processor's min and max. *)

X86Best(values, first, n, better) ==
    Best(values, first, n, better, LAMBDA a, b : KeepX86(better, a, b),
         LAMBDA lanes : Fold(LAMBDA a, b : Keep(better, a, b), values[1], lanes))
X86Minmax(values, first, n) == <<X86Best(values, first, n, "min"), X86Best(values, first, n, "max")>>
carquet_avx_minmax_float(in) == X86Minmax(in.values, 2, 8)
carquet_avx_minmax_double(in) == X86Minmax(in.values, 2, 4)
carquet_avx_copy_minmax_float(in) == [out |-> in.values, minmax |-> X86Minmax(in.values, 1, 8)]
carquet_avx_copy_minmax_double(in) == [out |-> in.values, minmax |-> X86Minmax(in.values, 1, 4)]

carquet_avx_byte_stream_split_encode_float(in) == SplitChunks(Cut(in.values, <<8>>), 4)
carquet_avx_byte_stream_split_decode_float(in) ==
    MergeChunks(in.data, in.count, 4, Cut(Positions(in.count), <<8>>))
carquet_avx_byte_stream_split_encode_double(in) == SplitChunks(Cut(in.values, <<4>>), 8)
carquet_avx_byte_stream_split_decode_double(in) ==
    MergeChunks(in.data, in.count, 8, Cut(Positions(in.count), <<4>>))
Avx(in) ==
    CASE in.kernel = "byte_split_encode_float" -> carquet_avx_byte_stream_split_encode_float(in)
      [] in.kernel = "byte_split_decode_float" -> carquet_avx_byte_stream_split_decode_float(in)
      [] in.kernel = "byte_split_encode_double" -> carquet_avx_byte_stream_split_encode_double(in)
      [] in.kernel = "byte_split_decode_double" -> carquet_avx_byte_stream_split_decode_double(in)
      [] in.kernel = "minmax_float" -> carquet_avx_minmax_float(in)
      [] in.kernel = "minmax_double" -> carquet_avx_minmax_double(in)
      [] in.kernel = "copy_minmax_float" -> carquet_avx_copy_minmax_float(in)
      [] in.kernel = "copy_minmax_double" -> carquet_avx_copy_minmax_double(in)

-----------------------------------------------------------------------------
(* AVX2. *)

carquet_avx2_bitunpack8_1bit(in) == Broadcast(in.input, 8)
carquet_avx2_bitunpack8_2bit(in) == ShiftMask(in.input, 8, 2)
carquet_avx2_bitunpack8_3bit(in) == ShiftMask(in.input, 8, 3)
carquet_avx2_bitunpack8_4bit(in) == Nibbles(in.input, 8)
carquet_avx2_bitunpack8_5bit(in) == ShiftMask(in.input, 8, 5)
carquet_avx2_bitunpack8_6bit(in) == ShiftMask(in.input, 8, 6)
carquet_avx2_bitunpack8_7bit(in) == ShiftMask(in.input, 8, 7)
carquet_avx2_bitunpack8_8bit(in) == Widen8(in.input, 8)
carquet_avx2_bitunpack8_16bit(in) == Widen16(in.input, 8)
carquet_avx2_bitunpack16_4bit(in) == Nibbles(in.input, 16)
carquet_avx2_bitunpack16_8bit(in) == Widen8(in.input, 16)

carquet_avx2_byte_stream_split_encode_float(in) == SplitChunks(Cut(in.values, <<8>>), 4)
carquet_avx2_byte_stream_split_decode_float(in) ==
    MergeChunks(in.data, in.count, 4, Cut(Positions(in.count), <<16, 8>>))
carquet_avx2_byte_stream_split_encode_double(in) == SplitChunks(Cut(in.values, <<4>>), 8)
carquet_avx2_byte_stream_split_decode_double(in) ==
    MergeChunks(in.data, in.count, 8, Cut(Positions(in.count), <<32, 4>>))

carquet_avx2_prefix_sum_i32(in) == RunningSum(Cut(in.values, <<8>>), in.initial, in.word, ScanWide)
carquet_avx2_prefix_sum_i64(in) == RunningSum(Cut(in.values, <<4>>), in.initial, in.word, ScanWide)

carquet_avx2_gather_i32(in) == GatherChunks(in.dict, Cut(in.indices, <<8>>))
carquet_avx2_gather_i64(in) == GatherChunks(in.dict, Cut(in.indices, <<4>>))
carquet_avx2_gather_float(in) == carquet_avx2_gather_i32(in)
carquet_avx2_gather_double(in) == carquet_avx2_gather_i64(in)
carquet_avx2_checked_gather_i32(in) == CheckedGatherChunks(in.dict, Cut(in.indices, <<8, 4>>))
carquet_avx2_checked_gather_i64(in) == CheckedGatherChunks(in.dict, Cut(in.indices, <<8, 4>>))
carquet_avx2_checked_gather_float(in) == carquet_avx2_checked_gather_i32(in)
carquet_avx2_checked_gather_double(in) == carquet_avx2_checked_gather_i64(in)

carquet_avx2_memset(in) == FillChunks(Cut(Positions(in.count), <<128, 32, 16>>), in.value)
carquet_avx2_memcpy(in) == Join(Cut(in.input, <<128, 32, 16>>))

carquet_avx2_unpack_bools(in) == UnpackChunks(in.input, Cut(Positions(in.count), <<32>>))
carquet_avx2_pack_bools(in) == PackChunks(Octets(in.input, <<8>>))
carquet_avx2_match_length(in) == AgreeingLength(Cut(MatchFlags(in), <<32>>))
carquet_avx2_find_run_length_i32(in) == AgreeingLength(Cut(RunFlags(in.values), <<8>>))

carquet_avx2_count_non_nulls(in) == CountChunks(Cut(in.levels, <<16>>), in.max)
carquet_avx2_build_null_bitmap(in) == BitmapChunks(Octets(in.levels, <<16, 8>>), in.max)
carquet_avx2_fill_def_levels(in) == FillChunks(Cut(Positions(in.count), <<16, 8>>), in.value)

carquet_avx2_minmax_i32(in) == BlendMinmax(in.values, 2, 8)
carquet_avx2_minmax_i64(in) == BlendMinmax(in.values, 2, 4)
carquet_avx2_minmax_float(in) == BlendMinmax(in.values, 2, 8)
carquet_avx2_minmax_double(in) == BlendMinmax(in.values, 2, 4)
carquet_avx2_copy_minmax_i32(in) == [out |-> in.values, minmax |-> BlendMinmax(in.values, 1, 8)]
carquet_avx2_copy_minmax_i64(in) == [out |-> in.values, minmax |-> BlendMinmax(in.values, 1, 4)]
carquet_avx2_copy_minmax_float(in) == [out |-> in.values, minmax |-> BlendMinmax(in.values, 1, 8)]
carquet_avx2_copy_minmax_double(in) == [out |-> in.values, minmax |-> BlendMinmax(in.values, 1, 4)]
carquet_avx2_match_copy(in) ==
    IF in.offset >= 32 THEN CopyBack(in.mem, in.offset, Cut(Positions(in.len), <<32, 16>>))
    ELSE IF in.offset = 2 THEN Stamp(in.mem, LastBytes(in.mem, 2), in.len)
    ELSE IF in.offset \in {1, 4, 8} THEN StampThenCopy(in, 32)
    ELSE CopyBack(in.mem, in.offset, Cut(Positions(in.len), <<>>))

Avx2(in) ==
    CASE in.kernel = "prefix_sum_i32" -> carquet_avx2_prefix_sum_i32(in)
      [] in.kernel = "prefix_sum_i64" -> carquet_avx2_prefix_sum_i64(in)
      [] in.kernel = "gather_i32" -> carquet_avx2_gather_i32(in)
      [] in.kernel = "gather_i64" -> carquet_avx2_gather_i64(in)
      [] in.kernel = "gather_float" -> carquet_avx2_gather_float(in)
      [] in.kernel = "gather_double" -> carquet_avx2_gather_double(in)
      [] in.kernel = "checked_gather_i32" -> carquet_avx2_checked_gather_i32(in)
      [] in.kernel = "checked_gather_i64" -> carquet_avx2_checked_gather_i64(in)
      [] in.kernel = "checked_gather_float" -> carquet_avx2_checked_gather_float(in)
      [] in.kernel = "checked_gather_double" -> carquet_avx2_checked_gather_double(in)
      [] in.kernel = "byte_split_encode_float" -> carquet_avx2_byte_stream_split_encode_float(in)
      [] in.kernel = "byte_split_decode_float" -> carquet_avx2_byte_stream_split_decode_float(in)
      [] in.kernel = "byte_split_encode_double" -> carquet_avx2_byte_stream_split_encode_double(in)
      [] in.kernel = "byte_split_decode_double" -> carquet_avx2_byte_stream_split_decode_double(in)
      [] in.kernel = "unpack_bools" -> carquet_avx2_unpack_bools(in)
      [] in.kernel = "pack_bools" -> carquet_avx2_pack_bools(in)
      [] in.kernel = "find_run_length_i32" -> carquet_avx2_find_run_length_i32(in)
      [] in.kernel = "match_copy" -> carquet_avx2_match_copy(in)
      [] in.kernel = "match_length" -> carquet_avx2_match_length(in)
      [] in.kernel = "count_non_nulls" -> carquet_avx2_count_non_nulls(in)
      [] in.kernel = "build_null_bitmap" -> carquet_avx2_build_null_bitmap(in)
      [] in.kernel = "fill_def_levels" -> carquet_avx2_fill_def_levels(in)
      [] in.kernel = "minmax_i32" -> carquet_avx2_minmax_i32(in)
      [] in.kernel = "minmax_i64" -> carquet_avx2_minmax_i64(in)
      [] in.kernel = "minmax_float" -> carquet_avx2_minmax_float(in)
      [] in.kernel = "minmax_double" -> carquet_avx2_minmax_double(in)
      [] in.kernel = "copy_minmax_i32" -> carquet_avx2_copy_minmax_i32(in)
      [] in.kernel = "copy_minmax_i64" -> carquet_avx2_copy_minmax_i64(in)
      [] in.kernel = "copy_minmax_float" -> carquet_avx2_copy_minmax_float(in)
      [] in.kernel = "copy_minmax_double" -> carquet_avx2_copy_minmax_double(in)
      [] in.kernel = "bitunpack8_1" -> carquet_avx2_bitunpack8_1bit(in)
      [] in.kernel = "bitunpack8_2" -> carquet_avx2_bitunpack8_2bit(in)
      [] in.kernel = "bitunpack8_3" -> carquet_avx2_bitunpack8_3bit(in)
      [] in.kernel = "bitunpack8_4" -> carquet_avx2_bitunpack8_4bit(in)
      [] in.kernel = "bitunpack8_5" -> carquet_avx2_bitunpack8_5bit(in)
      [] in.kernel = "bitunpack8_6" -> carquet_avx2_bitunpack8_6bit(in)
      [] in.kernel = "bitunpack8_7" -> carquet_avx2_bitunpack8_7bit(in)
      [] in.kernel = "bitunpack8_8" -> carquet_avx2_bitunpack8_8bit(in)
      [] in.kernel = "bitunpack8_16" -> carquet_avx2_bitunpack8_16bit(in)
      [] in.kernel = "bitunpack_wide_4" -> carquet_avx2_bitunpack16_4bit(in)
      [] in.kernel = "bitunpack_wide_8" -> carquet_avx2_bitunpack16_8bit(in)

-----------------------------------------------------------------------------
(* AVX-512. *)

carquet_avx512_bitunpack8_4bit(in) == Nibbles(in.input, 8)
carquet_avx512_bitunpack8_8bit(in) == Widen8(in.input, 8)
carquet_avx512_bitunpack8_16bit(in) == Widen16(in.input, 8)
carquet_avx512_bitunpack32_4bit(in) == Nibbles(in.input, 32)
carquet_avx512_bitunpack32_8bit(in) == Widen8(in.input, 32)
carquet_avx512_bitunpack16_16bit(in) == Widen16(in.input, 16)

carquet_avx512_byte_stream_split_encode_float(in) == SplitChunks(Cut(in.values, <<16>>), 4)
carquet_avx512_byte_stream_split_decode_float(in) ==
    MergeChunks(in.data, in.count, 4, Cut(Positions(in.count), <<16>>))
carquet_avx512_byte_stream_split_encode_double(in) == SplitChunks(Cut(in.values, <<8>>), 8)
carquet_avx512_byte_stream_split_decode_double(in) ==
    MergeChunks(in.data, in.count, 8, Cut(Positions(in.count), <<8>>))

carquet_avx512_prefix_sum_i32(in) == RunningSum(Cut(in.values, <<16>>), in.initial, in.word, ScanOne)
carquet_avx512_prefix_sum_i64(in) == RunningSum(Cut(in.values, <<8>>), in.initial, in.word, ScanOne)

carquet_avx512_gather_i32(in) == GatherChunks(in.dict, Cut(in.indices, <<16, 8>>))
carquet_avx512_gather_i64(in) == GatherChunks(in.dict, Cut(in.indices, <<8>>))
carquet_avx512_gather_float(in) == carquet_avx512_gather_i32(in)
carquet_avx512_gather_double(in) == carquet_avx512_gather_i64(in)
carquet_avx512_checked_gather_i32(in) == CheckedGatherChunks(in.dict, Cut(in.indices, <<16>>))
carquet_avx512_checked_gather_i64(in) == CheckedGatherChunks(in.dict, Cut(in.indices, <<8>>))
carquet_avx512_checked_gather_float(in) == carquet_avx512_checked_gather_i32(in)
carquet_avx512_checked_gather_double(in) == carquet_avx512_checked_gather_i64(in)

carquet_avx512_memset(in) == FillChunks(Cut(Positions(in.count), <<256, 64, 32, 16>>), in.value)
carquet_avx512_memcpy(in) == Join(Cut(in.input, <<256, 64, 32, 16>>))

carquet_avx512_unpack_bools(in) == UnpackChunks(in.input, Cut(Positions(in.count), <<64>>))
carquet_avx512_pack_bools(in) == PackChunks(CutBy(in.input, 64))
carquet_avx512_match_length(in) == AgreeingLength(Cut(MatchFlags(in), <<64>>))
carquet_avx512_find_run_length_i32(in) == AgreeingLength(Cut(RunFlags(in.values), <<16>>))

carquet_avx512_count_non_nulls(in) == CountChunks(Cut(in.levels, <<32>>), in.max)
carquet_avx512_build_null_bitmap(in) == BitmapChunks(Octets(in.levels, <<32, 8>>), in.max)
carquet_avx512_fill_def_levels(in) == FillChunks(Cut(Positions(in.count), <<32>>), in.value)

carquet_avx512_minmax_i32(in) == BlendMinmax(in.values, 2, 16)
carquet_avx512_minmax_i64(in) == BlendMinmax(in.values, 2, 8)
carquet_avx512_minmax_float(in) == BlendMinmax(in.values, 2, 16)
carquet_avx512_minmax_double(in) == BlendMinmax(in.values, 2, 8)
carquet_avx512_match_copy(in) ==
    IF in.offset >= 64 THEN CopyBack(in.mem, in.offset, Cut(Positions(in.len), <<64>>))
    ELSE IF in.offset \in {1, 4, 8} THEN StampThenCopy(in, 64)
    ELSE CopyBack(in.mem, in.offset, Cut(Positions(in.len), <<>>))

Avx512(in) ==
    CASE in.kernel = "prefix_sum_i32" -> carquet_avx512_prefix_sum_i32(in)
      [] in.kernel = "prefix_sum_i64" -> carquet_avx512_prefix_sum_i64(in)
      [] in.kernel = "gather_i32" -> carquet_avx512_gather_i32(in)
      [] in.kernel = "gather_i64" -> carquet_avx512_gather_i64(in)
      [] in.kernel = "gather_float" -> carquet_avx512_gather_float(in)
      [] in.kernel = "gather_double" -> carquet_avx512_gather_double(in)
      [] in.kernel = "checked_gather_i32" -> carquet_avx512_checked_gather_i32(in)
      [] in.kernel = "checked_gather_i64" -> carquet_avx512_checked_gather_i64(in)
      [] in.kernel = "checked_gather_float" -> carquet_avx512_checked_gather_float(in)
      [] in.kernel = "checked_gather_double" -> carquet_avx512_checked_gather_double(in)
      [] in.kernel = "byte_split_encode_float" -> carquet_avx512_byte_stream_split_encode_float(in)
      [] in.kernel = "byte_split_decode_float" -> carquet_avx512_byte_stream_split_decode_float(in)
      [] in.kernel = "byte_split_encode_double" -> carquet_avx512_byte_stream_split_encode_double(in)
      [] in.kernel = "byte_split_decode_double" -> carquet_avx512_byte_stream_split_decode_double(in)
      [] in.kernel = "unpack_bools" -> carquet_avx512_unpack_bools(in)
      [] in.kernel = "pack_bools" -> carquet_avx512_pack_bools(in)
      [] in.kernel = "find_run_length_i32" -> carquet_avx512_find_run_length_i32(in)
      [] in.kernel = "match_copy" -> carquet_avx512_match_copy(in)
      [] in.kernel = "match_length" -> carquet_avx512_match_length(in)
      [] in.kernel = "count_non_nulls" -> carquet_avx512_count_non_nulls(in)
      [] in.kernel = "build_null_bitmap" -> carquet_avx512_build_null_bitmap(in)
      [] in.kernel = "fill_def_levels" -> carquet_avx512_fill_def_levels(in)
      [] in.kernel = "minmax_i32" -> carquet_avx512_minmax_i32(in)
      [] in.kernel = "minmax_i64" -> carquet_avx512_minmax_i64(in)
      [] in.kernel = "minmax_float" -> carquet_avx512_minmax_float(in)
      [] in.kernel = "minmax_double" -> carquet_avx512_minmax_double(in)
      [] in.kernel = "bitunpack8_4" -> carquet_avx512_bitunpack8_4bit(in)
      [] in.kernel = "bitunpack8_8" -> carquet_avx512_bitunpack8_8bit(in)
      [] in.kernel = "bitunpack8_16" -> carquet_avx512_bitunpack8_16bit(in)
      [] in.kernel = "bitunpack_wide_4" -> carquet_avx512_bitunpack32_4bit(in)
      [] in.kernel = "bitunpack_wide_8" -> carquet_avx512_bitunpack32_8bit(in)
      [] in.kernel = "bitunpack_wide_16" -> carquet_avx512_bitunpack16_16bit(in)
=============================================================================
