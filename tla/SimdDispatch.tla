---------------------------- MODULE SimdDispatch ----------------------------
(***************************************************************************)
(* The dispatch table of the vector kernels (simd/dispatch.c) and the      *)
(* detection of the processor (simd/detect.c).  The first calls of several *)
(* threads initialise both: detection under a lock, the table without one, *)
(* so that a thread may still be writing entries when another, which saw   *)
(* the flag, calls through them.  One kernel's entries are followed; every *)
(* write of an entry is a step.                                            *)
(***************************************************************************)
EXTENDS Integers, Sequences, FiniteSets

CONSTANTS Machines,        \* [arch, advertised, os]: the processor and its system
          KernelsOn(_),    \* the kernels called on a machine
          InputsOf(_),     \* the inputs of a kernel
          Kernel(_, _),    \* what the kernel of a tier makes of an input
          Reference(_)     \* what the scalar code makes of it

VARIABLES machine, kernel, table, g_dispatch_initialized,
          g_cpu_info, g_initialized, g_init_lock, at, todo, seen, input, output

dispatchVars == <<machine, kernel, table, g_dispatch_initialized,
                  g_cpu_info, g_initialized, g_init_lock, at, todo, seen, input, output>>

\* One thread that calls the kernel, and one whose first call comes at any time.
Threads == {"caller", "other"}

-----------------------------------------------------------------------------
(* The table. *)

Gathers == {"gather_i32", "gather_i64", "gather_float", "gather_double"}
CheckedGathers == {"checked_gather_i32", "checked_gather_i64", "checked_gather_float", "checked_gather_double"}
PrefixSums == {"prefix_sum_i32", "prefix_sum_i64"}
Minmaxes == {"minmax_i32", "minmax_i64", "minmax_float", "minmax_double"}
CopyMinmaxes == {"copy_minmax_i32", "copy_minmax_i64", "copy_minmax_float", "copy_minmax_double"}
FloatMinmaxes == {"minmax_float", "minmax_double", "copy_minmax_float", "copy_minmax_double"}
DoubleSplits == {"byte_split_encode_double", "byte_split_decode_double"}
Splits == DoubleSplits \cup {"byte_split_encode_float", "byte_split_decode_float"}
Bools == {"unpack_bools", "pack_bools"}
MatchKernels == {"match_copy", "match_length"}
LevelKernels == {"count_non_nulls", "build_null_bitmap", "fill_def_levels"}
Unpack8 == {"bitunpack8_1", "bitunpack8_2", "bitunpack8_3", "bitunpack8_4", "bitunpack8_5",
            "bitunpack8_6", "bitunpack8_7", "bitunpack8_8", "bitunpack8_16"}
Wide == {"bitunpack_wide_1", "bitunpack_wide_4", "bitunpack_wide_8", "bitunpack_wide_16"}
ScalarEntries == PrefixSums \cup Gathers \cup CheckedGathers \cup Splits \cup Bools \cup MatchKernels
                   \cup LevelKernels \cup Minmaxes \cup CopyMinmaxes \cup {"find_run_length_i32"}

\* What each tier writes, in the order of the tiers.
Installs(tier) ==
    CASE tier = "scalar" -> ScalarEntries
      [] tier = "sse" -> ScalarEntries \cup Unpack8 \cup {"bitunpack_wide_1"}
      [] tier = "avx" -> Splits \cup FloatMinmaxes
      [] tier = "avx2" -> ScalarEntries \cup Unpack8 \cup {"bitunpack_wide_4", "bitunpack_wide_8"}
      [] tier = "avx512" -> (ScalarEntries \ CopyMinmaxes) \cup {"bitunpack8_4", "bitunpack8_8", "bitunpack8_16"}
                               \cup (Wide \ {"bitunpack_wide_1"})
      [] tier = "neon" -> (ScalarEntries \cup Unpack8 \cup Wide)
                             \ (PrefixSums \cup (Splits \ DoubleSplits) \cup {"minmax_i64", "copy_minmax_i64"})
      [] tier = "sve" -> Gathers \cup CheckedGathers \cup Splits \cup Unpack8 \cup Minmaxes \cup CopyMinmaxes
                            \cup {"find_run_length_i32", "count_non_nulls", "fill_def_levels"}
TiersOf(arch) == CASE arch = "x86" -> <<"scalar", "sse", "avx", "avx2", "avx512">>
                   [] arch = "arm" -> <<"scalar", "neon", "sve">>
                   [] arch = "none" -> <<"scalar">>

\* A checked gather is made of two entries, a wide unpack of a function and the
\* number of values it gives.
PlainGather(k) == CASE k = "checked_gather_i32" -> "gather_i32"
                    [] k = "checked_gather_i64" -> "gather_i64"
                    [] k = "checked_gather_float" -> "gather_float"
                    [] k = "checked_gather_double" -> "gather_double"
WideValues(tier, k) ==
    IF <<tier, k>> \in {<<"sse", "bitunpack_wide_1">>, <<"neon", "bitunpack_wide_1">>, <<"neon", "bitunpack_wide_4">>,
                       <<"avx512", "bitunpack_wide_4">>, <<"avx512", "bitunpack_wide_8">>} THEN 32 ELSE 16
EntriesOf(k) == IF k \in CheckedGathers THEN <<PlainGather(k), k>>
                ELSE IF k \in Wide THEN <<k, "values">> ELSE <<k>>

\* The writes of carquet_simd_dispatch_init that concern a kernel.
WritesOf(k, tier) ==
    IF k \notin Installs(tier) THEN <<>>
    ELSE [i \in DOMAIN EntriesOf(k) |->
             [entry |-> EntriesOf(k)[i], tier |-> tier,
              value |-> IF EntriesOf(k)[i] = "values" THEN WideValues(tier, k) ELSE tier]]
RECURSIVE WritesFrom(_, _)
WritesFrom(k, tiers) == IF tiers = <<>> THEN <<>> ELSE WritesOf(k, Head(tiers)) \o WritesFrom(k, Tail(tiers))

-----------------------------------------------------------------------------
(* Detection. *)

\* AVX needs the system to save the YMM registers, AVX-512 the ZMM ones.
detect_x86_features == {f \in machine.advertised :
    CASE f = "sse" -> TRUE
      [] f \in {"avx", "avx2"} -> machine.os \in {"ymm", "zmm"}
      [] f = "avx512" -> machine.os = "zmm"}
detect_arm_features == {"neon"} \cup (machine.advertised \cap {"sve"})
Detected == CASE machine.arch = "x86" -> detect_x86_features
              [] machine.arch = "arm" -> detect_arm_features
              [] machine.arch = "none" -> {}

Goto(t, label) == at' = [at EXCEPT ![t] = label]

\* DISPATCH_ENSURE_INIT, and the same test again at the head of the function.
EnsureInit(t) ==
    /\ at[t] = "start"
    /\ Goto(t, IF g_dispatch_initialized THEN "ready" ELSE "info")
    /\ UNCHANGED <<machine, kernel, table, g_dispatch_initialized, g_cpu_info, g_initialized,
                   g_init_lock, todo, seen, input, output>>

BeginWrites(t) == todo' = [todo EXCEPT ![t] = WritesFrom(kernel, TiersOf(machine.arch))]

\* carquet_get_cpu_info: the flag, and carquet_init where it is not set.
GetCpuInfo(t) ==
    /\ at[t] = "info"
    /\ IF g_initialized THEN Goto(t, "write") /\ BeginWrites(t)
                        ELSE Goto(t, "lock") /\ UNCHANGED todo
    /\ UNCHANGED <<machine, kernel, table, g_dispatch_initialized, g_cpu_info, g_initialized,
                   g_init_lock, seen, input, output>>

init_lock_acquire(t) ==
    /\ at[t] = "lock" /\ ~g_init_lock
    /\ g_init_lock' = TRUE
    /\ Goto(t, "recheck")
    /\ UNCHANGED <<machine, kernel, table, g_dispatch_initialized, g_cpu_info, g_initialized,
                   todo, seen, input, output>>

\* Under the lock: the flag again; the features are zeroed and then detected.
Recheck(t) ==
    /\ at[t] = "recheck"
    /\ Goto(t, IF g_initialized THEN "release" ELSE "detect")
    /\ g_cpu_info' = IF g_initialized THEN g_cpu_info ELSE {}
    /\ UNCHANGED <<machine, kernel, table, g_dispatch_initialized, g_initialized, g_init_lock,
                   todo, seen, input, output>>

Detect(t) ==
    /\ at[t] = "detect"
    /\ g_cpu_info' = Detected
    /\ Goto(t, "publish")
    /\ UNCHANGED <<machine, kernel, table, g_dispatch_initialized, g_initialized, g_init_lock,
                   todo, seen, input, output>>

carquet_set_initialized(t) ==
    /\ at[t] = "publish"
    /\ g_initialized' = TRUE
    /\ Goto(t, "release")
    /\ UNCHANGED <<machine, kernel, table, g_dispatch_initialized, g_cpu_info, g_init_lock,
                   todo, seen, input, output>>

init_lock_release(t) ==
    /\ at[t] = "release"
    /\ g_init_lock' = FALSE
    /\ Goto(t, "write") /\ BeginWrites(t)
    /\ UNCHANGED <<machine, kernel, table, g_dispatch_initialized, g_cpu_info, g_initialized,
                   seen, input, output>>

\* One entry; the entries of a tier the processor lacks are passed over.
WriteEntry(t) ==
    /\ at[t] = "write" /\ todo[t] # <<>>
    /\ LET w == Head(todo[t])
       IN  table' = IF w.tier = "scalar" \/ w.tier \in g_cpu_info
                    THEN [table EXCEPT ![w.entry] = w.value] ELSE table
    /\ todo' = [todo EXCEPT ![t] = Tail(@)]
    /\ UNCHANGED <<machine, kernel, g_dispatch_initialized, g_cpu_info, g_initialized, g_init_lock,
                   at, seen, input, output>>

\* The flag set before the entries are.
dispatch_set_initialized_Early(t) ==
    /\ at[t] = "write"
    /\ g_dispatch_initialized' = TRUE
    /\ IF todo[t] = <<>> THEN Goto(t, "ready") ELSE UNCHANGED at
    /\ UNCHANGED <<machine, kernel, table, g_cpu_info, g_initialized, g_init_lock,
                   todo, seen, input, output>>

dispatch_set_initialized(t) ==
    /\ at[t] = "write" /\ todo[t] = <<>>
    /\ g_dispatch_initialized' = TRUE
    /\ Goto(t, "ready")
    /\ UNCHANGED <<machine, kernel, table, g_cpu_info, g_initialized, g_init_lock,
                   todo, seen, input, output>>

-----------------------------------------------------------------------------
(* A call through the table. *)

\* The first look at the table: the checked gather on ARM, the function of a wide
\* unpack.
FirstRead(t) ==
    /\ t = "caller" /\ at[t] = "ready"
    /\ seen' = IF kernel \in Wide \cup CheckedGathers THEN table[kernel] ELSE "null"
    /\ Goto(t, "call")
    /\ UNCHANGED <<machine, kernel, table, g_dispatch_initialized, g_cpu_info, g_initialized,
                   g_init_lock, todo, input, output>>

\* No dictionary: nothing is in bounds.  On ARM a checked kernel other than the
\* scalar one is called through its entry, read again; everywhere else the
\* indices are tested and the plain gather runs.
carquet_dispatch_checked_gather(in) ==
    IF in.dict = <<>> THEN [ok |-> in.indices = <<>>, out |-> <<>>]
    ELSE IF machine.arch = "arm" /\ seen \notin {"null", "scalar"}
    THEN Kernel(table[kernel], in)
    ELSE IF \E i \in DOMAIN in.indices : in.indices[i] >= Len(in.dict) THEN [ok |-> FALSE, out |-> <<>>]
    ELSE [ok |-> TRUE, out |-> Kernel(table[PlainGather(kernel)], [in EXCEPT !.kernel = PlainGather(kernel)])]

\* The loop of carquet_bitunpack_32 around a wide function: n values a call, as
\* carquet_dispatch_get_bitunpack_wide has it, and the rest by the scalar code.
\* A function that gives another number of values leaves the output wrong.
RECURSIVE WideLoop(_, _, _)
WideLoop(fn, n, in) ==
    IF in.count < n THEN Reference(in)
    ELSE LET out == Kernel(fn, in)
             rest == [in EXCEPT !.count = @ - n, !.input = SubSeq(@, (n * in.width) \div 8 + 1, Len(@))]
         IN  IF Len(out) # n THEN <<>> ELSE out \o WideLoop(fn, n, rest)
WideCall(in) == IF seen = "null" THEN Reference(in) ELSE WideLoop(seen, table["values"], in)

\* A width that has no function is left to the scalar code.
Call(in) ==
    IF kernel \in CheckedGathers THEN carquet_dispatch_checked_gather(in)
    ELSE IF kernel \in Wide THEN WideCall(in)
    ELSE IF table[kernel] = "null" THEN Reference(in)
    ELSE Kernel(table[kernel], in)
EmptyEntry == kernel \in ScalarEntries /\ \E e \in DOMAIN table : table[e] = "null"

RunKernel(t) ==
    /\ t = "caller" /\ at[t] = "call"
    /\ IF EmptyEntry THEN Goto(t, "crashed") /\ UNCHANGED <<input, output>>
       ELSE /\ \E in \in InputsOf(kernel) : input' = in /\ output' = <<Call(in)>>
            /\ Goto(t, "done")
    /\ UNCHANGED <<machine, kernel, table, g_dispatch_initialized, g_cpu_info, g_initialized,
                   g_init_lock, todo, seen>>

DispatchIdle ==
    /\ machine = [arch |-> "none"] /\ kernel = "none" /\ table = <<>>
    /\ g_dispatch_initialized = FALSE /\ g_cpu_info = {} /\ g_initialized = FALSE /\ g_init_lock = FALSE
    /\ at = [t \in Threads |-> "idle"] /\ todo = [t \in Threads |-> <<>>]
    /\ seen = "null" /\ input = <<>> /\ output = <<>>

DispatchInit ==
    /\ machine \in Machines /\ kernel \in KernelsOn(machine)
    /\ table = [e \in {EntriesOf(kernel)[i] : i \in DOMAIN EntriesOf(kernel)} |->
                   IF e = "values" THEN 0 ELSE "null"]
    /\ g_dispatch_initialized = FALSE /\ g_cpu_info = {} /\ g_initialized = FALSE /\ g_init_lock = FALSE
    /\ at = [t \in Threads |-> "start"] /\ todo = [t \in Threads |-> <<>>]
    /\ seen = "null" /\ input = <<>> /\ output = <<>>

DispatchNext ==
    \E t \in Threads :
        \/ EnsureInit(t) \/ GetCpuInfo(t) \/ init_lock_acquire(t) \/ Recheck(t) \/ Detect(t)
        \/ carquet_set_initialized(t) \/ init_lock_release(t) \/ WriteEntry(t)
        \/ dispatch_set_initialized(t) \/ FirstRead(t) \/ RunKernel(t)

-----------------------------------------------------------------------------

\* dispatch.c on the table: "Concurrent first-use is safe: init is idempotent".
\* Whatever tier an entry holds when a call goes through it, also while another
\* thread initialises the table again, the call gives what the scalar code gives.
KernelsAgree == at["caller"] # "crashed" /\ (output # <<>> => output = <<Reference(input)>>)
=============================================================================
