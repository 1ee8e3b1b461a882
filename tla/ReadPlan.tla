------------------------------ MODULE ReadPlan ------------------------------
(***************************************************************************)
(* The read plan of R/parquet-plan.R: what R type a leaf becomes and by    *)
(* which converter, from its physical type, its logical annotation and the *)
(* options of the read; and what the converters then do to the vectors     *)
(* that src/qio_file.c hands back.                                         *)
(*                                                                         *)
(* A leaf is [physical, logical, type_length, max_def, nested], a logical  *)
(* type [id, ...parameters].  A converter is the sequence of the words     *)
(* that "_" separates in its name.  A number in R is a fraction <<n, d>>,  *)
(* so that dividing by a unit or by a power of ten is exact; the rounding  *)
(* of the division is left out.  Missing is NA, NaN or an infinity.        *)
(***************************************************************************)
EXTENDS Integers, Sequences, FiniteSets

CONSTANTS PerSecond,          \* units in a second, by the name of the unit
          SecondsPerDay,
          ZoneInstant(_, _),  \* the instant of a civil time in a zone, or NA: mktime
          NA, NaN, Inf, MinusInf

Number(n) == <<n, 1>>
IsNumber(x) == x \notin {NA, NaN, Inf, MinusInf}

(* ------------------- what the schema says of a leaf ------------------- *)

Units == {"MILLIS", "MICROS", "NANOS"}
NoDetails == <<>>

qio_time_unit_name(unit) == IF unit \in Units THEN unit ELSE "UNKNOWN"

\* The parameters that schema() prints for an annotation; the others print none.
qio_logical_type_details(type) ==
    CASE type.id = "DECIMAL" -> [precision |-> type.precision, scale |-> type.scale]
      [] type.id = "INTEGER" -> [bit_width |-> type.bit_width, signed |-> type.is_signed]
      [] type.id \in {"TIME", "TIMESTAMP"} ->
            [unit |-> qio_time_unit_name(type.unit), adjusted_to_utc |-> type.is_adjusted_to_utc]
      [] OTHER -> NoDetails

Details(leaf) == IF leaf.logical = NA THEN NoDetails ELSE qio_logical_type_details(leaf.logical)
LogicalId(leaf) == IF leaf.logical = NA THEN NA ELSE leaf.logical.id

qio_parse_decimal_details(details) ==
    [precision |-> IF "precision" \in DOMAIN details THEN details.precision ELSE 0,
     scale |-> IF "scale" \in DOMAIN details THEN details.scale ELSE 0]

qio_parse_integer_details(details) ==
    [bit_width |-> IF "bit_width" \in DOMAIN details THEN details.bit_width ELSE NA,
     is_signed |-> ~ ("signed" \in DOMAIN details /\ ~ details.signed)]

qio_parse_time_details(details) ==
    [unit |-> IF "unit" \in DOMAIN details THEN details.unit ELSE NA,
     adjusted_to_utc |-> "adjusted_to_utc" \in DOMAIN details /\ details.adjusted_to_utc]

(* ------------------------------- the plan ------------------------------- *)

Target(r_type, converter) == [r_type |-> r_type, converter |-> converter]
Unresolved == Target(NA, <<NA>>)

\* The physical fallbacks.
qio_type_registry ==
    [BOOLEAN |-> Target("logical", <<"boolean">>), INT32 |-> Target("integer", <<"int32">>),
     INT64 |-> Target("double", <<"int64">>), INT96 |-> Target("POSIXct", <<"int96">>),
     FLOAT |-> Target("double", <<"float">>), DOUBLE |-> Target("double", <<"double">>),
     BYTE_ARRAY |-> Target("list", <<"binary">>), FIXED_LEN_BYTE_ARRAY |-> Target("list", <<"binary">>)]

Bytes_ == {"BYTE_ARRAY", "FIXED_LEN_BYTE_ARRAY"}
Lower(unit) == [MILLIS |-> "millis", MICROS |-> "micros", NANOS |-> "nanos"][unit]
ZoneWords(tz) == IF tz = "Zone_A" THEN <<"Zone", "A">> ELSE <<tz>>

\* The annotation narrows the storage, unless it asks for 64 bits: see Int64Target.
IntegerTarget(leaf) ==
    LET ann == qio_parse_integer_details(Details(leaf))
    IN  CASE ~ ann.is_signed /\ ann.bit_width = 32 -> Target("double", <<"uint32">>)
          [] ann.bit_width \in {8, 16, 32} /\ ~ (~ ann.is_signed /\ ann.bit_width = 32) ->
                Target("integer", <<"int32">>)
          [] OTHER -> Unresolved

Int64Target(leaf, options) ==
    CASE leaf.physical # "INT64" -> Unresolved
      [] options.int64 = "integer64" -> Target("integer64", <<"int64", "bit64">>)
      [] OTHER -> Target("double", <<"int64", "double">>)

\* The order of the rules is the code's: a rule that looks whether the row is still
\* unresolved comes after the ones it gives way to.
qio_resolve_logical(leaf, options) ==
    LET id == LogicalId(leaf)
        clock == qio_parse_time_details(Details(leaf))
        scale == qio_parse_decimal_details(Details(leaf)).scale
        integer == IntegerTarget(leaf)
    IN  CASE id = "NULL" -> Target("logical", <<"null", "logical">>)
          [] id = "DATE" /\ leaf.physical = "INT32" -> Target("Date", <<"date32">>)
          [] id = "TIMESTAMP" /\ leaf.physical = "INT64" /\ clock.unit \in Units ->
                Target("POSIXct", <<"timestamp", IF clock.adjusted_to_utc THEN "utc" ELSE "local",
                                    Lower(clock.unit)>> \o ZoneWords(options.tz))
          [] id = "TIME" /\ clock.unit \in Units ->
                Target(IF options.time = "hms" THEN "hms" ELSE "double",
                       <<"time", options.time, Lower(clock.unit)>>)
          [] id = "INTEGER" /\ integer # Unresolved -> integer
          [] id = "DECIMAL" ->
                Target("double", <<"decimal", IF leaf.physical \in Bytes_ THEN "binary" ELSE "int", scale>>)
          [] id \in {"STRING", "ENUM", "JSON"} /\ leaf.physical = "BYTE_ARRAY" -> Target("character", <<"text">>)
          [] id = "UUID" /\ leaf.physical = "FIXED_LEN_BYTE_ARRAY" -> Target("character", <<"uuid">>)
          [] id = "FLOAT16" /\ leaf.physical = "FIXED_LEN_BYTE_ARRAY" -> Target("double", <<"float16">>)
          [] leaf.physical \in Bytes_ -> Target("list", <<"binary">>)
          [] id \in {NA, "INTEGER"} -> Int64Target(leaf, options)
          [] OTHER -> Unresolved

qio_build_plan(leaf, options) ==
    LET logical == qio_resolve_logical(leaf, options)
        applied == logical # Unresolved
        target == IF applied THEN logical ELSE qio_type_registry[leaf.physical]
    IN  [r_type |-> target.r_type, converter |-> target.converter,
         nullable |-> leaf.max_def > 0, nested |-> leaf.nested, collectible |-> ~ leaf.nested,
         note |-> CASE leaf.nested -> "skipped"
                    [] ~ leaf.nested /\ ~ applied /\ LogicalId(leaf) \notin {NA, "STRING"} -> "not applied"
                    [] OTHER -> NA]

(* The codes by which the plan tells the native layer what to build. *)
qio_column_kinds(converter) ==
    CASE converter \in {<<"int64", "double">>, <<"int64", "bit64">>} -> "INT64"
      [] converter = <<"text">> -> "TEXT"
      [] converter \in {<<"binary">>, <<"float16">>} -> "BINARY"
      [] converter = <<"uuid">> -> "UUID"
      [] Len(converter) = 3 /\ SubSeq(converter, 1, 2) = <<"decimal", "binary">> -> "BINARY"
      [] converter = <<"uint32">> -> "UINT32"
      [] OTHER -> "DEFAULT"

qio_int64_code(options) == IF options.int64 = "integer64" THEN "BIT64" ELSE "DOUBLE"

(* ----------------------------- the converters ---------------------------- *)

DividedBy(x, d) == IF IsNumber(x) THEN <<x[1], x[2] * d>> ELSE x
Power(base, n) == IF n = 0 THEN 1 ELSE IF n = 1 THEN base ELSE base * base

qio_apply_decimal_scale(x, scale) == DividedBy(x, Power(10, scale))

\* The value of big-endian bytes: the magnitude, or minus the complement and one.
BigEndian(bytes) ==
    LET sum[k \in 0..Len(bytes)] == IF k = 0 THEN 0 ELSE sum[k - 1] * 256 + bytes[k]
        flip[k \in 0..Len(bytes)] == IF k = 0 THEN 0 ELSE flip[k - 1] * 256 + (255 - bytes[k])
    IN  IF bytes[1] >= 128 THEN -(flip[Len(bytes)] + 1) ELSE sum[Len(bytes)]

\* NULL and raw(0) both have no bytes, hence no value.
qio_decimal_from_binary(x, scale) ==
    qio_apply_decimal_scale(IF x = NA \/ x = <<>> THEN NA ELSE Number(BigEndian(x)), scale)

\* IEEE 754 binary16, little-endian; the number is m * 2^e.
qio_decode_float16(x) ==
    LET bits == x[1] + 256 * x[2]
        sign == IF bits >= 32768 THEN -1 ELSE 1
        exponent == (bits \div 1024) % 32
        mantissa == bits % 1024
    IN  CASE x = NA \/ x = <<>> -> NA
          [] exponent = 0 -> [m |-> sign * mantissa, e |-> -24]
          [] exponent = 31 /\ mantissa = 0 -> IF sign = 1 THEN Inf ELSE MinusInf
          [] exponent = 31 /\ mantissa # 0 -> NaN
          [] OTHER -> [m |-> sign * (1024 + mantissa), e |-> exponent - 15 - 10]

qio_as_posixct(x, per_second, tz, adjusted) ==
    LET seconds == DividedBy(x, per_second)
    IN  IF adjusted \/ tz = "UTC" THEN seconds ELSE ZoneInstant(tz, seconds)

OutsideTheDay(x, per_second) ==
    IsNumber(x) /\ LET s == DividedBy(x, per_second) IN s[1] < 0 \/ s[1] >= SecondsPerDay * s[2]

\* What a converter refuses, with an error that ends the read.
Refuses(x, converter) ==
    \/ Head(converter) = "float16" /\ \E i \in DOMAIN x : x[i] # NA /\ Len(x[i]) \notin {0, 2}
    \/ Head(converter) = "time" /\ \E i \in DOMAIN x : OutsideTheDay(x[i], PerSecond[converter[3]])

Joined(words) == IF words = <<"Zone", "A">> THEN "Zone_A" ELSE words[1]

qio_apply_converter(x, converter) ==
    CASE Head(converter) = "decimal" /\ converter[2] = "int" -> qio_apply_decimal_scale(x, converter[3])
      [] Head(converter) = "decimal" /\ converter[2] = "binary" -> qio_decimal_from_binary(x, converter[3])
      [] Head(converter) = "timestamp" ->
            qio_as_posixct(x, PerSecond[converter[3]], Joined(SubSeq(converter, 4, Len(converter))),
                           converter[2] = "utc")
      [] Head(converter) = "time" -> DividedBy(x, PerSecond[converter[3]])
      [] Head(converter) = "null" -> NA
      [] Head(converter) = "float16" -> qio_decode_float16(x)
      [] OTHER -> x

qio_apply_plan(x, plan) == [i \in DOMAIN x |-> qio_apply_converter(x[i], plan.converter)]

=============================================================================
