---------------------------- MODULE WriteColumns ----------------------------
(***************************************************************************)
(* write_parquet() from R's side: the schema a frame gets (inferred, or    *)
(* declared with parquet_schema()), the checks and conversions of its      *)
(* columns (R/parquet-schema.R), what an append asks of the file           *)
(* (R/parquet.R, carquet_writer_open_append), and the conversions of       *)
(* qio_write_body.  Several frames go to one path, the first as a new file *)
(* and the others as appends; one column of it is then collected, by       *)
(* Materialize.                                                            *)
(*                                                                         *)
(* A frame is [names, columns, schema, sorted_by]: a column has a class    *)
(* and values, the schema is a sequence of declarations by column name.  A *)
(* string is [bytes, enc], the bytes in the encoding R marked it with.     *)
(***************************************************************************)
EXTENDS Materialize

CONSTANTS FloatBits,       \* a float is exact up to 2^FloatBits
          WrittenFrames    \* the sequences of frames, one set per kind of value

VARIABLES frames,    \* the frames to write
          next,      \* the one whose turn it is
          file,      \* the file: [names, leaves, columns, sorting], or NoFile
          accepted,  \* the frames that were written
          warned,    \* as.integer() warned of a value it could not keep
          which      \* the column that is read
writeVars == <<frames, next, file, accepted, warned, which>>

NoFile == [names |-> <<>>, leaves |-> <<>>, columns |-> <<>>, sorting |-> <<>>]
Refused == [ok |-> FALSE]

(* ------------------------------ the schema ------------------------------ *)

Repetitions == {"AUTO", "REQUIRED", "OPTIONAL"}
qio_new_schema(physical, logical, details, repetition) ==
    [ok |-> TRUE, physical |-> physical, logical |-> logical, details |-> details, repetition |-> repetition]
TimeDetails(unit) == [unit |-> unit, adjusted_to_utc |-> TRUE]

qio_parse_type_spec(spec) ==
    CASE spec.repetition \notin Repetitions -> Refused
      [] spec.type \in {"AUTO", "BOOLEAN", "INT32", "INT64", "FLOAT", "DOUBLE"} ->
            IF spec.unit # "absent" \/ spec.utc # "absent" THEN Refused
            ELSE qio_new_schema(spec.type, NA, NoDetails, spec.repetition)
      [] spec.type = "STRING" -> qio_new_schema("BYTE_ARRAY", "STRING", NoDetails, spec.repetition)
      [] spec.type = "DATE" -> qio_new_schema("INT32", "DATE", NoDetails, spec.repetition)
      [] spec.type = "TIMESTAMP" ->
            LET unit == IF spec.unit = "absent" THEN "MICROS" ELSE spec.unit
            IN  IF unit \notin Units \/ spec.utc = "false" THEN Refused
                ELSE qio_new_schema("INT64", "TIMESTAMP", TimeDetails(unit), spec.repetition)
      [] OTHER -> Refused

\* In a double, NaN is a value and NA is not.
qio_has_null(values) == \E i \in DOMAIN values : values[i] = NA
qio_column_repetition(x) == IF qio_has_null(x.values) THEN "OPTIONAL" ELSE "REQUIRED"

qio_infer_column(x) ==
    LET rep == qio_column_repetition(x)
    IN  CASE x.class = "Date" -> qio_new_schema("INT32", "DATE", NoDetails, rep)
          [] x.class = "POSIXct" -> qio_new_schema("INT64", "TIMESTAMP", TimeDetails("MICROS"), rep)
          [] x.class \in {"factor", "character"} -> qio_new_schema("BYTE_ARRAY", "STRING", NoDetails, rep)
          [] x.class = "logical" -> qio_new_schema("BOOLEAN", NA, NoDetails, rep)
          [] x.class = "integer" -> qio_new_schema("INT32", NA, NoDetails, rep)
          [] x.class = "double" -> qio_new_schema("DOUBLE", NA, NoDetails, rep)
          [] OTHER -> Refused

\* The declarations that parquet_schema() can have built.
qio_validate_schema_object(schema) ==
    /\ schema.physical \in {"AUTO", "BOOLEAN", "INT32", "INT64", "FLOAT", "DOUBLE", "BYTE_ARRAY"}
    /\ schema.repetition \in Repetitions
    /\ <<schema.physical, schema.logical>> \in
          ({"AUTO", "BOOLEAN", "INT32", "INT64", "FLOAT", "DOUBLE"} \X {NA})
            \cup {<<"BYTE_ARRAY", "STRING">>, <<"INT32", "DATE">>, <<"INT64", "TIMESTAMP">>}
    /\ schema.logical = "TIMESTAMP" =>
          LET details == qio_parse_time_details(schema.details)
          IN  details.unit \in Units /\ details.adjusted_to_utc

\* A declaration replaces what was inferred; AUTO keeps the type.
Overridden(inferred, declared) ==
    IF declared.physical # "AUTO" THEN declared
    ELSE IF declared.repetition # "AUTO" THEN [inferred EXCEPT !.repetition = declared.repetition]
    ELSE inferred

(* ------------------------------ the columns ------------------------------ *)

IsNumeric(x) == x.class \in {"integer", "double"}
Below(x, y) == x[1] * y[2] < y[1] * x[2]
Finite(values) == \A i \in DOMAIN values : values[i] = NA \/ IsNumber(values[i])
Whole(values) == \A i \in DOMAIN values : IsNumber(values[i]) => values[i][1] % values[i][2] = 0
Within(values, min, max) ==
    \A i \in DOMAIN values : IsNumber(values[i]) => /\ ~ Below(values[i], Number(min))
                                                    /\ ~ Below(Number(max), values[i])
HasNaN(values) == \E i \in DOMAIN values : values[i] = NaN
qio_validate_integral(values, min, max) == Finite(values) /\ Whole(values) /\ Within(values, min, max)

\* Strictly inside the range of INT64 once scaled.  The doubles near its ends are whole.
InsideInt64(values, per_second) ==
    Finite(values) /\ \A i \in DOMAIN values :
        IsNumber(values[i]) => LET scaled == <<values[i][1] * per_second, values[i][2]>>
                               IN  Below(Number(INT64_MIN), scaled) /\ Below(scaled, Number(-INT64_MIN))

\* as.integer() of a whole number: the smallest INT32 is R's NA.
AsRInteger(v) == IF IsNumber(v) THEN AsInteger(v[1] \div v[2]) ELSE v

Took(values) == [ok |-> TRUE, values |-> values, warned |-> FALSE]
qio_prepare_write_column(x, schema) ==
    LET v == x.values
        largest == -NA_INTEGER - 1
        int32 == [i \in DOMAIN v |-> AsRInteger(v[i])]
    IN  CASE schema.logical = "DATE" ->
              IF (x.class = "Date" \/ IsNumeric(x)) /\ ~ HasNaN(v) /\ qio_validate_integral(v, NA_INTEGER, largest)
              THEN Took(v) ELSE Refused
          [] schema.logical = "TIMESTAMP" ->
              IF x.class = "POSIXct" /\ ~ HasNaN(v) /\ InsideInt64(v, PerSecond[Lower(schema.details.unit)])
              THEN Took(v) ELSE Refused
          [] schema.physical = "BOOLEAN" -> IF x.class = "logical" THEN Took(v) ELSE Refused
          [] schema.physical = "INT32" /\ schema.logical = NA ->
              IF IsNumeric(x) /\ ~ HasNaN(v) /\ qio_validate_integral(v, NA_INTEGER, largest)
              THEN [Took(int32) EXCEPT !.warned = \E i \in DOMAIN v : v[i] # NA /\ int32[i] = NA]
              ELSE Refused
          [] schema.physical = "INT64" /\ schema.logical = NA ->
              IF /\ IsNumeric(x) /\ ~ HasNaN(v)
                 /\ qio_validate_integral(v, -QIO_DOUBLE_EXACT_MAX, QIO_DOUBLE_EXACT_MAX)
              THEN Took(v) ELSE Refused
          [] schema.physical \in {"FLOAT", "DOUBLE"} -> IF IsNumeric(x) THEN Took(v) ELSE Refused
          [] OTHER -> IF x.class \in {"character", "factor"} THEN Took(v) ELSE Refused

(* --------------------------- a prepared frame ---------------------------- *)

\* The place of a name, 0 if the frame has no such column.
ColumnNamed(names, name) == IF \E c \in DOMAIN names : names[c] = name
                            THEN CHOOSE c \in DOMAIN names : names[c] = name ELSE 0
Unique(words) == \A i, j \in DOMAIN words : words[i] = words[j] => i = j

\* The declaration of column c, if the schema names it.
Declared(frame, c) ==
    LET at == {k \in DOMAIN frame.schema : frame.schema[k].name = frame.names[c]}
    IN  IF at = {} THEN qio_new_schema("AUTO", NA, NoDetails, "AUTO")
        ELSE qio_parse_type_spec(frame.schema[CHOOSE k \in at : TRUE].spec)

ResolvedColumn(frame, c) ==
    LET x == frame.columns[c]
        inferred == qio_infer_column(x)
        schema == Overridden(inferred, Declared(frame, c))
    IN  IF ~ inferred.ok THEN Refused
        ELSE [schema EXCEPT !.repetition = IF @ = "AUTO" THEN qio_column_repetition(x) ELSE @]

qio_resolve_write_schema(frame) ==
    LET schema == [c \in DOMAIN frame.columns |-> ResolvedColumn(frame, c)]
        declared == {qio_parse_type_spec(frame.schema[k].spec) : k \in DOMAIN frame.schema}
    IN  IF /\ frame.columns # <<>> /\ Unique(frame.names)
           /\ Unique([k \in DOMAIN frame.schema |-> frame.schema[k].name])
           /\ \A d \in declared : d.ok /\ qio_validate_schema_object(d)
           /\ \A k \in DOMAIN frame.schema : ColumnNamed(frame.names, frame.schema[k].name) # 0
           /\ \A c \in DOMAIN schema : schema[c].ok
        THEN schema ELSE <<>>

qio_prepare_write_columns(frame, schema) ==
    [c \in DOMAIN schema |->
        LET took == qio_prepare_write_column(frame.columns[c], schema[c])
        IN  IF took.ok /\ schema[c].repetition = "REQUIRED" /\ qio_has_null(took.values) THEN Refused ELSE took]

\* Positions from 0, by name.
qio_sorted_by(frame) ==
    [k \in DOMAIN frame.sorted_by |-> [frame.sorted_by[k] EXCEPT !.column = ColumnNamed(frame.names, @) - 1]]
SortRefused(frame) == \/ \E k \in DOMAIN qio_sorted_by(frame) : qio_sorted_by(frame)[k].column = -1
                      \/ ~ Unique([k \in DOMAIN frame.sorted_by |-> frame.sorted_by[k].column])

(* ------------------------------- appending ------------------------------- *)

LeafOf(s) == [physical |-> s.physical, type_length |-> 0, nested |-> FALSE,
              logical |-> CASE s.logical = "TIMESTAMP" -> [id |-> "TIMESTAMP", unit |-> s.details.unit,
                                                           is_adjusted_to_utc |-> TRUE]
                            [] s.logical \in {"DATE", "STRING"} -> [id |-> s.logical]
                            [] OTHER -> NA,
              max_def |-> IF s.repetition = "OPTIONAL" THEN 1 ELSE 0,
              width |-> IF s.physical = "INT32" THEN Int32Bits ELSE Int64Bits]

\* carquet's own check compares the annotation but not its parameters.
append_validate_schema_matches(names, leaves) ==
    /\ Len(leaves) = Len(file.leaves) /\ names = file.names
    /\ \A c \in DOMAIN leaves : LET u == leaves[c] p == file.leaves[c]
                                IN  /\ u.physical = p.physical /\ u.max_def = p.max_def
                                    /\ LogicalId(u) = LogicalId(p)

qio_prepare_append_IdsOnly(names, schema) ==
    /\ Len(schema) = Len(file.leaves) /\ names = file.names
    /\ \A c \in DOMAIN schema : LET p == file.leaves[c]
                                IN  /\ schema[c].physical = p.physical /\ schema[c].logical = LogicalId(p)
                                    /\ ~ (p.max_def = 0 /\ schema[c].repetition = "OPTIONAL")

qio_prepare_append(names, schema) ==
    /\ Len(schema) = Len(file.leaves) /\ names = file.names
    /\ \A c \in DOMAIN schema : LET p == file.leaves[c]
                                IN  /\ schema[c].physical = p.physical /\ schema[c].logical = LogicalId(p)
                                    /\ schema[c].details = Details(p)
                                    /\ ~ (p.max_def = 0 /\ schema[c].repetition = "OPTIONAL")

\* Whether a column is nullable is then the file's to say.
AdoptNullable(schema) ==
    [c \in DOMAIN schema |-> [schema[c] EXCEPT !.repetition =
                                 IF file.leaves[c].max_def = 0 THEN "REQUIRED" ELSE "OPTIONAL"]]

(* ------------------------- the values in the file ------------------------- *)

\* llround() and round(): halves away from zero.
Rounded(x) == IF x[1] >= 0 THEN (2 * x[1] + x[2]) \div (2 * x[2]) ELSE -((x[2] - 2 * x[1]) \div (2 * x[2]))

\* (float): whole numbers beyond the exact range go to the nearest even one.
AsFloat(x) == IF ~ IsNumber(x) \/ x[2] # 1 \/ x[1] % 2 = 0 \/ x[1] \in -(2^FloatBits)..2^FloatBits THEN x
              ELSE Number(IF (x[1] + 1) % 4 = 0 THEN x[1] + 1 ELSE x[1] - 1)

\* Latin-1 above 127 becomes two bytes; a string marked as bytes has no translation.
translateCharUTF8(s) ==
    LET two(b) == IF b < 128 THEN <<b>> ELSE <<192 + b \div 64, 128 + (b % 64)>>
        all[k \in 0..Len(s.bytes)] == IF k = 0 THEN <<>> ELSE all[k - 1] \o two(s.bytes[k])
    IN  IF s.enc = "latin1" THEN all[Len(s.bytes)] ELSE s.bytes

Stored(v, l) ==
    CASE v = NA -> Null
      [] v # NA /\ LogicalId(l) = "TIMESTAMP" ->
            Rounded(<<v[1] * PerSecond[Lower(l.logical.unit)], v[2]>>)
      [] v # NA /\ l.physical = "BOOLEAN" -> IF v THEN 1 ELSE 0
      [] v # NA /\ LogicalId(l) # "TIMESTAMP" /\ l.physical \in {"INT32", "INT64"} -> Rounded(v)
      [] v # NA /\ l.physical = "FLOAT" -> AsFloat(v)
      [] v # NA /\ l.physical = "DOUBLE" -> v
      [] OTHER -> translateCharUTF8(v)

Untranslatable(values, l) == l.physical = "BYTE_ARRAY" /\ \E i \in DOMAIN values : values[i] # NA /\ values[i].enc = "bytes"

(* ------------------------------ the machine ------------------------------ *)

qio_write_parquet(frame, leaves, prepared) ==
    /\ file' = [names |-> frame.names, leaves |-> leaves, sorting |-> qio_sorted_by(frame),
                columns |-> [c \in DOMAIN leaves |->
                               (IF next = 1 THEN <<>> ELSE file.columns[c])
                                 \o [i \in DOMAIN prepared[c].values |-> Stored(prepared[c].values[i], leaves[c])]]]
    /\ accepted' = Append(accepted, frame)
    /\ warned' = (warned \/ \E c \in DOMAIN prepared : prepared[c].warned)

\* The first frame makes the file; if it is refused there is nothing to append to.
write_parquet ==
    LET frame == frames[next]
        append == next > 1
        schema == qio_resolve_write_schema(frame)
        prepared == qio_prepare_write_columns(frame, schema)
        leaves == [c \in DOMAIN schema |-> LeafOf((IF append THEN AdoptNullable(schema) ELSE schema)[c])]
    IN  /\ phase = "write" /\ next <= Len(frames)
        /\ next' = next + 1
        /\ IF \/ schema = <<>>
              \/ \E c \in DOMAIN prepared : ~ prepared[c].ok
              \/ append /\ (file = NoFile \/ ~ qio_prepare_append(frame.names, schema))
           THEN UNCHANGED <<file, accepted, warned>>
           ELSE IF \/ SortRefused(frame)
                   \/ append /\ ~ append_validate_schema_matches(frame.names, leaves)
                   \/ \E c \in DOMAIN leaves : Untranslatable(prepared[c].values, leaves[c])
           THEN UNCHANGED <<file, accepted, warned>>
           ELSE qio_write_parquet(frame, leaves, prepared)
        /\ UNCHANGED <<frames, which, materializeVars>>

\* read_parquet() of one column of what is there.
read_parquet ==
    /\ phase = "write" /\ next > Len(frames) /\ file # NoFile
    /\ \E c \in DOMAIN file.leaves :
         /\ column' = [NoColumn EXCEPT !.leaf = file.leaves[c], !.rows = file.columns[c], !.batch_size = 2,
                                       !.coded = IF file.leaves[c].physical = "BYTE_ARRAY"
                                                 THEN Len(file.columns[c]) ELSE 0]
         /\ dest' = [i \in DOMAIN file.columns[c] |-> Null]
         /\ which' = c
    /\ phase' = "plan"
    /\ UNCHANGED <<frames, next, file, accepted, warned, plan, path, read, strings, flags>>

WriteBegin(f) == frames = f /\ next = 1 /\ file = NoFile /\ accepted = <<>> /\ warned = FALSE /\ which = 0
WriteInit == /\ \E k \in DOMAIN WrittenFrames : \E f \in WrittenFrames[k] : WriteBegin(f)
             /\ Reset(NoColumn, "write")
WriteIdle == WriteBegin(<<>>)
WriteNext == write_parquet \/ read_parquet \/ (frames # <<>> /\ MaterializeNext /\ UNCHANGED writeVars)

(* ------------------------------ the property ----------------------------- *)

\* The code points of a string.
Characters(bytes, enc) ==
    IF enc = "latin1" THEN bytes
    ELSE LET starts == {i \in DOMAIN bytes : ~ IsContinuation(bytes[i])}
             nth(k) == CHOOSE i \in starts : Cardinality({j \in starts : j <= i}) = k
             code(i) == IF bytes[i] < 128 THEN bytes[i] ELSE (bytes[i] % 32) * 64 + (bytes[i + 1] % 64)
         IN  [k \in 1..Cardinality(starts) |-> code(nth(k))]

\* y is what x should come back as, given where it was kept.
ComesBackAs(x, y) ==
    CASE x = NA -> y = NA
      [] x # NA /\ Is({"STRING"}) -> Characters(y, "UTF-8") = Characters(x.bytes, x.enc)
      [] x # NA /\ Is({"TIMESTAMP"}) ->
            IsNumber(y) /\ LET off == 2 * UnitsOf(leaf) * (x[1] * y[2] - y[1] * x[2])
                           IN  off <= x[2] * y[2] /\ -off <= x[2] * y[2]
      [] x # NA /\ leaf.physical = "BOOLEAN" -> y = x
      [] x # NA /\ leaf.physical = "FLOAT" /\ IsNumber(x) -> SameNumber(x, y) \/ ~ SameNumber(AsFloat(x), x)
      [] OTHER -> SameNumber(x, y)

RowsGiven(c) == LET all[k \in 0..Len(accepted)] == IF k = 0 THEN <<>> ELSE all[k - 1] \o accepted[k].columns[c].values
           IN  all[Len(accepted)]

\* The class a column without a declaration has to come back as.
ClassOf(frame, c) == IF frame.columns[c].class = "factor" THEN "character" ELSE frame.columns[c].class

\* write_parquet(), also with append = TRUE, and then read_parquet(): every value of every
\* frame that was accepted comes back in its place, as itself or, for a timestamp, within
\* half a unit; where one does not, a warning was raised on the way.  A column whose type
\* was inferred has its class again.
WrittenIsReadBack ==
    phase = "done" /\ accepted # <<>> =>
        /\ Len(dest) = Len(RowsGiven(which))
        /\ \A i \in DOMAIN dest : \/ ComesBackAs(RowsGiven(which)[i], dest[i])
                                  \/ dest[i] = NA /\ (warned \/ flags.int32_sentinel)
        /\ \A k \in DOMAIN accepted : accepted[k].schema = <<>> => plan.r_type = ClassOf(accepted[k], which)
=============================================================================
