------------------------------- MODULE Thrift -------------------------------
(***************************************************************************)
(* The Thrift compact protocol of src/carquet/thrift/thrift_encode.c and   *)
(* thrift_decode.c.  A structure is written as a sequence of fields        *)
(* [id, type, bytes]; it is read against a layout, which says how the      *)
(* parser of that structure reads each field id it knows, whatever the     *)
(* wire type; every other field is skipped by its wire type.  A decoder    *)
(* never stops a parser: its first error sticks, reads return nothing from *)
(* then on and no further field begins.                                    *)
(***************************************************************************)
EXTENDS Integers, Sequences, TLC

STOP == 0
TRUE_TYPE == 1
FALSE_TYPE == 2
BYTE == 3
I16 == 4
I32 == 5
I64 == 6
DOUBLE == 7
BINARY == 8
LIST == 9
SET_TYPE == 10
MAP == 11
STRUCT == 12
UUID == 13
THRIFT_MAX_NESTING == 32
MaxVarintBytes == 10

carquet_zigzag_encode64(v) == IF v >= 0 THEN 2 * v ELSE -2 * v - 1
carquet_zigzag_decode64(n) == IF n % 2 = 0 THEN n \div 2 ELSE -((n + 1) \div 2)

(* ------------------------------- encoder ------------------------------- *)

RECURSIVE thrift_write_varint(_)
thrift_write_varint(v) ==
    IF v < 128 THEN <<v>> ELSE <<(v % 128) + 128>> \o thrift_write_varint(v \div 128)

thrift_write_zigzag(v) == thrift_write_varint(carquet_zigzag_encode64(v))
thrift_write_binary(data) == thrift_write_varint(Len(data)) \o data

RECURSIVE Concatenated(_)
Concatenated(ss) == IF ss = <<>> THEN <<>> ELSE Head(ss) \o Concatenated(Tail(ss))

\* The short form when the id is at most 15 above the one before it.
thrift_write_field_header(last, type, id) ==
    IF id - last \in 1..15 THEN <<(id - last) * 16 + type>>
    ELSE <<type>> \o thrift_write_zigzag(id)

\* last_field_id starts at 0 in every structure.
thrift_write_struct(fields) ==
    Concatenated([i \in DOMAIN fields |->
              thrift_write_field_header(IF i = 1 THEN 0 ELSE fields[i - 1].id, fields[i].type, fields[i].id)
                 \o fields[i].bytes]) \o <<STOP>>

thrift_write_list_begin(type, count) ==
    IF count < 15 THEN <<count * 16 + type>>
    ELSE <<15 * 16 + type>> \o thrift_write_varint(count)

thrift_write_map_begin(key_type, value_type, count) ==
    IF count = 0 THEN <<0>>
    ELSE thrift_write_varint(count) \o <<key_type * 16 + value_type>>

(* ------------------------------- decoder ------------------------------- *)

thrift_decoder_init(data) ==
    [data |-> data, pos |-> 0, status |-> "ok", nesting_level |-> 0, bool_pending |-> FALSE, bool_value |-> FALSE]

has_bytes(d, n) == Len(d.data) - d.pos >= n
set_error(d, status) == IF d.status = "ok" THEN [d EXCEPT !.status = status] ELSE d
Advance(d, n) == [d EXCEPT !.pos = @ + n]
Yield(d, v) == [d |-> d, v |-> v]

\* The end of the data read as a zero byte, which ends a structure.
read_byte_raw_Silent(d) ==
    IF has_bytes(d, 1) THEN Yield(Advance(d, 1), d.data[d.pos + 1]) ELSE Yield(d, 0)

read_byte_raw(d) ==
    IF has_bytes(d, 1) THEN Yield(Advance(d, 1), d.data[d.pos + 1])
    ELSE Yield(set_error(d, "truncated"), 0)

RECURSIVE VarintFrom(_, _, _, _)
VarintFrom(d, shift, weight, sum) ==
    IF shift = MaxVarintBytes THEN Yield(set_error(d, "decode"), 0)
    ELSE IF ~has_bytes(d, 1) THEN Yield(set_error(d, "truncated"), 0)
    ELSE LET b == d.data[d.pos + 1]
         IN  IF b < 128 THEN Yield(Advance(d, 1), sum + b * weight)
             ELSE VarintFrom(Advance(d, 1), shift + 1, weight * 128, sum + (b - 128) * weight)

thrift_read_varint(d) == VarintFrom(d, 0, 1, 0)
thrift_read_zigzag(d) == LET r == thrift_read_varint(d) IN Yield(r.d, carquet_zigzag_decode64(r.v))

\* The eight bytes of a double, or the sixteen of a UUID.
ReadFixed(d, n) ==
    IF has_bytes(d, n) THEN Yield(Advance(d, n), SubSeq(d.data, d.pos + 1, d.pos + n))
    ELSE Yield(set_error(d, "truncated"), [i \in 1..n |-> 0])

\* A boolean field is its header; an element of a list is a byte.
thrift_read_bool(d) ==
    IF d.bool_pending THEN Yield([d EXCEPT !.bool_pending = FALSE], d.bool_value)
    ELSE LET r == read_byte_raw(d) IN Yield(r.d, r.v = 1)

thrift_read_binary(d) ==
    LET n == thrift_read_varint(d)
    IN  IF ~has_bytes(n.d, n.v) THEN Yield(set_error(n.d, "truncated"), <<>>)
        ELSE Yield(Advance(n.d, n.v), SubSeq(d.data, n.d.pos + 1, n.d.pos + n.v))

thrift_read_struct_begin(d) ==
    IF d.nesting_level >= THRIFT_MAX_NESTING THEN set_error(d, "decode")
    ELSE [d EXCEPT !.nesting_level = @ + 1]

thrift_read_struct_end(d) == [d EXCEPT !.nesting_level = IF @ > 0 THEN @ - 1 ELSE @]

\* more is false at the end of the structure and after an error.
thrift_read_field_begin(d, last) ==
    LET h == read_byte_raw(d)
        wide == thrift_read_zigzag(h.d)
        type == h.v % 16
        delta == h.v \div 16
        after == IF delta = 0 THEN wide.d ELSE h.d
    IN  IF d.status # "ok" THEN [d |-> d, more |-> FALSE, type |-> STOP, id |-> 0]
        ELSE IF h.v = 0 THEN [d |-> h.d, more |-> FALSE, type |-> STOP, id |-> 0]
        ELSE [d |-> IF type \in {TRUE_TYPE, FALSE_TYPE}
                    THEN [after EXCEPT !.bool_pending = TRUE, !.bool_value = (type = TRUE_TYPE)]
                    ELSE after,
              more |-> TRUE, type |-> type, id |-> IF delta = 0 THEN wide.v ELSE last + delta]

\* An element takes at least a byte, so a count above what is left is an error.
Counted(r, elem_type) ==
    IF r.v > Len(r.d.data) - r.d.pos THEN [d |-> set_error(r.d, "decode"), count |-> 0, type |-> elem_type]
    ELSE [d |-> r.d, count |-> r.v, type |-> elem_type]

thrift_read_list_begin(d) ==
    LET h == read_byte_raw(d)
    IN  Counted(IF h.v \div 16 = 15 THEN thrift_read_varint(h.d) ELSE Yield(h.d, h.v \div 16), h.v % 16)

thrift_read_map_begin(d) ==
    LET n == Counted(thrift_read_varint(d), STOP)
        t == read_byte_raw(n.d)
    IN  IF n.count = 0 THEN [d |-> n.d, count |-> 0, key |-> STOP, value |-> STOP]
        ELSE [d |-> t.d, count |-> n.count, key |-> t.v \div 16, value |-> t.v % 16]

\* A skip past the end of the data leaves the position, and no error, behind.
SkipBytes(d, n) == IF has_bytes(d, n) THEN Advance(d, n) ELSE d

RECURSIVE thrift_skip(_, _), SkipFields(_, _), SkipItems(_, _, _)
thrift_skip(d, type) ==
    IF d.status # "ok" THEN d
    ELSE CASE type \in {TRUE_TYPE, FALSE_TYPE} -> [d EXCEPT !.bool_pending = FALSE]
           [] type = BYTE -> SkipBytes(d, 1)
           [] type \in {I16, I32, I64} -> thrift_read_varint(d).d
           [] type = DOUBLE -> SkipBytes(d, 8)
           [] type = BINARY -> thrift_read_binary(d).d
           [] type \in {LIST, SET_TYPE} -> LET l == thrift_read_list_begin(d)
                                           IN  SkipItems(l.d, <<l.type>>, l.count)
           [] type = MAP -> LET m == thrift_read_map_begin(d)
                            IN  SkipItems(m.d, <<m.key, m.value>>, m.count)
           [] type = STRUCT -> thrift_read_struct_end(SkipFields(thrift_read_struct_begin(d), 0))
           [] type = UUID -> SkipBytes(d, 16)
           [] OTHER -> set_error(d, "decode")

SkipFields(d, last) ==
    LET f == thrift_read_field_begin(d, last)
    IN  IF f.more THEN SkipFields(thrift_skip(f.d, f.type), f.id) ELSE f.d

\* count elements of a list, or count pairs of a map.
SkipItems(d, types, count) ==
    IF count = 0 \/ d.status # "ok" THEN d
    ELSE LET one == thrift_skip(d, types[1])
         IN  SkipItems(IF Len(types) = 2 THEN thrift_skip(one, types[2]) ELSE one, types, count - 1)

(* -------------------------------- layouts ------------------------------- *)

AnInt(wire) == [t |-> "int", wire |-> wire]
AByte == [t |-> "byte", wire |-> BYTE]
ABool == [t |-> "bool", wire |-> TRUE_TYPE]
ADouble == [t |-> "double", wire |-> DOUBLE]
ABinary == [t |-> "binary", wire |-> BINARY]
AStruct(fields) == [t |-> "struct", wire |-> STRUCT, fields |-> fields]
AList(item, limit) == [t |-> "list", wire |-> LIST, item |-> item, limit |-> limit]
AnEmptyStruct == AStruct(<<>>)

\* A field of a structure in memory: one with a has_ flag is in the record's
\* domain when the flag is set, the others have the value memset gives them.
IfSet(id, name, as) == [id |-> id, name |-> name, as |-> as, when |-> "set", zero |-> <<>>]
Zeroed(id, name, as, zero) == [id |-> id, name |-> name, as |-> as, when |-> "nonzero", zero |-> zero]
Always(id, name, as) == [id |-> id, name |-> name, as |-> as, when |-> "always", zero |-> <<>>]
Once(id, name, as) == [id |-> id, name |-> name, as |-> as, when |-> "once", zero |-> <<>>]  \* a second one is an error

IsWritten(f, rec) == \/ f.when = "always"
                     \/ f.when = "set" /\ f.name \in DOMAIN rec
                     \/ f.when = "nonzero" /\ rec[f.name] # f.zero

RECURSIVE WriteAs(_, _), WireFields(_, _)

WriteAs(v, layout) ==
    CASE layout.t = "int" -> thrift_write_zigzag(v)
      [] layout.t = "byte" -> <<v % 256>>
      [] layout.t = "bool" -> <<IF v THEN 1 ELSE 0>>
      [] layout.t = "double" -> v
      [] layout.t = "binary" -> thrift_write_binary(v)
      [] layout.t = "struct" -> thrift_write_struct(WireFields(v, layout.fields))
      [] layout.t = "list" -> thrift_write_list_begin(layout.item.wire, Len(v))
                                 \o Concatenated([i \in DOMAIN v |-> WriteAs(v[i], layout.item)])

\* The fields a writer puts into a structure, in its order; a boolean field is its
\* header.
WireFields(rec, fields) ==
    IF fields = <<>> THEN <<>>
    ELSE LET f == Head(fields)
             header == [id |-> f.id, type |-> f.as.wire, bytes |-> <<>>]
             one == IF f.as.t = "bool"
                    THEN [header EXCEPT !.type = IF rec[f.name] THEN TRUE_TYPE ELSE FALSE_TYPE]
                    ELSE [header EXCEPT !.bytes = WriteAs(rec[f.name], f.as)]
         IN  (IF IsWritten(f, rec) THEN <<one>> ELSE <<>>) \o WireFields(rec, Tail(fields))

Signed8(b) == IF b > 127 THEN b - 256 ELSE b

\* The field of this id, if the parser has a case for it.
RECURSIVE CaseOf(_, _)
CaseOf(fields, id) == IF fields = <<>> THEN <<>>
                      ELSE IF Head(fields).id = id THEN <<Head(fields)>> ELSE CaseOf(Tail(fields), id)

\* The structure in memory after its fields were read.
Parsed(fields, got) ==
    LET there(i) == fields[i].id \in DOMAIN got
        kept == {i \in DOMAIN fields : there(i) \/ fields[i].when # "set"}
    IN  [name \in {fields[i].name : i \in kept} |->
            LET i == CHOOSE i \in kept : fields[i].name = name
            IN  IF there(i) THEN got[fields[i].id] ELSE fields[i].zero]

RECURSIVE ReadAs(_, _), ReadFields(_, _, _, _), ReadItems(_, _, _)

\* One value; a count above the parser's limit is an error.
ReadAs(d, layout) ==
    CASE layout.t = "int" -> thrift_read_zigzag(d)
      [] layout.t = "byte" -> LET r == read_byte_raw(d) IN Yield(r.d, Signed8(r.v))
      [] layout.t = "bool" -> thrift_read_bool(d)
      [] layout.t = "double" -> ReadFixed(d, 8)
      [] layout.t = "binary" -> thrift_read_binary(d)
      [] layout.t = "struct" ->
            LET r == ReadFields(thrift_read_struct_begin(d), layout.fields, 0, <<>>)
            IN  Yield(thrift_read_struct_end(r.d), Parsed(layout.fields, r.v))
      [] layout.t = "list" ->
            LET l == thrift_read_list_begin(d)
            IN  IF l.count > layout.limit THEN Yield(set_error(l.d, "decode"), <<>>)
                ELSE ReadItems(l.d, layout.item, [n |-> l.count, got |-> <<>>])

\* The loop over the fields of a structure: one that comes twice counts as it came
\* last, one without a case is skipped.
ReadFields(d, fields, last, got) ==
    LET f == thrift_read_field_begin(d, last)
        known == CaseOf(fields, f.id)
        r == ReadAs(f.d, known[1].as)
    IN  IF ~f.more THEN Yield(f.d, got)
        ELSE IF known # <<>> /\ known[1].when = "once" /\ f.id \in DOMAIN got
        THEN Yield(set_error(f.d, "decode"), got)
        ELSE IF known # <<>> THEN ReadFields(r.d, fields, f.id, (f.id :> r.v) @@ got)
        ELSE ReadFields(thrift_skip(f.d, f.type), fields, f.id, got)

ReadItems(d, item, todo) ==
    IF Len(todo.got) = todo.n THEN Yield(d, todo.got)
    ELSE LET r == ReadAs(d, item)
         IN  ReadItems(r.d, item, [todo EXCEPT !.got = Append(@, r.v)])
=============================================================================
