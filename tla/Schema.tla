------------------------------- MODULE Schema -------------------------------
(***************************************************************************)
(* The schema of a file from the calls that build it (metadata/schema.c)   *)
(* through the footer (writer/file_writer.c), the reader's reconstruction  *)
(* of the tree (reader/file_reader.c) and the selection of columns by path *)
(* (src/qio_file.c, R/parquet-file.R).                                     *)
(*                                                                         *)
(* The calls append elements in the order they are made and note each      *)
(* one's parent; the footer holds the elements in that order without the   *)
(* parents, and the reader takes it for the depth-first order.             *)
(*                                                                         *)
(* Elements and leaves are counted from 1, the root being element 1.  A    *)
(* name is the sequence of what its dots separate, so a dotted path is the *)
(* concatenation of the names on it, as qio_column_path_string prints it.  *)
(***************************************************************************)
EXTENDS Integers, Sequences, FiniteSets, SequencesExt, Functions

CONSTANTS
    SCHEMA_INITIAL_CAPACITY,
    CARQUET_MAX_SCHEMA_DEPTH,
    MaxPathDepth,       \* the components a path keeps (64)
    UnitFactor,         \* 1000, between a time unit and the next
    Int64Max,
    MaxElements,        \* elements of a schema before a single addition,
    MaxHelped,          \* and after a list, map or variant is added
    Columns,            \* columns to add: name, type, logical, length
    GroupNames,
    Coercions,          \* writer options: to (a unit or "none"), truncate
    Instants,           \* timestamp values
    GroupRows           \* rows of each row group of the file

VARIABLES
    tree,       \* the schema being built
    progress,   \* "idle", "build", "write", "read", "refused"
    option,     \* the writer's coercion option
    emitted,    \* the footer: elements, paths of the chunks
    stamp,      \* a timestamp given to the writer and what it became, if one was
    shown,      \* the reader's schema
    request,    \* the columns and row groups asked for, once they are
    picked      \* what is read: leaves and rows, or why nothing is

schemaVars == <<tree, progress, option, emitted, stamp, shown, request, picked>>

NoLogical == [id |-> "NONE"]
RepetitionTypes == {"REQUIRED", "OPTIONAL", "REPEATED"}
Root == 1

(* --------------------------- building a schema --------------------------- *)

Element(name, typed, type, logical, length, rep) ==
    [name |-> name, typed |-> typed, type |-> type, logical |-> logical,
     length |-> length, rep |-> rep, children |-> 0]

\* The root declares no repetition, which adds what REQUIRED adds.
carquet_schema_create ==
    [elements |-> <<Element(<<"schema">>, FALSE, "none", NoLogical, 0, "REQUIRED")>>,
     parents |-> <<0>>, leaves |-> <<>>, capacity |-> SCHEMA_INITIAL_CAPACITY]

NumElements(schema) == Len(schema.elements)

Doublings == {2 ^ k : k \in 0 .. 8}

\* One of the five arrays cannot grow: the others keep their new size, the
\* capacity its old value.
schema_ensure_capacity(schema, required, memory) ==
    IF required <= schema.capacity \/ memory
    THEN [ok |-> TRUE,
          capacity |-> IF required <= schema.capacity THEN schema.capacity
                       ELSE CHOOSE c \in {schema.capacity * d : d \in Doublings} :
                                c >= required /\ c \div 2 < required]
    ELSE [ok |-> FALSE, capacity |-> schema.capacity]

\* log10(2) to the digits that decide for the widths in use.
decimal_max_precision_for_fixed_len(length) ==
    IF length <= 0 THEN 0 ELSE ((8 * length - 1) * 30103) \div 100000

Fixed(type, logical_length, length) == type = "FIXED_LEN_BYTE_ARRAY" /\ length = logical_length

DecimalFits(type, precision, length) ==
    CASE type = "INT32" -> precision <= 9
      [] type = "INT64" -> precision <= 18
      [] type = "BYTE_ARRAY" -> TRUE
      [] type = "FIXED_LEN_BYTE_ARRAY" -> precision <= decimal_max_precision_for_fixed_len(length)
      [] OTHER -> FALSE

validate_column_logical_type(type, logical, length) ==
    CASE logical.id \in {"NONE", "UNKNOWN", "NULL"} -> TRUE
      [] logical.id \in {"STRING", "ENUM", "JSON", "BSON", "GEOMETRY", "GEOGRAPHY"} -> type = "BYTE_ARRAY"
      [] logical.id = "DATE" -> type = "INT32"
      [] logical.id = "TIME" -> type = IF logical.unit = "MILLIS" THEN "INT32" ELSE "INT64"
      [] logical.id = "TIMESTAMP" -> type = "INT64"
      [] logical.id = "INTEGER" -> \/ logical.bits \in {8, 16, 32} /\ type = "INT32"
                                   \/ logical.bits = 64 /\ type = "INT64"
      [] logical.id = "DECIMAL" -> /\ logical.precision > 0 /\ logical.scale \in 0 .. logical.precision
                                   /\ DecimalFits(type, logical.precision, length)
      [] logical.id = "UUID" -> Fixed(type, 16, length)
      [] logical.id = "FLOAT16" -> Fixed(type, 2, length)
      [] logical.id = "INTERVAL" -> Fixed(type, 12, length)
      [] OTHER -> FALSE

AddsDef(rep) == IF rep \in {"OPTIONAL", "REPEATED"} THEN 1 ELSE 0
AddsRep(rep) == IF rep = "REPEATED" THEN 1 ELSE 0

\* The elements from below the root down to element i.
Chain(parents, i) ==
    LET up[k \in 0 .. i] == IF k <= Root THEN <<>> ELSE Append(up[parents[k]], k)
    IN  up[i]

Levels(elements, chain) ==
    LET def[k \in 0 .. Len(chain)] == IF k = 0 THEN 0 ELSE def[k - 1] + AddsDef(elements[chain[k]].rep)
        rep[k \in 0 .. Len(chain)] == IF k = 0 THEN 0 ELSE rep[k - 1] + AddsRep(elements[chain[k]].rep)
    IN  [def |-> def[Len(chain)], rep |-> rep[Len(chain)]]

\* -1, as 0 in the source, is the root; a leaf is nobody's parent.
ParentOf(parent) == IF parent = -1 THEN Root ELSE parent
ParentAccepted(schema, parent) ==
    /\ parent \in 1 .. NumElements(schema)
    /\ parent # Root => ~ schema.elements[parent].typed

Appended(schema, element, parent, capacity) ==
    [schema EXCEPT !.elements = Append([@ EXCEPT ![parent].children = @ + 1], element),
                   !.parents = Append(@, parent), !.capacity = capacity]

Outcome(ok, index, schema) == [ok |-> ok, index |-> index, schema |-> schema]

\* A group: the index of the new element, or a refusal that changes nothing.
AddedGroup(schema, element, parent, room) ==
    IF ~ ParentAccepted(schema, parent) \/ ~ room.ok THEN Outcome(FALSE, 0, schema)
    ELSE Outcome(TRUE, NumElements(schema) + 1, Appended(schema, element, parent, room.capacity))

carquet_schema_add_group(schema, name, logical, rep, parent, memory) ==
    AddedGroup(schema, Element(name, FALSE, "none", logical, 0, rep), ParentOf(parent),
               schema_ensure_capacity(schema, NumElements(schema) + 1, memory))

NewLeaf(schema, i) == [element |-> i] @@ Levels(schema.elements, Chain(schema.parents, i))
WithLeaf(outcome) ==
    IF ~ outcome.ok THEN outcome
    ELSE [outcome EXCEPT !.schema.leaves = Append(@, NewLeaf(outcome.schema, outcome.index))]

carquet_schema_add_column(schema, column, rep, parent, memory) ==
    IF ~ validate_column_logical_type(column.type, column.logical, column.length)
    THEN Outcome(FALSE, 0, schema)
    ELSE WithLeaf(AddedGroup(
             schema, Element(column.name, TRUE, column.type, column.logical, column.length, rep),
             ParentOf(parent), schema_ensure_capacity(schema, NumElements(schema) + 1, memory)))

\* The helpers make one call after the other and stop at the first that fails:
\* what was added before stays.  The call numbered `fails` runs out of memory
\* if it has to grow the arrays.
Under(outcome, name, rep, memory) ==
    IF ~ outcome.ok THEN outcome
    ELSE carquet_schema_add_group(outcome.schema, name, NoLogical, rep, outcome.index, memory)

\* The column is added to group `parent`, which stays the index of the outcome.
Leaf(outcome, column, rep, memory) ==
    IF ~ outcome.ok THEN outcome
    ELSE [carquet_schema_add_column(outcome.schema, column, rep, outcome.index, memory)
              EXCEPT !.index = outcome.index]

carquet_schema_add_list(schema, name, element, rep, parent, fails) ==
    Leaf(Under(carquet_schema_add_group(schema, name, [id |-> "LIST"], rep, parent, fails # 1),
               <<"list">>, "REPEATED", fails # 2),
         [element EXCEPT !.name = <<"element">>], "OPTIONAL", fails # 3)

carquet_schema_add_map(schema, name, key, value, rep, parent, fails) ==
    Leaf(Leaf(Under(carquet_schema_add_group(schema, name, [id |-> "MAP"], rep, parent, fails # 1),
                    <<"key_value">>, "REPEATED", fails # 2),
              [key EXCEPT !.name = <<"key">>], "REQUIRED", fails # 3),
         [value EXCEPT !.name = <<"value">>], "OPTIONAL", fails # 4)

BinaryColumn(name) == [name |-> name, type |-> "BYTE_ARRAY", logical |-> NoLogical, length |-> 0]

carquet_schema_add_variant(schema, name, rep, parent, fails) ==
    Leaf(Leaf(carquet_schema_add_group(schema, name, [id |-> "VARIANT"], rep, parent, fails # 1),
              BinaryColumn(<<"metadata">>), "REQUIRED", fails # 2),
         BinaryColumn(<<"value">>), "REQUIRED", fails # 3)

(* ------------------------- what a schema answers ------------------------- *)

carquet_schema_column_name(schema, leaf) == schema.elements[schema.leaves[leaf].element].name
carquet_schema_column_type(schema, leaf) == schema.elements[schema.leaves[leaf].element].type

\* Root-first; of a longer path the part nearest the leaf.
carquet_schema_column_path(schema, leaf) ==
    LET chain == Chain(schema.parents, schema.leaves[leaf].element)
        from == IF Len(chain) > MaxPathDepth THEN Len(chain) - MaxPathDepth + 1 ELSE 1
    IN  [k \in 1 .. Len(chain) - from + 1 |-> schema.elements[chain[from + k - 1]].name]

qio_column_path_string(schema, leaf) == FlattenSeq(carquet_schema_column_path(schema, leaf))

LeafIndexes(schema) == 1 .. Len(schema.leaves)

(* ------------------------------ the footer ------------------------------ *)

Rescaled(element, to) ==
    IF to # "none" /\ element.logical.id = "TIMESTAMP"
    THEN [element EXCEPT !.logical.unit = to] ELSE element

\* The elements in the order they were added.
store_schema_elements(schema, to) ==
    [i \in 1 .. NumElements(schema) |-> Rescaled(schema.elements[i], to)]

\* path_in_schema of every column chunk.
build_column_metadata_cache(schema) ==
    [leaf \in LeafIndexes(schema) |->
        LET chain == Chain(schema.parents, schema.leaves[leaf].element)
        IN  [k \in 1 .. Len(chain) |-> schema.elements[chain[k]].name]]

UnitRank(unit) == CASE unit = "MILLIS" -> 0 [] unit = "MICROS" -> 1 [] unit = "NANOS" -> 2
timestamp_unit_factor(a, b) == UnitFactor ^ (IF UnitRank(a) > UnitRank(b) THEN UnitRank(a) - UnitRank(b) ELSE UnitRank(b) - UnitRank(a))

Quotient(v, factor) == IF v >= 0 THEN v \div factor ELSE - ((- v) \div factor)

coerce_timestamp_values(v, src, dst, truncate) ==
    LET factor == timestamp_unit_factor(src, dst)
        limit == Int64Max \div factor
    IN  IF UnitRank(dst) > UnitRank(src)
        THEN IF v \in (- limit) .. limit THEN <<v * factor>> ELSE <<>>
        ELSE IF ~ truncate /\ v % factor # 0 THEN <<>> ELSE <<Quotient(v, factor)>>

(* ------------------------------ the reader ------------------------------ *)

count_leaves(elements) == Cardinality({i \in 1 .. Len(elements) : elements[i].children = 0})

\* Depth first: the groups that enclose the next element, with the children each
\* still waits for.  A group that waits for none is left once the last child is.
Unfinished(groups) ==
    SubSeq(groups, 1, CHOOSE k \in 0 .. Len(groups) :
                          /\ k = 0 \/ groups[k].left > 0
                          /\ \A j \in k + 1 .. Len(groups) : groups[j].left = 0)

Entered(groups, i, children) ==
    LET waiting == IF groups = <<>> THEN <<>> ELSE [groups EXCEPT ![Len(groups)].left = @ - 1]
    IN  Unfinished(IF children = 0 THEN waiting
                   ELSE Append(waiting, [index |-> i, left |-> children]))

Enclosing(elements) ==
    LET open[i \in 0 .. Len(elements)] ==
            IF i = 0 THEN <<>> ELSE Entered(open[i - 1], i, elements[i].children)
    IN  [i \in 1 .. Len(elements) |-> open[i - 1]]

Parent(groups) == IF groups = <<>> THEN 0 ELSE groups[Len(groups)].index

Path(groups, i) == [k \in 1 .. Len(groups) |-> IF k < Len(groups) THEN groups[k + 1].index ELSE i]

\* A plausible slip: the levels of the groups around the leaf, not its own.
traverse_schema_recursive_Outer(elements, groups, i) ==
    [element |-> i] @@ Levels(elements, Front(Path(groups[i], i)))

traverse_schema_recursive(elements, groups, i) ==
    [element |-> i] @@ Levels(elements, Path(groups[i], i))

compute_levels(elements, groups) ==
    LET leaves == SetToSortSeq({i \in 2 .. Len(elements) : elements[i].children = 0}, <)
    IN  [ok |-> \A i \in 1 .. Len(elements) : Len(groups[i]) <= CARQUET_MAX_SCHEMA_DEPTH,
         elements |-> elements,
         parents |-> [i \in 1 .. Len(elements) |-> Parent(groups[i])],
         leaves |-> [k \in 1 .. Len(leaves) |-> traverse_schema_recursive(elements, groups, leaves[k])]]

\* A schema of the root alone has one "leaf", the root, with no levels.
build_schema(elements) ==
    IF Len(elements) = 1
    THEN [ok |-> TRUE, elements |-> elements, parents |-> <<0>>,
          leaves |-> [k \in 1 .. count_leaves(elements) |-> [element |-> Root, def |-> 0, rep |-> 0]]]
    ELSE compute_levels(elements, Enclosing(elements))

(* ------------------------- selecting the columns ------------------------- *)

carquet_schema_node_is_leaf(element) == element.typed

\* The elements with a type, in order: the leaves as qio counts them.
qio_leaf_nodes(schema) ==
    SetToSortSeq({i \in 1 .. NumElements(schema) : carquet_schema_node_is_leaf(schema.elements[i])}, <)

qio_leaf_node_at(schema, leaf) == qio_leaf_nodes(schema)[leaf]

\* A plausible slip: the leaves are taken as they come, however many there are.
qio_parquet_schema_Unchecked(schema) ==
    <<[leaf \in LeafIndexes(schema) |->
          [name |-> carquet_schema_column_name(schema, leaf),
           path |-> qio_column_path_string(schema, leaf),
           type |-> carquet_schema_column_type(schema, leaf),
           node |-> schema.leaves[leaf].element,
           def |-> schema.leaves[leaf].def, rep |-> schema.leaves[leaf].rep]]>>

\* schema(): a row for every leaf, the annotation from the typed elements and the
\* rest from the reader's leaves; refused unless there are enough of the former.
qio_parquet_schema(schema) ==
    IF Len(qio_leaf_nodes(schema)) < Len(schema.leaves) THEN <<>>
    ELSE <<[leaf \in LeafIndexes(schema) |->
               [name |-> carquet_schema_column_name(schema, leaf),
                path |-> qio_column_path_string(schema, leaf),
                type |-> carquet_schema_column_type(schema, leaf),
                node |-> qio_leaf_node_at(schema, leaf),
                def |-> schema.leaves[leaf].def, rep |-> schema.leaves[leaf].rep]]>>

qio_read_plan_nested(row) == row.rep > 0 \/ row.path # row.name

PathMatches(rows, path) == {i \in DOMAIN rows : rows[i].path = path}

\* The leaves asked for by path, none of them unknown or ambiguous.
qio_resolve_columns(rows, paths) ==
    IF \E k \in DOMAIN paths : Cardinality(PathMatches(rows, paths[k])) # 1 THEN <<>>
    ELSE <<[k \in DOMAIN paths |-> CHOOSE i \in PathMatches(rows, paths[k]) : TRUE]>>

AllLeaves(rows) == [i \in 1 .. Len(rows) |-> i]

\* Nested leaves are dropped with a message.
qio_select_columns(rows, columns) ==
    LET indexes == IF columns.all THEN <<AllLeaves(rows)>> ELSE qio_resolve_columns(rows, columns.paths)
    IN  IF indexes = <<>> THEN <<>>
        ELSE <<SelectSeq(indexes[1], LAMBDA i : ~ qio_read_plan_nested(rows[i]))>>

NotRead(why) == [ok |-> FALSE, why |-> why]

ReadableTypes == {"BOOLEAN", "INT32", "INT64", "INT96", "FLOAT", "DOUBLE", "BYTE_ARRAY",
                  "FIXED_LEN_BYTE_ARRAY"}

HasWidth(schema, leaf) ==
    carquet_schema_column_type(schema, leaf) = "FIXED_LEN_BYTE_ARRAY"
        => schema.elements[qio_leaf_node_at(schema, leaf)].length > 0

RowsOf(groups) ==
    LET sum[k \in 0 .. Len(GroupRows)] ==
            IF k = 0 THEN 0 ELSE sum[k - 1] + (IF k \in groups THEN GroupRows[k] ELSE 0)
    IN  sum[Len(GroupRows)]

\* The native side checks again what it is given.
qio_prepare_selection(schema, leaves, groups) ==
    CASE \E k \in DOMAIN leaves : leaves[k] \notin LeafIndexes(schema) -> NotRead("column index")
      [] \E k \in DOMAIN leaves : \/ Len(carquet_schema_column_path(schema, leaves[k])) > 1
                                  \/ schema.leaves[leaves[k]].rep > 0 -> NotRead("nested")
      [] \E k \in DOMAIN leaves : carquet_schema_column_type(schema, leaves[k]) \notin ReadableTypes ->
            NotRead("type")
      [] \E k \in DOMAIN leaves : ~ HasWidth(schema, leaves[k]) -> NotRead("width")
      [] ~ groups \subseteq 1 .. Len(GroupRows) -> NotRead("row group")
      [] OTHER -> [ok |-> TRUE, leaves |-> leaves, rows |-> RowsOf(groups),
                   nodes |-> [k \in DOMAIN leaves |-> qio_leaf_node_at(schema, leaves[k])],
                   names |-> [k \in DOMAIN leaves |-> qio_column_path_string(schema, leaves[k])]]

qio_collect_selection(schema, rows, ask) ==
    IF rows = <<>> THEN NotRead("schema")
    ELSE LET leaves == qio_select_columns(rows[1], ask.columns)
         IN  IF leaves = <<>> THEN NotRead("column")
             ELSE qio_prepare_selection(schema, leaves[1], ask.groups)

(* ------------------------------ the machine ------------------------------ *)

SchemaIdle ==
    /\ tree = "none" /\ progress = "idle" /\ option = "none" /\ emitted = "none"
    /\ stamp = <<>> /\ shown = "none" /\ request = <<>> /\ picked = <<>>

SchemaInit ==
    /\ tree = carquet_schema_create /\ progress = "build" /\ option = "none" /\ emitted = "none"
    /\ stamp = <<>> /\ shown = "none" /\ request = <<>> /\ picked = <<>>

\* One past the last element is a parent no schema has.
Parents == {-1} \cup 1 .. NumElements(tree) + 1

Building == progress = "build"
Becomes(outcome) ==
    /\ tree' = outcome.schema
    /\ UNCHANGED <<progress, option, emitted, stamp, shown, request, picked>>

AddColumn ==
    /\ Building /\ NumElements(tree) < MaxElements
    /\ \E column \in Columns, rep \in RepetitionTypes, parent \in Parents, memory \in BOOLEAN :
          \E got \in {carquet_schema_add_column(tree, column, rep, parent, memory)} : Becomes(got)

AddGroup ==
    /\ Building /\ NumElements(tree) < MaxElements
    /\ \E name \in GroupNames, rep \in RepetitionTypes, parent \in Parents, memory \in BOOLEAN :
          \E got \in {carquet_schema_add_group(tree, name, NoLogical, rep, parent, memory)} : Becomes(got)

AddList ==
    /\ Building /\ NumElements(tree) + 3 <= MaxHelped
    /\ \E name \in GroupNames, element \in Columns, rep \in {"REQUIRED", "OPTIONAL"},
          parent \in Parents, fails \in 0 .. 3 :
          \E got \in {carquet_schema_add_list(tree, name, element, rep, parent, fails)} : Becomes(got)

AddMap ==
    /\ Building /\ NumElements(tree) + 4 <= MaxHelped
    /\ \E name \in GroupNames, key, value \in Columns, parent \in Parents, fails \in 0 .. 4 :
          \E got \in {carquet_schema_add_map(tree, name, key, value, "OPTIONAL", parent, fails)} : Becomes(got)

AddVariant ==
    /\ Building /\ NumElements(tree) + 3 <= MaxHelped
    /\ \E name \in GroupNames, rep \in {"REQUIRED", "OPTIONAL"}, parent \in Parents, fails \in 0 .. 3 :
          \E got \in {carquet_schema_add_variant(tree, name, rep, parent, fails)} : Becomes(got)

\* carquet_writer_create takes its copy of the schema.
CreateWriter ==
    /\ Building
    /\ \E chosen \in Coercions :
          /\ \/ chosen.to = "none"
             \/ \E leaf \in LeafIndexes(tree) : tree.elements[tree.leaves[leaf].element].logical.id = "TIMESTAMP"
          /\ option' = chosen
          /\ emitted' = [elements |-> store_schema_elements(tree, chosen.to),
                      paths |-> build_column_metadata_cache(tree)]
    /\ progress' = "write"
    /\ UNCHANGED <<tree, stamp, shown, request, picked>>

\* carquet_writer_write_batch of one value of a timestamp column.
WriteTimestamp ==
    /\ progress = "write" /\ stamp = <<>>
    /\ \E leaf \in LeafIndexes(tree), v \in Instants :
          LET element == tree.elements[tree.leaves[leaf].element]
          IN  /\ element.logical.id = "TIMESTAMP"
              /\ stamp' = <<[leaf |-> leaf, given |-> v,
                             kept |-> IF option.to \in {"none", element.logical.unit} THEN <<v>>
                                      ELSE coerce_timestamp_values(v, element.logical.unit, option.to,
                                                                   option.truncate)]>>
    /\ UNCHANGED <<tree, progress, option, emitted, shown, request, picked>>

\* The reader's schema does not depend on the values: the file without one.
Open ==
    /\ progress = "write" /\ stamp = <<>>
    /\ \E got \in {build_schema(emitted.elements)} :
          IF got.ok THEN progress' = "read" /\ shown' = got
          ELSE progress' = "refused" /\ shown' = "none"
    /\ UNCHANGED <<tree, option, emitted, stamp, request, picked>>

\* Paths a user may name: those of the file, and one it may not have.
InFile == {qio_column_path_string(shown, leaf) : leaf \in LeafIndexes(shown)}
Askable == InFile \cup {<<"b">>}

Everything == [all |-> TRUE, paths |-> <<>>]
Paths(paths) == [all |-> FALSE, paths |-> paths]

Select ==
    /\ progress = "read" /\ request = <<>>
    /\ \E columns \in {Everything} \cup {Paths(<<p>>) : p \in Askable}
                     \cup {Paths(<<p, q>>) : p, q \in InFile},
          groups \in {1 .. Len(GroupRows), {1}, {Len(GroupRows) + 1}} :
          /\ IsInjective(columns.paths)
          /\ columns.all \/ groups = {1}
          /\ request' = <<[columns |-> columns, groups |-> groups]>>
    /\ picked' = <<qio_collect_selection(shown, qio_parquet_schema(shown), request'[1])>>
    /\ UNCHANGED <<tree, progress, option, emitted, stamp, shown>>

SchemaNext ==
    \/ AddColumn \/ AddGroup \/ AddList \/ AddMap \/ AddVariant
    \/ CreateWriter \/ WriteTimestamp \/ Open \/ Select

(* ------------------------------ properties ------------------------------ *)

\* Every element follows its parent or a sibling's subtree, and every group has
\* a child: then the order of the calls is the depth-first order.
DepthFirst(schema) ==
    \A i \in 2 .. NumElements(schema) :
        schema.parents[i] \in {Root, i - 1} \cup Range(Chain(schema.parents, i - 1))
NoEmptyGroup(schema) ==
    \A i \in 1 .. NumElements(schema) : schema.elements[i].typed \/ schema.elements[i].children > 0

Depth(schema) == {Len(Chain(schema.parents, i)) : i \in 1 .. NumElements(schema)}
TooDeep(schema) == \E d \in Depth(schema) : d > CARQUET_MAX_SCHEMA_DEPTH

\* The unit of a timestamp in the finest unit, so that instants compare.
Worth(unit) == timestamp_unit_factor(unit, "NANOS")
UnitIn(elements) == elements[tree.leaves[stamp[1].leaf].element].logical.unit
GivenInstant == stamp[1].given * Worth(UnitIn(tree.elements))
KeptInstant == stamp[1].kept[1] * Worth(UnitIn(emitted.elements))

\* A schema whose elements were added depth first (carquet_schema_add_column,
\* _add_group, _add_list, _add_map, _add_variant) and that has no empty group is
\* the one the reader rebuilds from the footer: the same parents, and the same
\* leaves in the same order with the same levels (build_schema), under the paths
\* the column chunks carry (but for the start of a path longer than the reader
\* keeps); it is refused only for its depth.  A timestamp that is
\* rescaled means the same instant under the unit the footer declares, unless the
\* caller allowed it to be cut.
SchemaReadsBack ==
    /\ progress \in {"read", "refused"} /\ DepthFirst(tree) /\ NoEmptyGroup(tree) =>
          /\ (progress = "refused") = TooDeep(tree)
          /\ progress = "read" =>
                /\ shown.parents = tree.parents /\ shown.leaves = tree.leaves
                /\ \A leaf \in LeafIndexes(tree) : Len(emitted.paths[leaf]) <= MaxPathDepth
                       => qio_column_path_string(shown, leaf) = FlattenSeq(emitted.paths[leaf])
    /\ stamp # <<>> /\ option.to # "none" /\ stamp[1].kept # <<>> =>
          \/ KeptInstant = GivenInstant
          \/ /\ option.truncate
             /\ KeptInstant \in GivenInstant - Worth(option.to) + 1 .. GivenInstant + Worth(option.to) - 1

Flat(leaf) == Len(Chain(shown.parents, shown.leaves[leaf].element)) = 1 /\ shown.leaves[leaf].rep = 0
WithPath(path) == {leaf \in LeafIndexes(shown) : qio_column_path_string(shown, leaf) = path}

\* Columns are read by complete path, whatever the file's schema looks like
\* (qio_resolve_columns, qio_prepare_selection): what is delivered is, in the
\* order asked for, the only leaf with each path, nested ones left out, and the
\* annotation it is read by is the one of that same leaf although the two are
\* found by different counts.  A read is refused for a path that is no leaf's or
\* several leaves', for a leaf that has no type, for a width of zero and for a row
\* group the file does not have, and for nothing else.
SelectionIsByPath ==
    picked # <<>> =>
        LET ask == request[1]
            got == picked[1]
            paths == ask.columns.paths
            known == ask.columns.all \/ \A k \in DOMAIN paths : Cardinality(WithPath(paths[k])) = 1
            wanted == IF ask.columns.all THEN [k \in LeafIndexes(shown) |-> k]
                      ELSE [k \in DOMAIN paths |-> CHOOSE i \in WithPath(paths[k]) : TRUE]
            typed == \A leaf \in LeafIndexes(shown) : shown.elements[shown.leaves[leaf].element].typed
            flat == SelectSeq(wanted, Flat)
        IN  /\ got.ok = /\ typed /\ known /\ ask.groups \subseteq 1 .. Len(GroupRows)
                        /\ \A k \in DOMAIN flat : HasWidth(shown, flat[k])
            /\ got.ok => /\ got.leaves = flat /\ got.rows = RowsOf(ask.groups)
                         /\ \A k \in DOMAIN flat : got.nodes[k] = shown.leaves[flat[k]].element
=============================================================================
