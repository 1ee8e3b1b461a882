----------------------------- MODULE MCColumnChunk ----------------------------
(***************************************************************************)
(* The columns, the foreign chunks and the filters of the column runs.     *)
(***************************************************************************)
EXTENDS ColumnChunk

Column(kind, nullable, encoding) ==
  [kind |-> kind, nullable |-> nullable, encoding |-> encoding, statistics |-> TRUE]

MCSchemas ==
  {Column("int", FALSE, "PLAIN"), Column("int", TRUE, "PLAIN"), Column("text", TRUE, "PLAIN"),
   Column("int", TRUE, "DICTIONARY"), Column("text", FALSE, "DICTIONARY")}

TextSchemas == {Column("text", TRUE, "DICTIONARY")}

\* The mixed chunk of a required fixed-width column is left out: its PLAIN pages
\* are viewed in place, and not refused, when dictionaries are preserved.
MCForeign ==
  {f \in [schema : {Column("int", FALSE, "PLAIN"), Column("text", TRUE, "PLAIN")},
          rows : {<<1, 2, 1, 2, 2, 1>>, <<2, Null, Null, 1, Null, 2>>},
          layout : {<<2, 3, 1>>, <<1, 3, 2>>},
          encodings : {"plain", "dictionary", "mixed"},
          place : {"behind", "inPlace", "undeclared"},
          indexed : BOOLEAN] :
     /\ f.schema.nullable <=> Contains(f.rows, Null)
     /\ f.encodings = "mixed" => f.schema.nullable
     /\ f.encodings = "plain" => f.place = "behind"}

NoForeign == {}

MCClauses ==
  LET v == 0..3
  IN  [op : {"EQ", "NE", "LT", "LE", "GT", "GE"}, value : v]
        \cup [op : {"RANGE"}, lo : {Null, 1, 2}, hi : {Null, 1, 2}]
        \cup [op : {"IN"}, values : {{}, {0, 3}, {1}, {0, 2}}]
        \cup [op : {"IS_NULL", "IS_NOT_NULL"}]
=============================================================================
