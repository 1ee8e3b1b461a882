------------------------------ MODULE ParquetFile ------------------------------
(***************************************************************************)
(* A Parquet file as a sequence of cells, and what a reader finds in it.   *)
(*                                                                         *)
(* A cell stands for a run of bytes written by one fwrite: the leading     *)
(* magic, the pages of one column chunk, a bloom filter or a page index,   *)
(* one field's worth of the Thrift footer, or the tail (footer length and  *)
(* trailing magic).  A data cell carries the rows of its chunk, which are  *)
(* numbered through the whole file, so a row that is lost, repeated or out *)
(* of order shows.  A footer is spread over as many cells as it is long;   *)
(* a reader only finds it where the length in the tail says it starts.     *)
(***************************************************************************)
EXTENDS Naturals, Sequences

CONSTANTS
  NumColumns,   \* leaf columns of the schema
  SortCost      \* cells that a sort declaration adds to a row group's metadata

ASSUME FileAssumption ==
  /\ NumColumns \in Nat \ {0}
  /\ SortCost \in Nat

Columns == 1..NumColumns

NoFile == <<[k |-> "absent"]>>

Magic == [k |-> "magic"]

Data(c, rows) == [k |-> "data", c |-> c, rows |-> rows]

\* A bloom filter, column index or offset index of column c's chunk.
Aux(kind, c, rows) == [k |-> kind, c |-> c, rows |-> rows]

Sorted(g) == g.sorted

\* The encoded length of the metadata: the longer the more row groups it lists
\* and the more of them declare a sort order.
FooterSize(groups) == 1 + Len(groups) + SortCost * Len(SelectSeq(groups, Sorted))

\* What carquet_writer_close writes last.
FooterCells(groups) ==
  [i \in 1..FooterSize(groups) |-> [k |-> "footer", groups |-> groups, i |-> i]]

TailCell(groups) == [k |-> "tail", len |-> FooterSize(groups)]

\* Writing cells o over the file d from position b on; nothing is truncated.
Overlay(d, b, o) ==
  [i \in 1..(IF b + Len(o) > Len(d) THEN b + Len(o) ELSE Len(d)) |->
     IF i \in b + 1..b + Len(o) THEN o[i - b] ELSE d[i]]

-------------------------------------------------------------------------------
(* The reader.                                                             *)

NoFooter == <<[k |-> "none"]>>

FooterStart_Whole(d) == Len(d) - d[Len(d)].len

FooterStart(d) == Len(d) - 1 - d[Len(d)].len

\* read_footer: the tail gives the length, the length the place of the
\* footer.  The Thrift parser stops at the end of the struct.
ReadFooter(d) ==
  IF Len(d) = 0 \/ d[Len(d)].k # "tail" \/ d[Len(d)].len > Len(d) - 1
  THEN NoFooter
  ELSE LET s == FooterStart(d) + 1
       IN IF d[s].k # "footer" THEN NoFooter
          ELSE LET g == d[s].groups
               IN IF /\ FooterSize(g) <= d[Len(d)].len
                     /\ \A i \in 1..FooterSize(g) :
                          d[s + i - 1] = [k |-> "footer", groups |-> g, i |-> i]
                  THEN g ELSE NoFooter

\* The rows a reader gets for column c of row group g, <<>> if the offset
\* in the metadata does not lead to a chunk of that column.
ReadChunk(d, g, c) ==
  LET i == g.data[c] + 1
  IN IF i \in DOMAIN d /\ d[i].k = "data"
     THEN (IF d[i].c = c THEN d[i].rows ELSE <<>>)
     ELSE <<>>

\* The bloom filters and page indexes are where the metadata says, each of
\* them made from its own chunk.
AuxIntact(d, g) ==
  \A a \in DOMAIN g.aux :
    LET i == g.aux[a].at + 1
    IN /\ i \in DOMAIN d
       /\ d[i].k = g.aux[a].kind
       /\ d[i] = Aux(g.aux[a].kind, g.aux[a].c, ReadChunk(d, g, g.aux[a].c))

\* Chunks read one after the other.
Joined(chunks) ==
  LET upTo[i \in 0..Len(chunks)] == IF i = 0 THEN <<>> ELSE upTo[i - 1] \o chunks[i]
  IN upTo[Len(chunks)]

\* The column of the whole file: its chunks in the order of the row groups.
ColumnOf(d, groups, c) == Joined([i \in DOMAIN groups |-> ReadChunk(d, groups[i], c)])

\* Rows 1 to n, each once and in order, in row groups whose columns are all
\* as long as the row count in the metadata.
Holds(d, groups, n) ==
  /\ \A c \in Columns : ColumnOf(d, groups, c) = [r \in 1..n |-> r]
  /\ \A i \in DOMAIN groups :
       /\ \A c \in Columns : Len(ReadChunk(d, groups[i], c)) = groups[i].rows
       /\ AuxIntact(d, groups[i])

===============================================================================
