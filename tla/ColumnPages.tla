----------------------------- MODULE ColumnPages ------------------------------
(***************************************************************************)
(* The pages of one column chunk, as the column writer puts them into its  *)
(* buffer and the page reader finds them in the file.                      *)
(*                                                                         *)
(* A row of a flat column is Null or a value.  A page keeps one definition *)
(* level per row and, apart from them, the present values packed together. *)
(* They should be one encoded stream however many calls appended to it: a  *)
(* decoder cannot tell where a second one starts.  Every page has length   *)
(* one, so an offset in the chunk is the number of a page.                 *)
(***************************************************************************)
EXTENDS Integers, Sequences, SequencesExt, FiniteSetsExt

VARIABLES
  schema     \* the column: kind, nullable, encoding, statistics

Null == -1
Junk == -2      \* a value that no one wrote

Present(rows) == SelectSeq(rows, LAMBDA v : v # Null)

Levels(rows) == [i \in DOMAIN rows |-> IF rows[i] = Null THEN 0 ELSE 1]

NumPresent(levels) == Len(SelectSeq(levels, LAMBDA l : l = 1))

\* What a caller makes of the levels and the packed values it was given.
Scatter(levels, values) ==
  [i \in DOMAIN levels |->
     IF levels[i] = 0 THEN Null
     ELSE LET n == NumPresent(SubSeq(levels, 1, i))
          IN  IF n \in DOMAIN values THEN values[n] ELSE Junk]

DataPage(encoding, levels, streams) ==
  [type |-> "data", encoding |-> encoding, levels |-> levels, streams |-> streams]

DictionaryPage(entries) ==
  [type |-> "dictionary", encoding |-> "PLAIN", levels |-> <<>>, streams |-> <<entries>>]

DataPages(buffer) == {p \in DOMAIN buffer : buffer[p].type = "data"}

\* The rows stored in the pages of a chunk before page p.
RowsBefore(buffer, p) ==
  MapThenSumSet(LAMBDA q : Len(buffer[q].levels),
                              {q \in DataPages(buffer) : q < p})

\* The values of a data page as its decoder yields them, or the indices as they
\* are when there is no dictionary to look them up in.
Decoded(page, entries) ==
  LET stream == page.streams[1]
  IN  [i \in 1..NumPresent(page.levels) |->
         IF i \notin DOMAIN stream THEN Junk
         ELSE IF page.encoding = "DICTIONARY" /\ entries # <<>> THEN entries[stream[i] + 1]
         ELSE stream[i]]
=============================================================================
