-------------------------- MODULE WriteParquetProofs --------------------------
(***************************************************************************)
(* Proofs about write_parquet: however a call ends nothing is left behind, *)
(* and a call that succeeds has written the frame, whole and in the row    *)
(* groups asked for.                                                       *)
(*                                                                         *)
(* The invariant has three parts: the one of the file writer               *)
(* (FileWriterProofs); which writer and stream there are at each point of  *)
(* qio_write_body and qio_write_cleanup; and how far each column has come  *)
(* at each point of its three loops.                                       *)
(***************************************************************************)
EXTENDS WriteParquet, FileWriterProofs

\* The arguments of a call.
Calls == [append : BOOLEAN, sorted : BOOLEAN, group_rows : Nat, nrow : Nat]

\* The types, and which writer there is where.
ControlInv ==
  /\ pc \in {"idle", "schema", "open", "configure", "write", "boundary", "close",
             "fclose", "cleanup"}
  /\ args \in Calls /\ file \in BOOLEAN /\ finished \in BOOLEAN /\ before \in Seq(Cell)
  /\ pc \in {"schema", "open"} =>
       wstate = "none" /\ mode = "stream" /\ ~file /\ disk = before
  /\ pc \in {"configure", "write", "boundary", "close"} => wstate = "open"
  /\ pc = "fclose" => wstate = "closed"
  /\ pc \in {"configure", "write", "boundary", "close", "fclose"} =>
       file = ~args.append /\ mode = IF args.append THEN "append" ELSE "stream"
  /\ pc = "cleanup" => mode = "stream" \/ (mode = "append" /\ args.append)
  /\ pc = "cleanup" /\ mode = "stream" /\ wstate # "none" => ~args.append
  /\ finished => wstate \notin {"open", "failed"}
  /\ pc \notin {"cleanup", "idle"} => ~finished
  /\ pc \in {"configure", "write", "boundary", "close", "fclose"} => Existing \in Nat

\* The row groups that were there before the call.
First == IF args.append THEN Len(old) ELSE 0

\* gs is these and n row groups of the size asked for.
FullGroups(gs, n) ==
  /\ First + n <= Len(gs)
  /\ \A i \in 1..n : gs[First + i].rows = GroupRows

\* The rows of column c that have been written, in the chunk loop.
Reached(c) == IF c < col THEN GroupEnd(group)
              ELSE IF c = col THEN row0 ELSE GroupStart(group)

\* The row group that the outer loop is at.
GroupInv == group \in Nat /\ (group = 0 \/ GroupStart(group) < args.nrow)

\* The chunk loop: what each column has so far.
ChunkInv ==
  /\ args.nrow > 0 /\ GroupInv
  /\ col \in Columns
  /\ row0 \in Nat /\ GroupStart(group) <= row0 /\ row0 < GroupEnd(group)
  /\ \A c \in Columns : sent[c] = Existing + Reached(c)
  /\ NumColumns > 1 =>
       /\ \A c \in Columns : Existing + GroupStart(group) + Len(cols[c]) = sent[c]
       /\ Len(groups) = First + group /\ FullGroups(groups, group)

\* After a row group: it is in groups already or still open.
BoundaryInv ==
  /\ GroupInv
  /\ \A c \in Columns : sent[c] = Existing + GroupEnd(group)
  /\ NumColumns > 1 /\ args.nrow > 0 =>
       /\ Len(groups \o LastGroup) = First + group + 1
       /\ FullGroups(groups \o LastGroup, group)
       /\ (groups \o LastGroup)[First + group + 1].rows = GroupEnd(group) - GroupStart(group)

\* The row groups of the footer are those asked for.
Sizes(footer) ==
  LET n == Len(footer) - First
  IN args.nrow > 0 /\ NumColumns > 1 =>
       /\ n \in Nat /\ (n - 1) * GroupRows < args.nrow /\ args.nrow <= n * GroupRows
       /\ \A i \in 1..n - 1 : footer[First + i].rows = GroupRows
       /\ footer[First + n].rows = args.nrow - (n - 1) * GroupRows

\* The file holds the rows that were there and those of the frame.
GoodFile(d) ==
  /\ ReadFooter(d) # NoFooter /\ Holds(d, ReadFooter(d), Existing + args.nrow)
  /\ Sizes(ReadFooter(d))

\* The file is closed and nothing has failed.
Written == \/ pc = "fclose" /\ ~file
           \/ pc = "cleanup" /\ finished
           \/ pc = "idle" /\ result = "ok"

\* How far the call has come.
ProgressInv ==
  /\ pc = "configure" => /\ \A c \in Columns : sent[c] = Existing /\ cols[c] = <<>>
                         /\ rows = 0 /\ Len(groups) = First
  /\ pc = "write" => ChunkInv
  /\ pc = "boundary" => BoundaryInv
  /\ pc = "close" => BoundaryInv /\ GroupEnd(group) = args.nrow
  /\ pc = "fclose" /\ file =>
       /\ disk = <<>> /\ base = 0
       /\ \A n \in 0..Len(out) : WholeFile(Overlay(disk, base, SubSeq(out, 1, n)))
       /\ GoodFile(Overlay(disk, base, out))
  /\ Written /\ synced /\ Covered => GoodFile(disk)

\* All three.
CallInv == WriterInv /\ ControlInv /\ ProgressInv

-------------------------------------------------------------------------------
(* The partition of the frame.                                             *)

\* Division.
LEMMA DivFacts ==
  ASSUME NEW a \in Nat, NEW b \in Nat, b > 0
  PROVE  /\ a \div b \in Nat
         /\ (a \div b) * b <= a /\ a < (a \div b) * b + b
  OBVIOUS

\* Multiplication by a positive number keeps the order.
LEMMA TimesMonotone ==
  ASSUME NEW i \in Nat, NEW j \in Nat, NEW b \in Nat
  PROVE  /\ i * b \in Nat /\ (i + 1) * b = i * b + b
         /\ i <= j => i * b <= j * b
  OBVIOUS

\* The number of groups is the least that covers the frame.
LEMMA CeilingFacts ==
  ASSUME NEW n \in Nat, NEW b \in Nat, b > 0, NEW g \in Nat,
         NEW q, q = (n + b - 1) \div b
  PROVE  /\ q \in Nat
         /\ g + 1 < q => (g + 1) * b < n
         /\ q <= g + 1 => n <= (g + 1) * b
<1>1. n + b - 1 \in Nat
  OBVIOUS
<1> DEFINE a == n + b - 1
<1>2. q \in Nat /\ q * b <= a /\ a < q * b + b
  <2> HIDE DEF a
  <2>1. a \in Nat /\ q = a \div b
    BY <1>1 DEF a
  <2> QED BY <2>1, DivFacts
<1>3. ASSUME g + 1 < q PROVE (g + 1) * b < n
  <2>1. (g + 1) + 1 <= q
    BY <1>2, <1>3
  <2>2. ((g + 1) + 1) * b = (g + 1) * b + b /\ (g + 1) * b \in Nat
    BY TimesMonotone
  <2>3. ((g + 1) + 1) * b <= q * b
    BY <1>2, <2>1, TimesMonotone
  <2>4. q * b \in Nat
    BY <1>2, TimesMonotone
  <2> QED BY <1>2, <2>2, <2>3, <2>4
<1>4. ASSUME q <= g + 1 PROVE n <= (g + 1) * b
  <2>1. q * b <= (g + 1) * b
    BY <1>2, <1>4, TimesMonotone
  <2>2. q * b \in Nat /\ (g + 1) * b \in Nat
    BY <1>2, TimesMonotone
  <2> QED BY <1>2, <2>1, <2>2
<1> QED BY <1>2, <1>3, <1>4

\* The rows of group g.
LEMMA GroupFacts ==
  ASSUME args \in Calls, NEW g \in Nat, g = 0 \/ GroupStart(g) < args.nrow
  PROVE  /\ args.nrow \in Nat /\ GroupRows \in Nat /\ GroupRows > 0
         /\ GroupStart(g) \in Nat /\ GroupEnd(g) \in Nat
         /\ GroupStart(g) = g * GroupRows /\ GroupStart(0) = 0
         /\ GroupStart(g) <= GroupEnd(g) /\ GroupEnd(g) <= args.nrow
         /\ args.nrow > 0 => GroupStart(g) < GroupEnd(g)
         /\ g + 1 < NumGroups => /\ GroupStart(g + 1) < args.nrow
                                 /\ GroupEnd(g) = GroupStart(g + 1)
                                 /\ GroupEnd(g) - GroupStart(g) = GroupRows
         /\ ~(g + 1 < NumGroups) => /\ GroupEnd(g) = args.nrow
                                    /\ args.nrow <= (g + 1) * GroupRows
<1> DEFINE n == args.nrow
           b == GroupRows
           q == (n + b - 1) \div b
           s == g * b
<1>1. n \in Nat /\ args.group_rows \in Nat
  BY DEF Calls
<1>2. b \in Nat /\ b > 0
  BY <1>1 DEF GroupRows
<1>3. NumGroups = IF q < 1 THEN 1 ELSE q
  BY DEF NumGroups
<1>4. /\ GroupStart(g) = s /\ GroupStart(0) = 0 /\ GroupStart(g + 1) = (g + 1) * b
      /\ GroupEnd(g) = IF s + b < n THEN s + b ELSE n
  BY <1>2 DEF GroupStart, GroupEnd, Min
<1> HIDE DEF n, b
<1>5. s < n \/ g = 0
  BY <1>4 DEF n
<1>6. s \in Nat /\ (g + 1) * b = s + b /\ (g = 0 => s = 0)
  BY <1>2, TimesMonotone
<1>7. /\ q \in Nat
      /\ g + 1 < q => (g + 1) * b < n
      /\ q <= g + 1 => n <= (g + 1) * b
  BY <1>1, <1>2, CeilingFacts
<1> HIDE DEF s, q
<1>8. CASE g + 1 < NumGroups
  <2>1. g + 1 < q
    BY <1>3, <1>7, <1>8
  <2>2. s + b < n
    BY <1>6, <1>7, <2>1
  <2> QED BY <1>1, <1>2, <1>4, <1>5, <1>6, <1>8, <2>2 DEF n, b, s
<1>9. CASE ~(g + 1 < NumGroups)
  <2>1. q <= g + 1
    BY <1>3, <1>7, <1>9
  <2>2. n <= s + b
    BY <1>6, <1>7, <2>1
  <2> QED BY <1>1, <1>2, <1>4, <1>5, <1>6, <1>9, <2>2 DEF n, b, s
<1> QED BY <1>8, <1>9

\* A chunk is not empty, and ends with its group or a whole chunk further on.
LEMMA ChunkFacts ==
  ASSUME args \in Calls, args.nrow > 0, GroupInv,
         row0 \in Nat, GroupStart(group) <= row0, row0 < GroupEnd(group)
  PROVE  /\ ChunkLen \in Nat /\ ChunkLen > 0 /\ ChunkRows \in Nat
         /\ row0 + ChunkRows < GroupEnd(group) => ChunkLen = ChunkRows
         /\ ~(row0 + ChunkRows < GroupEnd(group)) => row0 + ChunkLen = GroupEnd(group)
         /\ row0 + ChunkLen <= GroupEnd(group)
<1>1. args.nrow \in Nat /\ GroupEnd(group) \in Nat
  BY GroupFacts DEF GroupInv
<1>2. ChunkRows \in Nat /\ ChunkRows > 0
  BY <1>1, CallAssumption DEF ChunkRows, Min
<1> QED BY <1>1, <1>2 DEF ChunkLen, Min

-------------------------------------------------------------------------------
(* The operations keep the invariant.                                      *)

\* A step that leaves the writer alone.
LEMMA SameWriter ==
  ASSUME WriterInv, UNCHANGED vars
  PROVE  WriterInv'
<1> USE DEF vars, stream, writerVars, current, history
<1>1. WriterTypes' /\ LiveInv' /\ AppendInv'
  BY DEF WriterInv, WriterTypes, LiveInv, AppendInv
<1>2. OpenInv'
  BY DEF WriterInv, OpenInv, Split, Image
<1> QED BY <1>1, <1>2 DEF WriterInv

\* A writer that is gone, or has never been: the file may be anything.
LEMMA NoWriter ==
  ASSUME WriterTypes, wstate' \in {"none", "closed", "close_failed", "aborted"},
         mode' = "stream", disk' \in Seq(Cell), WholeFile(disk'),
         base' \in Nat, out' \in Seq(Cell),
         UNCHANGED <<header_written, file_offset, groups, cols, rows, sorting, sent, synced>>
  PROVE  WriterInv'
<1>1. WriterTypes'
  BY DEF WriterTypes
<1>2. LiveInv' /\ OpenInv' /\ AppendInv' /\ WholeFile(disk)'
  BY DEF LiveInv, OpenInv, AppendInv
<1> QED BY <1>1, <1>2 DEF WriterInv

\* What the call was asked for stays the same.
LEMMA SameCall ==
  ASSUME UNCHANGED <<args, before>>
  PROVE  /\ Existing' = Existing /\ GroupRows' = GroupRows /\ NumGroups' = NumGroups
         /\ ChunkRows' = ChunkRows
         /\ \A g : GroupStart(g)' = GroupStart(g) /\ GroupEnd(g)' = GroupEnd(g)
  BY DEF Existing, GroupRows, NumGroups, ChunkRows, GroupStart, GroupEnd

\* Before the first call.
LEMMA InitCall == Init => CallInv
<1> SUFFICES ASSUME Init PROVE CallInv
  OBVIOUS
<1> USE DEF Init
<1>1. disk \in Seq(Cell) /\ WholeFile(disk) /\ before \in Seq(Cell)
  BY NoFooterIsWhole
<1>2. WriterInv
  <2>1. out \in Seq(Cell) /\ groups \in Seq(Recorded) /\ base \in Nat /\ file_offset \in Nat
        /\ rows \in Nat
    OBVIOUS
  <2>2. cols \in [Columns -> Seq(Nat)] /\ sent \in [Columns -> Nat]
    BY DEF NoRows
  <2>3. WriterTypes
    BY <1>1, <2>1, <2>2, Zenon DEF WriterTypes
  <2>4. LiveInv /\ OpenInv /\ AppendInv
    BY DEF LiveInv, OpenInv, AppendInv
  <2> QED BY <1>1, <2>3, <2>4 DEF WriterInv
<1>3. ControlInv
  BY <1>1, Zenon DEF ControlInv, Calls
<1>4. ProgressInv
  BY DEF ProgressInv, Written
<1> QED BY <1>2, <1>3, <1>4 DEF CallInv

\* write_parquet is called.
LEMMA CallKeeps ==
  ASSUME CallInv, Call
  PROVE  CallInv'
<1>1. /\ pc' = "schema" /\ file' = FALSE /\ finished' = FALSE /\ before' = disk
      /\ wstate' = "none" /\ mode' = "stream"
      /\ UNCHANGED <<disk, base, out, header_written, file_offset, groups, cols, rows,
                     sorting, sent, synced>>
  BY DEF Call, stream, current, history
<1>2. WriterTypes /\ WholeFile(disk) /\ disk \in Seq(Cell) /\ base \in Nat /\ out \in Seq(Cell)
  BY DEF CallInv, WriterInv, WriterTypes
<1>3. WriterInv'
  BY <1>1, <1>2, NoWriter
<1>4. args' \in Calls
  <2>1. PICK append, sorted \in BOOLEAN, group_rows \in 0..MaxRows, nrow \in 0..MaxRows :
          args' = [append |-> append, sorted |-> sorted, group_rows |-> group_rows,
                   nrow |-> nrow]
    BY DEF Call
  <2>2. group_rows \in Nat /\ nrow \in Nat
    BY WriterAssumption
  <2> QED BY <2>1, <2>2 DEF Calls
<1>5. ControlInv'
  BY <1>1, <1>2, <1>4, Zenon DEF ControlInv
<1>6. ProgressInv'
  BY <1>1 DEF ProgressInv, Written
<1> QED BY <1>3, <1>5, <1>6 DEF CallInv

\* Leaving the body early.
LEMMA EarlyExit ==
  ASSUME CallInv, pc \in {"schema", "open", "configure", "write", "boundary", "close"},
         pc' = "cleanup", UNCHANGED <<args, finished, before, mode>>, file' \in BOOLEAN,
         pc \in {"schema", "open"} => wstate' = wstate, WriterInv'
  PROVE  CallInv'
<1>1. ControlInv /\ ~finished
  BY DEF CallInv, ControlInv
<1>2. mode = "stream" \/ (mode = "append" /\ args.append)
  BY <1>1 DEF ControlInv
<1>3. mode = "stream" /\ wstate' # "none" => ~args.append
  BY <1>1 DEF ControlInv
<1>4. ControlInv'
  BY <1>1, <1>2, <1>3 DEF ControlInv
<1>5. ProgressInv'
  BY <1>1 DEF ProgressInv, Written
<1> QED BY <1>4, <1>5 DEF CallInv

\* The schema is made.
LEMMA CreateSchemaKeeps ==
  ASSUME CallInv, CreateSchema
  PROVE  CallInv'
<1>1. WriterInv' /\ UNCHANGED vars
  BY SameWriter DEF CreateSchema, CallInv
<1>2. wstate' = wstate /\ mode' = mode /\ disk' = disk
  BY <1>1 DEF vars, writerVars
<1>3. CASE pc' = "cleanup"
  BY <1>1, <1>2, <1>3, EarlyExit DEF CreateSchema, Jump, GoTo, ctx, outcome, CallInv, ControlInv
<1>4. CASE pc' = "open"
  <2>1. pc = "schema" /\ UNCHANGED <<args, file, finished, before>>
    BY <1>4 DEF CreateSchema, Jump, GoTo, ctx, outcome
  <2>2. ControlInv'
    BY <1>2, <1>4, <2>1 DEF CallInv, ControlInv
  <2>3. ProgressInv'
    BY <1>4 DEF ProgressInv, Written
  <2> QED BY <1>1, <2>2, <2>3 DEF CallInv
<1> QED BY <1>3, <1>4 DEF CreateSchema, Jump, GoTo

\* A new file is opened.
LEMMA OpenNewKeeps ==
  ASSUME CallInv, OpenNew
  PROVE  CallInv'
<1>0. /\ pc = "open" /\ ~args.append /\ WriterInv /\ ControlInv /\ ProgressInv
      /\ wstate = "none" /\ mode = "stream" /\ ~finished
  BY DEF OpenNew, CallInv, ControlInv
<1>1. CASE Jump /\ UNCHANGED vars
  <2>1. WriterInv' /\ wstate' = wstate /\ mode' = mode
    BY <1>0, <1>1, SameWriter DEF vars, writerVars
  <2> QED BY <1>0, <1>1, <2>1, EarlyExit DEF Jump, ctx, outcome, ControlInv
<1>2. CASE /\ Create("stream") /\ pc' = "configure" /\ file' = TRUE
           /\ UNCHANGED <<args, finished, before>>
  <2>1. WriterInv'
    BY <1>2, CreateKeeps
  <2>2. /\ wstate' = "open" /\ mode' = "stream" /\ sent' = [c \in Columns |-> 0]
        /\ cols' = NoRows /\ rows' = 0 /\ groups' = <<>>
    BY <1>2 DEF Create, Fresh
  <2>3. Existing' = 0 /\ First' = 0 /\ ~args'.append
    BY <1>0, <1>2 DEF Existing, First
  <2>4. ControlInv'
    BY <1>0, <1>2, <2>2, <2>3, Zenon DEF ControlInv
  <2>5. ProgressInv'
    BY <1>2, <2>2, <2>3 DEF ProgressInv, Written, NoRows
  <2> QED BY <2>1, <2>4, <2>5 DEF CallInv
<1>3. CASE /\ disk' = <<>> /\ base' = 0 /\ out' = <<>> /\ pc' = "cleanup" /\ file' = TRUE
           /\ UNCHANGED <<writerVars, history, args, finished, before>>
  <2>1. /\ wstate' = "none" /\ mode' = "stream"
        /\ UNCHANGED <<header_written, file_offset, groups, cols, rows, sorting, sent, synced>>
    BY <1>0, <1>3 DEF writerVars, history, current
  <2>2. disk' \in Seq(Cell) /\ WholeFile(disk') /\ base' \in Nat /\ out' \in Seq(Cell)
    BY <1>3, NoFooterIsWhole
  <2>3. WriterInv'
    BY <1>0, <2>1, <2>2, NoWriter DEF WriterInv
  <2> QED BY <1>0, <1>3, <2>1, <2>3, EarlyExit
<1> QED BY <1>1, <1>2, <1>3, Zenon DEF OpenNew

\* An existing file is opened: its rows are counted as written.
LEMMA OpenOldKeeps ==
  ASSUME CallInv, OpenOld
  PROVE  CallInv'
<1>0. /\ pc = "open" /\ args.append /\ WriterInv /\ ControlInv /\ ProgressInv
      /\ wstate = "none" /\ mode = "stream" /\ ~finished /\ ~file /\ disk = before
  BY DEF OpenOld, CallInv, ControlInv
<1>1. CASE Jump /\ UNCHANGED vars
  <2>1. WriterInv' /\ wstate' = wstate /\ mode' = mode
    BY <1>0, <1>1, SameWriter DEF vars, writerVars
  <2> QED BY <1>0, <1>1, <2>1, EarlyExit DEF Jump, ctx, outcome, ControlInv
<1>2. CASE OpenAppend /\ GoTo("configure")
  <2> DEFINE metadata == ReadFooter(disk)
  <2>1. disk \in Seq(Cell) /\ WholeFile(disk)
    BY <1>0 DEF WriterInv, WriterTypes
  <2>2. WriterInv'
    BY <1>2, <2>1, OpenAppendKeeps
  <2>3. /\ pc' = "configure" /\ UNCHANGED <<args, file, finished, before>>
    BY <1>2 DEF GoTo, ctx, outcome
  <2>4. /\ metadata # NoFooter /\ wstate' = "open" /\ mode' = "append"
        /\ cols' = NoRows /\ rows' = 0 /\ old' = metadata
        /\ sent' = [c \in Columns |-> Len(ColumnOf(disk, metadata, c))]
        /\ groups' = [i \in DOMAIN metadata |-> RestoreRowGroup(metadata[i])]
    BY <1>2 DEF OpenAppend, Fresh
  <2>5. PICK n \in Nat : \A c \in Columns : ColumnOf(disk, metadata, c) = Run(0, n)
    BY <2>1, <2>4 DEF WholeFile
  <2>6. \A c \in Columns : Len(ColumnOf(disk, metadata, c)) = n
    BY <2>5, RunFacts
  <2>7. 1 \in Columns
    BY FileAssumption DEF Columns
  <2>8. Existing' = n /\ \A c \in Columns : sent'[c] = n /\ cols'[c] = <<>>
    BY <1>0, <2>3, <2>4, <2>6, <2>7 DEF Existing, NoRows
  <2>9. Len(groups') = Len(metadata) /\ First' = Len(metadata)
    <3>1. metadata \in Seq(Listed)
      BY <2>1, <2>4, FooterFacts
    <3>2. Len(groups') = Len(metadata)
      BY <2>4, <3>1, RestoredFacts DEF Alike
    <3> QED BY <1>0, <2>3, <2>4, <3>2 DEF First
  <2>10. ControlInv'
    BY <1>0, <2>3, <2>4, <2>8 DEF ControlInv
  <2>11. ProgressInv'
    BY <2>3, <2>4, <2>8, <2>9 DEF ProgressInv, Written
  <2> QED BY <2>2, <2>10, <2>11 DEF CallInv
<1> QED BY <1>1, <1>2 DEF OpenOld

\* The declarations, up to the head of the outer loop.
LEMMA ConfigureKeeps ==
  ASSUME CallInv, Configure
  PROVE  CallInv'
<1>0. /\ pc = "configure" /\ WriterInv /\ ControlInv /\ ProgressInv /\ ~finished
      /\ wstate = "open" /\ args \in Calls
  BY DEF Configure, CallInv, ControlInv
<1>1. CASE Jump /\ UNCHANGED vars
  <2>1. WriterInv' /\ mode' = mode
    BY <1>0, <1>1, SameWriter DEF vars, writerVars
  <2> QED BY <1>0, <1>1, <2>1, EarlyExit DEF Jump, ctx, outcome, ControlInv
<1>2. CASE /\ IF args.sorted THEN SetSorting ELSE UNCHANGED vars
           /\ group' = 0 /\ col' = 1 /\ row0' = 0
           /\ pc' = IF args.nrow > 0 THEN "write" ELSE "boundary"
           /\ UNCHANGED <<ctx, outcome>>
  <2>1. WriterInv'
    BY <1>0, <1>2, SetSortingKeeps, SameWriter
  <2>2. UNCHANGED <<disk, mode, wstate, groups, cols, rows, old, sent>>
    BY <1>2 DEF SetSorting, vars, stream, writerVars, current, history
  <2>3. UNCHANGED <<args, file, finished, before>>
    BY <1>2 DEF ctx, outcome
  <2>4. /\ Existing' = Existing /\ GroupRows' = GroupRows
        /\ \A g : GroupStart(g)' = GroupStart(g) /\ GroupEnd(g)' = GroupEnd(g)
    BY <2>3, SameCall
  <2>5. /\ args.nrow \in Nat /\ GroupStart(0) = 0 /\ GroupEnd(0) \in Nat
        /\ GroupEnd(0) <= args.nrow /\ (args.nrow > 0 => 0 < GroupEnd(0))
    BY <1>0, GroupFacts
  <2>6. pc' \in {"write", "boundary"}
    BY <1>2
  <2>7. ControlInv'
    BY <1>0, <2>2, <2>3, <2>4, <2>6 DEF ControlInv
  <2>8. /\ \A c \in Columns : sent[c] = Existing /\ cols[c] = <<>>
        /\ Len(groups) = First /\ Existing \in Nat /\ First' = First
    BY <1>0, <2>2, <2>3 DEF ProgressInv, ControlInv, First
  <2>9. First \in Nat
    BY <1>0, <2>8 DEF WriterInv, WriterTypes
  <2>10. GroupStart(group)' = 0 /\ GroupEnd(group)' = GroupEnd(0) /\ GroupInv'
    BY <1>2, <2>4, <2>5 DEF GroupInv, GroupStart, GroupEnd
  <2>11. CASE args.nrow > 0
    <3>1. 1 \in Columns /\ \A c \in Columns : ~(c < 1)
      BY FileAssumption DEF Columns
    <3>2. \A c \in Columns : Reached(c)' = 0
      BY <1>2, <2>10, <3>1 DEF Reached
    <3>3. ChunkInv'
      BY <1>2, <2>2, <2>3, <2>4, <2>5, <2>8, <2>9, <2>10, <2>11, <3>1, <3>2
         DEF ChunkInv, FullGroups
    <3> QED BY <1>2, <2>1, <2>7, <2>11, <3>3 DEF CallInv, ProgressInv, Written
  <2>12. CASE ~(args.nrow > 0)
    <3>1. BoundaryInv'
      BY <2>2, <2>3, <2>4, <2>5, <2>8, <2>10, <2>12 DEF BoundaryInv
    <3> QED BY <1>2, <2>1, <2>7, <2>12, <3>1 DEF CallInv, ProgressInv, Written
  <2> QED BY <2>11, <2>12
<1> QED BY <1>1, <1>2 DEF Configure

\* The rows of column c that have been written when the chunk has been.
After(c) == IF c < col THEN GroupEnd(group)
            ELSE IF c = col THEN row0 + ChunkLen ELSE GroupStart(group)

\* The open row group holds the rows s of each column that follow the full
\* row groups.
StillOpen(cs, gs, s) ==
  /\ \A c \in Columns : Existing + GroupStart(group) + Len(cs[c]) = s[c]
  /\ gs = groups

\* The row group has been written: this was its last chunk.
GroupDone(n, gs) ==
  /\ col = NumColumns /\ row0 + ChunkLen = GroupEnd(group)
  /\ n = 0 /\ Len(gs) = First + group + 1 /\ FullGroups(gs, group)
  /\ gs[First + group + 1].rows = GroupEnd(group) - GroupStart(group)

\* Numbers at the head of the chunk loop.
LEMMA ChunkNumbers ==
  ASSUME CallInv, pc = "write"
  PROVE  /\ args \in Calls /\ args.nrow \in Nat /\ args.nrow > 0 /\ group \in Nat
         /\ row0 \in Nat /\ ChunkLen \in Nat /\ ChunkLen > 0 /\ ChunkRows \in Nat
         /\ GroupStart(group) \in Nat /\ GroupEnd(group) \in Nat
         /\ GroupStart(group) <= row0 /\ row0 < GroupEnd(group)
         /\ row0 + ChunkLen <= GroupEnd(group)
         /\ row0 + ChunkRows < GroupEnd(group) => ChunkLen = ChunkRows
         /\ ~(row0 + ChunkRows < GroupEnd(group)) => row0 + ChunkLen = GroupEnd(group)
         /\ Existing \in Nat /\ First \in Nat /\ col \in Columns /\ col \in 1..NumColumns
         /\ GroupStart(group + 1) \in Int
<1>1. args \in Calls /\ ChunkInv /\ Existing \in Nat /\ wstate = "open"
  BY DEF CallInv, ControlInv, ProgressInv
<1>2. GroupInv /\ group \in Nat /\ (group = 0 \/ GroupStart(group) < args.nrow)
  BY <1>1 DEF ChunkInv, GroupInv
<1>3. args.nrow \in Nat /\ GroupStart(group) \in Nat /\ GroupEnd(group) \in Nat /\ GroupRows \in Nat
  BY <1>1, <1>2, GroupFacts
<1>4. args.nrow > 0 /\ row0 \in Nat /\ GroupStart(group) <= row0 /\ row0 < GroupEnd(group)
  BY <1>1 DEF ChunkInv
<1>5. /\ ChunkLen \in Nat /\ ChunkLen > 0 /\ ChunkRows \in Nat
      /\ row0 + ChunkRows < GroupEnd(group) => ChunkLen = ChunkRows
      /\ ~(row0 + ChunkRows < GroupEnd(group)) => row0 + ChunkLen = GroupEnd(group)
      /\ row0 + ChunkLen <= GroupEnd(group)
  BY <1>1, <1>2, <1>4, ChunkFacts
<1>6. First \in Nat
  <2>1. CASE args.append
    <3>1. mode = "append"
      BY <1>1, <2>1 DEF CallInv, ControlInv
    <3>2. old \in Seq(Listed)
      BY <3>1 DEF CallInv, WriterInv, AppendInv
    <3> QED BY <2>1, <3>2 DEF First
  <2>2. CASE ~args.append
    BY <2>2 DEF First
  <2> QED BY <2>1, <2>2
<1>7. col \in Columns /\ col \in 1..NumColumns
  BY <1>1 DEF ChunkInv, Columns
<1>8. GroupStart(group + 1) \in Int
  BY <1>2, <1>3 DEF GroupStart
<1> QED BY <1>1, <1>2, <1>3, <1>4, <1>5, <1>6, <1>7, <1>8

\* Subtraction.
LEMMA Difference ==
  ASSUME NEW a \in Nat, NEW b \in Nat, NEW c \in Nat, NEW r \in Nat, (a + b) + r = a + c
  PROVE  r = c - b
  OBVIOUS

\* A chunk is the run of rows that follows those its column has.
LEMMA ChunkIsRun ==
  ASSUME CallInv, pc = "write"
  PROVE  Vals = Run(sent[col], ChunkLen)
<1>1. sent[col] = Existing + row0 /\ col \in Columns
  <2>1. ChunkInv
    BY DEF CallInv, ProgressInv
  <2>2. col \in Columns /\ ~(col < col)
    BY <2>1 DEF ChunkInv, Columns
  <2>3. Reached(col) = row0
    BY <2>2 DEF Reached
  <2> QED BY <2>1, <2>2, <2>3 DEF ChunkInv
<1> QED BY <1>1 DEF Vals, Run

\* What a written chunk leaves: all columns where they should be, and either
\* the row group still open, or finished together with the loop over it.
LEMMA ChunkWritten ==
  ASSUME CallInv, pc = "write", WriteBatch(col, Vals), UNCHANGED <<args, before>>
  PROVE  /\ WriterInv' /\ UNCHANGED <<disk, base, mode, wstate, old, synced>> /\ First' = First
         /\ \A c \in Columns : sent'[c] = Existing + After(c)
         /\ NumColumns > 1 => StillOpen(cols', groups', sent') \/ GroupDone(rows', groups')
<1> DEFINE v == Run(sent[col], ChunkLen)
           b == Batch(col, v)
           s == [sent EXCEPT ![col] = @ + ChunkLen]
<1>0. /\ WriterInv /\ ChunkInv /\ wstate = "open" /\ col \in Columns /\ ChunkLen \in Nat
      /\ sent \in [Columns -> Nat] /\ groups \in Seq(Recorded)
  BY ChunkNumbers, Zenon DEF CallInv, ControlInv, ProgressInv, WriterInv, WriterTypes
<1>n. /\ Existing \in Nat /\ GroupStart(group) \in Nat /\ GroupEnd(group) \in Nat
      /\ row0 \in Nat /\ group \in Nat /\ First \in Nat
  BY ChunkNumbers
<1>1. WriteBatch(col, v)
  BY ChunkIsRun
<1>2. WriterInv'
  BY <1>0, <1>1, WriteBatchKeeps
<1>3. Len(v) = ChunkLen
  BY <1>0, RunFacts
<1>4. UNCHANGED <<disk, base, mode, wstate, old, synced>> /\ sent' = s
  BY <1>1, <1>3, Zenon DEF WriteBatch
<1>5. First' = First
  BY <1>4 DEF First
<1>6. \A c \in Columns : s[c] = Existing + After(c)
  <2>1. ASSUME NEW c \in Columns, c # col PROVE s[c] = Existing + After(c)
    BY <1>0, <2>1 DEF ChunkInv, Reached, After
  <2>2. s[col] = Existing + row0 + ChunkLen
    <3>1. ~(col < col) /\ sent[col] = Existing + Reached(col)
      BY <1>0 DEF ChunkInv, Columns
    <3> QED BY <1>0, <3>1 DEF Reached
  <2>3. After(col) = row0 + ChunkLen
    BY <1>0 DEF After, Columns
  <2>4. s[col] = Existing + After(col)
    BY <2>2, <2>3, ChunkNumbers
  <2> QED BY <2>1, <2>4
<1>7. ASSUME NumColumns > 1
      PROVE  StillOpen(cols', groups', sent') \/ GroupDone(rows', groups')
  <2>0. /\ \A c \in Columns : Existing + GroupStart(group) + Len(cols[c]) = sent[c]
        /\ Len(groups) = First + group /\ FullGroups(groups, group)
    BY <1>0, <1>7 DEF ChunkInv
  <2>1. PICK f \in Nat : Split(f)
    BY <1>0 DEF WriterInv, OpenInv
  <2>2. f = Existing + GroupStart(group)
    <3>1. 1 \in Columns /\ cols \in [Columns -> Seq(Nat)]
      BY <1>0, FileAssumption DEF Columns, WriterInv, WriterTypes
    <3>2. Len(cols[1]) \in Nat /\ sent[1] = f + Len(cols[1])
      BY <2>1, <3>1 DEF Split
    <3>3. Existing + GroupStart(group) + Len(cols[1]) = sent[1]
      BY <2>0, <3>1
    <3> QED BY <1>n, <3>2, <3>3
  <2>3. Follows(b, s, f)
    BY <1>0, <2>1, BatchFacts, Zenon
  <2>4. /\ b.cols \in [Columns -> Seq(Nat)] /\ b.rows = Len(b.cols[1])
        /\ \A c \in Columns : s[c] = f + Len(b.cols[c])
    BY <2>3, Zenon DEF Follows
  <2>5. IF AutoFlush(b) THEN Flush(Header, b.cols, b.rows)
        ELSE cols' = b.cols /\ UNCHANGED groups
    BY <1>1 DEF WriteBatch
  <2> HIDE DEF b, s, v
  <2>6. CASE ~AutoFlush(b)
    <3>1. StillOpen(cols', groups', sent')
      BY <1>4, <2>2, <2>4, <2>5, <2>6 DEF StillOpen
    <3> QED BY <3>1
  <2>7. CASE AutoFlush(b)
    <3>1. b.rows > 0 /\ \A c \in Columns : Len(b.cols[c]) = b.rows
      BY <2>7 DEF AutoFlush, Aligned
    <3>2. NumColumns \in Nat /\ 1 \in Columns /\ NumColumns \in Columns /\ Columns = 1..NumColumns
      BY FileAssumption DEF Columns
    <3>3. \A c \in Columns : f + b.rows = Existing + After(c)
      BY <1>6, <2>4, <3>1, Zenon
    <3>4. b.rows \in Nat
      BY <2>4, <3>2
    <3>5. col = NumColumns
      <4>1. CASE col < NumColumns
        <5>1. After(NumColumns) = GroupStart(group)
          BY <3>2, <4>1, ChunkNumbers DEF After
        <5>2. f + b.rows = Existing + GroupStart(group)
          BY <3>2, <3>3, <5>1
        <5> QED BY <1>n, <2>2, <3>1, <3>4, <5>2
      <4> QED BY <3>2, <4>1, ChunkNumbers
    <3>6. b.rows = GroupEnd(group) - GroupStart(group)
      <4>1. After(1) = GroupEnd(group)
        BY <1>7, <3>2, <3>5 DEF After
      <4>2. f + b.rows = Existing + GroupEnd(group)
        BY <3>2, <3>3, <4>1
      <4>3. (Existing + GroupStart(group)) + b.rows = Existing + GroupEnd(group)
        BY <2>2, <4>2
      <4> QED BY <1>n, <3>4, <4>3, Difference
    <3>7. row0 + ChunkLen = GroupEnd(group)
      <4>1. After(col) = row0 + ChunkLen
        BY <1>0, <3>2 DEF After
      <4>2. f + b.rows = Existing + (row0 + ChunkLen)
        BY <1>0, <3>3, <4>1
      <4>3. (Existing + GroupStart(group)) + b.rows = Existing + (row0 + ChunkLen)
        BY <2>2, <4>2
      <4>4. row0 + ChunkLen \in Nat
        BY <1>0, <1>n
      <4>5. b.rows = (row0 + ChunkLen) - GroupStart(group)
        BY <1>n, <3>4, <4>3, <4>4, Difference
      <4> QED BY <1>n, <3>6, <4>4, <4>5
    <3>8. /\ rows' = 0
          /\ groups' = Append(groups, RowGroup(b.rows, file_offset + Len(Header)))
      BY <2>5, <2>7 DEF Flush
    <3>9. /\ Len(groups') = Len(groups) + 1 /\ groups'[Len(groups) + 1].rows = b.rows
          /\ \A i \in 1..Len(groups) : groups'[i] = groups[i]
      BY <1>0, <3>8 DEF RowGroup
    <3>10. FullGroups(groups', group)
      <4>1. First + group <= Len(groups')
        BY <1>n, <2>0, <3>9
      <4>2. ASSUME NEW i \in 1..group PROVE groups'[First + i].rows = GroupRows
        <5>1. groups[First + i].rows = GroupRows /\ First + group <= Len(groups)
          BY <2>0 DEF FullGroups
        <5>2. First + i \in 1..Len(groups)
          BY <1>n, <5>1
        <5> QED BY <3>9, <5>1, <5>2
      <4> QED BY <4>1, <4>2 DEF FullGroups
    <3>11. GroupDone(rows', groups')
      BY <2>0, <3>5, <3>6, <3>7, <3>8, <3>9, <3>10, <1>n DEF GroupDone
    <3> QED BY <3>11
  <2> QED BY <2>6, <2>7
<1> QED BY <1>2, <1>4, <1>5, <1>6, <1>7

\* The next chunk of the same column.
LEMMA NextRows ==
  ASSUME CallInv, pc = "write", WriteBatch(col, Vals), UNCHANGED <<args, before, group, col>>,
         row0 + ChunkRows < GroupEnd(group), row0' = row0 + ChunkRows
  PROVE  ChunkInv'
<1>0. /\ row0 \in Nat /\ ChunkRows \in Nat /\ ChunkLen = ChunkRows /\ col \in Columns
      /\ GroupStart(group) <= row0 /\ GroupStart(group) \in Nat /\ GroupEnd(group) \in Nat
      /\ args.nrow > 0
  BY ChunkNumbers
<1>1. GroupInv /\ ChunkInv
  BY DEF CallInv, ProgressInv, ChunkInv
<1>2. /\ Existing' = Existing /\ GroupRows' = GroupRows
      /\ GroupStart(group)' = GroupStart(group) /\ GroupEnd(group)' = GroupEnd(group)
  BY DEF Existing, GroupRows, GroupStart, GroupEnd
<1>3. /\ First' = First /\ \A c \in Columns : sent'[c] = Existing + After(c)
      /\ NumColumns > 1 => StillOpen(cols', groups', sent') \/ GroupDone(rows', groups')
  BY ChunkWritten
<1>4. \A c \in Columns : Reached(c)' = After(c)
  BY <1>0, <1>2 DEF Reached, After
<1>5. GroupInv'
  BY <1>1, <1>2 DEF GroupInv
<1>6. ~GroupDone(rows', groups')
  BY <1>0 DEF GroupDone
<1>7. ASSUME NumColumns > 1
      PROVE  /\ \A c \in Columns : Existing' + GroupStart(group)' + Len(cols'[c]) = sent'[c]
             /\ Len(groups') = First' + group' /\ FullGroups(groups, group)'
  <2>1. StillOpen(cols', groups', sent')
    BY <1>3, <1>6, <1>7
  <2>2. Len(groups) = First + group /\ FullGroups(groups, group)
    BY <1>1, <1>7 DEF ChunkInv
  <2> QED BY <1>2, <1>3, <2>1, <2>2 DEF StillOpen, FullGroups
<1>8. row0' \in Nat /\ GroupStart(group)' <= row0' /\ row0' < GroupEnd(group)'
  BY <1>0, <1>2
<1> QED BY <1>0, <1>2, <1>3, <1>4, <1>5, <1>7, <1>8 DEF ChunkInv

\* The first chunk of the next column.
LEMMA NextColumn ==
  ASSUME CallInv, pc = "write", WriteBatch(col, Vals), UNCHANGED <<args, before, group>>,
         ~(row0 + ChunkRows < GroupEnd(group)), col < NumColumns,
         col' = col + 1, row0' = GroupStart(group)
  PROVE  ChunkInv'
<1>0. /\ row0 \in Nat /\ row0 + ChunkLen = GroupEnd(group) /\ col \in 1..NumColumns
      /\ GroupStart(group) <= row0 /\ GroupStart(group) \in Nat /\ GroupEnd(group) \in Nat
      /\ args.nrow > 0 /\ row0 < GroupEnd(group)
  BY ChunkNumbers
<1>1. GroupInv /\ ChunkInv
  BY DEF CallInv, ProgressInv, ChunkInv
<1>2. /\ Existing' = Existing /\ GroupRows' = GroupRows
      /\ GroupStart(group)' = GroupStart(group) /\ GroupEnd(group)' = GroupEnd(group)
  BY DEF Existing, GroupRows, GroupStart, GroupEnd
<1>3. /\ First' = First /\ \A c \in Columns : sent'[c] = Existing + After(c)
      /\ NumColumns > 1 => StillOpen(cols', groups', sent') \/ GroupDone(rows', groups')
  BY ChunkWritten
<1>4. ASSUME NEW c \in Columns PROVE Reached(c)' = After(c)
  <2>1. c \in 1..NumColumns /\ NumColumns \in Nat
    BY FileAssumption DEF Columns
  <2>2. Reached(c)' = IF c < col + 1 THEN GroupEnd(group)
                      ELSE IF c = col + 1 THEN GroupStart(group) ELSE GroupStart(group)
    BY <1>2 DEF Reached
  <2> QED BY <1>0, <2>1, <2>2 DEF After
<1>5. GroupInv'
  BY <1>1, <1>2 DEF GroupInv
<1>6. ~GroupDone(rows', groups')
  BY <1>0 DEF GroupDone
<1>7. ASSUME NumColumns > 1
      PROVE  /\ \A c \in Columns : Existing' + GroupStart(group)' + Len(cols'[c]) = sent'[c]
             /\ Len(groups') = First' + group' /\ FullGroups(groups, group)'
  <2>1. StillOpen(cols', groups', sent')
    BY <1>3, <1>6, <1>7
  <2>2. Len(groups) = First + group /\ FullGroups(groups, group)
    BY <1>1, <1>7 DEF ChunkInv
  <2> QED BY <1>2, <1>3, <2>1, <2>2 DEF StillOpen, FullGroups
<1>8. row0' \in Nat /\ GroupStart(group)' <= row0' /\ row0' < GroupEnd(group)'
  BY <1>0, <1>2
<1>9. col' \in Columns
  BY <1>0, FileAssumption DEF Columns
<1> QED BY <1>0, <1>2, <1>3, <1>4, <1>5, <1>7, <1>8, <1>9 DEF ChunkInv

\* The end of the loops over a row group.
LEMMA LastChunk ==
  ASSUME CallInv, pc = "write", WriteBatch(col, Vals), UNCHANGED <<args, before, group>>,
         ~(row0 + ChunkRows < GroupEnd(group)), ~(col < NumColumns)
  PROVE  BoundaryInv'
<1>0. /\ row0 \in Nat /\ row0 + ChunkLen = GroupEnd(group) /\ col \in 1..NumColumns
      /\ GroupStart(group) \in Nat /\ GroupEnd(group) \in Nat /\ GroupStart(group) < GroupEnd(group)
      /\ args.nrow > 0 /\ Existing \in Nat /\ First \in Nat /\ group \in Nat
  BY ChunkNumbers
<1>1. GroupInv /\ ChunkInv
  BY DEF CallInv, ProgressInv, ChunkInv
<1>2. /\ Existing' = Existing /\ GroupRows' = GroupRows
      /\ GroupStart(group)' = GroupStart(group) /\ GroupEnd(group)' = GroupEnd(group)
  BY DEF Existing, GroupRows, GroupStart, GroupEnd
<1>3. /\ First' = First /\ \A c \in Columns : sent'[c] = Existing + After(c)
      /\ NumColumns > 1 => StillOpen(cols', groups', sent') \/ GroupDone(rows', groups')
      /\ WriterInv' /\ wstate' = wstate
  BY ChunkWritten
<1>4. ASSUME NEW c \in Columns PROVE sent'[c] = Existing + GroupEnd(group)
  <2>1. c \in 1..NumColumns /\ NumColumns \in Nat
    BY FileAssumption DEF Columns
  <2>2. After(c) = GroupEnd(group)
    BY <1>0, <2>1 DEF After
  <2> QED BY <1>3, <2>2
<1>5. GroupInv'
  BY <1>1, <1>2 DEF GroupInv
<1>6. groups' \in Seq(Recorded) /\ rows' = Len(cols'[1]) /\ cols' \in [Columns -> Seq(Nat)]
  <2>1. wstate' = "open"
    BY <1>3 DEF CallInv, ControlInv
  <2> QED BY <1>3, <2>1 DEF WriterInv, WriterTypes, OpenInv
<1>7. ASSUME NumColumns > 1
      PROVE  /\ Len(groups' \o LastGroup') = First + group + 1
             /\ \A i \in 1..group : (groups' \o LastGroup')[First + i].rows = GroupRows
             /\ (groups' \o LastGroup')[First + group + 1].rows
                  = GroupEnd(group) - GroupStart(group)
  <2>1. CASE GroupDone(rows', groups')
    <3>1. LastGroup' = <<>>
      BY <2>1 DEF GroupDone, LastGroup
    <3>2. groups' \o LastGroup' = groups'
      BY <1>6, <3>1
    <3> QED BY <2>1, <3>2 DEF GroupDone, FullGroups
  <2>2. CASE StillOpen(cols', groups', sent')
    <3>1. Len(groups) = First + group /\ FullGroups(groups, group) /\ groups' = groups
      BY <1>1, <1>7, <2>2 DEF ChunkInv, StillOpen
    <3>2. 1 \in Columns
      BY FileAssumption DEF Columns
    <3>3. rows' \in Nat /\ (Existing + GroupStart(group)) + rows' = Existing + GroupEnd(group)
      BY <1>4, <1>6, <2>2, <3>2 DEF StillOpen
    <3>4. rows' = GroupEnd(group) - GroupStart(group)
      BY <1>0, <3>3, Difference
    <3>5. rows' > 0
      BY <1>0, <3>4
    <3>6. PICK r : LastGroup' = <<r>> /\ r.rows = rows'
      <4>1. LastGroup' = <<RowGroup(rows', file_offset' + Len(Header'))>>
        BY <3>5 DEF LastGroup
      <4>2. RowGroup(rows', file_offset' + Len(Header')).rows = rows'
        BY DEF RowGroup
      <4> QED BY <4>1, <4>2
    <3>7. /\ Len(groups' \o <<r>>) = Len(groups) + 1
          /\ (groups' \o <<r>>)[Len(groups) + 1] = r
          /\ \A i \in 1..Len(groups) : (groups' \o <<r>>)[i] = groups[i]
      <4>1. groups' \o <<r>> = Append(groups, r)
        BY <1>6, <3>1
      <4> QED BY <1>6, <3>1, <4>1
    <3>8. ASSUME NEW i \in 1..group
          PROVE  (groups' \o LastGroup')[First + i].rows = GroupRows
      <4>1. First + i \in 1..Len(groups)
        BY <1>0, <3>1
      <4>2. groups[First + i].rows = GroupRows
        BY <3>1 DEF FullGroups
      <4> QED BY <3>6, <3>7, <4>1, <4>2
    <3> QED BY <1>0, <3>1, <3>4, <3>6, <3>7, <3>8, Zenon
  <2> QED BY <1>3, <1>7, <2>1, <2>2, Zenon
<1>8. ASSUME NumColumns > 1 PROVE FullGroups(groups \o LastGroup, group)'
  <2>1. First + group <= Len(groups' \o LastGroup')
    BY <1>0, <1>7, <1>8
  <2>2. \A i \in 1..group : (groups' \o LastGroup')[First + i].rows = GroupRows
    BY <1>7, <1>8, Zenon
  <2> QED BY <1>2, <1>3, <2>1, <2>2, Zenon DEF FullGroups
<1> QED BY <1>2, <1>3, <1>4, <1>5, <1>7, <1>8, Zenon DEF BoundaryInv

\* A chunk, written or not.
LEMMA WriteChunkKeeps ==
  ASSUME CallInv, WriteChunk
  PROVE  CallInv'
<1>0. /\ pc = "write" /\ WriterInv /\ ControlInv /\ wstate = "open" /\ ~finished
      /\ file \in BOOLEAN
  BY DEF WriteChunk, CallInv, ControlInv
<1>1. CASE Jump /\ UNCHANGED vars
  <2>1. WriterInv' /\ mode' = mode
    BY <1>0, <1>1, SameWriter DEF vars, writerVars
  <2> QED BY <1>0, <1>1, <2>1, EarlyExit DEF Jump, ctx, outcome
<1>2. CASE Fail(BatchCells(col, Vals)) /\ Jump
  <2>1. col \in Columns /\ ChunkLen \in Nat /\ Vals = Run(sent[col], ChunkLen)
    BY <1>0, ChunkNumbers, ChunkIsRun
  <2>2. BatchCells(col, Vals) \in Seq(Cell) /\ DataOnly(BatchCells(col, Vals))
    BY <1>0, <2>1, UnfinishedCells
  <2>3. WriterInv'
    BY <1>0, <1>2, <2>2, FailKeeps
  <2>4. mode' = mode
    BY <1>2 DEF Fail
  <2> QED BY <1>0, <1>2, <2>3, <2>4, EarlyExit DEF Jump, ctx, outcome
<1>3. CASE WriteBatch(col, Vals) /\ Jump
  <2>1. UNCHANGED <<args, before, file, finished>> /\ pc' = "cleanup"
    BY <1>3 DEF Jump, ctx, outcome
  <2>2. WriterInv' /\ mode' = mode
    BY <1>0, <1>3, <2>1, ChunkWritten
  <2> QED BY <1>0, <2>1, <2>2, EarlyExit
<1>4. CASE WriteBatch(col, Vals) /\ NextChunk
  <2>1. UNCHANGED <<args, before, file, finished, group>>
    BY <1>4 DEF NextChunk, ctx, outcome
  <2>2. WriterInv' /\ UNCHANGED <<disk, mode, wstate>>
    BY <1>0, <1>4, <2>1, ChunkWritten
  <2>3. Existing' = Existing
    BY <2>1, SameCall
  <2>4. pc' \in {"write", "boundary"}
    BY <1>0, <1>4 DEF NextChunk
  <2>5. ControlInv'
    BY <1>0, <2>1, <2>2, <2>3, <2>4 DEF ControlInv
  <2>6. CASE row0 + ChunkRows < GroupEnd(group)
    <3>1. row0' = row0 + ChunkRows /\ UNCHANGED <<col, pc>>
      BY <1>4, <2>6 DEF NextChunk
    <3>2. ChunkInv'
      BY <1>0, <1>4, <2>1, <2>6, <3>1, NextRows
    <3> QED BY <1>0, <2>2, <2>5, <3>1, <3>2 DEF CallInv, ProgressInv, Written
  <2>7. CASE ~(row0 + ChunkRows < GroupEnd(group)) /\ col < NumColumns
    <3>1. col' = col + 1 /\ row0' = GroupStart(group) /\ UNCHANGED pc
      BY <1>4, <2>7 DEF NextChunk
    <3>2. ChunkInv'
      BY <1>0, <1>4, <2>1, <2>7, <3>1, NextColumn
    <3> QED BY <1>0, <2>2, <2>5, <3>1, <3>2 DEF CallInv, ProgressInv, Written
  <2>8. CASE ~(row0 + ChunkRows < GroupEnd(group)) /\ ~(col < NumColumns)
    <3>1. pc' = "boundary"
      BY <1>4, <2>8 DEF NextChunk
    <3>2. BoundaryInv'
      BY <1>0, <1>4, <2>1, <2>8, LastChunk
    <3> QED BY <2>2, <2>5, <3>1, <3>2 DEF CallInv, ProgressInv, Written
  <2> QED BY <2>6, <2>7, <2>8
<1> QED BY <1>1, <1>2, <1>3, <1>4 DEF WriteChunk

\* Numbers after a row group.
LEMMA BoundaryNumbers ==
  ASSUME CallInv, pc \in {"boundary", "close"}
  PROVE  /\ args \in Calls /\ args.nrow \in Nat /\ group \in Nat
         /\ group = 0 \/ GroupStart(group) < args.nrow
         /\ GroupStart(group) \in Nat /\ GroupEnd(group) \in Nat
         /\ Existing \in Nat /\ First \in Nat /\ EvenRows /\ 1 \in Columns
         /\ groups \in Seq(Recorded) /\ cols \in [Columns -> Seq(Nat)] /\ rows \in Nat
         /\ rows = Len(cols[1]) /\ BoundaryInv
<1>1. /\ args \in Calls /\ BoundaryInv /\ Existing \in Nat /\ wstate = "open"
  BY DEF CallInv, ControlInv, ProgressInv
<1>2. group \in Nat /\ (group = 0 \/ GroupStart(group) < args.nrow)
  BY <1>1 DEF BoundaryInv, GroupInv
<1>3. args.nrow \in Nat /\ GroupStart(group) \in Nat /\ GroupEnd(group) \in Nat
  BY <1>1, <1>2, GroupFacts
<1>4. First \in Nat
  <2>1. CASE args.append
    <3>1. mode = "append"
      BY <1>1, <2>1 DEF CallInv, ControlInv
    <3>2. old \in Seq(Listed)
      BY <3>1 DEF CallInv, WriterInv, AppendInv
    <3> QED BY <2>1, <3>2 DEF First
  <2>2. CASE ~args.append
    BY <2>2 DEF First
  <2> QED BY <2>1, <2>2
<1>5. 1 \in Columns
  BY FileAssumption DEF Columns
<1>6. EvenRows
  BY <1>1, <1>5 DEF BoundaryInv, EvenRows
<1>7. /\ groups \in Seq(Recorded) /\ cols \in [Columns -> Seq(Nat)] /\ rows \in Nat
      /\ rows = Len(cols[1])
  BY <1>1 DEF CallInv, WriterInv, WriterTypes, OpenInv
<1> QED BY <1>1, <1>2, <1>3, <1>4, <1>5, <1>6, <1>7

\* The row groups after carquet_writer_new_row_group: the last one is of the
\* size asked for, and none is open.
LEMMA GroupEnded ==
  ASSUME CallInv, pc = "boundary", group + 1 < NumGroups, NewRowGroup, args.nrow > 0,
         NumColumns > 1
  PROVE  /\ \A c \in Columns : Len(cols'[c]) = 0
         /\ Len(groups') = First + group + 1
         /\ \A i \in 1..group + 1 : groups'[First + i].rows = GroupRows
<1> DEFINE gs == groups \o LastGroup
<1>0. /\ group \in Nat /\ First \in Nat /\ groups \in Seq(Recorded) /\ EvenRows
      /\ cols \in [Columns -> Seq(Nat)] /\ rows \in Nat /\ rows = Len(cols[1]) /\ 1 \in Columns
  BY BoundaryNumbers
<1>1. GroupEnd(group) - GroupStart(group) = GroupRows
  BY BoundaryNumbers, GroupFacts
<1>2. /\ Len(gs) = First + group + 1 /\ gs[First + group + 1].rows = GroupRows
      /\ \A i \in 1..group : gs[First + i].rows = GroupRows
  BY <1>1, BoundaryNumbers, Zenon DEF BoundaryInv, FullGroups
<1>3. ASSUME NEW i \in 1..group + 1 PROVE gs[First + i].rows = GroupRows
  <2> HIDE DEF gs
  <2>1. CASE i \in 1..group
    BY <1>2, <2>1
  <2>2. CASE i = group + 1
    <3>1. First + i = First + group + 1
      BY <1>0, <2>2
    <3> QED BY <1>2, <3>1
  <2> QED BY <1>0, <2>1, <2>2
<1>4. CASE rows > 0
  <2> DEFINE r == RowGroup(rows, file_offset + Len(Header))
  <2>1. gs = Append(groups, r)
    BY <1>0, <1>4 DEF LastGroup
  <2>2. groups' = Append(groups, r) /\ cols' = NoRows
    BY <1>4 DEF NewRowGroup, Flush
  <2>3. \A c \in Columns : Len(cols'[c]) = 0
    BY <2>2 DEF NoRows
  <2>4. groups' = gs
    BY <2>1, <2>2
  <2> HIDE DEF gs, r
  <2> QED BY <1>2, <1>3, <2>3, <2>4
<1>5. CASE ~(rows > 0)
  <2>1. LastGroup = <<>> /\ groups' = groups /\ cols' = cols
    BY <1>5 DEF LastGroup, NewRowGroup, current
  <2>2. gs = groups
    BY <1>0, <2>1
  <2>3. ASSUME NEW c \in Columns PROVE Len(cols[c]) = 0
    <3>1. PICK f \in Nat : Split(f)
      BY DEF CallInv, ControlInv, WriterInv, OpenInv
    <3>2. sent[c] = f + Len(cols[c]) /\ sent[1] = f + Len(cols[1]) /\ sent[c] = sent[1]
      BY <1>0, <3>1 DEF Split, EvenRows
    <3> QED BY <1>0, <1>5, <3>2
  <2> HIDE DEF gs
  <2> QED BY <1>2, <1>3, <2>1, <2>2, <2>3
<1> QED BY <1>4, <1>5

\* The boundary between two row groups, or the end of the outer loop.
LEMMA BoundaryKeeps ==
  ASSUME CallInv, Boundary
  PROVE  CallInv'
<1>0. /\ pc = "boundary" /\ WriterInv /\ ControlInv /\ wstate = "open" /\ ~finished
      /\ file \in BOOLEAN
  BY DEF Boundary, CallInv, ControlInv
<1>1. /\ args \in Calls /\ args.nrow \in Nat /\ group \in Nat
      /\ group = 0 \/ GroupStart(group) < args.nrow
      /\ Existing \in Nat /\ First \in Nat /\ EvenRows
  BY <1>0, BoundaryNumbers
<1>3. CASE group + 1 < NumGroups /\ Fail(LastCells) /\ Jump
  <2>1. LastCells \in Seq(Cell) /\ DataOnly(LastCells)
    BY <1>0, UnfinishedCells
  <2>2. WriterInv'
    BY <1>0, <1>3, <2>1, FailKeeps
  <2>3. mode' = mode
    BY <1>3 DEF Fail
  <2> QED BY <1>0, <1>3, <2>2, <2>3, EarlyExit DEF Jump, ctx, outcome
<1>4. CASE ~(group + 1 < NumGroups) /\ GoTo("close") /\ UNCHANGED vars
  <2>1. WriterInv' /\ UNCHANGED <<disk, mode, wstate, file_offset, header_written, groups,
                                  rows, sent, old>>
    BY <1>0, <1>4, SameWriter DEF vars, writerVars, current, history
  <2>2. pc' = "close" /\ UNCHANGED <<args, file, finished, before, group>>
    BY <1>4 DEF GoTo, ctx, outcome, loop
  <2>3. /\ Existing' = Existing /\ GroupRows' = GroupRows
        /\ GroupStart(group)' = GroupStart(group) /\ GroupEnd(group)' = GroupEnd(group)
        /\ First' = First /\ LastGroup' = LastGroup
    BY <2>1, <2>2
       DEF Existing, GroupRows, GroupStart, GroupEnd, First, LastGroup, Header
  <2>4. ControlInv'
    BY <1>0, <2>1, <2>2, <2>3 DEF ControlInv
  <2>5. GroupEnd(group) = args.nrow
    BY <1>1, <1>4, GroupFacts
  <2>6. BoundaryInv
    BY <1>0, BoundaryNumbers
  <2>7. GroupInv' /\ FullGroups(groups \o LastGroup, group)' = FullGroups(groups \o LastGroup, group)
    BY <2>1, <2>2, <2>3, <2>6 DEF BoundaryInv, GroupInv, FullGroups
  <2>8. BoundaryInv'
    BY <2>1, <2>2, <2>3, <2>6, <2>7, Zenon DEF BoundaryInv
  <2> QED BY <2>1, <2>2, <2>3, <2>4, <2>5, <2>8 DEF CallInv, ProgressInv, Written
<1>5. CASE /\ group + 1 < NumGroups /\ NewRowGroup
           /\ group' = group + 1 /\ col' = 1 /\ row0' = GroupStart(group + 1)
           /\ pc' = "write" /\ UNCHANGED <<ctx, outcome>>
  <2>1. WriterInv'
    BY <1>0, <1>1, <1>5, NewRowGroupKeeps
  <2>2. UNCHANGED <<disk, mode, wstate, sent, old>>
    BY <1>5 DEF NewRowGroup, history
  <2>3. UNCHANGED <<args, file, finished, before>>
    BY <1>5 DEF ctx, outcome
  <2>4. /\ Existing' = Existing /\ GroupRows' = GroupRows /\ First' = First
        /\ \A g : GroupStart(g)' = GroupStart(g) /\ GroupEnd(g)' = GroupEnd(g)
    BY <2>2, <2>3, SameCall DEF First
  <2>5. ControlInv'
    BY <1>0, <1>5, <2>2, <2>3, <2>4 DEF ControlInv
  <2>6. GroupStart(group + 1) < args.nrow /\ GroupEnd(group) = GroupStart(group + 1)
    BY <1>1, <1>5, GroupFacts
  <2>7. group + 1 \in Nat
    BY <1>1
  <2>8. /\ GroupStart(group + 1) \in Nat /\ args.nrow > 0
        /\ GroupStart(group + 1) < GroupEnd(group + 1) /\ GroupEnd(group + 1) \in Nat
    <3>1. /\ GroupStart(group + 1) \in Nat /\ GroupEnd(group + 1) \in Nat
          /\ args.nrow > 0 => GroupStart(group + 1) < GroupEnd(group + 1)
      BY <1>1, <2>6, <2>7, GroupFacts
    <3> QED BY <1>1, <2>6, <3>1
  <2>9. /\ GroupStart(group)' = GroupStart(group + 1) /\ GroupEnd(group)' = GroupEnd(group + 1)
    BY <1>5, <2>4 DEF GroupStart, GroupEnd
  <2>10. GroupInv'
    BY <1>5, <2>3, <2>6, <2>7, <2>9 DEF GroupInv
  <2>11. 1 \in Columns /\ \A c \in Columns : ~(c < 1)
    BY FileAssumption DEF Columns
  <2>12. \A c \in Columns : Reached(c)' = GroupStart(group + 1)
    BY <1>5, <2>9, <2>11 DEF Reached
  <2>13. \A c \in Columns : sent'[c] = Existing + GroupStart(group + 1)
    BY <1>0, <2>2, <2>6, BoundaryNumbers DEF BoundaryInv
  <2>14. ASSUME NumColumns > 1
         PROVE  /\ \A c \in Columns : Existing' + GroupStart(group)' + Len(cols'[c]) = sent'[c]
                /\ Len(groups') = First' + group' /\ FullGroups(groups, group)'
    <3>1. /\ \A c \in Columns : Len(cols'[c]) = 0
          /\ Len(groups') = First + group + 1
          /\ \A i \in 1..group + 1 : groups'[First + i].rows = GroupRows
      BY <1>0, <1>5, <2>8, <2>14, GroupEnded
    <3>2. \A c \in Columns : Existing' + GroupStart(group)' + Len(cols'[c]) = sent'[c]
      BY <1>1, <2>4, <2>8, <2>9, <2>13, <3>1
    <3>3. Len(groups') = First' + group'
      BY <1>1, <1>5, <2>4, <3>1
    <3>4. FullGroups(groups, group)'
      BY <1>1, <1>5, <2>4, <3>1, <3>3 DEF FullGroups
    <3> QED BY <3>2, <3>3, <3>4
  <2>15. ChunkInv'
    BY <1>5, <2>3, <2>4, <2>8, <2>9, <2>10, <2>11, <2>12, <2>13, <2>14, SMTT(30) DEF ChunkInv
  <2> QED BY <1>5, <2>1, <2>5, <2>15 DEF CallInv, ProgressInv, Written
<1> QED BY <1>3, <1>4, <1>5 DEF Boundary

\* The footer that close writes lists the row groups asked for.
LEMMA ClosingSizes ==
  ASSUME CallInv, pc = "close"
  PROVE  Sizes(Metadata)
<1> DEFINE gs == groups \o LastGroup
           n == Len(Metadata) - First
           G == GroupRows
<1> SUFFICES ASSUME args.nrow > 0, NumColumns > 1
             PROVE  /\ n \in Nat /\ (n - 1) * G < args.nrow /\ args.nrow <= n * G
                    /\ \A i \in 1..n - 1 : Metadata[First + i].rows = G
                    /\ Metadata[First + n].rows = args.nrow - (n - 1) * G
  BY DEF Sizes
<1>0. /\ args \in Calls /\ args.nrow \in Nat /\ group \in Nat /\ First \in Nat
      /\ group = 0 \/ GroupStart(group) < args.nrow
      /\ groups \in Seq(Recorded) /\ BoundaryInv
  BY BoundaryNumbers
<1>1. GroupEnd(group) = args.nrow /\ WriterInv /\ wstate = "open"
  BY DEF CallInv, ProgressInv, ControlInv
<1>2. /\ Len(gs) = First + group + 1 /\ gs[First + group + 1].rows = args.nrow - GroupStart(group)
      /\ \A i \in 1..group : gs[First + i].rows = G
  BY <1>0, <1>1, Zenon DEF BoundaryInv, FullGroups
<1>3. Len(Metadata) = Len(gs) /\ \A i \in 1..Len(gs) : Metadata[i].rows = gs[i].rows
  <2>1. gs \in Seq(Recorded) /\ sorting \in BOOLEAN
    <3>1. /\ rows \in Nat /\ file_offset \in Nat /\ Len(Header) \in Nat
          /\ sorting \in BOOLEAN
      BY <1>1, HeaderFacts DEF WriterInv, WriterTypes
    <3>2. RowGroup(rows, file_offset + Len(Header)) \in Recorded
      BY <3>1, RowGroupType
    <3>3. LastGroup \in Seq(Recorded)
      BY <3>2 DEF LastGroup
    <3> QED BY <1>0, <3>1, <3>3
  <2>2. Alike(gs, Metadata)
    BY <2>1, MetadataFacts, Zenon DEF Metadata
  <2> HIDE DEF gs
  <2> QED BY <2>2, Zenon DEF Alike
<1> HIDE DEF gs
<1>4. n = group + 1
  BY <1>0, <1>2, <1>3
<1>5. /\ G \in Nat /\ GroupStart(group) = group * G /\ GroupStart(group) \in Nat
      /\ GroupStart(group) < args.nrow /\ args.nrow <= (group + 1) * G
  <2>1. /\ G \in Nat /\ G > 0 /\ GroupStart(group) = group * G /\ GroupStart(group) \in Nat
        /\ GroupStart(group) < GroupEnd(group)
    BY <1>0, GroupFacts
  <2>2. GroupEnd(group) <= GroupStart(group) + G
    BY <1>0, <2>1 DEF GroupEnd, Min
  <2>3. (group + 1) * G = group * G + G
    BY <1>0, <2>1, TimesMonotone
  <2> QED BY <1>1, <2>1, <2>2, <2>3
<1> HIDE DEF n, G
<1>6. n - 1 = group /\ n \in Nat
  BY <1>0, <1>4
<1>7. (n - 1) * G < args.nrow /\ args.nrow <= n * G
  BY <1>4, <1>5, <1>6
<1>8. ASSUME NEW i \in 1..n - 1 PROVE Metadata[First + i].rows = G
  <2>1. i \in 1..group /\ First + i \in 1..Len(gs)
    BY <1>0, <1>2, <1>6
  <2> QED BY <1>2, <1>3, <2>1
<1>9. Metadata[First + n].rows = args.nrow - (n - 1) * G
  <2>1. First + n = First + group + 1 /\ First + n \in 1..Len(gs)
    BY <1>0, <1>2, <1>4
  <2>2. Metadata[First + n].rows = args.nrow - GroupStart(group)
    BY <1>2, <1>3, <2>1
  <2> QED BY <1>5, <1>6, <2>2
<1> QED BY <1>6, <1>7, <1>8, <1>9

\* When close succeeds, whatever has the closed stream's output as its end
\* is the file that was asked for.
LEMMA ClosingIsGood ==
  ASSUME CallInv, pc = "close", NEW e, e = Overlay(disk, base, out \o ClosingCells),
         Len(e) = base + Len(out \o ClosingCells)
  PROVE  GoodFile(e)
<1>1. WriterInv /\ wstate = "open" /\ EvenRows /\ BoundaryInv /\ GroupEnd(group) = args.nrow
      /\ 1 \in Columns
  BY BoundaryNumbers DEF CallInv, ControlInv, ProgressInv
<1>2. ReadFooter(e) = Metadata /\ ReadFooter(e) # NoFooter /\ Holds(e, ReadFooter(e), sent[1])
  BY <1>1, WholeOutputHolds
<1>3. sent[1] = Existing + args.nrow
  BY <1>1 DEF BoundaryInv
<1>4. Sizes(Metadata)
  BY ClosingSizes
<1> QED BY <1>2, <1>3, <1>4 DEF GoodFile

\* A good file is one whatever the writer does next.
LEMMA SameGood ==
  ASSUME NEW d, GoodFile(d), UNCHANGED <<args, before, old>>
  PROVE  /\ ReadFooter(d) # NoFooter /\ Holds(d, ReadFooter(d), Existing' + args'.nrow)
         /\ Sizes(ReadFooter(d))'
<1>1. Existing' = Existing /\ First' = First /\ GroupRows' = GroupRows
  BY DEF Existing, First, GroupRows
<1> QED BY <1>1 DEF GoodFile, Sizes

\* carquet_writer_close.
LEMMA CloseWriterKeeps ==
  ASSUME CallInv, CloseWriter
  PROVE  CallInv'
<1>0. /\ pc = "close" /\ WriterInv /\ ControlInv /\ wstate = "open" /\ ~finished
      /\ file \in BOOLEAN
  BY DEF CloseWriter, CallInv, ControlInv
<1>1. EvenRows
  BY <1>0, BoundaryNumbers
<1>2. CASE CloseFails /\ Jump
  <2>1. WriterInv'
    BY <1>0, <1>1, <1>2, CloseFailsKeeps
  <2>2. mode' = mode
    BY <1>2 DEF CloseFails
  <2> QED BY <1>0, <1>2, <2>1, <2>2, EarlyExit DEF Jump, ctx, outcome
<1>3. ASSUME NEW ok \in BOOLEAN, Close(ok), GoTo("fclose") PROVE CallInv'
  <2>1. WriterInv' /\ wstate' = "closed"
    BY <1>0, <1>1, <1>3, CloseKeeps
  <2>2. out' = out \o ClosingCells /\ UNCHANGED <<base, mode, old>>
    BY <1>3 DEF Close
  <2>3. pc' = "fclose" /\ UNCHANGED <<args, file, finished, before>>
    BY <1>3 DEF GoTo, ctx, outcome
  <2>4. Existing' = Existing /\ Existing \in Nat
    BY <1>0, <2>3, SameCall DEF ControlInv
  <2>5. ControlInv'
    BY <1>0, <2>1, <2>2, <2>3, <2>4 DEF ControlInv
  <2>6. out' \in Seq(Cell)
    BY <2>1 DEF WriterInv, WriterTypes
  <2>7. CASE file
    <3>1. ~args.append /\ mode = "stream"
      BY <1>0, <2>7, Zenon DEF ControlInv
    <3>2. disk = <<>> /\ base = 0
      BY <1>0, <3>1 DEF WriterInv, LiveInv
    <3>3. disk' = disk
      BY <1>3, <3>1 DEF Close, owns_file
    <3>4. \A n \in 0..Len(out') : WholeFile(Overlay(disk, base, SubSeq(out', 1, n)))
      BY <1>0, <1>1, <2>2, PartOfWhole
    <3>5. PICK e : e = Overlay(disk, base, out')
      OBVIOUS
    <3>6. Len(e) = base + Len(out')
      <4>1. <<>> \in Seq(Cell) /\ 0 <= Len(<<>>) /\ 0 \in Nat
        OBVIOUS
      <4>2. /\ 0 + Len(out') <= Len(Overlay(<<>>, 0, out'))
            /\ Len(Overlay(<<>>, 0, out')) \in {Len(<<>>), 0 + Len(out')}
        BY <2>6, <4>1, OverlayFacts, Zenon
      <4>3. Len(out') \in Nat /\ Len(<<>>) = 0
        BY <2>6
      <4> QED BY <3>2, <3>5, <4>2, <4>3
    <3>7. GoodFile(e)
      BY <1>0, <2>2, <3>5, <3>6, ClosingIsGood
    <3>8. GoodFile(e)'
      BY <2>2, <2>3, <3>7, SameGood DEF GoodFile
    <3>9. GoodFile(Overlay(disk, base, out))'
      BY <2>2, <3>3, <3>5, <3>8 DEF GoodFile
    <3>10. ProgressInv'
      BY <2>2, <2>3, <2>7, <3>2, <3>3, <3>4, <3>9 DEF ProgressInv, Written
    <3> QED BY <2>1, <2>5, <3>10 DEF CallInv
  <2>8. CASE ~file
    <3>1. mode = "append"
      BY <1>0, <2>8, Zenon DEF ControlInv
    <3>2. Fclose(out', ok)
      BY <1>3, <3>1 DEF Close, owns_file
    <3>3. PICK o \in Seq(Cell) : o = out'
      BY <2>6
    <3>4. synced' = ok /\ (ok => disk' = Overlay(disk, base, out'))
      BY <3>2, <3>3, FcloseFacts
    <3>5. ASSUME synced', Covered' PROVE GoodFile(disk)'
      <4>1. PICK e : e = disk'
        OBVIOUS
      <4>2. e = Overlay(disk, base, out \o ClosingCells)
        BY <2>2, <3>4, <3>5, <4>1
      <4>3. Len(e) = base + Len(out \o ClosingCells)
        BY <2>2, <3>5, <4>1 DEF Covered
      <4>4. GoodFile(e)
        BY <1>0, <4>2, <4>3, ClosingIsGood
      <4>5. GoodFile(e)'
        BY <2>2, <2>3, <4>4, SameGood DEF GoodFile
      <4> QED BY <4>1, <4>5 DEF GoodFile
    <3>6. ProgressInv'
      BY <2>3, <2>8, <3>5 DEF ProgressInv, Written
    <3> QED BY <2>1, <2>5, <3>6 DEF CallInv
  <2> QED BY <1>0, <2>7, <2>8
<1> QED BY <1>2, <1>3 DEF CloseWriter

\* The fclose of qio's own stream.
LEMMA FinalFcloseKeeps ==
  ASSUME CallInv, FinalFclose
  PROVE  CallInv'
<1>0. /\ pc = "fclose" /\ WriterInv /\ ControlInv /\ ProgressInv /\ wstate = "closed"
      /\ file = ~args.append /\ mode = IF args.append THEN "append" ELSE "stream"
  BY DEF FinalFclose, CallInv, ControlInv
<1>1. /\ pc' = "cleanup" /\ file' = FALSE
      /\ UNCHANGED <<base, out, mode, wstate, header_written, file_offset, groups, cols, rows,
                     sorting, old, sent, args, before, result>>
  BY DEF FinalFclose, stream, writerVars, current, outcome
<1>2. /\ WriterTypes /\ AppendInv /\ WholeFile(disk) /\ disk \in Seq(Cell)
      /\ out \in Seq(Cell) /\ synced \in BOOLEAN
  BY <1>0 DEF WriterInv, WriterTypes
<1>3. CASE ~file
  <2>1. finished' = TRUE /\ UNCHANGED <<disk, synced>>
    BY <1>3 DEF FinalFclose
  <2>2. WriterInv'
    BY <1>0, <1>1, <1>2, <2>1, EndedKeeps
  <2>3. ControlInv'
    BY <1>0, <1>1, <2>1, Zenon DEF ControlInv
  <2>4. ASSUME synced', Covered' PROVE GoodFile(disk)'
    <3>1. GoodFile(disk)
      BY <1>0, <1>1, <1>3, <2>1, <2>4 DEF ProgressInv, Written, Covered
    <3>2. PICK e : e = disk
      OBVIOUS
    <3>3. GoodFile(e)'
      BY <1>1, <3>1, <3>2, SameGood DEF GoodFile
    <3> QED BY <2>1, <3>2, <3>3 DEF GoodFile
  <2>5. ProgressInv'
    BY <1>1, <2>4 DEF ProgressInv
  <2> QED BY <2>2, <2>3, <2>5 DEF CallInv
<1>4. CASE file
  <2>1. PICK ok \in BOOLEAN : Fclose(out, ok) /\ finished' = ok
    BY <1>4 DEF FinalFclose
  <2>2. /\ disk = <<>> /\ base = 0
        /\ \A n \in 0..Len(out) : WholeFile(Overlay(disk, base, SubSeq(out, 1, n)))
        /\ GoodFile(Overlay(disk, base, out))
    BY <1>0, <1>4 DEF ProgressInv
  <2>3. /\ synced' = ok /\ (ok => disk' = Overlay(disk, base, out))
        /\ \E n \in 0..Len(out) : disk' = Overlay(disk, base, SubSeq(out, 1, n))
    BY <1>2, <2>1, FcloseFacts
  <2>4. PICK n \in 0..Len(out) : disk' = Overlay(disk, base, SubSeq(out, 1, n))
    BY <2>3
  <2>5. WholeFile(disk')
    BY <2>2, <2>4
  <2>6. \E p \in Seq(Cell) : disk' = Overlay(disk, base, p) /\ base <= Len(disk)
    <3>1. SubSeq(out, 1, n) \in Seq(Cell)
      BY <1>2, PrefixFacts
    <3>2. base <= Len(disk)
      BY <2>2
    <3> QED BY <2>4, <3>1, <3>2, Zenon
  <2>7. out' \in Seq(Cell) /\ synced' \in BOOLEAN /\ wstate' \in {"closed", "close_failed", "aborted"}
    BY <1>0, <1>1, <1>2, <2>3
  <2>8. WriterInv'
    BY <1>1, <1>2, <2>5, <2>6, <2>7, EndedKeeps
  <2>9. ControlInv'
    BY <1>0, <1>1, <2>1, Zenon DEF ControlInv
  <2>10. ASSUME finished' PROVE GoodFile(disk)'
    <3>1. PICK e : e = disk'
      OBVIOUS
    <3>2. GoodFile(e)
      BY <2>1, <2>2, <2>3, <2>10, <3>1
    <3>3. GoodFile(e)'
      BY <1>1, <3>2, SameGood DEF GoodFile
    <3> QED BY <3>1, <3>3 DEF GoodFile
  <2>11. ProgressInv'
    BY <1>1, <2>10 DEF ProgressInv, Written
  <2> QED BY <2>8, <2>9, <2>11 DEF CallInv
<1> QED BY <1>0, <1>3, <1>4 DEF ControlInv

\* qio_write_cleanup.
LEMMA CleanupKeeps ==
  ASSUME CallInv, Cleanup
  PROVE  CallInv'
<1>0. /\ pc = "cleanup" /\ WriterInv /\ ControlInv /\ ProgressInv /\ args \in Calls
      /\ mode = "stream" \/ (mode = "append" /\ args.append)
      /\ finished => LeavesWriter
  BY DEF Cleanup, CallInv, ControlInv, LeavesWriter
<1>1. /\ pc' = "idle" /\ file' = FALSE /\ result' = IF finished THEN "ok" ELSE "error"
      /\ wstate' = IF LeavesWriter THEN wstate ELSE "aborted"
      /\ UNCHANGED <<base, out, mode, header_written, file_offset, groups, cols, rows, est,
                     sorting, old, sent, args, finished, before>>
  BY DEF Cleanup, stream, current
<1>2. /\ WriterTypes /\ WholeFile(disk) /\ disk \in Seq(Cell) /\ base \in Nat
      /\ out \in Seq(Cell) /\ WholeFile(NoFile) /\ NoFile \in Seq(Cell)
  BY <1>0, NoFooterIsWhole DEF WriterInv, WriterTypes
<1>3. wstate' \in {"none", "closed", "close_failed", "aborted"}
  BY <1>1, <1>2 DEF WriterTypes, LeavesWriter
<1>4. WriterInv'
  <2>1. CASE Removes
    <3>1. disk' = NoFile /\ synced' = synced
      BY <2>1 DEF Cleanup
    <3>2. mode' = "stream"
      BY <1>0, <1>1, <2>1 DEF Removes
    <3> QED BY <1>1, <1>2, <1>3, <3>1, <3>2, NoWriter
  <2>2. CASE ~Removes /\ ~LeavesWriter /\ owns_file
    <3>1. PICK ok \in BOOLEAN : Fclose(out, ok)
      BY <2>2 DEF Cleanup
    <3>2. mode = "append" /\ wstate \in {"open", "failed"}
      BY <1>0, <2>2 DEF owns_file, LeavesWriter
    <3>3. Abort(ok)
      BY <1>1, <2>2, <3>1, <3>2 DEF Abort, stream, current
    <3> QED BY <1>0, <3>2, <3>3, AbortKeeps
  <2>3. CASE ~Removes /\ LeavesWriter
    <3>1. UNCHANGED <<disk, synced>>
      BY <2>3 DEF Cleanup
    <3>2. UNCHANGED vars
      BY <1>1, <2>3, <3>1 DEF vars, stream, writerVars, current, history
    <3> QED BY <1>0, <3>2, SameWriter
  <2>4. CASE ~Removes /\ ~owns_file
    <3>1. UNCHANGED <<disk, synced>>
      BY <2>4 DEF Cleanup
    <3>2. mode' = "stream"
      BY <1>1, <2>4 DEF owns_file
    <3> QED BY <1>1, <1>2, <1>3, <3>1, <3>2, NoWriter
  <2> QED BY <2>1, <2>2, <2>3, <2>4
<1>5. ControlInv'
  BY <1>0, <1>1, <1>3, Zenon DEF ControlInv
<1>6. ASSUME finished, synced', Covered' PROVE GoodFile(disk)'
  <2>1. LeavesWriter /\ ~Removes
    BY <1>0, <1>6 DEF Removes
  <2>2. UNCHANGED <<disk, synced>>
    BY <2>1 DEF Cleanup
  <2>3. GoodFile(disk)
    BY <1>0, <1>1, <1>6, <2>2 DEF ProgressInv, Written, Covered
  <2>4. PICK e : e = disk
    OBVIOUS
  <2>5. GoodFile(e)'
    BY <1>1, <2>3, <2>4, SameGood DEF GoodFile
  <2> QED BY <2>2, <2>4, <2>5 DEF GoodFile
<1>7. Written' => finished
  BY <1>1 DEF Written
<1>8. ProgressInv'
  BY <1>1, <1>6, <1>7 DEF ProgressInv
<1> QED BY <1>4, <1>5, <1>8 DEF CallInv

\* No step.
LEMMA StutterKeeps ==
  ASSUME CallInv, UNCHANGED wvars
  PROVE  CallInv'
<1> USE DEF wvars, vars, stream, writerVars, current, history, loop, ctx, outcome
<1>1. WriterInv'
  BY SameWriter DEF CallInv
<1>2. Existing' = Existing /\ GroupRows' = GroupRows /\ First' = First /\ LastGroup' = LastGroup
  BY DEF Existing, GroupRows, First, LastGroup, Header
<1>3. ControlInv'
  BY <1>2 DEF CallInv, ControlInv
<1>4. \A g : GroupStart(g)' = GroupStart(g) /\ GroupEnd(g)' = GroupEnd(g)
  BY SameCall
<1>5. \A d : GoodFile(d)' = GoodFile(d)
  BY <1>2 DEF GoodFile, Sizes
<1>6. ChunkInv' = ChunkInv /\ BoundaryInv' = BoundaryInv
  BY <1>2, <1>4, Zenon DEF ChunkInv, BoundaryInv, GroupInv, Reached, FullGroups
<1>7. ProgressInv'
  BY <1>2, <1>4, <1>5, <1>6 DEF CallInv, ProgressInv, Written, Covered
<1> QED BY <1>1, <1>3, <1>7 DEF CallInv

-------------------------------------------------------------------------------
(* The theorems.                                                           *)

\* At every point of write_parquet the writer is in order, the right streams
\* are open, and every column has come as far as the loops say: for any number
\* of columns, rows, calls, any row_group_size and any point of failure.
THEOREM CallInvariant == Spec => []CallInv
<1>1. Init => CallInv
  BY InitCall
<1>2. CallInv /\ [Next]_wvars => CallInv'
  <2> SUFFICES ASSUME CallInv, [Next]_wvars PROVE CallInv'
    OBVIOUS
  <2>1. CASE Call
    BY <2>1, CallKeeps
  <2>2. CASE CreateSchema
    BY <2>2, CreateSchemaKeeps
  <2>3. CASE OpenNew
    BY <2>3, OpenNewKeeps
  <2>4. CASE OpenOld
    BY <2>4, OpenOldKeeps
  <2>5. CASE Configure
    BY <2>5, ConfigureKeeps
  <2>6. CASE WriteChunk
    BY <2>6, WriteChunkKeeps
  <2>7. CASE Boundary
    BY <2>7, BoundaryKeeps
  <2>8. CASE CloseWriter
    BY <2>8, CloseWriterKeeps
  <2>9. CASE FinalFclose
    BY <2>9, FinalFcloseKeeps
  <2>10. CASE Cleanup
    BY <2>10, CleanupKeeps
  <2>11. CASE UNCHANGED wvars
    BY <2>11, StutterKeeps
  <2> QED BY <2>1, <2>2, <2>3, <2>4, <2>5, <2>6, <2>7, <2>8, <2>9, <2>10, <2>11 DEF Next
<1> QED BY <1>1, <1>2, PTL DEF Spec

\* The invariant at the end of a call that succeeded.
LEMMA InvariantSaysWhole == CallInv => WrittenFileIsWhole
<1> DEFINE footer == ReadFooter(disk)
           size == IF args.group_rows > 0 THEN args.group_rows ELSE args.nrow
           n == Len(NewGroupRows)
           k == Len(footer) - First
<1> SUFFICES ASSUME CallInv, Done, synced, Covered
             PROVE  /\ footer # NoFooter /\ Holds(disk, footer, Existing + args.nrow)
                    /\ args.nrow > 0 /\ NumColumns > 1 =>
                         /\ (n - 1) * size < args.nrow /\ args.nrow <= n * size
                         /\ \A i \in 1..n - 1 : NewGroupRows[i] = size
                         /\ NewGroupRows[n] = args.nrow - (n - 1) * size
  BY DEF WrittenFileIsWhole
<1>1. GoodFile(disk) /\ args \in Calls
  BY DEF CallInv, ControlInv, ProgressInv, Written, Done
<1>2. footer # NoFooter /\ Holds(disk, footer, Existing + args.nrow)
  BY <1>1 DEF GoodFile
<1>3. ASSUME args.nrow > 0, NumColumns > 1
      PROVE  /\ (n - 1) * size < args.nrow /\ args.nrow <= n * size
             /\ \A i \in 1..n - 1 : NewGroupRows[i] = size
             /\ NewGroupRows[n] = args.nrow - (n - 1) * size
  <2>1. args.nrow \in Nat /\ args.group_rows \in Nat
    BY <1>1 DEF Calls
  <2>2. size = GroupRows /\ size \in Nat
    BY <1>3, <2>1 DEF GroupRows
  <2>3. /\ k \in Nat /\ (k - 1) * GroupRows < args.nrow /\ args.nrow <= k * GroupRows
        /\ \A i \in 1..k - 1 : footer[First + i].rows = GroupRows
        /\ footer[First + k].rows = args.nrow - (k - 1) * GroupRows
    BY <1>1, <1>3 DEF GoodFile, Sizes
  <2>4. NewGroupRows = [i \in 1..k |-> footer[First + i].rows]
    BY DEF NewGroupRows, First
  <2> HIDE DEF footer, k, size
  <2>5. n = k
    BY <2>3, <2>4
  <2>6. k # 0
    <3>1. k = 0 => k * GroupRows = 0
      BY <2>2
    <3> QED BY <1>3, <2>1, <2>3, <3>1
  <2>7. k \in 1..k /\ \A i \in 1..k - 1 : i \in 1..k
    BY <2>3, <2>6
  <2>8. NewGroupRows[k] = footer[First + k].rows
    BY <2>4, <2>7
  <2>9. \A i \in 1..k - 1 : NewGroupRows[i] = footer[First + i].rows
    BY <2>4, <2>7
  <2> HIDE DEF n
  <2> QED BY <2>2, <2>3, <2>5, <2>8, <2>9
<1> QED BY <1>2, <1>3

\* What write_parquet() says it has written is in the file: every row once
\* and in order, all columns alike, in the row groups row_group_size asks for.
THEOREM WrittenFileIsWholeHolds == Spec => []WrittenFileIsWhole
  BY CallInvariant, InvariantSaysWhole, PTL

\* qio_write_cleanup leaves no partial file, no open stream and no writer.
THEOREM FailureLeavesNothingHolds == Spec => []FailureLeavesNothing
<1>1. Init => FailureLeavesNothing
  BY DEF Init, FailureLeavesNothing, Failed
<1>2. FailureLeavesNothing /\ [Next]_wvars => FailureLeavesNothing'
  <2> SUFFICES ASSUME FailureLeavesNothing, [Next]_wvars PROVE FailureLeavesNothing'
    OBVIOUS
  <2>1. CASE Cleanup
    <3>1. pc' = "idle" /\ file' = FALSE /\ wstate' \notin {"open", "failed"}
      BY <2>1 DEF Cleanup, LeavesWriter
    <3>2. result' = "error" /\ ~args'.append => disk' = NoFile
      BY <2>1 DEF Cleanup, Removes
    <3> QED BY <3>1, <3>2 DEF FailureLeavesNothing, Failed
  <2>2. CASE UNCHANGED wvars
    BY <2>2 DEF FailureLeavesNothing, Failed, wvars, vars, writerVars, ctx, outcome
  <2>3. ASSUME pc' # "idle" PROVE FailureLeavesNothing'
    BY <2>3 DEF FailureLeavesNothing, Failed
  <2>4. CASE Call \/ CreateSchema \/ OpenNew \/ OpenOld \/ Configure
    <3>1. pc' # "idle"
      BY <2>4 DEF Call, CreateSchema, OpenNew, OpenOld, Configure, Jump, GoTo
    <3> QED BY <2>3, <3>1
  <2>5. CASE WriteChunk \/ Boundary \/ CloseWriter \/ FinalFclose
    <3>1. pc' # "idle"
      BY <2>5 DEF WriteChunk, NextChunk, Boundary, CloseWriter, FinalFclose, Jump, GoTo
    <3> QED BY <2>3, <3>1
  <2> QED BY <2>1, <2>2, <2>4, <2>5 DEF Next
<1> QED BY <1>1, <1>2, PTL DEF Spec

===============================================================================
