-------------------------- MODULE WriterClientProofs --------------------------
(***************************************************************************)
(* Proofs about the file writer under a client that keeps its contract:    *)
(* the invariant of the writer (FileWriterProofs) is kept by every step of *)
(* WriterClient, and gives its properties for any number of columns, rows  *)
(* and row groups, any sizes and any number of writers opened.             *)
(***************************************************************************)
EXTENDS WriterClient, FileWriterProofs

\* What holds of the writer and of the files it leaves; this client never
\* hands it a stream of its own.
ClientInv == WriterInv /\ owns_file /\ ClosedFileIsWhole /\ AbortIsClean

\* It holds before the first writer is opened.
LEMMA InitClient == Init => ClientInv
<1> SUFFICES ASSUME Init PROVE ClientInv
  OBVIOUS
<1> USE DEF Init
<1>1. WriterTypes
  <2>1. disk \in Seq(Cell) /\ WholeFile(disk)
    BY NoFooterIsWhole
  <2>2. out \in Seq(Cell) /\ groups \in Seq(Recorded) /\ base \in Nat /\ file_offset \in Nat
        /\ rows \in Nat
    OBVIOUS
  <2>3. cols \in [Columns -> Seq(Nat)] /\ sent \in [Columns -> Nat]
    BY DEF NoRows
  <2> QED BY <2>1, <2>2, <2>3 DEF WriterTypes
<1>2. LiveInv /\ OpenInv /\ AppendInv
  BY DEF LiveInv, OpenInv, AppendInv
<1>3. WholeFile(disk)
  BY NoFooterIsWhole
<1>4. ClosedFileIsWhole /\ AbortIsClean
  BY DEF ClosedFileIsWhole, AbortIsClean
<1> QED BY <1>1, <1>2, <1>3, <1>4 DEF ClientInv, WriterInv, owns_file

\* While a writer is open or has failed, the other two conjuncts say nothing.
LEMMA LiveSaysNothing ==
  ASSUME wstate' \in {"open", "failed"}
  PROVE  ClosedFileIsWhole' /\ AbortIsClean'
  BY DEF ClosedFileIsWhole, AbortIsClean

\* Opening the file, new or to append to it.
LEMMA OpenClient ==
  ASSUME ClientInv, Open
  PROVE  ClientInv'
<1>1. CASE Create("path")
  <2>1. wstate' = "open" /\ owns_file'
    BY <1>1 DEF Create, Fresh, owns_file
  <2>2. WriterInv'
    BY <1>1, CreateKeeps
  <2> QED BY <2>1, <2>2, LiveSaysNothing DEF ClientInv
<1>2. CASE OpenAppend
  <2>1. wstate' = "open" /\ owns_file'
    BY <1>2 DEF OpenAppend, Fresh, owns_file
  <2>2. WriterInv'
    BY <1>2, OpenAppendKeeps DEF ClientInv, WriterInv, WriterTypes
  <2> QED BY <2>1, <2>2, LiveSaysNothing DEF ClientInv
<1> QED BY <1>1, <1>2 DEF Open

\* A batch, written or failed.
LEMMA WriteClient ==
  ASSUME ClientInv, Write
  PROVE  ClientInv'
<1>1. PICK c \in Columns, n \in 0..MaxBatch :
        LET vals == [i \in 1..n |-> sent[c] + i]
        IN WriteBatch(c, vals) \/ Fail(BatchCells(c, vals))
  BY DEF Write
<1>2. n \in Nat /\ wstate = "open" /\ WriterInv /\ owns_file
  BY ClientAssumption DEF Write, ClientInv
<1>3. [i \in 1..n |-> sent[c] + i] = Run(sent[c], n)
  BY DEF Run
<1>4. CASE WriteBatch(c, Run(sent[c], n))
  <2>1. wstate' = "open" /\ owns_file'
    BY <1>2, <1>4 DEF WriteBatch, owns_file
  <2>2. WriterInv'
    BY <1>2, <1>4, WriteBatchKeeps
  <2> QED BY <2>1, <2>2, LiveSaysNothing DEF ClientInv
<1>5. CASE Fail(BatchCells(c, Run(sent[c], n)))
  <2> DEFINE q == BatchCells(c, Run(sent[c], n))
  <2>1. q \in Seq(Cell) /\ DataOnly(q) /\ Fail(q)
    BY <1>2, <1>5, UnfinishedCells
  <2> HIDE DEF q
  <2>2. WriterInv' /\ wstate' = "failed"
    BY <1>2, <2>1, FailKeeps
  <2>3. owns_file'
    BY <1>2, <2>1 DEF Fail, owns_file
  <2> QED BY <2>2, <2>3, LiveSaysNothing DEF ClientInv
<1> QED BY <1>1, <1>3, <1>4, <1>5

\* The end of a row group, written or failed.
LEMMA EndGroupClient ==
  ASSUME ClientInv, EndGroup
  PROVE  ClientInv'
<1>1. wstate = "open" /\ WriterInv /\ owns_file /\ EvenRows /\ (NewRowGroup \/ Fail(LastCells))
  BY DEF EndGroup, ClientInv, Even, EvenRows
<1>2. CASE NewRowGroup
  <2>1. wstate' = "open" /\ owns_file'
    BY <1>1, <1>2 DEF NewRowGroup, owns_file
  <2>2. WriterInv'
    BY <1>1, <1>2, NewRowGroupKeeps
  <2> QED BY <2>1, <2>2, LiveSaysNothing DEF ClientInv
<1>3. CASE Fail(LastCells)
  <2>1. LastCells \in Seq(Cell) /\ DataOnly(LastCells)
    BY <1>1, UnfinishedCells
  <2>2. WriterInv' /\ wstate' = "failed"
    BY <1>1, <1>3, <2>1, FailKeeps
  <2>3. owns_file'
    BY <1>1, <1>3 DEF Fail, owns_file
  <2> QED BY <2>2, <2>3, LiveSaysNothing DEF ClientInv
<1> QED BY <1>1, <1>2, <1>3

\* Closing: when the new tail ends the file, a reader finds everything.
LEMMA FinishClient ==
  ASSUME ClientInv, Finish
  PROVE  ClientInv'
<1>1. wstate = "open" /\ WriterInv /\ owns_file /\ EvenRows
      /\ ((\E ok \in BOOLEAN : Close(ok)) \/ CloseFails)
  BY DEF Finish, ClientInv, Even, EvenRows
<1>2. ASSUME NEW ok \in BOOLEAN, Close(ok) PROVE ClientInv'
  <2>1. WriterInv' /\ wstate' = "closed"
    BY <1>1, <1>2, CloseKeeps
  <2>2. AbortIsClean'
    BY <2>1 DEF AbortIsClean
  <2>3. ClosedFileIsWhole'
    <3> SUFFICES ASSUME synced', Covered'
                 PROVE  ReadFooter(disk') # NoFooter /\ Holds(disk', ReadFooter(disk'), sent'[1])
      BY DEF ClosedFileIsWhole
    <3> DEFINE w == out \o ClosingCells
    <3>1. out' = w /\ base' = base /\ sent' = sent
      BY <1>2 DEF Close
    <3>2. Len(disk') = base + Len(w)
      BY <3>1 DEF Covered
    <3>3. w \in Seq(Cell) /\ Fclose(w, ok)
      <4>1. ClosingCells \in Seq(Cell) /\ out \in Seq(Cell)
        BY <1>1, CloseFacts DEF EvenRows, WriterInv, WriterTypes
      <4> QED BY <1>1, <1>2, <4>1, ConcatFacts DEF Close
    <3>4. synced' = ok /\ (ok => disk' = Overlay(disk, base, w))
      <4> HIDE DEF w
      <4> QED BY <3>3, FcloseFacts
    <3>5. disk' = Overlay(disk, base, w)
      BY <3>4
    <3>6. PICK e : e = disk'
      OBVIOUS
    <3>7. ReadFooter(e) # NoFooter /\ Holds(e, ReadFooter(e), sent[1])
      BY <1>1, <3>2, <3>5, <3>6, WholeOutputHolds
    <3> QED BY <3>1, <3>6, <3>7
  <2>4. owns_file'
    BY <1>1, <1>2 DEF Close, owns_file
  <2> QED BY <2>1, <2>2, <2>3, <2>4 DEF ClientInv
<1>3. ASSUME CloseFails PROVE ClientInv'
  <2>1. WriterInv' /\ wstate' = "close_failed"
    BY <1>1, <1>3, CloseFailsKeeps
  <2>2. ClosedFileIsWhole' /\ AbortIsClean'
    BY <2>1 DEF ClosedFileIsWhole, AbortIsClean
  <2>3. owns_file'
    BY <1>1, <1>3 DEF CloseFails, owns_file
  <2> QED BY <2>1, <2>2, <2>3 DEF ClientInv
<1> QED BY <1>1, <1>2, <1>3

\* Giving up: the file is gone, or as it was.
LEMMA GiveUpClient ==
  ASSUME ClientInv, GiveUp
  PROVE  ClientInv'
<1>1. PICK ok \in BOOLEAN : Abort(ok)
  BY DEF GiveUp
<1>2. wstate \in {"open", "failed"} /\ WriterInv /\ owns_file
  BY DEF GiveUp, ClientInv
<1>3. /\ WriterInv' /\ wstate' = "aborted" /\ out' = out /\ old' = old
      /\ mode = "path" => disk' = NoFile
      /\ mode = "append" /\ out = <<>> => disk' = disk
  BY <1>1, <1>2, AbortKeeps
<1>4. mode' = mode
  BY <1>1 DEF Abort
<1>5. mode = "path" \/ (mode = "append" /\ old = ReadFooter(disk))
  BY <1>2 DEF WriterInv, WriterTypes, LiveInv, owns_file
<1>6. AbortIsClean'
  BY <1>3, <1>4, <1>5 DEF AbortIsClean
<1>7. ClosedFileIsWhole' /\ owns_file'
  BY <1>2, <1>3, <1>4 DEF ClosedFileIsWhole, owns_file
<1> QED BY <1>3, <1>6, <1>7 DEF ClientInv

\* Every step of the client keeps the invariant.
LEMMA StepClient ==
  ASSUME ClientInv, [Next]_cvars
  PROVE  ClientInv'
<1>1. CASE Open
  BY <1>1, OpenClient
<1>2. CASE DeclareOrder
  <2>1. WriterInv'
    BY <1>2, SetSortingKeeps DEF DeclareOrder, ClientInv
  <2>2. wstate' = "open" /\ owns_file'
    BY <1>2 DEF DeclareOrder, SetSorting, ClientInv, owns_file
  <2> QED BY <2>1, <2>2, LiveSaysNothing DEF ClientInv
<1>3. CASE Write
  BY <1>3, WriteClient
<1>4. CASE EndGroup
  BY <1>4, EndGroupClient
<1>5. CASE Finish
  BY <1>5, FinishClient
<1>6. CASE GiveUp
  BY <1>6, GiveUpClient
<1>7. CASE UNCHANGED cvars
  <2> USE <1>7 DEF cvars, vars, stream, writerVars, current, history
  <2>1. WriterTypes' /\ LiveInv' /\ AppendInv'
    BY DEF ClientInv, WriterInv, WriterTypes, LiveInv, AppendInv
  <2>2. OpenInv'
    BY DEF ClientInv, WriterInv, OpenInv, Split, Image
  <2>3. WholeFile(disk)' /\ owns_file'
    BY DEF ClientInv, WriterInv, owns_file
  <2>4. ClosedFileIsWhole' /\ AbortIsClean'
    BY DEF ClientInv, ClosedFileIsWhole, AbortIsClean, Covered
  <2> QED BY <2>1, <2>2, <2>3, <2>4 DEF ClientInv, WriterInv
<1> QED BY <1>1, <1>2, <1>3, <1>4, <1>5, <1>6, <1>7 DEF Next

\* The invariant of the client always holds.
THEOREM ClientInvariant == Spec => []ClientInv
  BY InitClient, StepClient, PTL DEF Spec

\* While a writer is open, the row groups recorded so far are found at the
\* offsets recorded for them, with their bloom filters and page indexes, and
\* with the open row group they hold every row written, once and in order.
THEOREM NothingMisplacedHolds == Spec => []NothingMisplaced
<1>1. ASSUME ClientInv PROVE NothingMisplaced
  <2> SUFFICES ASSUME wstate = "open"
               PROVE  /\ \A c \in Columns :
                           ColumnOf(Image, groups, c) \o cols[c] = [r \in 1..sent[c] |-> r]
                      /\ \A i \in DOMAIN groups :
                           /\ \A c \in Columns :
                                Len(ReadChunk(Image, groups[i], c)) = groups[i].rows
                           /\ AuxIntact(Image, groups[i])
    BY DEF NothingMisplaced, Image
  <2>1. PICK f \in Nat : Split(f)
    BY <1>1 DEF ClientInv, WriterInv, OpenInv
  <2>2. ASSUME NEW c \in Columns
        PROVE  ColumnOf(Image, groups, c) \o cols[c] = [r \in 1..sent[c] |-> r]
    <3> DEFINE k == Len(cols[c])
    <3>1. k \in Nat
      BY <1>1 DEF ClientInv, WriterInv, WriterTypes
    <3>2. /\ sent[c] = f + k /\ ColumnOf(Image, groups, c) = Run(0, f) /\ cols[c] = Run(f, k)
      BY <2>1 DEF Split
    <3> HIDE DEF k
    <3>3. Run(0, f) \o Run(f, k) = Run(0, f + k)
      BY <3>1, RunFromZero
    <3>4. [r \in 1..f + k |-> r] = Run(0, f + k)
      BY RunFromOne
    <3> QED BY <3>2, <3>3, <3>4
  <2>3. /\ Image \in Seq(Cell) /\ groups \in Seq(Recorded) \union Seq(Listed)
        /\ file_offset \in Nat /\ Sound(Image, groups, file_offset)
    <3>1. WriterInv /\ base <= Len(disk)
      BY <1>1, LiveBase DEF ClientInv, WriterInv
    <3>2. Image \in Seq(Cell)
      BY <3>1, OverlayFacts DEF WriterInv, WriterTypes, Image
    <3> QED BY <3>1, <3>2 DEF WriterInv, WriterTypes, OpenInv
  <2>4. ASSUME NEW i \in DOMAIN groups
        PROVE  /\ \A c \in Columns : Len(ReadChunk(Image, groups[i], c)) = groups[i].rows
               /\ AuxIntact(Image, groups[i])
    BY <2>3, SoundChunks
  <2> QED BY <2>2, <2>4
<1> QED BY <1>1, ClientInvariant, PTL

\* Once carquet_writer_close has returned CARQUET_OK, the stream was closed
\* without an error and the new tail ends the file, a reader finds all rows,
\* those of the row groups that were there before first.
THEOREM ClosedFileIsWholeHolds == Spec => []ClosedFileIsWhole
<1>1. ClientInv => ClosedFileIsWhole
  BY DEF ClientInv
<1> QED BY <1>1, ClientInvariant, PTL

\* carquet_writer_abort removes a file the writer created, and leaves one it
\* was to append to as it was if it had not written to it.
THEOREM AbortIsCleanHolds == Spec => []AbortIsClean
<1>1. ClientInv => AbortIsClean
  BY DEF ClientInv
<1> QED BY <1>1, ClientInvariant, PTL


\* Writing over the old footer leaves every chunk of the old row groups as it
\* was.
LEMMA OldChunksStay ==
  ASSUME WriterTypes, AppendInv, mode = "append", NEW p \in Seq(Cell), NEW e,
         e = Overlay(disk, base, p), NEW i \in DOMAIN old, NEW c \in Columns
  PROVE  ReadChunk(e, old[i], c) = ReadChunk(disk, old[i], c)
<1> DEFINE g == old[i]
<1>1. base \in Nat /\ base <= Len(disk) /\ disk \in Seq(Cell) /\ Sound(disk, old, base)
      /\ old \in Seq(Listed)
  BY DEF WriterTypes, AppendInv
<1>2. g.data \in [Columns -> Nat] /\ g.aux \in Seq(AuxEntries) /\ GroupIn(disk, g, base)
  <2>1. g \in Listed
    BY <1>1, Element
  <2> QED BY <1>1, <2>1 DEF Sound, Listed
<1>3. /\ e \in Seq(Cell) /\ Len(disk) <= Len(e)
      /\ \A j \in 1..base : e[j] = disk[j]
  BY <1>1, OverlayFacts
<1>4. base <= Len(e) /\ base <= base
  <2>1. Len(disk) \in Nat /\ Len(e) \in Nat
    BY <1>1, <1>3
  <2> QED BY <1>1, <1>3, <2>1
<1>5. Agree(disk, e, base)
  BY <1>1, <1>3, <1>4 DEF Agree
<1> HIDE DEF g
<1>6. \A d \in Columns : ReadChunk(e, g, d) = ReadChunk(disk, g, d)
  <2>1. /\ disk \in Seq(Cell) /\ e \in Seq(Cell) /\ base \in Nat /\ Agree(disk, e, base)
        /\ base <= base /\ base <= Len(e)
    BY <1>1, <1>3, <1>4, <1>5, Zenon
  <2> QED BY <1>2, <2>1, GroupFrame, SMTT(30)
<1> QED BY <1>6 DEF g

\* Whatever an append does, the chunks listed by the old footer stay where
\* they were, with their bloom filters and page indexes.
THEOREM ExistingDataUntouchedHolds == Spec => ExistingDataUntouched
<1> DEFINE Keeps ==
      mode' = "append" =>
        \A i \in DOMAIN old' :
          /\ AuxIntact(disk', old'[i])
          /\ \A c \in Columns : ReadChunk(disk', old'[i], c) = ReadChunk(disk, old'[i], c)
<1>1. ASSUME ClientInv, ClientInv', Next PROVE Keeps
  <2> SUFFICES ASSUME mode' = "append", NEW i \in DOMAIN old'
               PROVE  /\ AuxIntact(disk', old'[i])
                      /\ \A c \in Columns :
                           ReadChunk(disk', old'[i], c) = ReadChunk(disk, old'[i], c)
    OBVIOUS
  <2>1. AuxIntact(disk', old'[i])
    <3>1. Sound(disk', old', base')
      BY <1>1 DEF ClientInv, WriterInv, AppendInv
    <3> QED BY <3>1 DEF Sound, GroupIn
  <2>2. WriterTypes /\ AppendInv /\ WriterInv
    BY <1>1 DEF ClientInv, WriterInv
  <2>3. \/ disk' = disk
        \/ /\ mode = "append" /\ old' = old
           /\ \E p \in Seq(Cell) : disk' = Overlay(disk, base, p)
    <3>1. CASE Open
      BY <3>1 DEF Open, Create, Fresh, OpenAppend
    <3>2. CASE DeclareOrder \/ Write \/ EndGroup
      BY <3>2 DEF DeclareOrder, SetSorting, Write, WriteBatch, Fail, EndGroup, NewRowGroup
    <3>3. ASSUME Finish \/ GiveUp, disk' # disk
          PROVE  /\ mode = "append" /\ old' = old
                 /\ \E o \in Seq(Cell), ok \in BOOLEAN : Fclose(o, ok)
      <4>1. out \in Seq(Cell) /\ out' \in Seq(Cell)
        BY <1>1 DEF ClientInv, WriterInv, WriterTypes
      <4>2. CASE Finish
        <5>1. mode' = mode /\ old' = old
          BY <4>2 DEF Finish, Close, CloseFails
        <5>2. \E ok \in BOOLEAN : Fclose(out', ok)
          BY <3>3, <4>2 DEF Finish, Close, CloseFails
        <5>3. PICK o \in Seq(Cell) : o = out'
          BY <4>1
        <5> QED BY <5>1, <5>2, <5>3
      <4>3. CASE GiveUp
        <5>1. mode' = mode /\ old' = old
          BY <4>3 DEF GiveUp, Abort
        <5>2. \E ok \in BOOLEAN : Fclose(out, ok)
          BY <4>3, <5>1 DEF GiveUp, Abort
        <5> QED BY <4>1, <5>1, <5>2
      <4> QED BY <3>3, <4>2, <4>3
    <3>4. ASSUME NEW o \in Seq(Cell), NEW ok \in BOOLEAN, Fclose(o, ok)
          PROVE  \E p \in Seq(Cell) : disk' = Overlay(disk, base, p)
      <4>1. PICK n \in 0..Len(o) : disk' = Overlay(disk, base, SubSeq(o, 1, n))
        BY <3>4, FcloseFacts
      <4>2. SubSeq(o, 1, n) \in Seq(Cell)
        BY PrefixFacts
      <4> QED BY <4>1, <4>2
    <3> QED BY <1>1, <3>1, <3>2, <3>3, <3>4 DEF Next
  <2>4. ASSUME NEW c \in Columns
        PROVE  ReadChunk(disk', old'[i], c) = ReadChunk(disk, old'[i], c)
    <3>1. CASE disk' = disk
      BY <3>1
    <3>2. CASE disk' # disk
      <4>1. PICK p \in Seq(Cell) : disk' = Overlay(disk, base, p)
        BY <2>3, <3>2
      <4>2. mode = "append" /\ old' = old
        BY <2>3, <3>2
      <4>3. PICK e : e = disk'
        OBVIOUS
      <4>4. e = Overlay(disk, base, p) /\ i \in DOMAIN old
        BY <4>1, <4>2, <4>3
      <4>5. ReadChunk(e, old[i], c) = ReadChunk(disk, old[i], c)
        BY <2>2, <4>2, <4>4, OldChunksStay
      <4> QED BY <4>2, <4>3, <4>5
    <3> QED BY <3>1, <3>2
  <2> QED BY <2>1, <2>4
<1>2. ClientInv /\ ClientInv' /\ [Next]_cvars => [Keeps]_cvars
  BY <1>1
<1> HIDE DEF Keeps
<1> QED BY <1>2, ClientInvariant, PTL DEF Spec, ExistingDataUntouched, Keeps

===============================================================================
