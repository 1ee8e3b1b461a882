----------------------------- MODULE WriterClient -----------------------------
(***************************************************************************)
(* carquet's file writer under a client that keeps its contract and        *)
(* nothing more: it writes batches of any length to any column in any      *)
(* order, ends a row group or closes only when all columns have the same   *)
(* number of rows ("All columns must be written the same number of rows    *)
(* before closing or starting a new row group"), aborts when a call has    *)
(* failed or when it likes, and opens the file again to append to it.      *)
(***************************************************************************)
EXTENDS FileWriter

CONSTANTS
  MaxBatch,   \* bound on the length of a batch
  MaxOpens    \* bound on the writers opened

ASSUME ClientAssumption == MaxBatch \in Nat /\ MaxOpens \in Nat

VARIABLE opens

cvars == <<vars, opens>>

Even == \A c \in Columns : sent[c] = sent[1]

Idle == wstate \in {"none", "closed", "close_failed", "aborted"}

Open ==
  /\ Idle /\ opens < MaxOpens
  /\ Create("path") \/ OpenAppend
  /\ opens' = opens + 1

DeclareOrder ==
  /\ wstate = "open" /\ ~sorting
  /\ \A c \in Columns : cols[c] = <<>>
  /\ SetSorting
  /\ UNCHANGED opens

Write ==
  /\ wstate = "open"
  /\ \E c \in Columns, n \in 0..MaxBatch :
       /\ sent[c] + n <= MaxRows
       /\ LET vals == [i \in 1..n |-> sent[c] + i]
          IN WriteBatch(c, vals) \/ Fail(BatchCells(c, vals))
  /\ UNCHANGED opens

EndGroup ==
  /\ wstate = "open" /\ Even
  /\ NewRowGroup \/ Fail(LastCells)
  /\ UNCHANGED opens

Finish ==
  /\ wstate = "open" /\ Even
  /\ (\E ok \in BOOLEAN : Close(ok)) \/ CloseFails
  /\ UNCHANGED opens

GiveUp ==
  /\ wstate \in {"open", "failed"}
  /\ \E ok \in BOOLEAN : Abort(ok)
  /\ UNCHANGED opens

Init ==
  /\ disk = NoFile
  /\ base = 0 /\ out = <<>>
  /\ mode = "path" /\ wstate = "none"
  /\ header_written = FALSE /\ file_offset = 0
  /\ groups = <<>> /\ cols = NoRows /\ rows = 0 /\ est = 0
  /\ sorting = FALSE
  /\ old = NoFooter /\ sent = [c \in Columns |-> 0] /\ synced = FALSE
  /\ opens = 0

Next == Open \/ DeclareOrder \/ Write \/ EndGroup \/ Finish \/ GiveUp

Spec == Init /\ [][Next]_cvars

-------------------------------------------------------------------------------
(* Properties.                                                             *)

\* While a writer is open nothing is lost or misplaced: the row groups it
\* has recorded, the ones it restored from the footer it is overwriting
\* included, are found at the offsets it recorded for them, with their
\* bloom filters and page indexes, and together with the open row group
\* they hold every row written, once and in order.  The byte-target flush
\* inside carquet_writer_write_batch ends a row group only where all the
\* columns stand at the same row.
NothingMisplaced ==
  wstate = "open" =>
    LET image == Overlay(disk, base, out)
    IN /\ \A c \in Columns :
            ColumnOf(image, groups, c) \o cols[c] = [r \in 1..sent[c] |-> r]
       /\ \A i \in DOMAIN groups :
            /\ \A c \in Columns : Len(ReadChunk(image, groups[i], c)) = groups[i].rows
            /\ AuxIntact(image, groups[i])

\* What was written reaches at least as far as the file did when it was
\* opened, so that the tail a reader looks at is the new one.
Covered == base + Len(out) = Len(disk)

\* carquet_writer_close: once it has returned CARQUET_OK and the stream was
\* closed without an error, a reader finds all the rows, those of the
\* existing row groups before an append first.
ClosedFileIsWhole ==
  wstate = "closed" /\ synced /\ Covered =>
    LET footer == ReadFooter(disk)
    IN footer # NoFooter /\ Holds(disk, footer, sent[1])

\* carquet_writer_abort removes a file that the writer created, and leaves
\* one it appends to as it was when none of its row groups has been written
\* over the old footer yet.
AbortIsClean ==
  wstate = "aborted" =>
    IF mode = "path" THEN disk = NoFile
    ELSE out = <<>> => ReadFooter(disk) = old

\* No step of an append, whether it succeeds, fails or is given up, touches
\* what lies in front of the old footer: the existing pages stay readable
\* through the old metadata, with their bloom filters and page indexes
\* (carquet.h, carquet_writer_open_append).
ExistingDataUntouched ==
  [][mode' = "append" =>
       \A i \in DOMAIN old' :
         /\ AuxIntact(disk', old'[i])
         /\ \A c \in Columns :
              ReadChunk(disk', old'[i], c) = ReadChunk(disk, old'[i], c)]_cvars

\* carquet.h on carquet_writer_open_append: "on `carquet_writer_close()` the
\* writer emits a fresh footer that lists the existing row groups followed
\* by the new ones".
AppendListsAll ==
  wstate = "closed" /\ synced => ReadFooter(disk) # NoFooter

===============================================================================
