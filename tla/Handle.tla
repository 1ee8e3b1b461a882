------------------------------- MODULE Handle -------------------------------
(***************************************************************************)
(* The life of an R file handle: open_parquet(), close_parquet(),          *)
(* read_parquet() and the reads that hold a handle (parquet-file.R,        *)
(* parquet.R, qio_file.c), with the reader, the stream or the mapping      *)
(* behind it (file_reader.c, mmap_reader.c) and the copy of a remote file  *)
(* it owns.  R runs one call at a time: a call may run inside another only *)
(* from a walk's callback, and the collector may run at any allocation.    *)
(***************************************************************************)
EXTENDS Naturals, Sequences

CONSTANTS
    Handles,      \* the handles a session opens, one per call
    MaxDepth      \* bound: calls on R's stack

VARIABLES
    handles,      \* external pointers: "none", "open", "closed" or "finalized"
    resources,    \* what the process holds: <<handle, kind>>
    disk,         \* the files on disk: the user's own, copies named by handle
    calls         \* R's stack, the running call last

handleVars == <<handles, resources, disk, calls>>

OwnFile == "own file"
NoCopy == "no copy"

ASSUME HandleAssumption == {OwnFile, NoCopy} \cap Handles = {}

NoHandle == [state |-> "none", busy |-> FALSE, path |-> NoCopy, temporary |-> NoCopy, reachable |-> FALSE]
MappingKinds == {"descriptor", "mapping"}
ReaderKinds == {"reader", "own_stream"} \cup MappingKinds

Top == calls[Len(calls)]
Pop == SubSeq(calls, 1, Len(calls) - 1)
Running(name) == calls # <<>> /\ Top.call = name
OnStack(h) == \E i \in DOMAIN calls : calls[i].handle = h

\* User code runs at top level and in the callback of a walk.
UserCode == calls # <<>> => Top.call = "walk"

(* -------------------------------- opening -------------------------------- *)

\* An error leaves read_parquet() too: its on.exit() is not yet registered.
Unwound(stack) ==
    IF stack # <<>> /\ stack[Len(stack)].call = "read_parquet" THEN SubSeq(stack, 1, Len(stack) - 1)
    ELSE stack

\* qio_file_path(): a URL is fetched into a copy, which a failed download
\* removes again; a local path is used as it is.
Resolve(h, remote, mmap, caller) ==
    /\ UserCode /\ handles[h].state = "none" /\ ~OnStack(h)
    /\ Len(calls) + Len(caller) < MaxDepth
    /\ disk' = IF remote THEN disk \cup {h} ELSE disk
    /\ calls' = calls \o caller \o <<[call |-> "open", handle |-> h, mmap |-> mmap, step |-> "resolved",
                                      path |-> IF remote THEN h ELSE OwnFile,
                                      temporary |-> IF remote THEN h ELSE NoCopy]>>
    /\ UNCHANGED <<handles, resources>>

open_parquet(h) == \E remote, mmap \in BOOLEAN : Resolve(h, remote, mmap, <<>>)

\* read_parquet() opens the file itself, mapped, and closes it when it ends.
OpenToRead(h) ==
    \E remote \in BOOLEAN : Resolve(h, remote, TRUE, <<[call |-> "read_parquet", handle |-> h, read |-> FALSE]>>)

OpenedAs(step, kinds) ==
    /\ resources' = resources \cup {<<Top.handle, kind>> : kind \in kinds}
    /\ calls' = Append(Pop, [Top EXCEPT !.step = step])
    /\ UNCHANGED <<handles, disk>>

\* open_parquet()'s on.exit(): no handle owns the copy, so it is removed.
OpenFails(kinds) ==
    /\ resources' = resources \ {<<Top.handle, kind>> : kind \in kinds}
    /\ disk' = disk \ {Top.temporary}
    /\ calls' = Unwound(Pop)
    /\ UNCHANGED handles

\* A buffered read goes through a stream qio opens.
OpenStream ==
    /\ Running("open") /\ Top.step = "resolved" /\ ~Top.mmap
    /\ OpenedAs("stream", {"stream"}) \/ OpenFails({})

carquet_reader_open_file_Leaky ==
    /\ Running("open") /\ Top.step = "stream"
    /\ OpenedAs("reader", {"reader"}) \/ OpenFails({})

carquet_reader_open_file ==
    /\ Running("open") /\ Top.step = "stream"
    /\ OpenedAs("reader", {"reader"}) \/ OpenFails({"stream"})

\* The descriptor and the pages of a mapped file are held together: where one
\* of them cannot be had, the other is given back.
carquet_mmap_open ==
    /\ Running("open") /\ Top.step = "resolved" /\ Top.mmap
    /\ \/ OpenedAs("mapped", {"reader"} \cup MappingKinds)
       \/ OpenedAs("unmapped", {"reader"})
       \/ OpenFails({})

\* A file that cannot be mapped is read through a stream of the reader's own.
\* Either way a footer that cannot be read gives everything back.
carquet_reader_open ==
    /\ Running("open") /\ Top.step \in {"mapped", "unmapped"}
    /\ \/ OpenedAs("reader", IF Top.step = "mapped" THEN {} ELSE {"own_stream"})
       \/ OpenFails({"reader"} \cup MappingKinds)

qio_parquet_open ==
    /\ Running("open") /\ Top.step = "reader"
    /\ \/ OpenFails(ReaderKinds \cup {"stream"})
       \/ /\ handles' = [handles EXCEPT ![Top.handle] = [state |-> "open", busy |-> FALSE,
                                          path |-> Top.path, temporary |-> Top.temporary, reachable |-> TRUE]]
          /\ calls' = Pop
          /\ UNCHANGED <<resources, disk>>

(* --------------------------- closing, collecting ------------------------- *)

carquet_mmap_close(h, held) == held \ {<<h, kind>> : kind \in MappingKinds}

carquet_reader_close(h, held) == carquet_mmap_close(h, held) \ {<<h, "own_stream">>, <<h, "reader">>}

\* qio_finalize_file: the reader, then the stream it reads through.
Finalized(h) == carquet_reader_close(h, resources) \ {<<h, "stream">>}

Close_Unguarded(h, reachable) ==
    /\ handles' = [handles EXCEPT ![h].reachable = reachable, ![h].state = IF @ = "open" THEN "closed" ELSE @]
    /\ resources' = Finalized(h)
    /\ disk' = disk \ {handles[h].temporary}

\* close_parquet(): refused during a read; otherwise the copy goes as well.
Close(h, reachable) ==
    LET refused == handles[h].state = "open" /\ handles[h].busy
    IN  /\ handles' = [handles EXCEPT ![h].reachable = reachable,
                                      ![h].state = IF @ = "open" /\ ~refused THEN "closed" ELSE @]
        /\ resources' = IF refused THEN resources ELSE Finalized(h)
        /\ disk' = IF refused THEN disk ELSE disk \ {handles[h].temporary}

close_parquet(h) ==
    /\ UserCode /\ handles[h].reachable
    /\ Close(h, TRUE)
    /\ UNCHANGED calls

\* The user drops the last reference to a handle.
Drop(h) ==
    /\ UserCode /\ handles[h].reachable /\ ~OnStack(h)
    /\ handles' = [handles EXCEPT ![h].reachable = FALSE]
    /\ UNCHANGED <<resources, disk, calls>>

\* The collector runs the finalizer of a handle nothing refers to.
qio_finalize_file(h) ==
    /\ handles[h].state = "open" /\ ~handles[h].reachable /\ ~OnStack(h)
    /\ handles' = [handles EXCEPT ![h].state = "finalized", ![h].busy = FALSE]
    /\ resources' = Finalized(h)
    /\ UNCHANGED <<disk, calls>>

(* --------------------------------- reading ------------------------------- *)

\* One read at a time.  The flag is set before the continuation is made, and a
\* failure in between leaves it set.
StartRead(h, kind, stack) ==
    /\ handles[h].state = "open" /\ ~handles[h].busy /\ Len(calls) < MaxDepth
    /\ handles' = [handles EXCEPT ![h].busy = TRUE]
    /\ calls' = Append(stack, [call |-> kind, handle |-> h]) \/ calls' = stack
    /\ UNCHANGED <<resources, disk>>

\* Called by the user, or once by read_parquet().
qio_parquet_collect(h) ==
    \/ UserCode /\ handles[h].reachable /\ StartRead(h, "collect", calls)
    \/ /\ Running("read_parquet") /\ Top.handle = h /\ ~Top.read
       /\ StartRead(h, "collect", Append(Pop, [Top EXCEPT !.read = TRUE]))

qio_parquet_walk(h) == UserCode /\ handles[h].reachable /\ StartRead(h, "walk", calls)

\* The body returns or jumps: both pass through the cleanup.
qio_batch_cleanup ==
    /\ Running("collect") \/ Running("walk")
    /\ handles' = [handles EXCEPT ![Top.handle].busy = FALSE]
    /\ calls' = Pop
    /\ UNCHANGED <<resources, disk>>

\* read_parquet() returns or fails: its on.exit() closes the handle, and with
\* the call's frame the last reference to it is gone.
ReadParquetReturns ==
    /\ Running("read_parquet")
    /\ Close(Top.handle, FALSE)
    /\ calls' = Pop

(* ------------------------------ specification ---------------------------- *)

HandleIdle ==
    /\ handles = <<>> /\ resources = {} /\ disk = {OwnFile} /\ calls = <<>>

HandleInit ==
    /\ handles = [h \in Handles |-> NoHandle]
    /\ resources = {} /\ disk = {OwnFile} /\ calls = <<>>

HandleNext ==
    \/ OpenStream \/ carquet_reader_open_file \/ carquet_mmap_open \/ carquet_reader_open \/ qio_parquet_open
    \/ qio_batch_cleanup \/ ReadParquetReturns
    \/ \E h \in DOMAIN handles :
         \/ open_parquet(h) \/ OpenToRead(h) \/ close_parquet(h) \/ Drop(h)
         \/ qio_finalize_file(h) \/ qio_parquet_collect(h) \/ qio_parquet_walk(h)

HandleSpec == HandleInit /\ [][HandleNext]_handleVars

(* ------------------------------- properties ------------------------------ *)

\* A read never outlives what it reads from: while a collect or a walk is on
\* the stack its handle is open, its reader and stream are held, and a handle
\* that is open can still reach its downloaded copy, whatever the callback of
\* a walk opens, closes, reads or drops.
ReadKeepsItsFile ==
    \A h \in DOMAIN handles :
        /\ (\E i \in DOMAIN calls : calls[i].handle = h /\ calls[i].call \in {"collect", "walk"})
             => handles[h].state = "open" /\ handles[h].busy
        /\ handles[h].state = "open" => <<h, "reader">> \in resources /\ handles[h].path \in disk

\* Nothing is left behind and nothing else is removed: a reader, stream or
\* mapping is held only by an open handle or by the call opening it; a copy is
\* on disk only for these, or for a handle dropped without being closed; and
\* the user's own file is never touched.
NothingLeftBehind ==
    /\ \A r \in resources : handles[r[1]].state = "open" \/ OnStack(r[1])
    /\ \A h \in disk \ {OwnFile} : handles[h].state \in {"open", "finalized"} \/ OnStack(h)
    /\ OwnFile \in disk
=============================================================================
