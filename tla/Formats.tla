------------------------------ MODULE Formats ------------------------------
(***************************************************************************)
(* One value of a format through the bytes and back: a writer encodes it,  *)
(* the bytes may lose their tail on the way, a reader decodes them.  What  *)
(* the formats are is a parameter; MCData gives the library's.          *)
(***************************************************************************)
EXTENDS Integers, Sequences

CONSTANTS Jobs,           \* what is encoded, a set for each format: records that hold
                          \* the values and say how
          Encoded(_),     \* the bytes of a job
          Decoded(_, _)   \* what a reader that expects the job makes of bytes

VARIABLES job, step, data, cut, result

formatVars == <<job, step, data, cut, result>>

Encode == /\ step = "values" /\ step' = "bytes"
          /\ data' = Encoded(job)
          /\ UNCHANGED <<job, cut, result>>

\* Bytes cut short: a damaged file, or sizes in its headers that do not agree.
Lose == /\ step = "bytes" /\ ~cut
        /\ \E n \in 0..Len(data) - 1 : data' = SubSeq(data, 1, n)
        /\ cut' = TRUE
        /\ UNCHANGED <<job, step, result>>

Decode == /\ step = "bytes" /\ step' = "read"
          /\ result' = Decoded(job, data)
          /\ UNCHANGED <<job, data, cut>>

FormatInit == (\E f \in DOMAIN Jobs : job \in Jobs[f]) /\ step = "values" /\ data = <<>> /\ cut = FALSE /\ result = <<>>
FormatIdle == job = <<>> /\ step = "idle" /\ data = <<>> /\ cut = FALSE /\ result = <<>>
FormatNext == Encode \/ Lose \/ Decode

\* Whatever a page holds, decoding its bytes gives back the values that were
\* encoded, also where runs, groups, blocks, mini-blocks and tiles begin and end
\* inside it.  And a decoder that was promised n values and finds the bytes cut
\* short says so, or lost nothing: no page that lost its tail is decoded to other
\* values.
RoundTrip ==
    step = "read" =>
        /\ ~cut => result.ok
        /\ result.ok => result.values = job.values
=============================================================================
