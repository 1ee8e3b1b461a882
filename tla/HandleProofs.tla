----------------------------- MODULE HandleProofs -----------------------------
(***************************************************************************)
(* Theorems about Handle, for any number of handles and calls nested to    *)
(* any depth.  What a handle holds depends on the calls on R's stack: the  *)
(* invariant says which calls can be on it together, what the one opening  *)
(* a file has got so far, and that a read has its handle to itself.        *)
(***************************************************************************)
EXTENDS Handle, TLAPS

AllKinds == ReaderKinds \union {"stream"}
Steps == {"resolved", "stream", "mapped", "unmapped", "reader"}
OpenCalls == [call : {"open"}, handle : Handles, mmap : BOOLEAN, step : Steps,
              path : Handles \union {OwnFile}, temporary : Handles \union {NoCopy}]
ReadCalls == [call : {"read_parquet"}, handle : Handles, read : BOOLEAN]
BodyCalls == [call : {"collect", "walk"}, handle : Handles]
Calls == OpenCalls \union ReadCalls \union BodyCalls
Pointers == [state : {"none", "open", "closed", "finalized"}, busy : BOOLEAN,
             path : Handles \union {OwnFile, NoCopy},
             temporary : Handles \union {NoCopy}, reachable : BOOLEAN]

HandleTypes ==
  /\ handles \in [Handles -> Pointers]
  /\ resources \subseteq Handles \X AllKinds
  /\ disk \subseteq Handles \union {OwnFile}
  /\ calls \in Seq(Calls)

\* Only the running call opens or collects.  Under it are walks, and at most
\* one read_parquet(), directly below the call it has made.
StackInv ==
  \A i \in 1..Len(calls) :
    /\ i < Len(calls) => calls[i].call \in {"walk", "read_parquet"}
    /\ calls[i].call = "read_parquet" =>
         IF i = Len(calls) THEN handles[calls[i].handle].state # "none"
         ELSE /\ i + 1 = Len(calls) /\ calls[i + 1].call # "walk" /\ calls[i + 1].call # "read_parquet"
              /\ calls[i + 1].handle = calls[i].handle

IsBody(i) == calls[i].call \in {"collect", "walk"}

\* A read has its handle to itself.
BodyInv ==
  /\ \A i \in 1..Len(calls) : IsBody(i) =>
       handles[calls[i].handle].state = "open" /\ handles[calls[i].handle].busy
  /\ \A i, j \in 1..Len(calls) :
       i # j /\ IsBody(i) /\ IsBody(j) => calls[i].handle # calls[j].handle

HeldAt(step) ==
  IF step = "resolved" THEN {}
  ELSE IF step = "stream" THEN {"stream"}
  ELSE IF step = "reader" THEN AllKinds ELSE {"reader"} \union MappingKinds

\* What a handle being opened has got so far.
OpenInv ==
  \A i \in 1..Len(calls) : calls[i].call = "open" =>
    /\ handles[calls[i].handle].state = "none"
    /\ calls[i].path \in {OwnFile, calls[i].handle} \intersect disk
    /\ calls[i].temporary \in {calls[i].handle, NoCopy}
    /\ calls[i].handle \in disk => calls[i].temporary = calls[i].handle
    /\ \A k \in AllKinds : <<calls[i].handle, k>> \in resources => k \in HeldAt(calls[i].step)
    /\ calls[i].step \in {"mapped", "unmapped", "reader"} =>
         <<calls[i].handle, "reader">> \in resources

\* A handle knows its own copy, and an open one has what it reads from.
OwnInv ==
  \A h \in Handles :
    /\ handles[h].temporary \in {h, NoCopy}
    /\ handles[h].state # "none" /\ h \in disk => handles[h].temporary = h
    /\ handles[h].state = "open" =>
         /\ <<h, "reader">> \in resources
         /\ handles[h].path \in {OwnFile, h} \intersect disk

HandleInv ==
  HandleTypes /\ StackInv /\ BodyInv /\ OpenInv /\ OwnInv /\ NothingLeftBehind

-------------------------------------------------------------------------------
(* Sequences.                                                              *)

\* A sequence with one more element.
LEMMA AppendFacts ==
  ASSUME NEW S, NEW s \in Seq(S), NEW e \in S
  PROVE  /\ Append(s, e) \in Seq(S) /\ Len(Append(s, e)) = Len(s) + 1
         /\ \A i \in 1..Len(s) : Append(s, e)[i] = s[i]
         /\ Append(s, e)[Len(s) + 1] = e
  OBVIOUS

\* Two sequences, one after the other.
LEMMA ConcatFacts ==
  ASSUME NEW S, NEW s \in Seq(S), NEW t \in Seq(S)
  PROVE  /\ s \o t \in Seq(S) /\ Len(s \o t) = Len(s) + Len(t)
         /\ \A i \in 1..Len(s) + Len(t) :
              (s \o t)[i] = IF i <= Len(s) THEN s[i] ELSE t[i - Len(s)]
  OBVIOUS

-------------------------------------------------------------------------------
(* The invariant is kept.                                                  *)

\* A session in which no file was opened yet.
LEMMA InitHandle == HandleInit => HandleInv
<1> SUFFICES ASSUME HandleInit PROVE HandleInv
  OBVIOUS
<1>1. calls = <<>> /\ Len(calls) = 0 /\ resources = {} /\ disk = {OwnFile}
      /\ handles = [h \in Handles |-> NoHandle]
      /\ \A h \in Handles : handles[h] = NoHandle
  BY DEF HandleInit
<1>2. NoHandle \in Pointers /\ NoHandle.state = "none" /\ NoHandle.temporary = NoCopy
  BY DEF NoHandle, Pointers
<1>3. HandleTypes
  <2>1. handles \in [Handles -> Pointers]
    BY <1>1, <1>2
  <2>2. resources \subseteq Handles \X AllKinds /\ disk \subseteq Handles \union {OwnFile}
    BY <1>1
  <2>3. calls \in Seq(Calls)
    BY <1>1
  <2> QED BY <2>1, <2>2, <2>3 DEF HandleTypes
<1>4. StackInv /\ BodyInv /\ OpenInv
  BY <1>1 DEF StackInv, BodyInv, OpenInv
<1>5. OwnInv /\ NothingLeftBehind
  BY <1>1, <1>2, HandleAssumption DEF OwnInv, NothingLeftBehind
<1> QED BY <1>3, <1>4, <1>5 DEF HandleInv

\* A stack without its last call.
LEMMA FrontFacts ==
  ASSUME NEW s \in Seq(Calls), s # <<>>
  PROVE  /\ Len(s) \in Nat \ {0} /\ DOMAIN s = 1..Len(s) /\ s[Len(s)] \in Calls
         /\ SubSeq(s, 1, Len(s) - 1) \in Seq(Calls)
         /\ Len(SubSeq(s, 1, Len(s) - 1)) = Len(s) - 1
         /\ \A i \in 1..Len(s) - 1 : SubSeq(s, 1, Len(s) - 1)[i] = s[i]
<1> DEFINE n == Len(s)  f == SubSeq(s, 1, n - 1)
<1>1. n \in Nat \ {0} /\ DOMAIN s = 1..n /\ \A i \in 1..n : s[i] \in Calls
  OBVIOUS
<1>2. \A i \in 1..n - 1 : s[i] \in Calls
  BY <1>1
<1>3. /\ f \in Seq(Calls)
      /\ Len(f) = IF 1 <= n - 1 THEN n - 1 - 1 + 1 ELSE 0
      /\ \A i \in 1..n - 1 - 1 + 1 : f[i] = s[1 + i - 1]
  BY <1>1, <1>2
<1> HIDE DEF n, f
<1>4. Len(f) = n - 1
  BY <1>1, <1>3
<1>5. ASSUME NEW i \in 1..n - 1 PROVE f[i] = s[i]
  <2>1. i \in 1..n - 1 - 1 + 1 /\ 1 + i - 1 = i
    BY <1>1
  <2> QED BY <2>1, <1>3
<1>6. s[n] \in Calls
  BY <1>1
<1> QED BY <1>1, <1>3, <1>4, <1>5, <1>6 DEF n, f

\* The stack below the running call.
LEMMA PopFacts ==
  ASSUME calls \in Seq(Calls), calls # <<>>
  PROVE  /\ Len(calls) \in Nat \ {0} /\ DOMAIN calls = 1..Len(calls)
         /\ Top = calls[Len(calls)] /\ Top \in Calls
         /\ Pop \in Seq(Calls) /\ Len(Pop) = Len(calls) - 1
         /\ \A i \in 1..Len(Pop) : Pop[i] = calls[i]
BY FrontFacts DEF Top, Pop

\* The running call goes on as call c.
LEMMA ReplaceTop ==
  ASSUME calls \in Seq(Calls), calls # <<>>, NEW c \in Calls, calls' = Append(Pop, c)
  PROVE  /\ calls' \in Seq(Calls) /\ Len(calls') = Len(calls)
         /\ DOMAIN calls' = 1..Len(calls)
         /\ \A i \in 1..Len(calls) : calls'[i] = IF i = Len(calls) THEN c ELSE calls[i]
<1> DEFINE n == Len(calls)
<1>1. /\ n \in Nat \ {0} /\ Pop \in Seq(Calls) /\ Len(Pop) = n - 1
      /\ \A i \in 1..n - 1 : Pop[i] = calls[i]
  BY PopFacts
<1>2. /\ Append(Pop, c) \in Seq(Calls) /\ Len(Append(Pop, c)) = n - 1 + 1
      /\ \A i \in 1..n - 1 : Append(Pop, c)[i] = Pop[i]
      /\ Append(Pop, c)[n - 1 + 1] = c
  BY <1>1, AppendFacts
<1> HIDE DEF n
<1>3. Len(calls') = n /\ n - 1 + 1 = n
  BY <1>1, <1>2
<1>4. \A i \in 1..n : calls'[i] = IF i = n THEN c ELSE calls[i]
  BY <1>1, <1>2, <1>3
<1>5. calls' \in Seq(Calls) /\ DOMAIN calls' = 1..n
  BY <1>2, <1>3
<1> QED BY <1>3, <1>4, <1>5 DEF n

\* Opening moves a step forward: it has got more resources for its handle.
LEMMA OpenedAsKeeps ==
  ASSUME HandleInv, calls # <<>>, Top.call = "open",
         NEW step \in Steps, NEW kinds \in SUBSET AllKinds, OpenedAs(step, kinds),
         HeldAt(Top.step) \union kinds \subseteq HeldAt(step),
         step \in {"mapped", "unmapped", "reader"} =>
           "reader" \in kinds \/ <<Top.handle, "reader">> \in resources
  PROVE  HandleInv'
<1> USE DEF HandleInv
<1> DEFINE n == Len(calls)  h == Top.handle  c == [Top EXCEPT !.step = step]
<1>1. /\ n \in Nat \ {0} /\ DOMAIN calls = 1..n /\ Top = calls[n] /\ Top \in Calls
      /\ calls \in Seq(Calls)
  BY PopFacts DEF HandleTypes
<1>2. Top \in OpenCalls /\ h \in Handles
  BY <1>1 DEF Calls, OpenCalls, ReadCalls, BodyCalls
<1>3. /\ c \in Calls /\ c.call = "open" /\ c.handle = h /\ c.path = Top.path
      /\ c.temporary = Top.temporary /\ c.step = step
  BY <1>2 DEF OpenCalls, Calls
<1>4. /\ calls' \in Seq(Calls) /\ Len(calls') = n /\ DOMAIN calls' = 1..n
      /\ \A i \in 1..n : calls'[i] = IF i = n THEN c ELSE calls[i]
  <2>1. calls' = Append(Pop, c)
    BY DEF OpenedAs
  <2> HIDE DEF c
  <2> QED BY <1>1, <1>3, <2>1, ReplaceTop
<1>5. /\ handles' = handles /\ disk' = disk
      /\ resources' = resources \union {<<h, kind>> : kind \in kinds}
  BY DEF OpenedAs
<1>6. ASSUME NEW i \in 1..n
      PROVE  /\ calls'[i].call = calls[i].call /\ calls'[i].handle = calls[i].handle
             /\ calls[i].call = "open" => i = n
  <2>1. CASE i = n
    BY <2>1, <1>1, <1>3, <1>4
  <2>2. CASE i # n
    BY <2>2, <1>1, <1>4 DEF StackInv
  <2> QED BY <2>1, <2>2
<1> HIDE DEF c
<1>7. HandleTypes'
  <2>1. handles' \in [Handles -> Pointers] /\ disk' \subseteq Handles \union {OwnFile}
    BY <1>5 DEF HandleTypes
  <2>2. resources' \subseteq Handles \X AllKinds
    BY <1>2, <1>5 DEF HandleTypes
  <2> QED BY <2>1, <2>2, <1>4 DEF HandleTypes
<1>8. StackInv'
  <2> SUFFICES ASSUME NEW i \in 1..n
               PROVE  /\ i < n => calls'[i].call \in {"walk", "read_parquet"}
                      /\ calls'[i].call = "read_parquet" =>
                           IF i = n THEN handles'[calls'[i].handle].state # "none"
                           ELSE /\ i + 1 = n /\ calls'[i + 1].call # "walk"
                                /\ calls'[i + 1].call # "read_parquet"
                                /\ calls'[i + 1].handle = calls'[i].handle
    BY <1>4 DEF StackInv
  <2>1. CASE i = n
    BY <2>1, <1>1, <1>5, <1>6 DEF StackInv
  <2>2. CASE i # n
    <3>1. i < n
      <4>1. n \in Nat
        BY <1>1
      <4> HIDE DEF n
      <4> QED BY <2>2, <4>1
    <3>2. /\ calls[i].call \in {"walk", "read_parquet"}
          /\ calls[i].call = "read_parquet" =>
               /\ i + 1 = n /\ calls[n].call # "walk" /\ calls[n].call # "read_parquet"
               /\ calls[n].handle = calls[i].handle
      BY <2>2, <3>1 DEF StackInv
    <3>3. calls'[n].call = calls[n].call /\ calls'[n].handle = calls[n].handle
      <4>1. n \in 1..n
        BY <1>1
      <4> QED BY <4>1, <1>6
    <3> QED BY <2>2, <3>2, <3>3, <1>6
  <2> QED BY <2>1, <2>2
<1>9. BodyInv'
  <2>1. \A i \in 1..n : IsBody(i)' <=> IsBody(i)
    BY <1>6 DEF IsBody
  <2>2. ASSUME NEW i \in 1..n, IsBody(i)'
        PROVE  handles'[calls'[i].handle].state = "open" /\ handles'[calls'[i].handle].busy
    BY <2>1, <2>2, <1>5, <1>6 DEF BodyInv
  <2>3. ASSUME NEW i \in 1..n, NEW j \in 1..n, i # j, IsBody(i)', IsBody(j)'
        PROVE  calls'[i].handle # calls'[j].handle
    BY <2>1, <2>3, <1>6 DEF BodyInv
  <2> QED BY <2>2, <2>3, <1>4 DEF BodyInv
<1>10. OpenInv'
  <2> SUFFICES ASSUME NEW i \in 1..n, calls[i].call = "open"
               PROVE  /\ handles'[calls'[i].handle].state = "none"
                      /\ calls'[i].path \in {OwnFile, calls'[i].handle} \intersect disk'
                      /\ calls'[i].temporary \in {calls'[i].handle, NoCopy}
                      /\ calls'[i].handle \in disk' => calls'[i].temporary = calls'[i].handle
                      /\ \A k \in AllKinds : <<calls'[i].handle, k>> \in resources' =>
                                                k \in HeldAt(calls'[i].step)
                      /\ calls'[i].step \in {"mapped", "unmapped", "reader"} =>
                           <<calls'[i].handle, "reader">> \in resources'
    BY <1>4, <1>6 DEF OpenInv
  <2>1. /\ i = n /\ calls'[i].handle = h /\ calls'[i].path = Top.path
        /\ calls'[i].temporary = Top.temporary /\ calls'[i].step = step /\ calls[n] = Top
    BY <1>1, <1>3, <1>4, <1>6
  <2>2. \A k \in AllKinds : <<h, k>> \in resources' => k \in HeldAt(step)
    BY <1>1, <1>5 DEF OpenInv
  <2> QED BY <2>1, <2>2, <1>1, <1>5 DEF OpenInv
<1>11. OwnInv'
  BY <1>5 DEF OwnInv
<1>12. NothingLeftBehind'
  <2>1. \A g : OnStack(g)' <=> OnStack(g)
    BY <1>4, <1>6, <1>1 DEF OnStack
  <2>2. OnStack(h)
    BY <1>1 DEF OnStack
  <2>3. \A r \in resources' : r \in resources \/ r[1] = h
    BY <1>5
  <2> QED BY <2>1, <2>2, <2>3, <1>5 DEF NothingLeftBehind
<1> QED BY <1>7, <1>8, <1>9, <1>10, <1>11, <1>12

\* User code runs only under walks.
LEMMA UserStack ==
  ASSUME HandleInv, UserCode
  PROVE  \A i \in 1..Len(calls) : calls[i].call = "walk"
<1> SUFFICES ASSUME NEW i \in 1..Len(calls) PROVE calls[i].call = "walk"
  OBVIOUS
<1>1. Len(calls) \in Nat /\ calls # <<>>
  BY DEF HandleInv, HandleTypes
<1>2. calls[Len(calls)].call = "walk" /\ Len(calls) \in 1..Len(calls)
  BY <1>1 DEF UserCode, Top
<1> DEFINE n == Len(calls)
<1>3. CASE i # n
  <2>1. i < n
    <3> HIDE DEF n
    <3> QED BY <1>1, <1>3 DEF n
  <2> QED BY <1>2, <1>3, <2>1 DEF HandleInv, StackInv
<1> QED BY <1>2, <1>3

\* Calls are taken from the stack; m of them stay.
LEMMA PrefixStack ==
  ASSUME HandleInv, NEW m \in Nat, m < Len(calls), Len(calls') = m,
         \A i \in 1..m : calls'[i] = calls[i],
         \A i \in 1..m : IsBody(i) =>
           handles'[calls[i].handle].state = "open" /\ handles'[calls[i].handle].busy,
         m > 0 /\ calls[m].call = "read_parquet" => handles'[calls[m].handle].state # "none"
  PROVE  StackInv' /\ BodyInv' /\ OpenInv'
<1> DEFINE n == Len(calls)
<1>1. n \in Nat /\ \A i \in 1..m : i \in 1..n /\ i < n
  BY DEF HandleInv, HandleTypes
<1>2. \A i \in 1..m : /\ calls[i].call \in {"walk", "read_parquet"}
                      /\ calls[i].call = "read_parquet" => i + 1 = n
  BY <1>1 DEF HandleInv, StackInv
<1>3. StackInv'
  <2> SUFFICES ASSUME NEW i \in 1..m
               PROVE  /\ calls[i].call \in {"walk", "read_parquet"}
                      /\ calls[i].call = "read_parquet" =>
                           i = m /\ handles'[calls[i].handle].state # "none"
    BY DEF StackInv
  <2>1. calls[i].call = "read_parquet" => i = m
    <3>1. i + 1 = n /\ i <= m /\ m < n => i = m
      <4> HIDE DEF n
      <4> QED BY <1>1 DEF n
    <3> QED BY <1>2, <3>1
  <2> QED BY <1>2, <2>1
<1>4. BodyInv'
  <2>1. \A i \in 1..m : IsBody(i)' <=> IsBody(i)
    BY DEF IsBody
  <2>2. \A i, j \in 1..m : i # j /\ IsBody(i) /\ IsBody(j) => calls[i].handle # calls[j].handle
    BY <1>1 DEF HandleInv, BodyInv
  <2> QED BY <2>1, <2>2 DEF BodyInv
<1>5. OpenInv'
  BY <1>2 DEF OpenInv
<1> QED BY <1>3, <1>4, <1>5

\* A finalized handle has given everything back, and no other handle has.
LEMMA FinalizedFacts ==
  ASSUME HandleInv, NEW h \in Handles
  PROVE  /\ Finalized(h) \subseteq resources
         /\ \A r \in Finalized(h) : r[1] # h
         /\ \A g \in Handles, k \in AllKinds :
              g # h /\ <<g, k>> \in resources => <<g, k>> \in Finalized(h)
<1>1. resources \subseteq Handles \X AllKinds
  BY DEF HandleInv, HandleTypes
<1>2. \A r \in resources : \E k \in AllKinds : r = <<r[1], k>>
  BY <1>1
<1>3. Finalized(h) = resources \ {<<h, k>> : k \in AllKinds}
  BY <1>1 DEF Finalized, carquet_reader_close, carquet_mmap_close, AllKinds, ReaderKinds, MappingKinds
<1> QED BY <1>1, <1>2, <1>3

\* A failed open_parquet() gives back what it has got and is gone from the
\* stack, with the read_parquet() that called it.
LEMMA OpenFailsKeeps ==
  ASSUME HandleInv, calls # <<>>, Top.call = "open",
         NEW kinds \in SUBSET AllKinds, OpenFails(kinds), HeldAt(Top.step) \subseteq kinds
  PROVE  HandleInv'
<1> USE DEF HandleInv
<1> DEFINE n == Len(calls)  h == Top.handle
<1>1. /\ n \in Nat \ {0} /\ DOMAIN calls = 1..n /\ Top = calls[n] /\ Top \in Calls
      /\ Pop \in Seq(Calls) /\ Len(Pop) = n - 1
      /\ \A i \in 1..Len(Pop) : Pop[i] = calls[i]
  BY PopFacts DEF HandleTypes
<1> HIDE DEF n
<1>a. n \in 1..n /\ n = Len(calls)
  BY <1>1 DEF n
<1>2. h \in Handles
  BY <1>1 DEF Calls, OpenCalls, ReadCalls, BodyCalls
<1>3. /\ handles[h].state = "none" /\ Top.temporary \in {h, NoCopy}
      /\ h \in disk => Top.temporary = h
      /\ \A k \in AllKinds : <<h, k>> \in resources => k \in kinds
  <2>1. calls[n].call = "open"
    BY <1>1
  <2> QED BY <2>1, <1>1, <1>a DEF OpenInv
<1>4. /\ handles' = handles /\ disk' = disk \ {Top.temporary} /\ calls' = Unwound(Pop)
      /\ resources' = resources \ {<<h, kind>> : kind \in kinds}
  BY DEF OpenFails
<1>5. PICK m \in Nat :
        /\ m < n /\ calls' \in Seq(Calls) /\ Len(calls') = m
        /\ \A i \in 1..m : calls'[i] = calls[i]
        /\ m > 0 => calls[m].call # "read_parquet"
        /\ \A i \in 1..n : i > m => calls[i].handle = h
  <2>1. CASE Pop # <<>> /\ Pop[Len(Pop)].call = "read_parquet"
    <3>1. /\ Len(Pop) \in Nat \ {0} /\ SubSeq(Pop, 1, Len(Pop) - 1) \in Seq(Calls)
          /\ Len(SubSeq(Pop, 1, Len(Pop) - 1)) = Len(Pop) - 1
          /\ \A i \in 1..Len(Pop) - 1 : SubSeq(Pop, 1, Len(Pop) - 1)[i] = Pop[i]
      BY <2>1, <1>1, FrontFacts
    <3>2. calls' = SubSeq(Pop, 1, Len(Pop) - 1)
      BY <2>1, <1>4 DEF Unwound
    <3>3. /\ n - 1 \in 1..n /\ n - 1 < n /\ n - 2 \in Nat /\ Len(Pop) - 1 = n - 2
          /\ \A i \in 1..n - 2 : i \in 1..Len(Pop) /\ i \in 1..Len(Pop) - 1
          /\ \A i \in 1..n : i > n - 2 => i = n - 1 \/ i = n
          /\ n - 2 > 0 => n - 2 \in 1..n /\ n - 2 < n /\ n - 2 + 1 # n
      BY <1>1, <3>1
    <3>4. calls[n - 1].call = "read_parquet" /\ calls[n - 1].handle = h
      <4>1. calls[n - 1].call = "read_parquet"
        BY <2>1, <3>1, <1>1
      <4>2. n - 1 + 1 = n /\ n - 1 # n
        BY <1>1
      <4> QED BY <4>1, <4>2, <3>3, <1>1, <1>a DEF StackInv
    <3>5. n - 2 > 0 => calls[n - 2].call # "read_parquet"
      BY <3>3, <1>a DEF StackInv
    <3>6. \A i \in 1..n - 2 : calls'[i] = calls[i]
      BY <3>1, <3>2, <3>3, <1>1
    <3> WITNESS n - 2 \in Nat
    <3> QED BY <3>1, <3>2, <3>3, <3>4, <3>5, <3>6, <1>1
  <2>2. CASE ~ (Pop # <<>> /\ Pop[Len(Pop)].call = "read_parquet")
    <3>1. calls' = Pop
      BY <2>2, <1>4 DEF Unwound
    <3>2. /\ n - 1 \in Nat /\ n - 1 < n /\ \A i \in 1..n : i > n - 1 => i = n
          /\ n - 1 > 0 => n - 1 \in 1..Len(Pop) /\ Pop # <<>>
      BY <1>1
    <3> WITNESS n - 1 \in Nat
    <3> QED BY <2>2, <3>1, <3>2, <1>1
  <2> QED BY <2>1, <2>2
<1>6. StackInv' /\ BodyInv' /\ OpenInv'
  <2>1. \A i \in 1..m : i \in 1..n
    BY <1>1, <1>5
  <2>2. \A i \in 1..m : IsBody(i) =>
          handles'[calls[i].handle].state = "open" /\ handles'[calls[i].handle].busy
    BY <2>1, <1>4, <1>a DEF BodyInv
  <2> QED BY <2>2, <1>5, <1>a, PrefixStack
<1>7. HandleTypes'
  BY <1>4, <1>5 DEF HandleTypes
<1>8. OwnInv'
  <2> SUFFICES ASSUME NEW g \in Handles
               PROVE  /\ handles[g].temporary \in {g, NoCopy}
                      /\ handles[g].state # "none" /\ g \in disk' => handles[g].temporary = g
                      /\ handles[g].state = "open" =>
                           /\ <<g, "reader">> \in resources'
                           /\ handles[g].path \in {OwnFile, g} \intersect disk'
    BY <1>4 DEF OwnInv
  <2>1. handles[g].state = "open" => g # h
    BY <1>3
  <2>2. handles[g].state = "open" => Top.temporary # g /\ Top.temporary # OwnFile
    BY <2>1, <1>2, <1>3, HandleAssumption DEF OwnFile, NoCopy
  <2> QED BY <2>1, <2>2, <1>4 DEF OwnInv
<1>9. NothingLeftBehind'
  <2>1. \A g : g # h /\ OnStack(g) => OnStack(g)'
    <3> SUFFICES ASSUME NEW g, g # h, NEW i \in 1..n, calls[i].handle = g
                 PROVE  \E j \in DOMAIN calls' : calls'[j].handle = g
      BY <1>1 DEF OnStack
    <3>1. i \in 1..m /\ DOMAIN calls' = 1..m
      BY <1>1, <1>5
    <3> QED BY <3>1, <1>5
  <2>2. \A r \in resources' : r[1] # h
    BY <1>3, <1>4 DEF HandleTypes
  <2>3. h \notin disk' /\ OwnFile \in disk'
    BY <1>2, <1>3, <1>4, HandleAssumption DEF NothingLeftBehind, OwnFile, NoCopy
  <2> QED BY <2>1, <2>2, <2>3, <1>4 DEF NothingLeftBehind
<1> QED BY <1>6, <1>7, <1>8, <1>9

\* What close_parquet() changes, refused or not.
LEMMA CloseFacts ==
  ASSUME HandleInv, NEW h \in Handles, NEW reachable \in BOOLEAN, Close(h, reachable),
         handles[h].state = "none" => h \notin disk
  PROVE  /\ handles' \in [Handles -> Pointers] /\ resources' \subseteq resources
         /\ disk' \subseteq disk /\ OwnFile \in disk' /\ OwnInv'
         /\ \A g \in Handles : handles'[g].state = "none" <=> handles[g].state = "none"
         /\ \A g \in Handles : handles[g].state = "open" /\ handles[g].busy =>
              handles'[g].state = "open" /\ handles'[g].busy
         /\ \A r \in resources' : handles'[r[1]].state = "open" \/ (r[1] # h /\ OnStack(r[1]))
         /\ \A g \in disk' \ {OwnFile} :
              handles'[g].state \in {"open", "finalized"} \/ (g # h /\ OnStack(g))
<1> USE DEF HandleInv
<1> DEFINE refused == handles[h].state = "open" /\ handles[h].busy
<1>1. /\ handles \in [Handles -> Pointers] /\ handles[h] \in Pointers
      /\ \A r \in resources : r[1] \in Handles
      /\ \A g \in disk \ {OwnFile} : g \in Handles
  BY DEF HandleTypes
<1>2. /\ handles' = [handles EXCEPT ![h].reachable = reachable,
                                    ![h].state = IF @ = "open" /\ ~refused THEN "closed" ELSE @]
      /\ resources' = IF refused THEN resources ELSE Finalized(h)
      /\ disk' = IF refused THEN disk ELSE disk \ {handles[h].temporary}
  BY DEF Close
<1>3. /\ handles' \in [Handles -> Pointers]
      /\ \A g \in Handles \ {h} : handles'[g] = handles[g]
      /\ handles'[h].busy = handles[h].busy /\ handles'[h].temporary = handles[h].temporary
      /\ handles'[h].path = handles[h].path
      /\ handles'[h].state = IF handles[h].state = "open" /\ ~refused THEN "closed" ELSE handles[h].state
  <2> HIDE DEF refused
  <2> QED BY <1>1, <1>2 DEF Pointers
<1>4. handles[h].temporary \in {h, NoCopy} /\ (~refused => h \notin disk')
  BY <1>2 DEF OwnInv
<1>5. /\ resources' \subseteq resources /\ disk' \subseteq disk
      /\ ~refused => \A r \in resources' : r[1] # h
      /\ \A g \in Handles \ {h}, k \in AllKinds : <<g, k>> \in resources => <<g, k>> \in resources'
  BY <1>2, FinalizedFacts
<1>6. /\ OwnFile \in disk'
      /\ \A g \in Handles \ {h} : g \in disk => g \in disk'
  BY <1>2, <1>4, HandleAssumption DEF NothingLeftBehind, OwnFile, NoCopy
<1>7. OwnInv'
  <2> SUFFICES ASSUME NEW g \in Handles
               PROVE  /\ handles'[g].temporary \in {g, NoCopy}
                      /\ handles'[g].state # "none" /\ g \in disk' => handles'[g].temporary = g
                      /\ handles'[g].state = "open" =>
                           /\ <<g, "reader">> \in resources'
                           /\ handles'[g].path \in {OwnFile, g} \intersect disk'
    BY DEF OwnInv
  <2>1. CASE g # h
    <3>1. "reader" \in AllKinds
      BY DEF AllKinds, ReaderKinds
    <3> QED BY <2>1, <3>1, <1>3, <1>5, <1>6 DEF OwnInv
  <2>2. CASE g = h /\ ~refused
    BY <2>2, <1>3, <1>4 DEF OwnInv
  <2>3. CASE g = h /\ refused
    BY <2>3, <1>2, <1>3 DEF OwnInv
  <2> QED BY <2>1, <2>2, <2>3
<1>8. \A r \in resources' : handles'[r[1]].state = "open" \/ (r[1] # h /\ OnStack(r[1]))
  BY <1>1, <1>3, <1>5 DEF NothingLeftBehind
<1>9. \A g \in disk' \ {OwnFile} :
        handles'[g].state \in {"open", "finalized"} \/ (g # h /\ OnStack(g))
  BY <1>1, <1>3, <1>4, <1>5 DEF NothingLeftBehind
<1>10. \A g \in Handles : handles'[g].state = "none" <=> handles[g].state = "none"
  BY <1>3
<1>11. \A g \in Handles : handles[g].state = "open" /\ handles[g].busy =>
         handles'[g].state = "open" /\ handles'[g].busy
  BY <1>3
<1> QED BY <1>3, <1>5, <1>6, <1>7, <1>8, <1>9, <1>10, <1>11

\* Every call on the stack has a handle.
LEMMA HandleOfCall ==
  ASSUME HandleInv, NEW i \in 1..Len(calls)
  PROVE  calls[i] \in Calls /\ calls[i].handle \in Handles
<1>1. calls[i] \in Calls
  BY DEF HandleInv, HandleTypes
<1> QED BY <1>1 DEF Calls, OpenCalls, ReadCalls, BodyCalls

\* A step that leaves the stack alone.
LEMMA SameStack ==
  ASSUME HandleInv, calls' = calls,
         \A i \in 1..Len(calls) : IsBody(i) =>
           handles'[calls[i].handle].state = "open" /\ handles'[calls[i].handle].busy,
         \A g \in Handles : handles[g].state # "none" => handles'[g].state # "none",
         \A i \in 1..Len(calls) : calls[i].call = "open" =>
           /\ handles'[calls[i].handle] = handles[calls[i].handle]
           /\ resources' \subseteq resources /\ disk' = disk
           /\ \A k \in AllKinds : <<calls[i].handle, k>> \in resources =>
                                    <<calls[i].handle, k>> \in resources'
  PROVE  StackInv' /\ BodyInv' /\ OpenInv'
<1> USE DEF HandleInv
<1>1. StackInv'
  <2> SUFFICES ASSUME NEW i \in 1..Len(calls)
               PROVE  /\ i < Len(calls) => calls[i].call \in {"walk", "read_parquet"}
                      /\ calls[i].call = "read_parquet" =>
                           IF i = Len(calls) THEN handles'[calls[i].handle].state # "none"
                           ELSE /\ i + 1 = Len(calls) /\ calls[i + 1].call # "walk"
                                /\ calls[i + 1].call # "read_parquet"
                                /\ calls[i + 1].handle = calls[i].handle
    BY DEF StackInv
  <2> QED BY HandleOfCall DEF StackInv
<1>2. BodyInv'
  BY DEF BodyInv, IsBody
<1>3. OpenInv'
  <2> SUFFICES ASSUME NEW i \in 1..Len(calls), calls[i].call = "open"
               PROVE  /\ handles'[calls[i].handle].state = "none"
                      /\ calls[i].path \in {OwnFile, calls[i].handle} \intersect disk'
                      /\ calls[i].temporary \in {calls[i].handle, NoCopy}
                      /\ calls[i].handle \in disk' => calls[i].temporary = calls[i].handle
                      /\ \A k \in AllKinds : <<calls[i].handle, k>> \in resources' =>
                                                k \in HeldAt(calls[i].step)
                      /\ calls[i].step \in {"mapped", "unmapped", "reader"} =>
                           <<calls[i].handle, "reader">> \in resources'
    BY DEF OpenInv
  <2>1. "reader" \in AllKinds
    BY DEF AllKinds, ReaderKinds
  <2> QED BY <2>1 DEF OpenInv
<1> QED BY <1>1, <1>2, <1>3

\* The opened handle takes over what the call has got.
LEMMA OpenSucceeds ==
  ASSUME HandleInv, calls # <<>>, Top.call = "open", Top.step = "reader",
         handles' = [handles EXCEPT ![Top.handle] = [state |-> "open", busy |-> FALSE,
                       path |-> Top.path, temporary |-> Top.temporary, reachable |-> TRUE]],
         calls' = Pop, UNCHANGED <<resources, disk>>
  PROVE  HandleInv'
<1> USE DEF HandleInv
<1> DEFINE n == Len(calls)  h == Top.handle
<1>1. /\ n \in Nat \ {0} /\ DOMAIN calls = 1..n /\ Top = calls[n] /\ Top \in Calls
      /\ Pop \in Seq(Calls) /\ Len(Pop) = n - 1
      /\ \A i \in 1..Len(Pop) : Pop[i] = calls[i]
  BY PopFacts DEF HandleTypes
<1> HIDE DEF n
<1>a. n \in 1..n /\ n = Len(calls) /\ n - 1 \in Nat /\ n - 1 < n
  BY <1>1 DEF n
<1>2. h \in Handles /\ Top \in OpenCalls
  BY <1>1 DEF Calls, OpenCalls, ReadCalls, BodyCalls
<1>3. /\ handles[h].state = "none" /\ Top.temporary \in {h, NoCopy}
      /\ h \in disk => Top.temporary = h
      /\ Top.path \in {OwnFile, h} \intersect disk
      /\ <<h, "reader">> \in resources
  <2>1. calls[n].call = "open"
    BY <1>1
  <2> QED BY <2>1, <1>1, <1>a DEF OpenInv
<1>4. /\ handles' \in [Handles -> Pointers]
      /\ handles'[h].state = "open" /\ handles'[h].temporary = Top.temporary
      /\ handles'[h].path = Top.path
      /\ \A g \in Handles \ {h} : handles'[g] = handles[g]
  BY <1>2 DEF HandleTypes, Pointers, OpenCalls
<1>5. HandleTypes'
  BY <1>1, <1>4 DEF HandleTypes
<1>6. StackInv' /\ BodyInv' /\ OpenInv'
  <2>1. \A i \in 1..n - 1 : i \in 1..n /\ calls[i].handle \in Handles
    BY <1>1, <1>a, HandleOfCall
  <2>2. \A i \in 1..n - 1 : IsBody(i) =>
          handles'[calls[i].handle].state = "open" /\ handles'[calls[i].handle].busy
    BY <2>1, <1>3, <1>4, <1>a DEF BodyInv
  <2>3. n - 1 > 0 /\ calls[n - 1].call = "read_parquet" =>
          handles'[calls[n - 1].handle].state # "none"
    <3>1. n - 1 > 0 => n - 1 \in 1..n /\ n - 1 # n /\ n - 1 + 1 = n
      BY <1>1
    <3> QED BY <3>1, <1>1, <1>4, <1>a DEF StackInv
  <2>4. \A i \in 1..n - 1 : calls'[i] = calls[i]
    BY <1>1
  <2> QED BY <2>2, <2>3, <2>4, <1>1, <1>a, PrefixStack
<1>7. OwnInv'
  BY <1>2, <1>3, <1>4 DEF OwnInv
<1>8. NothingLeftBehind'
  <2>1. \A g \in Handles : g # h /\ OnStack(g) => OnStack(g)'
    <3> SUFFICES ASSUME NEW g \in Handles, g # h, NEW i \in 1..n, calls[i].handle = g
                 PROVE  \E j \in DOMAIN calls' : calls'[j].handle = g
      BY <1>1 DEF OnStack
    <3>1. i \in 1..n - 1
      BY <1>1
    <3> QED BY <3>1, <1>1
  <2>2. \A r \in resources : r[1] \in Handles
    BY DEF HandleTypes
  <2>3. \A g \in disk \ {OwnFile} : g \in Handles
    BY DEF HandleTypes
  <2> QED BY <2>1, <2>2, <2>3, <1>4 DEF NothingLeftBehind
<1> QED BY <1>5, <1>6, <1>7, <1>8

\* Under user code a handle that was never opened has nothing.
LEMMA UnopenedHasNothing ==
  ASSUME HandleInv, UserCode, NEW h \in Handles, handles[h].state = "none"
  PROVE  /\ ~OnStack(h) /\ h \notin disk
         /\ \A k \in AllKinds : <<h, k>> \notin resources
<1> USE DEF HandleInv
<1>1. ~OnStack(h)
  <2> SUFFICES ASSUME NEW i \in 1..Len(calls), calls[i].handle = h PROVE FALSE
    BY DEF OnStack, HandleTypes
  <2> QED BY UserStack DEF BodyInv, IsBody
<1>2. h # OwnFile
  BY HandleAssumption
<1> QED BY <1>1, <1>2 DEF NothingLeftBehind

\* close_parquet() keeps the invariant, refused or not.
LEMMA CloseKeeps ==
  ASSUME HandleInv, NEW h \in Handles, close_parquet(h)
  PROVE  HandleInv'
<1> USE DEF HandleInv
<1>1. UserCode /\ Close(h, TRUE) /\ calls' = calls
  BY DEF close_parquet
<1>2. handles[h].state = "none" => h \notin disk
  BY <1>1, UnopenedHasNothing
<1>3. /\ handles' \in [Handles -> Pointers] /\ resources' \subseteq resources
      /\ disk' \subseteq disk /\ OwnFile \in disk' /\ OwnInv'
      /\ \A g \in Handles : handles'[g].state = "none" <=> handles[g].state = "none"
      /\ \A g \in Handles : handles[g].state = "open" /\ handles[g].busy =>
           handles'[g].state = "open" /\ handles'[g].busy
      /\ \A r \in resources' : handles'[r[1]].state = "open" \/ (r[1] # h /\ OnStack(r[1]))
      /\ \A g \in disk' \ {OwnFile} :
           handles'[g].state \in {"open", "finalized"} \/ (g # h /\ OnStack(g))
  BY <1>1, <1>2, CloseFacts
<1>4. HandleTypes'
  BY <1>1, <1>3 DEF HandleTypes
<1>5. StackInv' /\ BodyInv' /\ OpenInv'
  <2>1. \A i \in 1..Len(calls) : IsBody(i) =>
          handles'[calls[i].handle].state = "open" /\ handles'[calls[i].handle].busy
    BY <1>3, HandleOfCall DEF BodyInv
  <2>2. \A i \in 1..Len(calls) : calls[i].call # "open"
    BY <1>1, UserStack
  <2> QED BY <2>1, <2>2, <1>1, <1>3, SameStack
<1>6. NothingLeftBehind'
  BY <1>1, <1>3 DEF NothingLeftBehind, OnStack
<1> QED BY <1>3, <1>4, <1>5, <1>6

\* read_parquet() closes its handle as it leaves, and keeps the invariant.
LEMMA ReadParquetReturnsKeeps ==
  ASSUME HandleInv, ReadParquetReturns
  PROVE  HandleInv'
<1> USE DEF HandleInv
<1> DEFINE n == Len(calls)  h == Top.handle
<1>0. calls # <<>> /\ Top.call = "read_parquet" /\ Close(h, FALSE) /\ calls' = Pop
  BY DEF ReadParquetReturns, Running
<1>1. /\ n \in Nat \ {0} /\ DOMAIN calls = 1..n /\ Top = calls[n] /\ Top \in Calls
      /\ Pop \in Seq(Calls) /\ Len(Pop) = n - 1
      /\ \A i \in 1..Len(Pop) : Pop[i] = calls[i]
  BY <1>0, PopFacts DEF HandleTypes
<1> HIDE DEF n
<1>a. n \in 1..n /\ n = Len(calls) /\ n - 1 \in Nat /\ n - 1 < n
  BY <1>1 DEF n
<1>2. h \in Handles
  BY <1>1, <1>a, HandleOfCall
<1>3. handles[h].state # "none"
  BY <1>0, <1>1, <1>a DEF StackInv
<1>4. /\ handles' \in [Handles -> Pointers] /\ resources' \subseteq resources
      /\ disk' \subseteq disk /\ OwnFile \in disk' /\ OwnInv'
      /\ \A g \in Handles : handles'[g].state = "none" <=> handles[g].state = "none"
      /\ \A g \in Handles : handles[g].state = "open" /\ handles[g].busy =>
           handles'[g].state = "open" /\ handles'[g].busy
      /\ \A r \in resources' : handles'[r[1]].state = "open" \/ (r[1] # h /\ OnStack(r[1]))
      /\ \A g \in disk' \ {OwnFile} :
           handles'[g].state \in {"open", "finalized"} \/ (g # h /\ OnStack(g))
  <2> HIDE DEF h
  <2> QED BY <1>0, <1>2, <1>3, CloseFacts
<1>5. HandleTypes'
  BY <1>0, <1>1, <1>4 DEF HandleTypes
<1>6. StackInv' /\ BodyInv' /\ OpenInv'
  <2>1. \A i \in 1..n - 1 : i \in 1..n /\ calls[i].handle \in Handles
    BY <1>1, <1>a, HandleOfCall
  <2>2. \A i \in 1..n - 1 : IsBody(i) =>
          handles'[calls[i].handle].state = "open" /\ handles'[calls[i].handle].busy
    BY <2>1, <1>4, <1>a DEF BodyInv
  <2>3. n - 1 > 0 => calls[n - 1].call # "read_parquet"
    <3>1. n - 1 > 0 => n - 1 \in 1..n /\ n - 1 # n /\ n - 1 + 1 = n
      BY <1>1
    <3> QED BY <3>1, <1>0, <1>1, <1>a DEF StackInv
  <2>4. \A i \in 1..n - 1 : calls'[i] = calls[i]
    BY <1>0, <1>1
  <2> QED BY <2>2, <2>3, <2>4, <1>0, <1>1, <1>a, PrefixStack
<1>7. NothingLeftBehind'
  <2>1. \A g : g # h /\ OnStack(g) => OnStack(g)'
    <3> SUFFICES ASSUME NEW g, g # h, NEW i \in 1..n, calls[i].handle = g
                 PROVE  \E j \in DOMAIN calls' : calls'[j].handle = g
      BY <1>1 DEF OnStack
    <3>1. i \in 1..n - 1
      BY <1>1
    <3> QED BY <3>1, <1>0, <1>1
  <2> QED BY <2>1, <1>4 DEF NothingLeftBehind
<1> QED BY <1>4, <1>5, <1>6, <1>7

\* Dropping the last reference changes nothing yet.
LEMMA DropKeeps ==
  ASSUME HandleInv, NEW h \in Handles, Drop(h)
  PROVE  HandleInv'
<1> USE DEF HandleInv
<1>1. /\ handles' = [handles EXCEPT ![h].reachable = FALSE]
      /\ resources' = resources /\ disk' = disk /\ calls' = calls
  BY DEF Drop
<1>2. /\ handles' \in [Handles -> Pointers]
      /\ \A g \in Handles : /\ handles'[g].state = handles[g].state
                            /\ handles'[g].busy = handles[g].busy
                            /\ handles'[g].path = handles[g].path
                            /\ handles'[g].temporary = handles[g].temporary
  <2>1. handles \in [Handles -> Pointers]
    BY DEF HandleTypes
  <2>2. [handles[h] EXCEPT !.reachable = FALSE] \in Pointers
    BY <2>1 DEF Pointers
  <2>3. handles' = [handles EXCEPT ![h] = [handles[h] EXCEPT !.reachable = FALSE]]
    BY <1>1
  <2>4. handles' \in [Handles -> Pointers]
    BY <2>1, <2>2, <2>3
  <2>5. ASSUME NEW g \in Handles
        PROVE  /\ handles'[g].state = handles[g].state
               /\ handles'[g].busy = handles[g].busy
               /\ handles'[g].path = handles[g].path
               /\ handles'[g].temporary = handles[g].temporary
    <3>1. CASE g = h
      BY <2>1, <2>3, <3>1 DEF Pointers
    <3>2. CASE g # h
      BY <2>1, <2>3, <3>2
    <3> QED BY <3>1, <3>2
  <2> QED BY <2>4, <2>5
<1>3. HandleTypes'
  BY <1>1, <1>2 DEF HandleTypes
<1>4. StackInv' /\ BodyInv' /\ OpenInv'
  <2>1. ASSUME NEW i \in 1..Len(calls), IsBody(i)
        PROVE  handles'[calls[i].handle].state = "open" /\ handles'[calls[i].handle].busy
    <3>1. calls[i].handle \in Handles
      BY HandleOfCall
    <3>2. handles[calls[i].handle].state = "open" /\ handles[calls[i].handle].busy
      BY <2>1 DEF BodyInv
    <3> QED BY <1>2, <3>1, <3>2
  <2>2. \A i \in 1..Len(calls) : calls[i].call # "open"
    BY UserStack DEF Drop
  <2> QED BY <2>1, <2>2, <1>1, <1>2, SameStack
<1>5. OwnInv'
  <2>1. ASSUME NEW g \in Handles
        PROVE  /\ handles'[g].temporary \in {g, NoCopy}
               /\ handles'[g].state # "none" /\ g \in disk' => handles'[g].temporary = g
               /\ handles'[g].state = "open" =>
                    /\ <<g, "reader">> \in resources'
                    /\ handles'[g].path \in {OwnFile, g} \intersect disk'
    BY <1>1, <1>2 DEF OwnInv
  <2> QED BY <2>1 DEF OwnInv
<1>6. NothingLeftBehind'
  <2>1. (\A r \in resources : r[1] \in Handles) /\ (\A g \in disk \ {OwnFile} : g \in Handles)
    BY DEF HandleTypes
  <2> QED BY <2>1, <1>1, <1>2 DEF NothingLeftBehind, OnStack
<1> QED BY <1>3, <1>4, <1>5, <1>6

\* The finalizer releases only a handle no call on the stack works with.
LEMMA FinalizeKeeps ==
  ASSUME HandleInv, NEW h \in Handles, qio_finalize_file(h)
  PROVE  HandleInv'
<1> USE DEF HandleInv
<1>1. /\ handles[h].state = "open" /\ ~OnStack(h)
      /\ handles' = [handles EXCEPT ![h].state = "finalized", ![h].busy = FALSE]
      /\ resources' = Finalized(h) /\ disk' = disk /\ calls' = calls
  BY DEF qio_finalize_file
<1>2. /\ handles' \in [Handles -> Pointers]
      /\ handles'[h].state = "finalized" /\ handles'[h].temporary = handles[h].temporary
      /\ \A g \in Handles \ {h} : handles'[g] = handles[g]
  <2>1. handles \in [Handles -> Pointers] /\ handles[h] \in Pointers
    BY DEF HandleTypes
  <2>2. handles'[h] = [handles[h] EXCEPT !.state = "finalized", !.busy = FALSE]
    BY <1>1, <2>1
  <2>3. handles'[h] \in Pointers /\ handles'[h].state = "finalized"
        /\ handles'[h].temporary = handles[h].temporary
    BY <2>1, <2>2 DEF Pointers
  <2>4. \A g \in Handles \ {h} : handles'[g] = handles[g]
    BY <1>1, <2>1
  <2>5. DOMAIN handles' = Handles /\ handles' = [g \in Handles |-> handles'[g]]
    BY <1>1, <2>1
  <2> QED BY <2>1, <2>3, <2>4, <2>5
<1>3. /\ resources' \subseteq resources /\ \A r \in resources' : r[1] # h
      /\ \A g \in Handles, k \in AllKinds : g # h /\ <<g, k>> \in resources => <<g, k>> \in resources'
  BY <1>1, FinalizedFacts
<1>4. HandleTypes'
  BY <1>1, <1>2, <1>3 DEF HandleTypes
<1>5. \A i \in 1..Len(calls) : calls[i].handle \in Handles \ {h}
  BY <1>1, HandleOfCall DEF OnStack, HandleTypes
<1>6. StackInv' /\ BodyInv' /\ OpenInv'
  <2>1. \A i \in 1..Len(calls) : IsBody(i) =>
          handles'[calls[i].handle].state = "open" /\ handles'[calls[i].handle].busy
    BY <1>2, <1>5 DEF BodyInv
  <2>2. \A g \in Handles : handles[g].state # "none" => handles'[g].state # "none"
    BY <1>2
  <2>3. \A i \in 1..Len(calls) :
          /\ handles'[calls[i].handle] = handles[calls[i].handle]
          /\ \A k \in AllKinds : <<calls[i].handle, k>> \in resources =>
                                   <<calls[i].handle, k>> \in resources'
    BY <1>2, <1>3, <1>5
  <2> QED BY <2>1, <2>2, <2>3, <1>1, <1>3, SameStack
<1>7. OwnInv'
  <2>1. "reader" \in AllKinds
    BY DEF AllKinds, ReaderKinds
  <2>2. ASSUME NEW g \in Handles, g # h
        PROVE  /\ handles'[g].temporary \in {g, NoCopy}
               /\ handles'[g].state # "none" /\ g \in disk' => handles'[g].temporary = g
               /\ handles'[g].state = "open" =>
                    /\ <<g, "reader">> \in resources'
                    /\ handles'[g].path \in {OwnFile, g} \intersect disk'
    <3>1. handles'[g] = handles[g] /\ disk' = disk
      BY <2>2, <1>1, <1>2
    <3>2. <<g, "reader">> \in resources => <<g, "reader">> \in resources'
      BY <2>1, <2>2, <1>3
    <3> QED BY <3>1, <3>2 DEF OwnInv
  <2>3. /\ handles'[h].temporary \in {h, NoCopy} /\ handles'[h].state = "finalized"
        /\ h \in disk' => handles'[h].temporary = h
    BY <1>1, <1>2 DEF OwnInv
  <2> QED BY <2>2, <2>3 DEF OwnInv
<1>8. NothingLeftBehind'
  <2>1. (\A r \in resources : r[1] \in Handles) /\ (\A g \in disk \ {OwnFile} : g \in Handles)
    BY DEF HandleTypes
  <2> QED BY <2>1, <1>1, <1>2, <1>3 DEF NothingLeftBehind, OnStack
<1> QED BY <1>4, <1>6, <1>7, <1>8

\* The end of a read makes its handle free, and only that one: no two reads
\* share a handle.
LEMMA CleanupKeeps ==
  ASSUME HandleInv, qio_batch_cleanup
  PROVE  HandleInv'
<1> USE DEF HandleInv
<1> DEFINE n == Len(calls)  h == Top.handle
<1>0. /\ calls # <<>> /\ Top.call \in {"collect", "walk"}
      /\ handles' = [handles EXCEPT ![h].busy = FALSE]
      /\ calls' = Pop /\ resources' = resources /\ disk' = disk
  BY DEF qio_batch_cleanup, Running
<1>1. /\ n \in Nat \ {0} /\ DOMAIN calls = 1..n /\ Top = calls[n] /\ Top \in Calls
      /\ Pop \in Seq(Calls) /\ Len(Pop) = n - 1
      /\ \A i \in 1..Len(Pop) : Pop[i] = calls[i]
  BY <1>0, PopFacts DEF HandleTypes
<1> HIDE DEF n
<1>a. n \in 1..n /\ n = Len(calls) /\ n - 1 \in Nat /\ n - 1 < n
  BY <1>1 DEF n
<1>2. h \in Handles /\ IsBody(n)
  BY <1>0, <1>1, <1>a, HandleOfCall DEF IsBody
<1>3. /\ handles' \in [Handles -> Pointers]
      /\ \A g \in Handles : /\ handles'[g].state = handles[g].state
                            /\ handles'[g].path = handles[g].path
                            /\ handles'[g].temporary = handles[g].temporary
                            /\ g # h => handles'[g] = handles[g]
  <2>1. handles \in [Handles -> Pointers] /\ handles[h] \in Pointers
    BY <1>2 DEF HandleTypes
  <2>2. handles' = [handles EXCEPT ![h].busy = FALSE]
    BY <1>0
  <2> HIDE DEF h
  <2>3. handles'[h] = [handles[h] EXCEPT !.busy = FALSE]
    BY <2>1, <2>2, <1>2
  <2>4. /\ handles'[h] \in Pointers /\ handles'[h].state = handles[h].state
        /\ handles'[h].path = handles[h].path /\ handles'[h].temporary = handles[h].temporary
    BY <2>1, <2>3 DEF Pointers
  <2>5. \A g \in Handles \ {h} : handles'[g] = handles[g]
    BY <2>1, <2>2
  <2>6. DOMAIN handles' = Handles /\ handles' = [g \in Handles |-> handles'[g]]
    BY <2>1, <2>2
  <2> QED BY <2>1, <2>4, <2>5, <2>6
<1>4. HandleTypes'
  BY <1>0, <1>1, <1>3 DEF HandleTypes
<1>5. handles[h].state = "open"
  BY <1>1, <1>2, <1>a DEF BodyInv
<1>6. StackInv' /\ BodyInv' /\ OpenInv'
  <2>1. \A i \in 1..n - 1 : i \in 1..n /\ i # n /\ calls[i].handle \in Handles
    <3>1. \A i \in 1..n - 1 : i \in 1..n /\ i # n
      BY <1>1
    <3> QED BY <3>1, <1>a, HandleOfCall
  <2>2. \A i \in 1..n - 1 : IsBody(i) =>
          handles'[calls[i].handle].state = "open" /\ handles'[calls[i].handle].busy
    <3> SUFFICES ASSUME NEW i \in 1..n - 1, IsBody(i)
                 PROVE  handles'[calls[i].handle].state = "open" /\ handles'[calls[i].handle].busy
      OBVIOUS
    <3>1. calls[i].handle # h
      BY <2>1, <1>1, <1>2, <1>a DEF BodyInv
    <3> QED BY <3>1, <2>1, <1>3, <1>a, SMTT(20) DEF BodyInv
  <2>3. n - 1 > 0 /\ calls[n - 1].call = "read_parquet" =>
          handles'[calls[n - 1].handle].state # "none"
    <3>1. n - 1 > 0 => n - 1 \in 1..n /\ n - 1 # n /\ n - 1 + 1 = n
      BY <1>1
    <3>2. n - 1 > 0 /\ calls[n - 1].call = "read_parquet" => calls[n - 1].handle = h
      BY <3>1, <1>1, <1>a DEF StackInv
    <3> QED BY <3>2, <1>2, <1>3, <1>5
  <2>4. \A i \in 1..n - 1 : calls'[i] = calls[i]
    BY <1>0, <1>1
  <2> QED BY <2>2, <2>3, <2>4, <1>0, <1>1, <1>a, PrefixStack
<1>7. OwnInv'
  BY <1>0, <1>3 DEF OwnInv
<1>8. NothingLeftBehind'
  <2>1. \A g : g # h /\ OnStack(g) => OnStack(g)'
    <3> SUFFICES ASSUME NEW g, g # h, NEW i \in 1..n, calls[i].handle = g
                 PROVE  \E j \in DOMAIN calls' : calls'[j].handle = g
      BY <1>1 DEF OnStack
    <3>1. i \in 1..n - 1
      BY <1>1
    <3> QED BY <3>1, <1>0, <1>1
  <2>2. (\A r \in resources : r[1] \in Handles) /\ (\A g \in disk \ {OwnFile} : g \in Handles)
    BY DEF HandleTypes
  <2> QED BY <2>1, <2>2, <1>0, <1>2, <1>3, <1>5 DEF NothingLeftBehind
<1> QED BY <1>4, <1>6, <1>7, <1>8

\* A read starts, or fails to, on a stack s that differs from the one before
\* at most in what read_parquet() remembers.
LEMMA StartReadKeeps ==
  ASSUME HandleInv, NEW h \in Handles, NEW kind \in {"collect", "walk"}, NEW s \in Seq(Calls),
         StartRead(h, kind, s), Len(s) = Len(calls),
         \A i \in 1..Len(calls) : s[i].call = calls[i].call /\ s[i].handle = calls[i].handle,
         \A i \in 1..Len(calls) : \/ calls[i].call = "walk"
                                  \/ /\ calls[i].call = "read_parquet" /\ i = Len(calls)
                                     /\ kind = "collect" /\ calls[i].handle = h
  PROVE  HandleInv'
<1> USE DEF HandleInv
<1> DEFINE n == Len(calls)  c == [call |-> kind, handle |-> h]
<1>1. /\ handles[h].state = "open" /\ ~handles[h].busy
      /\ handles' = [handles EXCEPT ![h].busy = TRUE]
      /\ resources' = resources /\ disk' = disk
      /\ calls' = Append(s, c) \/ calls' = s
  BY DEF StartRead
<1>2. n \in Nat /\ DOMAIN calls = 1..n /\ Len(s) = n /\ c \in Calls
  BY DEF HandleTypes, Calls, BodyCalls
<1>3. /\ handles' \in [Handles -> Pointers] /\ handles'[h].busy
      /\ \A g \in Handles : /\ handles'[g].state = handles[g].state
                            /\ handles'[g].path = handles[g].path
                            /\ handles'[g].temporary = handles[g].temporary
                            /\ g # h => handles'[g] = handles[g]
  BY <1>1 DEF HandleTypes, Pointers
<1>4. PICK m \in {n, n + 1} :
        /\ Len(calls') = m /\ calls' \in Seq(Calls)
        /\ \A i \in 1..n : calls'[i] = s[i]
        /\ m = n + 1 => calls'[m] = c
  <2>1. CASE calls' = s
    BY <2>1, <1>2
  <2>2. CASE calls' = Append(s, c)
    <3>1. /\ Append(s, c) \in Seq(Calls) /\ Len(Append(s, c)) = n + 1
          /\ \A i \in 1..n : Append(s, c)[i] = s[i]
          /\ Append(s, c)[n + 1] = c
      BY <1>2, AppendFacts
    <3> QED BY <2>2, <3>1
  <2> QED BY <1>1, <2>1, <2>2
<1> HIDE DEF n
<1>a. n = Len(calls) /\ \A i \in 1..m : i \in 1..n \/ (i = m /\ m = n + 1)
  BY <1>2 DEF n
<1>5. \A i \in 1..n : calls'[i].call = calls[i].call /\ calls'[i].handle = calls[i].handle
  BY <1>4, <1>a
<1>6. c.call = kind /\ c.handle = h /\ kind # "open" /\ kind # "read_parquet"
  OBVIOUS
<1> HIDE DEF c
<1>7. \A i \in 1..n : calls[i].handle \in Handles /\ (IsBody(i) => calls[i].handle # h)
  BY <1>1, <1>a, HandleOfCall DEF BodyInv
<1>8. HandleTypes'
  BY <1>1, <1>3, <1>4 DEF HandleTypes
<1>9. StackInv'
  <2> SUFFICES ASSUME NEW i \in 1..m
               PROVE  /\ i < m => calls'[i].call \in {"walk", "read_parquet"}
                      /\ calls'[i].call = "read_parquet" =>
                           IF i = m THEN handles'[calls'[i].handle].state # "none"
                           ELSE /\ i + 1 = m /\ calls'[i + 1].call # "walk"
                                /\ calls'[i + 1].call # "read_parquet"
                                /\ calls'[i + 1].handle = calls'[i].handle
    BY <1>4 DEF StackInv
  <2>1. CASE i \in 1..n
    <3>1. \/ calls'[i].call = "walk"
          \/ calls'[i].call = "read_parquet" /\ i = n /\ kind = "collect" /\ calls'[i].handle = h
      BY <2>1, <1>5, <1>a
    <3>2. i = n /\ i # m => i + 1 = m /\ m = n + 1
      BY <1>2
    <3> QED BY <3>1, <3>2, <1>1, <1>3, <1>4, <1>6
  <2>2. CASE i = m /\ m = n + 1
    <3>1. ~(i < m)
      BY <2>2, <1>2
    <3> QED BY <2>2, <3>1, <1>4, <1>6
  <2> QED BY <2>1, <2>2, <1>a
<1>10. BodyInv'
  <2>1. ASSUME NEW i \in 1..m, IsBody(i)'
        PROVE  /\ handles'[calls'[i].handle].state = "open" /\ handles'[calls'[i].handle].busy
               /\ i \in 1..n => IsBody(i) /\ calls'[i].handle = calls[i].handle
               /\ i \notin 1..n => calls'[i].handle = h /\ i = m
    <3>1. CASE i \in 1..n
      <4>1. IsBody(i) /\ calls'[i].handle = calls[i].handle
        BY <2>1, <3>1, <1>5 DEF IsBody
      <4> QED BY <3>1, <4>1, <1>3, <1>7, <1>a DEF BodyInv
    <3>2. CASE i \notin 1..n
      BY <3>2, <1>1, <1>3, <1>4, <1>6, <1>a
    <3> QED BY <3>1, <3>2
  <2>2. ASSUME NEW i \in 1..m, NEW j \in 1..m, i # j, IsBody(i)', IsBody(j)'
        PROVE  calls'[i].handle # calls'[j].handle
    BY <2>1, <2>2, <1>7, <1>a DEF BodyInv
  <2> QED BY <2>1, <2>2, <1>4 DEF BodyInv
<1>11. OpenInv'
  <2>1. \A i \in 1..m : calls'[i].call # "open"
    BY <1>4, <1>5, <1>6, <1>a
  <2> QED BY <2>1, <1>4 DEF OpenInv
<1>12. OwnInv'
  BY <1>1, <1>3 DEF OwnInv
<1>13. NothingLeftBehind'
  <2>1. \A g : OnStack(g) => OnStack(g)'
    <3>1. DOMAIN calls' = 1..m /\ \A i \in 1..n : i \in 1..m
      BY <1>2, <1>4
    <3> QED BY <3>1, <1>2, <1>5 DEF OnStack
  <2>2. (\A r \in resources : r[1] \in Handles) /\ (\A g \in disk \ {OwnFile} : g \in Handles)
    BY DEF HandleTypes
  <2> QED BY <2>1, <2>2, <1>1, <1>3 DEF NothingLeftBehind
<1> QED BY <1>8, <1>9, <1>10, <1>11, <1>12, <1>13

\* open_parquet() is called, by the user or by read_parquet(): k is 1 when the
\* latter's own call is pushed as well.
LEMMA ResolveKeeps ==
  ASSUME HandleInv, NEW h \in Handles, NEW remote \in BOOLEAN, NEW mmap \in BOOLEAN,
         NEW caller \in Seq(Calls), Resolve(h, remote, mmap, caller),
         \/ Len(caller) = 0
         \/ Len(caller) = 1 /\ caller[1].call = "read_parquet" /\ caller[1].handle = h
  PROVE  HandleInv'
<1> USE DEF HandleInv
<1> DEFINE n == Len(calls)  k == Len(caller)  m == n + k + 1
           o == [call |-> "open", handle |-> h, mmap |-> mmap, step |-> "resolved",
                 path |-> IF remote THEN h ELSE OwnFile,
                 temporary |-> IF remote THEN h ELSE NoCopy]
<1>1. /\ UserCode /\ handles[h].state = "none"
      /\ disk' = IF remote THEN disk \union {h} ELSE disk
      /\ calls' = calls \o caller \o <<o>> /\ handles' = handles /\ resources' = resources
  BY DEF Resolve
<1>2. n \in Nat /\ k \in {0, 1} /\ DOMAIN calls = 1..n /\ calls \in Seq(Calls) /\ o \in Calls
  BY DEF HandleTypes, Calls, OpenCalls, Steps
<1>3. /\ o.call = "open" /\ o.handle = h /\ o.step = "resolved"
      /\ o.path \in {OwnFile, h} \intersect disk' /\ o.temporary \in {h, NoCopy}
      /\ remote => o.temporary = h
  BY <1>1 DEF NothingLeftBehind
<1> HIDE DEF o
<1>4. /\ calls' \in Seq(Calls) /\ Len(calls') = m
      /\ \A i \in 1..n : calls'[i] = calls[i]
      /\ k = 1 => calls'[n + 1] = caller[1]
      /\ calls'[m] = o
  <2> DEFINE s == calls \o caller
  <2>1. /\ s \in Seq(Calls) /\ Len(s) = n + k
        /\ \A i \in 1..n + k : s[i] = IF i <= n THEN calls[i] ELSE caller[i - n]
    BY <1>2, ConcatFacts
  <2>2. calls' = s \o <<o>>
    BY <1>1
  <2> HIDE DEF n, k, s
  <2>3. calls' = Append(s, o)
    BY <1>2, <2>1, <2>2
  <2>4. /\ calls' \in Seq(Calls) /\ Len(calls') = Len(s) + 1
        /\ \A i \in 1..Len(s) : calls'[i] = s[i]
        /\ calls'[Len(s) + 1] = o
    BY <1>2, <2>1, <2>3, AppendFacts
  <2>5. /\ \A i \in 1..n : i \in 1..n + k /\ i <= n
        /\ k = 1 => n + 1 \in 1..n + k /\ ~(n + 1 <= n) /\ n + 1 - n = 1
        /\ Len(s) + 1 = m
    BY <1>2, <2>1
  <2>6. \A i \in 1..n : calls'[i] = calls[i]
    BY <2>1, <2>4, <2>5
  <2>7. ASSUME k = 1 PROVE calls'[n + 1] = caller[1]
    <3> DEFINE j == n + 1
    <3>1. j \in 1..n + k /\ ~(j <= n) /\ j - n = 1
      BY <1>2, <2>7
    <3> HIDE DEF j
    <3>2. s[j] = caller[j - n]
      BY <2>1, <3>1
    <3>3. calls'[j] = caller[1]
      BY <2>1, <2>4, <3>1, <3>2
    <3> QED BY <3>3 DEF j
  <2> QED BY <2>4, <2>5, <2>6, <2>7
<1>5. ~OnStack(h) /\ h \notin disk /\ \A r \in AllKinds : <<h, r>> \notin resources
  BY <1>1, UnopenedHasNothing
<1>6. \A i \in 1..n : calls[i].call = "walk" /\ calls[i].handle \in Handles
  BY <1>1, UserStack, HandleOfCall
<1>7. k = 1 => calls'[n + 1].call = "read_parquet" /\ calls'[n + 1].handle = h
  BY <1>4
<1> HIDE DEF n, k
<1>8. \A i \in 1..m : \/ i \in 1..n /\ i < m
                      \/ k = 1 /\ i = n + 1 /\ i + 1 = m /\ i < m
                      \/ i = m /\ i \notin 1..n /\ (k = 1 => i # n + 1)
  BY <1>2
<1> HIDE DEF m
<1>9. HandleTypes'
  BY <1>1, <1>4 DEF HandleTypes
<1>10. StackInv'
  <2> SUFFICES ASSUME NEW i \in 1..m
               PROVE  /\ i < m => calls'[i].call \in {"walk", "read_parquet"}
                      /\ calls'[i].call = "read_parquet" =>
                           IF i = m THEN handles'[calls'[i].handle].state # "none"
                           ELSE /\ i + 1 = m /\ calls'[i + 1].call # "walk"
                                /\ calls'[i + 1].call # "read_parquet"
                                /\ calls'[i + 1].handle = calls'[i].handle
    BY <1>4 DEF StackInv
  <2>1. CASE i \in 1..n
    BY <2>1, <1>4, <1>6
  <2>2. CASE k = 1 /\ i = n + 1 /\ i + 1 = m /\ i < m
    <3>1. i # m
      BY <1>2, <2>2 DEF m
    <3> QED BY <2>2, <3>1, <1>3, <1>4, <1>7
  <2>3. CASE i = m
    <3>1. ~(i < m)
      BY <1>2, <2>3 DEF m
    <3> QED BY <2>3, <3>1, <1>3, <1>4
  <2> QED BY <2>1, <2>2, <2>3, <1>8
<1>11. BodyInv'
  <2>1. \A i \in 1..m : IsBody(i)' => i \in 1..n /\ IsBody(i)
    BY <1>3, <1>4, <1>7, <1>8 DEF IsBody
  <2>2. ASSUME NEW i \in 1..m, IsBody(i)'
        PROVE  handles'[calls'[i].handle].state = "open" /\ handles'[calls'[i].handle].busy
    <3>1. i \in 1..n /\ IsBody(i) /\ calls'[i] = calls[i] /\ handles' = handles
      BY <2>1, <2>2, <1>1, <1>4
    <3> QED BY <3>1 DEF BodyInv, n
  <2>3. ASSUME NEW i \in 1..m, NEW j \in 1..m, i # j, IsBody(i)', IsBody(j)'
        PROVE  calls'[i].handle # calls'[j].handle
    <3>1. i \in 1..n /\ IsBody(i) /\ j \in 1..n /\ IsBody(j)
      BY <2>1, <2>3
    <3>2. calls[i].handle # calls[j].handle
      BY <2>3, <3>1 DEF BodyInv, n
    <3>3. calls'[i] = calls[i] /\ calls'[j] = calls[j]
      BY <3>1, <1>4
    <3> QED BY <3>2, <3>3
  <2> QED BY <2>2, <2>3, <1>4 DEF BodyInv
<1>12. OpenInv'
  <2>1. \A i \in 1..m : calls'[i].call = "open" => i = m
    BY <1>4, <1>6, <1>7, <1>8
  <2>2. disk' \subseteq disk \union {h} /\ (h \in disk' => remote)
    BY <1>1, <1>5
  <2>3. /\ handles'[o.handle].state = "none" /\ o.path \in {OwnFile, o.handle} \intersect disk'
        /\ o.temporary \in {o.handle, NoCopy} /\ (o.handle \in disk' => o.temporary = o.handle)
        /\ \A r \in AllKinds : <<o.handle, r>> \notin resources'
        /\ o.step \notin {"mapped", "unmapped", "reader"}
    BY <2>2, <1>1, <1>3, <1>5
  <2> QED BY <2>1, <2>3, <1>4 DEF OpenInv
<1>13. OwnInv'
  BY <1>1 DEF OwnInv
<1>14. NothingLeftBehind'
  <2>1. \A g : OnStack(g) => OnStack(g)'
    <3>1. DOMAIN calls' = 1..m /\ \A i \in 1..n : i \in 1..m
      BY <1>2, <1>4 DEF m
    <3> QED BY <3>1, <1>2, <1>4 DEF OnStack
  <2>2. OnStack(h)'
    <3>1. m \in DOMAIN calls'
      BY <1>2, <1>4 DEF m
    <3> QED BY <3>1, <1>3, <1>4 DEF OnStack
  <2> QED BY <2>1, <2>2, <1>1 DEF NothingLeftBehind
<1> QED BY <1>9, <1>10, <1>11, <1>12, <1>13, <1>14

\* A collect from the user or from read_parquet() keeps the invariant.
LEMMA CollectKeeps ==
  ASSUME HandleInv, NEW h \in Handles, qio_parquet_collect(h)
  PROVE  HandleInv'
<1>1. CASE UserCode /\ StartRead(h, "collect", calls)
  <2>1. calls \in Seq(Calls) /\ \A i \in 1..Len(calls) : calls[i].call = "walk"
    BY <1>1, UserStack DEF HandleInv, HandleTypes
  <2> QED BY <1>1, <2>1, StartReadKeeps
<1>2. CASE /\ Running("read_parquet") /\ Top.handle = h
           /\ StartRead(h, "collect", Append(Pop, [Top EXCEPT !.read = TRUE]))
  <2> DEFINE n == Len(calls)  c == [Top EXCEPT !.read = TRUE]  s == Append(Pop, c)
  <2>1. /\ calls \in Seq(Calls) /\ calls # <<>> /\ Top.call = "read_parquet"
    BY <1>2 DEF HandleInv, HandleTypes, Running
  <2>2. /\ n \in Nat \ {0} /\ Top = calls[n] /\ Top \in Calls
        /\ Pop \in Seq(Calls) /\ Len(Pop) = n - 1
        /\ \A i \in 1..Len(Pop) : Pop[i] = calls[i]
    BY <2>1, PopFacts
  <2>3. Top \in ReadCalls
    BY <2>1, <2>2 DEF Calls, OpenCalls, BodyCalls
  <2>4. c \in Calls /\ c.call = Top.call /\ c.handle = Top.handle
    BY <2>3 DEF Calls, ReadCalls
  <2> HIDE DEF c
  <2>5. /\ s \in Seq(Calls) /\ Len(s) = Len(Pop) + 1
        /\ \A i \in 1..Len(Pop) : s[i] = Pop[i]
        /\ s[Len(Pop) + 1] = c
    BY <2>2, <2>4, AppendFacts
  <2> HIDE DEF n, s
  <2>6. Len(s) = n /\ n - 1 + 1 = n /\ n \in 1..n
        /\ \A i \in 1..n : (i \in 1..n - 1 /\ i # n /\ i < n) \/ i = n
    BY <2>2, <2>5
  <2>7. \A i \in 1..n : s[i].call = calls[i].call /\ s[i].handle = calls[i].handle
    <3> SUFFICES ASSUME NEW i \in 1..n
                 PROVE  s[i].call = calls[i].call /\ s[i].handle = calls[i].handle
      OBVIOUS
    <3>1. CASE i \in 1..n - 1
      BY <3>1, <2>2, <2>5
    <3>2. CASE i = n
      BY <3>2, <2>2, <2>4, <2>5, <2>6
    <3> QED BY <3>1, <3>2, <2>6
  <2>8. \A i \in 1..n : calls[i].call = "walk" \/ (calls[i].call = "read_parquet" /\ i = n /\ calls[i].handle = h)
    <3> SUFFICES ASSUME NEW i \in 1..n
                 PROVE  \/ calls[i].call = "walk"
                        \/ calls[i].call = "read_parquet" /\ i = n /\ calls[i].handle = h
      OBVIOUS
    <3>1. CASE i \in 1..n - 1 /\ i # n /\ i < n
      <4>1. calls[i].call = "read_parquet" => i + 1 = n /\ calls[n].call # "read_parquet"
        BY <3>1, <2>6 DEF HandleInv, StackInv, n
      <4> QED BY <3>1, <4>1, <2>1, <2>2 DEF HandleInv, StackInv, n
    <3>2. CASE i = n
      BY <3>2, <1>2, <2>1, <2>2
    <3> QED BY <3>1, <3>2, <2>6
  <2>9. StartRead(h, "collect", s) /\ n = Len(calls)
    BY <1>2 DEF n, s, c
  <2> QED BY <2>5, <2>6, <2>7, <2>8, <2>9, StartReadKeeps
<1> QED BY <1>1, <1>2 DEF qio_parquet_collect

\* Every step of a session keeps the invariant.
LEMMA NextHandle == HandleInv /\ [HandleNext]_handleVars => HandleInv'
<1> SUFFICES ASSUME HandleInv, [HandleNext]_handleVars PROVE HandleInv'
  OBVIOUS
<1> USE DEF Running
<1>0. /\ MappingKinds \subseteq AllKinds /\ ReaderKinds \subseteq AllKinds
      /\ {"reader", "stream", "own_stream"} \subseteq AllKinds
      /\ AllKinds = ReaderKinds \union {"stream"}
  BY DEF AllKinds, ReaderKinds, MappingKinds
<1>b. ASSUME calls # <<>>, Top.call = "open", Top.step \in {"mapped", "unmapped", "reader"}
      PROVE  <<Top.handle, "reader">> \in resources
  <2>1. Len(calls) \in 1..Len(calls) /\ Top = calls[Len(calls)]
    BY <1>b, PopFacts DEF HandleInv, HandleTypes
  <2> QED BY <1>b, <2>1 DEF HandleInv, OpenInv
<1>1. CASE OpenStream
  <2>1. calls # <<>> /\ Top.call = "open" /\ HeldAt(Top.step) = {} /\ HeldAt("stream") = {"stream"}
    BY <1>1 DEF OpenStream, HeldAt
  <2>2. CASE OpenedAs("stream", {"stream"})
    BY <2>1, <2>2, <1>0, OpenedAsKeeps DEF Steps
  <2>3. CASE OpenFails({})
    BY <2>1, <2>3, OpenFailsKeeps
  <2> QED BY <1>1, <2>2, <2>3 DEF OpenStream
<1>2. CASE carquet_reader_open_file
  <2>1. /\ calls # <<>> /\ Top.call = "open" /\ HeldAt(Top.step) = {"stream"}
        /\ HeldAt("reader") = AllKinds
    BY <1>2 DEF carquet_reader_open_file, HeldAt
  <2>2. CASE OpenedAs("reader", {"reader"})
    BY <2>1, <2>2, <1>0, OpenedAsKeeps DEF Steps
  <2>3. CASE OpenFails({"stream"})
    BY <2>1, <2>3, <1>0, OpenFailsKeeps
  <2> QED BY <1>2, <2>2, <2>3 DEF carquet_reader_open_file
<1>3. CASE carquet_mmap_open
  <2>1. /\ calls # <<>> /\ Top.call = "open" /\ HeldAt(Top.step) = {}
        /\ HeldAt("mapped") = {"reader"} \union MappingKinds
        /\ HeldAt("unmapped") = {"reader"} \union MappingKinds
    BY <1>3 DEF carquet_mmap_open, HeldAt
  <2>2. CASE OpenedAs("mapped", {"reader"} \union MappingKinds)
    BY <2>1, <2>2, <1>0, OpenedAsKeeps DEF Steps
  <2>3. CASE OpenedAs("unmapped", {"reader"})
    BY <2>1, <2>3, <1>0, OpenedAsKeeps DEF Steps
  <2>4. CASE OpenFails({})
    BY <2>1, <2>4, OpenFailsKeeps
  <2> QED BY <1>3, <2>2, <2>3, <2>4 DEF carquet_mmap_open
<1>4. CASE carquet_reader_open
  <2>1. /\ calls # <<>> /\ Top.call = "open" /\ Top.step \in {"mapped", "unmapped"}
        /\ HeldAt(Top.step) = {"reader"} \union MappingKinds
        /\ HeldAt("reader") = AllKinds
    BY <1>4 DEF carquet_reader_open, HeldAt
  <2>2. <<Top.handle, "reader">> \in resources
    BY <2>1, <1>b
  <2>3. CASE OpenedAs("reader", IF Top.step = "mapped" THEN {} ELSE {"own_stream"})
    <3> DEFINE kinds == IF Top.step = "mapped" THEN {} ELSE {"own_stream"}
    <3>1. kinds \in SUBSET AllKinds /\ HeldAt(Top.step) \union kinds \subseteq HeldAt("reader")
      BY <2>1, <1>0
    <3>2. OpenedAs("reader", kinds)
      BY <2>3
    <3> HIDE DEF kinds
    <3> QED BY <2>1, <2>2, <3>1, <3>2, OpenedAsKeeps DEF Steps
  <2>4. CASE OpenFails({"reader"} \union MappingKinds)
    BY <2>1, <2>4, <1>0, OpenFailsKeeps
  <2> QED BY <1>4, <2>3, <2>4 DEF carquet_reader_open
<1>5. CASE qio_parquet_open
  <2>1. /\ calls # <<>> /\ Top.call = "open" /\ Top.step = "reader"
        /\ HeldAt(Top.step) = ReaderKinds \union {"stream"}
    BY <1>5 DEF qio_parquet_open, HeldAt, AllKinds
  <2>2. CASE OpenFails(ReaderKinds \union {"stream"})
    BY <2>1, <2>2, <1>0, OpenFailsKeeps
  <2>3. CASE ~OpenFails(ReaderKinds \union {"stream"})
    BY <1>5, <2>1, <2>3, OpenSucceeds DEF qio_parquet_open
  <2> QED BY <2>2, <2>3
<1>6. CASE qio_batch_cleanup \/ ReadParquetReturns
  BY <1>6, CleanupKeeps, ReadParquetReturnsKeeps
<1>7. ASSUME NEW h \in Handles,
             \/ open_parquet(h) \/ OpenToRead(h) \/ close_parquet(h) \/ Drop(h)
             \/ qio_finalize_file(h) \/ qio_parquet_collect(h) \/ qio_parquet_walk(h)
      PROVE  HandleInv'
  <2>1. CASE open_parquet(h)
    <3>1. <<>> \in Seq(Calls) /\ Len(<<>>) = 0
      OBVIOUS
    <3> QED BY <2>1, <3>1, ResolveKeeps DEF open_parquet
  <2>2. CASE OpenToRead(h)
    <3> DEFINE c == [call |-> "read_parquet", handle |-> h, read |-> FALSE]  s == <<c>>
    <3>1. c \in Calls /\ c.call = "read_parquet" /\ c.handle = h
      BY DEF Calls, ReadCalls
    <3>2. PICK remote \in BOOLEAN : Resolve(h, remote, TRUE, s)
      BY <2>2 DEF OpenToRead
    <3> HIDE DEF c
    <3>3. s \in Seq(Calls) /\ Len(s) = 1 /\ s[1] = c
      BY <3>1
    <3> HIDE DEF s
    <3> QED BY <3>1, <3>2, <3>3, ResolveKeeps
  <2>3. CASE qio_parquet_walk(h)
    <3>1. calls \in Seq(Calls) /\ \A i \in 1..Len(calls) : calls[i].call = "walk"
      BY <2>3, UserStack DEF HandleInv, HandleTypes, qio_parquet_walk
    <3> QED BY <2>3, <3>1, StartReadKeeps DEF qio_parquet_walk
  <2> QED BY <1>7, <2>1, <2>2, <2>3, CloseKeeps, DropKeeps, FinalizeKeeps, CollectKeeps
<1>8. CASE UNCHANGED handleVars
  <2> USE <1>8 DEF handleVars
  <2>1. HandleTypes' <=> HandleTypes
    BY DEF HandleTypes
  <2>2. StackInv' <=> StackInv
    BY DEF StackInv
  <2>3. BodyInv' <=> BodyInv
    BY DEF BodyInv, IsBody
  <2>4. OpenInv' <=> OpenInv
    BY DEF OpenInv
  <2>5. OwnInv' <=> OwnInv
    BY DEF OwnInv
  <2>6. NothingLeftBehind' <=> NothingLeftBehind
    BY DEF NothingLeftBehind, OnStack
  <2> QED BY <2>1, <2>2, <2>3, <2>4, <2>5, <2>6 DEF HandleInv
<1>9. DOMAIN handles = Handles
  BY DEF HandleInv, HandleTypes
<1> QED BY <1>1, <1>2, <1>3, <1>4, <1>5, <1>6, <1>7, <1>8, <1>9 DEF HandleNext

\* HandleInv holds throughout a session, with any number of handles and calls
\* nested to any depth.
THEOREM HandleInvariant == HandleSpec => []HandleInv
BY InitHandle, NextHandle, PTL DEF HandleSpec

\* No read outlives what it reads from, for any number of handles and any nesting:
\* while a collect or a walk is on the stack its handle is open and marked busy,
\* so neither close_parquet() nor the finalizer releases its reader or its file.
THEOREM ReadKeepsItsFileHolds == HandleSpec => []ReadKeepsItsFile
<1>1. HandleInv => ReadKeepsItsFile
  <2>1. HandleInv => DOMAIN calls = 1..Len(calls) /\ DOMAIN handles = Handles
    BY DEF HandleInv, HandleTypes
  <2>2. HandleInv => \A i \in 1..Len(calls) : calls[i].call \in {"collect", "walk"} =>
          handles[calls[i].handle].state = "open" /\ handles[calls[i].handle].busy
    BY DEF HandleInv, BodyInv, IsBody
  <2>3. HandleInv => \A h \in Handles : handles[h].state = "open" =>
          <<h, "reader">> \in resources /\ handles[h].path \in disk
    BY DEF HandleInv, OwnInv
  <2> QED BY <2>1, <2>2, <2>3 DEF ReadKeepsItsFile
<1> QED BY <1>1, HandleInvariant, PTL

\* Whatever fails while a file is opened, and however handles are closed, dropped
\* or read inside callbacks, a reader, a stream, a mapping or a downloaded copy is
\* held only by an open handle or the call opening it (the copy also by a handle
\* that was dropped unclosed), and the user's own file is never removed.
THEOREM NothingLeftBehindHolds == HandleSpec => []NothingLeftBehind
<1>1. HandleInv => NothingLeftBehind
  BY DEF HandleInv
<1> QED BY <1>1, HandleInvariant, PTL
===============================================================================
