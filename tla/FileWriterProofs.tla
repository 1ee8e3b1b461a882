--------------------------- MODULE FileWriterProofs ---------------------------
(***************************************************************************)
(* What every operation of FileWriter keeps, for any number of columns,    *)
(* rows and row groups, any sizes and any mix of bloom filters and page    *)
(* indexes.  First the operators: a file that is overwritten from some     *)
(* cell on, row groups that stay readable when the file grows, the footer  *)
(* found or not found at the end of a file.  Then the invariant WriterInv  *)
(* and one lemma for each operation; WriterClientProofs and                *)
(* WriteParquetProofs use them for the two callers.                        *)
(*                                                                         *)
(* The one induction over data is about Joined, which reads the chunks of  *)
(* a column one after the other.  It goes by least counterexample: a set   *)
(* of numbers that is not empty has a least element (WFMin).               *)
(***************************************************************************)
EXTENDS FileWriter, WellFoundedInduction, TLAPS

-------------------------------------------------------------------------------
(* Sequences.                                                              *)

\* Two sequences, one after the other.
LEMMA ConcatFacts ==
  ASSUME NEW S, NEW s \in Seq(S), NEW t \in Seq(S)
  PROVE  /\ s \o t \in Seq(S) /\ Len(s \o t) = Len(s) + Len(t)
         /\ \A i \in 1..Len(s) + Len(t) :
              (s \o t)[i] = IF i <= Len(s) THEN s[i] ELSE t[i - Len(s)]
  OBVIOUS

\* What is in a sequence is of its type.
LEMMA Element ==
  ASSUME NEW S, NEW s \in Seq(S), NEW i \in 1..Len(s)
  PROVE  s[i] \in S
  OBVIOUS

\* Sequences that agree everywhere are equal.
LEMMA SameSequence ==
  ASSUME NEW S, NEW s \in Seq(S), NEW t \in Seq(S), Len(s) = Len(t),
         \A i \in 1..Len(s) : s[i] = t[i]
  PROVE  s = t
  OBVIOUS

-------------------------------------------------------------------------------
(* Induction over the natural numbers, and joining sequences.              *)

\* A nonempty set of natural numbers has a least element.
LEMMA LeastNat ==
  ASSUME NEW T \in SUBSET Nat, T # {}
  PROVE  \E x \in T : \A y \in T : x <= y
<1> DEFINE R == OpToRel(<, Nat)
<1>1. IsWellFoundedOn(R, Nat)
  BY NatLessThanWellFounded, Zenon
<1>2. \A x, y \in Nat : x < y => <<x, y>> \in R
  BY DEF OpToRel
<1> HIDE DEF R
<1>3. PICK x \in T : \A y \in T : ~(<<y, x>> \in R)
  BY <1>1, WFMin, Zenon
<1>4. \A y \in T : ~(y < x)
  BY <1>2, <1>3, Zenon
<1> QED BY <1>4

\* Induction, for a property given by the set of numbers that have it.
LEMMA SetInduction ==
  ASSUME NEW T, 0 \in T, \A n \in Nat : n \in T => n + 1 \in T
  PROVE  Nat \subseteq T
<1> SUFFICES ASSUME Nat \ T # {} PROVE FALSE
  OBVIOUS
<1>1. PICK x \in Nat \ T : \A y \in Nat \ T : x <= y
  BY LeastNat, Zenon
<1>2. x # 0 /\ x - 1 \in Nat /\ ~(x <= x - 1)
  OBVIOUS
<1>3. x - 1 \in T
  BY <1>1, <1>2
<1> QED BY <1>1, <1>2, <1>3

\* f is the recursive function of Joined for the first n of the chunks.
IsJoin(f, chunks, n) ==
  f = [i \in 0..n |-> IF i = 0 THEN <<>> ELSE f[i - 1] \o chunks[i]]

\* Joined takes the last value of that function.
LEMMA JoinDef ==
  ASSUME NEW ss
  PROVE  Joined(ss) = (CHOOSE f : IsJoin(f, ss, Len(ss)))[Len(ss)]
  BY DEF Joined, IsJoin

\* The function for n chunks gives the one for n + 1.
LEMMA JoinExtends ==
  ASSUME NEW ss, NEW n \in Nat, NEW f, IsJoin(f, ss, n)
  PROVE  IsJoin([i \in 0..n + 1 |-> IF i = n + 1 THEN f[n] \o ss[n + 1] ELSE f[i]],
                ss, n + 1)
<1> DEFINE g == [i \in 0..n + 1 |-> IF i = n + 1 THEN f[n] \o ss[n + 1] ELSE f[i]]
<1>1. \A i \in 0..n : f[i] = IF i = 0 THEN <<>> ELSE f[i - 1] \o ss[i]
  BY Zenon DEF IsJoin
<1>2. ASSUME NEW i \in 0..n + 1
      PROVE  g[i] = IF i = 0 THEN <<>> ELSE g[i - 1] \o ss[i]
  <2>1. CASE i = n + 1
    <3>1. g[i] = f[n] \o ss[n + 1] /\ g[i - 1] = f[n] /\ i # 0
      BY <2>1
    <3> QED BY <3>1, <2>1
  <2>2. CASE i = 0
    BY <1>1, <2>2
  <2>3. CASE i \in 1..n
    <3>1. g[i] = f[i] /\ g[i - 1] = f[i - 1] /\ i # 0 /\ i \in 0..n
      BY <2>3
    <3> QED BY <1>1, <3>1, Zenon
  <2> QED BY <2>1, <2>2, <2>3
<1> HIDE DEF g
<1>3. g = [i \in 0..n + 1 |-> g[i]]
  BY DEF g
<1>4. g = [i \in 0..n + 1 |-> IF i = 0 THEN <<>> ELSE g[i - 1] \o ss[i]]
  BY <1>2, <1>3, Zenon
<1> QED BY <1>4 DEF g, IsJoin

\* The function exists for any number of chunks.
LEMMA JoinExists ==
  ASSUME NEW ss, NEW n \in Nat
  PROVE  \E f : IsJoin(f, ss, n)
<1> DEFINE T == {k \in Nat : \E f : IsJoin(f, ss, k)}
<1>1. 0 \in T
  <2>1. IsJoin([i \in 0..0 |-> <<>>], ss, 0)
    BY DEF IsJoin
  <2> QED BY <2>1
<1>2. ASSUME NEW k \in Nat, k \in T PROVE k + 1 \in T
  <2>1. PICK f : IsJoin(f, ss, k)
    BY <1>2
  <2>2. \E g : IsJoin(g, ss, k + 1)
    BY <2>1, JoinExtends, Zenon
  <2> QED BY <2>2
<1>3. Nat \subseteq T
  <2> HIDE DEF T
  <2> QED BY <1>1, <1>2, SetInduction
<1> QED BY <1>3

\* Its value depends only on the chunks joined so far.
LEMMA JoinUnique ==
  ASSUME NEW ss, NEW tt, NEW m \in Nat, NEW n \in Nat, NEW f, NEW g,
         IsJoin(f, ss, m), IsJoin(g, tt, n),
         NEW l \in Nat, l <= m, l <= n, \A i \in 1..l : ss[i] = tt[i]
  PROVE  f[l] = g[l]
<1> DEFINE T == {k \in Nat : k <= l => f[k] = g[k]}
<1>0. /\ \A i \in 0..m : f[i] = IF i = 0 THEN <<>> ELSE f[i - 1] \o ss[i]
      /\ \A i \in 0..n : g[i] = IF i = 0 THEN <<>> ELSE g[i - 1] \o tt[i]
  BY DEF IsJoin
<1>1. 0 \in T
  BY <1>0
<1>2. ASSUME NEW k \in Nat, k \in T PROVE k + 1 \in T
  <2> SUFFICES ASSUME k + 1 <= l PROVE f[k + 1] = g[k + 1]
    OBVIOUS
  <2> DEFINE j == k + 1
  <2>1. j \in 0..m /\ j \in 0..n /\ j # 0 /\ j - 1 = k /\ j \in 1..l
    OBVIOUS
  <2>2. f[k] = g[k]
    BY <1>2
  <2> HIDE DEF j
  <2>3. f[j] = f[k] \o ss[j] /\ g[j] = g[k] \o tt[j]
    BY <1>0, <2>1, Zenon
  <2>4. ss[j] = tt[j]
    BY <2>1
  <2>5. f[j] = g[j]
    BY <2>2, <2>3, <2>4
  <2> QED BY <2>5 DEF j
<1>3. Nat \subseteq T
  <2> HIDE DEF T
  <2> QED BY <1>1, <1>2, SetInduction
<1> QED BY <1>3

\* One more chunk is joined at the end.
LEMMA JoinedAppend ==
  ASSUME NEW S, NEW ss \in Seq(S), NEW tt, NEW s,
         Len(tt) = Len(ss) + 1, tt[Len(ss) + 1] = s, \A i \in 1..Len(ss) : tt[i] = ss[i]
  PROVE  Joined(tt) = Joined(ss) \o s
<1> DEFINE n == Len(ss)
           j == n + 1
<1>0. n \in Nat /\ Len(tt) = j /\ tt[j] = s /\ \A i \in 1..n : ss[i] = tt[i]
  OBVIOUS
<1>j. j \in Nat /\ n <= j /\ j # 0 /\ j - 1 = n /\ j \in 0..j /\ n <= n
  OBVIOUS
<1>1. PICK f : IsJoin(f, ss, n) /\ Joined(ss) = f[n]
  <2> HIDE DEF j
  <2> QED BY <1>0, JoinDef, JoinExists, Zenon
<1> HIDE DEF n, j
<1>2. PICK g : IsJoin(g, tt, j) /\ Joined(tt) = g[j]
  BY <1>0, <1>j, JoinDef, JoinExists, Zenon
<1>3. f[n] = g[n]
  BY <1>0, <1>j, <1>1, <1>2, JoinUnique
<1>4. g[j] = g[n] \o tt[j]
  BY <1>2, <1>j, Zenon DEF IsJoin
<1> QED BY <1>0, <1>1, <1>2, <1>3, <1>4

\* Of no chunks nothing is read.
LEMMA JoinedEmpty == Joined(<<>>) = <<>>
<1>1. PICK f : IsJoin(f, <<>>, 0) /\ Joined(<<>>) = f[0]
  BY JoinDef, JoinExists, Zenon
<1> QED BY <1>1 DEF IsJoin

-------------------------------------------------------------------------------
(* What cells and metadata are made of.                                    *)

\* What a row group has beside its data, where it lies, and for which column.
AuxKindNames == {"bloom", "column_index", "offset_index"}

AuxEntries == [kind : AuxKindNames, c : Columns, at : Nat]

\* A row group as the writer keeps it, and as a footer lists it.
Recorded == [rows : Nat, data : [Columns -> Nat], aux : Seq(AuxEntries)]
Listed == [rows : Nat, data : [Columns -> Nat], aux : Seq(AuxEntries), sorted : BOOLEAN]

\* The cells of a file.
Cell == [k : {"absent", "magic"}]
        \union [k : {"data"} \union AuxKindNames, c : Columns, rows : Seq(Nat)]
        \union [k : {"footer"}, groups : Seq(Listed), i : Nat]
        \union [k : {"tail"}, len : Nat]

\* Cells that a reader of the footer does not take for a part of it.
DataOnly(cells) == \A i \in DOMAIN cells : cells[i].k \notin {"tail", "footer"}

\* The row group lies in the first l cells of d, with chunks of equal length
\* and with its bloom filters and page indexes.
GroupIn(d, g, l) ==
  /\ \A c \in Columns : /\ g.data[c] < l
                        /\ d[g.data[c] + 1].k = "data" /\ d[g.data[c] + 1].c = c
                        /\ Len(d[g.data[c] + 1].rows) = g.rows
  /\ \A a \in DOMAIN g.aux : g.aux[a].at < l
  /\ AuxIntact(d, g)

\* All row groups do.
Sound(d, gs, l) == l <= Len(d) /\ \A i \in DOMAIN gs : GroupIn(d, gs[i], l)

\* The files d and e begin with the same l cells; the cells q are in e from
\* position at on; the columns cs are n rows long.
Agree(d, e, l) == l <= Len(d) /\ l <= Len(e) /\ \A i \in 1..l : e[i] = d[i]
HasAt(e, at, q) == at + Len(q) <= Len(e) /\ \A i \in 1..Len(q) : e[at + i] = q[i]
AllLong(cs, n) == \A c \in Columns : Len(cs[c]) = n

\* The n rows that follow row f.
Run(f, n) == [i \in 1..n |-> f + i]

\* What kind of cell it is tells what it holds.
LEMMA CellFields ==
  ASSUME NEW x \in Cell
  PROVE  /\ x.k = "data" => x.rows \in Seq(Nat)
         /\ x.k = "footer" => x.groups \in Seq(Listed)
         /\ x.k = "tail" => x.len \in Nat
  BY DEF Cell, AuxKindNames

\* A footer is one cell or more long.
LEMMA FooterSizeNat ==
  ASSUME NEW gs \in Seq(Listed)
  PROVE  FooterSize(gs) \in Nat /\ FooterSize(gs) > 0
<1> DEFINE n == Len(SelectSeq(gs, Sorted))
<1>1. n \in Nat
  OBVIOUS
<1>2. Len(gs) \in Nat /\ FooterSize(gs) = 1 + Len(gs) + SortCost * n
  BY DEF FooterSize
<1> HIDE DEF n
<1>3. SortCost * n \in Nat
  BY <1>1, FileAssumption
<1> DEFINE k == SortCost * n
<1>4. k \in Nat /\ FooterSize(gs) = 1 + Len(gs) + k
  BY <1>2, <1>3
<1> HIDE DEF k
<1> QED BY <1>2, <1>4

\* The file after writing over it: its old cells before and behind, the new
\* ones between.
LEMMA OverlayFacts ==
  ASSUME NEW d \in Seq(Cell), NEW b \in Nat, b <= Len(d), NEW o \in Seq(Cell)
  PROVE  /\ Overlay(d, b, o) \in Seq(Cell)
         /\ b + Len(o) <= Len(Overlay(d, b, o))
         /\ Len(d) <= Len(Overlay(d, b, o))
         /\ Len(Overlay(d, b, o)) \in {Len(d), b + Len(o)}
         /\ \A i \in 1..b : Overlay(d, b, o)[i] = d[i]
         /\ \A i \in 1..Len(o) : Overlay(d, b, o)[b + i] = o[i]
         /\ \A i \in 1..Len(d) : i > b + Len(o) => Overlay(d, b, o)[i] = d[i]
<1> DEFINE n == Len(o)
           m == Len(d)
           l == IF b + n > m THEN b + n ELSE m
           e == [i \in 1..l |-> IF i \in b + 1..b + n THEN o[i - b] ELSE d[i]]
<1>1. n \in Nat /\ m \in Nat /\ l \in Nat /\ l >= b + n /\ l >= m /\ l \in {m, b + n}
  OBVIOUS
<1>2. \A i \in 1..n : o[i] \in Cell
  BY Element
<1>3. \A i \in 1..m : d[i] \in Cell
  BY Element
<1>4. Overlay(d, b, o) = e
  BY DEF Overlay
<1>5. b <= m
  OBVIOUS
<1> HIDE DEF n, m, l
<1>6. \A i \in 1..l : i \in b + 1..b + n \/ i \in 1..m
  BY <1>1, <1>5 DEF l
<1>7. \A i \in b + 1..b + n : i - b \in 1..n
  BY <1>1
<1>8. ASSUME NEW i \in 1..l PROVE e[i] \in Cell
  BY <1>2, <1>3, <1>6, <1>7, <1>8
<1>9. e \in Seq(Cell) /\ Len(e) = l
  BY <1>1, <1>8
<1>10. \A i \in 1..b : e[i] = d[i]
  BY <1>1, <1>5
<1>11. ASSUME NEW i \in 1..n PROVE e[b + i] = o[i]
  <2> DEFINE j == b + i
  <2>1. j \in 1..l /\ j \in b + 1..b + n /\ j - b = i
    BY <1>1
  <2> HIDE DEF j
  <2>2. e[j] = o[i]
    BY <2>1
  <2> QED BY <2>2 DEF j
<1>12. \A i \in 1..m : i > b + n => e[i] = d[i]
  BY <1>1
<1> HIDE DEF e
<1> QED BY <1>1, <1>4, <1>9, <1>10, <1>11, <1>12 DEF n, m

\* Writing nothing changes nothing.
LEMMA OverlayNothing ==
  ASSUME NEW d \in Seq(Cell), NEW b \in Nat, b <= Len(d)
  PROVE  Overlay(d, b, <<>>) = d
<1>1. Overlay(d, b, <<>>) \in Seq(Cell) /\ Len(Overlay(d, b, <<>>)) = Len(d)
  BY DEF Overlay
<1>2. \A i \in 1..Len(d) : Overlay(d, b, <<>>)[i] = d[i]
  BY DEF Overlay
<1> QED BY <1>1, <1>2, SameSequence

\* A footer that a reader finds: where it is, and that it lists row groups.
LEMMA FooterFacts ==
  ASSUME NEW d \in Seq(Cell), ReadFooter(d) # NoFooter
  PROVE  /\ Len(d) > 0 /\ d[Len(d)].k = "tail" /\ d[Len(d)].len \in Nat
         /\ FooterStart(d) \in Nat /\ FooterStart(d) < Len(d)
         /\ d[FooterStart(d) + 1].k = "footer"
         /\ ReadFooter(d) = d[FooterStart(d) + 1].groups
         /\ ReadFooter(d) \in Seq(Listed)
<1> DEFINE n == Len(d)
           s == FooterStart(d) + 1
<1>1. n \in Nat /\ n # 0 /\ d[n].k = "tail" /\ ~(d[n].len > n - 1)
  BY DEF ReadFooter
<1>2. d[n] \in Cell
  BY <1>1, Element
<1>3. d[n].len \in Nat
  BY <1>1, <1>2, CellFields
<1>4. FooterStart(d) = n - 1 - d[n].len
  BY DEF FooterStart
<1>5. FooterStart(d) \in Nat /\ FooterStart(d) < n /\ s \in 1..n
  <2> HIDE DEF n
  <2> QED BY <1>1, <1>3, <1>4
<1>6. d[s].k = "footer" /\ ReadFooter(d) = d[s].groups
  BY <1>1 DEF ReadFooter
<1>7. d[s] \in Cell
  BY <1>5, Element
<1> HIDE DEF n, s
<1>8. ReadFooter(d) \in Seq(Listed)
  BY <1>6, <1>7, CellFields
<1> QED BY <1>1, <1>3, <1>5, <1>6, <1>8 DEF n, s

\* No list of row groups is the value for a missing footer.
LEMMA ListIsFooter ==
  ASSUME NEW gs \in Seq(Listed)
  PROVE  gs # NoFooter
<1>0. \A i \in 1..Len(gs) : gs[i] \in Listed
  BY Element
<1> SUFFICES ASSUME gs = NoFooter PROVE FALSE
  OBVIOUS
<1>1. Len(gs) = 1 /\ gs[1] = [k |-> "none"]
  BY DEF NoFooter
<1>2. gs[1] \in Listed
  BY <1>0, <1>1
<1>3. "rows" \in DOMAIN gs[1]
  BY <1>2 DEF Listed
<1>4. "rows" \notin DOMAIN [k |-> "none"]
  OBVIOUS
<1> QED BY <1>1, <1>3, <1>4

\* What lies in the first l cells stays readable while these are the same.
LEMMA GroupFrame ==
  ASSUME NEW d \in Seq(Cell), NEW e \in Seq(Cell), NEW l \in Nat, NEW m \in Nat,
         Agree(d, e, l), l <= m, m <= Len(e),
         NEW g, g.data \in [Columns -> Nat], g.aux \in Seq(AuxEntries), GroupIn(d, g, l)
  PROVE  /\ GroupIn(e, g, m)
         /\ \A c \in Columns : /\ ReadChunk(d, g, c) = d[g.data[c] + 1].rows
                               /\ ReadChunk(e, g, c) = ReadChunk(d, g, c)
<1> DEFINE at(c) == g.data[c] + 1
<1>0. /\ DOMAIN d = 1..Len(d) /\ DOMAIN e = 1..Len(e) /\ Len(d) \in Nat /\ Len(e) \in Nat
      /\ l <= Len(d) /\ l <= Len(e) /\ \A i \in 1..l : e[i] = d[i]
  BY DEF Agree
<1>1. ASSUME NEW c \in Columns
      PROVE  at(c) \in 1..l /\ at(c) \in DOMAIN d /\ at(c) \in DOMAIN e /\ e[at(c)] = d[at(c)]
             /\ g.data[c] < m
  <2>1. g.data[c] \in Nat /\ g.data[c] < l
    BY DEF GroupIn
  <2>2. at(c) \in 1..l
    BY <2>1
  <2> HIDE DEF at
  <2> QED BY <1>0, <2>1, <2>2
<1>2. ASSUME NEW c \in Columns
      PROVE  /\ ReadChunk(d, g, c) = d[at(c)].rows
             /\ ReadChunk(e, g, c) = ReadChunk(d, g, c)
  <2>1. d[at(c)].k = "data" /\ d[at(c)].c = c
    BY DEF GroupIn
  <2> QED BY <1>1, <2>1 DEF ReadChunk
<1>3. ASSUME NEW a \in DOMAIN g.aux
      PROVE  /\ g.aux[a].at < m
             /\ g.aux[a].at + 1 \in DOMAIN e
             /\ e[g.aux[a].at + 1].k = g.aux[a].kind
             /\ e[g.aux[a].at + 1] =
                  Aux(g.aux[a].kind, g.aux[a].c, ReadChunk(e, g, g.aux[a].c))
  <2> DEFINE i == g.aux[a].at + 1
  <2>1. g.aux[a] \in AuxEntries
    BY Element
  <2>2. g.aux[a].at \in Nat /\ g.aux[a].c \in Columns
    BY <2>1 DEF AuxEntries
  <2>3. g.aux[a].at < l
    BY DEF GroupIn
  <2>4. i \in 1..l /\ g.aux[a].at < m
    <3> DEFINE p == g.aux[a].at
    <3>1. p \in Nat /\ p < l
      BY <2>2, <2>3
    <3> HIDE DEF p
    <3>2. p + 1 \in 1..l /\ p < m
      BY <3>1
    <3> QED BY <3>2 DEF p
  <2>5. /\ d[i].k = g.aux[a].kind
        /\ d[i] = Aux(g.aux[a].kind, g.aux[a].c, ReadChunk(d, g, g.aux[a].c))
    BY DEF GroupIn, AuxIntact
  <2> HIDE DEF i
  <2>6. e[i] = d[i] /\ i \in DOMAIN e
    BY <1>0, <2>4
  <2>7. ReadChunk(e, g, g.aux[a].c) = ReadChunk(d, g, g.aux[a].c)
    BY <1>2, <2>2
  <2>8. /\ g.aux[a].at < m /\ i \in DOMAIN e /\ e[i].k = g.aux[a].kind
        /\ e[i] = Aux(g.aux[a].kind, g.aux[a].c, ReadChunk(e, g, g.aux[a].c))
    BY <2>4, <2>5, <2>6, <2>7
  <2> QED BY <2>8 DEF i
<1>4. AuxIntact(e, g)
  BY <1>3 DEF AuxIntact
<1>5. GroupIn(e, g, m)
  <2>1. ASSUME NEW c \in Columns
        PROVE  /\ g.data[c] < m
               /\ e[at(c)].k = "data" /\ e[at(c)].c = c
               /\ Len(e[at(c)].rows) = g.rows
    BY <1>1 DEF GroupIn
  <2> QED BY <1>3, <1>4, <2>1 DEF GroupIn
<1> QED BY <1>2, <1>5

\* The same for all row groups of a file, and so for its columns.
LEMMA SoundFrame ==
  ASSUME NEW d \in Seq(Cell), NEW e \in Seq(Cell), NEW l \in Nat, NEW m \in Nat,
         Agree(d, e, l), l <= m, m <= Len(e),
         NEW gs \in Seq(Recorded) \union Seq(Listed), Sound(d, gs, l)
  PROVE  /\ Sound(e, gs, m)
         /\ \A c \in Columns : ColumnOf(e, gs, c) = ColumnOf(d, gs, c)
<1>1. ASSUME NEW i \in DOMAIN gs
      PROVE  gs[i].data \in [Columns -> Nat] /\ gs[i].aux \in Seq(AuxEntries)
  <2>1. gs[i] \in Recorded \/ gs[i] \in Listed
    BY Element
  <2> QED BY <2>1 DEF Recorded, Listed
<1>2. ASSUME NEW i \in DOMAIN gs
      PROVE  /\ GroupIn(e, gs[i], m)
             /\ \A c \in Columns : ReadChunk(e, gs[i], c) = ReadChunk(d, gs[i], c)
  BY <1>1, GroupFrame DEF Sound
<1>3. Sound(e, gs, m)
  BY <1>2 DEF Sound
<1>4. ASSUME NEW c \in Columns PROVE ColumnOf(e, gs, c) = ColumnOf(d, gs, c)
  <2>1. [i \in DOMAIN gs |-> ReadChunk(e, gs[i], c)]
          = [i \in DOMAIN gs |-> ReadChunk(d, gs[i], c)]
    BY <1>2
  <2> QED BY <2>1 DEF ColumnOf
<1> QED BY <1>3, <1>4

-------------------------------------------------------------------------------
(* Writing a row group.                                                    *)

\* The bloom filters and page indexes of a row group, in the order they are
\* written, are those of its columns.
LEMMA AuxKindsType == AuxKinds \in Seq(AuxKindNames \X Columns)
<1> DEFINE b == [c \in Columns |-> <<"bloom", c>>]
           x == [i \in 1..2 * NumColumns |->
                   <<IF i % 2 = 1 THEN "column_index" ELSE "offset_index", (i + 1) \div 2>>]
           S == AuxKindNames \X Columns
<1>1. b \in Seq(S)
  <2>1. \A c \in 1..NumColumns : b[c] \in S
    BY DEF Columns, AuxKindNames
  <2> QED BY <2>1, FileAssumption DEF Columns
<1>2. x \in Seq(S)
  <2>1. ASSUME NEW i \in 1..2 * NumColumns PROVE x[i] \in S
    <3>1. (i + 1) \div 2 \in 1..NumColumns
      BY FileAssumption
    <3> QED BY <3>1 DEF Columns, AuxKindNames
  <2>2. 2 * NumColumns \in Nat
    BY FileAssumption
  <2> HIDE DEF S
  <2> QED BY <2>1, <2>2
<1>3. <<>> \in Seq(S)
  OBVIOUS
<1> HIDE DEF S
<1>4. AuxKinds = (IF Bloom THEN b ELSE <<>>) \o (IF PageIndex THEN x ELSE <<>>)
  BY DEF AuxKinds
<1> HIDE DEF b, x
<1>5. AuxKinds \in Seq(S)
  BY <1>1, <1>2, <1>3, <1>4, ConcatFacts
<1> QED BY <1>5 DEF S

\* The chunks of all columns, then the bloom filters and page indexes.
LEMMA GroupCellsFacts ==
  ASSUME NEW cs \in [Columns -> Seq(Nat)]
  PROVE  /\ GroupCells(cs) \in Seq(Cell)
         /\ Len(GroupCells(cs)) = NumColumns + Len(AuxKinds)
         /\ \A c \in Columns : GroupCells(cs)[c] = Data(c, cs[c])
         /\ \A a \in DOMAIN AuxKinds :
              GroupCells(cs)[NumColumns + a] =
                Aux(AuxKinds[a][1], AuxKinds[a][2], cs[AuxKinds[a][2]])
         /\ DataOnly(GroupCells(cs))
<1> DEFINE n == NumColumns
           m == Len(AuxKinds)
           h == ChunkCells(cs)
           t == AuxCells(cs)
<1>0. n \in Nat /\ n > 0 /\ m \in Nat /\ DOMAIN AuxKinds = 1..m /\ Columns = 1..n
  BY FileAssumption, AuxKindsType DEF Columns
<1>1. ASSUME NEW c \in Columns
      PROVE  h[c] = Data(c, cs[c]) /\ h[c] \in Cell /\ h[c].k \notin {"tail", "footer"}
  BY DEF ChunkCells, Data, Cell
<1>2. ASSUME NEW a \in DOMAIN AuxKinds
      PROVE  /\ t[a] = Aux(AuxKinds[a][1], AuxKinds[a][2], cs[AuxKinds[a][2]])
             /\ t[a] \in Cell /\ t[a].k \notin {"tail", "footer"}
  <2>1. AuxKinds[a] \in AuxKindNames \X Columns
    BY AuxKindsType, Element
  <2>2. AuxKinds[a][1] \in AuxKindNames /\ AuxKinds[a][2] \in Columns
    BY <2>1
  <2> QED BY <2>2 DEF AuxCells, Aux, Cell, AuxKindNames
<1>3. h \in Seq(Cell) /\ Len(h) = n
  <2>1. h = [c \in 1..n |-> h[c]]
    BY <1>0 DEF ChunkCells
  <2> HIDE DEF h
  <2> QED BY <1>0, <1>1, <2>1
<1>4. t \in Seq(Cell) /\ Len(t) = m
  <2>1. t = [a \in 1..m |-> t[a]]
    BY <1>0 DEF AuxCells
  <2> HIDE DEF t
  <2> QED BY <1>0, <1>2, <2>1
<1>5. GroupCells(cs) = h \o t
  BY DEF GroupCells
<1> HIDE DEF n, m, h, t
<1>6. /\ h \o t \in Seq(Cell) /\ Len(h \o t) = n + m
      /\ \A i \in 1..n + m : (h \o t)[i] = IF i <= n THEN h[i] ELSE t[i - n]
  BY <1>3, <1>4, ConcatFacts, Zenon
<1>7. \A c \in Columns : (h \o t)[c] = h[c]
  BY <1>0, <1>6
<1>8. ASSUME NEW a \in 1..m PROVE (h \o t)[n + a] = t[a]
  <2> DEFINE j == n + a
  <2>1. j \in 1..n + m /\ ~(j <= n) /\ j - n = a
    BY <1>0
  <2> HIDE DEF j
  <2>2. (h \o t)[j] = t[a]
    BY <1>6, <2>1
  <2> QED BY <2>2 DEF j
<1>9. ASSUME NEW i \in 1..n + m PROVE (h \o t)[i].k \notin {"tail", "footer"}
  <2>1. CASE i <= n
    BY <1>0, <1>1, <1>6, <2>1
  <2>2. CASE ~(i <= n)
    <3>1. i - n \in 1..m
      BY <1>0, <2>2
    <3> QED BY <1>0, <1>2, <1>6, <2>2, <3>1, Zenon
  <2> QED BY <2>1, <2>2, Zenon
<1>10. DataOnly(h \o t)
  BY <1>6, <1>9 DEF DataOnly
<1>11. \A c \in Columns : (h \o t)[c] = Data(c, cs[c])
  BY <1>1, <1>7, Zenon
<1>12. \A a \in DOMAIN AuxKinds :
         (h \o t)[n + a] = Aux(AuxKinds[a][1], AuxKinds[a][2], cs[AuxKinds[a][2]])
  BY <1>0, <1>2, <1>8, Zenon
<1> QED BY <1>5, <1>6, <1>10, <1>11, <1>12, Zenon DEF n, m

\* What flush_row_group records.
LEMMA RowGroupType ==
  ASSUME NEW n \in Nat, NEW at \in Nat
  PROVE  RowGroup(n, at) \in Recorded
<1> DEFINE x == [i \in DOMAIN AuxKinds |->
                   [kind |-> AuxKinds[i][1], c |-> AuxKinds[i][2],
                    at |-> at + NumColumns + i - 1]]
           y == [c \in Columns |-> at + c - 1]
<1>0. NumColumns \in Nat /\ DOMAIN AuxKinds = 1..Len(AuxKinds) /\ Len(AuxKinds) \in Nat
  BY FileAssumption, AuxKindsType
<1>1. ASSUME NEW i \in 1..Len(AuxKinds) PROVE x[i] \in AuxEntries
  <2>1. AuxKinds[i] \in AuxKindNames \X Columns
    BY AuxKindsType, Element
  <2>2. AuxKinds[i][1] \in AuxKindNames /\ AuxKinds[i][2] \in Columns
    BY <2>1
  <2>3. at + NumColumns + i - 1 \in Nat
    BY <1>0
  <2> QED BY <1>0, <2>2, <2>3 DEF AuxEntries
<1>2. x \in Seq(AuxEntries)
  <2>1. x \in [1..Len(AuxKinds) -> AuxEntries]
    BY <1>0, <1>1
  <2> HIDE DEF x
  <2> QED BY <1>0, <2>1
<1>3. y \in [Columns -> Nat]
  BY <1>0 DEF Columns
<1>4. RowGroup(n, at) = [rows |-> n, data |-> y, aux |-> x]
  BY DEF RowGroup
<1> HIDE DEF x, y
<1> QED BY <1>2, <1>3, <1>4 DEF Recorded

\* Where its cells are written at the offset its metadata was made for, a row
\* group can be read.
LEMMA NewGroupIn ==
  ASSUME NEW e \in Seq(Cell), NEW at \in Nat, NEW n \in Nat,
         NEW cs \in [Columns -> Seq(Nat)], AllLong(cs, n), HasAt(e, at, GroupCells(cs))
  PROVE  /\ GroupIn(e, RowGroup(n, at), at + Len(GroupCells(cs)))
         /\ \A c \in Columns : ReadChunk(e, RowGroup(n, at), c) = cs[c]
<1> DEFINE l == Len(GroupCells(cs))
           g == RowGroup(n, at)
           m == Len(AuxKinds)
<1>0. /\ NumColumns \in Nat /\ NumColumns > 0 /\ m \in Nat /\ DOMAIN AuxKinds = 1..m
      /\ l = NumColumns + m
      /\ DOMAIN e = 1..Len(e) /\ Len(e) \in Nat /\ at + l <= Len(e)
  BY FileAssumption, AuxKindsType, GroupCellsFacts DEF HasAt
<1>1. ASSUME NEW c \in Columns
      PROVE  /\ g.data[c] < at + l /\ g.data[c] + 1 \in DOMAIN e
             /\ e[g.data[c] + 1] = Data(c, cs[c])
  <2>1. g.data[c] = at + c - 1 /\ c \in 1..NumColumns
    BY DEF RowGroup, Columns
  <2>2. g.data[c] + 1 = at + c /\ c \in 1..l
    BY <1>0, <2>1
  <2>3. e[at + c] = Data(c, cs[c])
    BY <2>2, GroupCellsFacts, Zenon DEF HasAt
  <2> HIDE DEF l
  <2>4. g.data[c] < at + l /\ at + c \in DOMAIN e
    BY <1>0, <2>1, <2>2
  <2> HIDE DEF g
  <2> QED BY <2>2, <2>3, <2>4
<1>2. ASSUME NEW c \in Columns
      PROVE  ReadChunk(e, g, c) = cs[c]
  <2>1. /\ Data(c, cs[c]).k = "data" /\ Data(c, cs[c]).c = c /\ Data(c, cs[c]).rows = cs[c]
    BY DEF Data
  <2> HIDE DEF g
  <2> QED BY <1>1, <2>1 DEF ReadChunk
<1>3. ASSUME NEW a \in DOMAIN g.aux
      PROVE  /\ g.aux[a].at < at + l
             /\ g.aux[a].at + 1 \in DOMAIN e
             /\ e[g.aux[a].at + 1].k = g.aux[a].kind
             /\ e[g.aux[a].at + 1] =
                  Aux(g.aux[a].kind, g.aux[a].c, ReadChunk(e, g, g.aux[a].c))
  <2>1. /\ a \in 1..m
        /\ g.aux[a].at = at + NumColumns + a - 1
        /\ g.aux[a].kind = AuxKinds[a][1] /\ g.aux[a].c = AuxKinds[a][2]
    BY <1>0 DEF RowGroup
  <2>2. AuxKinds[a] \in AuxKindNames \X Columns
    BY <1>0, <2>1, AuxKindsType, Element
  <2>3. g.aux[a].c \in Columns
    BY <2>1, <2>2
  <2>4. NumColumns + a \in 1..l /\ g.aux[a].at + 1 = at + (NumColumns + a)
    BY <1>0, <2>1
  <2>5. e[at + (NumColumns + a)] = GroupCells(cs)[NumColumns + a]
    BY <2>4 DEF HasAt
  <2>6. GroupCells(cs)[NumColumns + a] = Aux(g.aux[a].kind, g.aux[a].c, cs[g.aux[a].c])
    <3>1. GroupCells(cs)[NumColumns + a] =
            Aux(AuxKinds[a][1], AuxKinds[a][2], cs[AuxKinds[a][2]])
      BY <1>0, <2>1, GroupCellsFacts, Zenon
    <3> HIDE DEF g
    <3> QED BY <2>1, <3>1
  <2>7. ReadChunk(e, g, g.aux[a].c) = cs[g.aux[a].c]
    BY <1>2, <2>3
  <2> HIDE DEF g, l
  <2>8. g.aux[a].at < at + l /\ g.aux[a].at + 1 \in DOMAIN e
    <3> DEFINE q == at + (NumColumns + a)
    <3>1. q \in 1..Len(e) /\ g.aux[a].at + 1 = q
      BY <1>0, <2>1, <2>4
    <3>2. g.aux[a].at < at + l
      BY <1>0, <2>1
    <3> HIDE DEF q
    <3> QED BY <1>0, <3>1, <3>2
  <2>9. e[g.aux[a].at + 1] = Aux(g.aux[a].kind, g.aux[a].c, ReadChunk(e, g, g.aux[a].c))
    BY <2>4, <2>5, <2>6, <2>7
  <2> QED BY <2>8, <2>9 DEF Aux
<1>4. AuxIntact(e, g)
  <2> HIDE DEF g, l
  <2> QED BY <1>3 DEF AuxIntact
<1>5. ASSUME NEW c \in Columns
      PROVE  /\ e[g.data[c] + 1].k = "data" /\ e[g.data[c] + 1].c = c
             /\ Len(e[g.data[c] + 1].rows) = g.rows
  <2>1. g.rows = n
    BY DEF RowGroup
  <2>2. /\ Data(c, cs[c]).k = "data" /\ Data(c, cs[c]).c = c /\ Data(c, cs[c]).rows = cs[c]
    BY DEF Data
  <2> HIDE DEF g
  <2> QED BY <1>1, <2>1, <2>2 DEF AllLong
<1> HIDE DEF g, l
<1>6. GroupIn(e, g, at + l)
  BY <1>1, <1>3, <1>4, <1>5 DEF GroupIn
<1> QED BY <1>2, <1>6 DEF g, l

\* A column of one more row group.
LEMMA ColumnAppend ==
  ASSUME NEW S, NEW gs \in Seq(S), NEW g \in S, NEW d, NEW c
  PROVE  ColumnOf(d, Append(gs, g), c) = ColumnOf(d, gs, c) \o ReadChunk(d, g, c)
<1> DEFINE hs == Append(gs, g)
           n == Len(gs)
           ss == [i \in DOMAIN gs |-> ReadChunk(d, gs[i], c)]
           tt == [i \in DOMAIN hs |-> ReadChunk(d, hs[i], c)]
           T == {ReadChunk(d, gs[i], c) : i \in DOMAIN gs}
<1>1. /\ n \in Nat /\ DOMAIN gs = 1..n /\ DOMAIN hs = 1..n + 1
      /\ hs[n + 1] = g /\ \A i \in 1..n : hs[i] = gs[i]
  OBVIOUS
<1>2. ss \in Seq(T) /\ Len(ss) = n
  <2>1. ss = [i \in 1..n |-> ReadChunk(d, gs[i], c)]
    BY <1>1
  <2>2. \A i \in 1..n : ReadChunk(d, gs[i], c) \in T
    BY <1>1
  <2> HIDE DEF n, T, ss
  <2> QED BY <1>1, <2>1, <2>2
<1>3. /\ Len(tt) = n + 1 /\ tt[n + 1] = ReadChunk(d, g, c)
      /\ \A i \in 1..n : tt[i] = ss[i]
  <2> HIDE DEF n, hs
  <2>1. tt = [i \in 1..n + 1 |-> ReadChunk(d, hs[i], c)]
    BY <1>1
  <2>2. Len(tt) = n + 1
    BY <1>1, <2>1
  <2>3. n + 1 \in 1..n + 1 /\ \A i \in 1..n : i \in 1..n + 1
    BY <1>1
  <2> QED BY <1>1, <2>1, <2>2, <2>3
<1>4. ColumnOf(d, hs, c) = Joined(tt) /\ ColumnOf(d, gs, c) = Joined(ss)
  BY DEF ColumnOf
<1> HIDE DEF ss, tt, hs, T
<1>5. Joined(tt) = Joined(ss) \o ReadChunk(d, g, c)
  BY <1>2, <1>3, JoinedAppend, Zenon
<1> QED BY <1>4, <1>5 DEF hs

\* A file without row groups has no rows.
LEMMA ColumnEmpty ==
  ASSUME NEW d, NEW c
  PROVE  ColumnOf(d, <<>>, c) = <<>>
<1>1. [i \in DOMAIN <<>> |-> ReadChunk(d, <<>>[i], c)] = <<>>
  OBVIOUS
<1> QED BY <1>1, JoinedEmpty DEF ColumnOf

\* The file with the cells o written from b on, and then the cells q behind
\* them: what lay before is still there.
LEMMA OverlayMore ==
  ASSUME NEW d \in Seq(Cell), NEW b \in Nat, b <= Len(d),
         NEW o \in Seq(Cell), NEW q \in Seq(Cell)
  PROVE  /\ Agree(Overlay(d, b, o), Overlay(d, b, o \o q), b + Len(o))
         /\ HasAt(Overlay(d, b, o \o q), b + Len(o), q)
<1> DEFINE n == Len(o)
           m == Len(q)
           p == o \o q
           x == Overlay(d, b, o)
           y == Overlay(d, b, p)
<1>1. /\ n \in Nat /\ m \in Nat /\ p \in Seq(Cell) /\ Len(p) = n + m
      /\ \A i \in 1..n : p[i] = o[i]
      /\ \A i \in 1..n + m : p[i] = IF i <= n THEN o[i] ELSE q[i - n]
  BY ConcatFacts
<1>2. /\ \A i \in 1..b : x[i] = d[i]
      /\ \A i \in 1..n : x[b + i] = o[i]
  BY OverlayFacts
<1> HIDE DEF n, m, p
<1>p. p \in Seq(Cell)
  BY <1>1
<1>3. /\ \A i \in 1..b : y[i] = d[i]
      /\ \A i \in 1..n + m : y[b + i] = p[i]
  <2>1. /\ \A i \in 1..b : y[i] = d[i]
        /\ \A i \in 1..Len(p) : y[b + i] = p[i]
    BY <1>p, OverlayFacts
  <2> HIDE DEF y
  <2> QED BY <1>1, <2>1
<1> HIDE DEF x, y
<1>4. ASSUME NEW i \in 1..b + n PROVE y[i] = x[i]
  <2>1. CASE i \in 1..b
    BY <1>2, <1>3, <2>1
  <2>2. CASE i \notin 1..b
    <3> DEFINE j == i - b
    <3>1. j \in 1..n /\ j \in 1..n + m /\ i = b + j
      BY <1>1, <2>2
    <3> HIDE DEF j
    <3> QED BY <1>1, <1>2, <1>3, <3>1, Zenon
  <2> QED BY <2>1, <2>2
<1>5. ASSUME NEW i \in 1..m PROVE y[b + n + i] = q[i]
  <2> DEFINE j == n + i
  <2>1. j \in 1..n + m /\ ~(j <= n) /\ j - n = i /\ b + n + i = b + j
    BY <1>1
  <2> HIDE DEF j
  <2> QED BY <1>1, <1>3, <2>1
<1>6. b + n <= Len(x)
  BY OverlayFacts DEF n, x
<1>7. b + n + m <= Len(y) /\ b + n <= Len(y)
  <2>1. b + Len(p) <= Len(y) /\ Len(y) \in Nat
    BY <1>p, OverlayFacts DEF y
  <2> QED BY <1>1, <2>1
<1>8. Agree(x, y, b + n) /\ HasAt(y, b + n, q)
  BY <1>4, <1>5, <1>6, <1>7 DEF Agree, HasAt, m
<1> QED BY <1>8 DEF n, p, x, y

\* What flushing the row group cs of n rows, after the header h, makes of the
\* output o and of the row groups gs.
Grown(d, b, o, h, gs, n, cs) ==
  LET o2 == o \o h \o GroupCells(cs)
      gs2 == Append(gs, RowGroup(n, b + Len(o) + Len(h)))
  IN /\ gs2 \in Seq(Recorded) /\ o2 \in Seq(Cell)
     /\ Len(o2) = Len(o) + Len(h) + Len(GroupCells(cs))
     /\ Sound(Overlay(d, b, o2), gs2, b + Len(o2))
     /\ \A c \in Columns : ColumnOf(Overlay(d, b, o2), gs2, c) =
                             ColumnOf(Overlay(d, b, o), gs, c) \o cs[c]

\* flush_row_group: the finished row groups stay as they are, and the new one
\* adds its rows to every column.
LEMMA AddGroup ==
  ASSUME NEW d \in Seq(Cell), NEW b \in Nat, b <= Len(d),
         NEW o \in Seq(Cell), NEW h \in Seq(Cell),
         NEW gs \in Seq(Recorded), Sound(Overlay(d, b, o), gs, b + Len(o)),
         NEW n \in Nat, NEW cs \in [Columns -> Seq(Nat)], AllLong(cs, n)
  PROVE  Grown(d, b, o, h, gs, n, cs)
<1> DEFINE q == GroupCells(cs)
           p == o \o h
           o2 == p \o q
           at == b + Len(o) + Len(h)
           g == RowGroup(n, at)
           gs2 == Append(gs, g)
           x == Overlay(d, b, o)
           y == Overlay(d, b, o2)
<1>1. /\ q \in Seq(Cell) /\ Len(q) \in Nat
      /\ p \in Seq(Cell) /\ Len(p) = Len(o) + Len(h)
      /\ Len(o) \in Nat /\ Len(h) \in Nat
  BY GroupCellsFacts, ConcatFacts
<1>2. o2 \in Seq(Cell) /\ Len(o2) = Len(p) + Len(q)
  <2> HIDE DEF p, q
  <2> QED BY <1>1, ConcatFacts, Zenon
<1>3. at \in Nat /\ at = b + Len(p) /\ b + Len(o) <= at /\ b + Len(o2) = at + Len(q)
      /\ b + Len(o2) \in Nat /\ at <= b + Len(o2) /\ b + Len(o) <= b + Len(o2)
      /\ b + Len(o) \in Nat
  <2> HIDE DEF p, q, o2
  <2> QED BY <1>1, <1>2
<1>4. g \in Recorded
  <2> HIDE DEF at
  <2> QED BY <1>3, RowGroupType
<1> HIDE DEF q, p
<1>5. x \in Seq(Cell) /\ y \in Seq(Cell) /\ b + Len(o2) <= Len(y)
  <2> HIDE DEF o2
  <2> QED BY <1>2, OverlayFacts
<1>p. p \in Seq(Cell) /\ q \in Seq(Cell)
  BY <1>1
<1>6. Agree(x, y, b + Len(o))
  <2>1. Agree(x, Overlay(d, b, p), b + Len(o))
    BY OverlayMore DEF p
  <2>2. Agree(Overlay(d, b, p), y, b + Len(p))
    BY <1>p, OverlayMore
  <2>3. \A i \in 1..b + Len(o) : i \in 1..b + Len(p)
    BY <1>1
  <2>4. b + Len(o) <= b + Len(p) /\ b + Len(p) <= Len(y) => b + Len(o) <= Len(y)
    BY <1>1, <1>5
  <2>5. b + Len(o) <= b + Len(p)
    BY <1>1
  <2> HIDE DEF x, y
  <2> QED BY <2>1, <2>2, <2>3, <2>4, <2>5 DEF Agree
<1>7. HasAt(y, at, q)
  <2>1. HasAt(y, b + Len(p), q)
    BY <1>p, OverlayMore
  <2>2. at = b + Len(p)
    BY <1>3
  <2> HIDE DEF y, at
  <2> QED BY <2>1, <2>2
<1> HIDE DEF o2, at, x, y, g
<1>8. /\ GroupIn(y, g, b + Len(o2))
      /\ \A c \in Columns : ReadChunk(y, g, c) = cs[c]
  <2>2. at \in Nat /\ y \in Seq(Cell) /\ HasAt(y, at, GroupCells(cs))
    BY <1>3, <1>5, <1>7 DEF q
  <2>3. /\ GroupIn(y, RowGroup(n, at), at + Len(GroupCells(cs)))
        /\ \A c \in Columns : ReadChunk(y, RowGroup(n, at), c) = cs[c]
    BY <2>2, NewGroupIn
  <2> QED BY <1>3, <2>3 DEF g, q
<1>9. /\ Sound(y, gs, b + Len(o2))
      /\ \A c \in Columns : ColumnOf(y, gs, c) = ColumnOf(x, gs, c)
  <2> DEFINE l == b + Len(o)
             m == b + Len(o2)
  <2>1. l \in Nat /\ m \in Nat /\ l <= m /\ m <= Len(y) /\ Sound(x, gs, l)
    BY <1>3, <1>5 DEF x
  <2>2. Agree(x, y, l)
    BY <1>6
  <2>3. x \in Seq(Cell) /\ y \in Seq(Cell) /\ gs \in Seq(Recorded) \union Seq(Listed)
    BY <1>5
  <2> HIDE DEF l, m
  <2>4. /\ Sound(y, gs, m)
        /\ \A c \in Columns : ColumnOf(y, gs, c) = ColumnOf(x, gs, c)
    BY <2>1, <2>2, <2>3, SoundFrame
  <2> QED BY <2>4 DEF m
<1>10. /\ gs2 \in Seq(Recorded) /\ DOMAIN gs2 = 1..Len(gs) + 1
       /\ gs2[Len(gs) + 1] = g /\ \A i \in 1..Len(gs) : gs2[i] = gs[i]
  BY <1>4
<1>11. Sound(y, gs2, b + Len(o2))
  <2>1. ASSUME NEW i \in DOMAIN gs2 PROVE GroupIn(y, gs2[i], b + Len(o2))
    <3>1. CASE i \in 1..Len(gs)
      <4>1. i \in DOMAIN gs /\ gs2[i] = gs[i]
        BY <1>10, <3>1
      <4> QED BY <1>9, <4>1 DEF Sound
    <3>2. CASE i = Len(gs) + 1
      BY <1>8, <1>10, <3>2
    <3> QED BY <1>10, <3>1, <3>2
  <2> HIDE DEF gs2
  <2> QED BY <1>5, <2>1 DEF Sound
<1>12. ASSUME NEW c \in Columns PROVE ColumnOf(y, gs2, c) = ColumnOf(x, gs, c) \o cs[c]
  <2>1. ColumnOf(y, gs2, c) = ColumnOf(y, gs, c) \o ReadChunk(y, g, c)
    BY <1>4, ColumnAppend
  <2> HIDE DEF gs2
  <2> QED BY <1>8, <1>9, <2>1, Zenon
<1>13. Len(o2) = Len(o) + Len(h) + Len(q)
  BY <1>1, <1>2
<1> HIDE DEF gs2
<1> QED BY <1>2, <1>10, <1>11, <1>12, <1>13 DEF o2, q, p, at, g, gs2, x, y, Grown

-------------------------------------------------------------------------------
(* The footer.                                                             *)

\* Two lists of row groups that differ in their sort declarations only.
Alike(gs, hs) ==
  /\ Len(hs) = Len(gs)
  /\ \A i \in 1..Len(gs) : /\ hs[i].rows = gs[i].rows /\ hs[i].data = gs[i].data
                           /\ hs[i].aux = gs[i].aux

\* They describe the same file.
LEMMA AlikeSound ==
  ASSUME NEW S, NEW gs \in Seq(S), NEW T, NEW hs \in Seq(T), Alike(gs, hs), NEW d, NEW l
  PROVE  /\ Sound(d, gs, l) => Sound(d, hs, l)
         /\ \A c \in Columns : ColumnOf(d, hs, c) = ColumnOf(d, gs, c)
<1>1. DOMAIN hs = DOMAIN gs /\ DOMAIN gs = 1..Len(gs)
  BY DEF Alike
<1>2. ASSUME NEW i \in DOMAIN gs
      PROVE  /\ \A c \in Columns : ReadChunk(d, hs[i], c) = ReadChunk(d, gs[i], c)
             /\ GroupIn(d, gs[i], l) => GroupIn(d, hs[i], l)
  <2>1. hs[i].rows = gs[i].rows /\ hs[i].data = gs[i].data /\ hs[i].aux = gs[i].aux
    BY <1>1 DEF Alike
  <2>2. ASSUME NEW c PROVE ReadChunk(d, hs[i], c) = ReadChunk(d, gs[i], c)
    BY <2>1 DEF ReadChunk
  <2>3. AuxIntact(d, gs[i]) => AuxIntact(d, hs[i])
    BY <2>1, <2>2 DEF AuxIntact
  <2> QED BY <2>1, <2>2, <2>3 DEF GroupIn
<1>3. Sound(d, gs, l) => Sound(d, hs, l)
  BY <1>1, <1>2 DEF Sound
<1>4. ASSUME NEW c \in Columns PROVE ColumnOf(d, hs, c) = ColumnOf(d, gs, c)
  <2>1. [i \in DOMAIN hs |-> ReadChunk(d, hs[i], c)]
          = [i \in DOMAIN gs |-> ReadChunk(d, gs[i], c)]
    BY <1>1, <1>2
  <2> QED BY <2>1 DEF ColumnOf
<1> QED BY <1>3, <1>4

\* build_file_metadata lists the writer's row groups.
LEMMA MetadataFacts ==
  ASSUME NEW gs \in Seq(Recorded), sorting \in BOOLEAN
  PROVE  FileMetadata(gs) \in Seq(Listed) /\ Alike(gs, FileMetadata(gs))
<1> DEFINE n == Len(gs)
           hs == FileMetadata(gs)
<1>1. n \in Nat /\ DOMAIN gs = 1..n
  OBVIOUS
<1>2. hs = [i \in 1..n |-> [rows |-> gs[i].rows, data |-> gs[i].data, aux |-> gs[i].aux,
                            sorted |-> sorting]]
  BY <1>1 DEF FileMetadata
<1>3. ASSUME NEW i \in 1..n
      PROVE  [rows |-> gs[i].rows, data |-> gs[i].data, aux |-> gs[i].aux,
              sorted |-> sorting] \in Listed
  <2>1. gs[i] \in Recorded
    BY <1>1, Element
  <2> QED BY <2>1 DEF Recorded, Listed
<1> HIDE DEF hs, n
<1>4. hs \in Seq(Listed) /\ Len(hs) = n
  BY <1>1, <1>2, <1>3
<1>5. \A i \in 1..n : /\ hs[i].rows = gs[i].rows /\ hs[i].data = gs[i].data
                      /\ hs[i].aux = gs[i].aux
  BY <1>2
<1> QED BY <1>4, <1>5 DEF Alike, n, hs

\* The writer that opens a file to append restores the row groups listed.
LEMMA RestoredFacts ==
  ASSUME NEW gs \in Seq(Listed)
  PROVE  /\ [i \in DOMAIN gs |-> RestoreRowGroup(gs[i])] \in Seq(Recorded)
         /\ Alike(gs, [i \in DOMAIN gs |-> RestoreRowGroup(gs[i])])
<1> DEFINE n == Len(gs)
           hs == [i \in DOMAIN gs |-> RestoreRowGroup(gs[i])]
<1>1. n \in Nat /\ DOMAIN gs = 1..n
  OBVIOUS
<1>2. hs = [i \in 1..n |-> RestoreRowGroup(gs[i])]
  BY <1>1
<1>3. ASSUME NEW i \in 1..n
      PROVE  /\ RestoreRowGroup(gs[i]) \in Recorded
             /\ RestoreRowGroup(gs[i]).rows = gs[i].rows
             /\ RestoreRowGroup(gs[i]).data = gs[i].data
             /\ RestoreRowGroup(gs[i]).aux = gs[i].aux
  <2>1. gs[i] \in Listed
    BY <1>1, Element
  <2> QED BY <2>1 DEF Recorded, Listed, RestoreRowGroup
<1> HIDE DEF hs, n
<1>4. hs \in Seq(Recorded) /\ Len(hs) = n
  BY <1>1, <1>2, <1>3
<1>5. \A i \in 1..n : /\ hs[i].rows = gs[i].rows /\ hs[i].data = gs[i].data
                      /\ hs[i].aux = gs[i].aux
  BY <1>2, <1>3
<1> QED BY <1>4, <1>5 DEF Alike, n, hs

\* The footer and the tail behind it.
Ending(m) == FooterCells(m) \o <<TailCell(m)>>

\* The ending that carquet_writer_close writes: the footer, and its length.
LEMMA EndingFacts ==
  ASSUME NEW m \in Seq(Listed)
  PROVE  /\ Ending(m) \in Seq(Cell) /\ Len(Ending(m)) = FooterSize(m) + 1
         /\ \A i \in 1..FooterSize(m) :
              Ending(m)[i] = [k |-> "footer", groups |-> m, i |-> i]
         /\ Ending(m)[FooterSize(m) + 1] = [k |-> "tail", len |-> FooterSize(m)]
<1> DEFINE n == FooterSize(m)
           f == FooterCells(m)
           t == <<TailCell(m)>>
           u == [k |-> "tail", len |-> n]
<1>1. n \in Nat /\ n > 0
  BY FooterSizeNat
<1>2. ASSUME NEW i \in 1..n PROVE [k |-> "footer", groups |-> m, i |-> i] \in Cell
  BY DEF Cell
<1>3. u \in Cell /\ t = <<u>>
  <2>1. n \in Nat
    BY <1>1
  <2> HIDE DEF n
  <2>2. u \in Cell
    BY <2>1 DEF Cell
  <2> QED BY <2>2 DEF TailCell, n
<1>4. f = [i \in 1..n |-> [k |-> "footer", groups |-> m, i |-> i]]
  BY DEF FooterCells
<1> HIDE DEF n, f, u, t
<1>5. f \in Seq(Cell) /\ Len(f) = n
  BY <1>1, <1>2, <1>4
<1>6. t \in Seq(Cell) /\ Len(t) = 1 /\ t[1] = u
  BY <1>3
<1>7. /\ f \o t \in Seq(Cell) /\ Len(f \o t) = n + 1
      /\ \A i \in 1..n + 1 : (f \o t)[i] = IF i <= n THEN f[i] ELSE t[i - n]
  <2>1. f \in Seq(Cell) /\ t \in Seq(Cell)
    BY <1>5, <1>6
  <2>2. /\ f \o t \in Seq(Cell) /\ Len(f \o t) = Len(f) + Len(t)
        /\ \A i \in 1..Len(f) + Len(t) :
             (f \o t)[i] = IF i <= Len(f) THEN f[i] ELSE t[i - Len(f)]
    BY <2>1, ConcatFacts
  <2>3. Len(f) = n /\ Len(t) = 1
    BY <1>5, <1>6
  <2> QED BY <2>2, <2>3
<1>8. \A i \in 1..n : (f \o t)[i] = [k |-> "footer", groups |-> m, i |-> i]
  BY <1>1, <1>4, <1>7
<1>9. (f \o t)[n + 1] = u
  <2> DEFINE j == n + 1
  <2>1. j \in 1..n + 1 /\ ~(j <= n) /\ j - n = 1
    BY <1>1
  <2> HIDE DEF j
  <2>2. (f \o t)[j] = u
    BY <1>6, <1>7, <2>1
  <2> QED BY <2>2 DEF j
<1>10. Ending(m) = f \o t
  BY DEF Ending, f, t
<1> HIDE DEF Ending
<1> QED BY <1>7, <1>8, <1>9, <1>10, Zenon DEF n, u

\* A reader finds the footer that ends the file.
LEMMA FooterFound ==
  ASSUME NEW e \in Seq(Cell), NEW s \in Nat, NEW m \in Seq(Listed),
         HasAt(e, s, Ending(m)), Len(e) = s + Len(Ending(m))
  PROVE  ReadFooter(e) = m /\ FooterStart(e) = s
<1> DEFINE n == FooterSize(m)
           l == Len(e)
<1>1. n \in Nat /\ n > 0 /\ l \in Nat /\ l = s + (n + 1) /\ l # 0
  <2>1. n \in Nat /\ n > 0 /\ Len(Ending(m)) = n + 1
    BY FooterSizeNat, EndingFacts, Zenon
  <2> HIDE DEF n
  <2> QED BY <2>1
<1>2. \A i \in 1..n : e[s + i] = [k |-> "footer", groups |-> m, i |-> i]
  <2>1. \A i \in 1..n : i \in 1..Len(Ending(m))
    BY <1>1, EndingFacts
  <2> QED BY <2>1, EndingFacts, Zenon DEF HasAt
<1>3. e[l] = [k |-> "tail", len |-> n]
  <2> DEFINE j == n + 1
  <2>1. j \in 1..Len(Ending(m)) /\ l = s + j
    BY <1>1, EndingFacts
  <2>2. Ending(m)[j] = [k |-> "tail", len |-> n]
    BY EndingFacts
  <2> HIDE DEF j
  <2> QED BY <2>1, <2>2 DEF HasAt
<1>4. e[l].k = "tail" /\ e[l].len = n
  BY <1>3
<1> HIDE DEF n, l
<1>5. FooterStart(e) = s
  BY <1>1, <1>4 DEF FooterStart, l
<1>6. ~(n > l - 1)
  BY <1>1
<1>7. e[s + 1] = [k |-> "footer", groups |-> m, i |-> 1]
  BY <1>1, <1>2
<1>8. e[s + 1].k = "footer" /\ e[s + 1].groups = m
  BY <1>7
<1>9. n <= n
  BY <1>1
<1>10. \A i \in 1..n : e[(s + 1) + i - 1] = [k |-> "footer", groups |-> m, i |-> i]
  <2>1. \A i \in 1..n : (s + 1) + i - 1 = s + i
    BY <1>1
  <2> QED BY <1>2, <2>1
<1> QED BY <1>1, <1>4, <1>5, <1>6, <1>8, <1>9, <1>10, Zenon DEF ReadFooter, n, l

-------------------------------------------------------------------------------
(* What a reader finds when a part of the output has reached the file.     *)

\* The stream writes into a new file, or from the old footer on.
Base(d, b) == \/ d = <<>> /\ b = 0
              \/ ReadFooter(d) # NoFooter /\ b = FooterStart(d)

\* Where a writer starts lies in the file.
LEMMA BaseFacts ==
  ASSUME NEW d \in Seq(Cell), NEW b, Base(d, b)
  PROVE  b \in Nat /\ b <= Len(d)
<1>1. CASE d = <<>> /\ b = 0
  BY <1>1
<1>2. CASE ReadFooter(d) # NoFooter /\ b = FooterStart(d)
  BY <1>2, FooterFacts
<1> QED BY <1>1, <1>2 DEF Base

\* The last cell of the file is the last one written, or else the old tail,
\* which points to the first one written.
LEMMA TailOfOverlay ==
  ASSUME NEW d \in Seq(Cell), NEW b, Base(d, b), NEW p \in Seq(Cell), p # <<>>
  PROVE  LET e == Overlay(d, b, p)
         IN /\ Len(e) > 0
            /\ \/ Len(e) = b + Len(p) /\ e[Len(e)] = p[Len(p)]
               \/ FooterStart(e) = b /\ e[b + 1] = p[1] /\ Len(e) > b + Len(p)
<1> DEFINE e == Overlay(d, b, p)
           n == Len(p)
<1>1. b \in Nat /\ b <= Len(d)
  BY BaseFacts
<1>2. /\ e \in Seq(Cell) /\ b + n <= Len(e) /\ Len(d) <= Len(e)
      /\ Len(e) \in {Len(d), b + n}
      /\ \A i \in 1..n : e[b + i] = p[i]
      /\ \A i \in 1..Len(d) : i > b + n => e[i] = d[i]
  BY <1>1, OverlayFacts
<1>3. n \in Nat /\ n > 0 /\ Len(d) \in Nat /\ Len(e) \in Nat /\ n \in 1..n /\ 1 \in 1..n
  BY <1>2
<1> HIDE DEF e, n
<1>4. CASE Len(e) = b + n
  BY <1>1, <1>2, <1>3, <1>4 DEF e, n
<1>5. CASE Len(e) # b + n
  <2>1. Len(e) = Len(d) /\ Len(e) > b + n /\ Len(d) \in 1..Len(d) /\ Len(d) > b + n
    BY <1>1, <1>2, <1>3, <1>5
  <2>2. e[Len(e)] = d[Len(d)]
    BY <1>2, <2>1
  <2>3. d # <<>>
    BY <2>1
  <2>4. FooterStart(e) = b
    BY <2>1, <2>2, <2>3 DEF Base, FooterStart
  <2>5. Len(e) > 0
    BY <1>1, <1>3, <2>1
  <2>6. e[b + 1] = p[1]
    BY <1>2, <1>3
  <2> QED BY <2>1, <2>4, <2>5, <2>6 DEF e, n
<1> QED BY <1>4, <1>5

\* Before any of the footer is written there is none to be found.
LEMMA NoFooterYet ==
  ASSUME NEW d \in Seq(Cell), NEW b, Base(d, b), NEW p \in Seq(Cell), p # <<>>, DataOnly(p)
  PROVE  ReadFooter(Overlay(d, b, p)) = NoFooter
<1> DEFINE e == Overlay(d, b, p)
           n == Len(p)
<1>1. n \in Nat /\ n > 0 /\ n \in DOMAIN p /\ 1 \in DOMAIN p
  OBVIOUS
<1>2. p[n].k # "tail" /\ p[1].k # "footer"
  BY <1>1 DEF DataOnly
<1>3. \/ e[Len(e)] = p[n]
      \/ FooterStart(e) = b /\ e[b + 1] = p[1]
  BY TailOfOverlay
<1> HIDE DEF e, n
<1> QED BY <1>2, <1>3 DEF ReadFooter, e

\* In e, which has a part of the plain cells q and the ending of the footer m
\* over d, a reader finds m where it was written, or nothing.
Reads(d, b, q, m, e) ==
  \/ ReadFooter(e) = NoFooter
  \/ /\ ReadFooter(e) = m /\ FooterStart(e) = b + Len(q)
     /\ Agree(Overlay(d, b, q), e, b + Len(q))

\* That is so for every part of the output.
LEMMA Reread ==
  ASSUME NEW d \in Seq(Cell), NEW b, Base(d, b), NEW q \in Seq(Cell), DataOnly(q),
         NEW m \in Seq(Listed), NEW n \in 1..Len(q \o Ending(m))
  PROVE  Reads(d, b, q, m, Overlay(d, b, SubSeq(q \o Ending(m), 1, n)))
<1> DEFINE t == Ending(m)
           w == q \o t
           p == SubSeq(w, 1, n)
           e == Overlay(d, b, p)
           lq == Len(q)
           lt == Len(t)
<1> SUFFICES \/ ReadFooter(e) = NoFooter
             \/ /\ ReadFooter(e) = m /\ FooterStart(e) = b + lq
                /\ Agree(Overlay(d, b, q), e, b + lq)
  BY DEF Reads
<1>0. b \in Nat /\ b <= Len(d)
  BY BaseFacts
<1>1. /\ t \in Seq(Cell) /\ lt \in Nat /\ lt = FooterSize(m) + 1 /\ lt > 1
      /\ \A i \in 1..lt - 1 : t[i] = [k |-> "footer", groups |-> m, i |-> i]
      /\ t[lt] = [k |-> "tail", len |-> FooterSize(m)]
  <2>1. FooterSize(m) \in Nat /\ FooterSize(m) > 0
    BY FooterSizeNat
  <2>2. /\ t \in Seq(Cell) /\ lt = FooterSize(m) + 1
        /\ \A i \in 1..FooterSize(m) : t[i] = [k |-> "footer", groups |-> m, i |-> i]
        /\ t[FooterSize(m) + 1] = [k |-> "tail", len |-> FooterSize(m)]
    BY EndingFacts
  <2>3. lt - 1 = FooterSize(m)
    BY <2>1, <2>2
  <2> QED BY <2>1, <2>2, <2>3
<1> HIDE DEF t, lt
<1>2. /\ lq \in Nat /\ w \in Seq(Cell) /\ Len(w) = lq + lt
      /\ \A i \in 1..lq + lt : w[i] = IF i <= lq THEN q[i] ELSE t[i - lq]
  <2>1. t \in Seq(Cell)
    BY <1>1
  <2>2. /\ w \in Seq(Cell) /\ Len(w) = Len(q) + Len(t)
        /\ \A i \in 1..Len(q) + Len(t) : w[i] = IF i <= Len(q) THEN q[i] ELSE t[i - Len(q)]
    BY <2>1, ConcatFacts
  <2> QED BY <2>2 DEF lt
<1>f. ASSUME NEW i \in 1..lt - 1 PROVE t[i].k = "footer"
  <2>1. t[i] = [k |-> "footer", groups |-> m, i |-> i]
    BY <1>1
  <2> QED BY <2>1
<1>3. n \in 1..lq + lt
  BY <1>2 DEF t
<1> HIDE DEF w, lq
<1>4. /\ p \in Seq(Cell) /\ Len(p) = n /\ p # <<>>
      /\ \A i \in 1..n : p[i] = w[i]
  <2>1. /\ n \in 1..Len(w) /\ 1 \in 1..Len(w) /\ n \in Nat
    BY <1>1, <1>2, <1>3
  <2>2. SubSeq(w, 1, n) \in Seq(Cell) /\ Len(SubSeq(w, 1, n)) = n
    BY <1>2, <2>1
  <2>3. \A i \in 1..n : SubSeq(w, 1, n)[i] = w[i]
    BY <1>2, <2>1
  <2>4. p # <<>>
    BY <2>1, <2>2
  <2> QED BY <2>2, <2>3, <2>4
<1> HIDE DEF p
<1>5. \A i \in 1..n : i <= lq => p[i] = q[i]
  BY <1>2, <1>3, <1>4
<1>6. ASSUME NEW i \in 1..lt, lq + i <= n PROVE p[lq + i] = t[i]
  <2> DEFINE j == lq + i
  <2>1. j \in 1..n /\ j \in 1..lq + lt /\ ~(j <= lq) /\ j - lq = i
    BY <1>1, <1>2, <1>3, <1>6
  <2> HIDE DEF j
  <2>2. p[j] = t[i]
    BY <1>2, <1>4, <2>1
  <2> QED BY <2>2 DEF j
<1>7. e \in Seq(Cell)
  BY <1>0, <1>4, OverlayFacts
<1>8. lq <= n => Agree(Overlay(d, b, q), e, b + lq)
  <2> SUFFICES ASSUME lq <= n PROVE Agree(Overlay(d, b, q), e, b + lq)
    OBVIOUS
  <2> DEFINE x == Overlay(d, b, q)
  <2>1. /\ b + lq <= Len(x) /\ \A i \in 1..b : x[i] = d[i]
        /\ \A i \in 1..lq : x[b + i] = q[i]
    BY <1>0, OverlayFacts DEF lq
  <2>2. /\ b + n <= Len(e) /\ \A i \in 1..b : e[i] = d[i]
        /\ \A i \in 1..n : e[b + i] = p[i]
    <3>1. /\ b + Len(p) <= Len(e) /\ \A i \in 1..b : e[i] = d[i]
          /\ \A i \in 1..Len(p) : e[b + i] = p[i]
      BY <1>0, <1>4, OverlayFacts
    <3> QED BY <1>4, <3>1
  <2> HIDE DEF x, e
  <2>3. b + lq <= Len(e)
    <3>1. Len(e) \in Nat
      BY <1>7
    <3> QED BY <1>0, <1>2, <1>3, <2>2, <3>1
  <2>4. ASSUME NEW i \in 1..b + lq PROVE e[i] = x[i]
    <3>1. CASE i \in 1..b
      BY <2>1, <2>2, <3>1
    <3>2. CASE i \notin 1..b
      <4> DEFINE j == i - b
      <4>1. j \in 1..lq /\ j \in 1..n /\ j <= lq /\ i = b + j
        BY <1>0, <1>2, <1>3, <3>2
      <4> HIDE DEF j
      <4> QED BY <1>5, <2>1, <2>2, <4>1
    <3> QED BY <3>1, <3>2
  <2> QED BY <2>1, <2>3, <2>4 DEF Agree, x
<1>e. /\ \/ Len(e) = b + n /\ e[Len(e)] = p[n]
         \/ FooterStart(e) = b /\ e[b + 1] = p[1]
      /\ DataOnly(p) => ReadFooter(e) = NoFooter
      /\ \A i \in 1..n : e[b + i] = p[i]
  <2>1. \/ Len(e) = b + n /\ e[Len(e)] = p[n]
        \/ FooterStart(e) = b /\ e[b + 1] = p[1]
    BY <1>4, TailOfOverlay
  <2>2. DataOnly(p) => ReadFooter(e) = NoFooter
    BY <1>4, NoFooterYet
  <2>3. \A i \in 1..Len(p) : e[b + i] = p[i]
    BY <1>0, <1>4, OverlayFacts, Zenon
  <2> QED BY <1>4, <2>1, <2>2, <2>3
<1> HIDE DEF e
<1>9. CASE n <= lq
  <2>1. ASSUME NEW i \in DOMAIN p PROVE p[i].k \notin {"tail", "footer"}
    <3>1. i \in 1..n /\ i <= lq /\ i \in 1..lq
      BY <1>2, <1>3, <1>4, <1>9
    <3>2. p[i] = q[i] /\ i \in DOMAIN q
      BY <1>5, <3>1 DEF lq
    <3> QED BY <3>2 DEF DataOnly
  <2>2. DataOnly(p)
    BY <2>1 DEF DataOnly
  <2> QED BY <1>e, <2>2
<1>10. CASE n > lq
  <2>1. \/ Len(e) = b + n /\ e[Len(e)] = p[n]
        \/ FooterStart(e) = b /\ e[b + 1] = p[1]
    BY <1>e
  <2>2. CASE Len(e) = b + n /\ e[Len(e)] = p[n] /\ n < lq + lt
    <3> DEFINE i == n - lq
    <3>1. i \in 1..lt - 1 /\ i \in 1..lt /\ lq + i = n /\ lq + i <= n
      BY <1>1, <1>2, <1>3, <1>10, <2>2
    <3> HIDE DEF i
    <3>2. p[n] = t[i]
      BY <1>6, <3>1
    <3>3. t[i].k = "footer"
      BY <1>f, <3>1
    <3>4. ReadFooter(e) = NoFooter
      BY <2>2, <3>2, <3>3 DEF ReadFooter
    <3> QED BY <3>4
  <2>3. CASE Len(e) = b + n /\ n = lq + lt
    <3>1. HasAt(e, b + lq, t)
      <4>1. \A i \in 1..n : e[b + i] = p[i]
        BY <1>e
      <4>2. ASSUME NEW i \in 1..lt PROVE e[b + lq + i] = t[i]
        <5>1. lq + i \in 1..n /\ lq + i <= n /\ b + lq + i = b + (lq + i)
          BY <1>0, <1>1, <1>2, <2>3
        <5> QED BY <1>6, <4>1, <5>1
      <4>3. b + lq + lt <= Len(e)
        <5>1. Len(e) = b + (lq + lt)
          BY <2>3, Zenon
        <5>2. b + lq + lt <= b + (lq + lt)
          BY <1>0, <1>1, <1>2
        <5> QED BY <5>1, <5>2, Zenon
      <4> QED BY <4>2, <4>3 DEF HasAt, lt
    <3>2. Len(e) = (b + lq) + Len(t) /\ b + lq \in Nat
      BY <1>0, <1>1, <1>2, <2>3 DEF lt
    <3>3. ReadFooter(e) = m /\ FooterStart(e) = b + lq
      BY <1>7, <3>1, <3>2, FooterFound DEF t
    <3>4. lq <= n
      BY <1>2, <1>3, <1>10
    <3> QED BY <1>8, <3>3, <3>4
  <2>4. CASE FooterStart(e) = b /\ e[b + 1] = p[1] /\ lq > 0
    <3>1. 1 \in 1..n /\ 1 <= lq /\ 1 \in 1..lq
      BY <1>2, <1>3, <2>4
    <3>2. p[1] = q[1] /\ 1 \in DOMAIN q
      BY <1>5, <3>1 DEF lq
    <3>3. e[b + 1].k # "footer"
      BY <2>4, <3>2 DEF DataOnly
    <3>4. ReadFooter(e) = NoFooter
      BY <2>4, <3>3 DEF ReadFooter
    <3> QED BY <3>4
  <2>5. CASE FooterStart(e) = b /\ e[b + 1] = p[1] /\ lq = 0
    <3>1. 1 \in 1..lt /\ lq + 1 <= n /\ lq + 1 = 1 /\ 1 \in 1..lt - 1
      BY <1>1, <1>2, <1>3, <2>5
    <3>2. p[1] = [k |-> "footer", groups |-> m, i |-> 1]
      BY <1>1, <1>6, <3>1, Zenon
    <3>3. e[b + 1].groups = m
      BY <2>5, <3>2
    <3>4. ReadFooter(e) = NoFooter \/ ReadFooter(e) = m
      BY <2>5, <3>3 DEF ReadFooter
    <3>5. b + lq = b
      BY <1>0, <2>5
    <3>6. lq <= n
      BY <1>2, <1>3, <1>10
    <3> QED BY <1>8, <2>5, <3>4, <3>5, <3>6
  <2>6. n < lq + lt \/ n = lq + lt
    BY <1>1, <1>2, <1>3
  <2>7. lq > 0 \/ lq = 0
    BY <1>2
  <2>8. CASE Len(e) = b + n /\ e[Len(e)] = p[n]
    BY <2>2, <2>3, <2>6, <2>8, Zenon
  <2>9. CASE FooterStart(e) = b /\ e[b + 1] = p[1]
    BY <2>4, <2>5, <2>7, <2>9, Zenon
  <2> QED BY <2>1, <2>8, <2>9, Zenon
<1> QED BY <1>2, <1>3, <1>9, <1>10

-------------------------------------------------------------------------------
(* The invariant of the writer.                                            *)

\* A file whose footer can be read has all of its row groups in front of the
\* footer, and all its columns hold the same rows, in order.
WholeFile(d) ==
  ReadFooter(d) # NoFooter =>
    /\ Sound(d, ReadFooter(d), FooterStart(d))
    /\ \E n \in Nat : \A c \in Columns : ColumnOf(d, ReadFooter(d), c) = Run(0, n)

\* The types of the writer and its file.
WriterTypes ==
  /\ disk \in Seq(Cell) /\ base \in Nat /\ out \in Seq(Cell)
  /\ mode \in {"path", "stream", "append"}
  /\ wstate \in {"none", "open", "failed", "closed", "close_failed", "aborted"}
  /\ header_written \in BOOLEAN /\ file_offset \in Nat
  /\ groups \in Seq(Recorded) /\ cols \in [Columns -> Seq(Nat)] /\ rows \in Nat
  /\ sorting \in BOOLEAN /\ sent \in [Columns -> Nat] /\ synced \in BOOLEAN

\* While there is a writer the file is as it was opened, and nothing written
\* so far can be taken for a footer.
LiveInv ==
  wstate \in {"open", "failed"} =>
    /\ mode # "append" => disk = <<>> /\ base = 0
    /\ mode = "append" => /\ old = ReadFooter(disk) /\ old # NoFooter
                          /\ base = FooterStart(disk)
    /\ DataOnly(out)

\* The file as it would be if the stream were emptied now.
Image == Overlay(disk, base, out)

\* The finished row groups hold the first f rows of every column, the open
\* one the rows that follow.
Split(f) ==
  \A c \in Columns : /\ sent[c] = f + Len(cols[c])
                     /\ ColumnOf(Image, groups, c) = Run(0, f)
                     /\ cols[c] = Run(f, Len(cols[c]))

\* An open writer: its row groups are whole as far as the stream has come.
OpenInv ==
  wstate = "open" =>
    /\ file_offset = base + Len(out)
    /\ Sound(Image, groups, file_offset)
    /\ rows = Len(cols[1])
    /\ \E f \in Nat : Split(f)

\* What an append found is still there, whatever has become of it.
AppendInv ==
  mode = "append" => base <= Len(disk) /\ old \in Seq(Listed) /\ Sound(disk, old, base)

\* All of it; the file on disk has no footer or is whole.
WriterInv == WriterTypes /\ LiveInv /\ OpenInv /\ AppendInv /\ WholeFile(disk)

-------------------------------------------------------------------------------
(* Facts about the state of an open writer.                                *)

\* Rows that follow one another.
LEMMA RunConcat ==
  ASSUME NEW f \in Nat, NEW k \in Nat, NEW n \in Nat
  PROVE  Run(f, k) \o Run(f + k, n) = Run(f, k + n)
<1> DEFINE s == Run(f, k)
           t == Run(f + k, n)
           u == Run(f, k + n)
<1>1. s \in Seq(Nat) /\ Len(s) = k /\ \A i \in 1..k : s[i] = f + i
  BY DEF Run
<1>2. t \in Seq(Nat) /\ Len(t) = n /\ \A i \in 1..n : t[i] = f + k + i
  BY DEF Run
<1>3. u \in Seq(Nat) /\ Len(u) = k + n /\ \A i \in 1..k + n : u[i] = f + i
  BY DEF Run
<1> HIDE DEF s, t, u
<1>4. /\ s \o t \in Seq(Nat) /\ Len(s \o t) = Len(s) + Len(t)
      /\ \A i \in 1..Len(s) + Len(t) : (s \o t)[i] = IF i <= Len(s) THEN s[i] ELSE t[i - Len(s)]
  BY <1>1, <1>2, ConcatFacts, Zenon
<1>5. ASSUME NEW i \in 1..k + n PROVE (s \o t)[i] = u[i]
  <2>1. CASE i <= k
    BY <1>1, <1>2, <1>3, <1>4, <2>1
  <2>2. CASE ~(i <= k)
    <3> DEFINE j == i - k
    <3>1. j \in 1..n /\ f + k + j = f + i
      BY <2>2
    <3> HIDE DEF j
    <3>2. (s \o t)[i] = t[j]
      BY <1>1, <1>2, <1>4, <2>2 DEF j
    <3> QED BY <1>2, <1>3, <3>1, <3>2
  <2> QED BY <2>1, <2>2, Zenon
<1> DEFINE v == s \o t
<1>6. v \in Seq(Nat) /\ u \in Seq(Nat) /\ Len(v) = Len(u) /\ Len(v) = k + n
  BY <1>1, <1>2, <1>3, <1>4
<1>7. \A i \in 1..Len(v) : v[i] = u[i]
  BY <1>5, <1>6
<1> HIDE DEF v
<1>8. v = u
  BY <1>6, <1>7, SameSequence, Zenon
<1> QED BY <1>8 DEF s, t, u, v

\* The first rows, and those that follow them.
LEMMA RunFromZero ==
  ASSUME NEW f \in Nat, NEW n \in Nat
  PROVE  Run(0, f) \o Run(f, n) = Run(0, f + n)
<1> DEFINE z == 0
<1>1. z \in Nat /\ z + f = f /\ z = 0
  OBVIOUS
<1> HIDE DEF z
<1>2. Run(z, f) \o Run(z + f, n) = Run(z, f + n)
  BY <1>1, RunConcat, Zenon
<1> QED BY <1>1, <1>2

\* A run of n rows has n rows.
LEMMA RunFacts ==
  ASSUME NEW f \in Nat, NEW n \in Nat
  PROVE  Run(f, n) \in Seq(Nat) /\ Len(Run(f, n)) = n
  BY DEF Run

\* A run of no rows.
LEMMA RunNothing == \A f : Run(f, 0) = <<>>
  BY DEF Run

\* The rows as Holds counts them.
LEMMA RunFromOne == \A n : [r \in 1..n |-> r] = Run(0, n)
  BY DEF Run

\* The header, or nothing.
LEMMA HeaderFacts == Header \in Seq(Cell) /\ DataOnly(Header)
<1>1. Magic \in Cell /\ Magic.k = "magic"
  BY DEF Magic, Cell
<1>2. CASE header_written
  BY <1>2 DEF Header, DataOnly
<1>3. CASE ~header_written
  BY <1>1, <1>3 DEF Header, DataOnly
<1> QED BY <1>2, <1>3

\* Cells without a footer stay so when more of them follow.
LEMMA DataConcat ==
  ASSUME NEW p \in Seq(Cell), NEW q \in Seq(Cell), DataOnly(p), DataOnly(q)
  PROVE  p \o q \in Seq(Cell) /\ DataOnly(p \o q)
<1>1. /\ p \o q \in Seq(Cell) /\ Len(p \o q) = Len(p) + Len(q)
      /\ \A i \in 1..Len(p) + Len(q) : (p \o q)[i] = IF i <= Len(p) THEN p[i] ELSE q[i - Len(p)]
  BY ConcatFacts
<1> DEFINE m == Len(p)
           n == Len(q)
<1>2. m \in Nat /\ n \in Nat /\ DOMAIN p = 1..m /\ DOMAIN q = 1..n /\ DOMAIN (p \o q) = 1..m + n
  BY <1>1
<1>3. ASSUME NEW i \in 1..m + n PROVE (p \o q)[i].k \notin {"tail", "footer"}
  <2>1. CASE i <= m
    BY <1>1, <1>2, <2>1 DEF DataOnly
  <2>2. CASE ~(i <= m)
    <3>1. i - m \in 1..n /\ (p \o q)[i] = q[i - m]
      BY <1>1, <1>2, <2>2
    <3> HIDE DEF m, n
    <3> QED BY <1>2, <3>1 DEF DataOnly
  <2> QED BY <2>1, <2>2
<1> HIDE DEF m, n
<1> QED BY <1>1, <1>2, <1>3 DEF DataOnly

\* Three sequences that may be regrouped.
Regroups(x, y, z) == (x \o y) \o z = x \o (y \o z)

\* Concatenation of cells is associative.
LEMMA Associative ==
  \A x, y, z \in Seq(Cell) : Regroups(x, y, z)
  BY DEF Regroups

\* Regrouping the five pieces of a closing file.
RegroupsFive(o, h, l, f, t) ==
  /\ ((h \o l) \o f) \o t \in Seq(Cell)
  /\ o \o (((h \o l) \o f) \o t) = ((o \o h) \o l) \o (f \o t)

\* Cells can be regrouped so.
LEMMA ConcatFive ==
  ASSUME NEW o \in Seq(Cell), NEW h \in Seq(Cell), NEW l \in Seq(Cell),
         NEW f \in Seq(Cell), NEW t \in Seq(Cell)
  PROVE  RegroupsFive(o, h, l, f, t)
<1>1. PICK a \in Seq(Cell) : a = h \o l
  BY ConcatFacts, Zenon
<1>2. PICK b \in Seq(Cell) : b = f \o t
  BY ConcatFacts, Zenon
<1>3. Regroups(o, h, l) /\ Regroups(a, f, t) /\ Regroups(o, a, b)
  BY Associative
<1>4. /\ (o \o h) \o l = o \o a
      /\ (a \o f) \o t = a \o b
      /\ (o \o a) \o b = o \o (a \o b)
  BY <1>1, <1>2, <1>3, Zenon DEF Regroups
<1>5. a \o b \in Seq(Cell)
  BY ConcatFacts
<1>6. ((h \o l) \o f) \o t = a \o b
  BY <1>1, <1>4, Zenon
<1>7. ((o \o h) \o l) \o (f \o t) = o \o (a \o b)
  BY <1>2, <1>4, Zenon
<1> QED BY <1>5, <1>6, <1>7, Zenon DEF RegroupsFive

\* The beginning of what was written is of the same kind.
LEMMA PrefixFacts ==
  ASSUME NEW q \in Seq(Cell), NEW n \in 0..Len(q)
  PROVE  /\ SubSeq(q, 1, n) \in Seq(Cell) /\ Len(SubSeq(q, 1, n)) = n
         /\ \A i \in 1..n : SubSeq(q, 1, n)[i] = q[i]
         /\ DataOnly(q) => DataOnly(SubSeq(q, 1, n))
<1> DEFINE p == SubSeq(q, 1, n)
<1>1. n \in Nat /\ Len(q) \in Nat /\ n <= Len(q)
  OBVIOUS
<1>2. p \in Seq(Cell) /\ Len(p) = n /\ \A i \in 1..n : p[i] = q[i]
  BY <1>1
<1> HIDE DEF p
<1>3. DataOnly(q) => DataOnly(p)
  BY <1>1, <1>2 DEF DataOnly
<1> QED BY <1>2, <1>3 DEF p

\* A prefix of o and a prefix of x is a prefix of o and x.
LEMMA PrefixOfConcat ==
  ASSUME NEW o \in Seq(Cell), NEW x \in Seq(Cell), NEW k \in 0..Len(x),
         NEW j \in 0..Len(o \o SubSeq(x, 1, k))
  PROVE  /\ j \in 0..Len(o \o x)
         /\ SubSeq(o \o SubSeq(x, 1, k), 1, j) = SubSeq(o \o x, 1, j)
<1> DEFINE y == SubSeq(x, 1, k)
           a == o \o y
           b == o \o x
           l == Len(o)
<1>1. y \in Seq(Cell) /\ Len(y) = k /\ \A i \in 1..k : y[i] = x[i]
  BY PrefixFacts
<1>2. l \in Nat /\ k \in Nat /\ k <= Len(x) /\ Len(x) \in Nat
  OBVIOUS
<1> HIDE DEF y
<1>3. /\ a \in Seq(Cell) /\ Len(a) = l + Len(y)
      /\ \A i \in 1..l + Len(y) : a[i] = IF i <= l THEN o[i] ELSE y[i - l]
  BY <1>1, ConcatFacts, Zenon
<1>4. /\ b \in Seq(Cell) /\ Len(b) = l + Len(x)
      /\ \A i \in 1..l + Len(x) : b[i] = IF i <= l THEN o[i] ELSE x[i - l]
  BY ConcatFacts
<1>j. j \in 0..Len(a)
  BY DEF y
<1> HIDE DEF a, b, l
<1>5. j \in Nat /\ j <= l + k /\ j \in 0..Len(b)
  BY <1>1, <1>2, <1>3, <1>4, <1>j
<1>6. ASSUME NEW i \in 1..j PROVE a[i] = b[i]
  <2>1. i \in 1..l + Len(y) /\ i \in 1..l + Len(x)
    BY <1>1, <1>2, <1>5
  <2>2. CASE i <= l
    BY <1>3, <1>4, <2>1, <2>2
  <2>3. CASE ~(i <= l)
    <3>1. i - l \in 1..k
      BY <1>2, <1>5, <2>3
    <3> QED BY <1>1, <1>3, <1>4, <2>1, <2>3, <3>1
  <2> QED BY <2>2, <2>3
<1>7. /\ SubSeq(a, 1, j) \in Seq(Cell) /\ Len(SubSeq(a, 1, j)) = j
      /\ \A i \in 1..j : SubSeq(a, 1, j)[i] = a[i]
  BY <1>3, <1>j, PrefixFacts
<1>8. /\ SubSeq(b, 1, j) \in Seq(Cell) /\ Len(SubSeq(b, 1, j)) = j
      /\ \A i \in 1..j : SubSeq(b, 1, j)[i] = b[i]
  BY <1>4, <1>5, PrefixFacts
<1>9. SubSeq(a, 1, j) = SubSeq(b, 1, j)
  <2> DEFINE u == SubSeq(a, 1, j)
             v == SubSeq(b, 1, j)
  <2>1. u \in Seq(Cell) /\ v \in Seq(Cell) /\ Len(u) = Len(v) /\ Len(u) = j
    BY <1>7, <1>8
  <2>2. \A i \in 1..Len(u) : u[i] = v[i]
    BY <1>6, <1>7, <1>8
  <2> HIDE DEF u, v
  <2>3. u = v
    BY <2>1, <2>2, SameSequence, Zenon
  <2> QED BY <2>3 DEF u, v
<1> QED BY <1>5, <1>9 DEF a, b, y

\* A live writer starts within its file, or at its footer.
LEMMA LiveBase ==
  ASSUME WriterTypes, LiveInv, wstate \in {"open", "failed"}
  PROVE  Base(disk, base) /\ base <= Len(disk)
<1>1. Base(disk, base)
  BY DEF LiveInv, Base
<1> QED BY <1>1, BaseFacts DEF WriterTypes

\* Whatever is written over the old footer, what lies before it stays.
LEMMA AppendFrame ==
  ASSUME WriterTypes, AppendInv, mode = "append", NEW p \in Seq(Cell)
  PROVE  /\ base <= Len(Overlay(disk, base, p))
         /\ Sound(Overlay(disk, base, p), old, base)
<1> DEFINE e == Overlay(disk, base, p)
<1>1. base \in Nat /\ base <= Len(disk) /\ disk \in Seq(Cell) /\ Sound(disk, old, base)
      /\ old \in Seq(Recorded) \union Seq(Listed)
  BY DEF WriterTypes, AppendInv
<1>2. /\ e \in Seq(Cell) /\ Len(disk) <= Len(e)
      /\ \A i \in 1..base : e[i] = disk[i]
  BY <1>1, OverlayFacts
<1> HIDE DEF e
<1>3. base <= Len(e) /\ base <= base
  <2>1. Len(disk) \in Nat /\ Len(e) \in Nat
    BY <1>1, <1>2
  <2> QED BY <1>1, <1>2, <2>1
<1>4. Agree(disk, e, base)
  BY <1>1, <1>2, <1>3 DEF Agree
<1>5. Sound(e, old, base)
  BY <1>1, <1>2, <1>3, <1>4, SoundFrame
<1> QED BY <1>3, <1>5 DEF e

\* An output that has not come to the footer leaves the file as it was or
\* without one.
LEMMA DataOutput ==
  ASSUME WriterTypes, LiveInv, wstate \in {"open", "failed"}, WholeFile(disk),
         NEW p \in Seq(Cell), DataOnly(p)
  PROVE  WholeFile(Overlay(disk, base, p))
<1>1. CASE p = <<>>
  BY <1>1, LiveBase, OverlayNothing DEF WriterTypes
<1>2. CASE p # <<>>
  <2>1. ReadFooter(Overlay(disk, base, p)) = NoFooter
    BY <1>2, LiveBase, NoFooterYet DEF WriterTypes
  <2> QED BY <2>1 DEF WholeFile
<1> QED BY <1>1, <1>2

\* The row groups are still found when more has been written.
LEMMA MoreOutput ==
  ASSUME WriterInv, wstate = "open", NEW q \in Seq(Cell)
  PROVE  /\ Sound(Overlay(disk, base, out \o q), groups, base + Len(out \o q))
         /\ \A c \in Columns :
              ColumnOf(Overlay(disk, base, out \o q), groups, c) = ColumnOf(Image, groups, c)
         /\ Len(out \o q) = Len(out) + Len(q) /\ out \o q \in Seq(Cell)
<1> DEFINE p == out \o q
           e == Overlay(disk, base, p)
           l == base + Len(out)
           m == base + Len(p)
<1>1. /\ disk \in Seq(Cell) /\ base \in Nat /\ out \in Seq(Cell) /\ base <= Len(disk)
      /\ groups \in Seq(Recorded) \union Seq(Listed)
  BY LiveBase DEF WriterInv, WriterTypes
<1>2. p \in Seq(Cell) /\ Len(p) = Len(out) + Len(q)
  BY <1>1, ConcatFacts
<1>3. Agree(Image, e, l)
  BY <1>1, OverlayMore DEF Image
<1>4. Sound(Image, groups, l)
  BY DEF WriterInv, OpenInv
<1> HIDE DEF p
<1>5. e \in Seq(Cell) /\ m <= Len(e)
  BY <1>1, <1>2, OverlayFacts, Zenon
<1>6. Image \in Seq(Cell)
  BY <1>1, OverlayFacts DEF Image
<1>7. l \in Nat /\ m \in Nat /\ l <= m
  BY <1>1, <1>2
<1> HIDE DEF e, l, m
<1>8. Sound(e, groups, m) /\ \A c \in Columns : ColumnOf(e, groups, c) = ColumnOf(Image, groups, c)
  BY <1>1, <1>3, <1>4, <1>5, <1>6, <1>7, SoundFrame
<1> QED BY <1>2, <1>8 DEF e, m, p

\* The parts of what carquet_writer_close writes.
Body == out \o Header \o LastCells
Metadata == FileMetadata(groups \o LastGroup)

\* When all columns stand at the same row, the whole output of a writer is a
\* file that holds all rows sent.
LEMMA CloseFacts ==
  ASSUME WriterInv, wstate = "open", \A c \in Columns : sent[c] = sent[1]
  PROVE  /\ Body \in Seq(Cell) /\ DataOnly(Body) /\ Metadata \in Seq(Listed)
         /\ ClosingCells \in Seq(Cell) /\ out \o ClosingCells = Body \o Ending(Metadata)
         /\ Sound(Overlay(disk, base, Body), Metadata, base + Len(Body))
         /\ \A c \in Columns :
              ColumnOf(Overlay(disk, base, Body), Metadata, c) = Run(0, sent[1])
<1>0. /\ disk \in Seq(Cell) /\ base \in Nat /\ out \in Seq(Cell) /\ base <= Len(disk)
      /\ groups \in Seq(Recorded) /\ cols \in [Columns -> Seq(Nat)] /\ rows \in Nat
      /\ sorting \in BOOLEAN /\ DataOnly(out) /\ 1 \in Columns
  BY LiveBase, FileAssumption DEF WriterInv, WriterTypes, LiveInv, Columns
<1>1. PICK f \in Nat : Split(f)
  BY DEF WriterInv, OpenInv
<1>2. AllLong(cols, rows) /\ sent[1] = f + rows
  <2>1. rows = Len(cols[1]) /\ sent[1] = f + Len(cols[1])
    BY <1>0, <1>1 DEF WriterInv, OpenInv, Split
  <2>2. ASSUME NEW c \in Columns PROVE Len(cols[c]) = rows
    <3>1. sent[c] = f + Len(cols[c]) /\ sent[c] = sent[1] /\ Len(cols[c]) \in Nat
      BY <1>0, <1>1 DEF Split
    <3> QED BY <1>0, <2>1, <3>1
  <2> QED BY <2>1, <2>2 DEF AllLong
<1>3. Header \in Seq(Cell) /\ DataOnly(Header)
  BY HeaderFacts
<1>4. LastCells \in Seq(Cell) /\ DataOnly(LastCells)
  BY <1>0, GroupCellsFacts DEF LastCells, DataOnly
<1>5. Body \in Seq(Cell) /\ DataOnly(Body)
  BY <1>0, <1>3, <1>4, DataConcat, Zenon DEF Body
<1>6. /\ groups \o LastGroup \in Seq(Recorded)
      /\ Sound(Overlay(disk, base, Body), groups \o LastGroup, base + Len(Body))
      /\ \A c \in Columns :
           ColumnOf(Overlay(disk, base, Body), groups \o LastGroup, c) = Run(0, sent[1])
  <2>1. CASE rows > 0
    <3> DEFINE gs2 == Append(groups, RowGroup(rows, base + Len(out) + Len(Header)))
    <3>1. groups \o LastGroup = gs2
      <4>1. LastGroup = <<RowGroup(rows, base + Len(out) + Len(Header))>>
        BY <2>1 DEF LastGroup, WriterInv, OpenInv
      <4> QED BY <1>0, <4>1
    <3>2. Body = out \o Header \o GroupCells(cols)
      BY <2>1 DEF Body, LastCells
    <3>3. Sound(Overlay(disk, base, out), groups, base + Len(out))
      BY DEF WriterInv, OpenInv, Image
    <3>4. /\ gs2 \in Seq(Recorded)
          /\ Sound(Overlay(disk, base, Body), gs2, base + Len(Body))
          /\ \A c \in Columns : ColumnOf(Overlay(disk, base, Body), gs2, c) =
                                  ColumnOf(Overlay(disk, base, out), groups, c) \o cols[c]
      <4> DEFINE h == Header
                 b2 == out \o h \o GroupCells(cols)
                 g2 == Append(groups, RowGroup(rows, base + Len(out) + Len(h)))
      <4>1. h \in Seq(Cell)
        BY <1>3
      <4>2. AllLong(cols, rows)
        BY <1>2
      <4> HIDE DEF h
      <4>3. /\ g2 \in Seq(Recorded) /\ b2 \in Seq(Cell)
            /\ Len(b2) = Len(out) + Len(h) + Len(GroupCells(cols))
            /\ Sound(Overlay(disk, base, b2), g2, base + Len(b2))
            /\ \A c \in Columns : ColumnOf(Overlay(disk, base, b2), g2, c) =
                                    ColumnOf(Overlay(disk, base, out), groups, c) \o cols[c]
        <5>1. Grown(disk, base, out, h, groups, rows, cols)
          BY <1>0, <3>3, <4>1, <4>2, AddGroup
        <5> QED BY <5>1, Zenon DEF Grown
      <4> QED BY <3>2, <4>3 DEF h
    <3> HIDE DEF gs2
    <3>5. ASSUME NEW c \in Columns
          PROVE  ColumnOf(Overlay(disk, base, Body), gs2, c) = Run(0, sent[1])
      <4>1. ColumnOf(Overlay(disk, base, out), groups, c) = Run(0, f)
        BY <1>1 DEF Split, Image
      <4>2. cols[c] = Run(f, rows)
        BY <1>1, <1>2 DEF Split, AllLong
      <4>3. Run(0, f) \o Run(f, rows) = Run(0, f + rows)
        BY <1>0, RunFromZero, Zenon
      <4> QED BY <1>2, <3>4, <4>1, <4>2, <4>3, Zenon
    <3> QED BY <3>1, <3>4, <3>5
  <2>2. CASE ~(rows > 0)
    <3>1. groups \o LastGroup = groups
      BY <1>0, <2>2 DEF LastGroup
    <3>2. Body = out \o Header
      BY <1>0, <1>3, <2>2, DataConcat DEF Body, LastCells
    <3>3. /\ Sound(Overlay(disk, base, Body), groups, base + Len(Body))
          /\ \A c \in Columns :
               ColumnOf(Overlay(disk, base, Body), groups, c) = ColumnOf(Image, groups, c)
      BY <1>3, <3>2, MoreOutput
    <3>4. rows = 0 /\ sent[1] = f
      BY <1>0, <1>2, <2>2
    <3> QED BY <1>0, <1>1, <3>1, <3>3, <3>4 DEF Split
  <2> QED BY <2>1, <2>2
<1>7. Metadata \in Seq(Listed) /\ Alike(groups \o LastGroup, Metadata)
  BY <1>0, <1>6, MetadataFacts, Zenon DEF Metadata
<1>8. /\ Sound(Overlay(disk, base, Body), Metadata, base + Len(Body))
      /\ \A c \in Columns :
           ColumnOf(Overlay(disk, base, Body), Metadata, c) = Run(0, sent[1])
  <2> DEFINE gs == groups \o LastGroup
             hs == Metadata
             e == Overlay(disk, base, Body)
             l == base + Len(Body)
  <2>1. gs \in Seq(Recorded) /\ hs \in Seq(Listed) /\ Alike(gs, hs) /\ Sound(e, gs, l)
    BY <1>6, <1>7
  <2>2. \A c \in Columns : ColumnOf(e, gs, c) = Run(0, sent[1])
    BY <1>6
  <2> HIDE DEF gs, hs, e, l
  <2>3. Sound(e, hs, l) /\ \A c \in Columns : ColumnOf(e, hs, c) = ColumnOf(e, gs, c)
    BY <2>1, AlikeSound
  <2>4. Sound(e, hs, l) /\ \A c \in Columns : ColumnOf(e, hs, c) = Run(0, sent[1])
    BY <2>2, <2>3
  <2> QED BY <2>4 DEF hs, e, l
<1>9. ClosingCells \in Seq(Cell) /\ out \o ClosingCells = Body \o Ending(Metadata)
  <2> DEFINE F == FooterCells(Metadata)
             T == <<TailCell(Metadata)>>
  <2>1. ClosingCells = Header \o LastCells \o F \o T
    BY DEF ClosingCells, Metadata
  <2>2. F \in Seq(Cell) /\ T \in Seq(Cell) /\ Ending(Metadata) = F \o T
    <3>1. \A i \in 1..FooterSize(Metadata) :
            [k |-> "footer", groups |-> Metadata, i |-> i] \in Cell
      BY <1>7 DEF Cell
    <3>2. FooterSize(Metadata) \in Nat
      BY <1>7, FooterSizeNat
    <3>3. F \in Seq(Cell)
      BY <3>1, <3>2 DEF FooterCells
    <3>4. TailCell(Metadata) \in Cell
      BY <3>2 DEF TailCell, Cell
    <3>5. T \in Seq(Cell)
      BY <3>4
    <3> QED BY <3>3, <3>5 DEF Ending
  <2> HIDE DEF F, T
  <2> DEFINE H == Header
             L == LastCells
  <2>3. H \in Seq(Cell) /\ L \in Seq(Cell)
    BY <1>3, <1>4
  <2>4. Body = (out \o H) \o L
    BY DEF Body
  <2>5. ClosingCells = ((H \o L) \o F) \o T
    BY <2>1
  <2> HIDE DEF H, L
  <2>6. /\ ((H \o L) \o F) \o T \in Seq(Cell)
        /\ out \o (((H \o L) \o F) \o T) = ((out \o H) \o L) \o (F \o T)
    <3>1. RegroupsFive(out, H, L, F, T)
      BY <1>0, <2>2, <2>3, ConcatFive
    <3> QED BY <3>1, Zenon DEF RegroupsFive
  <2> QED BY <2>2, <2>4, <2>5, <2>6
<1> QED BY <1>5, <1>7, <1>8, <1>9

\* When carquet_writer_close may be called.
EvenRows == \A c \in Columns : sent[c] = sent[1]

\* Any part of what a closing writer writes leaves a whole file or one
\* without a footer.
LEMMA PartOfWhole ==
  ASSUME WriterInv, wstate = "open", EvenRows, NEW n \in 0..Len(out \o ClosingCells)
  PROVE  WholeFile(Overlay(disk, base, SubSeq(out \o ClosingCells, 1, n)))
<1> DEFINE q == Body
           m == Metadata
           w == out \o ClosingCells
           x == Overlay(disk, base, q)
           p == SubSeq(w, 1, n)
           e == Overlay(disk, base, p)
           l == base + Len(q)
<1>1. /\ disk \in Seq(Cell) /\ base \in Nat /\ Base(disk, base) /\ base <= Len(disk)
      /\ WholeFile(disk) /\ sent[1] \in Nat
  BY LiveBase, FileAssumption DEF WriterInv, WriterTypes, Columns
<1>2. /\ q \in Seq(Cell) /\ DataOnly(q) /\ m \in Seq(Listed) /\ w = q \o Ending(m)
      /\ Sound(x, m, l) /\ \A c \in Columns : ColumnOf(x, m, c) = Run(0, sent[1])
  BY CloseFacts, Zenon DEF EvenRows
<1>3. CASE n = 0
  <2>1. p = <<>>
    BY <1>3
  <2> QED BY <1>1, <2>1, OverlayNothing, Zenon
<1>4. CASE n # 0
  <2> HIDE DEF q, m, w
  <2>1. n \in 1..Len(q \o Ending(m)) /\ n \in 0..Len(w) /\ w \in Seq(Cell)
    <3>1. Ending(m) \in Seq(Cell)
      BY <1>2, EndingFacts, Zenon
    <3>2. w \in Seq(Cell)
      BY <1>2, <3>1, ConcatFacts
    <3>3. n \in 0..Len(w)
      BY DEF w
    <3>4. Len(w) \in Nat
      BY <3>2
    <3> QED BY <1>2, <1>4, <3>2, <3>3, <3>4
  <2>2. Reads(disk, base, q, m, Overlay(disk, base, SubSeq(q \o Ending(m), 1, n)))
    BY <1>1, <1>2, <2>1, Reread
  <2>3. Reads(disk, base, q, m, e)
    BY <1>2, <2>2
  <2>4. p \in Seq(Cell)
    BY <2>1, PrefixFacts
  <2>5. e \in Seq(Cell) /\ x \in Seq(Cell)
    BY <1>1, <1>2, <2>4, OverlayFacts, Zenon
  <2> HIDE DEF e, x, l, p
  <2>6. WholeFile(e)
    <3>1. CASE ReadFooter(e) = NoFooter
      BY <3>1 DEF WholeFile
    <3>2. CASE ReadFooter(e) # NoFooter
      <4>1. ReadFooter(e) = m /\ FooterStart(e) = l /\ Agree(x, e, l)
        BY <2>3, <3>2 DEF Reads, x, l
      <4>2. l \in Nat /\ l <= l /\ l <= Len(e)
        BY <1>1, <1>2, <4>1 DEF l, Agree
      <4>3. m \in Seq(Recorded) \union Seq(Listed)
        BY <1>2
      <4>4. Sound(e, m, l) /\ \A c \in Columns : ColumnOf(e, m, c) = ColumnOf(x, m, c)
        BY <1>2, <2>5, <4>1, <4>2, <4>3, SoundFrame
      <4> QED BY <1>1, <1>2, <4>1, <4>4 DEF WholeFile
    <3> QED BY <3>1, <3>2
  <2> QED BY <2>6 DEF e, p, w
<1> QED BY <1>3, <1>4

\* All of it, when it reaches to the end of the file, is a file that holds the
\* rows sent.
LEMMA WholeOutput ==
  ASSUME WriterInv, wstate = "open", EvenRows,
         Len(Overlay(disk, base, out \o ClosingCells)) = base + Len(out \o ClosingCells)
  PROVE  LET e == Overlay(disk, base, out \o ClosingCells)
         IN /\ ReadFooter(e) = Metadata
            /\ Sound(e, Metadata, base + Len(Body))
            /\ \A c \in Columns : ColumnOf(e, Metadata, c) = Run(0, sent[1])
<1> DEFINE q == Body
           m == Metadata
           t == Ending(m)
           w == out \o ClosingCells
           x == Overlay(disk, base, q)
           e == Overlay(disk, base, w)
           l == base + Len(q)
<1>1. disk \in Seq(Cell) /\ base \in Nat /\ base <= Len(disk)
  BY LiveBase DEF WriterInv, WriterTypes
<1>2. /\ q \in Seq(Cell) /\ m \in Seq(Listed) /\ w = q \o t
      /\ Sound(x, m, l) /\ \A c \in Columns : ColumnOf(x, m, c) = Run(0, sent[1])
  BY CloseFacts, Zenon DEF EvenRows
<1>3. Len(e) = base + Len(w)
  OBVIOUS
<1> HIDE DEF q, m, w
<1>4. t \in Seq(Cell)
  BY <1>2, EndingFacts, Zenon
<1> HIDE DEF t
<1>5. w \in Seq(Cell) /\ Len(w) = Len(q) + Len(t)
  BY <1>2, <1>4, ConcatFacts
<1>6. Agree(x, Overlay(disk, base, q \o t), l) /\ HasAt(Overlay(disk, base, q \o t), l, t)
  BY <1>1, <1>2, <1>4, OverlayMore
<1>7. Agree(x, e, l) /\ HasAt(e, l, t)
  BY <1>2, <1>6
<1>8. e \in Seq(Cell) /\ x \in Seq(Cell)
  BY <1>1, <1>2, <1>5, OverlayFacts, Zenon
<1> HIDE DEF e, x
<1>9. l \in Nat /\ l <= l /\ l <= Len(e) /\ Len(e) = l + Len(t)
  <2>1. Len(q) \in Nat /\ Len(t) \in Nat
    BY <1>2, <1>4
  <2> QED BY <1>1, <1>3, <1>5, <2>1
<1> HIDE DEF l
<1>10. ReadFooter(e) = m /\ FooterStart(e) = l
  BY <1>2, <1>7, <1>8, <1>9, FooterFound DEF t
<1>11. m \in Seq(Recorded) \union Seq(Listed)
  BY <1>2
<1>12. Sound(e, m, l) /\ \A c \in Columns : ColumnOf(e, m, c) = ColumnOf(x, m, c)
  BY <1>2, <1>7, <1>8, <1>9, <1>11, SoundFrame
<1> QED BY <1>2, <1>10, <1>12 DEF e, w, m, l, q

-------------------------------------------------------------------------------
(* The operations keep the invariant.                                      *)

\* An empty file is whole, and so is no file.
LEMMA NoFooterIsWhole ==
  /\ <<>> \in Seq(Cell) /\ NoFile \in Seq(Cell)
  /\ ReadFooter(<<>>) = NoFooter /\ ReadFooter(NoFile) = NoFooter
  /\ WholeFile(<<>>) /\ WholeFile(NoFile)
<1>1. NoFile \in Seq(Cell)
  BY DEF NoFile, Cell
<1>2. ReadFooter(<<>>) = NoFooter /\ ReadFooter(NoFile) = NoFooter
  BY DEF ReadFooter, NoFile
<1> QED BY <1>1, <1>2 DEF WholeFile

\* A writer on a new file.
LEMMA CreateKeeps ==
  ASSUME NEW m \in {"path", "stream"}, Create(m)
  PROVE  WriterInv'
<1> USE DEF Create, Fresh
<1>0. NoRows \in [Columns -> Seq(Nat)] /\ 1 \in Columns /\ \A c \in Columns : NoRows[c] = <<>>
  BY FileAssumption DEF NoRows, Columns
<1>1. WriterTypes'
  <2>1. /\ disk' \in Seq(Cell) /\ base' \in Nat /\ out' \in Seq(Cell)
        /\ groups' \in Seq(Recorded)
    OBVIOUS
  <2>2. /\ mode' \in {"path", "stream", "append"} /\ wstate' = "open"
        /\ header_written' \in BOOLEAN /\ file_offset' \in Nat
        /\ rows' \in Nat /\ sorting' \in BOOLEAN /\ synced' \in BOOLEAN
    BY Zenon
  <2>3. cols' \in [Columns -> Seq(Nat)] /\ sent' \in [Columns -> Nat]
    BY <1>0
  <2> QED BY <2>1, <2>2, <2>3 DEF WriterTypes
<1>2. LiveInv'
  BY DEF LiveInv, DataOnly
<1>3. Image' = <<>>
  <2>1. Image' = Overlay(<<>>, 0, <<>>)
    BY DEF Image
  <2> DEFINE d == <<>>
  <2>2. d \in Seq(Cell) /\ 0 \in Nat /\ 0 <= Len(d) /\ d = <<>>
    OBVIOUS
  <2> HIDE DEF d
  <2>4. Overlay(d, 0, <<>>) = d
    BY <2>2, OverlayNothing, Zenon
  <2> QED BY <2>1, <2>2, <2>4
<1>4. OpenInv'
  <2>1. file_offset' = base' + Len(out') /\ rows' = Len(cols'[1])
    BY <1>0
  <2>2. Sound(Image', groups', file_offset')
    BY <1>3 DEF Sound
  <2>3. ASSUME NEW c \in Columns
        PROVE  /\ sent'[c] = 0 + Len(cols'[c])
               /\ ColumnOf(Image', groups', c) = Run(0, 0)
               /\ cols'[c] = Run(0, Len(cols'[c]))
    BY <1>0, ColumnEmpty, RunNothing
  <2>4. Split(0)'
    BY <2>3 DEF Split
  <2>5. \E f \in Nat : Split(f)'
    BY <2>4
  <2> QED BY <2>1, <2>2, <2>5 DEF OpenInv
<1>5. AppendInv'
  BY DEF AppendInv
<1>6. WholeFile(disk)'
  BY NoFooterIsWhole
<1> QED BY <1>1, <1>2, <1>4, <1>5, <1>6 DEF WriterInv

\* A writer on an existing file: it takes over the row groups of the footer.
LEMMA OpenAppendKeeps ==
  ASSUME disk \in Seq(Cell), WholeFile(disk), OpenAppend
  PROVE  WriterInv'
<1> USE DEF OpenAppend, Fresh, SeekTo
<1> DEFINE m == ReadFooter(disk)
           s == FooterStart(disk)
           gs == [i \in DOMAIN m |-> RestoreRowGroup(m[i])]
<1>0. NoRows \in [Columns -> Seq(Nat)] /\ 1 \in Columns /\ \A c \in Columns : NoRows[c] = <<>>
  BY FileAssumption DEF NoRows, Columns
<1>1. m # NoFooter /\ m \in Seq(Listed) /\ s \in Nat /\ s <= Len(disk)
  BY FooterFacts
<1>2. gs \in Seq(Recorded) /\ Alike(m, gs)
  BY <1>1, RestoredFacts
<1>3. /\ Sound(disk, m, s)
      /\ \E n \in Nat : \A c \in Columns : ColumnOf(disk, m, c) = Run(0, n)
  BY <1>1 DEF WholeFile
<1>4. PICK n \in Nat : \A c \in Columns : ColumnOf(disk, m, c) = Run(0, n)
  BY <1>3
<1>5. /\ groups' = gs /\ base' = s /\ file_offset' = s /\ old' = m /\ disk' = disk
      /\ out' = <<>> /\ cols' = NoRows /\ rows' = 0 /\ mode' = "append" /\ wstate' = "open"
      /\ header_written' = TRUE /\ sorting' = FALSE /\ synced' = FALSE
      /\ sent' = [c \in Columns |-> Len(ColumnOf(disk, m, c))]
  OBVIOUS
<1> HIDE DEF m, s, gs, OpenAppend, Fresh
<1>6. Len(Run(0, n)) = n
  BY RunFacts
<1>7. sent' = [c \in Columns |-> n]
  BY <1>4, <1>5, <1>6
<1>8. WriterTypes'
  <2>1. /\ disk' \in Seq(Cell) /\ base' \in Nat /\ out' \in Seq(Cell)
        /\ groups' \in Seq(Recorded)
    BY <1>1, <1>2, <1>5
  <2>2. /\ mode' \in {"path", "stream", "append"} /\ wstate' = "open"
        /\ header_written' \in BOOLEAN /\ file_offset' \in Nat
        /\ rows' \in Nat /\ sorting' \in BOOLEAN /\ synced' \in BOOLEAN
    BY <1>1, <1>5, Zenon
  <2>3. cols' \in [Columns -> Seq(Nat)] /\ sent' \in [Columns -> Nat]
    BY <1>0, <1>5, <1>7
  <2> QED BY <2>1, <2>2, <2>3 DEF WriterTypes
<1>9. LiveInv'
  BY <1>1, <1>5 DEF LiveInv, DataOnly, m, s
<1>10. Image' = disk
  BY <1>1, <1>5, OverlayNothing DEF Image
<1>11. Sound(disk, gs, s) /\ \A c \in Columns : ColumnOf(disk, gs, c) = ColumnOf(disk, m, c)
  BY <1>1, <1>2, <1>3, AlikeSound
<1>12. OpenInv'
  <2>1. file_offset' = base' + Len(out') /\ rows' = Len(cols'[1])
    BY <1>0, <1>1, <1>5
  <2>2. Sound(Image', groups', file_offset')
    BY <1>5, <1>10, <1>11
  <2>3. ASSUME NEW c \in Columns
        PROVE  /\ sent'[c] = n + Len(cols'[c])
               /\ ColumnOf(Image', groups', c) = Run(0, n)
               /\ cols'[c] = Run(n, Len(cols'[c]))
    BY <1>0, <1>4, <1>5, <1>7, <1>10, <1>11, RunNothing
  <2>4. Split(n)'
    BY <2>3 DEF Split
  <2>5. \E f \in Nat : Split(f)'
    BY <2>4
  <2> QED BY <2>1, <2>2, <2>5 DEF OpenInv
<1>13. AppendInv'
  BY <1>1, <1>3, <1>5 DEF AppendInv
<1>14. WholeFile(disk)'
  BY <1>5
<1> QED BY <1>8, <1>9, <1>12, <1>13, <1>14 DEF WriterInv

\* carquet_writer_set_sorting_columns
LEMMA SetSortingKeeps ==
  ASSUME WriterInv, SetSorting
  PROVE  WriterInv'
<1> USE DEF SetSorting, stream, current, history
<1>1. WriterTypes'
  BY DEF WriterInv, WriterTypes
<1>2. LiveInv'
  BY DEF WriterInv, LiveInv
<1>3. OpenInv'
  <2>1. Image' = Image
    BY DEF Image
  <2> QED BY <2>1 DEF WriterInv, OpenInv, Split
<1>4. AppendInv' /\ WholeFile(disk)'
  BY DEF WriterInv, AppendInv
<1> QED BY <1>1, <1>2, <1>3, <1>4 DEF WriterInv

\* flush_row_group ends a row group whose columns stand at the same row.
LEMMA FlushFacts ==
  ASSUME WriterInv, wstate = "open", NEW f \in Nat,
         \A c \in Columns : ColumnOf(Image, groups, c) = Run(0, f),
         NEW cs \in [Columns -> Seq(Nat)], NEW n \in Nat, AllLong(cs, n),
         \A c \in Columns : cs[c] = Run(f, n),
         Flush(Header, cs, n), UNCHANGED <<disk, base>>
  PROVE  /\ out' \in Seq(Cell) /\ DataOnly(out') /\ groups' \in Seq(Recorded)
         /\ file_offset' = base + Len(out') /\ Sound(Image', groups', file_offset')
         /\ \A c \in Columns : ColumnOf(Image', groups', c) = Run(0, f + n)
<1> DEFINE h == Header
           q == GroupCells(cs)
           o2 == out \o h \o q
           g2 == Append(groups, RowGroup(n, base + Len(out) + Len(h)))
<1>0. /\ disk \in Seq(Cell) /\ base \in Nat /\ out \in Seq(Cell) /\ base <= Len(disk)
      /\ groups \in Seq(Recorded) /\ DataOnly(out) /\ Len(out) \in Nat
      /\ Sound(Overlay(disk, base, out), groups, base + Len(out))
      /\ file_offset = base + Len(out)
  BY LiveBase DEF WriterInv, WriterTypes, LiveInv, OpenInv, Image
<1>1. h \in Seq(Cell) /\ DataOnly(h) /\ Len(h) \in Nat
  BY HeaderFacts
<1>2. q \in Seq(Cell) /\ DataOnly(q) /\ Len(q) \in Nat
  <2>1. q \in Seq(Cell) /\ DataOnly(q)
    BY GroupCellsFacts, Zenon
  <2> HIDE DEF q
  <2> QED BY <2>1
<1>3. /\ out' = out \o h \o q
      /\ groups' = Append(groups, RowGroup(n, file_offset + Len(h)))
      /\ file_offset' = file_offset + Len(h) + Len(q)
      /\ disk' = disk /\ base' = base
  BY DEF Flush
<1> HIDE DEF h
<1>4. Grown(disk, base, out, h, groups, n, cs)
  BY <1>0, <1>1, AddGroup
<1>5. /\ g2 \in Seq(Recorded) /\ o2 \in Seq(Cell) /\ Len(o2) = Len(out) + Len(h) + Len(q)
      /\ Sound(Overlay(disk, base, o2), g2, base + Len(o2))
      /\ \A c \in Columns : ColumnOf(Overlay(disk, base, o2), g2, c) =
                              ColumnOf(Overlay(disk, base, out), groups, c) \o cs[c]
  BY <1>4, Zenon DEF Grown
<1> HIDE DEF q
<1>6. DataOnly(o2)
  <2>1. out \o h \in Seq(Cell) /\ DataOnly(out \o h)
    BY <1>0, <1>1, DataConcat
  <2> QED BY <1>2, <2>1, DataConcat, Zenon
<1>7. groups' = g2 /\ out' = o2 /\ Image' = Overlay(disk, base, o2)
  BY <1>0, <1>3 DEF Image
<1> HIDE DEF o2, g2
<1>8. file_offset' = base + Len(out')
  <2>1. file_offset' = base + Len(out) + Len(h) + Len(q)
    BY <1>0, <1>3
  <2>2. Len(out') = Len(out) + Len(h) + Len(q)
    BY <1>5, <1>7
  <2> QED BY <1>0, <1>1, <1>2, <2>1, <2>2
<1>9. ASSUME NEW c \in Columns PROVE ColumnOf(Image', groups', c) = Run(0, f + n)
  <2>1. Run(0, f) \o Run(f, n) = Run(0, f + n)
    BY RunFromZero, Zenon
  <2>2. ColumnOf(Overlay(disk, base, out), groups, c) = Run(0, f) /\ cs[c] = Run(f, n)
    BY DEF Image
  <2> QED BY <1>5, <1>7, <2>1, <2>2, Zenon
<1> QED BY <1>5, <1>6, <1>7, <1>8, <1>9, Zenon

\* The open row group b holds what was sent after the first f rows, when s
\* are the rows sent.
Follows(b, s, f) ==
  /\ b.cols \in [Columns -> Seq(Nat)] /\ b.rows \in Nat /\ b.rows = Len(b.cols[1])
  /\ s \in [Columns -> Nat]
  /\ \A d \in Columns : b.cols[d] = Run(f, Len(b.cols[d])) /\ s[d] = f + Len(b.cols[d])

\* The open row group after a batch of the n rows that follow: with those
\* before it in the column they make one run.
LEMMA BatchFacts ==
  ASSUME WriterInv, wstate = "open", NEW f \in Nat, Split(f), NEW c \in Columns,
         NEW n \in Nat
  PROVE  Follows(Batch(c, Run(sent[c], n)), [sent EXCEPT ![c] = @ + n], f)
<1> DEFINE k == Len(cols[c])
           v == Run(sent[c], n)
           b == Batch(c, v)
           s == [sent EXCEPT ![c] = @ + n]
<1>0. /\ cols \in [Columns -> Seq(Nat)] /\ sent \in [Columns -> Nat] /\ rows \in Nat
      /\ rows = Len(cols[1]) /\ 1 \in Columns
  BY FileAssumption DEF WriterInv, WriterTypes, OpenInv, Columns
<1>1. k \in Nat /\ sent[c] = f + k /\ cols[c] = Run(f, k) /\ sent[c] \in Nat
  BY <1>0 DEF Split
<1>2. v = Run(f + k, n) /\ v \in Seq(Nat) /\ Len(v) = n
  BY <1>1, RunFacts, Zenon
<1>3. /\ b.cols = [cols EXCEPT ![c] = @ \o v]
      /\ b.rows = IF c = 1 THEN rows + Len(v) ELSE rows
  BY DEF Batch
<1>s. s = [sent EXCEPT ![c] = @ + n]
  OBVIOUS
<1> HIDE DEF k, v, b, s
<1>4. cols[c] \o v = Run(f, k + n)
  <2>1. Run(f, k) \o Run(f + k, n) = Run(f, k + n)
    BY <1>1, RunConcat, Zenon
  <2> QED BY <1>1, <1>2, <2>1
<1>5. Run(f, k + n) \in Seq(Nat) /\ Len(Run(f, k + n)) = k + n
  <2>1. k + n \in Nat
    BY <1>1
  <2> QED BY <2>1, RunFacts, Zenon
<1>6. b.cols \in [Columns -> Seq(Nat)] /\ b.cols[c] = Run(f, k + n)
      /\ \A d \in Columns : d # c => b.cols[d] = cols[d]
  BY <1>0, <1>3, <1>4, <1>5
<1>7. s \in [Columns -> Nat] /\ s[c] = f + (k + n) /\ \A d \in Columns : d # c => s[d] = sent[d]
  BY <1>0, <1>1, <1>s
<1>8. b.rows \in Nat /\ b.rows = Len(b.cols[1])
  <2>1. CASE c = 1
    <3>1. rows = k /\ b.rows = rows + n
      BY <1>0, <1>2, <1>3, <2>1 DEF k
    <3>2. Len(b.cols[1]) = k + n
      BY <1>5, <1>6, <2>1
    <3> QED BY <1>1, <3>1, <3>2
  <2>2. CASE c # 1
    BY <1>0, <1>3, <1>6, <2>2
  <2> QED BY <2>1, <2>2
<1>9. ASSUME NEW d \in Columns
      PROVE  b.cols[d] = Run(f, Len(b.cols[d])) /\ s[d] = f + Len(b.cols[d])
  <2>1. CASE d = c
    BY <1>5, <1>6, <1>7, <2>1, Zenon
  <2>2. CASE d # c
    BY <1>6, <1>7, <2>2, Zenon DEF Split
  <2> QED BY <2>1, <2>2
<1> QED BY <1>6, <1>7, <1>8, <1>9 DEF Follows, b, s, v

\* What a call that writes must establish.
LEMMA WritingKeeps ==
  ASSUME WriterInv, wstate = "open",
         UNCHANGED <<disk, base, mode, wstate, sorting, old, synced>>, header_written' = TRUE,
         out' \in Seq(Cell), DataOnly(out'), groups' \in Seq(Recorded),
         file_offset' = base + Len(out'), Sound(Image', groups', file_offset'),
         cols' \in [Columns -> Seq(Nat)], rows' \in Nat, rows' = Len(cols'[1]),
         sent' \in [Columns -> Nat], \E f \in Nat : Split(f)'
  PROVE  WriterInv'
<1>1. WriterTypes'
  <2>1. file_offset' \in Nat
    BY DEF WriterInv, WriterTypes
  <2> QED BY <2>1 DEF WriterInv, WriterTypes
<1>2. LiveInv'
  BY DEF WriterInv, LiveInv
<1>3. OpenInv'
  BY DEF OpenInv
<1>4. AppendInv' /\ WholeFile(disk)'
  BY DEF WriterInv, AppendInv
<1> QED BY <1>1, <1>2, <1>3, <1>4 DEF WriterInv

\* carquet_writer_write_batch of the next n rows of column c, whether or not
\* it flushes the row group.
LEMMA WriteBatchKeeps ==
  ASSUME WriterInv, wstate = "open", NEW c \in Columns, NEW n \in Nat,
         WriteBatch(c, Run(sent[c], n))
  PROVE  WriterInv'
<1> DEFINE v == Run(sent[c], n)
           b == Batch(c, v)
<1>0. PICK f \in Nat : Split(f)
  BY DEF WriterInv, OpenInv
<1>1. sent[c] \in Nat /\ Len(v) = n
  BY RunFacts DEF WriterInv, WriterTypes
<1>2. /\ UNCHANGED <<disk, base, mode, wstate, sorting, old, synced>>
      /\ header_written' = TRUE /\ sent' = [sent EXCEPT ![c] = @ + n]
  BY <1>1 DEF WriteBatch
<1>3. /\ b.cols \in [Columns -> Seq(Nat)] /\ b.rows \in Nat /\ b.rows = Len(b.cols[1])
      /\ sent' \in [Columns -> Nat]
      /\ \A d \in Columns : b.cols[d] = Run(f, Len(b.cols[d])) /\ sent'[d] = f + Len(b.cols[d])
  <2>1. Follows(Batch(c, Run(sent[c], n)), [sent EXCEPT ![c] = @ + n], f)
    BY <1>0, BatchFacts
  <2> QED BY <1>2, <2>1 DEF Follows
<1>4. IF AutoFlush(b) THEN Flush(Header, b.cols, b.rows)
      ELSE /\ out' = out \o Header /\ file_offset' = file_offset + Len(Header)
           /\ cols' = b.cols /\ rows' = b.rows /\ UNCHANGED groups
  BY DEF WriteBatch
<1> HIDE DEF v, b
<1>5. CASE AutoFlush(b)
  <2> DEFINE cs == b.cols
             k == b.rows
  <2>1. AllLong(cs, k)
    BY <1>5 DEF AutoFlush, Aligned, AllLong
  <2>2. cs \in [Columns -> Seq(Nat)] /\ k \in Nat /\ \A d \in Columns : cs[d] = Run(f, k)
    BY <1>3, <2>1 DEF AllLong
  <2>3. \A d \in Columns : ColumnOf(Image, groups, d) = Run(0, f)
    BY <1>0 DEF Split
  <2>4. Flush(Header, cs, k)
    BY <1>4, <1>5
  <2>5. \A d \in Columns : sent'[d] = f + k
    BY <1>3, <2>1, Zenon DEF AllLong
  <2> HIDE DEF cs, k
  <2>6. /\ out' \in Seq(Cell) /\ DataOnly(out') /\ groups' \in Seq(Recorded)
        /\ file_offset' = base + Len(out') /\ Sound(Image', groups', file_offset')
        /\ \A d \in Columns : ColumnOf(Image', groups', d) = Run(0, f + k)
    BY <1>2, <2>1, <2>2, <2>3, <2>4, FlushFacts
  <2>7. /\ cols' = NoRows /\ rows' = 0 /\ cols' \in [Columns -> Seq(Nat)]
        /\ \A d \in Columns : cols'[d] = <<>>
    BY <2>4 DEF Flush, NoRows
  <2>8. rows' \in Nat /\ rows' = Len(cols'[1])
    BY <2>7, FileAssumption DEF Columns
  <2>9. f + k \in Nat
    BY <2>2
  <2>g. PICK g \in Nat : g = f + k
    BY <2>9
  <2>10. ASSUME NEW d \in Columns
         PROVE  /\ sent'[d] = g + Len(cols'[d]) /\ ColumnOf(Image', groups', d) = Run(0, g)
                /\ cols'[d] = Run(g, Len(cols'[d]))
    <3>1. cols'[d] = <<>> /\ Len(cols'[d]) = 0 /\ g + 0 = g
      BY <2>7, <2>g
    <3>2. sent'[d] = g /\ ColumnOf(Image', groups', d) = Run(0, g)
      BY <2>5, <2>6, <2>g, Zenon
    <3> QED BY <3>1, <3>2, RunNothing, Zenon
  <2>12. Split(g)'
    BY <2>10 DEF Split
  <2>13. \E i \in Nat : Split(i)'
    BY <2>12
  <2> QED BY <1>2, <1>3, <2>6, <2>7, <2>8, <2>13, WritingKeeps
<1>6. CASE ~AutoFlush(b)
  <2>1. /\ out' = out \o Header /\ file_offset' = file_offset + Len(Header)
        /\ cols' = b.cols /\ rows' = b.rows /\ groups' = groups
    BY <1>4, <1>6
  <2>2. /\ Header \in Seq(Cell) /\ DataOnly(Header) /\ out \in Seq(Cell) /\ DataOnly(out)
        /\ groups \in Seq(Recorded) /\ file_offset = base + Len(out) /\ base \in Nat
    BY HeaderFacts DEF WriterInv, WriterTypes, LiveInv, OpenInv
  <2>3. out' \in Seq(Cell) /\ DataOnly(out')
    BY <2>1, <2>2, DataConcat
  <2>4. /\ Sound(Image', groups, base + Len(out'))
        /\ \A d \in Columns : ColumnOf(Image', groups, d) = ColumnOf(Image, groups, d)
        /\ Len(out') = Len(out) + Len(Header)
    <3>1. Image' = Overlay(disk, base, out \o Header)
      BY <1>2, <2>1 DEF Image
    <3> QED BY <2>1, <2>2, <3>1, MoreOutput
  <2>5. file_offset' = base + Len(out')
    BY <2>1, <2>2, <2>4
  <2>6. Split(f)'
    BY <1>0, <1>3, <2>1, <2>4 DEF Split
  <2>7. \E i \in Nat : Split(i)'
    BY <2>6
  <2> QED BY <1>2, <1>3, <2>1, <2>2, <2>3, <2>4, <2>5, <2>7, WritingKeeps
<1> QED BY <1>5, <1>6

\* carquet_writer_new_row_group, when all columns stand at the same row.
LEMMA NewRowGroupKeeps ==
  ASSUME WriterInv, wstate = "open", EvenRows, NewRowGroup
  PROVE  WriterInv'
<1>0. PICK f \in Nat : Split(f)
  BY DEF WriterInv, OpenInv
<1>1. /\ UNCHANGED <<disk, base, mode, wstate, sorting, old, synced, sent>>
      /\ header_written' = TRUE
  BY DEF NewRowGroup, history
<1>2. /\ cols \in [Columns -> Seq(Nat)] /\ rows \in Nat /\ rows = Len(cols[1])
      /\ sent \in [Columns -> Nat] /\ 1 \in Columns
  BY FileAssumption DEF WriterInv, WriterTypes, OpenInv, Columns
<1>3. CASE rows > 0
  <2>1. Flush(Header, cols, rows)
    BY <1>3 DEF NewRowGroup
  <2>2. AllLong(cols, rows)
    <3>1. ASSUME NEW c \in Columns PROVE Len(cols[c]) = rows
      <4>1. /\ sent[c] = f + Len(cols[c]) /\ sent[1] = f + rows /\ Len(cols[c]) \in Nat
            /\ sent[c] = sent[1]
        BY <1>0, <1>2 DEF Split, EvenRows
      <4> QED BY <1>2, <4>1
    <3> QED BY <3>1 DEF AllLong
  <2>3. \A c \in Columns : cols[c] = Run(f, rows)
    BY <1>0, <2>2 DEF Split, AllLong
  <2>4. \A c \in Columns : ColumnOf(Image, groups, c) = Run(0, f)
    BY <1>0 DEF Split
  <2>5. /\ out' \in Seq(Cell) /\ DataOnly(out') /\ groups' \in Seq(Recorded)
        /\ file_offset' = base + Len(out') /\ Sound(Image', groups', file_offset')
        /\ \A c \in Columns : ColumnOf(Image', groups', c) = Run(0, f + rows)
    BY <1>1, <1>2, <2>1, <2>2, <2>3, <2>4, FlushFacts, Zenon
  <2>6. /\ cols' = NoRows /\ rows' = 0 /\ cols' \in [Columns -> Seq(Nat)]
        /\ \A c \in Columns : cols'[c] = <<>>
    BY <2>1 DEF Flush, NoRows
  <2>7. rows' \in Nat /\ rows' = Len(cols'[1])
    BY <1>2, <2>6
  <2>8. PICK g \in Nat : g = f + rows
    BY <1>2
  <2>9. ASSUME NEW c \in Columns
        PROVE  /\ sent'[c] = g + Len(cols'[c]) /\ ColumnOf(Image', groups', c) = Run(0, g)
               /\ cols'[c] = Run(g, Len(cols'[c]))
    <3>1. sent'[c] = g
      BY <1>0, <1>1, <2>2, <2>8 DEF Split, AllLong
    <3> QED BY <2>5, <2>6, <2>8, <3>1, RunNothing
  <2>10. Split(g)'
    BY <2>9 DEF Split
  <2>11. \E i \in Nat : Split(i)'
    BY <2>10
  <2> QED BY <1>1, <1>2, <2>5, <2>6, <2>7, <2>11, WritingKeeps
<1>4. CASE ~(rows > 0)
  <2>1. /\ out' = out \o Header /\ file_offset' = file_offset + Len(Header)
        /\ cols' = cols /\ rows' = rows /\ groups' = groups
    BY <1>4 DEF NewRowGroup, current
  <2>2. /\ Header \in Seq(Cell) /\ DataOnly(Header) /\ out \in Seq(Cell) /\ DataOnly(out)
        /\ groups \in Seq(Recorded) /\ file_offset = base + Len(out) /\ base \in Nat
    BY HeaderFacts DEF WriterInv, WriterTypes, LiveInv, OpenInv
  <2>3. out' \in Seq(Cell) /\ DataOnly(out')
    BY <2>1, <2>2, DataConcat
  <2>4. /\ Sound(Image', groups, base + Len(out'))
        /\ \A d \in Columns : ColumnOf(Image', groups, d) = ColumnOf(Image, groups, d)
        /\ Len(out') = Len(out) + Len(Header)
    <3>1. Image' = Overlay(disk, base, out \o Header)
      BY <1>1, <2>1 DEF Image
    <3> QED BY <2>1, <2>2, <3>1, MoreOutput
  <2>5. file_offset' = base + Len(out')
    BY <2>1, <2>2, <2>4
  <2>6. Split(f)'
    BY <1>0, <1>1, <2>1, <2>4 DEF Split
  <2>7. \E i \in Nat : Split(i)'
    BY <2>6
  <2> QED BY <1>1, <1>2, <2>1, <2>2, <2>3, <2>4, <2>5, <2>7, WritingKeeps
<1> QED BY <1>3, <1>4

\* What a failing call may have written cannot be taken for a footer.
LEMMA UnfinishedCells ==
  ASSUME WriterInv
  PROVE  /\ LastCells \in Seq(Cell) /\ DataOnly(LastCells)
         /\ \A c \in Columns, n \in Nat :
              /\ BatchCells(c, Run(sent[c], n)) \in Seq(Cell)
              /\ DataOnly(BatchCells(c, Run(sent[c], n)))
<1>1. cols \in [Columns -> Seq(Nat)] /\ sent \in [Columns -> Nat]
  BY DEF WriterInv, WriterTypes
<1>2. LastCells \in Seq(Cell) /\ DataOnly(LastCells)
  BY <1>1, GroupCellsFacts DEF LastCells, DataOnly
<1>3. ASSUME NEW c \in Columns, NEW n \in Nat
      PROVE  /\ BatchCells(c, Run(sent[c], n)) \in Seq(Cell)
             /\ DataOnly(BatchCells(c, Run(sent[c], n)))
  <2> DEFINE v == Run(sent[c], n)
             cs == [cols EXCEPT ![c] = @ \o v]
  <2>1. v \in Seq(Nat)
    BY <1>1, RunFacts
  <2>2. Batch(c, v).cols = cs
    BY DEF Batch
  <2> HIDE DEF v
  <2>3. cols[c] \o v \in Seq(Nat)
    BY <1>1, <2>1
  <2>4. cs \in [Columns -> Seq(Nat)]
    BY <1>1, <2>3
  <2> HIDE DEF cs
  <2>5. GroupCells(cs) \in Seq(Cell) /\ DataOnly(GroupCells(cs))
    BY <2>4, GroupCellsFacts DEF DataOnly
  <2>6. BatchCells(c, v) \in {GroupCells(cs), <<>>}
    BY <2>2 DEF BatchCells
  <2>7. <<>> \in Seq(Cell) /\ DataOnly(<<>>)
    BY DEF DataOnly
  <2> QED BY <2>5, <2>6, <2>7, Zenon DEF v
<1> QED BY <1>2, <1>3

\* A call that fails; the writer is left to be closed or aborted.
LEMMA FailKeeps ==
  ASSUME WriterInv, wstate = "open", NEW cells \in Seq(Cell), DataOnly(cells), Fail(cells)
  PROVE  WriterInv' /\ wstate' = "failed"
<1>1. /\ wstate' = "failed"
      /\ UNCHANGED <<disk, base, mode, header_written, file_offset, groups, cols, rows,
                     sorting, old, sent, synced>>
  BY DEF Fail, current, history
<1>2. Header \o cells \in Seq(Cell) /\ DataOnly(Header \o cells)
  BY HeaderFacts, DataConcat
<1> DEFINE q == Header \o cells
<1>3. PICK n \in 0..Len(q) : out' = out \o SubSeq(q, 1, n)
  BY Zenon DEF Fail, Prefixes
<1> HIDE DEF q
<1>4. SubSeq(q, 1, n) \in Seq(Cell) /\ DataOnly(SubSeq(q, 1, n))
  BY <1>2, PrefixFacts, Zenon DEF q
<1>5. out \in Seq(Cell) /\ DataOnly(out)
  BY DEF WriterInv, WriterTypes, LiveInv
<1>6. out' \in Seq(Cell) /\ DataOnly(out')
  BY <1>3, <1>4, <1>5, DataConcat, Zenon
<1>7. WriterTypes'
  BY <1>1, <1>6 DEF WriterInv, WriterTypes
<1>8. LiveInv'
  BY <1>1, <1>6 DEF WriterInv, LiveInv
<1>9. OpenInv'
  BY <1>1 DEF OpenInv
<1>10. AppendInv' /\ WholeFile(disk)'
  BY <1>1 DEF WriterInv, AppendInv
<1> QED BY <1>1, <1>7, <1>8, <1>9, <1>10 DEF WriterInv

\* fclose leaves some part of the output in the file, all of it if it
\* succeeds.
LEMMA FcloseFacts ==
  ASSUME NEW cells \in Seq(Cell), NEW ok \in BOOLEAN, Fclose(cells, ok)
  PROVE  /\ synced' = ok
         /\ \E n \in 0..Len(cells) : disk' = Overlay(disk, base, SubSeq(cells, 1, n))
         /\ ok => disk' = Overlay(disk, base, cells)
<1>1. synced' = ok /\ (ok => disk' = Overlay(disk, base, cells))
  BY DEF Fclose
<1>2. CASE ok
  <2>1. Len(cells) \in 0..Len(cells) /\ SubSeq(cells, 1, Len(cells)) = cells
    OBVIOUS
  <2> QED BY <1>1, <1>2, <2>1, Zenon
<1>3. CASE ~ok
  BY <1>1, <1>3, Zenon DEF Fclose, Prefixes
<1> QED BY <1>1, <1>2, <1>3

\* A writer that is gone: only the file and the history matter.
LEMMA EndedKeeps ==
  ASSUME WriterTypes, AppendInv, wstate' \in {"closed", "close_failed", "aborted"},
         UNCHANGED <<base, mode, header_written, file_offset, groups, cols, rows, sorting,
                     old, sent>>,
         out' \in Seq(Cell), synced' \in BOOLEAN,
         \/ disk' = disk
         \/ mode = "path" /\ disk' \in Seq(Cell)
         \/ \E p \in Seq(Cell) : disk' = Overlay(disk, base, p) /\ base <= Len(disk),
         WholeFile(disk')
  PROVE  WriterInv'
<1>0. disk \in Seq(Cell) /\ base \in Nat
  BY DEF WriterTypes
<1>1. disk' \in Seq(Cell)
  <2>1. ASSUME NEW p \in Seq(Cell), disk' = Overlay(disk, base, p), base <= Len(disk)
        PROVE  disk' \in Seq(Cell)
    <3>1. Overlay(disk, base, p) \in Seq(Cell)
      BY <1>0, <2>1, OverlayFacts
    <3> QED BY <2>1, <3>1
  <2> QED BY <1>0, <2>1, Zenon
<1>2. WriterTypes'
  BY <1>1 DEF WriterTypes
<1>3. LiveInv' /\ OpenInv'
  BY DEF LiveInv, OpenInv
<1>4. AppendInv'
  <2>1. CASE mode # "append" \/ disk' = disk
    BY <2>1 DEF AppendInv
  <2>2. CASE mode = "append" /\ disk' # disk
    <3>1. PICK p \in Seq(Cell) : disk' = Overlay(disk, base, p)
      BY <2>2
    <3>2. base <= Len(disk') /\ Sound(disk', old, base)
      BY <2>2, <3>1, AppendFrame
    <3> QED BY <2>2, <3>2 DEF AppendInv
  <2> QED BY <2>1, <2>2
<1>5. WholeFile(disk)'
  OBVIOUS
<1> QED BY <1>2, <1>3, <1>4, <1>5 DEF WriterInv

\* carquet_writer_close returns CARQUET_OK.
LEMMA CloseKeeps ==
  ASSUME WriterInv, wstate = "open", EvenRows, NEW ok \in BOOLEAN, Close(ok)
  PROVE  WriterInv' /\ wstate' = "closed"
<1> DEFINE w == out \o ClosingCells
<1>1. /\ wstate' = "closed" /\ out' = w
      /\ UNCHANGED <<base, mode, header_written, file_offset, groups, cols, rows, sorting,
                     old, sent>>
      /\ IF owns_file THEN Fclose(w, ok) ELSE UNCHANGED <<disk, synced>>
  BY DEF Close, current
<1>2. w \in Seq(Cell)
  <2>1. ClosingCells \in Seq(Cell) /\ out \in Seq(Cell)
    BY CloseFacts DEF EvenRows, WriterInv, WriterTypes
  <2> QED BY <2>1
<1>3. base <= Len(disk) /\ WriterTypes /\ AppendInv /\ WholeFile(disk)
  BY LiveBase DEF WriterInv
<1>4. CASE owns_file
  <2>1. synced' = ok /\ \E n \in 0..Len(w) : disk' = Overlay(disk, base, SubSeq(w, 1, n))
    <3> HIDE DEF w
    <3>1. Fclose(w, ok)
      BY <1>1, <1>4
    <3> QED BY <1>2, <3>1, FcloseFacts
  <2>2. PICK n \in 0..Len(w) : disk' = Overlay(disk, base, SubSeq(w, 1, n))
    BY <2>1
  <2>3. WholeFile(disk')
    BY <2>2, PartOfWhole
  <2> HIDE DEF w
  <2>4. SubSeq(w, 1, n) \in Seq(Cell)
    BY <1>2, PrefixFacts
  <2>5. \E p \in Seq(Cell) : disk' = Overlay(disk, base, p) /\ base <= Len(disk)
    BY <1>3, <2>2, <2>4, Zenon
  <2> QED BY <1>1, <1>2, <1>3, <2>1, <2>3, <2>5, EndedKeeps
<1>5. CASE ~owns_file
  <2> HIDE DEF w
  <2>1. disk' = disk /\ synced' \in BOOLEAN
    BY <1>1, <1>3, <1>5 DEF WriterTypes
  <2>2. /\ wstate' = "closed" /\ out' \in Seq(Cell) /\ WholeFile(disk')
        /\ UNCHANGED <<base, mode, header_written, file_offset, groups, cols, rows, sorting,
                       old, sent>>
    BY <1>1, <1>2, <1>3, <2>1
  <2>3. wstate' \in {"closed", "close_failed", "aborted"}
    BY <2>2
  <2>4. WriterInv'
    BY <1>3, <2>1, <2>2, <2>3, EndedKeeps
  <2> QED BY <2>2, <2>4
<1> QED BY <1>4, <1>5

\* carquet_writer_close returns an error.
LEMMA CloseFailsKeeps ==
  ASSUME WriterInv, wstate = "open", EvenRows, CloseFails
  PROVE  WriterInv' /\ wstate' = "close_failed"
<1> DEFINE x == ClosingCells
           w == out \o x
<1>1. /\ wstate' = "close_failed" /\ \E p \in Prefixes(x) : out' = out \o p
      /\ UNCHANGED <<base, mode, header_written, file_offset, groups, cols, rows, sorting,
                     old, sent>>
      /\ IF owns_file THEN Fclose(out', FALSE) ELSE UNCHANGED <<disk, synced>>
  BY Zenon DEF CloseFails, current
<1>2. x \in Seq(Cell) /\ out \in Seq(Cell)
  BY CloseFacts DEF EvenRows, WriterInv, WriterTypes
<1>3. base <= Len(disk) /\ WriterTypes /\ AppendInv /\ WholeFile(disk)
  BY LiveBase DEF WriterInv
<1>4. ASSUME NEW n \in 0..Len(w) PROVE WholeFile(Overlay(disk, base, SubSeq(w, 1, n)))
  BY PartOfWhole
<1> HIDE DEF x
<1>5. PICK k \in 0..Len(x) : out' = out \o SubSeq(x, 1, k)
  BY <1>1, Zenon DEF Prefixes
<1>6. SubSeq(x, 1, k) \in Seq(Cell)
  BY <1>2, PrefixFacts
<1>7. out' \in Seq(Cell)
  BY <1>2, <1>5, <1>6
<1>8. CASE owns_file
  <2>1. synced' = FALSE /\ \E n \in 0..Len(out') : disk' = Overlay(disk, base, SubSeq(out', 1, n))
    <3>1. PICK o \in Seq(Cell) : o = out'
      BY <1>7
    <3>2. Fclose(o, FALSE)
      BY <1>1, <1>8, <3>1, Zenon
    <3>3. synced' = FALSE /\ \E n \in 0..Len(o) : disk' = Overlay(disk, base, SubSeq(o, 1, n))
      BY <3>2, FcloseFacts, Zenon
    <3> QED BY <3>1, <3>3
  <2>2. PICK n \in 0..Len(out') : disk' = Overlay(disk, base, SubSeq(out', 1, n))
    BY <2>1
  <2>3. n \in 0..Len(w) /\ SubSeq(out', 1, n) = SubSeq(w, 1, n)
    <3>1. n \in 0..Len(out \o SubSeq(x, 1, k))
      BY <1>5
    <3>2. n \in 0..Len(out \o x) /\ SubSeq(out \o SubSeq(x, 1, k), 1, n) = SubSeq(out \o x, 1, n)
      BY <1>2, <3>1, PrefixOfConcat
    <3> QED BY <1>5, <3>2
  <2>4. WholeFile(disk')
    BY <1>4, <2>2, <2>3, Zenon
  <2>5. SubSeq(out', 1, n) \in Seq(Cell)
    <3>1. PICK o \in Seq(Cell) : o = out'
      BY <1>7
    <3>2. SubSeq(o, 1, n) \in Seq(Cell)
      BY <3>1, PrefixFacts
    <3> QED BY <3>1, <3>2
  <2>6. \E p \in Seq(Cell) : disk' = Overlay(disk, base, p) /\ base <= Len(disk)
    BY <1>3, <2>2, <2>5, Zenon
  <2> HIDE DEF w
  <2> QED BY <1>1, <1>3, <1>7, <2>1, <2>4, <2>6, EndedKeeps, Zenon
<1>9. CASE ~owns_file
  <2>1. disk' = disk /\ synced' \in BOOLEAN
    BY <1>1, <1>3, <1>9 DEF WriterTypes
  <2>2. /\ wstate' = "close_failed" /\ out' \in Seq(Cell) /\ WholeFile(disk')
        /\ UNCHANGED <<base, mode, header_written, file_offset, groups, cols, rows, sorting,
                       old, sent>>
    BY <1>1, <1>3, <1>7, <2>1
  <2>3. wstate' \in {"closed", "close_failed", "aborted"}
    BY <2>2
  <2>4. WriterInv'
    BY <1>3, <2>1, <2>2, <2>3, EndedKeeps
  <2> QED BY <2>2, <2>4
<1> QED BY <1>8, <1>9

\* carquet_writer_abort: a file that the writer created is removed, one that
\* was there is left as it is or without a footer.
LEMMA AbortKeeps ==
  ASSUME WriterInv, wstate \in {"open", "failed"}, NEW ok \in BOOLEAN, Abort(ok)
  PROVE  /\ WriterInv' /\ wstate' = "aborted" /\ out' = out /\ old' = old
         /\ mode = "path" => disk' = NoFile
         /\ mode = "append" /\ out = <<>> => disk' = disk
<1>1. /\ wstate' = "aborted"
      /\ UNCHANGED <<base, out, mode, header_written, file_offset, groups, cols, rows,
                     sorting, old, sent>>
      /\ CASE mode = "path" -> disk' = NoFile /\ synced' = ok
           [] mode = "append" -> Fclose(out, ok)
           [] mode = "stream" -> UNCHANGED <<disk, synced>>
  BY Zenon DEF Abort, stream, current
<1>2. base <= Len(disk) /\ WriterTypes /\ AppendInv /\ WholeFile(disk) /\ DataOnly(out)
  BY LiveBase DEF WriterInv, LiveInv
<1>3. out \in Seq(Cell) /\ disk \in Seq(Cell) /\ base \in Nat /\ synced \in BOOLEAN
      /\ mode \in {"path", "stream", "append"} /\ LiveInv
  BY <1>2 DEF WriterTypes, WriterInv
<1>4. CASE mode = "path"
  <2>1. disk' = NoFile /\ synced' \in BOOLEAN
    BY <1>1, <1>4
  <2>2. disk' \in Seq(Cell) /\ WholeFile(disk')
    BY <2>1, NoFooterIsWhole
  <2> QED BY <1>1, <1>2, <1>3, <1>4, <2>1, <2>2, EndedKeeps
<1>5. CASE mode = "append"
  <2>0. Fclose(out, ok)
    BY <1>1, <1>5
  <2>1. synced' = ok /\ \E n \in 0..Len(out) : disk' = Overlay(disk, base, SubSeq(out, 1, n))
    BY <1>3, <2>0, FcloseFacts
  <2>2. PICK n \in 0..Len(out) : disk' = Overlay(disk, base, SubSeq(out, 1, n))
    BY <2>1
  <2>3. SubSeq(out, 1, n) \in Seq(Cell) /\ DataOnly(SubSeq(out, 1, n))
    BY <1>2, <1>3, PrefixFacts
  <2>4. WholeFile(disk')
    BY <1>2, <1>3, <2>2, <2>3, DataOutput, Zenon
  <2>5. out = <<>> => disk' = disk
    <3> SUFFICES ASSUME out = <<>> PROVE disk' = disk
      OBVIOUS
    <3>1. SubSeq(out, 1, n) = <<>>
      BY <2>2
    <3> QED BY <1>2, <1>3, <2>2, <3>1, OverlayNothing, Zenon
  <2>6. \E p \in Seq(Cell) : disk' = Overlay(disk, base, p) /\ base <= Len(disk)
    BY <1>2, <2>2, <2>3, Zenon
  <2>7. WriterInv'
    BY <1>1, <1>2, <1>3, <2>1, <2>4, <2>6, EndedKeeps
  <2> QED BY <1>1, <1>5, <2>5, <2>7
<1>6. CASE mode = "stream"
  <2>1. disk' = disk /\ synced' \in BOOLEAN
    BY <1>1, <1>3, <1>6
  <2> QED BY <1>1, <1>2, <1>3, <1>6, <2>1, EndedKeeps
<1> QED BY <1>3, <1>4, <1>5, <1>6

\* A reader that follows the metadata of sound row groups finds their chunks.
LEMMA SoundChunks ==
  ASSUME NEW d \in Seq(Cell), NEW gs \in Seq(Recorded) \union Seq(Listed), NEW l \in Nat,
         Sound(d, gs, l), NEW i \in DOMAIN gs
  PROVE  /\ \A c \in Columns : Len(ReadChunk(d, gs[i], c)) = gs[i].rows
         /\ AuxIntact(d, gs[i])
<1>1. gs[i] \in Recorded \union Listed
  <2>1. CASE gs \in Seq(Recorded)
    BY <2>1, Element
  <2>2. CASE gs \in Seq(Listed)
    BY <2>2, Element
  <2> QED BY <2>1, <2>2
<1> DEFINE g == gs[i]
<1>2. GroupIn(d, g, l) /\ l <= Len(d) /\ \A c \in Columns : g.data[c] \in Nat
  BY <1>1 DEF Sound, Recorded, Listed
<1> HIDE DEF g
<1>3. ASSUME NEW c \in Columns PROVE Len(ReadChunk(d, g, c)) = g.rows
  <2> DEFINE j == g.data[c] + 1
  <2>1. g.data[c] \in Nat /\ g.data[c] < l /\ d[j].k = "data" /\ d[j].c = c /\ Len(d[j].rows) = g.rows
    BY <1>2 DEF GroupIn
  <2>2. j \in DOMAIN d
    BY <1>2, <2>1
  <2>3. ReadChunk(d, g, c) = IF j \in DOMAIN d /\ d[j].k = "data"
                             THEN (IF d[j].c = c THEN d[j].rows ELSE <<>>) ELSE <<>>
    BY DEF ReadChunk
  <2> HIDE DEF j
  <2> QED BY <2>1, <2>2, <2>3
<1>4. AuxIntact(d, g)
  BY <1>2 DEF GroupIn
<1> QED BY <1>3, <1>4 DEF g

\* So a file whose row groups are sound and whose columns hold the first n
\* rows holds them as a reader wants them.
LEMMA SoundHolds ==
  ASSUME NEW d \in Seq(Cell), NEW gs \in Seq(Recorded) \union Seq(Listed), NEW l \in Nat,
         Sound(d, gs, l), NEW n \in Nat, \A c \in Columns : ColumnOf(d, gs, c) = Run(0, n)
  PROVE  Holds(d, gs, n)
<1>1. \A c \in Columns : ColumnOf(d, gs, c) = [r \in 1..n |-> r]
  BY RunFromOne
<1>2. \A i \in DOMAIN gs :
        /\ \A c \in Columns : Len(ReadChunk(d, gs[i], c)) = gs[i].rows
        /\ AuxIntact(d, gs[i])
  BY SoundChunks
<1> QED BY <1>1, <1>2 DEF Holds

\* The file e has the whole output of the closing writer in it, and it ends
\* there.
LEMMA WholeOutputHolds ==
  ASSUME WriterInv, wstate = "open", EvenRows, NEW e,
         e = Overlay(disk, base, out \o ClosingCells), Len(e) = base + Len(out \o ClosingCells)
  PROVE  /\ ReadFooter(e) = Metadata /\ ReadFooter(e) # NoFooter
         /\ Holds(e, ReadFooter(e), sent[1])
<1> DEFINE m == Metadata
           l == base + Len(Body)
           w == out \o ClosingCells
<1>1. /\ disk \in Seq(Cell) /\ base \in Nat /\ base <= Len(disk) /\ out \in Seq(Cell)
      /\ sent[1] \in Nat
  BY LiveBase, FileAssumption DEF WriterInv, WriterTypes, Columns
<1>2. m \in Seq(Listed) /\ Body \in Seq(Cell) /\ ClosingCells \in Seq(Cell)
  BY CloseFacts DEF EvenRows
<1>3. ReadFooter(e) = m /\ Sound(e, m, l) /\ \A c \in Columns : ColumnOf(e, m, c) = Run(0, sent[1])
  BY WholeOutput
<1>4. l \in Nat
  BY <1>1, <1>2
<1>5. w \in Seq(Cell)
  BY <1>1, <1>2, ConcatFacts
<1>6. e \in Seq(Cell)
  <2> HIDE DEF w
  <2>1. e = Overlay(disk, base, w)
    BY DEF w
  <2> QED BY <1>1, <1>5, <2>1, OverlayFacts
<1> HIDE DEF m, l
<1>7. m # NoFooter
  BY <1>2, ListIsFooter
<1>8. Holds(e, m, sent[1])
  BY <1>1, <1>2, <1>3, <1>4, <1>6, SoundHolds
<1> QED BY <1>3, <1>7, <1>8 DEF m

===============================================================================
