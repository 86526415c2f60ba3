------------------------------- MODULE StatProofs -------------------------------
(***************************************************************************)
(* Proofs about csvStat, for any source and any command line: the table it *)
(* prints, the types it finds, and that every statistic is that of the     *)
(* cells of its column.                                                    *)
(***************************************************************************)
EXTENDS Stat, SortProofs

-------------------------------------------------------------------------------
(* csvStat's table.                                                           *)

\* The line of a place that has a class.
ColumnLine(k) ==
  IF Operation = {} \/ Len(stat_ids) > 1
  THEN StatLine("column", stat_ids[k], HeaderNames(cmd.names)[stat_ids[k]], results[k])
  ELSE StatLine("column", 0, "", results[k])

\* The lines a place adds.
LinesOf(k) ==
  IF cmd.format = "text" THEN ColumnLines(k)
  ELSE IF cmd.format = "csv" THEN CsvLines(k) ELSE JsonColumn(k)

\* One line among others is a column or it is not.
OnlyColumn(x) == IF x.kind = "column" THEN <<x>> ELSE <<>>
OnlyColumns(lines) == [i \in DOMAIN lines |-> OnlyColumn(lines[i])]

LEMMA OnlyColumnIsSeq == \A x : IsSeq(OnlyColumn(x))
<1> TAKE x
<1>1. IsSeq(<<x>>)
  BY SingletonIsSeq
<1>2. IsSeq(<<>>)
  BY IsSeqEmpty
<1> QED BY <1>1, <1>2 DEF OnlyColumn

LEMMA OnlyColumnsFacts ==
  ASSUME NEW s, IsSeq(s)
  PROVE  /\ IsSeq(OnlyColumns(s)) /\ Len(OnlyColumns(s)) = Len(s)
         /\ \A i \in 1..Len(s) : OnlyColumns(s)[i] = OnlyColumn(s[i])
         /\ \A i \in DOMAIN OnlyColumns(s) : IsSeq(OnlyColumns(s)[i])
<1>1. Len(s) \in Nat /\ DOMAIN s = 1..Len(s)
  BY IsSeqFacts
<1> PICK t : t = OnlyColumns(s)
  OBVIOUS
<1>2. t = [i \in 1..Len(s) |-> OnlyColumn(s[i])]
  BY <1>1 DEF OnlyColumns
<1>3. IsSeq(t) /\ Len(t) = Len(s) /\ DOMAIN t = 1..Len(s)
  BY <1>1, <1>2, IsSeqFunction
<1>4. \A i \in 1..Len(s) : t[i] = OnlyColumn(s[i])
  BY <1>2
<1> QED BY <1>3, <1>4, OnlyColumnIsSeq

LEMMA ColumnsInIs == \A s : ColumnsIn(s) = FlattenSeq(OnlyColumns(s))
BY DEF ColumnsIn, OnlyColumns, OnlyColumn

LEMMA ColumnsIsSeq ==
  ASSUME NEW s, IsSeq(s)
  PROVE  IsSeq(ColumnsIn(s))
BY OnlyColumnsFacts, ColumnsInIs, FlattenIsSeq

\* The columns of two pieces of the output are those of the one, then of the other.
LEMMA ColumnsConcat ==
  ASSUME NEW a, IsSeq(a), NEW b, IsSeq(b), NEW c, c = a \o b
  PROVE  ColumnsIn(c) = ColumnsIn(a) \o ColumnsIn(b)
<1>1. TwoJoined(c, a, b)
  BY TwoJoinedFacts
<1>2. Len(a) \in Nat /\ Len(b) \in Nat /\ DOMAIN b = 1..Len(b)
  BY IsSeqFacts
<1> PICK x, y, z : x = OnlyColumns(a) /\ y = OnlyColumns(b) /\ z = OnlyColumns(c)
  OBVIOUS
<1>3. /\ IsSeq(x) /\ Len(x) = Len(a) /\ \A i \in 1..Len(a) : x[i] = OnlyColumn(a[i])
      /\ \A i \in DOMAIN x : IsSeq(x[i])
  BY OnlyColumnsFacts
<1>4. /\ IsSeq(y) /\ Len(y) = Len(b) /\ \A i \in 1..Len(b) : y[i] = OnlyColumn(b[i])
      /\ \A i \in DOMAIN y : IsSeq(y[i])
  BY OnlyColumnsFacts
<1>5. IsSeq(c)
  BY <1>1 DEF TwoJoined
<1>6. IsSeq(z) /\ Len(z) = Len(c) /\ \A i \in 1..Len(c) : z[i] = OnlyColumn(c[i])
  BY <1>5, OnlyColumnsFacts
<1>7. TwoJoined(z, x, y)
  <2>1. Len(c) = Len(a) + Len(b)
    BY <1>1 DEF TwoJoined
  <2>2. \A i \in 1..Len(a) : z[i] = x[i]
    <3> TAKE i \in 1..Len(a)
    <3>1. i \in 1..Len(c)
      BY <1>2, <2>1
    <3>2. c[i] = a[i]
      BY <1>1 DEF TwoJoined
    <3> QED BY <1>3, <1>6, <3>1, <3>2
  <2>3. \A i \in 1..Len(b) : z[Len(a) + i] = y[i]
    <3> TAKE i \in 1..Len(b)
    <3>1. Len(a) + i \in 1..Len(c)
      BY <1>2, <2>1
    <3>2. c[Len(a) + i] = b[i]
      BY <1>1 DEF TwoJoined
    <3> QED BY <1>4, <1>6, <3>1, <3>2
  <2> QED BY <1>3, <1>4, <1>6, <2>1, <2>2, <2>3 DEF TwoJoined
<1>8. FlattenSeq(z) = FlattenSeq(x) \o FlattenSeq(y)
  BY <1>3, <1>4, <1>7, FlattenConcat
<1> QED BY <1>8, ColumnsInIs

LEMMA ColumnsOfOne == \A x : ColumnsIn(<<x>>) = OnlyColumn(x)
<1> TAKE x
<1> PICK s : s = <<x>>
  OBVIOUS
<1>1. IsSeq(s) /\ Len(s) = 1 /\ s[1] = x
  BY SingletonIsSeq
<1> PICK t : t = OnlyColumns(s)
  OBVIOUS
<1>2. Len(t) = 1 /\ t[1] = OnlyColumn(x)
  BY <1>1, OnlyColumnsFacts
<1> QED BY <1>2, FlattenOne, ColumnsInIs

LEMMA ColumnsOfNone == ColumnsIn(<<>>) = <<>>
<1> PICK t : t = OnlyColumns(<<>>)
  OBVIOUS
<1>1. IsSeq(t) /\ Len(t) = 0 /\ \A i \in DOMAIN t : IsSeq(t[i])
  BY IsSeqEmpty, OnlyColumnsFacts
<1>2. FlattenSeq(SubSeq(t, 1, 0)) = <<>>
  <2>1. 0 \in 0..Len(t)
    BY <1>1
  <2> QED BY <1>1, <2>1, FlattenFirst
<1>3. SubSeq(t, 1, 0) = t
  BY <1>1, WholeIsSubSeq
<1> QED BY <1>2, <1>3, ColumnsInIs
\* What a place adds has its column, if it has one, and nothing else of that kind.
LEMMA ColumnLinesFacts ==
  ASSUME NEW k
  PROVE  /\ IsSeq(ColumnLines(k)) /\ ColumnLine(k).kind = "column"
         /\ Calculates(k) => ColumnLines(k) = <<ColumnLine(k)>>
         /\ ~Calculates(k) => ColumnLines(k) = <<>>
         /\ ColumnsIn(ColumnLines(k)) = ColumnLines(k)
<1>1. ColumnLine(k).kind = "column"
  BY DEF ColumnLine, StatLine
<1>2. Calculates(k) => ColumnLines(k) = <<ColumnLine(k)>>
  BY DEF ColumnLines, ColumnLine
<1>3. ~Calculates(k) => ColumnLines(k) = <<>>
  BY DEF ColumnLines
<1>4. OnlyColumn(ColumnLine(k)) = <<ColumnLine(k)>>
  BY <1>1 DEF OnlyColumn
<1>5. IsSeq(ColumnLines(k))
  BY <1>2, <1>3, SingletonIsSeq, IsSeqEmpty
<1>6. ColumnsIn(ColumnLines(k)) = ColumnLines(k)
  BY <1>2, <1>3, <1>4, ColumnsOfOne, ColumnsOfNone
<1> QED BY <1>1, <1>2, <1>3, <1>5, <1>6

LEMMA MarkFacts ==
  ASSUME NEW kind, kind # "column"
  PROVE  IsSeq(<<Mark(kind)>>) /\ ColumnsIn(<<Mark(kind)>>) = <<>> /\ Mark(kind).kind = kind
<1>1. Mark(kind).kind = kind
  BY DEF Mark, StatLine
<1>2. OnlyColumn(Mark(kind)) = <<>>
  BY <1>1 DEF OnlyColumn
<1> QED BY <1>1, <1>2, SingletonIsSeq, ColumnsOfOne

\* What holds no column changes none of those before it or after it.
LEMMA ColumnsAfterNone ==
  ASSUME NEW a, IsSeq(a), ColumnsIn(a) = <<>>, NEW b, IsSeq(b), NEW c, c = a \o b
  PROVE  IsSeq(c) /\ ColumnsIn(c) = ColumnsIn(b)
<1>1. ColumnsIn(c) = ColumnsIn(a) \o ColumnsIn(b)
  BY ColumnsConcat
<1> PICK columns : columns = ColumnsIn(b)
  OBVIOUS
<1>2. IsSeq(columns)
  BY ColumnsIsSeq
<1>3. <<>> \o columns = columns
  BY <1>2, ConcatEmpty
<1>4. IsSeq(c)
  BY IsSeqConcat
<1> QED BY <1>1, <1>3, <1>4

LEMMA ColumnsBeforeNone ==
  ASSUME NEW a, IsSeq(a), NEW b, IsSeq(b), ColumnsIn(b) = <<>>, NEW c, c = a \o b
  PROVE  IsSeq(c) /\ ColumnsIn(c) = ColumnsIn(a)
<1>1. ColumnsIn(c) = ColumnsIn(a) \o ColumnsIn(b)
  BY ColumnsConcat
<1> PICK columns : columns = ColumnsIn(a)
  OBVIOUS
<1>2. IsSeq(columns)
  BY ColumnsIsSeq
<1>3. columns \o <<>> = columns
  BY <1>2, ConcatEmpty
<1>4. IsSeq(c)
  BY IsSeqConcat
<1> QED BY <1>1, <1>3, <1>4

LEMMA LinesFacts ==
  ASSUME NEW k
  PROVE  IsSeq(LinesOf(k)) /\ ColumnsIn(LinesOf(k)) = ColumnLines(k)
<1>a. PICK column : column = ColumnLines(k)
  OBVIOUS
<1>1. IsSeq(column) /\ ColumnsIn(column) = column
  BY <1>a, ColumnLinesFacts
<1>2. IsSeq(<<>>) /\ ColumnsIn(<<>>) = <<>>
  BY IsSeqEmpty, ColumnsOfNone
<1>3. IsSeq(CsvLines(k)) /\ ColumnsIn(CsvLines(k)) = column
  <2>a. PICK first : first = IF k = 1 THEN <<Mark("header")>> ELSE <<>>
    OBVIOUS
  <2>1. IsSeq(first) /\ ColumnsIn(first) = <<>>
    BY <1>2, <2>a, MarkFacts
  <2>b. PICK lines : lines = first \o column
    OBVIOUS
  <2>2. CsvLines(k) = lines
    BY <1>a, <2>a, <2>b DEF CsvLines
  <2>3. IsSeq(lines) /\ ColumnsIn(lines) = ColumnsIn(column)
    BY <1>1, <2>1, <2>b, ColumnsAfterNone
  <2> QED BY <1>1, <2>2, <2>3
<1>4. IsSeq(JsonColumn(k)) /\ ColumnsIn(JsonColumn(k)) = column
  <2>a. PICK first : first = IF k = 1 THEN <<Mark("open")>> ELSE <<>>
    OBVIOUS
  <2>b. PICK middle : middle = IF Calculates(k) THEN ColumnLines(k) ELSE <<Mark("empty")>>
    OBVIOUS
  <2>c. PICK last : last = <<Mark(IF Calculates(k) /\ k = Len(stat_ids) THEN "close" ELSE "comma")>>
    OBVIOUS
  <2>1. IsSeq(first) /\ ColumnsIn(first) = <<>>
    BY <1>2, <2>a, MarkFacts
  <2>2. IsSeq(middle) /\ ColumnsIn(middle) = column
    <3>1. CASE Calculates(k)
      BY <1>1, <1>a, <2>b, <3>1
    <3>2. CASE ~Calculates(k)
      BY <1>a, <2>b, <3>2, MarkFacts, ColumnLinesFacts
    <3> QED BY <3>1, <3>2
  <2>3. IsSeq(last) /\ ColumnsIn(last) = <<>>
    BY <2>c, MarkFacts
  <2>d. PICK begun : begun = first \o middle
    OBVIOUS
  <2>e. PICK lines : lines = begun \o last
    OBVIOUS
  <2>4. JsonColumn(k) = lines
    BY <2>a, <2>b, <2>c, <2>d, <2>e DEF JsonColumn
  <2>5. IsSeq(begun) /\ ColumnsIn(begun) = column
    BY <2>1, <2>2, <2>d, ColumnsAfterNone
  <2>6. IsSeq(lines) /\ ColumnsIn(lines) = column
    BY <2>3, <2>5, <2>e, ColumnsBeforeNone
  <2> QED BY <2>4, <2>6
<1> QED BY <1>a, <1>1, <1>3, <1>4 DEF LinesOf

-------------------------------------------------------------------------------
(* The first places of the columns selected.                                  *)

FirstAt(k) == IF Calculates(k) THEN <<k>> ELSE <<>>
Firsts == [k \in DOMAIN stat_ids |-> FirstAt(k)]
FirstUpTo(n) == FlattenSeq(SubSeq(Firsts, 1, n))
IdsUpTo(n) == {stat_ids[k] : k \in 1..n}

LEMMA FirstAtFacts ==
  ASSUME NEW k
  PROVE  /\ IsSeq(FirstAt(k))
         /\ Calculates(k) => FirstAt(k) = <<k>>
         /\ ~Calculates(k) => FirstAt(k) = <<>>
<1>1. IsSeq(<<k>>)
  BY SingletonIsSeq
<1>2. IsSeq(<<>>)
  BY IsSeqEmpty
<1> QED BY <1>1, <1>2 DEF FirstAt

LEMMA FirstUpToStep ==
  ASSUME IsSeq(stat_ids), NEW n \in 0..Len(stat_ids)
  PROVE  /\ IsSeq(FirstUpTo(n))
         /\ n = 0 => FirstUpTo(n) = <<>>
         /\ n < Len(stat_ids) => FirstUpTo(n + 1) = FirstUpTo(n) \o FirstAt(n + 1)
         /\ n = Len(stat_ids) => FirstUpTo(n) = FirstPlaces
<1>1. Len(stat_ids) \in Nat /\ DOMAIN stat_ids = 1..Len(stat_ids)
  BY IsSeqFacts
<1>a. PICK t : t = Firsts
  OBVIOUS
<1>2. t = [k \in 1..Len(stat_ids) |-> FirstAt(k)]
  BY <1>1, <1>a DEF Firsts
<1>3. IsSeq(t) /\ Len(t) = Len(stat_ids) /\ DOMAIN t = 1..Len(stat_ids)
  BY <1>1, <1>2, IsSeqFunction
<1>4. \A k \in DOMAIN t : t[k] = FirstAt(k) /\ IsSeq(t[k])
  BY <1>2, <1>3, FirstAtFacts
<1>5. /\ IsSeq(FlattenSeq(SubSeq(t, 1, n)))
      /\ n = 0 => FlattenSeq(SubSeq(t, 1, n)) = <<>>
      /\ n < Len(t) => FlattenSeq(SubSeq(t, 1, n + 1)) = FlattenSeq(SubSeq(t, 1, n)) \o t[n + 1]
  BY <1>3, <1>4, FlattenFirst
<1>6. n < Len(stat_ids) => t[n + 1] = FirstAt(n + 1)
  BY <1>1, <1>3, <1>4
<1>7. n = Len(stat_ids) => FlattenSeq(SubSeq(t, 1, n)) = FlattenSeq(t)
  BY <1>3, WholeIsSubSeq
<1>8. FlattenSeq(t) = FirstPlaces
  BY <1>a DEF Firsts, FirstAt, FirstPlaces
<1> QED BY <1>a, <1>3, <1>5, <1>6, <1>7, <1>8 DEF FirstUpTo

LEMMA IdsUpToStep ==
  ASSUME IsSeq(stat_ids), NEW n \in 0..Len(stat_ids), n < Len(stat_ids), IsFiniteSet(IdsUpTo(n))
  PROVE  /\ IsFiniteSet(IdsUpTo(n + 1))
         /\ Calculates(n + 1) => Cardinality(IdsUpTo(n + 1)) = Cardinality(IdsUpTo(n)) + 1
         /\ ~Calculates(n + 1) => IdsUpTo(n + 1) = IdsUpTo(n)
<1>1. Len(stat_ids) \in Nat /\ n \in Nat
  BY IsSeqFacts
<1>2. IdsUpTo(n + 1) = IdsUpTo(n) \cup {stat_ids[n + 1]}
  <2>1. 1..(n + 1) = 1..n \cup {n + 1}
    BY <1>1
  <2> QED BY <2>1 DEF IdsUpTo
<1>3. Calculates(n + 1) <=> stat_ids[n + 1] \notin IdsUpTo(n)
  <2>1. 1..((n + 1) - 1) = 1..n
    BY <1>1
  <2> QED BY <2>1 DEF Calculates, IdsUpTo
<1>4. ~Calculates(n + 1) => IdsUpTo(n + 1) = IdsUpTo(n)
  BY <1>2, <1>3
<1>5. /\ IsFiniteSet(IdsUpTo(n + 1))
      /\ stat_ids[n + 1] \notin IdsUpTo(n) =>
           Cardinality(IdsUpTo(n + 1)) = Cardinality(IdsUpTo(n)) + 1
  BY <1>2, FS_AddElement
<1> QED BY <1>3, <1>4, <1>5

-------------------------------------------------------------------------------
(* What has been printed.                                                     *)

\* The columns c are the lines of the first places f, one for each column selected.
Matched(c, f) == Len(c) = Len(f) /\ \A i \in 1..Len(c) : f[i] \in DOMAIN stat_ids /\ c[i] = ColumnLine(f[i])
ColumnsMatch(o, n) ==
  /\ Matched(ColumnsIn(o), FirstUpTo(n))
  /\ IsFiniteSet(IdsUpTo(n)) /\ Len(ColumnsIn(o)) = Cardinality(IdsUpTo(n))

LEMMA MatchedOne ==
  ASSUME NEW c, IsSeq(c), NEW f, IsSeq(f), Matched(c, f), NEW k \in DOMAIN stat_ids,
         NEW d, d = c \o <<ColumnLine(k)>>, NEW g, g = f \o <<k>>
  PROVE  Matched(d, g) /\ Len(d) = Len(c) + 1
<1>a. PICK told : told = ColumnLine(k)
  OBVIOUS
<1>b. PICK x : x = <<told>>
  OBVIOUS
<1>c. PICK y : y = <<k>>
  OBVIOUS
<1>1. IsSeq(x) /\ Len(x) = 1 /\ x[1] = told /\ IsSeq(y) /\ Len(y) = 1 /\ y[1] = k
  BY <1>b, <1>c, SingletonIsSeq
<1>2. TwoJoined(d, c, x)
  <2>1. d = c \o x
    BY <1>a, <1>b
  <2> QED BY <1>1, <2>1, TwoJoinedFacts
<1>3. TwoJoined(g, f, y)
  <2>1. g = f \o y
    BY <1>c
  <2> QED BY <1>1, <2>1, TwoJoinedFacts
<1>4. Len(c) \in Nat /\ Len(f) = Len(c) /\ \A i \in 1..Len(c) : f[i] \in DOMAIN stat_ids /\ c[i] = ColumnLine(f[i])
  BY IsSeqFacts DEF Matched
<1>5. Len(d) = Len(c) + 1 /\ d[Len(c) + 1] = told /\ \A i \in 1..Len(c) : d[i] = c[i]
  <2>1. 1 \in 1..Len(x)
    BY <1>1
  <2> QED BY <1>1, <1>2, <2>1 DEF TwoJoined
<1>6. Len(g) = Len(c) + 1 /\ g[Len(c) + 1] = k /\ \A i \in 1..Len(c) : g[i] = f[i]
  <2>1. 1 \in 1..Len(y)
    BY <1>1
  <2> QED BY <1>1, <1>3, <1>4, <2>1 DEF TwoJoined
<1>7. ASSUME NEW i \in 1..Len(d)
      PROVE  g[i] \in DOMAIN stat_ids /\ d[i] = ColumnLine(g[i])
  <2>1. CASE i = Len(c) + 1
    BY <1>a, <1>5, <1>6, <2>1
  <2>2. CASE i # Len(c) + 1
    <3>1. i \in 1..Len(c)
      BY <1>4, <1>5, <2>2
    <3> QED BY <1>4, <1>5, <1>6, <3>1
  <2> QED BY <2>1, <2>2
<1> QED BY <1>5, <1>6, <1>7 DEF Matched

LEMMA ColumnsMatchStep ==
  ASSUME IsSeq(stat_ids), NEW n \in 0..Len(stat_ids), n < Len(stat_ids),
         NEW o, IsSeq(o), ColumnsMatch(o, n), NEW p, p = o \o LinesOf(n + 1)
  PROVE  IsSeq(p) /\ ColumnsMatch(p, n + 1)
<1>1. Len(stat_ids) \in Nat /\ DOMAIN stat_ids = 1..Len(stat_ids) /\ n + 1 \in DOMAIN stat_ids
  BY IsSeqFacts
<1>a. PICK k : k = n + 1
  OBVIOUS
<1>b. PICK lines : lines = LinesOf(k)
  OBVIOUS
<1>c. PICK c : c = ColumnsIn(o)
  OBVIOUS
<1>d. PICK f : f = FirstUpTo(n)
  OBVIOUS
<1>2. IsSeq(lines) /\ ColumnsIn(lines) = ColumnLines(k)
  BY <1>b, LinesFacts
<1>3. p = o \o lines
  BY <1>a, <1>b
<1>4. IsSeq(p)
  BY <1>2, <1>3, IsSeqConcat
<1>5. ColumnsIn(p) = c \o ColumnLines(k)
  <2>1. ColumnsIn(p) = ColumnsIn(o) \o ColumnsIn(lines)
    BY <1>2, <1>3, ColumnsConcat
  <2> QED BY <1>c, <1>2, <2>1
<1>6. IsSeq(c) /\ IsSeq(f)
  BY <1>c, <1>d, ColumnsIsSeq, FirstUpToStep
<1>7. FirstUpTo(n + 1) = f \o FirstAt(k)
  BY <1>a, <1>d, FirstUpToStep
<1>8. Matched(c, f) /\ IsFiniteSet(IdsUpTo(n)) /\ Len(c) = Cardinality(IdsUpTo(n))
  BY <1>c, <1>d DEF ColumnsMatch
<1>9. IsFiniteSet(IdsUpTo(n + 1))
  BY <1>8, IdsUpToStep
<1>10. CASE Calculates(k)
  <2>1. ColumnLines(k) = <<ColumnLine(k)>> /\ FirstAt(k) = <<k>>
    BY <1>10, ColumnLinesFacts, FirstAtFacts
  <2>d. PICK d : d = c \o <<ColumnLine(k)>>
    OBVIOUS
  <2>g. PICK g : g = f \o <<k>>
    OBVIOUS
  <2>2. k \in DOMAIN stat_ids
    BY <1>1, <1>a
  <2>3. Matched(d, g) /\ Len(d) = Len(c) + 1
    BY <1>6, <1>8, <2>2, <2>d, <2>g, MatchedOne
  <2>4. ColumnsIn(p) = d
    BY <1>5, <2>1, <2>d
  <2>5. FirstUpTo(n + 1) = g
    BY <1>7, <2>1, <2>g
  <2>6. Cardinality(IdsUpTo(n + 1)) = Cardinality(IdsUpTo(n)) + 1
    BY <1>a, <1>8, <1>10, IdsUpToStep
  <2>7. Len(d) = Cardinality(IdsUpTo(n + 1))
    BY <1>8, <2>3, <2>6
  <2>8. ColumnsMatch(p, n + 1)
    BY <1>9, <2>3, <2>4, <2>5, <2>7 DEF ColumnsMatch
  <2> QED BY <1>4, <2>8
<1>11. CASE ~Calculates(k)
  <2>1. ColumnLines(k) = <<>> /\ FirstAt(k) = <<>>
    BY <1>11, ColumnLinesFacts, FirstAtFacts
  <2>2. c \o <<>> = c /\ f \o <<>> = f
    BY <1>6, ConcatEmpty
  <2>3. ColumnsIn(p) = c
    BY <1>5, <2>1, <2>2
  <2>4. FirstUpTo(n + 1) = f
    BY <1>7, <2>1, <2>2
  <2>5. IdsUpTo(n + 1) = IdsUpTo(n)
    BY <1>a, <1>8, <1>11, IdsUpToStep
  <2>6. ColumnsMatch(p, n + 1)
    BY <1>8, <2>3, <2>4, <2>5 DEF ColumnsMatch
  <2> QED BY <1>4, <2>6
<1> QED BY <1>10, <1>11

\* CSV: a header before everything else.
HeaderShown(o, n) ==
  cmd.format = "csv" /\ n > 0 => Len(o) > 0 /\ \A i \in 1..Len(o) : (o[i].kind = "header") <=> (i = 1)

LEMMA ColumnLinesKind ==
  ASSUME NEW k
  PROVE  \A i \in 1..Len(ColumnLines(k)) : ColumnLines(k)[i].kind = "column"
<1>1. CASE Calculates(k)
  <2>a. PICK s : s = ColumnLines(k)
    OBVIOUS
  <2>1. s = <<ColumnLine(k)>> /\ ColumnLine(k).kind = "column"
    BY <1>1, <2>a, ColumnLinesFacts
  <2>2. Len(s) = 1 /\ s[1] = ColumnLine(k)
    BY <2>1, SingletonIsSeq
  <2> QED BY <2>a, <2>1, <2>2
<1>2. CASE ~Calculates(k)
  <2>1. ColumnLines(k) = <<>> /\ Len(<<>>) = 0
    BY <1>2, ColumnLinesFacts, IsSeqEmpty
  <2> QED BY <2>1
<1> QED BY <1>1, <1>2

LEMMA CsvLinesKind ==
  ASSUME NEW k, NEW s, s = CsvLines(k)
  PROVE  /\ k = 1 => Len(s) > 0
         /\ \A i \in 1..Len(s) : (s[i].kind = "header") <=> (k = 1 /\ i = 1)
<1>a. PICK column : column = ColumnLines(k)
  OBVIOUS
<1>1. IsSeq(column) /\ Len(column) \in Nat /\ \A i \in 1..Len(column) : column[i].kind = "column"
  BY <1>a, ColumnLinesFacts, ColumnLinesKind, IsSeqFacts
<1>2. CASE k = 1
  <2>b. PICK first : first = <<Mark("header")>>
    OBVIOUS
  <2>1. IsSeq(first) /\ Len(first) = 1 /\ first[1].kind = "header"
    BY <2>b, SingletonIsSeq, MarkFacts
  <2>2. s = first \o column
    BY <1>a, <1>2, <2>b DEF CsvLines
  <2>3. TwoJoined(s, first, column)
    BY <1>1, <2>1, <2>2, TwoJoinedFacts
  <2>4. Len(s) = 1 + Len(column)
    BY <2>1, <2>3 DEF TwoJoined
  <2>5. s[1] = first[1]
    <3>1. 1 \in 1..Len(first)
      BY <2>1
    <3> QED BY <2>3, <3>1 DEF TwoJoined
  <2>6. ASSUME NEW i \in 1..Len(s), i # 1 PROVE s[i].kind = "column"
    <3>1. i - 1 \in 1..Len(column) /\ Len(first) + (i - 1) = i
      BY <1>1, <2>1, <2>4, <2>6
    <3>2. s[i] = column[i - 1]
      BY <2>3, <3>1 DEF TwoJoined
    <3> QED BY <1>1, <3>1, <3>2
  <2> QED BY <1>1, <1>2, <2>1, <2>4, <2>5, <2>6
<1>3. CASE k # 1
  <2>1. s = <<>> \o column
    BY <1>a, <1>3 DEF CsvLines
  <2>2. s = column
    BY <1>1, <2>1, ConcatEmpty
  <2> QED BY <1>1, <1>3, <2>2
<1> QED BY <1>2, <1>3

LEMMA HeaderShownStep ==
  ASSUME IsSeq(stat_ids), NEW n \in 0..Len(stat_ids), NEW o, IsSeq(o), n = 0 => o = <<>>,
         HeaderShown(o, n), NEW p, p = o \o LinesOf(n + 1)
  PROVE  HeaderShown(p, n + 1)
<1> SUFFICES ASSUME cmd.format = "csv"
             PROVE  Len(p) > 0 /\ \A i \in 1..Len(p) : (p[i].kind = "header") <=> (i = 1)
  BY DEF HeaderShown
<1>a. PICK k : k = n + 1
  OBVIOUS
<1>b. PICK lines : lines = LinesOf(k)
  OBVIOUS
<1>1. Len(stat_ids) \in Nat /\ n \in Nat
  BY IsSeqFacts
<1>2. IsSeq(lines) /\ lines = CsvLines(k)
  <2>1. LinesOf(k) = CsvLines(k)
    BY DEF LinesOf
  <2> QED BY <1>b, <2>1, LinesFacts
<1>3. /\ k = 1 => Len(lines) > 0
      /\ \A i \in 1..Len(lines) : (lines[i].kind = "header") <=> (k = 1 /\ i = 1)
  BY <1>2, CsvLinesKind
<1>4. p = o \o lines
  BY <1>a, <1>b
<1>5. CASE n = 0
  <2>1. p = <<>> \o lines
    BY <1>4, <1>5
  <2>2. p = lines /\ k = 1
    BY <1>a, <1>2, <1>5, <2>1, ConcatEmpty
  <2> QED BY <1>3, <2>2
<1>6. CASE n # 0
  <2>1. TwoJoined(p, o, lines)
    BY <1>2, <1>4, TwoJoinedFacts
  <2>2. Len(o) \in Nat /\ Len(lines) \in Nat
    BY <1>2, IsSeqFacts
  <2>3. Len(p) = Len(o) + Len(lines)
    BY <2>1 DEF TwoJoined
  <2>4. Len(o) > 0 /\ \A i \in 1..Len(o) : (o[i].kind = "header") <=> (i = 1)
    BY <1>1, <1>6 DEF HeaderShown
  <2>5. ASSUME NEW i \in 1..Len(p) PROVE (p[i].kind = "header") <=> (i = 1)
    <3>1. CASE i <= Len(o)
      <4>1. i \in 1..Len(o)
        BY <2>2, <2>3, <3>1
      <4>2. p[i] = o[i]
        BY <2>1, <4>1 DEF TwoJoined
      <4> QED BY <2>4, <4>1, <4>2
    <3>2. CASE i > Len(o)
      <4>1. i - Len(o) \in 1..Len(lines) /\ Len(o) + (i - Len(o)) = i /\ i # 1
        BY <2>2, <2>3, <2>4, <3>2
      <4>2. p[i] = lines[i - Len(o)]
        BY <2>1, <4>1 DEF TwoJoined
      <4>3. k # 1
        BY <1>1, <1>6, <1>a
      <4> QED BY <1>3, <4>1, <4>2, <4>3
    <3> QED BY <2>2, <3>1, <3>2
  <2> QED BY <2>2, <2>3, <2>4, <2>5
<1> QED BY <1>5, <1>6

\* JSON, if no column was selected twice: an array of objects.
JsonKind(i) ==
  IF i = 1 THEN "open" ELSE IF i = 2 * Len(stat_ids) + 1 THEN "close"
  ELSE IF i % 2 = 0 THEN "column" ELSE "comma"
JsonShown(o, n) ==
  cmd.format = "json" /\ IsInjective(stat_ids) /\ n > 0 =>
    Len(o) = 2 * n + 1 /\ \A i \in 1..(2 * n + 1) : o[i].kind = JsonKind(i)
Ending(k) == IF k = Len(stat_ids) THEN "close" ELSE "comma"

LEMMA TwoOnes ==
  ASSUME NEW a, IsSeq(a), Len(a) = 1, NEW b, IsSeq(b), Len(b) = 1, NEW t, TwoJoined(t, a, b)
  PROVE  IsSeq(t) /\ Len(t) = 2 /\ t[1] = a[1] /\ t[2] = b[1]
<1>1. 1 \in 1..Len(a) /\ 1 \in 1..Len(b)
  OBVIOUS
<1>2. IsSeq(t) /\ Len(t) = Len(a) + Len(b) /\ t[1] = a[1] /\ t[Len(a) + 1] = b[1]
  BY <1>1 DEF TwoJoined
<1> QED BY <1>2

LEMMA JsonColumnKinds ==
  ASSUME NEW k, Calculates(k), NEW s, s = JsonColumn(k)
  PROVE  /\ IsSeq(s)
         /\ k = 1 => /\ Len(s) = 3 /\ s[1].kind = "open"
                     /\ s[2].kind = "column" /\ s[3].kind = Ending(k)
         /\ k # 1 => Len(s) = 2 /\ s[1].kind = "column" /\ s[2].kind = Ending(k)
<1>1. ColumnLines(k) = <<ColumnLine(k)>> /\ ColumnLine(k).kind = "column"
  BY ColumnLinesFacts
<1>2. Mark("open").kind = "open" /\ Mark(Ending(k)).kind = Ending(k)
  BY DEF Mark, StatLine
<1>a. PICK x : x = ColumnLine(k)
  OBVIOUS
<1>b. PICK y : y = Mark(Ending(k))
  OBVIOUS
<1>c. PICK z : z = Mark("open")
  OBVIOUS
<1>d. PICK a : a = <<z>>
  OBVIOUS
<1>e. PICK b : b = <<x>>
  OBVIOUS
<1>f. PICK c : c = <<y>>
  OBVIOUS
<1>3. /\ IsSeq(a) /\ Len(a) = 1 /\ a[1] = z /\ IsSeq(b) /\ Len(b) = 1 /\ b[1] = x
      /\ IsSeq(c) /\ Len(c) = 1 /\ c[1] = y
  BY <1>d, <1>e, <1>f, SingletonIsSeq
<1>4. s = ((IF k = 1 THEN a ELSE <<>>) \o b) \o c
  BY <1>1, <1>a, <1>b, <1>c, <1>d, <1>e, <1>f DEF JsonColumn, Ending
<1>5. CASE k = 1
  <2>t. PICK t : t = a \o b
    OBVIOUS
  <2>1. TwoJoined(t, a, b)
    BY <1>3, <2>t, TwoJoinedFacts
  <2>2. IsSeq(t) /\ Len(t) = 2 /\ t[1] = z /\ t[2] = x
    BY <1>3, <2>1, TwoOnes
  <2>3. s = t \o c
    BY <1>4, <1>5, <2>t
  <2>4. TwoJoined(s, t, c)
    BY <1>3, <2>2, <2>3, TwoJoinedFacts
  <2>5. Len(s) = 3 /\ s[1] = z /\ s[2] = x /\ s[3] = y /\ IsSeq(s)
    <3>1. 1 \in 1..Len(t) /\ 2 \in 1..Len(t) /\ 1 \in 1..Len(c)
      BY <1>3, <2>2
    <3>2. IsSeq(s) /\ Len(s) = Len(t) + Len(c) /\ s[1] = t[1] /\ s[2] = t[2] /\ s[Len(t) + 1] = c[1]
      BY <2>4, <3>1 DEF TwoJoined
    <3> QED BY <1>3, <2>2, <3>2
  <2> QED BY <1>1, <1>2, <1>5, <1>a, <1>b, <1>c, <2>5
<1>6. CASE k # 1
  <2>1. <<>> \o b = b
    BY <1>3, ConcatEmpty
  <2>2. s = b \o c
    BY <1>4, <1>6, <2>1
  <2>3. TwoJoined(s, b, c)
    BY <1>3, <2>2, TwoJoinedFacts
  <2>4. IsSeq(s) /\ Len(s) = 2 /\ s[1] = x /\ s[2] = y
    BY <1>3, <2>3, TwoOnes
  <2> QED BY <1>1, <1>2, <1>6, <1>a, <1>b, <2>4
<1> QED BY <1>5, <1>6

LEMMA EvenAndOdd ==
  ASSUME NEW k \in Nat
  PROVE  (2 * k) % 2 = 0 /\ (2 * k + 1) % 2 = 1
<1>1. (2 * k) % 2 = 0
  OBVIOUS
<1>2. (2 * k + 1) % 2 = 1
  OBVIOUS
<1> QED BY <1>1, <1>2

LEMMA JsonShownStep ==
  ASSUME IsSeq(stat_ids), NEW n \in 0..Len(stat_ids), n < Len(stat_ids), NEW o, IsSeq(o),
         n = 0 => o = <<>>, JsonShown(o, n), NEW p, p = o \o LinesOf(n + 1), 
         cmd.format = "json"
  PROVE  JsonShown(p, n + 1)
<1> SUFFICES ASSUME IsInjective(stat_ids)
             PROVE  Len(p) = 2 * (n + 1) + 1 /\ \A i \in 1..(2 * (n + 1) + 1) : p[i].kind = JsonKind(i)
  BY DEF JsonShown
<1>a. PICK k : k = n + 1
  OBVIOUS
<1>b. PICK lines : lines = LinesOf(k)
  OBVIOUS
<1>1. Len(stat_ids) \in Nat /\ n \in Nat /\ DOMAIN stat_ids = 1..Len(stat_ids) /\ k \in 1..Len(stat_ids)
  BY <1>a, IsSeqFacts
<1>2. Calculates(k)
  <2>1. \A j \in 1..(k - 1) : j \in DOMAIN stat_ids /\ j # k
    BY <1>1
  <2> QED BY <1>1, <2>1 DEF Calculates, IsInjective
<1>3. lines = JsonColumn(k)
  BY <1>b DEF LinesOf
<1>4. /\ IsSeq(lines)
      /\ k = 1 => /\ Len(lines) = 3 /\ lines[1].kind = "open"
                  /\ lines[2].kind = "column" /\ lines[3].kind = Ending(k)
      /\ k # 1 => Len(lines) = 2 /\ lines[1].kind = "column" /\ lines[2].kind = Ending(k)
  BY <1>2, <1>3, JsonColumnKinds
<1>5. p = o \o lines
  BY <1>a, <1>b
<1>6. JsonKind(2 * k + 1) = Ending(k) /\ JsonKind(2 * k) = "column" /\ JsonKind(1) = "open"
  <2>1. /\ (2 * k + 1 = 2 * Len(stat_ids) + 1) <=> (k = Len(stat_ids))
        /\ 2 * k # 1 /\ 2 * k + 1 # 1 /\ 2 * k # 2 * Len(stat_ids) + 1
    <3>n. PICK m : m = Len(stat_ids)
      OBVIOUS
    <3>1. k \in Nat /\ m \in Nat /\ k > 0
      BY <1>1, <3>n
    <3>2. (2 * k + 1 = 2 * m + 1) <=> (k = m)
      BY <3>1
    <3>3. 2 * k # 1 /\ 2 * k + 1 # 1
      BY <3>1
    <3>4. 2 * k # 2 * m + 1
      BY <3>1
    <3> QED BY <3>n, <3>2, <3>3, <3>4
  <2>2. (2 * k) % 2 = 0 /\ (2 * k + 1) % 2 # 0
    BY <1>1, EvenAndOdd
  <2> QED BY <2>1, <2>2 DEF JsonKind, Ending
<1>7. CASE n = 0
  <2>1. p = <<>> \o lines
    BY <1>5, <1>7
  <2>a. IsSeq(lines)
    BY <1>4
  <2>b. <<>> \o lines = lines
    BY ONLY <2>a, ConcatEmpty
  <2>c. k = 1
    BY <1>a, <1>7
  <2>2. p = lines /\ k = 1
    BY ONLY <2>1, <2>b, <2>c
  <2>3. 2 * k + 1 = 3 /\ 2 * k = 2 /\ 2 * (n + 1) + 1 = 3 /\ 1..3 = {1, 2, 3}
    BY <1>7, <2>2
  <2>4. JsonKind(1) = "open" /\ JsonKind(2) = "column" /\ JsonKind(3) = Ending(k)
    BY <1>6, <2>3
  <2>5. Len(p) = 3 /\ p[1].kind = "open" /\ p[2].kind = "column" /\ p[3].kind = Ending(k)
    BY <1>4, <2>2
  <2> QED BY <2>3, <2>4, <2>5
<1>8. CASE n # 0
  <2>1. TwoJoined(p, o, lines)
    BY <1>4, <1>5, TwoJoinedFacts
  <2>2. Len(o) = 2 * n + 1 /\ \A i \in 1..(2 * n + 1) : o[i].kind = JsonKind(i)
    BY <1>1, <1>8 DEF JsonShown
  <2>3. Len(lines) = 2 /\ lines[1].kind = "column" /\ lines[2].kind = Ending(k)
    BY <1>1, <1>4, <1>8, <1>a
  <2>4. Len(p) = 2 * (n + 1) + 1
    <3>1. Len(p) = Len(o) + Len(lines)
      BY <2>1 DEF TwoJoined
    <3> QED BY <1>1, <2>2, <2>3, <3>1
  <2>5. p[2 * k] = lines[1] /\ p[2 * k + 1] = lines[2]
    <3>1. 1 \in 1..Len(lines) /\ 2 \in 1..Len(lines)
      BY <2>3
    <3>2. p[Len(o) + 1] = lines[1] /\ p[Len(o) + 2] = lines[2]
      BY <2>1, <3>1 DEF TwoJoined
    <3>3. Len(o) + 1 = 2 * k /\ Len(o) + 2 = 2 * k + 1
      BY <1>1, <1>a, <2>2
    <3> QED BY <3>2, <3>3
  <2>6. ASSUME NEW i \in 1..(2 * (n + 1) + 1) PROVE p[i].kind = JsonKind(i)
    <3>1. CASE i \in 1..(2 * n + 1)
      <4>1. p[i] = o[i]
        BY <2>1, <2>2, <3>1 DEF TwoJoined
      <4> QED BY <2>2, <3>1, <4>1
    <3>2. CASE i = 2 * k
      BY <1>6, <2>3, <2>5, <3>2
    <3>3. CASE i = 2 * k + 1
      BY <1>6, <2>3, <2>5, <3>3
    <3>4. i \in 1..(2 * n + 1) \/ i = 2 * k \/ i = 2 * k + 1
      BY <1>1, <1>a
    <3> QED BY <3>1, <3>2, <3>3, <3>4
  <2> QED BY <2>4, <2>6
<1> QED BY <1>7, <1>8

-------------------------------------------------------------------------------
(* The invariant.                                                             *)

StatIdsOK ==
  IsSeq(stat_ids) /\ \A k \in DOMAIN stat_ids : stat_ids[k] \in Nat \ {0}
StatShown(o, n) ==
  /\ IsSeq(o) /\ n \in 0..Len(stat_ids) /\ (n = 0 => o = <<>>)
  /\ ColumnsMatch(o, n) /\ HeaderShown(o, n) /\ JsonShown(o, n)

\* What StatTable says of the output.
TableOf(o) ==
  LET n == Len(o)
      json == [i \in 1..n |-> o[i].kind]
      columns == ColumnsIn(o)
  IN  /\ Len(columns) = Cardinality(Range(stat_ids))
      /\ \A i \in DOMAIN columns :
           LET column == columns[i] IN
           /\ ColumnOf(column) = stat_ids[FirstPlaces[i]]
           /\ column.id = 0 => Operation # {} /\ Len(stat_ids) = 1
           /\ column.id # 0 => column.label = HeaderNames(cmd.names)[column.id]
      /\ Counting => o[n] = CountLine
      /\ (cmd.format = "csv" /\ stat_ids # <<>>) =>
           \A i \in 1..n : (o[i].kind = "header") = (i = 1)
      /\ (cmd.format = "json" /\ stat_ids # <<>> /\ IsInjective(stat_ids)) =>
           /\ n = 2 * Len(stat_ids) + 1
           /\ \A i \in 1..n : json[i] = IF i = 1 THEN "open" ELSE IF i = n THEN "close"
                                        ELSE IF i % 2 = 0 THEN "column" ELSE "comma"

StatOK ==
  /\ Asked /\ held = <<>>
  /\ at = "start" => out = <<>> /\ types = <<>> /\ columns_shown = 0
  /\ at \in {"typifying", "calculating", "printing"} => StatIdsOK
  /\ at \in {"typifying", "calculating"} => out = <<>> /\ columns_shown = 0
  /\ at = "printing" => StatShown(out, columns_shown)
  /\ at = "done" /\ types # <<>> => IsSeq(out) /\ TableOf(out)
StatInv == cmd.tool = "stat" => StatOK

LEMMA StatShownStep ==
  ASSUME IsSeq(stat_ids), NEW n, NEW o, StatShown(o, n), n < Len(stat_ids),
         NEW p, p = o \o LinesOf(n + 1)
  PROVE  StatShown(p, n + 1)
<1>1. /\ IsSeq(o) /\ n \in 0..Len(stat_ids) /\ (n = 0 => o = <<>>)
      /\ ColumnsMatch(o, n) /\ HeaderShown(o, n) /\ JsonShown(o, n)
  BY DEF StatShown
<1>2. IsSeq(p) /\ ColumnsMatch(p, n + 1)
  BY <1>1, ColumnsMatchStep
<1>3. HeaderShown(p, n + 1)
  BY <1>1, HeaderShownStep
<1>4. JsonShown(p, n + 1)
  <2>1. CASE cmd.format = "json"
    BY <1>1, <2>1, JsonShownStep
  <2>2. CASE cmd.format # "json"
    BY <2>2 DEF JsonShown
  <2> QED BY <2>1, <2>2
<1>5. n + 1 \in 0..Len(stat_ids) /\ n + 1 # 0
  <2>1. Len(stat_ids) \in Nat
    BY IsSeqFacts
  <2> QED BY <1>1, <2>1
<1> QED BY <1>2, <1>3, <1>4, <1>5 DEF StatShown

LEMMA StatShownFirst ==
  ASSUME IsSeq(stat_ids)
  PROVE  StatShown(<<>>, 0)
<1>1. Len(stat_ids) \in Nat
  BY IsSeqFacts
<1>2. IsSeq(<<>>) /\ Len(<<>>) = 0 /\ 0 \in 0..Len(stat_ids) /\ ~(0 > 0)
  BY <1>1, IsSeqEmpty
<1>3. ColumnsIn(<<>>) = <<>> /\ FirstUpTo(0) = <<>>
  BY <1>2, ColumnsOfNone, FirstUpToStep
<1>4. Matched(<<>>, <<>>)
  BY <1>2 DEF Matched
<1>5. IsFiniteSet(IdsUpTo(0)) /\ Cardinality(IdsUpTo(0)) = 0
  <2>1. IdsUpTo(0) = {}
    BY DEF IdsUpTo
  <2> QED BY <2>1, FS_EmptySet
<1>6. ColumnsMatch(<<>>, 0)
  BY <1>2, <1>3, <1>4, <1>5 DEF ColumnsMatch
<1>7. HeaderShown(<<>>, 0) /\ JsonShown(<<>>, 0)
  BY <1>2 DEF HeaderShown, JsonShown
<1> QED BY <1>2, <1>6, <1>7 DEF StatShown

\* The line of the row count at the end is no column.
LEMMA ColumnsCounted ==
  ASSUME NEW o, IsSeq(o), NEW p, p = Append(o, CountLine)
  PROVE  IsSeq(p) /\ Len(p) = Len(o) + 1 /\ p[Len(p)] = CountLine /\ ColumnsIn(p) = ColumnsIn(o)
<1>c. PICK counted : counted = CountLine
  OBVIOUS
<1>1. IsSeq(p) /\ Len(p) = Len(o) + 1 /\ p[Len(o) + 1] = CountLine /\ \A i \in 1..Len(o) : p[i] = o[i]
  <2>1. p = Append(o, counted)
    BY <1>c
  <2>2. IsSeq(p) /\ Len(p) = Len(o) + 1
    BY <2>1, AppendedAny
  <2>3. p[Len(o) + 1] = counted
    BY <2>1, AppendedAny
  <2>4. \A i \in 1..Len(o) : p[i] = o[i]
    BY <2>1, AppendedAny
  <2> QED BY <1>c, <2>2, <2>3, <2>4
<1>a. PICK one : one = <<CountLine>>
  OBVIOUS
<1>2. IsSeq(one) /\ Len(one) = 1 /\ one[1] = CountLine
  BY <1>a, SingletonIsSeq
<1>b. PICK q : q = o \o one
  OBVIOUS
<1>3. TwoJoined(q, o, one)
  BY <1>2, <1>b, TwoJoinedFacts
<1>4. p = q
  <2>1. IsSeq(q) /\ Len(q) = Len(o) + 1 /\ \A i \in 1..Len(o) : q[i] = o[i]
    BY <1>2, <1>3 DEF TwoJoined
  <2>2. q[Len(o) + 1] = CountLine
    <3>1. 1 \in 1..Len(one)
      BY <1>2
    <3> QED BY <1>2, <1>3, <3>1 DEF TwoJoined
  <2>3. Len(o) \in Nat
    BY IsSeqFacts
  <2>4. \A i \in 1..Len(p) : p[i] = q[i]
    <3> TAKE i \in 1..Len(p)
    <3>1. i \in 1..Len(o) \/ i = Len(o) + 1
      BY <1>1, <2>3
    <3> QED BY <1>1, <2>1, <2>2, <3>1
  <2> QED BY <1>1, <2>1, <2>4, IsSeqSame
<1>5. ColumnsIn(one) = <<>>
  <2>1. CountLine.kind # "column"
    BY DEF CountLine, StatLine
  <2>2. OnlyColumn(CountLine) = <<>>
    BY <2>1 DEF OnlyColumn
  <2> QED BY <1>a, <2>2, ColumnsOfOne
<1>6. ColumnsIn(q) = ColumnsIn(o)
  BY <1>2, <1>5, <1>b, ColumnsBeforeNone
<1> QED BY <1>1, <1>4, <1>6

LEMMA ColumnLineFields ==
  ASSUME NEW k
  PROVE  /\ Operation = {} \/ Len(stat_ids) > 1 =>
              /\ ColumnLine(k).id = stat_ids[k]
              /\ ColumnLine(k).label = HeaderNames(cmd.names)[stat_ids[k]]
         /\ ~(Operation = {} \/ Len(stat_ids) > 1) => ColumnLine(k).id = 0
<1>1. CASE Operation = {} \/ Len(stat_ids) > 1
  <2>1. ColumnLine(k).id = stat_ids[k]
    BY <1>1 DEF ColumnLine, StatLine
  <2>2. ColumnLine(k).label = HeaderNames(cmd.names)[stat_ids[k]]
    BY <1>1 DEF ColumnLine, StatLine
  <2> QED BY <1>1, <2>1, <2>2
<1>2. CASE ~(Operation = {} \/ Len(stat_ids) > 1)
  <2>1. ColumnLine(k).id = 0
    BY <1>2 DEF ColumnLine, StatLine
  <2> QED BY <1>2, <2>1
<1> QED BY <1>1, <1>2

LEMMA TableShown ==
  ASSUME StatIdsOK, NEW n, n = Len(stat_ids), NEW o, StatShown(o, n),
         ~(Counting /\ stat_ids = <<>>),
         NEW p, p = IF Counting THEN Append(o, CountLine) ELSE o
  PROVE  IsSeq(p) /\ TableOf(p)
<1>1. /\ IsSeq(o) /\ (n = 0 => o = <<>>)
      /\ ColumnsMatch(o, n) /\ HeaderShown(o, n) /\ JsonShown(o, n)
  BY DEF StatShown
<1>2. IsSeq(stat_ids) /\ n \in Nat /\ DOMAIN stat_ids = 1..n
  BY IsSeqFacts DEF StatIdsOK
<1>3. IsSeq(p) /\ ColumnsIn(p) = ColumnsIn(o)
  <2>1. CASE Counting
    BY <1>1, <2>1, ColumnsCounted
  <2>2. CASE ~Counting
    BY <1>1, <2>2
  <2> QED BY <2>1, <2>2
<1>4. Counting => p[Len(p)] = CountLine
  BY <1>1, ColumnsCounted
<1>c. PICK c : c = ColumnsIn(o)
  OBVIOUS
<1>f. PICK f : f = FirstPlaces
  OBVIOUS
<1>5. FirstUpTo(n) = f
  BY <1>2, <1>f, FirstUpToStep
<1>6. /\ Len(c) = Len(f) /\ \A i \in 1..Len(c) : f[i] \in DOMAIN stat_ids /\ c[i] = ColumnLine(f[i])
      /\ Len(c) = Cardinality(IdsUpTo(n))
  BY <1>1, <1>5, <1>c DEF ColumnsMatch, Matched
<1>7. Len(c) = Cardinality(Range(stat_ids))
  <2>1. IdsUpTo(n) = Range(stat_ids)
    BY <1>2 DEF IdsUpTo, Range
  <2> QED BY <1>6, <2>1
<1>8. DOMAIN c = 1..Len(c)
  <2>1. IsSeq(c)
    BY <1>1, <1>c, ColumnsIsSeq
  <2> QED BY <2>1, IsSeqFacts
<1>9. ASSUME NEW i \in DOMAIN c
      PROVE  /\ ColumnOf(c[i]) = stat_ids[f[i]]
             /\ c[i].id = 0 => Operation # {} /\ Len(stat_ids) = 1
             /\ c[i].id # 0 => c[i].label = HeaderNames(cmd.names)[c[i].id]
  <2>k. PICK k : k = f[i]
    OBVIOUS
  <2>1. k \in 1..n /\ c[i] = ColumnLine(k)
    BY <1>2, <1>6, <1>8, <2>k
  <2>2. stat_ids[k] \in Nat \ {0}
    BY <1>2, <2>1 DEF StatIdsOK
  <2>3. CASE Operation = {} \/ Len(stat_ids) > 1
    <3>1. c[i].id = stat_ids[k] /\ c[i].label = HeaderNames(cmd.names)[stat_ids[k]]
      BY <2>1, <2>3, ColumnLineFields
    <3> QED BY <2>2, <2>k, <3>1 DEF ColumnOf
  <2>4. CASE ~(Operation = {} \/ Len(stat_ids) > 1)
    <3>1. c[i].id = 0
      BY <2>1, <2>4, ColumnLineFields
    <3>2. n = 1 /\ k = 1
      BY <1>2, <2>1, <2>4
    <3> QED BY <2>4, <2>k, <3>1, <3>2 DEF ColumnOf
  <2> QED BY <2>3, <2>4
<1>10. cmd.format # "text" => p = o
  BY DEF Counting
<1>11. stat_ids # <<>> => n > 0
  <2>1. CASE n = 0
    <3>1. IsSeq(<<>>) /\ Len(<<>>) = 0
      BY IsSeqEmpty
    <3>2. \A i \in 1..Len(stat_ids) : stat_ids[i] = <<>>[i]
      BY <2>1
    <3>3. stat_ids = <<>>
      BY <1>2, <2>1, <3>1, <3>2, IsSeqSame
    <3> QED BY <3>3
  <2> QED BY <1>2, <2>1
<1>12. (cmd.format = "csv" /\ stat_ids # <<>>) =>
         \A i \in 1..Len(p) : (p[i].kind = "header") = (i = 1)
  BY <1>1, <1>10, <1>11 DEF HeaderShown
<1>13. (cmd.format = "json" /\ stat_ids # <<>> /\ IsInjective(stat_ids)) =>
         /\ Len(p) = 2 * Len(stat_ids) + 1
         /\ \A i \in 1..Len(p) : p[i].kind = IF i = 1 THEN "open" ELSE IF i = Len(p) THEN "close"
                                               ELSE IF i % 2 = 0 THEN "column" ELSE "comma"
  <2> SUFFICES ASSUME cmd.format = "json", stat_ids # <<>>, IsInjective(stat_ids)
               PROVE  /\ Len(p) = 2 * Len(stat_ids) + 1
                      /\ \A i \in 1..Len(p) :
                           p[i].kind = IF i = 1 THEN "open" ELSE IF i = Len(p) THEN "close"
                                       ELSE IF i % 2 = 0 THEN "column" ELSE "comma"
    OBVIOUS
  <2>1. Len(o) = 2 * n + 1 /\ \A i \in 1..(2 * n + 1) : o[i].kind = JsonKind(i)
    BY <1>1, <1>11 DEF JsonShown
  <2> QED BY <1>10, <2>1 DEF JsonKind
<1> QED BY <1>3, <1>4, <1>7, <1>9, <1>12, <1>13, <1>c, <1>f DEF TableOf

LEMMA StatShownKept ==
  ASSUME NEW o, NEW n, StatShown(o, n), UNCHANGED <<cmd, stat_ids, results>>
  PROVE  StatShown(o, n)'
<1>1. FirstUpTo(n)' = FirstUpTo(n) /\ IdsUpTo(n)' = IdsUpTo(n)
  BY DEF FirstUpTo, Firsts, FirstAt, Calculates, IdsUpTo
<1>2. \A k : ColumnLine(k)' = ColumnLine(k)
  BY DEF ColumnLine, Operation, HeaderNames
<1>3. ColumnsMatch(o, n)'
  BY <1>1, <1>2 DEF StatShown, ColumnsMatch, Matched
<1>4. HeaderShown(o, n)'
  BY DEF StatShown, HeaderShown
<1>5. JsonShown(o, n)'
  BY DEF StatShown, JsonShown, JsonKind
<1> QED BY <1>3, <1>4, <1>5 DEF StatShown

LEMMA TableKept ==
  ASSUME NEW o, TableOf(o), UNCHANGED <<cmd, stat_ids>>
  PROVE  TableOf(o)'
<1>1. FirstPlaces' = FirstPlaces
  BY DEF FirstPlaces, Calculates
<1>2. Operation' = Operation /\ HeaderNames(cmd.names)' = HeaderNames(cmd.names)
  BY DEF Operation, HeaderNames
<1>3. Counting' = Counting /\ CountLine' = CountLine
  BY <1>2 DEF Counting, CountLine, DataRows
<1>4. \A x : ColumnOf(x)' = ColumnOf(x)
  BY DEF ColumnOf
<1> QED BY <1>1, <1>2, <1>3, <1>4 DEF TableOf

\* What the command line is, for the proofs.
LEMMA StatAskedFacts ==
  ASSUME Asked, cmd.tool = "stat"
  PROVE  cmd.names \in Seq(STRING) /\ AreIds(cmd.ids) /\ cmd.format \in {"text", "csv", "json"}
BY StatAssumption DEF Asked

LEMMA StatIdsFound ==
  ASSUME Asked, cmd.tool = "stat", Understood(StatIds)
  PROVE  IsSeq(StatIds) /\ \A k \in DOMAIN StatIds : StatIds[k] \in 1..Len(cmd.names)
<1>n. PICK names : names = HeaderNames(cmd.names)
  OBVIOUS
<1>1. IsSeq(names) /\ Len(names) = Len(cmd.names) /\ AreIds(cmd.ids)
  BY <1>n, StatAskedFacts, HeaderNamesFacts
<1>2. DOMAIN names = 1..Len(cmd.names)
  BY <1>1, IsSeqFacts
<1>i. PICK ids : ids = StatIds
  OBVIOUS
<1>3. ids = ParseColumnIdentifiers(cmd.ids, <<>>, names, cmd.zero)
  BY <1>i, <1>n DEF StatIds
<1>4. ids \in Seq(0..Len(names)) /\ \A k \in DOMAIN ids : ids[k] \in DOMAIN names
  BY <1>1, <1>3, <1>i, ColumnsFound
<1>5. IsSeq(ids)
  BY <1>4, SeqIsSeq
<1> QED BY <1>2, <1>4, <1>5, <1>i

LEMMA StatInitially == ToolInit /\ TypifyInit /\ StatInit => StatInv
BY DEF ToolInit, TypifyInit, StatInit, StatInv, StatOK, Asked

LEMMA StatStopsEarly ==
  ASSUME StatOK, NEW condition, NEW place \in {"done", "failed", "rejected"}, NEW lines,
         StatOf(condition, place, lines)
  PROVE  StatOK'
<1>1. at = "start" /\ at' = place /\ UNCHANGED <<cmd, held, types>>
  BY DEF StatOf, Goto, typifyVars
<1>2. types' = <<>> /\ held' = <<>> /\ Asked'
  BY <1>1 DEF StatOK, Asked
<1> QED BY <1>1, <1>2 DEF StatOK

LEMMA StatStep ==
  ASSUME StatOK, cmd.tool = "stat", StatNext
  PROVE  StatOK'
<1>1. CASE StatRejected
  BY <1>1, StatStopsEarly DEF StatRejected
<1>2. CASE StatNames
  BY <1>2, StatStopsEarly DEF StatNames
<1>3. CASE StatCounted
  BY <1>3, StatStopsEarly DEF StatCounted
<1>4. CASE StatUnknown
  BY <1>4, StatStopsEarly DEF StatUnknown
<1>5. CASE StatTooLong
  BY <1>5, StatStopsEarly DEF StatTooLong
<1>6. CASE StatCount
  BY <1>6, StatStopsEarly DEF StatCount
<1>7. CASE StatFill
  <2>1. /\ at = "start" /\ at' = "typifying" /\ UNCHANGED <<cmd, out, held, columns_shown>>
        /\ stat_ids' = StatIds /\ Understood(StatIds)
    BY <1>7 DEF StatFill, Filled, Goto, Quiet
  <2>2. Asked' /\ held' = <<>> /\ out' = <<>> /\ columns_shown' = 0
    BY <2>1 DEF StatOK, Asked
  <2>3. StatIdsOK'
    <3>1. IsSeq(StatIds) /\ \A k \in DOMAIN StatIds : StatIds[k] \in 1..Len(cmd.names)
      BY <2>1, StatIdsFound DEF StatOK
    <3>2. Len(cmd.names) \in Nat
      BY StatAskedFacts, LenProperties DEF StatOK
    <3>i. PICK ids : ids = StatIds
      OBVIOUS
    <3>3. IsSeq(ids) /\ \A k \in DOMAIN ids : ids[k] \in Nat \ {0}
      BY <3>1, <3>2, <3>i
    <3>4. stat_ids' = ids
      BY <2>1, <3>i
    <3> QED BY <3>3, <3>4 DEF StatIdsOK
  <2> QED BY <2>1, <2>2, <2>3 DEF StatOK
<1>8. CASE StatTypes
  <2>1. at = "typifying" /\ UNCHANGED <<cmd, at, out, held, stat_ids, columns_shown>>
    BY <1>8 DEF StatTypes, Quiet, statVars
  <2>2. Asked' /\ held' = <<>> /\ StatIdsOK' /\ out' = <<>> /\ columns_shown' = 0
    BY <2>1 DEF StatOK, Asked, StatIdsOK
  <2> QED BY <2>1, <2>2 DEF StatOK
<1>9. CASE StatTasks
  <2>1. at = "typifying" /\ at' = "calculating" /\ UNCHANGED <<cmd, out, held, stat_ids, columns_shown>>
    BY <1>9 DEF StatTasks, Goto, Quiet
  <2>2. Asked' /\ held' = <<>> /\ StatIdsOK' /\ out' = <<>> /\ columns_shown' = 0
    BY <2>1 DEF StatOK, Asked, StatIdsOK
  <2> QED BY <2>1, <2>2 DEF StatOK
<1>10. CASE StatColumn
  <2>1. at = "calculating" /\ UNCHANGED <<cmd, at, out, held, stat_ids, columns_shown>>
    BY <1>10 DEF StatColumn, StatTask, Quiet
  <2>2. Asked' /\ held' = <<>> /\ StatIdsOK' /\ out' = <<>> /\ columns_shown' = 0
    BY <2>1 DEF StatOK, Asked, StatIdsOK
  <2> QED BY <2>1, <2>2 DEF StatOK
<1>11. CASE StatWaited
  <2>1. /\ at = "calculating" /\ at' = "printing"
        /\ UNCHANGED <<cmd, out, held, stat_ids, results, columns_shown>>
    BY <1>11 DEF StatWaited, Goto, Quiet, statVars
  <2>2. Asked' /\ held' = <<>> /\ StatIdsOK' /\ out' = <<>> /\ columns_shown' = 0
    BY <2>1 DEF StatOK, Asked, StatIdsOK
  <2>3. StatShown(<<>>, 0)'
    <3>1. IsSeq(stat_ids)
      BY <2>1 DEF StatOK, StatIdsOK
    <3> QED BY <2>1, <3>1, StatShownFirst, StatShownKept
  <2>4. StatShown(out, columns_shown)'
    BY <2>2, <2>3
  <2> QED BY <2>1, <2>2, <2>4 DEF StatOK
<1>12. CASE StatPrint
  <2>1. /\ at = "printing" /\ columns_shown < Len(stat_ids) /\ columns_shown' = columns_shown + 1
        /\ UNCHANGED <<cmd, at, held, stat_ids, results>>
    BY <1>12 DEF StatPrint
  <2>o. PICK o : o = out
    OBVIOUS
  <2>n. PICK n : n = columns_shown
    OBVIOUS
  <2>p. PICK p : p = out'
    OBVIOUS
  <2>2. p = o \o LinesOf(n + 1)
    <3>1. cmd.format \in {"text", "csv", "json"}
      BY StatAskedFacts DEF StatOK
    <3>2. columns_shown' = n + 1
      BY <2>1, <2>n
    <3>3. p = o \o (CASE cmd.format = "text" -> ColumnLines(n + 1)
                      [] cmd.format = "csv" -> CsvLines(n + 1)
                      [] cmd.format = "json" -> JsonColumn(n + 1))
      BY <1>12, <2>o, <2>p, <3>2 DEF StatPrint
    <3> QED BY <3>1, <3>3 DEF LinesOf
  <2>3. Asked' /\ held' = <<>> /\ StatIdsOK' /\ IsSeq(stat_ids) /\ StatShown(o, n)
    BY <2>1, <2>n, <2>o DEF StatOK, Asked, StatIdsOK
  <2>4. StatShown(p, n + 1)
    BY <2>1, <2>2, <2>3, <2>n, StatShownStep
  <2>5. StatShown(p, n + 1)'
    BY <2>1, <2>4, StatShownKept
  <2>6. StatShown(out, columns_shown)'
    BY <2>1, <2>5, <2>n, <2>p
  <2> QED BY <2>1, <2>3, <2>6 DEF StatOK
<1>13. CASE StatEnd
  <2>1. /\ at = "printing" /\ at' = "done" /\ columns_shown = Len(stat_ids)
        /\ ~(Counting /\ stat_ids = <<>>) /\ UNCHANGED <<cmd, held, stat_ids>>
        /\ out' = IF Counting THEN Append(out, CountLine) ELSE out
    BY <1>13 DEF StatEnd, Goto, statVars
  <2>o. PICK o : o = out
    OBVIOUS
  <2>n. PICK n : n = columns_shown
    OBVIOUS
  <2>p. PICK p : p = out'
    OBVIOUS
  <2>2. Asked' /\ held' = <<>> /\ StatIdsOK /\ StatShown(o, n)
    BY <2>1, <2>n, <2>o DEF StatOK, Asked
  <2>3. p = IF Counting THEN Append(o, CountLine) ELSE o
    BY <2>1, <2>o, <2>p
  <2>4. n = Len(stat_ids)
    BY <2>1, <2>n
  <2>5. IsSeq(p) /\ TableOf(p)
    BY <2>1, <2>2, <2>3, <2>4, TableShown
  <2>6. TableOf(p)'
    BY <2>1, <2>5, TableKept
  <2>7. IsSeq(out') /\ TableOf(out)'
    BY <2>5, <2>6, <2>p
  <2> QED BY <2>1, <2>2, <2>7 DEF StatOK
<1>14. CASE StatOfNothing
  <2>1. at' = "undefined" /\ UNCHANGED <<cmd, held>>
    BY <1>14 DEF StatOfNothing, Goto, Quiet
  <2>2. Asked' /\ held' = <<>>
    BY <2>1 DEF StatOK, Asked
  <2> QED BY <2>1, <2>2 DEF StatOK
<1> QED BY <1>1, <1>2, <1>3, <1>4, <1>5, <1>6, <1>7, <1>8, <1>9, <1>10, <1>11, <1>12, <1>13, <1>14 DEF StatNext

LEMMA StatCommandKept == [StatNext]_<<toolVars, typifyVars, statVars>> => UNCHANGED cmd
<1>1. CASE StatNext
  BY <1>1 DEF StatNext, StatRejected, StatNames, StatCounted, StatUnknown, StatTooLong, StatCount,
    StatFill, StatTypes, StatTasks, StatColumn, StatTask, StatWaited, StatPrint, StatEnd,
    StatOfNothing, StatOf, Goto
<1>2. CASE UNCHANGED <<toolVars, typifyVars, statVars>>
  BY <1>2 DEF toolVars
<1> QED BY <1>1, <1>2

LEMMA StatKept == StatInv /\ [StatNext]_<<toolVars, typifyVars, statVars>> => StatInv'
<1> SUFFICES ASSUME StatInv, [StatNext]_<<toolVars, typifyVars, statVars>>, cmd'.tool = "stat"
             PROVE  StatOK'
  BY DEF StatInv
<1>1. CASE StatNext
  <2>1. UNCHANGED cmd
    BY StatCommandKept
  <2> QED BY <1>1, <2>1, StatStep DEF StatInv
<1>2. CASE UNCHANGED <<toolVars, typifyVars, statVars>>
  <2>1. UNCHANGED <<cmd, at, out, held, types, stat_ids, results, columns_shown>>
    BY <1>2 DEF toolVars, typifyVars, statVars
  <2>2. StatOK
    BY <2>1 DEF StatInv
  <2>o. PICK o : o = out
    OBVIOUS
  <2>n. PICK n : n = columns_shown
    OBVIOUS
  <2>3. Asked' /\ held' = <<>> /\ (at \in {"typifying", "calculating", "printing"} => StatIdsOK')
    BY <2>1, <2>2 DEF StatOK, Asked, StatIdsOK
  <2>4. at = "printing" => StatShown(out, columns_shown)'
    <3>1. at = "printing" => StatShown(o, n)'
      BY <2>1, <2>2, <2>n, <2>o, StatShownKept DEF StatOK
    <3> QED BY <2>1, <2>n, <2>o, <3>1
  <2>5. at = "done" /\ types # <<>> => IsSeq(out') /\ TableOf(out)'
    <3>1. at = "done" /\ types # <<>> => IsSeq(o) /\ TableOf(o)'
      BY <2>1, <2>2, <2>o, TableKept DEF StatOK
    <3> QED BY <2>1, <2>o, <3>1
  <2> QED BY <2>1, <2>2, <2>3, <2>4, <2>5 DEF StatOK
<1> QED BY <1>1, <1>2

LEMMA TableTold == StatInv => StatTable
<1> SUFFICES ASSUME StatInv, StatDone PROVE StatTable
  BY DEF StatTable
<1>1. IsSeq(out) /\ TableOf(out) /\ held = <<>>
  BY DEF StatInv, StatOK, StatDone
<1>2. Output = out
  <2>1. out \o <<>> = out
    BY <1>1, ConcatEmpty
  <2> QED BY <1>1, <2>1 DEF Output
<1> QED BY <1>1, <1>2 DEF StatTable, TableOf, ColumnsPrinted

\* Each column selected is printed once, at its first place and under its own name, and
\* the output has the form of its kind, whatever columns a command line names (stat(),
\* the visitors).
THEOREM StatTabulates == StatSpec => []StatTable
<1>1. StatSpec => []StatInv
  BY StatInitially, StatKept, PTL DEF StatSpec
<1> QED BY <1>1, TableTold, PTL

-------------------------------------------------------------------------------
(* The types csvStat finds.                                                   *)

\* The columns its table is filled with.
StatGiven == [k \in DOMAIN stat_ids |-> cmd.cells[stat_ids[k]]]
StatAtWork == {"typifying", "calculating", "printing"}
StatTypesOK ==
  /\ at = "start" => types = <<>>
  /\ at \in StatAtWork \/ types # <<>> =>
       /\ InputOK /\ FilledWith(StatGiven)
       /\ at = "typifying" \/ ~cmd.no_inference => TypesFound(StatGiven)
       /\ at # "typifying" => TypesSettled(StatGiven)
StatTypesInv == cmd.tool = "stat" => StatTypesOK

LEMMA StatCellsFacts ==
  ASSUME Asked, cmd.tool = "stat", cmd.names # <<>>
  PROVE  /\ InputOK
         /\ \A c \in 1..Len(cmd.names) : \A r \in DataRows : cmd.cells[c][r] \in Texts
<1>1. /\ cmd.cells \in Seq(Seq(Texts))
      /\ \A c \in DOMAIN cmd.cells : Len(cmd.cells[c]) = Len(cmd.cells[1])
      /\ cmd.cells # <<>> => Len(cmd.cells) = Len(cmd.names)
  BY StatAssumption DEF Asked
<1>2. DOMAIN cmd.cells = 1..Len(cmd.cells) /\ Len(cmd.cells) \in Nat
  BY <1>1, LenProperties
<1>3. CASE cmd.cells = <<>>
  <2>1. DataRows = {}
    BY <1>3 DEF DataRows
  <2>2. DataRows = 1..0
    BY <2>1
  <2> QED BY <2>1, <2>2 DEF InputOK
<1>4. CASE cmd.cells # <<>>
  <2>1. 1 \in 1..Len(cmd.cells)
    BY <1>1, <1>2, <1>4, EmptySeq
  <2>2. \A c \in 1..Len(cmd.cells) : cmd.cells[c] \in Seq(Texts)
    BY <1>1, <1>2, ElementOfSeq
  <2>3. \A c \in 1..Len(cmd.cells) :
          /\ DOMAIN cmd.cells[c] = 1..Len(cmd.cells[c]) /\ Len(cmd.cells[c]) \in Nat
          /\ \A r \in 1..Len(cmd.cells[c]) : cmd.cells[c][r] \in Texts
    BY <2>2, LenProperties, ElementOfSeq
  <2>4. DataRows = 1..Len(cmd.cells[1])
    BY <1>4, <2>1, <2>3 DEF DataRows
  <2> QED BY <1>1, <1>2, <1>4, <2>1, <2>3, <2>4 DEF InputOK
<1> QED BY <1>3, <1>4

\* The invariant after a step, from what is known of the columns given.
LEMMA StatTypesGoOn ==
  ASSUME UNCHANGED cmd, NEW given, given = StatGiven', InputOK, FilledWith(given)', at' # "start",
         at' = "typifying" \/ ~cmd.no_inference => TypesFound(given)',
         at' # "typifying" => TypesSettled(given)'
  PROVE  StatTypesOK'
<1>1. InputOK'
  BY DEF InputOK, DataRows
<1>2. FilledWith(StatGiven)'
  BY DEF FilledWith, ColumnOK, Blanks, Wordless, AllFit
<1>3. at' = "typifying" \/ ~cmd.no_inference => TypesFound(StatGiven)'
  BY DEF TypesFound, TypeFound, Wordless, FirstToFit, AllFit
<1>4. at' # "typifying" => TypesSettled(StatGiven)'
  BY DEF TypesSettled
<1> QED BY <1>1, <1>2, <1>3, <1>4 DEF StatTypesOK

LEMMA StatTypesStep ==
  ASSUME StatOK, StatTypesOK, cmd.tool = "stat", UNCHANGED cmd,
         StatNext \/ UNCHANGED <<toolVars, typifyVars, statVars>>
  PROVE  StatTypesOK'
<1>1. CASE \E condition, lines : \E place \in {"done", "failed", "rejected"} :
             StatOf(condition, place, lines)
  <2>1. at = "start" /\ at' \notin StatAtWork \cup {"start"} /\ UNCHANGED types
    BY <1>1 DEF StatOf, Goto, typifyVars, StatAtWork
  <2> QED BY <2>1 DEF StatTypesOK
<1>2. CASE StatFill
  <2>1. /\ at' = "typifying" /\ stat_ids' = StatIds /\ cmd.names # <<>> /\ Understood(StatIds)
        /\ TypifyStart([k \in DOMAIN StatIds |-> cmd.cells[StatIds[k]]])
    BY <1>2 DEF StatFill, Filled, Examined, StatRefused, Goto
  <2>i. PICK ids : ids = StatIds
    OBVIOUS
  <2>g. PICK given : given = [k \in DOMAIN ids |-> cmd.cells[ids[k]]]
    OBVIOUS
  <2>2. given = StatGiven'
    BY <2>1, <2>g, <2>i DEF StatGiven
  <2>3. InputOK /\ \A c \in 1..Len(cmd.names) : \A r \in DataRows : cmd.cells[c][r] \in Texts
    BY <2>1, StatCellsFacts DEF StatOK
  <2>4. \A k \in DOMAIN ids : ids[k] \in 1..Len(cmd.names)
    BY <2>1, <2>i, StatIdsFound DEF StatOK
  <2>5. \A k \in DOMAIN given : \A r \in DataRows : given[k][r] \in Texts
    BY <2>3, <2>4, <2>g
  <2>6. TypifyStart(given)
    BY <2>1, <2>g, <2>i
  <2>7. FilledWith(given)' /\ TypesFound(given)'
    BY <2>5, <2>6, TableFilled
  <2> QED BY <2>1, <2>2, <2>3, <2>7, StatTypesGoOn
<1>3. CASE StatTypes
  <2>1. at = "typifying" /\ at' = at /\ stat_ids' = stat_ids /\ TryTypes
    BY <1>3 DEF StatTypes, statVars
  <2>g. PICK given : given = StatGiven
    OBVIOUS
  <2>2. InputOK /\ FilledWith(given) /\ TypesFound(given)
    BY <2>1, <2>g DEF StatTypesOK, StatAtWork
  <2>3. FilledWith(given)' /\ TypesFound(given)'
    BY <2>1, <2>2, TypesTried
  <2>4. given = StatGiven'
    BY <2>1, <2>g DEF StatGiven
  <2> QED BY <2>1, <2>2, <2>3, <2>4, StatTypesGoOn
<1>4. CASE StatTasks
  <2>1. at = "typifying" /\ at' = "calculating" /\ stat_ids' = stat_ids /\ TypifyEnd
    BY <1>4 DEF StatTasks, Goto
  <2>g. PICK given : given = StatGiven
    OBVIOUS
  <2>2. InputOK /\ FilledWith(given) /\ TypesFound(given)
    BY <2>1, <2>g DEF StatTypesOK, StatAtWork
  <2>3. FilledWith(given)' /\ TypesSettled(given)' /\ (~cmd.no_inference => TypesFound(given)')
    BY <2>1, <2>2, TypesEnded
  <2>4. given = StatGiven'
    BY <2>1, <2>g DEF StatGiven
  <2> QED BY <2>1, <2>2, <2>3, <2>4, StatTypesGoOn
<1>5. CASE \/ StatColumn \/ StatWaited \/ StatPrint \/ StatEnd \/ StatOfNothing
           \/ UNCHANGED <<toolVars, typifyVars, statVars>>
  <2>1. /\ UNCHANGED <<typifyVars, stat_ids>>
        /\ \/ at' = at
           \/ at \in StatAtWork \ {"typifying"} /\ at' \notin {"start", "typifying"}
    <3>1. CASE StatColumn
      BY <3>1 DEF StatColumn, StatTask
    <3>2. CASE StatWaited
      BY <3>2 DEF StatWaited, Goto, statVars, StatAtWork
    <3>3. CASE StatPrint
      BY <3>3 DEF StatPrint
    <3>4. CASE StatEnd
      BY <3>4 DEF StatEnd, Goto, statVars, StatAtWork
    <3>5. CASE StatOfNothing
      BY <3>5 DEF StatOfNothing, Goto, statVars, StatAtWork
    <3>6. CASE UNCHANGED <<toolVars, typifyVars, statVars>>
      BY <3>6 DEF toolVars, statVars
    <3> QED BY <1>5, <3>1, <3>2, <3>3, <3>4, <3>5, <3>6
  <2>2. UNCHANGED types
    BY <2>1 DEF typifyVars
  <2>3. CASE ~(at \in StatAtWork \/ types # <<>>)
    BY <2>1, <2>2, <2>3 DEF StatTypesOK
  <2>4. CASE at \in StatAtWork \/ types # <<>>
    <3>g. PICK given : given = StatGiven
      OBVIOUS
    <3>1. /\ InputOK /\ FilledWith(given) /\ at # "start"
          /\ at = "typifying" \/ ~cmd.no_inference => TypesFound(given)
          /\ at # "typifying" => TypesSettled(given)
      BY <2>4, <3>g DEF StatTypesOK, StatAtWork
    <3>2. /\ FilledWith(given)' /\ (TypesFound(given) => TypesFound(given)')
          /\ (TypesSettled(given) => TypesSettled(given)')
      BY <2>1, <3>1, TypesKept
    <3>3. given = StatGiven'
      BY <2>1, <3>g DEF StatGiven
    <3>4. at' # "start" /\ ((at' = "typifying") <=> (at = "typifying"))
      BY <2>1, <3>1
    <3> QED BY <3>1, <3>2, <3>3, <3>4, StatTypesGoOn
  <2> QED BY <2>3, <2>4
<1>6. StatRejected \/ StatNames \/ StatCounted \/ StatUnknown \/ StatTooLong \/ StatCount =>
        \E condition, lines : \E place \in {"done", "failed", "rejected"} :
          StatOf(condition, place, lines)
  BY DEF StatRejected, StatNames, StatCounted, StatUnknown, StatTooLong, StatCount
<1> QED BY <1>1, <1>2, <1>3, <1>4, <1>5, <1>6 DEF StatNext

LEMMA StatTypesTold == StatTypesInv => (cmd.tool = "stat" => BlanksKnown /\ TypesFit)
<1> SUFFICES ASSUME StatTypesInv, cmd.tool = "stat", TypesKnown, NEW c \in DOMAIN table
             PROVE  /\ has_blanks[c] = (~cmd.blanks /\ Null \in TextsIn(c))
                    /\ TextsIn(c) \cap BooleanWords = {} => types[c] = FirstFit(TextsIn(c))
  BY DEF BlanksKnown, TypesFit
<1> QED BY ColumnTold DEF StatTypesInv, StatTypesOK, TypesKnown

\* Until csvStat is done, its table is the columns selected, what the tests of a column found
\* is so of its texts, and what is noted of the columns once the tasks are over is what was
\* found (stat, detect_types_and_blanks).
THEOREM StatTypesInvariant == StatSpec => []StatTypesInv
<1>1. StatInv /\ StatTypesInv /\ [StatNext]_<<toolVars, typifyVars, statVars>> => StatTypesInv'
  <2> SUFFICES ASSUME StatInv, StatTypesInv, [StatNext]_<<toolVars, typifyVars, statVars>>,
                      cmd'.tool = "stat"
               PROVE  StatTypesOK'
    BY DEF StatTypesInv
  <2>1. UNCHANGED cmd
    BY StatCommandKept
  <2> QED BY <2>1, StatTypesStep DEF StatInv, StatTypesInv
<1>2. ToolInit /\ TypifyInit /\ StatInit => StatTypesInv
  BY DEF ToolInit, TypifyInit, StatTypesInv, StatTypesOK, StatAtWork
<1> QED BY <1>1, <1>2, StatInitially, StatKept, PTL DEF StatSpec

\* When csvStat calculates and prints, a column is said to have blanks exactly if one of its
\* cells is a blank, wherever the scan of the column stopped (stat, detect_types_and_blanks).
THEOREM StatBlanksKnown == StatSpec => [](cmd.tool = "stat" => BlanksKnown)
BY StatTypesInvariant, StatTypesTold, PTL

\* And a column without the words of booleans is calculated by the class of the first type
\* each of its texts fits on its own, in whatever order the tasks of the columns went.
THEOREM StatTypesFit == StatSpec => [](cmd.tool = "stat" => TypesFit)
BY StatTypesInvariant, StatTypesTold, PTL

-------------------------------------------------------------------------------
(* Sums over a set, whatever the order.                                       *)

Some(s) == CHOOSE x \in s : TRUE
\* it is the sum over every subset of S, one element after the other.
SumsUp(f, s, it) == IF s = {} THEN 0 ELSE f[Some(s)] + it[s \ {Some(s)}]
Summing(f, S, it) == it = [s \in SUBSET S |-> SumsUp(f, s, it)]

LEMMA SomeIsIn == \A s : s # {} => Some(s) \in s
BY DEF Some

LEMMA SumIs == \A f, S : SumFunctionOnSet(f, S) = (CHOOSE it : Summing(f, S, it))[S]
BY DEF SumFunctionOnSet, FoldFunctionOnSet, MapThenFoldSet, Summing, SumsUp, Some

\* Less by one element.
LEMMA OneLess ==
  ASSUME NEW s, IsFiniteSet(s), NEW x \in s, NEW n \in Nat, Cardinality(s) = n
  PROVE  /\ IsFiniteSet(s \ {x}) /\ n > 0 /\ Cardinality(s \ {x}) = n - 1
<1>1. IsFiniteSet(s \ {x}) /\ Cardinality(s \ {x}) = n - 1
  BY FS_RemoveElement
<1>2. Cardinality(s \ {x}) \in Nat
  BY <1>1, FS_CardinalityType
<1> QED BY <1>1, <1>2

LEMMA SumExists ==
  ASSUME NEW S, IsFiniteSet(S), NEW f, \A x \in S : f[x] \in Int
  PROVE  \E it : it \in [SUBSET S -> Int] /\ Summing(f, S, it)
<1> DEFINE Small(n) == {s \in SUBSET S : Cardinality(s) <= n}
           Upto(n, it) == it \in [Small(n) -> Int] /\ \A s \in Small(n) : it[s] = SumsUp(f, s, it)
           Q == {n \in Nat : \E it : Upto(n, it)}
<1>1. \A s \in SUBSET S : IsFiniteSet(s) /\ Cardinality(s) \in Nat /\ Cardinality(s) <= Cardinality(S)
  BY FS_Subset, FS_CardinalityType
<1>2. 0 \in Q
  <2> DEFINE none == [s \in Small(0) |-> 0]
  <2>1. \A s \in Small(0) : s = {}
    BY <1>1, FS_EmptySet
  <2>2. Upto(0, none)
    BY <2>1 DEF SumsUp
  <2> QED BY <2>2
<1>3. ASSUME NEW n \in Nat, n \in Q PROVE n + 1 \in Q
  <2>1. PICK it : Upto(n, it)
    BY <1>3
  <2> DEFINE jt == [s \in Small(n + 1) |-> SumsUp(f, s, it)]
  <2>2. \A s \in Small(n + 1) : s # {} => Some(s) \in s /\ s \ {Some(s)} \in Small(n)
    <3> TAKE s \in Small(n + 1)
    <3> HAVE s # {}
    <3>1. Some(s) \in s
      BY SomeIsIn
    <3>2. Cardinality(s \ {Some(s)}) = Cardinality(s) - 1
      BY <1>1, <3>1, OneLess
    <3> QED BY <1>1, <3>1, <3>2
  <2>3. \A s \in Small(n + 1) : jt[s] \in Int
    <3> TAKE s \in Small(n + 1)
    <3>1. CASE s = {}
      BY <3>1 DEF SumsUp
    <3>2. CASE s # {}
      <4>1. f[Some(s)] \in Int /\ it[s \ {Some(s)}] \in Int
        BY <2>1, <2>2, <3>2
      <4> QED BY <3>2, <4>1 DEF SumsUp
    <3> QED BY <3>1, <3>2
  <2>4. \A s \in Small(n) : s \in Small(n + 1) /\ jt[s] = it[s]
    BY <1>1, <2>1
  <2>5. \A s \in Small(n + 1) : jt[s] = SumsUp(f, s, jt)
    <3> TAKE s \in Small(n + 1)
    <3>1. s # {} => it[s \ {Some(s)}] = jt[s \ {Some(s)}]
      BY <2>2, <2>4
    <3> HIDE DEF jt
    <3>2. jt[s] = SumsUp(f, s, it)
      BY DEF jt
    <3> QED BY <3>1, <3>2 DEF SumsUp
  <2>6. jt \in [Small(n + 1) -> Int]
    BY <2>3
  <2> HIDE DEF jt
  <2>7. Upto(n + 1, jt)
    BY <2>5, <2>6
  <2> HIDE DEF Upto, Small
  <2> QED BY <2>7
<1> HIDE DEF Q
<1>4. Cardinality(S) \in Q
  <2>1. \A n \in Nat : n \in Q
    BY <1>2, <1>3, Induction
  <2> QED BY <1>1, <2>1, FS_CardinalityType
<1> DEFINE n == Cardinality(S)
<1>5. PICK it : Upto(n, it)
  BY <1>4 DEF Q
<1>6. Small(n) = SUBSET S
  BY <1>1
<1>7. it \in [SUBSET S -> Int] /\ \A s \in SUBSET S : it[s] = SumsUp(f, s, it)
  BY <1>5, <1>6
<1>8. it = [s \in SUBSET S |-> SumsUp(f, s, it)]
  BY <1>7
<1> QED BY <1>7, <1>8 DEF Summing

\* Two such sums are the same where the two functions are.
LEMMA SumsAgree ==
  ASSUME NEW S, NEW T, NEW f, NEW g, NEW it, NEW jt, Summing(f, S, it), Summing(g, T, jt),
         NEW s, IsFiniteSet(s), s \subseteq S, s \subseteq T, \A x \in s : f[x] = g[x]
  PROVE  it[s] = jt[s]
<1> DEFINE Q == {n \in Nat : \A r \in SUBSET s : Cardinality(r) = n => it[r] = jt[r]}
<1>1. \A r \in SUBSET s : IsFiniteSet(r) /\ Cardinality(r) \in Nat /\ r \in SUBSET S /\ r \in SUBSET T
  BY FS_Subset, FS_CardinalityType
<1>2. \A r \in SUBSET s : it[r] = SumsUp(f, r, it) /\ jt[r] = SumsUp(g, r, jt)
  BY <1>1 DEF Summing
<1>3. 0 \in Q
  <2> SUFFICES ASSUME NEW r \in SUBSET s, Cardinality(r) = 0 PROVE it[r] = jt[r]
    OBVIOUS
  <2>1. r = {}
    BY <1>1, FS_EmptySet
  <2> QED BY <1>2, <2>1 DEF SumsUp
<1>4. ASSUME NEW n \in Nat, n \in Q PROVE n + 1 \in Q
  <2> SUFFICES ASSUME NEW r \in SUBSET s, Cardinality(r) = n + 1 PROVE it[r] = jt[r]
    OBVIOUS
  <2>1. r # {}
    BY FS_EmptySet
  <2>2. Some(r) \in r
    BY <2>1, SomeIsIn
  <2>3. Cardinality(r \ {Some(r)}) = n
    BY <1>1, <2>2, OneLess
  <2>4. it[r \ {Some(r)}] = jt[r \ {Some(r)}]
    BY <1>4, <2>3
  <2>5. f[Some(r)] = g[Some(r)]
    BY <2>2
  <2> QED BY <1>2, <2>1, <2>4, <2>5 DEF SumsUp
<1> HIDE DEF Q
<1>5. \A n \in Nat : n \in Q
  BY <1>3, <1>4, Induction
<1>6. Cardinality(s) \in Q
  BY <1>1, <1>5
<1> QED BY <1>6 DEF Q

\* A sum over a set and its parts.
LEMMA SumTold ==
  ASSUME NEW S, IsFiniteSet(S), NEW f, \A x \in S : f[x] \in Int
  PROVE  \E it : /\ it \in [SUBSET S -> Int] /\ Summing(f, S, it)
                 /\ \A s \in SUBSET S : it[s] = SumFunctionOnSet(f, s)
<1>1. PICK it : it \in [SUBSET S -> Int] /\ Summing(f, S, it)
  BY SumExists
<1>2. ASSUME NEW s \in SUBSET S PROVE it[s] = SumFunctionOnSet(f, s)
  <2>1. IsFiniteSet(s)
    BY FS_Subset
  <2>2. \E jt : Summing(f, s, jt)
    BY <2>1, SumExists
  <2> DEFINE jt == CHOOSE jt : Summing(f, s, jt)
  <2>3. Summing(f, s, jt)
    BY <2>2
  <2>4. SumFunctionOnSet(f, s) = jt[s]
    BY SumIs
  <2> HIDE DEF jt
  <2>5. it[s] = jt[s]
    BY <1>1, <2>1, <2>3, SumsAgree
  <2> QED BY <2>4, <2>5
<1> QED BY <1>1, <1>2

LEMMA SumSame ==
  ASSUME NEW S, IsFiniteSet(S), NEW f, NEW g, \A x \in S : f[x] \in Int /\ f[x] = g[x]
  PROVE  SumFunctionOnSet(f, S) = SumFunctionOnSet(g, S)
<1>s. S \in SUBSET S
  OBVIOUS
<1>f. \A x \in S : f[x] \in Int
  OBVIOUS
<1>g. \A x \in S : g[x] \in Int
  OBVIOUS
<1>1. PICK it : /\ it \in [SUBSET S -> Int] /\ Summing(f, S, it)
                /\ \A s \in SUBSET S : it[s] = SumFunctionOnSet(f, s)
  BY ONLY IsFiniteSet(S), <1>f, SumTold
<1>2. PICK jt : /\ jt \in [SUBSET S -> Int] /\ Summing(g, S, jt)
                /\ \A s \in SUBSET S : jt[s] = SumFunctionOnSet(g, s)
  BY ONLY IsFiniteSet(S), <1>g, SumTold
<1>3. it[S] = jt[S]
  BY <1>1, <1>2, SumsAgree
<1> QED BY <1>s, <1>1, <1>2, <1>3

LEMMA SumStep ==
  ASSUME NEW S, IsFiniteSet(S), NEW f, \A x \in S : f[x] \in Int
  PROVE  /\ SumFunctionOnSet(f, S) \in Int
         /\ S = {} => SumFunctionOnSet(f, S) = 0
         /\ S # {} => /\ Some(S) \in S
                      /\ SumFunctionOnSet(f, S) = f[Some(S)] + SumFunctionOnSet(f, S \ {Some(S)})
<1>1. PICK it : /\ it \in [SUBSET S -> Int] /\ Summing(f, S, it)
                /\ \A s \in SUBSET S : it[s] = SumFunctionOnSet(f, s)
  BY SumTold
<1>2. it[S] = SumsUp(f, S, it)
  BY <1>1 DEF Summing
<1>3. S \ {Some(S)} \in SUBSET S /\ S \in SUBSET S
  OBVIOUS
<1> QED BY <1>1, <1>2, <1>3, SomeIsIn DEF SumsUp

\* Any element may be the first.
LEMMA SumWithout ==
  ASSUME NEW S, IsFiniteSet(S), NEW f, \A x \in S : f[x] \in Int, NEW x \in S
  PROVE  /\ SumFunctionOnSet(f, S \ {x}) \in Int
         /\ SumFunctionOnSet(f, S) = f[x] + SumFunctionOnSet(f, S \ {x})
<1> DEFINE Sum(s) == SumFunctionOnSet(f, s)
           Q == {n \in Nat : \A s \in SUBSET S : Cardinality(s) = n =>
                               \A y \in s : Sum(s) = f[y] + Sum(s \ {y})}
<1>1. \A s \in SUBSET S : IsFiniteSet(s) /\ Cardinality(s) \in Nat
  BY FS_Subset, FS_CardinalityType
<1>2. \A s \in SUBSET S : Sum(s) \in Int /\ (s # {} => Some(s) \in s /\ Sum(s) = f[Some(s)] + Sum(s \ {Some(s)}))
  BY <1>1, SumStep
<1> HIDE DEF Sum
<1>3. 0 \in Q
  BY <1>1, FS_EmptySet
<1>4. ASSUME NEW n \in Nat, n \in Q PROVE n + 1 \in Q
  <2> SUFFICES ASSUME NEW s \in SUBSET S, Cardinality(s) = n + 1, NEW y \in s
               PROVE  Sum(s) = f[y] + Sum(s \ {y})
    OBVIOUS
  <2> DEFINE z == Some(s)
  <2>1. z \in s /\ Sum(s) = f[z] + Sum(s \ {z})
    BY <1>2
  <2> HIDE DEF z
  <2>2. CASE z = y
    BY <2>1, <2>2
  <2>3. CASE z # y
    <3>1. Cardinality(s \ {z}) = n /\ Cardinality(s \ {y}) = n
      BY <1>1, <2>1, OneLess
    <3>2. Sum(s \ {z}) = f[y] + Sum((s \ {z}) \ {y})
      BY <1>4, <2>3, <3>1
    <3>3. Sum(s \ {y}) = f[z] + Sum((s \ {y}) \ {z})
      BY <1>4, <2>1, <2>3, <3>1
    <3>4. (s \ {y}) \ {z} = (s \ {z}) \ {y}
      OBVIOUS
    <3>5. f[y] \in Int /\ f[z] \in Int /\ Sum((s \ {y}) \ {z}) \in Int
      BY <1>2, <2>1
    <3>6. Sum(s \ {z}) = f[y] + Sum((s \ {y}) \ {z})
      BY <3>2, <3>4
    <3> PICK a, b, c : a = f[y] /\ b = f[z] /\ c = Sum((s \ {y}) \ {z})
      OBVIOUS
    <3>7. Sum(s) = b + (a + c) /\ Sum(s \ {y}) = b + c /\ a \in Int /\ b \in Int /\ c \in Int
      BY <2>1, <3>3, <3>5, <3>6
    <3> QED BY <3>7
  <2> QED BY <2>2, <2>3
<1> HIDE DEF Q
<1>5. \A n \in Nat : n \in Q
  BY <1>3, <1>4, Induction
<1>6. Cardinality(S) \in Q
  BY <1>1, <1>5
<1>7. Sum(S) = f[x] + Sum(S \ {x}) /\ Sum(S \ {x}) \in Int
  BY <1>2, <1>6 DEF Q
<1> QED BY <1>7 DEF Sum

LEMMA SumOfZeros ==
  ASSUME NEW S, IsFiniteSet(S), NEW f, \A x \in S : f[x] = 0
  PROVE  SumFunctionOnSet(f, S) = 0
<1> DEFINE Q == {n \in Nat : \A s \in SUBSET S : Cardinality(s) = n => SumFunctionOnSet(f, s) = 0}
<1>1. \A s \in SUBSET S : IsFiniteSet(s) /\ Cardinality(s) \in Nat
  BY FS_Subset, FS_CardinalityType
<1>2. 0 \in Q
  BY <1>1, FS_EmptySet, SumStep
<1>3. ASSUME NEW n \in Nat, n \in Q PROVE n + 1 \in Q
  <2> SUFFICES ASSUME NEW s \in SUBSET S, Cardinality(s) = n + 1 PROVE SumFunctionOnSet(f, s) = 0
    OBVIOUS
  <2>1. s # {}
    BY FS_EmptySet
  <2>2. Some(s) \in s /\ SumFunctionOnSet(f, s) = f[Some(s)] + SumFunctionOnSet(f, s \ {Some(s)})
    BY <1>1, <2>1, SumStep
  <2>3. Cardinality(s \ {Some(s)}) = n
    BY <1>1, <2>2, OneLess
  <2> QED BY <1>3, <2>2, <2>3
<1> HIDE DEF Q
<1>4. \A n \in Nat : n \in Q
  BY <1>2, <1>3, Induction
<1>5. Cardinality(S) \in Q
  BY <1>1, <1>4
<1> QED BY <1>5 DEF Q

\* The values of a column and how often each occurs.
LEMMA RangeFinite ==
  ASSUME NEW D, IsFiniteSet(D), NEW V \in [D -> Int]
  PROVE  IsFiniteSet(Range(V)) /\ Range(V) \subseteq Int
<1>1. V \in Surjection(D, Range(V))
  BY DEF Surjection, Range
<1> QED BY <1>1, FS_Surjection DEF Range

LEMMA Distributes == \A a, b \in Int : a * (b + 1) = a * b + a
OBVIOUS

\* A sum is that of each value times its occurrences.
LEMMA SumGrouped ==
  ASSUME NEW D, IsFiniteSet(D), NEW V \in [D -> Int]
  PROVE  SumFunction([v \in Range(V) |-> v * Occurrences(V, v)]) = SumFunction(V)
<1> DEFINE R == Range(V)
           Count(J, v) == Cardinality({r \in J : V[r] = v})
           G(J) == [v \in R |-> v * Count(J, v)]
           Q == {n \in Nat : \A J \in SUBSET D : Cardinality(J) = n =>
                               SumFunctionOnSet(G(J), R) = SumFunctionOnSet(V, J)}
<1>1. \A J \in SUBSET D : IsFiniteSet(J) /\ Cardinality(J) \in Nat
  BY FS_Subset, FS_CardinalityType
<1>2. IsFiniteSet(R) /\ \A v \in R : v \in Int
  BY RangeFinite
<1>3. ASSUME NEW J \in SUBSET D, NEW v
      PROVE  IsFiniteSet({r \in J : V[r] = v}) /\ Count(J, v) \in Nat
  <2>1. {r \in J : V[r] = v} \in SUBSET D
    OBVIOUS
  <2> QED BY <1>1, <2>1
<1>4. \A J \in SUBSET D : \A v \in R : G(J)[v] = v * Count(J, v) /\ G(J)[v] \in Int
  <2> TAKE J \in SUBSET D
  <2> TAKE v \in R
  <2>1. v \in Int /\ Count(J, v) \in Int
    BY <1>2, <1>3
  <2> HIDE DEF Count, R
  <2> QED BY <2>1
<1>5. 0 \in Q
  <2> SUFFICES ASSUME NEW J \in SUBSET D, Cardinality(J) = 0
               PROVE  SumFunctionOnSet(G(J), R) = SumFunctionOnSet(V, J)
    OBVIOUS
  <2>1. J = {}
    BY <1>1, FS_EmptySet
  <2>2. \A v \in R : Count(J, v) = 0
    BY <2>1, FS_EmptySet
  <2>3. \A v \in R : G(J)[v] = 0
    <3> TAKE v \in R
    <3>1. G(J)[v] = v * 0 /\ v \in Int
      BY <1>2, <1>4, <2>2
    <3> QED BY <3>1
  <2> HIDE DEF G, R
  <2>4. SumFunctionOnSet(G(J), R) = 0
    BY <1>2, <2>3, SumOfZeros
  <2>5. SumFunctionOnSet(V, J) = 0
    <3>1. \A x \in J : V[x] \in Int
      BY <2>1
    <3> QED BY <1>1, <2>1, <3>1, SumStep
  <2> QED BY <2>4, <2>5
<1>6. ASSUME NEW n \in Nat, n \in Q PROVE n + 1 \in Q
  <2> SUFFICES ASSUME NEW J \in SUBSET D, Cardinality(J) = n + 1
               PROVE  SumFunctionOnSet(G(J), R) = SumFunctionOnSet(V, J)
    OBVIOUS
  <2>1. J # {}
    BY FS_EmptySet
  <2>2. PICK x : x \in J
    BY <2>1
  <2> DEFINE K == J \ {x}
             w == V[x]
  <2>3. K \in SUBSET D /\ Cardinality(K) = n /\ w \in R /\ w \in Int
    <3>1. Cardinality(K) = n
      BY <1>1, <2>2, OneLess
    <3> QED BY <2>2, <3>1 DEF Range
  <2>4. SumFunctionOnSet(G(K), R) = SumFunctionOnSet(V, K)
    BY <1>6, <2>3
  <2>5. \A v \in R : v # w => Count(J, v) = Count(K, v)
    <3> TAKE v \in R
    <3> HAVE v # w
    <3>1. {r \in J : V[r] = v} = {r \in K : V[r] = v}
      OBVIOUS
    <3> QED BY <3>1
  <2>6. Count(J, w) = Count(K, w) + 1
    <3>1. {r \in J : V[r] = w} = {r \in K : V[r] = w} \cup {x}
      BY <2>2
    <3>2. x \notin {r \in K : V[r] = w}
      OBVIOUS
    <3>3. IsFiniteSet({r \in K : V[r] = w})
      BY <1>3, <2>3
    <3> QED BY <3>1, <3>2, <3>3, FS_AddElement
  <2>7. G(J)[w] = G(K)[w] + w
    <3> HIDE DEF G, Count, w, K, R
    <3>1. Count(K, w) \in Nat
      BY <1>3, <2>3
    <3>2. G(J)[w] = w * Count(J, w) /\ G(K)[w] = w * Count(K, w)
      BY <1>4, <2>3
    <3> QED BY <2>3, <2>6, <3>1, <3>2, Distributes
  <2>8. \A v \in R \ {w} : G(J)[v] = G(K)[v]
    <3> TAKE v \in R \ {w}
    <3>1. G(J)[v] = v * Count(J, v) /\ G(K)[v] = v * Count(K, v)
      BY <1>4, <2>3
    <3> QED BY <2>5, <3>1
  <2> DEFINE g == G(J)
             h == G(K)
  <2>9. /\ \A v \in R : g[v] \in Int
        /\ \A v \in R : h[v] \in Int
        /\ \A r \in J : V[r] \in Int
    BY <1>4, <2>3
  <2>10. g[w] = h[w] + w /\ \A v \in R \ {w} : g[v] = h[v]
    BY <2>7, <2>8
  <2>11. SumFunctionOnSet(h, R) = SumFunctionOnSet(V, K)
    BY <2>4
  <2> HIDE DEF g, h, G, Count
  <2>12. /\ SumFunctionOnSet(g, R \ {w}) \in Int
         /\ SumFunctionOnSet(g, R) = g[w] + SumFunctionOnSet(g, R \ {w})
    BY ONLY <1>2, <2>3, <2>9, SumWithout
  <2>13. /\ SumFunctionOnSet(h, R \ {w}) \in Int
         /\ SumFunctionOnSet(h, R) = h[w] + SumFunctionOnSet(h, R \ {w})
    BY ONLY <1>2, <2>3, <2>9, SumWithout
  <2>14. SumFunctionOnSet(g, R \ {w}) = SumFunctionOnSet(h, R \ {w})
    <3>1. IsFiniteSet(R \ {w})
      BY <1>2, FS_RemoveElement
    <3>2. \A v \in R \ {w} : g[v] \in Int /\ g[v] = h[v]
      BY <2>9, <2>10
    <3> QED BY ONLY <3>1, <3>2, SumSame
  <2>15. /\ SumFunctionOnSet(V, K) \in Int
         /\ SumFunctionOnSet(V, J) = w + SumFunctionOnSet(V, K)
    <3>1. IsFiniteSet(J)
      BY <1>1
    <3> QED BY <2>2, <2>9, <3>1, SumWithout
  <2>16. h[w] \in Int /\ w \in Int
    BY <2>3, <2>9
  <2> PICK a, b, c, d :
        /\ a = SumFunctionOnSet(g, R \ {w}) /\ b = SumFunctionOnSet(V, K)
        /\ c = h[w] /\ d = w
    OBVIOUS
  <2>17. /\ SumFunctionOnSet(g, R) = (c + d) + a /\ SumFunctionOnSet(V, J) = d + b
         /\ c + a = b /\ a \in Int /\ b \in Int /\ c \in Int /\ d \in Int
    BY <2>10, <2>11, <2>12, <2>13, <2>14, <2>15, <2>16
  <2>18. SumFunctionOnSet(g, R) = SumFunctionOnSet(V, J)
    BY <2>17
  <2> QED BY <2>18 DEF g
<1>7. \A n \in Nat : n \in Q
  <2> HIDE DEF Q
  <2> QED BY <1>5, <1>6, Induction
<1>8. SumFunctionOnSet(G(D), R) = SumFunctionOnSet(V, D)
  <2>1. D \in SUBSET D /\ Cardinality(D) \in Q
    BY <1>1, <1>7
  <2> QED BY <2>1
<1>9. G(D) = [v \in Range(V) |-> v * Occurrences(V, v)]
  BY DEF Occurrences
<1>10. DOMAIN G(D) = R
  OBVIOUS
<1> HIDE DEF G
<1>11. SumFunction(G(D)) = SumFunctionOnSet(G(D), R) /\ SumFunction(V) = SumFunctionOnSet(V, D)
  BY <1>10 DEF SumFunction
<1> QED BY <1>8, <1>9, <1>11

-------------------------------------------------------------------------------
(* The nth value.                                                             *)

\* Fewer than n are below it and n are not above it: there is one such value.
LEMMA NthIs ==
  ASSUME NEW D, IsFiniteSet(D), NEW V \in [D -> Int], NEW n \in Int, NEW w \in Range(V),
         Below(V, w) < n, NotAbove(V, w) >= n
  PROVE  Nth(V, n) = w
<1> DEFINE Ranks(v) == Below(V, v) < n /\ NotAbove(V, v) >= n
<1>1. Range(V) \subseteq Int
  BY DEF Range
<1>2. \A v : /\ IsFiniteSet({r \in D : V[r] < v}) /\ Below(V, v) = Cardinality({r \in D : V[r] < v})
             /\ IsFiniteSet({r \in D : V[r] <= v}) /\ NotAbove(V, v) = Cardinality({r \in D : V[r] <= v})
             /\ Below(V, v) \in Nat /\ NotAbove(V, v) \in Nat
  <2> TAKE v
  <2>1. {r \in D : V[r] < v} \in SUBSET D /\ {r \in D : V[r] <= v} \in SUBSET D
    OBVIOUS
  <2>2. IsFiniteSet({r \in D : V[r] < v}) /\ IsFiniteSet({r \in D : V[r] <= v})
    BY <2>1, FS_Subset
  <2> QED BY <2>2, FS_CardinalityType DEF Below, NotAbove
<1>3. ASSUME NEW u \in Range(V), NEW v \in Range(V), Ranks(u), Ranks(v), u < v
      PROVE  FALSE
  <2> DEFINE S == {r \in D : V[r] <= u}
             T == {r \in D : V[r] < v}
  <2>1. S \in SUBSET T
    BY <1>1, <1>3
  <2>2. NotAbove(V, u) = Cardinality(S) /\ NotAbove(V, u) \in Nat
    BY <1>2
  <2>3. IsFiniteSet(T) /\ Below(V, v) = Cardinality(T) /\ Below(V, v) \in Nat
    BY <1>2
  <2> HIDE DEF S, T
  <2>4. Cardinality(S) <= Cardinality(T)
    BY <2>1, <2>3, FS_Subset
  <2>5. NotAbove(V, u) >= n /\ Below(V, v) < n
    BY <1>3
  <2> QED BY <2>2, <2>3, <2>4, <2>5
<1>4. \A v \in Range(V) : Ranks(v) => v = w
  BY <1>1, <1>3
<1>5. Ranks(w)
  OBVIOUS
<1>6. Nth(V, n) = CHOOSE v \in Range(V) : Ranks(v)
  BY DEF Nth
<1> HIDE DEF Ranks
<1> QED BY <1>4, <1>5, <1>6

-------------------------------------------------------------------------------
(* The values in any order.                                                   *)

LEMMA CountMapped ==
  ASSUME NEW D, IsFiniteSet(D), NEW n \in Nat, Cardinality(D) = n,
         NEW p \in [1..n -> D], IsInjective(p), NEW T \in SUBSET D
  PROVE  Cardinality({i \in 1..n : p[i] \in T}) = Cardinality(T)
<1> DEFINE I == {i \in 1..n : p[i] \in T}
           q == [i \in I |-> p[i]]
<1>1. IsFiniteSet(1..n) /\ Cardinality(1..n) = n
  <2>1. 1 \in Int /\ n \in Int
    OBVIOUS
  <2> QED BY <2>1, FS_Interval
<1>2. p \in Injection(1..n, D)
  BY DEF IsInjective, Injection
<1>3. p \in Surjection(1..n, D)
  BY <1>1, <1>2, FS_Injection
<1>4. q \in Bijection(I, T)
  <2>1. q \in [I -> T]
    OBVIOUS
  <2>2. \A i, j \in I : q[i] = q[j] => i = j
    BY DEF IsInjective
  <2>3. \A t \in T : \E i \in I : q[i] = t
    BY <1>3 DEF Surjection
  <2> HIDE DEF I, q
  <2> QED BY <2>1, <2>2, <2>3 DEF Bijection, Injection, Surjection, IsInjective
<1>5. IsFiniteSet(I)
  <2>1. I \in SUBSET (1..n)
    OBVIOUS
  <2> QED BY <1>1, <2>1, FS_Subset
<1> HIDE DEF I, q
<1>6. Cardinality(T) = Cardinality(I)
  BY <1>4, <1>5, FS_Bijection DEF ExistsBijection
<1> QED BY <1>6 DEF I

LEMMA ArrangedFacts ==
  ASSUME NEW D, IsFiniteSet(D), NEW V \in [D -> Int], NEW n, n = Cardinality(D),
         NEW a \in Arranged(V)
  PROVE  /\ n \in Nat /\ a \in [1..n -> Int] /\ Len(a) = n /\ DOMAIN a = 1..n
         /\ \A i \in 1..n : a[i] \in Range(V)
         /\ \A v \in Int : Below(V, v) = Below(a, v) /\ NotAbove(V, v) = NotAbove(a, v)
<1>1. n \in Nat
  BY FS_CardinalityType
<1>2. PICK p \in [1..n -> D] : IsInjective(p) /\ a = [i \in 1..n |-> V[p[i]]]
  BY DEF Arranged
<1>3. a \in [1..n -> Int] /\ DOMAIN a = 1..n /\ \A i \in 1..n : p[i] \in D /\ a[i] = V[p[i]]
  BY <1>2
<1>4. Len(a) = n
  <2>1. a \in Seq(Int)
    BY <1>1, <1>3
  <2> QED BY <1>1, <1>3, <2>1, LenProperties
<1>5. \A i \in 1..n : a[i] \in Range(V)
  BY <1>3 DEF Range
<1>6. ASSUME NEW v \in Int PROVE Below(V, v) = Below(a, v) /\ NotAbove(V, v) = NotAbove(a, v)
  <2> DEFINE S == {r \in D : V[r] < v}
             T == {r \in D : V[r] <= v}
  <2>1. S \in SUBSET D /\ T \in SUBSET D
    OBVIOUS
  <2>2. /\ {i \in 1..n : p[i] \in S} = {i \in 1..n : a[i] < v}
        /\ {i \in 1..n : p[i] \in T} = {i \in 1..n : a[i] <= v}
    BY <1>3
  <2>3. Below(V, v) = Cardinality(S) /\ NotAbove(V, v) = Cardinality(T)
    BY DEF Below, NotAbove
  <2>4. /\ Below(a, v) = Cardinality({i \in 1..n : a[i] < v})
        /\ NotAbove(a, v) = Cardinality({i \in 1..n : a[i] <= v})
    BY <1>3 DEF Below, NotAbove
  <2> HIDE DEF S, T
  <2>5. /\ Cardinality({i \in 1..n : p[i] \in S}) = Cardinality(S)
        /\ Cardinality({i \in 1..n : p[i] \in T}) = Cardinality(T)
    BY <1>1, <1>2, <2>1, CountMapped
  <2> QED BY <2>2, <2>3, <2>4, <2>5
<1> QED BY <1>1, <1>3, <1>4, <1>5, <1>6

-------------------------------------------------------------------------------
(* A value in its place: none greater before it and none less after it.       *)

LEMMA InPlace ==
  ASSUME NEW D, IsFiniteSet(D), NEW V \in [D -> Int], NEW n, n = Cardinality(D),
         NEW a \in Arranged(V), NEW m \in 1..n,
         \A i \in 1..n : i < m => a[i] <= a[m],
         \A i \in 1..n : m < i => a[m] <= a[i]
  PROVE  Nth(V, m) = a[m]
<1> DEFINE S == {i \in 1..n : a[i] < a[m]}
           T == {i \in 1..n : a[i] <= a[m]}
<1>1. /\ n \in Nat /\ a \in [1..n -> Int] /\ DOMAIN a = 1..n
      /\ \A i \in 1..n : a[i] \in Range(V)
      /\ \A v \in Int : Below(V, v) = Below(a, v) /\ NotAbove(V, v) = NotAbove(a, v)
  BY ArrangedFacts
<1>2. a[m] \in Int /\ a[m] \in Range(V) /\ m \in Int /\ m \in Nat
  BY <1>1
<1>3. Below(V, a[m]) = Cardinality(S) /\ NotAbove(V, a[m]) = Cardinality(T)
  BY <1>1, <1>2 DEF Below, NotAbove
<1>4. S \in SUBSET (1..(m - 1))
  BY <1>1
<1>5. 1..m \in SUBSET T
  BY <1>1
<1>6. T \in SUBSET (1..n)
  OBVIOUS
<1> HIDE DEF S, T
<1>7. /\ IsFiniteSet(1..(m - 1)) /\ Cardinality(1..(m - 1)) = m - 1
      /\ IsFiniteSet(1..m) /\ Cardinality(1..m) = m
      /\ IsFiniteSet(1..n)
  <2>1. 1 \in Int /\ m - 1 \in Int /\ n \in Int /\ m >= 1
    BY <1>1, <1>2
  <2>2. IsFiniteSet(1..(m - 1)) /\ Cardinality(1..(m - 1)) = m - 1
    <3>1. PICK e \in Int : e = m - 1
      BY <2>1
    <3>2. IsFiniteSet(1..e) /\ Cardinality(1..e) = IF 1 > e THEN 0 ELSE e - 1 + 1
      BY <2>1, FS_Interval
    <3>3. Cardinality(1..e) = e
      BY <2>1, <1>2, <3>1, <3>2
    <3> QED BY <3>1, <3>2, <3>3
  <2>3. IsFiniteSet(1..m) /\ Cardinality(1..m) = m
    BY <2>1, <1>2, FS_Interval
  <2>4. IsFiniteSet(1..n)
    BY <2>1, FS_Interval
  <2> QED BY <2>2, <2>3, <2>4
<1>8. Cardinality(S) <= m - 1 /\ Cardinality(S) \in Nat
  <2>1. IsFiniteSet(S) /\ Cardinality(S) <= Cardinality(1..(m - 1))
    BY <1>4, <1>7, FS_Subset
  <2> QED BY <2>1, <1>7, FS_CardinalityType
<1>9. Cardinality(T) >= m /\ Cardinality(T) \in Nat
  <2>1. IsFiniteSet(T)
    BY <1>6, <1>7, FS_Subset
  <2>2. Cardinality(1..m) <= Cardinality(T)
    BY <1>5, <2>1, FS_Subset
  <2>3. Cardinality(T) \in Nat
    BY <2>1, FS_CardinalityType
  <2> QED BY <1>2, <1>7, <2>2, <2>3
<1>10. Below(V, a[m]) < m /\ NotAbove(V, a[m]) >= m
  BY <1>2, <1>3, <1>8, <1>9
<1> QED BY <1>2, <1>10, NthIs

\* The greatest and the least of some values.
LEMMA GreatestIs ==
  ASSUME NEW S \in SUBSET Int, NEW w \in S, \A v \in S : v <= w
  PROVE  Max(S) = w
<1>1. \A v \in S : w >= v
  OBVIOUS
<1>2. \A u \in S : (\A v \in S : u >= v) => u = w
  OBVIOUS
<1> QED BY <1>1, <1>2 DEF Max

LEMMA LeastIs ==
  ASSUME NEW S \in SUBSET Int, NEW w \in S, \A v \in S : w <= v
  PROVE  Min(S) = w
<1>1. \A u \in S : (\A v \in S : u <= v) => u = w
  OBVIOUS
<1> QED BY <1>1 DEF Min

\* Among a few values there is a greatest.
LEMMA GreatestExists ==
  ASSUME NEW n \in Nat, NEW a, \A i \in 1..n : a[i] \in Int, n > 0
  PROVE  \E w \in 1..n : \A i \in 1..n : a[i] <= a[w]
<1> DEFINE Q == {j \in Nat : j > 0 /\ j <= n => \E w \in 1..j : \A i \in 1..j : a[i] <= a[w]}
<1>1. 0 \in Q
  OBVIOUS
<1>2. ASSUME NEW j \in Nat, j \in Q
      PROVE  j + 1 \in Q
  <2> SUFFICES ASSUME j + 1 <= n
               PROVE  \E w \in 1..(j + 1) : \A i \in 1..(j + 1) : a[i] <= a[w]
    OBVIOUS
  <2>1. CASE j = 0
    <3>1. \A i \in 1..(j + 1) : i = 1
      BY <2>1
    <3>2. 1 \in 1..(j + 1) /\ a[1] \in Int
      BY <2>1
    <3> QED BY <3>1, <3>2
  <2>2. CASE j > 0
    <3>1. PICK w \in 1..j : \A i \in 1..j : a[i] <= a[w]
      BY <1>2, <2>2
    <3>2. a[w] \in Int /\ a[j + 1] \in Int /\ w \in 1..(j + 1) /\ j + 1 \in 1..(j + 1)
      BY <3>1
    <3>3. \A i \in 1..(j + 1) : i \in 1..j \/ i = j + 1
      OBVIOUS
    <3>4. \A i \in 1..j : a[i] \in Int
      OBVIOUS
    <3>5. CASE a[w] <= a[j + 1]
      <4>1. \A i \in 1..(j + 1) : a[i] <= a[j + 1]
        BY <3>1, <3>2, <3>3, <3>4, <3>5
      <4> QED BY <3>2, <4>1
    <3>6. CASE a[j + 1] <= a[w]
      <4>1. \A i \in 1..(j + 1) : a[i] <= a[w]
        BY <3>1, <3>3, <3>6
      <4> QED BY <3>2, <4>1
    <3> QED BY <3>2, <3>5, <3>6
  <2> QED BY <2>1, <2>2
<1> HIDE DEF Q
<1>3. \A j \in Nat : j \in Q
  BY <1>1, <1>2, Induction
<1> QED BY <1>3 DEF Q

\* The greatest of the lower half is the value before the middle.
LEMMA BeforeMiddle ==
  ASSUME NEW D, IsFiniteSet(D), NEW V \in [D -> Int], NEW n, n = Cardinality(D),
         NEW a \in Arranged(V), NEW m \in 1..n, m < n,
         \A i \in 1..m : \A j \in (m + 1)..n : a[i] <= a[j]
  PROVE  Max({a[i] : i \in 1..m}) = Nth(V, m)
<1>1. /\ n \in Nat /\ a \in [1..n -> Int] /\ DOMAIN a = 1..n
      /\ \A i \in 1..n : a[i] \in Range(V)
      /\ \A v \in Int : Below(V, v) = Below(a, v) /\ NotAbove(V, v) = NotAbove(a, v)
  BY ArrangedFacts
<1>2. m \in Nat /\ m > 0 /\ \A i \in 1..m : a[i] \in Int /\ i \in 1..n
  BY <1>1
<1>3. PICK w \in 1..m : \A i \in 1..m : a[i] <= a[w]
  BY <1>2, GreatestExists
<1>4. a[w] \in Int /\ a[w] \in Range(V) /\ w \in 1..n
  BY <1>1, <1>2, <1>3
<1>5. Max({a[i] : i \in 1..m}) = a[w]
  <2> DEFINE S == {a[i] : i \in 1..m}
  <2>1. S \in SUBSET Int /\ a[w] \in S /\ \A v \in S : v <= a[w]
    BY <1>2, <1>3
  <2> HIDE DEF S
  <2>2. Max(S) = a[w]
    BY <2>1, GreatestIs
  <2> QED BY <2>2 DEF S
<1> DEFINE S == {i \in 1..n : a[i] < a[w]}
           T == {i \in 1..n : a[i] <= a[w]}
<1>6. Below(V, a[w]) = Cardinality(S) /\ NotAbove(V, a[w]) = Cardinality(T)
  BY <1>1, <1>4 DEF Below, NotAbove
<1>7. S \in SUBSET ((1..m) \ {w})
  <2> SUFFICES ASSUME NEW i \in 1..n, a[i] < a[w] PROVE i \in 1..m /\ i # w
    OBVIOUS
  <2>1. a[i] \in Int
    BY <1>1
  <2>2. CASE i \in 1..m
    BY <1>4, <2>1, <2>2
  <2>3. CASE i \in (m + 1)..n
    BY <1>3, <1>4, <2>1, <2>3
  <2> QED BY <1>1, <1>2, <2>2, <2>3
<1>8. 1..m \in SUBSET T
  BY <1>2, <1>3
<1>9. T \in SUBSET (1..n)
  OBVIOUS
<1> HIDE DEF S, T
<1>10. IsFiniteSet(1..m) /\ Cardinality(1..m) = m /\ IsFiniteSet(1..n)
  <2>1. 1 \in Int /\ m \in Int /\ n \in Int /\ m >= 1
    BY <1>1, <1>2
  <2>2. IsFiniteSet(1..m) /\ Cardinality(1..m) = m
    BY <2>1, <1>2, FS_Interval
  <2>3. IsFiniteSet(1..n)
    BY <2>1, FS_Interval
  <2> QED BY <2>2, <2>3
<1>11. IsFiniteSet((1..m) \ {w}) /\ Cardinality((1..m) \ {w}) = m - 1
  BY <1>3, <1>10, FS_RemoveElement
<1>12. Cardinality(S) <= m - 1 /\ Cardinality(S) \in Nat
  <2>1. IsFiniteSet(S) /\ Cardinality(S) <= Cardinality((1..m) \ {w})
    BY <1>7, <1>11, FS_Subset
  <2> QED BY <2>1, <1>11, FS_CardinalityType
<1>13. Cardinality(T) >= m /\ Cardinality(T) \in Nat
  <2>1. IsFiniteSet(T)
    BY <1>9, <1>10, FS_Subset
  <2>2. Cardinality(1..m) <= Cardinality(T)
    BY <1>8, <2>1, FS_Subset
  <2>3. Cardinality(T) \in Nat
    BY <2>1, FS_CardinalityType
  <2> QED BY <1>2, <1>10, <2>2, <2>3
<1>14. Below(V, a[w]) < m /\ NotAbove(V, a[w]) >= m
  BY <1>2, <1>6, <1>12, <1>13
<1>15. Nth(V, m) = a[w]
  BY <1>2, <1>4, <1>14, NthIs
<1> QED BY <1>5, <1>15

\* The least value is the first and the greatest the last.
LEMMA EndsAre ==
  ASSUME NEW D, IsFiniteSet(D), NEW V \in [D -> Int], NEW n, n = Cardinality(D), D # {}
  PROVE  Min(Range(V)) = Nth(V, 1) /\ Max(Range(V)) = Nth(V, n) /\ n \in Nat /\ n > 0
<1>1. n \in Nat /\ n > 0
  BY FS_CardinalityType, FS_EmptySet
<1>2. PICK p \in Bijection(1..n, D) : TRUE
  <2>1. ExistsBijection(1..n, D)
    BY FS_CardinalityType
  <2> QED BY <2>1 DEF ExistsBijection
<1>3. p \in [1..n -> D] /\ \A r \in D : \E i \in 1..n : p[i] = r
  BY <1>2 DEF Bijection, Surjection
<1>4. \A r \in D : V[r] \in Int /\ V[r] \in Range(V)
  BY DEF Range
<1>5. Range(V) \in SUBSET Int /\ \A v \in Range(V) : \E r \in D : V[r] = v
  BY DEF Range
<1>6. PICK g \in D : \A r \in D : V[r] <= V[g]
  <2> DEFINE a == [i \in 1..n |-> V[p[i]]]
  <2>1. \A i \in 1..n : a[i] = V[p[i]] /\ a[i] \in Int /\ p[i] \in D
    BY <1>3, <1>4
  <2> HIDE DEF a
  <2>2. PICK w \in 1..n : \A i \in 1..n : a[i] <= a[w]
    BY <1>1, <2>1, GreatestExists
  <2>3. \A r \in D : V[r] <= V[p[w]]
    BY <1>3, <2>1, <2>2
  <2> QED BY <2>1, <2>2, <2>3
<1>7. PICK l \in D : \A r \in D : V[l] <= V[r]
  <2> DEFINE a == [i \in 1..n |-> 0 - V[p[i]]]
  <2>1. \A i \in 1..n : a[i] = 0 - V[p[i]] /\ a[i] \in Int /\ p[i] \in D
    BY <1>3, <1>4
  <2> HIDE DEF a
  <2>2. PICK w \in 1..n : \A i \in 1..n : a[i] <= a[w]
    BY <1>1, <2>1, GreatestExists
  <2>3. \A i \in 1..n : V[p[w]] <= V[p[i]]
    BY <1>4, <2>1, <2>2
  <2>4. \A r \in D : V[p[w]] <= V[r]
    BY <1>3, <2>3
  <2> QED BY <2>1, <2>2, <2>4
<1>8. Max(Range(V)) = V[g]
  BY <1>4, <1>5, <1>6, GreatestIs
<1>9. Min(Range(V)) = V[l]
  BY <1>4, <1>5, <1>7, LeastIs
<1>10. Nth(V, n) = V[g]
  <2> DEFINE S == {r \in D : V[r] < V[g]}
             T == {r \in D : V[r] <= V[g]}
  <2>1. Below(V, V[g]) = Cardinality(S) /\ NotAbove(V, V[g]) = Cardinality(T)
    BY DEF Below, NotAbove
  <2>2. T = D /\ S \in SUBSET (D \ {g})
    BY <1>4, <1>6
  <2> HIDE DEF S, T
  <2>3. IsFiniteSet(D \ {g}) /\ Cardinality(D \ {g}) = n - 1
    BY <1>6, FS_RemoveElement
  <2>4. Cardinality(S) <= Cardinality(D \ {g}) /\ IsFiniteSet(S)
    BY <2>2, <2>3, FS_Subset
  <2>5. Cardinality(S) \in Nat
    BY <2>4, FS_CardinalityType
  <2>6. Below(V, V[g]) < n /\ NotAbove(V, V[g]) >= n
    BY <1>1, <2>1, <2>2, <2>3, <2>4, <2>5
  <2> QED BY <1>1, <1>4, <1>6, <2>6, NthIs
<1>11. Nth(V, 1) = V[l]
  <2> DEFINE S == {r \in D : V[r] < V[l]}
             T == {r \in D : V[r] <= V[l]}
  <2>1. Below(V, V[l]) = Cardinality(S) /\ NotAbove(V, V[l]) = Cardinality(T)
    BY DEF Below, NotAbove
  <2>2. S = {} /\ T \in SUBSET D /\ l \in T
    BY <1>4, <1>7
  <2> HIDE DEF S, T
  <2>3. IsFiniteSet(T) /\ Cardinality(T) # 0 /\ Cardinality(T) \in Nat
    BY <2>2, FS_Subset, FS_EmptySet, FS_CardinalityType
  <2>4. Cardinality(S) = 0
    BY <2>2, FS_EmptySet
  <2>5. Below(V, V[l]) < 1 /\ NotAbove(V, V[l]) >= 1
    BY <2>1, <2>3, <2>4
  <2> QED BY <1>4, <1>7, <2>5, NthIs
<1> QED BY <1>1, <1>8, <1>9, <1>10, <1>11

-------------------------------------------------------------------------------
(* The median.                                                                *)

LEMMA Halves ==
  ASSUME NEW n \in Nat
  PROVE  /\ n \div 2 \in Nat /\ (n + 1) \div 2 \in Nat /\ n \div 2 <= n
         /\ n % 2 = 1 => (n + 1) \div 2 = n \div 2 + 1
         /\ n % 2 # 1 => (n + 1) \div 2 = n \div 2
         /\ n > 0 => n \div 2 + 1 \in 1..n
         /\ n > 0 /\ n % 2 # 1 => n \div 2 \in 1..n /\ n \div 2 < n
BY Z3

LEMMA MedianIs ==
  ASSUME NEW k, NEW D, IsFiniteSet(D), Values(k) \in [D -> Int], NEW n, n = Cardinality(D), D # {},
         NEW median \in Median(k)
  PROVE  median = Nth(Values(k), (n + 1) \div 2) + Nth(Values(k), n \div 2 + 1)
<1>v. PICK V \in [D -> Int] : V = Values(k)
  OBVIOUS
<1>n. n \in Nat /\ n > 0
  BY FS_CardinalityType, FS_EmptySet
<1>h. PICK half : half = n \div 2
  OBVIOUS
<1>1. /\ half \in Nat /\ half + 1 \in 1..n
      /\ n % 2 = 1 => (n + 1) \div 2 = half + 1
      /\ n % 2 # 1 => (n + 1) \div 2 = half /\ half \in 1..n /\ half < n
  BY <1>h, <1>n, Halves
<1>s. PICK sorted : sorted = (NullNumber(k) > 0)
  OBVIOUS
<1>2. PICK a \in IF sorted THEN Ascending(V) ELSE NthElement(V) :
        median = LET h == Len(a) \div 2 IN
                 IF Len(a) % 2 = 1 THEN 2 * a[h + 1]
                 ELSE a[h + 1] + (IF sorted THEN a[h] ELSE Max({a[i] : i \in 1..h}))
  BY <1>s, <1>v DEF Median
<1>3. a \in Arranged(V)
  BY <1>2 DEF Ascending, NthElement
<1>4. n \in Nat /\ a \in [1..n -> Int] /\ Len(a) = n /\ DOMAIN a = 1..n
  BY <1>3, ArrangedFacts
<1>d. DOMAIN V = D
  OBVIOUS
<1>5. /\ sorted => \A j \in 1..n : \A i \in 1..j : a[i] <= a[j]
      /\ ~sorted => /\ \A i \in 1..half : a[i] <= a[half + 1]
                    /\ \A j \in (half + 2)..n : a[half + 1] <= a[j]
  <2>1. CASE sorted
    BY <1>2, <1>4, <2>1 DEF Ascending
  <2>2. CASE ~sorted
    <3>1. a \in NthElement(V) /\ Cardinality(DOMAIN V) \div 2 + 1 = half + 1 /\ half \in Int
      BY <1>1, <1>2, <1>d, <1>h, <2>2
    <3>2. /\ \A i \in 1..((half + 1) - 1) : a[i] <= a[half + 1]
          /\ \A j \in ((half + 1) + 1)..Len(a) : a[half + 1] <= a[j]
      BY <3>1 DEF NthElement
    <3>3. (half + 1) - 1 = half /\ (half + 1) + 1 = half + 2
      BY <3>1
    <3> QED BY <1>4, <2>2, <3>2, <3>3
  <2> QED BY <2>1, <2>2
<1>6. \A i, j \in 1..n : i <= half + 1 /\ half + 1 <= j => a[i] <= a[j]
  <2> SUFFICES ASSUME NEW i \in 1..n, NEW j \in 1..n, i <= half + 1, half + 1 <= j
               PROVE  a[i] <= a[j]
    OBVIOUS
  <2>1. CASE sorted
    BY <1>1, <1>5, <2>1
  <2>2. CASE ~sorted
    <3>0. a[i] \in Int /\ a[j] \in Int /\ a[half + 1] \in Int
      BY <1>1, <1>4
    <3>1. a[i] <= a[half + 1]
      <4>1. i \in 1..half \/ i = half + 1
        BY <1>1
      <4> QED BY <1>5, <2>2, <3>0, <4>1
    <3>2. a[half + 1] <= a[j]
      <4>1. j \in (half + 2)..n \/ j = half + 1
        BY <1>1
      <4> QED BY <1>5, <2>2, <3>0, <4>1
    <3> QED BY <3>0, <3>1, <3>2
  <2> QED BY <2>1, <2>2
<1>e. half \in 1..n /\ half < n =>
        /\ \A i \in 1..half : i \in 1..n /\ i <= half + 1
        /\ \A j \in (half + 1)..n : j \in 1..n /\ half + 1 <= j
  BY <1>n
<1>7. Nth(V, half + 1) = a[half + 1]
  <2>1. /\ \A i \in 1..n : i < half + 1 => a[i] <= a[half + 1]
        /\ \A i \in 1..n : half + 1 < i => a[half + 1] <= a[i]
    BY <1>1, <1>6
  <2> QED BY <1>1, <1>3, <2>1, InPlace
<1>8. ASSUME n % 2 # 1
      PROVE  (IF sorted THEN a[half] ELSE Max({a[i] : i \in 1..half})) = Nth(V, half)
  <2>1. half \in 1..n /\ half < n
    BY <1>1, <1>8
  <2>2. CASE sorted
    <3>1. /\ \A i \in 1..n : i < half => a[i] <= a[half]
          /\ \A i \in 1..n : half < i => a[half] <= a[i]
      BY <1>5, <2>1, <2>2
    <3> QED BY <1>3, <2>1, <2>2, <3>1, InPlace
  <2>3. CASE ~sorted
    <3>1. \A i \in 1..half : \A j \in (half + 1)..n : a[i] <= a[j]
      BY <1>6, <1>e, <2>1
    <3> QED BY <1>3, <2>1, <2>3, <3>1, BeforeMiddle
  <2> QED BY <2>2, <2>3
<1>9. median = IF n % 2 = 1 THEN 2 * a[half + 1]
               ELSE a[half + 1] + (IF sorted THEN a[half] ELSE Max({a[i] : i \in 1..half}))
  BY <1>2, <1>4, <1>h
<1>10. a[half + 1] \in Int
  BY <1>1, <1>4
<1>11. CASE n % 2 = 1
  <2>1. median = 2 * a[half + 1]
    BY <1>9, <1>11
  <2>2. median = Nth(V, half + 1) + Nth(V, half + 1)
    BY <1>7, <1>10, <2>1
  <2> QED BY <1>1, <1>11, <1>h, <1>v, <2>2
<1>12. CASE n % 2 # 1
  <2>1. median = Nth(V, half + 1) + Nth(V, half)
    BY <1>7, <1>8, <1>9, <1>12
  <2>2. Nth(V, half) \in Int
    <3>1. half \in 1..n /\ half < n
      BY <1>1, <1>12
    <3>2. CASE sorted
      BY <1>4, <1>8, <1>12, <3>1, <3>2
    <3>3. CASE ~sorted
      <4>1. \A i \in 1..half : \A j \in (half + 1)..n : a[i] <= a[j]
        BY <1>6, <1>e, <3>1
      <4>2. half \in Nat /\ half > 0 /\ \A i \in 1..half : a[i] \in Int
        <5>1. \A i \in 1..half : a[i] \in Int
          BY <1>4, <1>e, <3>1
        <5> QED BY <1>1, <3>1, <5>1
      <4>3. PICK w \in 1..half : \A i \in 1..half : a[i] <= a[w]
        BY <4>2, GreatestExists
      <4> DEFINE S == {a[i] : i \in 1..half}
      <4>4. S \in SUBSET Int /\ a[w] \in S /\ \A v \in S : v <= a[w]
        BY <4>2, <4>3
      <4> HIDE DEF S
      <4>5. Max(S) = a[w]
        BY <4>4, GreatestIs
      <4>6. Nth(V, half) = Max(S)
        BY <1>8, <1>12, <3>3 DEF S
      <4> QED BY <4>2, <4>5, <4>6
    <3> QED BY <3>2, <3>3
  <2> QED BY <1>1, <1>7, <1>10, <1>12, <1>h, <1>v, <2>1, <2>2
<1> QED BY <1>11, <1>12

-------------------------------------------------------------------------------
(* The list of frequent values.                                               *)

Separator == Item("separator", 0, 0)
\* With as many None as are said, one or none.
AsList(items, none, num) == [items |-> items, none_printed |-> none = 1, num_printed |-> num]

\* The first p items of S with a separator between each two, or after each.
Tight(items, S, p) ==
  /\ IsSeq(items) /\ Len(items) = IF p = 0 THEN 0 ELSE 2 * p - 1
  /\ \A i \in 1..p : items[2 * i - 1] = S[i]
  /\ \A i \in 1..(p - 1) : items[2 * i] = Separator
Spaced(items, S, p) ==
  /\ IsSeq(items) /\ Len(items) = 2 * p
  /\ \A i \in 1..p : items[2 * i - 1] = S[i] /\ items[2 * i] = Separator

LEMMA SpaceFacts ==
  ASSUME NEW items, NEW S, NEW p \in Nat, Tight(items, S, p), NEW none, NEW num
  PROVE  \E e : Spaced(e, S, p) /\ Space(AsList(items, none, num)) = AsList(e, none, num)
<1>1. /\ IsSeq(items) /\ Len(items) = IF p = 0 THEN 0 ELSE 2 * p - 1
      /\ \A i \in 1..p : items[2 * i - 1] = S[i]
      /\ \A i \in 1..(p - 1) : items[2 * i] = Separator
  BY DEF Tight
<1>2. AsList(items, none, num).items = items
  BY DEF AsList
<1>3. CASE p = 0
  <2>1. items = <<>>
    <3>1. IsSeq(<<>>) /\ Len(<<>>) = 0 /\ Len(items) = 0
      BY <1>1, <1>3, IsSeqEmpty
    <3>2. \A i \in 1..Len(items) : items[i] = <<>>[i]
      BY <3>1
    <3> QED BY <1>1, <3>1, <3>2, IsSeqSame
  <2>2. Space(AsList(items, none, num)) = AsList(items, none, num)
    BY <1>2, <2>1 DEF Space
  <2>3. Spaced(items, S, p)
    BY <1>1, <1>3 DEF Spaced
  <2> QED BY <2>2, <2>3
<1>4. CASE p # 0
  <2>e. PICK e : e = Append(items, Separator)
    OBVIOUS
  <2>1. Len(items) = 2 * p - 1
    BY <1>1, <1>4
  <2>2. items # <<>>
    BY <1>4, <2>1, IsSeqEmpty
  <2>3. Space(AsList(items, none, num)) = AsList(e, none, num)
    <3>1. Space(AsList(items, none, num)) =
            [AsList(items, none, num) EXCEPT !.items = Append(items, Item("separator", 0, 0))]
      BY <1>2, <2>2 DEF Space
    <3>2. Space(AsList(items, none, num)) = [AsList(items, none, num) EXCEPT !.items = e]
      BY <2>e, <3>1 DEF Separator
    <3> QED BY <3>2 DEF AsList
  <2>s. OneAppended(e, items, Separator)
    <3>1. IsSeq(items)
      BY <1>1
    <3>2. OneAppended(Append(items, Separator), items, Separator)
      BY ONLY <3>1, OneAppendedFacts
    <3> QED BY ONLY <2>e, <3>2
  <2>4. IsSeq(e) /\ Len(e) = Len(items) + 1 /\ e[Len(items) + 1] = Separator
    BY ONLY <2>s DEF OneAppended
  <2>5. \A i \in 1..Len(items) : e[i] = items[i]
    BY ONLY <2>s DEF OneAppended
  <2>6. Len(e) = 2 * p /\ e[2 * p] = Separator
    BY <2>1, <2>4
  <2>7. \A i \in 1..p : e[2 * i - 1] = S[i]
    <3> TAKE i \in 1..p
    <3>1. 2 * i - 1 \in 1..Len(items)
      BY <2>1
    <3> QED BY <1>1, <2>5, <3>1
  <2>8. \A i \in 1..p : e[2 * i] = Separator
    <3> TAKE i \in 1..p
    <3>1. CASE i = p
      BY <2>6, <3>1
    <3>2. CASE i # p
      <4>1. i \in 1..(p - 1) /\ 2 * i \in 1..Len(items)
        BY <2>1, <3>2
      <4> QED BY <1>1, <2>5, <4>1
    <3> QED BY <3>1, <3>2
  <2>9. Spaced(e, S, p)
    BY <2>4, <2>6, <2>7, <2>8 DEF Spaced
  <2> QED BY <2>3, <2>9
<1> QED BY <1>3, <1>4

LEMMA PutFacts ==
  ASSUME NEW e, NEW S, NEW p \in Nat, Spaced(e, S, p), NEW x, x = S[p + 1]
  PROVE  Tight(Append(e, x), S, p + 1)
<1>1. /\ IsSeq(e) /\ Len(e) = 2 * p
      /\ \A i \in 1..p : e[2 * i - 1] = S[i] /\ e[2 * i] = Separator
  BY DEF Spaced
<1>t. PICK t : t = Append(e, x)
  OBVIOUS
<1>a. IsSeq(e)
  BY <1>1
<1>b. OneAppended(Append(e, x), e, x)
  BY ONLY <1>a, OneAppendedFacts
<1>c. OneAppended(t, e, x)
  BY ONLY <1>t, <1>b
<1>2. IsSeq(t) /\ Len(t) = Len(e) + 1 /\ t[Len(e) + 1] = x
  BY ONLY <1>c DEF OneAppended
<1>3. \A i \in 1..Len(e) : t[i] = e[i]
  BY ONLY <1>c DEF OneAppended
<1>4. Len(t) = 2 * (p + 1) - 1 /\ t[2 * (p + 1) - 1] = x /\ p + 1 # 0
  BY <1>1, <1>2
<1>5. \A i \in 1..(p + 1) : t[2 * i - 1] = S[i]
  <2> TAKE i \in 1..(p + 1)
  <2>1. CASE i = p + 1
    BY <1>4, <2>1
  <2>2. CASE i # p + 1
    <3>1. i \in 1..p /\ 2 * i - 1 \in 1..Len(e)
      BY <1>1, <2>2
    <3> QED BY <1>1, <1>3, <3>1
  <2> QED BY <2>1, <2>2
<1>6. \A i \in 1..((p + 1) - 1) : t[2 * i] = Separator
  <2> TAKE i \in 1..((p + 1) - 1)
  <2>1. i \in 1..p /\ 2 * i \in 1..Len(e)
    BY <1>1
  <2> QED BY <1>1, <1>3, <2>1
<1>7. Tight(t, S, p + 1)
  BY <1>2, <1>4, <1>5, <1>6 DEF Tight
<1> QED BY <1>7, <1>t

\* The places of the values of at least as many occurrences as there are nulls.
LEMMA ManyAre ==
  ASSUME NEW n \in Nat, NEW t, NEW N \in Nat, \A i \in 1..n : t[i] \in Nat,
         \A i \in 1..n : \A j \in 1..n : i < j => t[j] <= t[i]
  PROVE  \E m \in 0..n : \A i \in 1..n : t[i] >= N <=> i <= m
<1> DEFINE R == {i \in 1..n : t[i] < N}
<1>1. CASE R = {}
  <2>1. \A i \in 1..n : t[i] >= N
    BY <1>1
  <2> QED BY <2>1
<1>2. CASE R # {}
  <2>1. R \in SUBSET Nat
    OBVIOUS
  <2>2. \A i : i \in R <=> i \in 1..n /\ t[i] < N
    OBVIOUS
  <2> HIDE DEF R
  <2>3. PICK l \in R : \A i \in R : l <= i
    BY <1>2, <2>1, Least
  <2>4. l \in 1..n /\ t[l] < N /\ t[l] \in Nat
    BY <2>2, <2>3
  <2>5. \A i \in 1..n : t[i] >= N <=> i <= l - 1
    <3> TAKE i \in 1..n
    <3>1. CASE i < l
      <4>1. i \notin R /\ t[i] \in Nat
        BY <2>3, <2>4, <3>1
      <4> QED BY <2>2, <2>4, <3>1, <4>1
    <3>2. CASE i >= l
      <4>1. t[i] <= t[l] /\ t[i] \in Nat
        BY <2>4, <3>2
      <4> QED BY <2>4, <3>2, <4>1
    <3> QED BY <2>4, <3>1, <3>2
  <2>6. l - 1 \in 0..n
    BY <2>4
  <2> QED BY <2>5, <2>6
<1> QED BY <1>1, <1>2

\* The items in their order: the values of at least as many occurrences, None, the others.
ValueAt(k, q, i) == Item("value", q[i], Times(k, q[i]))
None(k) == Item("none", 0, NullNumber(k))
Order(k, q, n, m) ==
  [i \in 1..(n + 1) |-> IF i <= m THEN ValueAt(k, q, i)
                        ELSE IF i = m + 1 THEN None(k) ELSE ValueAt(k, q, i - 1)]

\* The list after j values: None is in it once a value has come that is less frequent, and
\* takes the place of the last value if there is no more room.
ListAt(list, S, m, j) ==
  \E items :
    IF j <= m THEN list = AsList(items, 0, j) /\ Tight(items, S, j)
    ELSE IF j < cmd.freq_count THEN list = AsList(items, 1, j + 1) /\ Tight(items, S, j + 1)
    ELSE list = AsList(items, 1, j) /\ Spaced(items, S, j)

LEMMA NoneTold ==
  ASSUME NEW items, NEW num
  PROVE  AsList(items, 1, num).none_printed /\ ~AsList(items, 0, num).none_printed
<1>1. AsList(items, 1, num).none_printed
  BY DEF AsList
<1>2. 0 # 1
  OBVIOUS
<1>3. ~AsList(items, 0, num).none_printed
  <2>1. AsList(items, 0, num).none_printed = (0 = 1)
    BY DEF AsList
  <2> QED BY <1>2, <2>1
<1> QED BY <1>1, <1>3

LEMMA PutValueIs ==
  ASSUME NEW k, NEW q, NEW i, NEW items, NEW none, NEW num
  PROVE  PutValue(AsList(items, none, num), q[i], Times(k, q[i]))
           = AsList(Append(items, ValueAt(k, q, i)), none, num + 1)
<1>x. PICK x : x = Item("value", q[i], Times(k, q[i]))
  OBVIOUS
<1>l. PICK list : list = AsList(items, none, num)
  OBVIOUS
<1>1. PutValue(list, q[i], Times(k, q[i])) =
        [list EXCEPT !.items = Append(@, x), !.num_printed = @ + 1]
  BY <1>x DEF PutValue
<1>2. list = [items |-> items, none_printed |-> none = 1, num_printed |-> num]
  BY <1>l DEF AsList
<1>y. PICK y : y = Append(items, x)
  OBVIOUS
<1>z. PICK z : z = num + 1
  OBVIOUS
<1>i. list.items = items /\ list.num_printed = num
  BY <1>2
<1>e. [list EXCEPT !.items = Append(@, x), !.num_printed = @ + 1]
        = [list EXCEPT !.items = y, !.num_printed = z]
  BY <1>i, <1>y, <1>z
<1>b. PICK b : b = (none = 1)
  OBVIOUS
<1>3. [list EXCEPT !.items = y, !.num_printed = z]
        = [items |-> y, none_printed |-> b, num_printed |-> z]
  <2>1. list = [items |-> items, none_printed |-> b, num_printed |-> num]
    BY <1>2, <1>b
  <2>2. PICK l : l = [list EXCEPT !.items = y]
    OBVIOUS
  <2>3. l = [items |-> y, none_printed |-> b, num_printed |-> num]
    BY <2>1, <2>2
  <2>4. [l EXCEPT !.num_printed = z] = [items |-> y, none_printed |-> b, num_printed |-> z]
    BY <2>3
  <2>5. [list EXCEPT !.items = y, !.num_printed = z] = [l EXCEPT !.num_printed = z]
    BY <2>2
  <2> QED BY <2>4, <2>5
<1>4. ValueAt(k, q, i) = x
  BY <1>x DEF ValueAt
<1> QED BY <1>1, <1>3, <1>4, <1>b, <1>e, <1>l, <1>y, <1>z DEF AsList

LEMMA PutNoneIs ==
  ASSUME NEW k, NEW items, NEW none, NEW num
  PROVE  PutNone(AsList(items, none, num), NullNumber(k))
           = AsList(Append(items, None(k)), 1, num + 1)
<1>x. PICK x : x = Item("none", 0, NullNumber(k))
  OBVIOUS
<1>l. PICK list : list = AsList(items, none, num)
  OBVIOUS
<1>1. PutNone(list, NullNumber(k)) =
        [list EXCEPT !.items = Append(@, x), !.none_printed = TRUE, !.num_printed = @ + 1]
  BY <1>x DEF PutNone
<1>2. list = [items |-> items, none_printed |-> none = 1, num_printed |-> num]
  BY <1>l DEF AsList
<1>y. PICK y : y = Append(items, x)
  OBVIOUS
<1>z. PICK z : z = num + 1
  OBVIOUS
<1>i. list.items = items /\ list.num_printed = num
  BY <1>2
<1>e. [list EXCEPT !.items = Append(@, x), !.none_printed = TRUE, !.num_printed = @ + 1]
        = [list EXCEPT !.items = y, !.none_printed = TRUE, !.num_printed = z]
  BY <1>i, <1>y, <1>z
<1>3. [list EXCEPT !.items = y, !.none_printed = TRUE, !.num_printed = z]
        = [items |-> y, none_printed |-> TRUE, num_printed |-> z]
  <2>b. PICK b : b = (none = 1)
    OBVIOUS
  <2>1. list = [items |-> items, none_printed |-> b, num_printed |-> num]
    BY <1>2, <2>b
  <2>2. PICK l : l = [list EXCEPT !.items = y]
    OBVIOUS
  <2>3. l = [items |-> y, none_printed |-> b, num_printed |-> num]
    BY <2>1, <2>2
  <2>u. PICK u : u = TRUE
    OBVIOUS
  <2>4. PICK n : n = [l EXCEPT !.none_printed = u]
    OBVIOUS
  <2>5. n = [items |-> y, none_printed |-> u, num_printed |-> num]
    BY <2>3, <2>4
  <2>6. [n EXCEPT !.num_printed = z] = [items |-> y, none_printed |-> u, num_printed |-> z]
    BY <2>5
  <2>7. [list EXCEPT !.items = y, !.none_printed = TRUE, !.num_printed = z] = [n EXCEPT !.num_printed = z]
    BY <2>2, <2>4, <2>u
  <2> QED BY <2>6, <2>7, <2>u
<1>4. None(k) = x
  BY <1>x DEF None
<1> QED BY <1>1, <1>3, <1>4, <1>e, <1>l, <1>y, <1>z DEF AsList

\* One value more.
LEMMA ListGrows ==
  ASSUME NEW k, NEW q, NEW n \in Nat, n <= cmd.freq_count, cmd.freq_count \in Nat,
         NEW m \in 0..n, NEW j \in 0..n, j < n,
         Times(k, q[j + 1]) >= NullNumber(k) <=> j + 1 <= m,
         NEW S, S = Order(k, q, n, m), NEW list, ListAt(list, S, m, j)
  PROVE  ListAt(PutNext(list, q[j + 1], Times(k, q[j + 1]), NullNumber(k)), S, m, j + 1)
<1>f. PICK F \in Nat : F = cmd.freq_count
  OBVIOUS
<1>t. PICK t : t = Times(k, q[j + 1])
  OBVIOUS
<1>v. PICK v : v = q[j + 1]
  OBVIOUS
<1>N. PICK N : N = NullNumber(k)
  OBVIOUS
<1>g. PICK next : next = PutNext(list, v, t, N)
  OBVIOUS
<1>1. /\ j \in Nat /\ m \in Nat /\ j + 1 <= n /\ j < F /\ n <= F
  BY <1>f
<1>p. PICK p \in Nat : p = IF j <= m THEN j ELSE j + 1
  BY <1>1
<1>2. PICK items : /\ Tight(items, S, p)
                   /\ j <= m => list = AsList(items, 0, p)
                   /\ j > m => list = AsList(items, 1, p)
  <2>1. CASE j <= m
    BY <1>1, <1>p, <2>1 DEF ListAt
  <2>2. CASE j > m
    BY <1>1, <1>f, <1>p, <2>2 DEF ListAt
  <2> QED BY <1>1, <2>1, <2>2
<1>3. \E e : /\ Spaced(e, S, p)
             /\ j <= m => Space(list) = AsList(e, 0, p)
             /\ j > m => Space(list) = AsList(e, 1, p)
  <2>1. CASE j <= m
    <3>1. PICK e : Spaced(e, S, p) /\ Space(AsList(items, 0, p)) = AsList(e, 0, p)
      BY <1>2, SpaceFacts
    <3> QED BY <1>1, <1>2, <2>1, <3>1
  <2>2. CASE j > m
    <3>1. PICK e : Spaced(e, S, p) /\ Space(AsList(items, 1, p)) = AsList(e, 1, p)
      BY <1>2, SpaceFacts
    <3> QED BY <1>1, <1>2, <2>2, <3>1
  <2> QED BY <1>1, <2>1, <2>2
<1>e. PICK e : /\ Spaced(e, S, p)
               /\ j <= m => Space(list) = AsList(e, 0, p)
               /\ j > m => Space(list) = AsList(e, 1, p)
  BY <1>3
<1>4. S[m + 1] = None(k) /\ (j + 1 <= m => S[j + 1] = ValueAt(k, q, j + 1))
  BY <1>1 DEF Order
<1>5. j + 1 > m => S[j + 2] = ValueAt(k, q, j + 1)
  <2> SUFFICES ASSUME j + 1 > m PROVE S[j + 2] = ValueAt(k, q, j + 1)
    OBVIOUS
  <2>1. j + 2 \in 1..(n + 1) /\ ~(j + 2 <= m) /\ j + 2 # m + 1 /\ (j + 2) - 1 = j + 1
    BY <1>1
  <2> QED BY <2>1 DEF Order
<1>6. CASE j + 1 <= m
  <2>1. t >= N /\ j <= m /\ p = j /\ ~(j > m)
    BY <1>1, <1>6, <1>N, <1>t, <1>p
  <2>2. next = PutValue(AsList(e, 0, j), v, t)
    BY <1>e, <1>g, <2>1 DEF PutNext
  <2>3. next = AsList(Append(e, ValueAt(k, q, j + 1)), 0, j + 1)
    BY <1>t, <1>v, <2>2, PutValueIs
  <2>4. Tight(Append(e, ValueAt(k, q, j + 1)), S, j + 1)
    BY <1>e, <1>4, <1>6, <2>1, PutFacts
  <2>5. ListAt(next, S, m, j + 1)
    BY <1>6, <2>3, <2>4 DEF ListAt
  <2> QED BY <1>N, <1>g, <1>t, <1>v, <2>5
<1>7. CASE j + 1 > m
  <2>1. ~(t >= N)
    BY <1>1, <1>7, <1>N, <1>t
  <2>2. PICK b : /\ Spaced(b, S, j + 1)
                 /\ (IF Space(list).none_printed THEN Space(list)
                     ELSE Space(PutNone(Space(list), N))) = AsList(b, 1, j + 1)
    <3>1. CASE j > m
      <4>1. p = j + 1 /\ Space(list) = AsList(e, 1, j + 1) /\ Spaced(e, S, j + 1)
        BY <1>1, <1>e, <1>p, <3>1
      <4>2. Space(list).none_printed
        BY <4>1, NoneTold
      <4> QED BY <4>1, <4>2
    <3>2. CASE ~(j > m)
      <4>1. j = m /\ p = j /\ Space(list) = AsList(e, 0, j) /\ Spaced(e, S, j)
        BY <1>1, <1>e, <1>7, <1>p, <3>2
      <4>2. ~Space(list).none_printed
        BY <4>1, NoneTold
      <4>3. PutNone(Space(list), N) = AsList(Append(e, None(k)), 1, j + 1)
        BY <1>N, <4>1, PutNoneIs
      <4>4. Tight(Append(e, None(k)), S, j + 1)
        BY <1>1, <1>4, <4>1, PutFacts
      <4>5. j + 1 \in Nat
        BY <1>1
      <4>6. PICK b : Spaced(b, S, j + 1) /\ Space(PutNone(Space(list), N)) = AsList(b, 1, j + 1)
        BY <4>3, <4>4, <4>5, SpaceFacts
      <4> QED BY <4>2, <4>6
    <3> QED BY <3>1, <3>2
  <2>3. next = IF j + 1 < F THEN PutValue(AsList(b, 1, j + 1), v, t) ELSE AsList(b, 1, j + 1)
    <3>1. AsList(b, 1, j + 1).num_printed = j + 1
      BY DEF AsList
    <3> QED BY <1>f, <1>g, <2>1, <2>2, <3>1 DEF PutNext
  <2>4. CASE j + 1 < F
    <3>1. next = AsList(Append(b, ValueAt(k, q, j + 1)), 1, (j + 1) + 1)
      BY <1>t, <1>v, <2>3, <2>4, PutValueIs
    <3>2. S[(j + 1) + 1] = ValueAt(k, q, j + 1) /\ j + 1 \in Nat
      BY <1>1, <1>5, <1>7
    <3>3. Tight(Append(b, ValueAt(k, q, j + 1)), S, (j + 1) + 1)
      BY <2>2, <3>2, PutFacts
    <3>4. ~(j + 1 <= m)
      BY <1>1, <1>7
    <3>5. ListAt(next, S, m, j + 1)
      BY <1>f, <2>4, <3>1, <3>3, <3>4 DEF ListAt
    <3> QED BY <1>N, <1>g, <1>t, <1>v, <3>5
  <2>5. CASE ~(j + 1 < F)
    <3>1. next = AsList(b, 1, j + 1) /\ ~(j + 1 <= m)
      BY <1>1, <1>7, <2>3, <2>5
    <3>2. ListAt(next, S, m, j + 1)
      BY <1>f, <2>2, <2>5, <3>1 DEF ListAt
    <3> QED BY <1>N, <1>g, <1>t, <1>v, <3>2
  <2> QED BY <2>4, <2>5
<1> QED BY <1>1, <1>6, <1>7

\* The list is a recursive function of the number of values.
Putting(k, q, n, f) ==
  f = [j \in 0..n |-> IF j = 0 THEN [items |-> <<>>, none_printed |-> FALSE, num_printed |-> 0]
                      ELSE PutNext(f[j - 1], q[j], Times(k, q[j]), NullNumber(k))]

LEMMA PuttingExists ==
  ASSUME NEW k, NEW q, NEW n \in Nat
  PROVE  \E f : Putting(k, q, n, f)
<1>s. PICK start : start = [items |-> <<>>, none_printed |-> FALSE, num_printed |-> 0]
  OBVIOUS
<1>p. \A l, f : Putting(k, q, l, f) <=>
        f = [j \in 0..l |-> IF j = 0 THEN start ELSE PutNext(f[j - 1], q[j], Times(k, q[j]), NullNumber(k))]
  BY <1>s DEF Putting
<1> DEFINE Q == {l \in Nat : \E f : Putting(k, q, l, f)}
<1>1. 0 \in Q
  <2>f. PICK f : f = [j \in 0..0 |-> start]
    OBVIOUS
  <2>1. \A j \in 0..0 : j = 0
    OBVIOUS
  <2>2. f = [j \in 0..0 |-> IF j = 0 THEN start
                           ELSE PutNext(f[j - 1], q[j], Times(k, q[j]), NullNumber(k))]
    BY <2>f, <2>1
  <2>3. Putting(k, q, 0, f)
    BY <1>p, <2>2
  <2> QED BY <2>3
<1>2. ASSUME NEW l \in Nat, l \in Q PROVE l + 1 \in Q
  <2>1. PICK f : f = [j \in 0..l |-> IF j = 0 THEN start
                                     ELSE PutNext(f[j - 1], q[j], Times(k, q[j]), NullNumber(k))]
    BY <1>2, <1>p
  <2> DEFINE x == PutNext(f[l], q[l + 1], Times(k, q[l + 1]), NullNumber(k))
             g == [j \in 0..(l + 1) |-> IF j = l + 1 THEN x ELSE f[j]]
  <2>2. ASSUME NEW j \in 0..(l + 1)
        PROVE  g[j] = IF j = 0 THEN start ELSE PutNext(g[j - 1], q[j], Times(k, q[j]), NullNumber(k))
    <3>1. CASE j = l + 1
      <4>1. j # 0 /\ j - 1 = l /\ l \in 0..(l + 1) /\ l # l + 1
        BY <3>1
      <4>2. g[l] = f[l] /\ g[j] = x
        BY <3>1, <4>1
      <4> HIDE DEF g
      <4> QED BY <3>1, <4>1, <4>2
    <3>2. CASE j # l + 1
      <4>1. j \in 0..l
        BY <3>2
      <4>2. f[j] = IF j = 0 THEN start ELSE PutNext(f[j - 1], q[j], Times(k, q[j]), NullNumber(k))
        BY <2>1, <4>1
      <4>3. j # 0 => j - 1 \in 0..(l + 1) /\ j - 1 # l + 1
        BY <4>1
      <4>4. g[j] = f[j] /\ (j # 0 => g[j - 1] = f[j - 1])
        BY <3>2, <4>1, <4>3
      <4> HIDE DEF g
      <4> QED BY <4>2, <4>4
    <3> QED BY <3>1, <3>2
  <2>3. g = [j \in 0..(l + 1) |-> g[j]]
    OBVIOUS
  <2> HIDE DEF g
  <2>4. Putting(k, q, l + 1, g)
    BY <1>p, <2>2, <2>3
  <2> QED BY <2>4
<1> HIDE DEF Q
<1>3. n \in Q
  BY <1>1, <1>2, Induction
<1> QED BY <1>3 DEF Q

LEMMA McvDefined ==
  ASSUME NEW k, NEW q, NEW n \in Nat, Len(q) = n
  PROVE  \E f : /\ Putting(k, q, n, f)
                /\ Mcv(k, q) = IF NullNumber(k) > 0 /\ ~f[n].none_printed /\ f[n].num_printed # cmd.freq_count
                               THEN PutNone(Space(f[n]), NullNumber(k)).items
                               ELSE f[n].items
<1> DEFINE start == [items |-> <<>>, none_printed |-> FALSE, num_printed |-> 0]
           P(f) == f = [j \in 0..Len(q) |->
                    IF j = 0 THEN start ELSE PutNext(f[j - 1], q[j], Times(k, q[j]), NullNumber(k))]
           put == CHOOSE f : P(f)
<1>1. P(put)
  <2>1. PICK f : Putting(k, q, n, f)
    BY ONLY n \in Nat, PuttingExists
  <2>2. P(f)
    BY <2>1 DEF Putting
  <2> HIDE DEF P
  <2> QED BY ONLY <2>2
<1>2. put = [j \in 0..Len(q) |->
               IF j = 0 THEN start ELSE PutNext(put[j - 1], q[j], Times(k, q[j]), NullNumber(k))]
  BY ONLY <1>1
<1>3. Mcv(k, q) = IF NullNumber(k) > 0 /\ ~put[Len(q)].none_printed /\ put[Len(q)].num_printed # cmd.freq_count
                  THEN PutNone(Space(put[Len(q)]), NullNumber(k)).items
                  ELSE put[Len(q)].items
  BY DEF Mcv
<1> HIDE DEF put
<1>4. Putting(k, q, n, put)
  BY <1>2 DEF Putting
<1> QED BY <1>3, <1>4

\* What mcv() prints: so many items, one of them None if there is room for it or a value
\* is less frequent.
ItemsPrinted(k, n) == IF NullNumber(k) > 0 /\ n < cmd.freq_count THEN n + 1 ELSE n

LEMMA McvIs ==
  ASSUME NEW k, NEW n \in Nat, NEW q, IsSeq(q), Len(q) = n, cmd.freq_count \in Nat, n <= cmd.freq_count,
         NullNumber(k) \in Nat, \A i \in 1..n : Times(k, q[i]) \in Nat,
         NEW m \in 0..n, \A i \in 1..n : Times(k, q[i]) >= NullNumber(k) <=> i <= m,
         NEW S, S = Order(k, q, n, m)
  PROVE  /\ m < n => NullNumber(k) > 0
         /\ IF m < n /\ n = cmd.freq_count THEN Spaced(Mcv(k, q), S, ItemsPrinted(k, n))
            ELSE Tight(Mcv(k, q), S, ItemsPrinted(k, n))
<1>F. PICK F \in Nat : F = cmd.freq_count
  OBVIOUS
<1>N. PICK N \in Nat : N = NullNumber(k)
  OBVIOUS
<1>1. m < n => N > 0
  <2> SUFFICES ASSUME m < n, N = 0 PROVE FALSE
    OBVIOUS
  <2>1. m + 1 \in 1..n
    OBVIOUS
  <2>2. Times(k, q[m + 1]) >= NullNumber(k)
    BY <1>N, <2>1
  <2>3. m + 1 <= m
    BY <2>1, <2>2
  <2> QED BY <2>3
<1>2. PICK f : /\ Putting(k, q, n, f)
               /\ Mcv(k, q) = IF N > 0 /\ ~f[n].none_printed /\ f[n].num_printed # F
                              THEN PutNone(Space(f[n]), N).items
                              ELSE f[n].items
  BY <1>F, <1>N, McvDefined
<1>3. /\ f[0] = AsList(<<>>, 0, 0)
      /\ \A j \in 0..n : j < n => f[j + 1] = PutNext(f[j], q[j + 1], Times(k, q[j + 1]), NullNumber(k))
  <2>s. PICK start : start = [items |-> <<>>, none_printed |-> FALSE, num_printed |-> 0]
    OBVIOUS
  <2>1. \A j \in 0..n : f[j] = IF j = 0 THEN start
                               ELSE PutNext(f[j - 1], q[j], Times(k, q[j]), NullNumber(k))
    BY <1>2, <2>s DEF Putting
  <2>2. f[0] = start
    BY <2>1
  <2>3. start = AsList(<<>>, 0, 0)
    <3>1. (0 = 1) = FALSE
      OBVIOUS
    <3> QED BY <2>s, <3>1 DEF AsList
  <2>4. ASSUME NEW j \in 0..n, j < n
        PROVE  f[j + 1] = PutNext(f[j], q[j + 1], Times(k, q[j + 1]), NullNumber(k))
    <3>1. j + 1 \in 0..n /\ j + 1 # 0 /\ (j + 1) - 1 = j
      BY <2>4
    <3> QED BY <2>1, <3>1
  <2> QED BY <2>2, <2>3, <2>4
<1> DEFINE Q == {j \in Nat : j <= n => ListAt(f[j], S, m, j)}
<1>4. 0 \in Q
  <2>e. PICK e : e = <<>>
    OBVIOUS
  <2>1. IsSeq(e) /\ Len(e) = 0
    BY <2>e, IsSeqEmpty
  <2>2. Tight(e, S, 0)
    BY <2>1 DEF Tight
  <2>3. f[0] = AsList(e, 0, 0) /\ 0 <= m
    BY <1>3, <2>e
  <2>4. ListAt(f[0], S, m, 0)
    BY <2>2, <2>3 DEF ListAt
  <2> QED BY <2>4
<1>5. ASSUME NEW j \in Nat, j \in Q
      PROVE  j + 1 \in Q
  <2> SUFFICES ASSUME j + 1 <= n PROVE ListAt(f[j + 1], S, m, j + 1)
    OBVIOUS
  <2>1. j \in 0..n /\ j < n /\ j + 1 \in 1..n
    OBVIOUS
  <2>2. ListAt(f[j], S, m, j)
    BY <1>5, <2>1
  <2>3. Times(k, q[j + 1]) >= NullNumber(k) <=> j + 1 <= m
    BY <2>1
  <2>4. ListAt(PutNext(f[j], q[j + 1], Times(k, q[j + 1]), NullNumber(k)), S, m, j + 1)
    BY <2>1, <2>2, <2>3, ListGrows
  <2> QED BY <1>3, <2>1, <2>4
<1> HIDE DEF Q
<1>6. n \in Q
  BY <1>4, <1>5, Induction
<1>7. ListAt(f[n], S, m, n)
  BY <1>6 DEF Q
<1>8. CASE m < n
  <2>1. PICK items : IF n < F THEN f[n] = AsList(items, 1, n + 1) /\ Tight(items, S, n + 1)
                     ELSE f[n] = AsList(items, 1, n) /\ Spaced(items, S, n)
    BY <1>7, <1>8, <1>F DEF ListAt
  <2>2. f[n].none_printed /\ f[n].items = items
    <3>1. \A num : AsList(items, 1, num).items = items
      BY DEF AsList
    <3>2. CASE n < F
      BY <2>1, <3>1, <3>2, NoneTold
    <3>3. CASE ~(n < F)
      BY <2>1, <3>1, <3>3, NoneTold
    <3> QED BY <3>2, <3>3
  <2>3. Mcv(k, q) = items
    BY <1>2, <2>2
  <2>4. ItemsPrinted(k, n) = IF n < F THEN n + 1 ELSE n
    BY <1>1, <1>8, <1>F, <1>N DEF ItemsPrinted
  <2>5. CASE n < F
    <3>1. Tight(Mcv(k, q), S, ItemsPrinted(k, n))
      BY <2>1, <2>3, <2>4, <2>5
    <3> QED BY <1>1, <1>8, <1>F, <1>N, <2>5, <3>1
  <2>6. CASE ~(n < F)
    <3>1. n = F
      BY <1>F, <2>6
    <3>2. Spaced(Mcv(k, q), S, ItemsPrinted(k, n))
      BY <2>1, <2>3, <2>4, <2>6
    <3> QED BY <1>1, <1>8, <1>F, <1>N, <3>1, <3>2
  <2> QED BY <2>5, <2>6
<1>9. CASE ~(m < n)
  <2>0. m = n /\ n <= m
    BY <1>9
  <2>1. PICK items : f[n] = AsList(items, 0, n) /\ Tight(items, S, n)
    BY <1>7, <2>0 DEF ListAt
  <2>2. ~f[n].none_printed /\ f[n].items = items /\ f[n].num_printed = n
    <3>1. AsList(items, 0, n).items = items /\ AsList(items, 0, n).num_printed = n
      BY DEF AsList
    <3> QED BY <2>1, <3>1, NoneTold
  <2>3. CASE N > 0 /\ n # F
    <3>1. n < F /\ ItemsPrinted(k, n) = n + 1
      BY <1>F, <1>N, <2>3 DEF ItemsPrinted
    <3>2. PICK e : Spaced(e, S, n) /\ Space(AsList(items, 0, n)) = AsList(e, 0, n)
      BY <2>1, SpaceFacts
    <3>3. PutNone(AsList(e, 0, n), NullNumber(k)) = AsList(Append(e, None(k)), 1, n + 1)
      BY PutNoneIs
    <3>4. S[n + 1] = None(k)
      BY <2>0 DEF Order
    <3>5. Tight(Append(e, None(k)), S, n + 1)
      BY <3>2, <3>4, PutFacts
    <3>6. \A x : AsList(x, 1, n + 1).items = x
      BY DEF AsList
    <3>7. Mcv(k, q) = PutNone(AsList(e, 0, n), NullNumber(k)).items
      BY <1>2, <1>N, <2>1, <2>2, <2>3, <3>2
    <3>8. Mcv(k, q) = Append(e, None(k))
      BY <3>3, <3>6, <3>7
    <3> QED BY <1>9, <3>1, <3>5, <3>8
  <2>4. CASE ~(N > 0 /\ n # F)
    <3>1. ItemsPrinted(k, n) = n
      BY <1>F, <1>N, <2>4 DEF ItemsPrinted
    <3>2. Mcv(k, q) = items
      BY <1>2, <2>2, <2>4
    <3> QED BY <1>9, <2>1, <3>1, <3>2
  <2> QED BY <2>3, <2>4
<1> QED BY <1>8, <1>9

-------------------------------------------------------------------------------
(* The list is that of the most frequent values.                              *)

ValueItems(k) == {Item("value", v, Times(k, v)) : v \in Keys(k)}
AllItems(k) == ValueItems(k) \cup (IF NullNumber(k) > 0 THEN {None(k)} ELSE {})

LEMMA ItemFacts ==
  /\ \A a, v, t : Item(a, v, t).kind = a /\ Item(a, v, t).value = v /\ Item(a, v, t).times = t
  /\ \A k : None(k).kind = "none" /\ None(k).times = NullNumber(k)
  /\ \A k, q, i : /\ ValueAt(k, q, i).kind = "value" /\ ValueAt(k, q, i).value = q[i]
                 /\ ValueAt(k, q, i).times = Times(k, q[i])
  /\ Separator.kind = "separator"
BY DEF Item, None, ValueAt, Separator

LEMMA KeysFacts ==
  ASSUME NEW k, NEW D, IsFiniteSet(D), Values(k) \in [D -> Int]
  PROVE  /\ IsFiniteSet(Keys(k)) /\ Cardinality(Keys(k)) \in Nat
         /\ \A v : Times(k, v) \in Nat
<1>v. PICK V \in [D -> Int] : V = Values(k)
  OBVIOUS
<1>1. IsFiniteSet(Range(V))
  BY RangeFinite
<1>2. Cardinality(Range(V)) \in Nat
  BY <1>1, FS_CardinalityType
<1>3. ASSUME NEW v PROVE Times(k, v) \in Nat
  <2> DEFINE R == {r \in D : V[r] = v}
  <2>1. R \in SUBSET D
    OBVIOUS
  <2>2. Times(k, v) = Cardinality(R)
    BY <1>v DEF Times, Occurrences
  <2> HIDE DEF R
  <2>3. Cardinality(R) \in Nat
    BY <2>1, FS_Subset, FS_CardinalityType
  <2> QED BY <2>2, <2>3
<1> QED BY <1>1, <1>2, <1>3, <1>v DEF Keys

\* Each value is in the list of all once.
LEMMA ItemsCounted ==
  ASSUME NEW k, IsFiniteSet(Keys(k))
  PROVE  /\ IsFiniteSet(AllItems(k))
         /\ Cardinality(AllItems(k)) = IF NullNumber(k) > 0 THEN Cardinality(Keys(k)) + 1
                                       ELSE Cardinality(Keys(k))
<1>A. PICK A : A = ValueItems(k)
  OBVIOUS
<1>1. IsFiniteSet(A) /\ Cardinality(A) = Cardinality(Keys(k))
  <2> DEFINE f == [v \in Keys(k) |-> Item("value", v, Times(k, v))]
  <2>1. f \in Surjection(Keys(k), A)
    <3>1. \A v \in Keys(k) : f[v] \in A
      BY <1>A DEF ValueItems
    <3>2. \A x \in A : \E v \in Keys(k) : f[v] = x
      BY <1>A DEF ValueItems
    <3>3. f \in [Keys(k) -> A]
      BY <3>1
    <3> HIDE DEF f
    <3> QED BY <3>2, <3>3 DEF Surjection
  <2>2. \A v, w \in Keys(k) : f[v] = f[w] => v = w
    <3> SUFFICES ASSUME NEW v \in Keys(k), NEW w \in Keys(k), f[v] = f[w] PROVE v = w
      OBVIOUS
    <3>1. f[v].value = v /\ f[w].value = w
      BY ItemFacts
    <3> QED BY <3>1
  <2> HIDE DEF f
  <2>3. f \in Injection(Keys(k), A)
    BY <2>1, <2>2 DEF Injection, Surjection, IsInjective
  <2> QED BY <2>1, <2>3, FS_Surjection
<1>2. None(k) \notin A
  <2>1. \A x \in A : x.kind = "value"
    BY <1>A, ItemFacts DEF ValueItems
  <2> QED BY <2>1, ItemFacts
<1>3. IsFiniteSet(A \cup {None(k)}) /\ Cardinality(A \cup {None(k)}) = Cardinality(A) + 1
  BY <1>1, <1>2, FS_AddElement
<1>4. CASE NullNumber(k) > 0
  BY <1>1, <1>3, <1>4, <1>A DEF AllItems
<1>5. CASE ~(NullNumber(k) > 0)
  <2>1. AllItems(k) = A
    BY <1>5, <1>A DEF AllItems
  <2> QED BY <1>1, <1>5, <2>1
<1> QED BY <1>4, <1>5

LEMMA LesserOfTwo ==
  ASSUME NEW a \in Int, NEW b \in Int
  PROVE  Min({a, b}) = IF a <= b THEN a ELSE b
BY DEF Min

\* The items printed: each is one of all, no two are the same, and none is left out that is
\* more frequent.
MostFrequent(k, S, p, n) ==
  /\ p \in Nat /\ p <= cmd.freq_count /\ p <= n + 1 /\ n <= p
  /\ \A i \in 1..p : S[i] \in AllItems(k) /\ S[i].kind # "separator"
  /\ \A i, j \in 1..p : S[i] = S[j] => i = j
  /\ \A i \in 1..p : \A x \in AllItems(k) \ {S[j] : j \in 1..i} : x.times <= S[i].times

LEMMA OrderFacts ==
  ASSUME NEW k, NEW n \in Nat, NEW q \in [1..n -> Keys(k)], IsInjective(q), NEW F \in Nat,
         F = cmd.freq_count, n <= F, NullNumber(k) \in Nat, \A v : Times(k, v) \in Nat,
         \A i \in 1..n : \A v \in Keys(k) \ {q[j] : j \in 1..i} : Times(k, v) <= Times(k, q[i]),
         n < F => \A v \in Keys(k) : \E j \in 1..n : q[j] = v,
         NEW m \in 0..n, \A i \in 1..n : Times(k, q[i]) >= NullNumber(k) <=> i <= m,
         m < n => NullNumber(k) > 0,
         NEW S, S = Order(k, q, n, m), NEW p, p = ItemsPrinted(k, n)
  PROVE  MostFrequent(k, S, p, n)
<1>N. PICK N \in Nat : N = NullNumber(k)
  OBVIOUS
<1>1. p \in Nat /\ p <= F /\ p <= n + 1 /\ n <= p /\ (p = n + 1 => N > 0 /\ n < F)
  <2>1. p = IF N > 0 /\ n < F THEN n + 1 ELSE n
    BY <1>N DEF ItemsPrinted
  <2> QED BY <2>1
<1>2. ASSUME NEW i \in 1..p
      PROVE  /\ i <= m => S[i] = ValueAt(k, q, i) /\ i \in 1..n
             /\ i = m + 1 => S[i] = None(k) /\ N > 0
             /\ i > m + 1 => S[i] = ValueAt(k, q, i - 1) /\ i - 1 \in 1..n
  <2>1. i \in 1..(n + 1)
    BY <1>1
  <2>2. S[i] = IF i <= m THEN ValueAt(k, q, i)
               ELSE IF i = m + 1 THEN None(k) ELSE ValueAt(k, q, i - 1)
    BY <2>1 DEF Order
  <2>3. i = m + 1 => N > 0
    BY <1>1, <1>N
  <2> QED BY <1>1, <2>1, <2>2, <2>3
<1>3. \A i \in 1..n : ValueAt(k, q, i) \in ValueItems(k) /\ q[i] \in Keys(k)
  BY DEF ValueAt, ValueItems
<1>4. \A i \in 1..p : S[i] \in AllItems(k) /\ S[i].kind # "separator"
  <2> TAKE i \in 1..p
  <2>1. CASE i <= m
    BY <1>2, <1>3, <2>1, ItemFacts DEF AllItems
  <2>2. CASE i = m + 1
    BY <1>2, <1>N, <2>2, ItemFacts DEF AllItems
  <2>3. CASE i > m + 1
    BY <1>2, <1>3, <2>3, ItemFacts DEF AllItems
  <2> QED BY <2>1, <2>2, <2>3
<1>5. \A i, j \in 1..p : S[i] = S[j] => i = j
  <2> SUFFICES ASSUME NEW i \in 1..p, NEW j \in 1..p, S[i] = S[j] PROVE i = j
    OBVIOUS
  <2>1. \A a, b \in 1..n : q[a] = q[b] => a = b
    BY DEF IsInjective
  <2>n. ASSUME NEW a \in 1..p PROVE (S[a].kind = "none") <=> a = m + 1
    <3>1. CASE a <= m
      <4>1. S[a].kind = "value" /\ a # m + 1
        BY <1>2, <3>1, ItemFacts
      <4> QED BY ONLY <4>1
    <3>2. CASE a = m + 1
      <4>1. S[a].kind = "none"
        BY <1>2, <3>2, ItemFacts
      <4> QED BY ONLY <3>2, <4>1
    <3>3. CASE a > m + 1
      <4>1. S[a].kind = "value" /\ a # m + 1
        BY <1>2, <3>3, ItemFacts
      <4> QED BY ONLY <4>1
    <3>4. a <= m \/ a = m + 1 \/ a > m + 1
      <4>1. a \in Int /\ m \in Int
        OBVIOUS
      <4> QED BY ONLY <4>1
    <3> QED BY ONLY <3>1, <3>2, <3>3, <3>4
  <2>2. /\ (S[i].kind = "none") <=> i = m + 1
        /\ (S[j].kind = "none") <=> j = m + 1
    BY <2>n
  <2>3. CASE i = m + 1
    BY <2>2, <2>3
  <2>4. CASE i # m + 1
    <3>1. j # m + 1
      BY <2>2, <2>4
    <3>a. PICK a \in 1..n : S[i].value = q[a] /\ a = IF i <= m THEN i ELSE i - 1
      BY <1>2, <2>4, ItemFacts
    <3>b. PICK b \in 1..n : S[j].value = q[b] /\ b = IF j <= m THEN j ELSE j - 1
      BY <1>2, <3>1, ItemFacts
    <3>2. a = b
      BY <2>1, <3>a, <3>b
    <3>3. i \in Int /\ j \in Int /\ m \in Int
      BY <1>1
    <3>4. (IF i <= m THEN i ELSE i - 1) = (IF j <= m THEN j ELSE j - 1)
      BY <3>2, <3>a, <3>b
    <3> QED BY <2>4, <3>1, <3>3, <3>4
  <2> QED BY <2>3, <2>4
<1>6. ASSUME NEW i \in 1..p, NEW x \in AllItems(k), \A j \in 1..i : x # S[j]
      PROVE  x.times <= S[i].times
  <2>1. CASE x = None(k)
    <3>1. i <= m
      <4> SUFFICES ASSUME m + 1 <= i PROVE FALSE
        OBVIOUS
      <4>1. m + 1 \in 1..i /\ m + 1 \in 1..p
        BY <1>1
      <4>2. S[m + 1] = None(k)
        BY <1>2, <4>1
      <4> QED BY <1>6, <2>1, <4>1, <4>2
    <3>2. S[i].times = Times(k, q[i]) /\ i \in 1..n /\ x.times = NullNumber(k)
      BY <1>2, <2>1, <3>1, ItemFacts
    <3>3. Times(k, q[i]) >= NullNumber(k)
      BY <3>1, <3>2
    <3> QED BY <3>2, <3>3
  <2>2. CASE x # None(k)
    <3>1. PICK v \in Keys(k) : x = Item("value", v, Times(k, v))
      BY <2>2 DEF AllItems, ValueItems
    <3>2. x.times = Times(k, v)
      BY <3>1, ItemFacts
    <3>3. \A a : q[a] = v => x = ValueAt(k, q, a)
      BY <3>1 DEF ValueAt
    <3>4. \A a \in 1..n : a <= m /\ a <= i => q[a] # v
      <4> SUFFICES ASSUME NEW a \in 1..n, a <= m, a <= i, q[a] = v PROVE FALSE
        OBVIOUS
      <4>1. a \in 1..i /\ a \in 1..p
        BY <1>1
      <4>2. S[a] = ValueAt(k, q, a)
        BY <1>2, <4>1
      <4> QED BY <1>6, <3>3, <4>1, <4>2
    <3>5. \A a \in 1..n : m < a /\ a + 1 <= i => q[a] # v
      <4> SUFFICES ASSUME NEW a \in 1..n, m < a, a + 1 <= i, q[a] = v PROVE FALSE
        OBVIOUS
      <4>1. a + 1 \in 1..i /\ a + 1 \in 1..p /\ a + 1 > m + 1 /\ (a + 1) - 1 = a
        BY <1>1
      <4>2. S[a + 1] = ValueAt(k, q, a)
        BY <1>2, <4>1
      <4> QED BY <1>6, <3>3, <4>1, <4>2
    <3>6. \A a \in 1..n : (\A j \in 1..a : q[j] # v) => Times(k, v) <= Times(k, q[a])
      <4> TAKE a \in 1..n
      <4> HAVE \A j \in 1..a : q[j] # v
      <4>1. v \in Keys(k) \ {q[j] : j \in 1..a}
        OBVIOUS
      <4> QED BY <4>1
    <3>7. CASE i <= m
      <4>1. S[i].times = Times(k, q[i]) /\ i \in 1..n
        BY <1>2, <3>7, ItemFacts
      <4>2. \A j \in 1..i : q[j] # v
        <5> TAKE j \in 1..i
        <5>1. j \in 1..n /\ j <= m /\ j <= i
          BY <3>7, <4>1
        <5> QED BY <3>4, <5>1
      <4> QED BY <3>2, <3>6, <4>1, <4>2
    <3>8. CASE i = m + 1
      <4>1. S[i].times = N
        BY <1>2, <1>N, <3>8, ItemFacts
      <4>2. \A j \in 1..n : j <= m => q[j] # v
        BY <3>4, <3>8
      <4>3. CASE m < n
        <5>1. m + 1 \in 1..n /\ Times(k, q[m + 1]) \in Nat /\ ~(Times(k, q[m + 1]) >= N)
          <6>1. m + 1 \in 1..n /\ ~(m + 1 <= m)
            BY <4>3
          <6> QED BY <1>N, <6>1
        <5>2. CASE q[m + 1] = v
          BY <1>N, <3>2, <4>1, <5>1, <5>2
        <5>3. CASE q[m + 1] # v
          <6>1. \A j \in 1..(m + 1) : q[j] # v
            <7> TAKE j \in 1..(m + 1)
            <7>1. j \in 1..n /\ (j <= m \/ j = m + 1)
              BY <5>1
            <7> QED BY <4>2, <5>3, <7>1
          <6>2. Times(k, v) <= Times(k, q[m + 1]) /\ Times(k, v) \in Nat
            BY <3>6, <5>1, <6>1
          <6> QED BY <1>N, <3>2, <4>1, <5>1, <6>2
        <5> QED BY <5>2, <5>3
      <4>4. CASE ~(m < n)
        <5>1. m = n /\ i = n + 1 /\ p = n + 1
          BY <1>1, <3>8, <4>4
        <5>2. n < F
          BY <1>1, <5>1
        <5>3. PICK j \in 1..n : q[j] = v
          BY <5>2
        <5> QED BY <4>2, <5>1, <5>3
      <4> QED BY <4>3, <4>4
    <3>9. CASE i > m + 1
      <4>1. S[i].times = Times(k, q[i - 1]) /\ i - 1 \in 1..n
        BY <1>2, <3>9, ItemFacts
      <4>2. \A j \in 1..(i - 1) : q[j] # v
        <5> TAKE j \in 1..(i - 1)
        <5>1. j \in 1..n /\ j + 1 <= i /\ j <= i
          BY <4>1
        <5>2. j <= m \/ m < j
          BY <5>1
        <5> QED BY <3>4, <3>5, <5>1, <5>2
      <4> QED BY <3>2, <3>6, <4>1, <4>2
    <3> QED BY <3>7, <3>8, <3>9
  <2> QED BY <2>1, <2>2
<1>7. \A i \in 1..p : \A x \in AllItems(k) \ {S[j] : j \in 1..i} : x.times <= S[i].times
  BY <1>6
<1> QED BY <1>1, <1>4, <1>5, <1>7 DEF MostFrequent

\* The items at the odd places, and what is between them.
Alternates(items, S, p, spaced) ==
  /\ (Len(items) + 1) \div 2 = p
  /\ [i \in 1..p |-> items[2 * i - 1]] = [i \in 1..p |-> S[i]]
  /\ \A i \in DOMAIN items : (items[i].kind = "separator") = (i % 2 = 0)
  /\ items # <<>> /\ Len(items) % 2 = 0 => spaced = 1

LEMMA TightShown ==
  ASSUME NEW items, NEW S, NEW p \in Nat, NEW spaced,
         IF spaced = 1 THEN Spaced(items, S, p) ELSE Tight(items, S, p),
         \A i \in 1..p : S[i].kind # "separator"
  PROVE  Alternates(items, S, p, spaced)
<1>1. /\ IsSeq(items)
      /\ Len(items) = IF spaced = 1 THEN 2 * p ELSE IF p = 0 THEN 0 ELSE 2 * p - 1
      /\ \A i \in 1..p : items[2 * i - 1] = S[i]
      /\ \A i \in 1..p : 2 * i <= Len(items) => items[2 * i] = Separator
  <2>1. CASE spaced = 1
    BY <2>1 DEF Spaced
  <2>2. CASE spaced # 1
    <3>1. /\ IsSeq(items) /\ Len(items) = IF p = 0 THEN 0 ELSE 2 * p - 1
          /\ \A i \in 1..p : items[2 * i - 1] = S[i]
          /\ \A i \in 1..(p - 1) : items[2 * i] = Separator
      BY <2>2 DEF Tight
    <3>2. ASSUME NEW i \in 1..p, 2 * i <= Len(items) PROVE i \in 1..(p - 1)
      BY <3>1, <3>2
    <3> QED BY <2>2, <3>1, <3>2
  <2> QED BY <2>1, <2>2
<1>l. PICK l : l = Len(items)
  OBVIOUS
<1>2. l \in Nat /\ DOMAIN items = 1..l
  BY <1>1, <1>l, IsSeqFacts
<1>3. l = 2 * p \/ (p > 0 /\ l = 2 * p - 1)
  BY <1>1, <1>l
<1>4. (l + 1) \div 2 = p
  <2>1. (2 * p + 1) \div 2 = p
    OBVIOUS
  <2>2. ((2 * p - 1) + 1) \div 2 = p
    OBVIOUS
  <2> QED BY <1>3, <2>1, <2>2
<1>5. ASSUME NEW i \in 1..l
      PROVE  (items[i].kind = "separator") = (i % 2 = 0)
  <2>h. PICK h \in Int : i = 2 * h \/ i = 2 * h + 1
    <3>1. i \div 2 \in Int /\ (i = 2 * (i \div 2) \/ i = 2 * (i \div 2) + 1)
      BY <1>2, Z3
    <3> QED BY <3>1
  <2>1. CASE i = 2 * h
    <3>1. i % 2 = 0
      BY <2>1
    <3>2. h \in 1..p /\ 2 * h <= l
      BY <1>2, <1>3, <2>1
    <3>3. items[i] = Separator
      BY <1>1, <1>l, <2>1, <3>2
    <3> QED BY <3>1, <3>3, ItemFacts
  <2>2. CASE i = 2 * h + 1
    <3>1. i % 2 = 1
      BY <2>2
    <3>2. h + 1 \in 1..p /\ 2 * (h + 1) - 1 = i
      BY <1>2, <1>3, <2>2
    <3>3. items[i] = S[h + 1] /\ S[h + 1].kind # "separator"
      BY <1>1, <3>2
    <3> QED BY <3>1, <3>3
  <2> QED BY <2>h, <2>1, <2>2
<1>6. items # <<>> /\ l % 2 = 0 => spaced = 1
  <2> SUFFICES ASSUME items # <<>>, l % 2 = 0, spaced # 1 PROVE FALSE
    OBVIOUS
  <2>1. l # 0
    <3> SUFFICES ASSUME l = 0 PROVE items = <<>>
      OBVIOUS
    <3>1. IsSeq(<<>>) /\ Len(<<>>) = 0
      BY IsSeqEmpty
    <3>2. \A i \in 1..Len(items) : items[i] = <<>>[i]
      BY <1>l
    <3> QED BY <1>1, <1>l, <3>1, <3>2, IsSeqSame
  <2>2. p > 0 /\ l = 2 * (p - 1) + 1
    BY <1>1, <1>l, <2>1
  <2>3. (2 * (p - 1) + 1) % 2 = 1
    <3>1. PICK h \in Int : h = p - 1
      OBVIOUS
    <3>2. (2 * h + 1) % 2 = 1
      OBVIOUS
    <3> QED BY <3>1, <3>2
  <2> QED BY <2>2, <2>3
<1>7. [i \in 1..p |-> items[2 * i - 1]] = [i \in 1..p |-> S[i]]
  BY <1>1
<1> QED BY <1>2, <1>4, <1>5, <1>6, <1>7, <1>l DEF Alternates

\* The list printed is that of the most frequent values.
LEMMA FreqIsTrue ==
  ASSUME NEW k, NEW c, NEW D, IsFiniteSet(D), Values(k) \in [D -> Int],
         ValuesIn(c) = Values(k), NullsIn(c) = NullNumber(k), NullNumber(k) \in Nat,
         cmd.freq_count \in Nat \ {0}, NEW q \in McvVec(k)
  PROVE  FreqTrue(c, Mcv(k, q))
<1>K. PICK K : K = Keys(k)
  OBVIOUS
<1>F. PICK F \in Nat \ {0} : F = cmd.freq_count
  OBVIOUS
<1>1. IsFiniteSet(K) /\ Cardinality(K) \in Nat /\ \A v : Times(k, v) \in Nat
  BY <1>K, KeysFacts
<1>n. PICK n : n = Min({Cardinality(K), F})
  OBVIOUS
<1>2. n \in Nat /\ n <= F /\ n <= Cardinality(K) /\ (n < F => n = Cardinality(K))
  <2>1. n = IF Cardinality(K) <= F THEN Cardinality(K) ELSE F
    BY <1>1, <1>n, LesserOfTwo
  <2> QED BY <1>1, <2>1
<1>3. /\ q \in [1..n -> K] /\ IsInjective(q)
      /\ \A i \in 1..n : \A v \in K \ {q[j] : j \in 1..i} : Times(k, v) <= Times(k, q[i])
  BY <1>F, <1>K, <1>n DEF McvVec
<1>4. IsSeq(q) /\ Len(q) = n
  <2>1. q \in Seq(K)
    BY <1>2, <1>3
  <2>2. Len(q) = n
    BY <1>2, <1>3, <2>1, LenProperties
  <2> QED BY <2>1, <2>2, SeqIsSeq
<1>5. n < F => \A v \in K : \E j \in 1..n : q[j] = v
  <2> SUFFICES ASSUME n < F PROVE \A v \in K : \E j \in 1..n : q[j] = v
    OBVIOUS
  <2>1. IsFiniteSet(1..n) /\ Cardinality(1..n) = n
    <3>1. 1 \in Int /\ n \in Int
      BY <1>2
    <3>2. IsFiniteSet(1..n) /\ Cardinality(1..n) = IF 1 > n THEN 0 ELSE n - 1 + 1
      BY <3>1, FS_Interval
    <3> QED BY <1>2, <3>2
  <2>2. q \in Injection(1..n, K)
    BY <1>3 DEF Injection, IsInjective
  <2>3. Cardinality(1..n) = Cardinality(K)
    BY <1>2, <2>1
  <2>4. q \in Surjection(1..n, K)
    BY <1>1, <2>2, <2>3, FS_Injection
  <2> QED BY <2>4 DEF Surjection
<1>t. PICK t : t = [i \in 1..n |-> Times(k, q[i])]
  OBVIOUS
<1>6. \A i \in 1..n : t[i] \in Nat /\ t[i] = Times(k, q[i])
  BY <1>1, <1>t
<1>7. \A i \in 1..n : \A j \in 1..n : i < j => t[j] <= t[i]
  <2> SUFFICES ASSUME NEW i \in 1..n, NEW j \in 1..n, i < j PROVE t[j] <= t[i]
    OBVIOUS
  <2>1. \A a \in 1..i : q[a] # q[j]
    <3> SUFFICES ASSUME NEW a \in 1..i, q[a] = q[j] PROVE FALSE
      OBVIOUS
    <3>1. a \in 1..n /\ a # j
      BY <1>2
    <3>2. DOMAIN q = 1..n
      BY <1>3
    <3>3. a = j
      BY <1>3, <3>1, <3>2 DEF IsInjective
    <3> QED BY <3>1, <3>3
  <2>2. q[j] \in K \ {q[a] : a \in 1..i}
    BY <1>3, <2>1
  <2> QED BY <1>3, <1>6, <2>2
<1>8. PICK m \in 0..n : \A i \in 1..n : t[i] >= NullNumber(k) <=> i <= m
  BY <1>2, <1>6, <1>7, ManyAre
<1>9. \A i \in 1..n : Times(k, q[i]) >= NullNumber(k) <=> i <= m
  BY <1>6, <1>8
<1>S. PICK S : S = Order(k, q, n, m)
  OBVIOUS
<1>p. PICK p : p = ItemsPrinted(k, n)
  OBVIOUS
<1>i. PICK items : items = Mcv(k, q)
  OBVIOUS
<1>10. /\ m < n => NullNumber(k) > 0
       /\ IF m < n /\ n = F THEN Spaced(items, S, p) ELSE Tight(items, S, p)
  BY <1>1, <1>2, <1>4, <1>9, <1>F, <1>S, <1>p, <1>i, McvIs
<1>11. /\ p \in Nat /\ p <= F /\ p <= n + 1 /\ n <= p
       /\ \A i \in 1..p : S[i] \in AllItems(k) /\ S[i].kind # "separator"
       /\ \A i, j \in 1..p : S[i] = S[j] => i = j
       /\ \A i \in 1..p : \A x \in AllItems(k) \ {S[j] : j \in 1..i} : x.times <= S[i].times
  <2>1. q \in [1..n -> Keys(k)] /\ IsInjective(q) /\ n \in Nat /\ n <= F /\ F \in Nat
    BY <1>2, <1>3, <1>K
  <2>2. \A i \in 1..n : \A v \in Keys(k) \ {q[j] : j \in 1..i} : Times(k, v) <= Times(k, q[i])
    BY <1>3, <1>K
  <2>3. n < F => \A v \in Keys(k) : \E j \in 1..n : q[j] = v
    BY <1>5, <1>K
  <2>4. \A v : Times(k, v) \in Nat
    BY <1>1
  <2>5. m < n => NullNumber(k) > 0
    BY <1>10
  <2>6. MostFrequent(k, S, p, n)
    BY ONLY <2>1, <2>2, <2>3, <2>4, <2>5, <1>9, m \in 0..n, NullNumber(k) \in Nat, <1>F, <1>S, <1>p, OrderFacts
  <2> QED BY <1>F, <2>6 DEF MostFrequent
<1>s. PICK spaced : spaced = IF m < n /\ n = F THEN 1 ELSE 0
  OBVIOUS
<1>12. IF spaced = 1 THEN Spaced(items, S, p) ELSE Tight(items, S, p)
  BY <1>10, <1>s
<1>13. /\ (Len(items) + 1) \div 2 = p
       /\ [i \in 1..p |-> items[2 * i - 1]] = [i \in 1..p |-> S[i]]
       /\ \A i \in DOMAIN items : (items[i].kind = "separator") = (i % 2 = 0)
       /\ items # <<>> /\ Len(items) % 2 = 0 => spaced = 1
  <2>1. p \in Nat /\ \A i \in 1..p : S[i].kind # "separator"
    BY <1>11
  <2>2. Alternates(items, S, p, spaced)
    BY ONLY <2>1, <1>12, TightShown
  <2> QED BY <2>2 DEF Alternates
<1>h. PICK listed : listed = [i \in 1..p |-> S[i]]
  OBVIOUS
<1>14. [i \in 1..((Len(items) + 1) \div 2) |-> items[2 * i - 1]] = listed
  BY <1>13, <1>h
<1>15. Len(listed) = p /\ DOMAIN listed = 1..p /\ \A i \in 1..p : listed[i] = S[i]
  BY <1>11, <1>h, IsSeqFunction
<1>a. PICK all : all = AllItems(k)
  OBVIOUS
<1>16. all = {Item("value", v, Occurrences(ValuesIn(c), v)) : v \in Range(ValuesIn(c))}
              \cup (IF NullsIn(c) > 0 THEN {Item("none", 0, NullsIn(c))} ELSE {})
  BY <1>a DEF AllItems, ValueItems, None, Times, Keys
<1>17. Cardinality(all) = IF NullNumber(k) > 0 THEN Cardinality(K) + 1 ELSE Cardinality(K)
  BY <1>1, <1>K, <1>a, ItemsCounted
<1>18. Len(listed) = Min({Cardinality(all), F})
  <2>1. Cardinality(all) \in Nat
    BY <1>1, <1>17
  <2>2. Min({Cardinality(all), F}) = IF Cardinality(all) <= F THEN Cardinality(all) ELSE F
    BY <2>1, LesserOfTwo
  <2>3. p = IF NullNumber(k) > 0 /\ n < F THEN n + 1 ELSE n
    BY <1>F, <1>p DEF ItemsPrinted
  <2>4. n = IF Cardinality(K) <= F THEN Cardinality(K) ELSE F
    BY <1>1, <1>n, LesserOfTwo
  <2> QED BY <1>1, <1>15, <1>17, <2>1, <2>2, <2>3, <2>4
<1>19. Range(listed) \subseteq all /\ IsInjective(listed)
  <2>1. Range(listed) \subseteq all
    BY <1>11, <1>15, <1>a DEF Range
  <2>2. IsInjective(listed)
    BY <1>11, <1>15 DEF IsInjective
  <2> QED BY <2>1, <2>2
<1>20. \A i \in DOMAIN listed : \A item \in all \ {listed[j] : j \in 1..i} : item.times <= listed[i].times
  <2> TAKE i \in DOMAIN listed
  <2>1. {listed[j] : j \in 1..i} = {S[j] : j \in 1..i}
    BY <1>11, <1>15
  <2> QED BY <1>11, <1>15, <1>a, <2>1
<1>21. (items # <<>> /\ Len(items) % 2 = 0) =>
          Len(listed) < Cardinality(all) /\ \E item \in Range(listed) : item.kind = "none"
  <2> SUFFICES ASSUME items # <<>>, Len(items) % 2 = 0
               PROVE  Len(listed) < Cardinality(all) /\ \E item \in Range(listed) : item.kind = "none"
    OBVIOUS
  <2>1. m < n /\ n = F
    BY <1>13, <1>s
  <2>2. p = n /\ NullNumber(k) > 0
    BY <1>10, <1>F, <1>p, <2>1 DEF ItemsPrinted
  <2>3. Len(listed) < Cardinality(all)
    BY <1>1, <1>2, <1>15, <1>17, <2>2
  <2>4. m + 1 \in 1..p /\ m + 1 \in 1..(n + 1) /\ ~(m + 1 <= m)
    BY <1>2, <2>1, <2>2
  <2>5. S[m + 1] = None(k)
    BY <1>S, <2>4 DEF Order
  <2>6. listed[m + 1] \in Range(listed) /\ listed[m + 1].kind = "none"
    BY <1>15, <2>4, <2>5, ItemFacts DEF Range
  <2> QED BY <2>3, <2>6
<1>22. FreqTrue(c, items) <=>
         /\ \A i \in DOMAIN items : (items[i].kind = "separator") = (i % 2 = 0)
         /\ Range(listed) \subseteq all /\ IsInjective(listed)
         /\ Len(listed) = Min({Cardinality(all), cmd.freq_count})
         /\ \A i \in DOMAIN listed : \A item \in all \ {listed[j] : j \in 1..i} :
              item.times <= listed[i].times
         /\ (items # <<>> /\ Len(items) % 2 = 0) =>
              Len(listed) < Cardinality(all) /\ \E item \in Range(listed) : item.kind = "none"
  BY ONLY <1>14, <1>16 DEF FreqTrue
<1>23. FreqTrue(c, items)
  BY ONLY <1>13, <1>18, <1>19, <1>20, <1>21, <1>22, <1>F
<1> QED BY <1>23, <1>i

-------------------------------------------------------------------------------
(* The cells of a column whose task has ended.                                *)

\* Each has its value; a date has been told to be one.
CellsRead(given, c) ==
  trying[c] = TaskEnded =>
    \A r \in DataRows :
      /\ table[c][r].type # "unknown"
      /\ types[c] = "date" /\ given[c][r] # Null => table[c][r].datetime_type = "date"

LEMMA TestedRead ==
  ASSUME NEW cell, CellOK(cell), NEW test \in {"bool", "timedelta", "datetime", "date", "number", "text"}
  PROVE  /\ Tested(test, cell).type # "unknown"
         /\ (test = "date" /\ ~cmd.no_inference /\ ~Blank(cell) /\ cell.text \in Dates) =>
              Tested(test, cell).datetime_type = "date"
<1>v. PICK v : v = GetValue(cell)
  OBVIOUS
<1>1. cell \in Cell
  BY DEF CellOK
<1>2. Evaluated(cell.text) \in {"null", "string", "int8"}
  BY DEF Evaluated
<1>3. v \in Cell /\ v.text = cell.text /\ v.type # "unknown"
  <2>1. CASE cell.type = "unknown"
    <3>1. v = [cell EXCEPT !.type = Evaluated(cell.text)]
      BY <1>v, <2>1 DEF GetValue
    <3> QED BY <1>1, <1>2, <3>1 DEF Cell
  <2>2. CASE cell.type # "unknown"
    <3>1. v = cell
      BY <1>v, <2>2 DEF GetValue
    <3> QED BY <1>1, <2>2, <3>1
  <2> QED BY <2>1, <2>2
<1>4. AfterIsBoolean(v).type # "unknown"
  <2>1. CASE IsBoolean(v)
    <3>1. AfterIsBoolean(v) = [v EXCEPT !.type = "int8"]
      BY <2>1 DEF AfterIsBoolean
    <3> QED BY <1>3, <3>1 DEF Cell
  <2>2. CASE ~IsBoolean(v)
    BY <1>3, <2>2 DEF AfterIsBoolean
  <2> QED BY <2>1, <2>2
<1>5. AfterDatetime(v).type # "unknown"
  BY <1>3 DEF AfterDatetime, Cell
<1>6. AfterDate(v).type # "unknown" /\ (cell.text \in Dates => AfterDate(v).datetime_type = "date")
  BY <1>3 DEF AfterDate, Cell
<1>7. Tested(test, cell) \in {v, AfterIsBoolean(v), AfterDatetime(v), AfterDate(v)}
  BY <1>v DEF Tested
<1>8. test = "date" /\ ~cmd.no_inference /\ ~Blank(cell) => Tested(test, cell) = AfterDate(v)
  BY <1>v DEF Tested
<1> QED BY <1>3, <1>4, <1>5, <1>6, <1>7, <1>8

LEMMA ColumnRead ==
  ASSUME NEW given, FilledWith(given), InputOK, UNCHANGED cmd, NEW c \in DOMAIN given, TryType(c)
  PROVE  CellsRead(given, c)'
<1> PICK k : k = trying[c]
  OBVIOUS
<1> PICK cells : cells = table[c]
  OBVIOUS
<1> DEFINE fits(r) == Blank(cells[r]) \/ Fits(Tests[k], cells[r])
           reached == {r \in DataRows : \A q \in 1..(r - 1) : fits(q)}
           fit == \A r \in DataRows : fits(r)
<1>1. /\ ColumnOK(given, c) /\ DOMAIN table = DOMAIN given /\ DOMAIN trying = DOMAIN given
      /\ DOMAIN types = DOMAIN given
  BY DEF FilledWith
<1>2. /\ k \in 1..6 /\ TaskEnded = 7
      /\ table'[c] = [r \in DataRows |-> IF r \in reached THEN Tested(Tests[k], cells[r]) ELSE cells[r]]
      /\ types'[c] = IF fit THEN Tests[k] ELSE types[c]
      /\ trying'[c] = IF fit THEN TaskEnded ELSE k + 1
  <2>1. trying[c] \in 1..TaskEnded /\ trying[c] # TaskEnded
    BY <1>1 DEF ColumnOK, TryType
  <2>2. reached = {r \in DataRows : Reached(c, r)}
    BY DEF Reached
  <2>3. table'[c] = [r \in DataRows |-> IF r \in reached THEN Tested(Tests[k], cells[r]) ELSE cells[r]]
    <3> HIDE DEF reached
    <3> QED BY <1>1, <2>2 DEF TryType
  <2>4. /\ types'[c] = IF fit THEN Tests[k] ELSE types[c]
        /\ trying'[c] = IF fit THEN TaskEnded ELSE k + 1
    BY <1>1 DEF TryType
  <2> QED BY <2>1, <2>3, <2>4, TestsFacts
<1>3. \A r \in DataRows : CellOK(cells[r]) /\ cells[r].text = given[c][r]
  BY <1>1 DEF ColumnOK
<1>4. k = 6 => fit
  BY TestsFacts DEF Fits
<1>5. trying'[c] = TaskEnded => fit
  <2> HIDE DEF fit
  <2> QED BY <1>2, <1>4
<1>6. fit => reached = DataRows
  <2>1. \A r \in DataRows : 1..(r - 1) \subseteq DataRows
    BY DEF InputOK
  <2> QED BY <2>1
<1>7. ASSUME fit, NEW r \in DataRows
      PROVE  /\ table'[c][r].type # "unknown"
             /\ types'[c] = "date" /\ given[c][r] # Null => table'[c][r].datetime_type = "date"
  <2>t. PICK test : test = Tests[k]
    OBVIOUS
  <2>1. test \in {"bool", "timedelta", "datetime", "date", "number", "text"}
    BY <1>2, <2>t, TestsFacts
  <2>2. table'[c][r] = Tested(test, cells[r])
    <3>1. r \in reached
      BY <1>6, <1>7
    <3> HIDE DEF reached, fit
    <3> QED BY <1>2, <2>t, <3>1
  <2>3. types'[c] = test
    <3> HIDE DEF fit
    <3> QED BY <1>2, <1>7, <2>t
  <2>4. /\ Tested(test, cells[r]).type # "unknown"
        /\ (test = "date" /\ ~cmd.no_inference /\ ~Blank(cells[r]) /\ cells[r].text \in Dates) =>
              Tested(test, cells[r]).datetime_type = "date"
    BY <1>3, <2>1, TestedRead
  <2>5. ASSUME test = "date", given[c][r] # Null
        PROVE  ~cmd.no_inference /\ ~Blank(cells[r]) /\ cells[r].text \in Dates
    <3>1. ~Blank(cells[r])
      BY <1>2, <1>3, <2>5, CellFacts
    <3>2. Fits("date", cells[r])
      BY <1>7, <2>5, <2>t, <3>1
    <3> QED BY <3>1, <3>2 DEF Fits
  <2> QED BY <2>2, <2>3, <2>4, <2>5
<1>8. DataRows' = DataRows /\ TaskEnded' = TaskEnded
  BY SameInput DEF TaskEnded, Tests
<1> HIDE DEF fit
<1> QED BY <1>5, <1>7, <1>8 DEF CellsRead

-------------------------------------------------------------------------------
(* A column that is to be calculated: its type, its values and its nulls.     *)

\* What a text that fits a type is.
LEMMA FitTexts ==
  ASSUME NEW text \in Texts, NEW type, Fits(type, Fresh(text))
  PROVE  /\ type = "number" => text \in Numbers
         /\ type = "timedelta" => text \in Deltas
         /\ type = "date" => text \in Dates
         /\ type \in {"bool", "timedelta", "datetime", "date", "number"} => text # Null
         /\ type # "text" => ~cmd.no_inference
<1>1. Fresh(text).text = text /\ Fresh(text).type = "unknown"
  BY DEF Fresh
<1>2. GetValue(Fresh(text)).type = Evaluated(text) /\ GetValue(Fresh(text)).text = text
  BY <1>1 DEF GetValue, Fresh
<1>3. Evaluated(Null) = "null" /\ (Evaluated(text) = "int8" => text \in Numbers)
  BY DEF Evaluated
<1>4. type = "number" => text \in Numbers /\ text # Null
  BY <1>2, <1>3 DEF Fits, IsNum
<1>5. type = "bool" => text # Null
  BY <1>2, <1>3 DEF Fits, IsBoolean
<1>6. /\ type = "timedelta" => text \in Deltas
      /\ type = "date" => text \in Dates
      /\ type = "datetime" => text \in Datetimes
  BY <1>1 DEF Fits
<1>7. Null \notin Deltas \cup Dates \cup Datetimes
  BY DEF Null, Deltas, Dates, Datetimes
<1>8. type # "text" => ~cmd.no_inference
  BY DEF Fits
<1> QED BY <1>4, <1>5, <1>6, <1>7, <1>8

\* What is known of place k, whose task of typify() has ended, and of its column c.
PlaceTold(k, c) ==
  /\ types[k] = TypeOf(c) /\ types[k] \in {"bool", "timedelta", "datetime", "date", "number", "text"}
  /\ IsFiniteSet(DataRows) /\ RowsKept(c) \in SUBSET DataRows
  /\ Measured(k) = RowsKept(c)
  /\ Values(k) = ValuesIn(c) /\ Values(k) \in [RowsKept(c) -> Int]
  /\ NullNumber(k) = NullsIn(c)
  /\ TypeOf(c) \in {"number", "timedelta", "date", "datetime"} => RowsKept(c) # {}
  /\ \A r \in DataRows : table[k][r].text = cmd.cells[c][r]
  /\ \A r \in DataRows : IsNull(table[k][r]) <=> cmd.cells[c][r] = Null

LEMMA PlaceIsTold ==
  ASSUME NEW given, FilledWith(given), TypesSettled(given), ~cmd.no_inference => TypesFound(given), InputOK,
         NEW k \in DOMAIN given, CellsRead(given, k), NEW c, given[k] = cmd.cells[c],
         DOMAIN cmd.cells[c] = DataRows, \A r \in DataRows : cmd.cells[c][r] \in Texts,
         Range(cmd.cells[c]) \cap BooleanWords = {}
  PROVE  PlaceTold(k, c)
<1>g. PICK texts : texts = cmd.cells[c]
  OBVIOUS
<1>0. given[k] = texts /\ DOMAIN texts = DataRows /\ \A r \in DataRows : texts[r] \in Texts
  BY <1>g
<1>1. /\ DOMAIN table = DOMAIN given /\ ColumnOK(given, k) /\ trying[k] = TaskEnded
      /\ cmd.no_inference => types[k] = "text"
      /\ ~cmd.no_inference => TypeFound(given, k)
  BY DEF FilledWith, TypesSettled, TypesFound
<1>2. \A r \in DataRows : texts[r] \notin BooleanWords
  BY <1>0, <1>g DEF Range
<1>3. Wordless(given, k)
  BY <1>0, <1>2 DEF Wordless
<1>4. \A r \in DataRows :
        /\ CellOK(table[k][r]) /\ table[k][r].text = texts[r]
        /\ table[k][r].type # "unknown"
        /\ types[k] = "date" /\ texts[r] # Null => table[k][r].datetime_type = "date"
  BY <1>0, <1>1 DEF ColumnOK, CellsRead
<1>5. \A r \in DataRows : IsNull(table[k][r]) <=> texts[r] = Null
  <2> TAKE r \in DataRows
  <2>1. table[k][r].type = Evaluated(texts[r])
    BY <1>2, <1>4 DEF CellOK
  <2>2. (Evaluated(texts[r]) = "null") <=> texts[r] = Null
    BY DEF Evaluated
  <2> QED BY <2>1, <2>2 DEF IsNull
<1>6. types[k] = TypeOf(c)
  <2>1. TextsIn(k) = Range(texts)
    BY <1>0, <1>4 DEF TextsIn, Range
  <2>2. TextsIn(k) \cap BooleanWords = {}
    BY <1>g, <2>1
  <2>3. types[k] = FirstFit(TextsIn(k))
    BY <1>1, <2>2, ColumnTold
  <2> QED BY <1>g, <2>1, <2>3 DEF TypeOf
<1>7. /\ has_blanks[k] <=> (~cmd.blanks /\ \E r \in DataRows : texts[r] = Null)
  BY <1>0, <1>1 DEF ColumnOK, Blanks
<1>8. /\ types[k] \in {"bool", "timedelta", "datetime", "date", "number", "text"}
      /\ AllFit(given, k, types[k])
      /\ types[k] \in {"number", "timedelta", "date", "datetime"} => ~AllFit(given, k, "bool")
  <2>1. CASE cmd.no_inference
    <3>1. types[k] = "text"
      BY <1>1, <2>1
    <3>2. AllFit(given, k, "text")
      BY DEF AllFit, Fits
    <3> QED BY <3>1, <3>2
  <2>2. CASE ~cmd.no_inference
    <3>1. PICK j \in DOMAIN Tests : types[k] = Tests[j] /\ FirstToFit(given, k, j)
      BY <1>1, <1>3, <2>2 DEF TypeFound
    <3>2. j \in 1..6 /\ types[k] \in {"bool", "timedelta", "datetime", "date", "number", "text"}
      BY <3>1, TestsFacts
    <3>3. Tests[1] = "bool"
      BY DEF Tests
    <3>4. types[k] # "bool" => 1 \in 1..(j - 1)
      BY <3>1, <3>2, <3>3
    <3>5. types[k] # "bool" => ~AllFit(given, k, "bool")
      BY <3>1, <3>3, <3>4 DEF FirstToFit
    <3> QED BY <3>1, <3>2, <3>5 DEF FirstToFit
  <2> QED BY <2>1, <2>2
<1>9. \A r \in DataRows : (texts[r] # Null \/ cmd.blanks) => Fits(types[k], Fresh(texts[r]))
  BY <1>0, <1>8 DEF AllFit
<1>10. \A r \in DataRows : r \in RowsKept(c) <=> texts[r] # Null \/ cmd.blanks
  BY <1>g DEF RowsKept
<1>11. RowsKept(c) \in SUBSET DataRows
  BY DEF RowsKept
<1>12. IsFiniteSet(DataRows)
  <2>1. PICK n \in Nat : DataRows = 1..n
    BY DEF InputOK
  <2>2. 1 \in Int /\ n \in Int
    BY <2>1
  <2> QED BY <2>1, <2>2, FS_Interval
<1>13. Measured(k) = RowsKept(c)
  <2>1. \A r \in DataRows : Counts(k, table[k][r]) <=> r \in RowsKept(c)
    <3> TAKE r \in DataRows
    <3>1. CASE texts[r] # Null
      BY <1>5, <1>10, <3>1 DEF Counts
    <3>2. CASE texts[r] = Null /\ cmd.blanks
      <4>1. Fits(types[k], Fresh(texts[r])) /\ texts[r] \in Texts
        BY <1>0, <1>9, <3>2
      <4>2. types[k] = "text"
        BY <1>8, <3>2, <4>1, FitTexts
      <4>3. ~has_blanks[k]
        BY <1>7, <3>2
      <4> QED BY <1>10, <3>2, <4>2, <4>3 DEF Counts
    <3>3. CASE texts[r] = Null /\ ~cmd.blanks
      <4>1. has_blanks[k]
        BY <1>7, <3>3
      <4> QED BY <1>5, <1>10, <3>3, <4>1 DEF Counts
    <3> QED BY <3>1, <3>2, <3>3
  <2> QED BY <1>11, <2>1 DEF Measured
<1>14. ASSUME NEW r \in RowsKept(c)
       PROVE  /\ Measure(types[k], table[k][r]) = Measure(types[k], AfterDate(Fresh(texts[r])))
              /\ Measure(types[k], table[k][r]) \in Int
  <2>1. r \in DataRows /\ texts[r] \in Texts /\ texts[r] \notin BooleanWords
    BY <1>0, <1>2, <1>11
  <2>2. Fits(types[k], Fresh(texts[r]))
    BY <1>9, <1>10, <2>1
  <2>3. /\ types[k] = "number" => texts[r] \in Numbers
        /\ types[k] = "timedelta" => texts[r] \in Deltas
        /\ types[k] = "date" => texts[r] \in Dates /\ texts[r] # Null
    BY <2>1, <2>2, FitTexts
  <2>a. PICK a : a = table[k][r]
    OBVIOUS
  <2>b. PICK b : b = AfterDate(Fresh(texts[r]))
    OBVIOUS
  <2>4. a.text = texts[r] /\ b.text = texts[r]
    BY <1>4, <2>1, <2>a, <2>b DEF AfterDate, Fresh
  <2>5. types[k] = "date" => DateOf(a) /\ DateOf(b)
    <3> SUFFICES ASSUME types[k] = "date" PROVE DateOf(a) /\ DateOf(b)
      OBVIOUS
    <3>1. a.datetime_type = "date"
      BY <1>4, <2>1, <2>3, <2>a
    <3>2. b.datetime_type = "date"
      BY <2>3, <2>b DEF AfterDate, Fresh
    <3> QED BY <3>1, <3>2 DEF DateOf
  <2>6. Rank(texts[r]) \in Int
    BY <2>1, RankIsInt
  <2>7. CASE types[k] = "bool"
    BY <2>4, <2>7, <2>a, <2>b DEF Measure
  <2>8. CASE types[k] = "number"
    <3>1. NumberOf[texts[r]] \in Int
      BY <2>3, <2>8 DEF NumberOf, Numbers
    <3> QED BY <2>1, <2>4, <2>8, <2>a, <2>b, <3>1 DEF Measure
  <2>9. CASE types[k] = "timedelta"
    <3>1. SecondsOf[texts[r]] \in Int
      BY <2>3, <2>9 DEF SecondsOf
    <3> QED BY <2>4, <2>9, <2>a, <2>b, <3>1 DEF Measure
  <2>10. CASE types[k] = "date"
    BY <2>4, <2>5, <2>6, <2>10, <2>a, <2>b DEF Measure
  <2>11. CASE types[k] \in {"datetime", "text"}
    BY <2>4, <2>6, <2>11, <2>a, <2>b DEF Measure
  <2> QED BY <1>8, <2>7, <2>8, <2>9, <2>10, <2>11
<1>15. Values(k) = ValuesIn(c) /\ Values(k) \in [RowsKept(c) -> Int]
  <2>1. Values(k) = [r \in RowsKept(c) |-> Measure(types[k], table[k][r])]
    BY <1>13 DEF Values
  <2>2. ValuesIn(c) = [r \in RowsKept(c) |-> Measure(types[k], AfterDate(Fresh(texts[r])))]
    BY <1>6, <1>g DEF ValuesIn
  <2> QED BY <1>14, <2>1, <2>2
<1>16. NullNumber(k) = NullsIn(c)
  BY <1>13 DEF NullNumber, NullsIn
<1>17. types[k] \in {"number", "timedelta", "date", "datetime"} => RowsKept(c) # {}
  <2> SUFFICES ASSUME types[k] \in {"number", "timedelta", "date", "datetime"} PROVE RowsKept(c) # {}
    OBVIOUS
  <2>1. PICK r \in DataRows : ~(texts[r] = Null /\ ~cmd.blanks)
    BY <1>0, <1>8 DEF AllFit
  <2> QED BY <1>10, <2>1
<1> QED BY <1>4, <1>5, <1>6, <1>8, <1>11, <1>12, <1>13, <1>15, <1>16, <1>17, <1>g DEF PlaceTold

-------------------------------------------------------------------------------
(* The statistics of a place are those of its column.                         *)

\* What StatTrue says of a statistic of column c, and of all that are said of it.
StatisticTrue(c, s, said) ==
  IF s \notin Offered(TypeOf(c)) THEN said = <<>>
  ELSE IF s = "freq" THEN FreqTrue(c, said[1])
  ELSE said = <<Expected(c, s)>>
StatisticsTrue(c, statistics) ==
  Range(cmd.cells[c]) \cap BooleanWords = {} =>
    /\ DOMAIN statistics = IF Operation = {} THEN Offered(TypeOf(c)) ELSE Operation
    /\ \A s \in DOMAIN statistics : StatisticTrue(c, s, statistics[s])

LEMMA NullsAre ==
  ASSUME NEW k, NEW c, PlaceTold(k, c), ~BlindOperation,
         Operation = {} \/ Operation \cap {"nulls", "non_nulls"} # {}
  PROVE  /\ NullsOf(k) = NullsIn(c) /\ NullsIn(c) \in Nat
         /\ Cardinality(DataRows) - NullsOf(k) = Cardinality(RowsKept(c))
<1>1. IsFiniteSet(DataRows) /\ RowsKept(c) \in SUBSET DataRows /\ NullNumber(k) = NullsIn(c)
  BY DEF PlaceTold
<1>2. NullsOf(k) = NullsIn(c)
  <2>1. CASE Operation = {}
    BY <1>1, <2>1 DEF NullsOf
  <2>2. CASE Operation # {}
    <3>1. ~cmd.blanks
      BY <2>2 DEF BlindOperation
    <3>2. \A r \in DataRows : IsNull(table[k][r]) <=> cmd.cells[c][r] = Null
      BY DEF PlaceTold
    <3>3. {r \in DataRows : IsNull(table[k][r])} = DataRows \ RowsKept(c)
      BY <3>1, <3>2 DEF RowsKept
    <3> QED BY <2>2, <3>3 DEF NullsOf, NullsIn
  <2> QED BY <2>1, <2>2
<1>3. /\ IsFiniteSet(RowsKept(c)) /\ IsFiniteSet(DataRows \ RowsKept(c))
      /\ Cardinality(DataRows \ RowsKept(c)) = Cardinality(DataRows) - Cardinality(DataRows \cap RowsKept(c))
  BY <1>1, FS_Subset, FS_Difference
<1>4. DataRows \cap RowsKept(c) = RowsKept(c)
  BY <1>1
<1>5. /\ Cardinality(DataRows) \in Nat /\ Cardinality(RowsKept(c)) \in Nat
      /\ Cardinality(DataRows \ RowsKept(c)) \in Nat
  BY <1>1, <1>3, FS_CardinalityType
<1> QED BY <1>2, <1>3, <1>4, <1>5 DEF NullsIn

LEMMA OfferedFacts ==
  ASSUME NEW type \in {"bool", "timedelta", "datetime", "date", "number", "text"}
  PROVE  /\ Always \subseteq Offered(type)
         /\ \A s \in Offered(type) : s \in Always \cup {"min", "max", "sum", "median", "len"}
         /\ "min" \in Offered(type) \/ "max" \in Offered(type) \/ "sum" \in Offered(type) =>
              type \in {"number", "timedelta", "date", "datetime"}
         /\ "median" \in Offered(type) => type = "number"
<1>1. \A s \in Always : s \notin {"min", "max", "sum", "median", "len"}
  BY DEF Always
<1> QED BY <1>1 DEF Offered

LEMMA StatisticIsTrue ==
  ASSUME NEW k, NEW c, PlaceTold(k, c), ~BlindOperation, cmd.freq_count \in Nat \ {0},
         NEW s, Operation = {} \/ s \in Operation,
         NEW median, types[k] = "number" /\ s = "median" => median \in Median(k),
         NEW q, s = "freq" => q \in McvVec(k)
  PROVE  StatisticTrue(c, s, Statistic(k, s, median, q))
<1> DEFINE D == RowsKept(c)
           V == Values(k)
           n == Cardinality(D)
<1>1. /\ types[k] = TypeOf(c) /\ types[k] \in {"bool", "timedelta", "datetime", "date", "number", "text"}
      /\ D \in SUBSET DataRows /\ IsFiniteSet(DataRows) /\ IsFiniteSet(D)
      /\ V = ValuesIn(c) /\ V \in [D -> Int] /\ NullNumber(k) = NullsIn(c) /\ Measured(k) = D
      /\ types[k] \in {"number", "timedelta", "date", "datetime"} => D # {}
  BY FS_Subset DEF PlaceTold
<1>2. CASE s \notin Offered(types[k])
  <2>1. s \notin Always
    BY <1>1, <1>2, OfferedFacts
  <2>2. Statistic(k, s, median, q) = <<>>
    BY <1>2, <2>1 DEF Statistic
  <2> QED BY <1>1, <1>2, <2>2 DEF StatisticTrue
<1> SUFFICES ASSUME s \in Offered(types[k])
             PROVE  StatisticTrue(c, s, Statistic(k, s, median, q))
  BY <1>2
<1>n. NullsIn(c) \in Nat
  BY <1>1, FS_Subset, FS_CardinalityType DEF NullsIn
<1>3. s \in Always \cup {"min", "max", "sum", "median", "len"}
  BY <1>1, OfferedFacts
<1>4. ASSUME s # "freq", Statistic(k, s, median, q) = <<Expected(c, s)>>
      PROVE  StatisticTrue(c, s, Statistic(k, s, median, q))
  BY <1>1, <1>4 DEF StatisticTrue
<1>5. CASE s = "type"
  <2>1. Statistic(k, s, median, q) = <<types[k]>>
    BY <1>5 DEF Statistic, Always
  <2>2. Expected(c, s) = TypeOf(c)
    BY <1>5 DEF Expected
  <2> QED BY <1>1, <1>4, <1>5, <2>1, <2>2
<1>6. CASE s = "nulls"
  <2>1. Statistic(k, s, median, q) = <<NullsOf(k) > 0>>
    BY <1>6 DEF Statistic, Always
  <2>2. Expected(c, s) = (NullsIn(c) > 0)
    BY <1>6 DEF Expected
  <2>3. NullsOf(k) = NullsIn(c)
    BY <1>6, NullsAre
  <2> QED BY <1>4, <1>6, <2>1, <2>2, <2>3
<1>7. CASE s = "non_nulls"
  <2>1. Statistic(k, s, median, q) = <<Cardinality(DataRows) - NullsOf(k)>>
    BY <1>7 DEF Statistic, Always
  <2>2. Expected(c, s) = n
    BY <1>7 DEF Expected
  <2>3. Cardinality(DataRows) - NullsOf(k) = n
    BY <1>7, NullsAre
  <2> QED BY <1>4, <1>7, <2>1, <2>2, <2>3
<1>8. CASE s = "unique"
  <2>1. Statistic(k, s, median, q) = <<Unique(k)>>
    BY <1>8 DEF Statistic, Always
  <2>2. Expected(c, s) = Cardinality(Range(V)) + Min({1, NullsIn(c)})
    BY <1>1, <1>8 DEF Expected
  <2>3. Min({1, NullsIn(c)}) = IF NullsIn(c) > 0 THEN 1 ELSE 0
    BY <1>n, LesserOfTwo
  <2>4. Unique(k) = Cardinality(Range(V)) + (IF NullsIn(c) > 0 THEN 1 ELSE 0)
    BY <1>1 DEF Unique, Keys
  <2>5. Unique(k) = Expected(c, s)
    BY <2>2, <2>3, <2>4
  <2> QED BY <1>4, <1>8, <2>1, <2>5
<1>9. CASE s = "freq"
  <2>1. Statistic(k, s, median, q) = <<Mcv(k, q)>>
    BY <1>9 DEF Statistic, Always
  <2>2. FreqTrue(c, Mcv(k, q))
    BY <1>1, <1>9, <1>n, FreqIsTrue
  <2> QED BY <1>1, <1>9, <2>1, <2>2 DEF StatisticTrue
<1>10. CASE s = "min"
  <2>1. D # {}
    BY <1>1, <1>10, OfferedFacts
  <2>2. Statistic(k, s, median, q) = <<Min(Keys(k))>>
    BY <1>10 DEF Statistic, Always
  <2>3. Expected(c, s) = Nth(V, 1)
    BY <1>1, <1>10 DEF Expected
  <2>4. Min(Keys(k)) = Nth(V, 1)
    BY <1>1, <2>1, EndsAre DEF Keys
  <2> QED BY <1>4, <1>10, <2>2, <2>3, <2>4
<1>11. CASE s = "max"
  <2>1. D # {}
    BY <1>1, <1>11, OfferedFacts
  <2>2. Statistic(k, s, median, q) = <<Max(Keys(k))>>
    BY <1>11 DEF Statistic, Always
  <2>3. Expected(c, s) = Nth(V, n)
    BY <1>1, <1>11 DEF Expected
  <2>4. Max(Keys(k)) = Nth(V, n)
    BY <1>1, <2>1, EndsAre DEF Keys
  <2> QED BY <1>4, <1>11, <2>2, <2>3, <2>4
<1>12. CASE s = "sum"
  <2>1. Statistic(k, s, median, q) = <<SumFunction(V)>>
    BY <1>12 DEF Statistic, Always
  <2>2. Expected(c, s) = SumFunction([v \in Range(V) |-> v * Occurrences(V, v)])
    BY <1>1, <1>12 DEF Expected
  <2>3. SumFunction([v \in Range(V) |-> v * Occurrences(V, v)]) = SumFunction(V)
    BY <1>1, SumGrouped
  <2> QED BY <1>4, <1>12, <2>1, <2>2, <2>3
<1>13. CASE s = "median"
  <2>1. types[k] = "number" /\ D # {}
    BY <1>1, <1>13, OfferedFacts
  <2>2. Statistic(k, s, median, q) = <<median>>
    BY <1>13 DEF Statistic, Always
  <2>3. Expected(c, s) = Nth(V, (n + 1) \div 2) + Nth(V, n \div 2 + 1)
    BY <1>1, <1>13 DEF Expected
  <2>4. median = Nth(V, (n + 1) \div 2) + Nth(V, n \div 2 + 1)
    BY <1>1, <1>13, <2>1, MedianIs
  <2> QED BY <1>4, <1>13, <2>2, <2>3, <2>4
<1>14. CASE s = "len"
  <2>1. Statistic(k, s, median, q) = <<Longest(k)>>
    BY <1>14 DEF Statistic, Always
  <2>2. Expected(c, s) = Max({0} \cup {Len(cmd.cells[c][r]) : r \in D})
    BY <1>14 DEF Expected
  <2>3. \A r \in D : table[k][r].text = cmd.cells[c][r]
    BY <1>1 DEF PlaceTold
  <2>4. {Len(cmd.cells[c][r]) : r \in D} = {Len(table[k][r].text) : r \in Measured(k)}
    BY <1>1, <2>3
  <2> QED BY <1>4, <1>14, <2>1, <2>2, <2>4 DEF Longest
<1> QED BY <1>3, <1>5, <1>6, <1>7, <1>8, <1>9, <1>10, <1>11, <1>12, <1>13, <1>14 DEF Always

LEMMA StatisticsAreTrue ==
  ASSUME NEW k, NEW c, PlaceTold(k, c), ~BlindOperation, cmd.freq_count \in Nat \ {0},
         NEW statistics \in Statistics(k)
  PROVE  StatisticsTrue(c, statistics)
<1>w. PICK wanted : wanted = IF Operation = {} THEN Offered(types[k]) ELSE Operation
  OBVIOUS
<1>m. PICK M : M = IF types[k] = "number" /\ "median" \in wanted THEN Median(k) ELSE {0}
  OBVIOUS
<1>l. PICK L : L = IF "freq" \in wanted THEN McvVec(k) ELSE {<<>>}
  OBVIOUS
<1>1. Statistics(k) = {[s \in wanted |-> Statistic(k, s, m, l)] : m \in M, l \in L}
  BY <1>w, <1>m, <1>l DEF Statistics
<1>2. PICK m \in M : \E l \in L : statistics = [s \in wanted |-> Statistic(k, s, m, l)]
  BY <1>1
<1>3. PICK l \in L : statistics = [s \in wanted |-> Statistic(k, s, m, l)]
  BY <1>2
<1>4. types[k] = TypeOf(c)
  BY DEF PlaceTold
<1>5. ASSUME NEW s \in wanted
      PROVE  StatisticTrue(c, s, statistics[s])
  <2>1. Operation = {} \/ s \in Operation
    BY <1>w
  <2>2. types[k] = "number" /\ s = "median" => m \in Median(k)
    BY <1>m
  <2>3. s = "freq" => l \in McvVec(k)
    BY <1>l
  <2>4. StatisticTrue(c, s, Statistic(k, s, m, l))
    BY <2>1, <2>2, <2>3, StatisticIsTrue
  <2> QED BY <1>3, <2>4
<1> QED BY <1>w, <1>3, <1>4, <1>5 DEF StatisticsTrue

-------------------------------------------------------------------------------
(* The statistics csvStat prints.                                             *)

ResultsTrue ==
  \A k \in DOMAIN stat_ids \ unfinished : Calculates(k) => StatisticsTrue(stat_ids[k], results[k])
\* What StatTrue says of the output.
SaidTrue(o) ==
  LET columns == ColumnsIn(o) IN
  \A i \in DOMAIN columns : StatisticsTrue(ColumnOf(columns[i]), columns[i].statistics)
StatSaysOK ==
  /\ at \in StatAtWork =>
       cmd.names # <<>> /\ \A k \in DOMAIN stat_ids : stat_ids[k] \in 1..Len(cmd.names)
  /\ at \in {"typifying", "calculating"} => \A k \in DOMAIN StatGiven : CellsRead(StatGiven, k)
  /\ at \in {"calculating", "printing"} =>
       DOMAIN results = DOMAIN stat_ids /\ (~BlindOperation => ResultsTrue)
  /\ at = "printing" => unfinished = {}
  /\ at = "done" /\ types # <<>> /\ ~BlindOperation => SaidTrue(out)
StatSaysInv == cmd.tool = "stat" => StatSaysOK

LEMMA FirstsCalculate ==
  ASSUME IsSeq(stat_ids)
  PROVE  \A i \in DOMAIN FirstPlaces : Calculates(FirstPlaces[i])
<1>1. Len(stat_ids) \in Nat /\ DOMAIN stat_ids = 1..Len(stat_ids)
  BY IsSeqFacts
<1>a. PICK t : t = Firsts
  OBVIOUS
<1>2. t = [k \in 1..Len(stat_ids) |-> FirstAt(k)]
  BY <1>1, <1>a DEF Firsts
<1>3. IsSeq(t) /\ Len(t) = Len(stat_ids) /\ DOMAIN t = 1..Len(stat_ids)
  <2>1. DOMAIN t = 1..Len(stat_ids) /\ t = [k \in 1..Len(stat_ids) |-> t[k]]
    BY <1>2
  <2> QED BY <1>1, <2>1, IsSeqFunction
<1>4. \A k \in DOMAIN t : IsSeq(t[k]) /\ t[k] = FirstAt(k)
  BY <1>2, <1>3, FirstAtFacts
<1>b. PICK f : f = FlattenSeq(t)
  OBVIOUS
<1>5. f = FirstPlaces
  BY <1>a, <1>b DEF FirstPlaces, Firsts, FirstAt
<1>6. Gathered(f, t, Len(t))
  BY <1>3, <1>4, <1>b, FlattenFacts
<1>7. ASSUME NEW i \in DOMAIN f PROVE Calculates(f[i])
  <2>1. PICK k \in 1..Len(t) : \E j \in DOMAIN t[k] : f[i] = t[k][j]
    BY <1>6, <1>7 DEF Gathered
  <2>2. PICK j \in DOMAIN t[k] : f[i] = t[k][j]
    BY <2>1
  <2>3. t[k] = FirstAt(k)
    BY <1>3, <1>4, <2>1
  <2>4. CASE Calculates(k)
    <3>1. t[k] = <<k>>
      BY <2>3, <2>4, FirstAtFacts
    <3>2. f[i] = k
      BY <2>2, <3>1, SingletonIsSeq
    <3> QED BY <2>4, <3>2
  <2>5. CASE ~Calculates(k)
    <3>1. t[k] = <<>>
      BY <2>3, <2>5, FirstAtFacts
    <3>2. DOMAIN t[k] = {}
      BY <3>1
    <3> QED BY <2>2, <3>2
  <2> QED BY <2>4, <2>5
<1> QED BY <1>5, <1>7

\* What is said of a column depends on the command line alone.
LEMMA StatisticsStayTrue ==
  ASSUME UNCHANGED cmd, NEW c, NEW statistics, StatisticsTrue(c, statistics)
  PROVE  StatisticsTrue(c, statistics)'
<1>1. TypeOf(c)' = TypeOf(c)
  BY DEF TypeOf, FirstFit, Fits
<1>2. RowsKept(c)' = RowsKept(c) /\ DataRows' = DataRows
  BY DEF RowsKept, DataRows
<1>3. ValuesIn(c)' = ValuesIn(c)
  BY <1>1, <1>2 DEF ValuesIn
<1>4. NullsIn(c)' = NullsIn(c)
  BY <1>2 DEF NullsIn
<1>5. \A items : FreqTrue(c, items)' = FreqTrue(c, items)
  BY <1>3, <1>4 DEF FreqTrue
<1>6. \A s : Expected(c, s)' = Expected(c, s)
  BY <1>1, <1>2, <1>3, <1>4 DEF Expected
<1>7. \A s, said : StatisticTrue(c, s, said)' = StatisticTrue(c, s, said)
  BY <1>1, <1>5, <1>6 DEF StatisticTrue
<1> QED BY <1>1, <1>7 DEF StatisticsTrue, Operation

LEMMA StatCellsRows ==
  ASSUME Asked, cmd.tool = "stat", cmd.names # <<>>
  PROVE  /\ \A c \in 1..Len(cmd.names) : DOMAIN cmd.cells[c] = DataRows
         /\ cmd.freq_count \in Nat \ {0}
<1>1. /\ cmd.cells \in Seq(Seq(Texts)) /\ cmd.names \in Seq(STRING)
      /\ \A c \in DOMAIN cmd.cells : Len(cmd.cells[c]) = Len(cmd.cells[1])
      /\ Len(cmd.cells) = Len(cmd.names) /\ cmd.freq_count \in Nat \ {0}
  BY StatAssumption DEF Asked
<1>2. /\ DOMAIN cmd.cells = 1..Len(cmd.cells) /\ Len(cmd.cells) \in Nat
      /\ Len(cmd.names) > 0
  BY <1>1, LenProperties, EmptySeq
<1>3. 1 \in DOMAIN cmd.cells /\ cmd.cells # <<>>
  BY <1>1, <1>2
<1>4. \A c \in DOMAIN cmd.cells : cmd.cells[c] \in Seq(Texts)
  BY <1>1, <1>2, ElementOfSeq
<1>5. \A c \in DOMAIN cmd.cells : DOMAIN cmd.cells[c] = 1..Len(cmd.cells[c])
  BY <1>4, LenProperties
<1>6. DataRows = DOMAIN cmd.cells[1]
  BY <1>3 DEF DataRows
<1> QED BY <1>1, <1>2, <1>3, <1>5, <1>6

\* A task of a column finds its statistics.
LEMMA TaskSaysTrue ==
  ASSUME StatOK, StatTypesOK, StatSaysOK, cmd.tool = "stat", at = "calculating", ~BlindOperation,
         NEW k \in DOMAIN stat_ids, NEW statistics \in Statistics(k)
  PROVE  StatisticsTrue(stat_ids[k], statistics)
<1>c. PICK c : c = stat_ids[k]
  OBVIOUS
<1>g. PICK given : given = StatGiven
  OBVIOUS
<1>1. /\ cmd.names # <<>> /\ c \in 1..Len(cmd.names) /\ Asked /\ at \in StatAtWork
      /\ k \in DOMAIN given /\ given[k] = cmd.cells[c] /\ CellsRead(given, k)
  BY <1>c, <1>g DEF StatSaysOK, StatOK, StatAtWork, StatGiven
<1>2. /\ InputOK /\ FilledWith(given) /\ TypesSettled(given) /\ (~cmd.no_inference => TypesFound(given))
  BY <1>1, <1>g DEF StatTypesOK
<1>3. /\ DOMAIN cmd.cells[c] = DataRows /\ cmd.freq_count \in Nat \ {0}
      /\ \A r \in DataRows : cmd.cells[c][r] \in Texts
  BY <1>1, StatCellsFacts, StatCellsRows
<1>4. CASE Range(cmd.cells[c]) \cap BooleanWords = {}
  <2>1. PlaceTold(k, c)
    BY <1>1, <1>2, <1>3, <1>4, PlaceIsTold
  <2>2. StatisticsTrue(c, statistics)
    BY <1>3, <2>1, StatisticsAreTrue
  <2> QED BY <1>c, <2>2
<1>5. CASE Range(cmd.cells[c]) \cap BooleanWords # {}
  BY <1>5, <1>c DEF StatisticsTrue
<1> QED BY <1>4, <1>5

LEMMA OutputSaysTrue ==
  ASSUME StatIdsOK, ResultsTrue, unfinished = {}, NEW n, n = Len(stat_ids), NEW o, StatShown(o, n),
         ~(Counting /\ stat_ids = <<>>),
         NEW p, p = IF Counting THEN Append(o, CountLine) ELSE o
  PROVE  SaidTrue(p)
<1>1. IsSeq(o) /\ Matched(ColumnsIn(o), FirstUpTo(n))
  BY DEF StatShown, ColumnsMatch
<1>2. IsSeq(stat_ids) /\ n \in Nat /\ DOMAIN stat_ids = 1..n
  BY IsSeqFacts DEF StatIdsOK
<1>3. ColumnsIn(p) = ColumnsIn(o)
  <2>1. CASE Counting
    BY <1>1, <2>1, ColumnsCounted
  <2>2. CASE ~Counting
    BY <2>2
  <2> QED BY <2>1, <2>2
<1>c. PICK c : c = ColumnsIn(o)
  OBVIOUS
<1>f. PICK f : f = FirstPlaces
  OBVIOUS
<1>4. FirstUpTo(n) = f
  BY <1>2, <1>f, FirstUpToStep
<1>5. Len(c) = Len(f) /\ \A i \in 1..Len(c) : f[i] \in DOMAIN stat_ids /\ c[i] = ColumnLine(f[i])
  BY <1>1, <1>4, <1>c DEF Matched
<1>6. DOMAIN c = 1..Len(c) /\ DOMAIN f = 1..Len(f)
  <2>1. IsSeq(c)
    BY <1>1, <1>c, ColumnsIsSeq
  <2>2. IsSeq(f)
    BY <1>2, <1>4, FirstUpToStep
  <2> QED BY <2>1, <2>2, IsSeqFacts
<1>7. \A i \in DOMAIN f : Calculates(f[i])
  BY <1>2, <1>f, FirstsCalculate
<1>8. TableOf(p)
  BY TableShown
<1>9. \A i \in DOMAIN c : ColumnOf(c[i]) = stat_ids[f[i]]
  BY <1>3, <1>8, <1>c, <1>f DEF TableOf
<1>10. ASSUME NEW i \in DOMAIN c
       PROVE  StatisticsTrue(ColumnOf(c[i]), c[i].statistics)
  <2>k. PICK k : k = f[i]
    OBVIOUS
  <2>1. k \in DOMAIN stat_ids /\ c[i] = ColumnLine(k) /\ Calculates(k)
    BY <1>5, <1>6, <1>7, <2>k
  <2>2. StatisticsTrue(stat_ids[k], results[k])
    BY <2>1 DEF ResultsTrue
  <2>3. ColumnLine(k).statistics = results[k]
    BY DEF ColumnLine, StatLine
  <2> QED BY <1>9, <2>1, <2>2, <2>3, <2>k
<1> QED BY <1>3, <1>10, <1>c DEF SaidTrue

\* The cells of a column that no test looks at stay as they are.
LEMMA CellsStayRead ==
  ASSUME UNCHANGED cmd, NEW given, NEW k, CellsRead(given, k), table'[k] = table[k], trying'[k] = trying[k],
         types'[k] \in {types[k], "text"}
  PROVE  CellsRead(given, k)'
<1>1. DataRows' = DataRows /\ TaskEnded' = TaskEnded
  BY DEF DataRows, TaskEnded, Tests
<1> QED BY <1>1 DEF CellsRead

LEMMA ResultsStayTrue ==
  ASSUME UNCHANGED <<cmd, stat_ids, unfinished, results>>, ResultsTrue
  PROVE  ResultsTrue'
<1> SUFFICES ASSUME NEW k \in DOMAIN stat_ids \ unfinished, Calculates(k)
             PROVE  StatisticsTrue(stat_ids[k], results[k])'
  BY DEF ResultsTrue, Calculates
<1>c. PICK c : c = stat_ids[k]
  OBVIOUS
<1>s. PICK statistics : statistics = results[k]
  OBVIOUS
<1>1. StatisticsTrue(c, statistics)
  BY <1>c, <1>s DEF ResultsTrue
<1>2. StatisticsTrue(c, statistics)'
  BY <1>1, StatisticsStayTrue
<1> QED BY <1>2, <1>c, <1>s

\* A line read as it is, whatever the state.
LEMMA SaidStaysTrue ==
  ASSUME UNCHANGED <<cmd, stat_ids>>, NEW o, SaidTrue(o)
  PROVE  SaidTrue(o)'
<1>c. PICK c : c = ColumnsIn(o)
  OBVIOUS
<1>1. ASSUME NEW i \in DOMAIN c
      PROVE  StatisticsTrue(ColumnOf(c[i]), c[i].statistics)'
  <2>a. PICK a : a = ColumnOf(c[i])
    OBVIOUS
  <2>b. PICK b : b = c[i].statistics
    OBVIOUS
  <2>1. StatisticsTrue(a, b)
    BY <1>c, <2>a, <2>b DEF SaidTrue
  <2>2. StatisticsTrue(a, b)'
    BY <2>1, StatisticsStayTrue
  <2>3. ColumnOf(c[i])' = a
    BY <2>a DEF ColumnOf
  <2> QED BY <2>2, <2>3, <2>b
<1> QED BY <1>1, <1>c DEF SaidTrue

LEMMA StatSaysStep ==
  ASSUME StatOK, StatTypesOK, StatSaysOK, cmd.tool = "stat", UNCHANGED cmd,
         StatNext \/ UNCHANGED <<toolVars, typifyVars, statVars>>
  PROVE  StatSaysOK'
<1>b. BlindOperation' = BlindOperation
  BY DEF BlindOperation, Operation
<1>1. CASE \E condition, lines : \E place \in {"done", "failed", "rejected"} :
             StatOf(condition, place, lines)
  <2>1. /\ at = "start" /\ at' \in {"done", "failed", "rejected"} /\ UNCHANGED types
    BY <1>1 DEF StatOf, Goto, typifyVars
  <2>2. types' = <<>>
    BY <2>1 DEF StatOK
  <2> QED BY <2>1, <2>2 DEF StatSaysOK, StatAtWork
<1>2. CASE StatFill
  <2>1. /\ at' = "typifying" /\ stat_ids' = StatIds /\ cmd.names # <<>> /\ Understood(StatIds)
        /\ TypifyStart([k \in DOMAIN StatIds |-> cmd.cells[StatIds[k]]])
    BY <1>2 DEF StatFill, Filled, Examined, StatRefused, Goto
  <2>i. PICK ids : ids = StatIds
    OBVIOUS
  <2>2. \A k \in DOMAIN ids : ids[k] \in 1..Len(cmd.names)
    BY <2>1, <2>i, StatIdsFound DEF StatOK
  <2>3. stat_ids' = ids /\ DOMAIN StatGiven' = DOMAIN ids
    BY <2>1, <2>i DEF StatGiven
  <2>4. \A k \in DOMAIN ids : trying'[k] = 1
    BY <2>1, <2>i DEF TypifyStart
  <2>5. \A k \in DOMAIN ids : CellsRead(StatGiven, k)'
    BY <2>4, TestsFacts DEF CellsRead, TaskEnded, Tests
  <2> QED BY <2>1, <2>2, <2>3, <2>5 DEF StatSaysOK, StatAtWork
<1>3. CASE StatTypes
  <2>1. at = "typifying" /\ at' = at /\ stat_ids' = stat_ids /\ TryTypes
    BY <1>3 DEF StatTypes, statVars
  <2>g. PICK given : given = StatGiven
    OBVIOUS
  <2>2. /\ InputOK /\ FilledWith(given) /\ \A k \in DOMAIN given : CellsRead(given, k)
        /\ cmd.names # <<>> /\ \A k \in DOMAIN stat_ids : stat_ids[k] \in 1..Len(cmd.names)
    BY <2>1, <2>g DEF StatTypesOK, StatSaysOK, StatAtWork
  <2>3. given = StatGiven'
    BY <2>1, <2>g DEF StatGiven
  <2>4. PICK c \in DOMAIN trying : TryType(c)
    BY <2>1 DEF TryTypes
  <2>5. DOMAIN trying = DOMAIN given /\ DOMAIN table = DOMAIN given /\ DOMAIN types = DOMAIN given
    BY <2>2 DEF FilledWith
  <2>6. ASSUME NEW k \in DOMAIN given
        PROVE  CellsRead(given, k)'
    <3>1. CASE k = c
      BY <2>2, <2>4, <2>5, <3>1, ColumnRead
    <3>2. CASE k # c
      <4>1. table'[k] = table[k] /\ trying'[k] = trying[k] /\ types'[k] = types[k]
        BY <2>4, <2>5, <3>2 DEF TryType
      <4> QED BY <2>2, <4>1, CellsStayRead
    <3> QED BY <3>1, <3>2
  <2>7. \A k \in DOMAIN StatGiven' : CellsRead(StatGiven, k)'
    BY <2>3, <2>6 DEF CellsRead
  <2> QED BY <2>1, <2>2, <2>7 DEF StatSaysOK, StatAtWork
<1>4. CASE StatTasks
  <2>1. /\ at = "typifying" /\ at' = "calculating" /\ stat_ids' = stat_ids /\ TypifyEnd
        /\ unfinished' = DOMAIN stat_ids /\ DOMAIN results' = DOMAIN stat_ids
    BY <1>4 DEF StatTasks, Goto
  <2>g. PICK given : given = StatGiven
    OBVIOUS
  <2>2. /\ FilledWith(given) /\ \A k \in DOMAIN given : CellsRead(given, k)
        /\ cmd.names # <<>> /\ \A k \in DOMAIN stat_ids : stat_ids[k] \in 1..Len(cmd.names)
    BY <2>1, <2>g DEF StatTypesOK, StatSaysOK, StatAtWork
  <2>3. given = StatGiven'
    BY <2>1, <2>g DEF StatGiven
  <2>4. ASSUME NEW k \in DOMAIN given
        PROVE  CellsRead(given, k)'
    <3>1. table' = table /\ trying' = trying /\ types'[k] \in {types[k], "text"}
      BY <2>1, <2>2 DEF TypifyEnd, FilledWith
    <3> QED BY <2>2, <3>1, CellsStayRead
  <2>5. \A k \in DOMAIN StatGiven' : CellsRead(StatGiven, k)'
    BY <2>3, <2>4 DEF CellsRead
  <2>6. ResultsTrue'
    BY <2>1 DEF ResultsTrue
  <2> QED BY <2>1, <2>2, <2>5, <2>6 DEF StatSaysOK, StatAtWork
<1>5. CASE StatColumn
  <2>1. PICK k \in unfinished : StatTask(k)
    BY <1>5 DEF StatColumn
  <2>2. /\ at = "calculating" /\ at' = at /\ stat_ids' = stat_ids /\ unfinished' = unfinished \ {k}
        /\ UNCHANGED typifyVars
    BY <2>1 DEF StatTask
  <2>3. PICK statistics \in (IF Calculates(k) THEN Statistics(k) ELSE {NoStatistics}) :
          results' = [results EXCEPT ![k] = statistics]
    BY <2>1 DEF StatTask
  <2>4. /\ \A j \in DOMAIN StatGiven : CellsRead(StatGiven, j)
        /\ cmd.names # <<>> /\ \A j \in DOMAIN stat_ids : stat_ids[j] \in 1..Len(cmd.names)
        /\ DOMAIN results = DOMAIN stat_ids /\ (~BlindOperation => ResultsTrue)
    BY <2>2 DEF StatSaysOK, StatAtWork
  <2>g. PICK given : given = StatGiven
    OBVIOUS
  <2>5. given = StatGiven'
    BY <2>2, <2>g DEF StatGiven
  <2>6. \A j \in DOMAIN StatGiven' : CellsRead(StatGiven, j)'
    <3>1. UNCHANGED <<table, trying, types>>
      BY <2>2 DEF typifyVars
    <3>2. \A j \in DOMAIN given : CellsRead(given, j)'
      BY <2>4, <2>g, <3>1, CellsStayRead
    <3> QED BY <2>5, <3>2 DEF CellsRead
  <2>7. DOMAIN results' = DOMAIN stat_ids'
    BY <2>2, <2>3, <2>4
  <2>8. ASSUME ~BlindOperation, NEW j \in DOMAIN stat_ids \ (unfinished \ {k}), Calculates(j)
        PROVE  StatisticsTrue(stat_ids[j], results[j])'
    <3>c. PICK c : c = stat_ids[j]
      OBVIOUS
    <3>s. PICK said : said = results'[j]
      OBVIOUS
    <3>1. StatisticsTrue(c, said)
      <4>1. CASE j = k
        <5>1. statistics \in Statistics(k) /\ k \in DOMAIN stat_ids
          BY <2>3, <2>8, <4>1
        <5>2. StatisticsTrue(stat_ids[k], statistics)
          BY <2>2, <2>8, <5>1, TaskSaysTrue
        <5>3. said = statistics
          BY <2>3, <2>4, <3>s, <4>1, <5>1
        <5> QED BY <3>c, <4>1, <5>2, <5>3
      <4>2. CASE j # k
        <5>1. StatisticsTrue(stat_ids[j], results[j])
          BY <2>4, <2>8, <4>2 DEF ResultsTrue
        <5>2. said = results[j]
          BY <2>3, <2>4, <3>s, <4>2
        <5> QED BY <3>c, <5>1, <5>2
      <4> QED BY <4>1, <4>2
    <3>2. StatisticsTrue(c, said)'
      BY <3>1, StatisticsStayTrue
    <3> QED BY <2>2, <3>2, <3>c, <3>s
  <2>9. ~BlindOperation => ResultsTrue'
    BY <2>2, <2>8 DEF ResultsTrue, Calculates
  <2> QED BY <1>b, <2>2, <2>4, <2>6, <2>7, <2>9 DEF StatSaysOK, StatAtWork
<1>6. CASE StatWaited
  <2>1. /\ at = "calculating" /\ at' = "printing" /\ unfinished = {}
        /\ UNCHANGED <<stat_ids, unfinished, results>>
    BY <1>6 DEF StatWaited, Goto, statVars
  <2>2. ~BlindOperation => ResultsTrue'
    BY <2>1, ResultsStayTrue DEF StatSaysOK
  <2> QED BY <1>b, <2>1, <2>2 DEF StatSaysOK, StatAtWork
<1>7. CASE StatPrint
  <2>1. /\ at = "printing" /\ at' = at /\ UNCHANGED <<stat_ids, unfinished, results>>
    BY <1>7 DEF StatPrint
  <2>2. ~BlindOperation => ResultsTrue'
    BY <2>1, ResultsStayTrue DEF StatSaysOK
  <2> QED BY <1>b, <2>1, <2>2 DEF StatSaysOK, StatAtWork
<1>8. CASE StatEnd
  <2>1. /\ at = "printing" /\ at' = "done" /\ columns_shown = Len(stat_ids)
        /\ ~(Counting /\ stat_ids = <<>>) /\ UNCHANGED <<stat_ids, results>>
        /\ out' = IF Counting THEN Append(out, CountLine) ELSE out
    BY <1>8 DEF StatEnd, Goto, statVars
  <2>o. PICK o : o = out
    OBVIOUS
  <2>n. PICK n : n = columns_shown
    OBVIOUS
  <2>p. PICK p : p = out'
    OBVIOUS
  <2>2. StatIdsOK /\ StatShown(o, n) /\ n = Len(stat_ids) /\ unfinished = {}
    BY <2>1, <2>n, <2>o DEF StatOK, StatSaysOK
  <2>3. p = IF Counting THEN Append(o, CountLine) ELSE o
    BY <2>1, <2>o, <2>p
  <2>4. ASSUME ~BlindOperation PROVE SaidTrue(out)'
    <3>1. ResultsTrue
      BY <2>1, <2>4 DEF StatSaysOK
    <3>2. SaidTrue(p)
      BY <2>1, <2>2, <2>3, <3>1, OutputSaysTrue
    <3>3. SaidTrue(p)'
      BY <2>1, <3>2, SaidStaysTrue
    <3> QED BY <2>p, <3>3
  <2> QED BY <1>b, <2>1, <2>4 DEF StatSaysOK, StatAtWork
<1>9. CASE StatOfNothing
  <2>1. at' = "undefined"
    BY <1>9 DEF StatOfNothing, Goto
  <2> QED BY <2>1 DEF StatSaysOK, StatAtWork
<1>10. CASE UNCHANGED <<toolVars, typifyVars, statVars>>
  <2>1. UNCHANGED <<at, out, table, trying, types, stat_ids, unfinished, results>>
    BY <1>10 DEF toolVars, typifyVars, statVars
  <2>g. PICK given : given = StatGiven
    OBVIOUS
  <2>2. given = StatGiven'
    BY <2>1, <2>g DEF StatGiven
  <2>3. at \in {"typifying", "calculating"} => \A k \in DOMAIN StatGiven' : CellsRead(StatGiven, k)'
    <3>1. at \in {"typifying", "calculating"} => \A k \in DOMAIN given : CellsRead(given, k)'
      BY <2>1, <2>g, CellsStayRead DEF StatSaysOK
    <3> QED BY <2>2, <3>1 DEF CellsRead
  <2>4. at \in {"calculating", "printing"} /\ ~BlindOperation => ResultsTrue'
    BY <2>1, ResultsStayTrue DEF StatSaysOK
  <2>o. PICK o : o = out
    OBVIOUS
  <2>5. at = "done" /\ types # <<>> /\ ~BlindOperation => SaidTrue(out)'
    <3>1. at = "done" /\ types # <<>> /\ ~BlindOperation => SaidTrue(o)'
      BY <2>1, <2>o, SaidStaysTrue DEF StatSaysOK
    <3> QED BY <2>1, <2>o, <3>1
  <2> QED BY <1>b, <2>1, <2>3, <2>4, <2>5 DEF StatSaysOK, StatAtWork
<1>11. StatRejected \/ StatNames \/ StatCounted \/ StatUnknown \/ StatTooLong \/ StatCount =>
         \E condition, lines : \E place \in {"done", "failed", "rejected"} :
           StatOf(condition, place, lines)
  BY DEF StatRejected, StatNames, StatCounted, StatUnknown, StatTooLong, StatCount
<1> QED BY <1>1, <1>2, <1>3, <1>4, <1>5, <1>6, <1>7, <1>8, <1>9, <1>10, <1>11 DEF StatNext

LEMMA StatisticsTold == StatInv /\ StatSaysInv => StatTrue
<1> SUFFICES ASSUME StatInv, StatSaysInv, StatDone, ~BlindOperation,
                    NEW column \in Range(ColumnsPrinted)
             PROVE  LET c == ColumnOf(column) IN
                    Range(cmd.cells[c]) \cap BooleanWords = {} =>
                      /\ DOMAIN column.statistics = IF Operation = {} THEN Offered(TypeOf(c)) ELSE Operation
                      /\ \A s \in DOMAIN column.statistics :
                           LET said == column.statistics[s] IN
                           IF s \notin Offered(TypeOf(c)) THEN said = <<>>
                           ELSE IF s = "freq" THEN FreqTrue(c, said[1])
                           ELSE said = <<Expected(c, s)>>
  BY DEF StatTrue
<1>1. IsSeq(out) /\ SaidTrue(out) /\ held = <<>>
  BY DEF StatInv, StatSaysInv, StatOK, StatSaysOK, StatDone
<1>2. Output = out
  <2>1. out \o <<>> = out
    BY <1>1, ConcatEmpty
  <2> QED BY <1>1, <2>1 DEF Output
<1>3. \E i \in DOMAIN ColumnsIn(out) : column = ColumnsIn(out)[i]
  BY <1>2 DEF ColumnsPrinted, Range
<1>4. StatisticsTrue(ColumnOf(column), column.statistics)
  BY <1>1, <1>3 DEF SaidTrue
<1> QED BY <1>4 DEF StatisticsTrue, StatisticTrue

\* The cells a task of csvStat reads have been evaluated, what it leaves in its place is true of
\* the column, and what is printed is what the places hold (stat, the classes and visitors).
THEOREM StatSaysInvariant == StatSpec => []StatSaysInv
<1>1. StatInv /\ StatTypesInv /\ StatSaysInv /\ [StatNext]_<<toolVars, typifyVars, statVars>> => StatSaysInv'
  <2> SUFFICES ASSUME StatInv, StatTypesInv, StatSaysInv, [StatNext]_<<toolVars, typifyVars, statVars>>,
                      cmd'.tool = "stat"
               PROVE  StatSaysOK'
    BY DEF StatSaysInv
  <2>1. UNCHANGED cmd
    BY StatCommandKept
  <2> QED BY <2>1, StatSaysStep DEF StatInv, StatTypesInv, StatSaysInv
<1>2. ToolInit /\ TypifyInit /\ StatInit => StatSaysInv
  BY DEF ToolInit, TypifyInit, StatSaysInv, StatSaysOK, StatAtWork
<1>3. StatSpec => []StatTypesInv
  BY StatTypesInvariant
<1>4. StatSpec => []StatInv
  BY StatInitially, StatKept, PTL DEF StatSpec
<1> QED BY <1>1, <1>2, <1>3, <1>4, PTL DEF StatSpec

\* Every statistic printed for a column is that of the cells the source has under its name,
\* for every source and every command line, in whatever order the tasks went and however a
\* column was arranged (stat(), prepare() and the operations of each class, mcv()).
THEOREM StatTellsTruth == StatSpec => []StatTrue
<1>1. StatSpec => []StatInv
  BY StatInitially, StatKept, PTL DEF StatSpec
<1> QED BY <1>1, StatSaysInvariant, StatisticsTold, PTL
===============================================================================
