------------------------------- MODULE ToolProofs -------------------------------
(***************************************************************************)
(* Proofs about csvCut, csvGrep, csvClean, csvStack and csvLook, for every *)
(* source and every command line.                                          *)
(***************************************************************************)
EXTENDS Cut, Grep, Clean, Stack, Look, FiniteSetTheorems, FunctionTheorems, AnySequence

-------------------------------------------------------------------------------
(* The columns a user names.                                                 *)

\* Of some columns those that are not excluded, and no others.
LEMMA WithoutFacts ==
  ASSUME NEW s, IsSeq(s), NEW X
  PROVE  /\ IsSeq(Without(s, X))
         /\ \A k \in DOMAIN Without(s, X) :
              Without(s, X)[k] \notin X /\ \E i \in DOMAIN s : Without(s, X)[k] = s[i]
         /\ \A i \in DOMAIN s : s[i] \notin X =>
              \E k \in DOMAIN Without(s, X) : Without(s, X)[k] = s[i]
<1> DEFINE parts == [k \in DOMAIN s |-> IF s[k] \in X THEN <<>> ELSE <<s[k]>>]
<1> PICK w : w = Without(s, X)
  OBVIOUS
<1>1. Len(s) \in Nat /\ DOMAIN s = 1..Len(s)
  BY IsSeqFacts
<1>2. \A i \in DOMAIN s : (s[i] \in X => parts[i] = <<>>) /\ (s[i] \notin X => parts[i] = <<s[i]>>)
  OBVIOUS
<1>3. IsSeq(parts) /\ Len(parts) = Len(s) /\ DOMAIN parts = DOMAIN s
  <2>1. IsSeq(parts) /\ Len(parts) = Len(s)
    BY <1>1, IsSeqFunction
  <2> QED BY <2>1
<1> HIDE DEF parts
<1>4. \A i \in DOMAIN parts : IsSeq(parts[i])
  <2>1. \A x : <<x>> \in Seq({x})
    OBVIOUS
  <2>2. \A x : IsSeq(<<x>>)
    BY <2>1, SeqIsSeq
  <2> QED BY <1>2, <1>3, <2>2, IsSeqEmpty
<1>5. Gathered(w, parts, Len(parts))
  BY <1>3, <1>4, FlattenFacts DEF Without, parts
<1>6. \A i \in DOMAIN s : \A k \in DOMAIN parts[i] : s[i] \notin X /\ parts[i][k] = s[i]
  BY <1>2
<1>7. \A i \in DOMAIN s : s[i] \notin X => 1 \in DOMAIN parts[i] /\ parts[i][1] = s[i]
  BY <1>2
<1> QED BY <1>1, <1>3, <1>5, <1>6, <1>7 DEF Gathered

\* What is found for an identifier is a column, or nothing.
LEMMA IndexFound ==
  ASSUME NEW n, NEW names, Len(names) \in Nat, NEW zero
  PROVE  AtIndex(n, names, zero) \in 0..Len(names)
<1>1. CASE n - Offset(zero) \in 0..(Len(names) - 1)
  <2> DEFINE m == n - Offset(zero)
  <2>1. m \in 0..(Len(names) - 1)
    BY <1>1
  <2>2. AtIndex(n, names, zero) = m + 1
    BY <1>1 DEF AtIndex
  <2> HIDE DEF m
  <2> QED BY <2>1, <2>2
<1>2. CASE ~(n - Offset(zero) \in 0..(Len(names) - 1))
  BY <1>2 DEF AtIndex, NoColumn
<1> QED BY <1>1, <1>2

LEMMA IdentifierFound ==
  ASSUME NEW id, NEW names, IsSeq(names), NEW zero
  PROVE  MatchIdentifier(id, names, zero) \in 0..Len(names)
<1>1. Len(names) \in Nat /\ DOMAIN names = 1..Len(names)
  BY IsSeqFacts
<1> DEFINE cs == {c \in DOMAIN names : names[c] = id.text}
<1>2. cs # {} => \E c \in cs : \A d \in cs : c <= d
  <2>1. cs \in SUBSET Nat
    BY <1>1
  <2> HIDE DEF cs
  <2> QED BY <2>1, Least
<1>3. FirstNamed(id.text, names) \in 0..Len(names)
  <2>1. CASE cs = {}
    BY <1>1, <2>1 DEF FirstNamed, NoColumn
  <2>2. CASE cs # {}
    <3>1. FirstNamed(id.text, names) \in cs
      BY <1>2, <2>2 DEF FirstNamed
    <3> QED BY <1>1, <3>1
  <2> QED BY <2>1, <2>2
<1> QED BY <1>1, <1>3, IndexFound DEF MatchIdentifier

LEMMA IdentifiersFound ==
  ASSUME NEW id, id.lo \in Int, id.hi \in Int, NEW names, IsSeq(names), NEW zero
  PROVE  /\ IsSeq(ColumnsOf(id, names, zero))
         /\ \A k \in DOMAIN ColumnsOf(id, names, zero) :
              ColumnsOf(id, names, zero)[k] \in 0..Len(names)
<1>1. Len(names) \in Nat
  BY IsSeqFacts
<1> DEFINE c == MatchIdentifier(id, names, zero)
           lo == IF id.lo = Open THEN Offset(zero) ELSE id.lo
           hi == IF id.hi = Open THEN Len(names) - 1 + Offset(zero) ELSE id.hi
           n == IF hi < lo THEN 0 ELSE hi - lo + 1
           r == [k \in 1..n |-> AtIndex(lo + k - 1, names, zero)]
<1>2. c \in 0..Len(names)
  BY IdentifierFound
<1>3. n \in Nat
  BY <1>1 DEF Offset
<1>4. RangeOf(id, names, zero) = r
  BY DEF RangeOf
<1> HIDE DEF n, lo
<1>5. IsSeq(r) /\ \A k \in DOMAIN r : r[k] \in 0..Len(names)
  <2>1. IsSeq(r)
    BY <1>3, IsSeqFunction
  <2> QED BY <1>1, <2>1, IndexFound
<1>6. IsSeq(<<c>>) /\ \A k \in DOMAIN <<c>> : <<c>>[k] \in 0..Len(names)
  <2>1. <<c>> \in Seq({c}) /\ DOMAIN <<c>> = {1} /\ <<c>>[1] = c
    OBVIOUS
  <2> QED BY <1>2, <2>1, SeqIsSeq
<1>7. ColumnsOf(id, names, zero) \in {r, <<c>>}
  BY <1>4 DEF ColumnsOf
<1> HIDE DEF c, r
<1> QED BY <1>5, <1>6, <1>7

LEMMA IdsNumbered ==
  ASSUME NEW ids, AreIds(ids)
  PROVE  \A k \in DOMAIN ids : ids[k].lo \in Int /\ ids[k].hi \in Int
<1> DEFINE Ids == [text : STRING, kind : {"word", "number", "range"}, lo : Int, hi : Int]
<1>1. DOMAIN ids = 1..Len(ids)
  BY SeqIsSeq DEF AreIds
<1>2. \A id \in Ids : id.lo \in Int /\ id.hi \in Int
  OBVIOUS
<1>3. ids \in Seq(Ids)
  BY DEF AreIds
<1> HIDE DEF Ids
<1>4. \A k \in 1..Len(ids) : ids[k] \in Ids
  BY <1>3, ElementOfSeq
<1> QED BY <1>1, <1>2, <1>4

\* A command line's columns are columns of the header and none of those excluded, unless
\* an identifier was not understood.
LEMMA ColumnsFound ==
  ASSUME NEW ids, AreIds(ids), NEW excl, NEW names, IsSeq(names), NEW zero,
         NEW columns, columns = ParseColumnIdentifiers(ids, excl, names, zero)
  PROVE  /\ columns \in Seq(0..Len(names))
         /\ Understood(columns) =>
              \A k \in DOMAIN columns :
                columns[k] \in DOMAIN names /\ columns[k] \notin Excluded(excl, names, zero)
         /\ ids = <<>> /\ excl = <<>> /\ names # <<>> => columns # <<>>
<1> DEFINE every == [c \in DOMAIN names |-> c]
           parts == [k \in DOMAIN ids |-> ColumnsOf(ids[k], names, zero)]
           wanted == IF ids = <<>> THEN every ELSE FlattenSeq(parts)
           X == Excluded(excl, names, zero)
<1>1. Len(names) \in Nat /\ DOMAIN names = 1..Len(names)
  BY IsSeqFacts
<1>2. IsSeq(every) /\ \A k \in DOMAIN every : every[k] \in 0..Len(names) /\ every[k] = k
  BY <1>1, IsSeqFunction
<1>3. IsSeq(FlattenSeq(parts)) /\ \A k \in DOMAIN FlattenSeq(parts) : FlattenSeq(parts)[k] \in 0..Len(names)
  <2>1. IsSeq(ids) /\ Len(ids) \in Nat /\ DOMAIN ids = 1..Len(ids)
    BY SeqIsSeq DEF AreIds
  <2>2. \A k \in DOMAIN ids : ids[k].lo \in Int /\ ids[k].hi \in Int
    BY IdsNumbered
  <2>3. IsSeq(parts) /\ Len(parts) = Len(ids) /\ DOMAIN parts = 1..Len(ids)
    BY <2>1, IsSeqFunction
  <2>4. \A k \in DOMAIN parts : parts[k] = ColumnsOf(ids[k], names, zero)
    BY <2>1, <2>3
  <2> HIDE DEF parts
  <2>5. \A k \in DOMAIN parts : IsSeq(parts[k]) /\ \A j \in DOMAIN parts[k] : parts[k][j] \in 0..Len(names)
    BY <2>1, <2>2, <2>3, <2>4, IdentifiersFound
  <2>6. Gathered(FlattenSeq(parts), parts, Len(parts))
    BY <2>3, <2>5, FlattenFacts
  <2> QED BY <2>1, <2>3, <2>5, <2>6 DEF Gathered
<1>4. IsSeq(wanted) /\ \A k \in DOMAIN wanted : wanted[k] \in 0..Len(names)
  <2> HIDE DEF every, parts
  <2> QED BY <1>2, <1>3
<1>5. columns = IF NoColumn \in Range(wanted) THEN <<NoColumn>> ELSE Without(wanted, X)
  BY DEF ParseColumnIdentifiers
<1>6. ids = <<>> => wanted = every
  OBVIOUS
<1> HIDE DEF wanted
<1>7. CASE NoColumn \in Range(wanted)
  <2>1. columns = <<0>>
    BY <1>5, <1>7 DEF NoColumn
  <2>2. columns \in Seq(0..Len(names))
    BY <1>1, <2>1
  <2>3. ~Understood(columns)
    BY <2>1 DEF Understood, NoColumn, Range
  <2> QED BY <2>1, <2>2, <2>3
<1>8. CASE NoColumn \notin Range(wanted)
  <2>1. columns = Without(wanted, X)
    BY <1>5, <1>8
  <2>2. /\ IsSeq(columns)
        /\ \A k \in DOMAIN columns :
             columns[k] \notin X /\ \E i \in DOMAIN wanted : columns[k] = wanted[i]
        /\ \A i \in DOMAIN wanted : wanted[i] \notin X =>
             \E k \in DOMAIN columns : columns[k] = wanted[i]
    BY <1>4, <2>1, WithoutFacts
  <2>3. \A k \in DOMAIN columns : columns[k] \in 0..Len(names)
    BY <1>4, <2>2
  <2>4. columns \in Seq(0..Len(names))
    BY <2>2, <2>3, IsSeqIn
  <2>5. \A i \in DOMAIN wanted : wanted[i] # 0
    BY <1>8 DEF Range, NoColumn
  <2>6. \A k \in DOMAIN columns : columns[k] # 0
    BY <2>2, <2>5
  <2>7. \A k \in DOMAIN columns : columns[k] \in DOMAIN names
    BY <1>1, <2>3, <2>6
  <2>8. ids = <<>> /\ excl = <<>> /\ names # <<>> => columns # <<>>
    <3> SUFFICES ASSUME ids = <<>>, excl = <<>>, names # <<>> PROVE columns # <<>>
      OBVIOUS
    <3>1. X = {}
      BY DEF Excluded
    <3>2. Len(names) # 0
      BY <1>1, EmptySeq, IsSeqFacts DEF IsSeq
    <3>3. 1 \in DOMAIN every
      BY <1>1, <3>2
    <3>4. 1 \in DOMAIN wanted
      BY <1>6, <3>3
    <3>5. \E k \in DOMAIN columns : columns[k] = wanted[1]
      BY <2>2, <3>1, <3>4
    <3> QED BY <3>5
  <2> QED BY <2>2, <2>4, <2>7, <2>8
<1> QED BY <1>7, <1>8

\* A header, the one of the source or the one made up, has its names in a sequence.
LEMMA HeaderNamesFacts ==
  ASSUME NEW names \in Seq(STRING)
  PROVE  IsSeq(HeaderNames(names)) /\ Len(HeaderNames(names)) = Len(names)
<1>1. IsSeq(names) /\ Len(names) \in Nat
  BY SeqIsSeq
<1> DEFINE n == Len(names)
           S == {Letters[c] : c \in 1..n}
<1>2. \A c \in 1..n : Letters[c] \in S
  OBVIOUS
<1> HIDE DEF S
<1>3. 1 \in Int /\ n \in Int /\ n - 1 + 1 = n /\ (IF 1 <= n THEN n - 1 + 1 ELSE 0) = n
  BY <1>1
<1> HIDE DEF n
<1>4. SubSeq(Letters, 1, n) \in Seq(S) /\ Len(SubSeq(Letters, 1, n)) = n
  BY <1>2, <1>3, SubSeqProperties
<1>5. IsSeq(SubSeq(Letters, 1, n))
  BY <1>4, SeqIsSeq
<1> QED BY <1>1, <1>4, <1>5 DEF HeaderNames, n

-------------------------------------------------------------------------------
(* The output, printed or kept back.                                          *)

\* Under --ASAP nothing is kept back.
OutputOK(S) == out \in Seq(S) /\ held \in Seq(S) /\ (cmd.asap => held = <<>>)

LEMMA OutputFacts ==
  ASSUME NEW S, OutputOK(S)
  PROVE  Output \in Seq(S) /\ Len(Output) \in Nat /\ DOMAIN Output = 1..Len(Output)
<1>1. Output \in Seq(S)
  BY ConcatProperties DEF Output, OutputOK
<1> HIDE DEF Output
<1> QED BY <1>1, LenProperties

\* One line more.
LEMMA Appended ==
  ASSUME NEW S, NEW s \in Seq(S), NEW x \in S
  PROVE  /\ s \o <<x>> \in Seq(S) /\ Len(s \o <<x>>) = Len(s) + 1 /\ DOMAIN (s \o <<x>>) = 1..(Len(s) + 1)
         /\ \A k \in 1..Len(s) : (s \o <<x>>)[k] = s[k]
         /\ (s \o <<x>>)[Len(s) + 1] = x
<1>1. s \o <<x>> = Append(s, x)
  OBVIOUS
<1>2. Len(s) \in Nat
  BY LenProperties
<1>3. DOMAIN Append(s, x) = 1..(Len(s) + 1)
  BY <1>2, AppendProperties, LenProperties
<1> QED BY <1>1, <1>2, <1>3, AppendProperties

LEMMA LineWritten ==
  ASSUME NEW S, OutputOK(S), NEW x \in S, Write(<<x>>), UNCHANGED cmd
  PROVE  /\ OutputOK(S)' /\ Output' \in Seq(S)
         /\ Len(Output') = Len(Output) + 1 /\ DOMAIN Output' = 1..(Len(Output) + 1)
         /\ \A k \in 1..Len(Output) : Output'[k] = Output[k]
         /\ Output'[Len(Output) + 1] = x
<1>1. out \in Seq(S) /\ held \in Seq(S) /\ (cmd.asap => held = <<>>) /\ cmd' = cmd
  BY DEF OutputOK
<1>2. Output' = Output \o <<x>> /\ OutputOK(S)'
  <2>1. CASE cmd.asap
    <3>1. out' = out \o <<x>> /\ held' = <<>> /\ held = <<>>
      BY <1>1, <2>1 DEF Write
    <3>2. out \o <<x>> \in Seq(S)
      BY <1>1, Appended
    <3>3. (out \o <<x>>) \o <<>> = out \o <<x>> /\ out \o <<>> = out
      BY <1>1, <3>2, ConcatEmptySeq
    <3> QED BY <1>1, <3>1, <3>2, <3>3 DEF Output, OutputOK
  <2>2. CASE ~cmd.asap
    <3>1. out' = out /\ held' = held \o <<x>>
      BY <2>2 DEF Write
    <3>2. held \o <<x>> \in Seq(S)
      BY <1>1, Appended
    <3>3. out \o (held \o <<x>>) = (out \o held) \o <<x>>
      <4>1. <<x>> \in Seq(S)
        OBVIOUS
      <4> QED BY <1>1, <4>1, ConcatAssociative
    <3> QED BY <1>1, <2>2, <3>1, <3>2, <3>3 DEF Output, OutputOK
  <2> QED BY <2>1, <2>2
<1>3. Output \in Seq(S)
  BY OutputFacts
<1> HIDE DEF Output
<1> QED BY <1>2, <1>3, Appended

\* What was kept back is printed.
LEMMA Flushed ==
  ASSUME NEW S, OutputOK(S), Flush, UNCHANGED cmd
  PROVE  OutputOK(S)' /\ Output' = Output
<1>1. out \in Seq(S) /\ held \in Seq(S) /\ out' = out \o held /\ held' = <<>>
  BY DEF OutputOK, Flush
<1>2. out \o held \in Seq(S) /\ <<>> \in Seq(S)
  BY <1>1, ConcatProperties
<1>3. (out \o held) \o <<>> = out \o held
  BY <1>2, ConcatEmptySeq
<1> QED BY <1>1, <1>2, <1>3 DEF OutputOK, Output

-------------------------------------------------------------------------------
(* csvCut.                                                                    *)

CutLines(columns) == [labelled : BOOLEAN, n : Int, line : Int, columns : {columns}]
Dropped(l) == cmd.x /\ \A c \in Range(cut_ids) : <<l, c>> \in cmd.blank

\* The counters are those of the lines printed, and the lines those of the rows read.
\* Of the label only whether a line has followed it tells one header from two.
CutPrinted ==
  /\ read \in Int /\ read >= -1
  /\ line = Len(Output)
  /\ label = "followed" <=> Len(Output) > 0
  /\ \A k \in 1..Len(Output) :
       /\ Output[k].columns = cut_ids
       /\ Output[k].n = IF cmd.linenumbers THEN k - 1 ELSE 0
       /\ Output[k].labelled = (cmd.linenumbers /\ k = 1)
       /\ Output[k].line <= read
  /\ \A j, k \in 1..Len(Output) : j < k => Output[j].line < Output[k].line
  /\ \A l \in 0..read : (l > 0 \/ ~cmd.no_header) =>
       (\E k \in 1..Len(Output) : Output[k].line = l) = ~Dropped(l)
CutInv ==
  cmd.tool = "cut" /\ ~cmd.show_names =>
    /\ cmd.linenumbers \in BOOLEAN
    /\ at = "start" => out = <<>> /\ held = <<>>
    /\ at \in {"cutting", "done"} => OutputOK(CutLines(cut_ids)) /\ CutPrinted

LEMMA CutInitially == ToolInit /\ CutInit => CutInv
BY CutAssumption DEF CutInv, ToolInit

LEMMA KeptOrDropped == ASSUME NEW l PROVE Kept(l) = ~Dropped(l)
BY DEF Kept, Dropped, Empty, Range

LEMMA CutStartStep ==
  ASSUME CutInv, cmd.tool = "cut", CutStart
  PROVE  CutInv'
<1> PICK ids : ids = CutIds
  OBVIOUS
<1> DEFINE S == CutLines(ids)
           x == CutLine(cmd.linenumbers, 0, Generated, ids)
<1>1. /\ out = <<>> /\ held = <<>> /\ cmd.linenumbers \in BOOLEAN /\ cmd' = cmd /\ cut_ids' = ids
      /\ read' = IF cmd.no_header THEN 0 ELSE -1
      /\ line' = IF cmd.no_header THEN 1 ELSE 0
      /\ label' = IF cmd.no_header THEN "followed" ELSE "unsaid"
      /\ \/ at' = "undefined"
         \/ at' = "cutting" /\ Write(IF cmd.no_header THEN <<x>> ELSE <<>>)
  BY DEF CutStart, CutInv, Goto
<1>2. OutputOK(S) /\ Output = <<>>
  <2>1. <<>> \in Seq(S)
    OBVIOUS
  <2> QED BY <1>1, <2>1 DEF OutputOK, Output
<1>3. CASE at' = "undefined"
  BY <1>1, <1>3 DEF CutInv
<1>4. CASE cmd.no_header /\ Write(<<x>>) /\ at' = "cutting"
  <2>1. x \in S
    BY <1>1 DEF CutLine, CutLines, Generated
  <2>2. x.columns = cut_ids' /\ x.n = 0 /\ x.labelled = cmd.linenumbers /\ x.line = -1
    BY <1>1 DEF CutLine, Generated
  <2>3. Len(Output) = 0
    BY <1>2
  <2> HIDE DEF S, x
  <2>4. OutputOK(S)' /\ Len(Output') = 1 /\ Output'[1] = x
    BY <1>1, <1>2, <1>4, <2>1, <2>3, LineWritten
  <2>5. OutputOK(CutLines(cut_ids))'
    BY <1>1, <2>4 DEF OutputOK, S
  <2>6. CutPrinted'
    <3>1. /\ read' = 0 /\ line' = 1 /\ label' = "followed" /\ cmd'.no_header
          /\ cmd'.linenumbers \in BOOLEAN /\ cmd'.linenumbers = cmd.linenumbers
      BY <1>1, <1>4
    <3> HIDE DEF Output
    <3>2. \A k \in 1..1 :
            /\ Output'[k].columns = cut_ids'
            /\ Output'[k].n = IF cmd'.linenumbers THEN k - 1 ELSE 0
            /\ Output'[k].labelled = (cmd'.linenumbers /\ k = 1)
            /\ Output'[k].line <= read'
      BY <2>2, <2>4, <3>1
    <3>3. \A j, k \in 1..1 : ~(j < k)
      OBVIOUS
    <3>4. \A l \in 0..read' : ~(l > 0 \/ ~cmd'.no_header)
      BY <3>1
    <3> QED BY <2>4, <3>1, <3>2, <3>3, <3>4 DEF CutPrinted
  <2> QED BY <1>1, <1>4, <2>5, <2>6 DEF CutInv
<1>5. CASE ~cmd.no_header /\ Write(<<>>) /\ at' = "cutting"
  <2>1. out' = <<>> /\ held' = <<>>
    BY <1>1, <1>5 DEF Write
  <2>2. Output' = <<>> /\ OutputOK(CutLines(cut_ids))'
    BY <1>1, <2>1 DEF Output, OutputOK
  <2>3. CutPrinted'
    <3>1. read' = -1 /\ line' = 0 /\ label' = "unsaid" /\ Len(Output') = 0
      BY <1>1, <1>5, <2>2
    <3> HIDE DEF Output
    <3> QED BY <3>1 DEF CutPrinted
  <2> QED BY <1>1, <1>5, <2>2, <2>3 DEF CutInv
<1> QED BY <1>1, <1>3, <1>4, <1>5

LEMMA CutRowStep ==
  ASSUME CutInv, cmd.tool = "cut", ~cmd.show_names, CutRow
  PROVE  CutInv'
<1> PICK ids : ids = cut_ids
  OBVIOUS
<1> DEFINE S == CutLines(ids)
           N == Len(Output)
           x == CutLine(cmd.linenumbers /\ label # "followed",
                        IF cmd.linenumbers THEN line ELSE 0, read + 1, cut_ids)
<1>1. /\ at = "cutting" /\ at' = at /\ cmd' = cmd /\ cut_ids' = cut_ids /\ cmd.linenumbers \in BOOLEAN
      /\ OutputOK(S) /\ CutPrinted /\ Write(<<x>>) /\ ~Dropped(read + 1)
      /\ read' = read + 1 /\ line' = line + 1 /\ label' = "followed"
  BY KeptOrDropped DEF CutRow, CutInv, RowToCut
<1>2. Output \in Seq(S) /\ N \in Nat /\ DOMAIN Output = 1..N
  BY <1>1, OutputFacts
<1>3. read \in Int /\ read >= -1 /\ line = N /\ (label = "followed" <=> N > 0)
  BY <1>1 DEF CutPrinted
<1>4. /\ x \in S /\ x.columns = cut_ids /\ x.n = (IF cmd.linenumbers THEN line ELSE 0)
      /\ x.labelled = (cmd.linenumbers /\ label # "followed") /\ x.line = read + 1
  BY <1>1, <1>2, <1>3 DEF CutLine, CutLines
<1> HIDE DEF S, x
<1>5. /\ OutputOK(S)' /\ Len(Output') = N + 1
      /\ \A k \in 1..N : Output'[k] = Output[k]
      /\ Output'[N + 1] = x
  BY <1>1, <1>4, LineWritten
<1> HIDE DEF Output, N
<1>6. \A k \in 1..(N + 1) : k \in 1..N \/ k = N + 1
  BY <1>2
<1>7. CutPrinted'
  <2>1. \A k \in 1..(N + 1) :
          /\ Output'[k].columns = cut_ids
          /\ Output'[k].n = IF cmd.linenumbers THEN k - 1 ELSE 0
          /\ Output'[k].labelled = (cmd.linenumbers /\ k = 1)
          /\ Output'[k].line <= read + 1
    <3> TAKE k \in 1..(N + 1)
    <3>1. CASE k \in 1..N
      <4>1. \A i \in 1..N : Output[i] \in S
        BY <1>2
      <4>2. Output[k].line \in Int
        BY <3>1, <4>1 DEF S, CutLines
      <4> QED BY <1>1, <1>3, <1>5, <3>1, <4>2 DEF CutPrinted, N
    <3>2. CASE k = N + 1
      <4>1. Output'[k] = x
        BY <1>5, <3>2
      <4>2. x.n = IF cmd.linenumbers THEN k - 1 ELSE 0
        BY <1>2, <1>3, <1>4, <3>2
      <4>3. x.labelled = (cmd.linenumbers /\ k = 1)
        BY <1>2, <1>3, <1>4, <3>2
      <4>4. x.line <= read + 1
        BY <1>3, <1>4
      <4> QED BY <1>4, <4>1, <4>2, <4>3, <4>4
    <3> QED BY <1>6, <3>1, <3>2
  <2>2. \A j, k \in 1..(N + 1) : j < k => Output'[j].line < Output'[k].line
    <3> SUFFICES ASSUME NEW j \in 1..(N + 1), NEW k \in 1..(N + 1), j < k
                 PROVE  Output'[j].line < Output'[k].line
      OBVIOUS
    <3>1. j \in 1..N /\ Output'[j] = Output[j] /\ Output[j].line <= read
      BY <1>1, <1>2, <1>5 DEF CutPrinted, N
    <3>2. CASE k \in 1..N
      BY <1>1, <1>5, <3>1, <3>2 DEF CutPrinted, N
    <3>3. CASE k = N + 1
      <4>1. Output[j].line \in Int
        <5>1. Output[j] \in S
          BY <1>2, <3>1
        <5> QED BY <5>1 DEF S, CutLines
      <4> QED BY <1>3, <1>4, <1>5, <3>1, <3>3, <4>1
    <3> QED BY <1>6, <3>2, <3>3
  <2>3. \A l \in 0..(read + 1) : (l > 0 \/ ~cmd.no_header) =>
          (\E k \in 1..(N + 1) : Output'[k].line = l) = ~Dropped(l)
    <3> SUFFICES ASSUME NEW l \in 0..(read + 1), l > 0 \/ ~cmd.no_header
                 PROVE  (\E k \in 1..(N + 1) : Output'[k].line = l) <=> ~Dropped(l)
      BY DEF Dropped
    <3>1. CASE l = read + 1
      BY <1>1, <1>2, <1>4, <1>5, <3>1
    <3>2. CASE l \in 0..read
      <4>1. (\E k \in 1..N : Output[k].line = l) <=> ~Dropped(l)
        BY <1>1, <3>2 DEF CutPrinted, N
      <4>2. x.line # l
        BY <1>3, <1>4, <3>2
      <4>3. \A k \in 1..N : k \in 1..(N + 1) /\ Output'[k] = Output[k]
        BY <1>2, <1>5
      <4> QED BY <1>5, <1>6, <4>1, <4>2, <4>3
    <3> QED BY <1>3, <3>1, <3>2
  <2>4. \A l : Dropped(l)' = Dropped(l)
    BY <1>1 DEF Dropped
  <2>5. read' \in Int /\ read' >= -1 /\ line' = Len(Output') /\ label' = "followed" /\ Len(Output') > 0
    BY <1>1, <1>2, <1>3, <1>5
  <2> QED BY <1>1, <1>5, <2>1, <2>2, <2>3, <2>4, <2>5 DEF CutPrinted
<1>8. OutputOK(CutLines(cut_ids))'
  BY <1>1, <1>5 DEF OutputOK, S
<1> QED BY <1>1, <1>7, <1>8 DEF CutInv

LEMMA CutEmptyRowStep ==
  ASSUME CutInv, cmd.tool = "cut", ~cmd.show_names, CutEmptyRow
  PROVE  CutInv'
<1> PICK ids : ids = cut_ids
  OBVIOUS
<1> DEFINE S == CutLines(ids)
           N == Len(Output)
<1>1. /\ at = "cutting" /\ at' = at /\ cmd' = cmd /\ cut_ids' = cut_ids /\ cmd.linenumbers \in BOOLEAN
      /\ OutputOK(S) /\ CutPrinted /\ out' = out /\ held' = held /\ Dropped(read + 1)
      /\ read' = read + 1 /\ line' = line
      /\ label' = (IF label = "unsaid" THEN "said" ELSE label)
  BY KeptOrDropped DEF CutEmptyRow, CutInv, RowToCut, Quiet
<1>2. Output \in Seq(S) /\ N \in Nat /\ DOMAIN Output = 1..N /\ Output' = Output
  BY <1>1, OutputFacts DEF Output
<1>3. \A k \in 1..N : Output[k].line \in Int /\ Output[k].line <= read
  <2>1. \A k \in 1..N : Output[k] \in S
    BY <1>2
  <2> QED BY <1>1, <2>1 DEF CutPrinted, CutLines
<1>4. read \in Int /\ read >= -1 /\ line = N /\ (label = "followed" <=> N > 0)
  BY <1>1 DEF CutPrinted
<1>5. label' = "followed" <=> N > 0
  BY <1>1, <1>4
<1> HIDE DEF Output, N
<1>6. CutPrinted'
  <2>1. \A l : Dropped(l)' = Dropped(l)
    BY <1>1 DEF Dropped
  <2>2. \A l \in 0..(read + 1) : (l > 0 \/ ~cmd.no_header) =>
          (\E k \in 1..N : Output[k].line = l) = ~Dropped(l)
    <3> SUFFICES ASSUME NEW l \in 0..(read + 1), l > 0 \/ ~cmd.no_header
                 PROVE  (\E k \in 1..N : Output[k].line = l) <=> ~Dropped(l)
      BY DEF Dropped
    <3>1. CASE l = read + 1
      BY <1>1, <1>3, <1>4, <3>1
    <3>2. CASE l \in 0..read
      BY <1>1, <3>2 DEF CutPrinted, N
    <3> QED BY <1>4, <3>1, <3>2
  <2>3. \A k \in 1..N : Output[k].line <= read + 1
    BY <1>3, <1>4
  <2>4. /\ read' \in Int /\ read' >= -1 /\ read' = read + 1
        /\ line' = N /\ cut_ids' = cut_ids /\ cmd' = cmd
    BY <1>1, <1>4
  <2>5. Output' = Output /\ Len(Output) = N
    BY <1>2 DEF N
  <2>6. /\ \A k \in 1..N :
             /\ Output[k].columns = cut_ids
             /\ Output[k].n = IF cmd.linenumbers THEN k - 1 ELSE 0
             /\ Output[k].labelled = (cmd.linenumbers /\ k = 1)
        /\ \A j, k \in 1..N : j < k => Output[j].line < Output[k].line
    BY <1>1, <2>5 DEF CutPrinted
  <2> HIDE DEF N
  <2> QED BY <1>5, <2>1, <2>2, <2>3, <2>4, <2>5, <2>6 DEF CutPrinted
<1>7. OutputOK(CutLines(cut_ids))'
  BY <1>1 DEF OutputOK
<1> QED BY <1>1, <1>6, <1>7 DEF CutInv

LEMMA CutEndStep ==
  ASSUME CutInv, cmd.tool = "cut", ~cmd.show_names, CutEnd
  PROVE  CutInv'
<1> PICK ids : ids = cut_ids
  OBVIOUS
<1> DEFINE S == CutLines(ids)
<1>1. /\ at = "cutting" /\ at' = "done" /\ cmd' = cmd /\ Flush
      /\ OutputOK(S) /\ CutPrinted /\ cmd.linenumbers \in BOOLEAN
      /\ cut_ids' = cut_ids /\ read' = read /\ line' = line /\ label' = label
  BY DEF CutEnd, CutInv, Goto, cutVars
<1> HIDE DEF S
<1>2. OutputOK(S)' /\ Output' = Output
  BY <1>1, Flushed
<1>3. OutputOK(CutLines(cut_ids))'
  BY <1>1, <1>2 DEF OutputOK, S
<1>4. CutPrinted'
  <2>1. \A l : Dropped(l)' = Dropped(l)
    BY <1>1 DEF Dropped
  <2> HIDE DEF Output
  <2> QED BY <1>1, <1>2, <2>1 DEF CutPrinted
<1> QED BY <1>1, <1>3, <1>4 DEF CutInv

LEMMA CutStep == CutInv /\ [CutNext]_<<toolVars, cutVars>> => CutInv'
<1> SUFFICES ASSUME CutInv, [CutNext]_<<toolVars, cutVars>>, cmd'.tool = "cut", ~cmd'.show_names
             PROVE  CutInv'
  BY DEF CutInv
<1>1. cmd' = cmd
  BY DEF CutNext, toolVars, CutNames, CutRejected, CutStart, CutRow, CutEmptyRow, CutNothing, CutEnd,
         Goto
<1>2. CASE CutStart
  BY <1>1, <1>2, CutStartStep
<1>3. CASE CutRow
  BY <1>1, <1>3, CutRowStep
<1>4. CASE CutEmptyRow
  BY <1>1, <1>4, CutEmptyRowStep
<1>5. CASE CutEnd
  BY <1>1, <1>5, CutEndStep
<1>6. CASE CutNames
  BY <1>1, <1>6 DEF CutNames
<1>7. CASE CutRejected \/ CutNothing
  BY <1>1, <1>7 DEF CutRejected, CutNothing, Goto, CutInv
<1>8. CASE UNCHANGED <<toolVars, cutVars>>
  BY <1>8 DEF CutInv, toolVars, cutVars, OutputOK, CutPrinted, Dropped, Output
<1> QED BY <1>2, <1>3, <1>4, <1>5, <1>6, <1>7, <1>8 DEF CutNext

\* For any header, rows, blanks and command line, what csvCut prints is one header and,
\* under it, in order and numbered without a gap, each row of the source that -x does not
\* drop (print_container and its static counters, run_rows).
THEOREM CutPrintsTable == CutSpec => []CutTable
<1>1. ToolInit /\ CutInit => CutInv
  BY CutInitially
<1>2. CutInv /\ [CutNext]_<<toolVars, cutVars>> => CutInv'
  BY CutStep
<1>3. CutInv => CutTable
  <2> SUFFICES ASSUME CutInv, cmd.tool = "cut", at \in {"cutting", "done"}, ~cmd.show_names
               PROVE  CutTable
    BY DEF CutTable
  <2>1. OutputOK(CutLines(cut_ids)) /\ CutPrinted
    BY DEF CutInv
  <2>2. DOMAIN Output = 1..Len(Output)
    BY <2>1, OutputFacts
  <2> HIDE DEF Output
  <2> QED BY <2>1, <2>2 DEF CutTable, CutPrinted, Dropped
<1> QED BY <1>1, <1>2, <1>3, PTL DEF CutSpec

\* The columns printed are those found.
CutChosen ==
  cmd.tool = "cut" /\ ~cmd.show_names =>
    /\ cmd.names \in Seq(STRING) /\ AreIds(cmd.ids) /\ AreIds(cmd.excl)
    /\ at \in {"cutting", "done", "undefined"} => cut_ids = CutIds /\ Understood(CutIds)

LEMMA CutChosenStep == CutChosen /\ [CutNext]_<<toolVars, cutVars>> => CutChosen'
<1> SUFFICES ASSUME CutChosen, [CutNext]_<<toolVars, cutVars>> PROVE CutChosen'
  OBVIOUS
<1>1. CASE CutNames
  BY <1>1 DEF CutChosen, CutNames, Goto
<1>2. CASE CutRejected
  BY <1>2 DEF CutChosen, CutRejected, Goto
<1>3. CASE CutStart
  BY <1>3 DEF CutChosen, CutStart, Goto, CutRefused, CutIds, HeaderNames
<1>4. CASE CutRow \/ CutEmptyRow
  BY <1>4 DEF CutChosen, CutRow, CutEmptyRow, RowToCut, CutIds, HeaderNames
<1>5. CASE CutNothing
  BY <1>5 DEF CutChosen, CutNothing, RowToCut, Goto, cutVars, CutIds, HeaderNames
<1>6. CASE CutEnd
  BY <1>6 DEF CutChosen, CutEnd, Goto, cutVars, CutIds, HeaderNames
<1>7. CASE UNCHANGED <<toolVars, cutVars>>
  BY <1>7 DEF CutChosen, toolVars, cutVars, CutIds, HeaderNames
<1> QED BY <1>1, <1>2, <1>3, <1>4, <1>5, <1>6, <1>7 DEF CutNext

\* The column found by a name is the first that has it.
LEMMA FirstNamedIs ==
  ASSUME NEW names, IsSeq(names), NEW text
  PROVE  /\ (\A d \in DOMAIN names : names[d] # text) <=> FirstNamed(text, names) = 0
         /\ \A c \in DOMAIN names :
              FirstNamed(text, names) = c <=>
                names[c] = text /\ \A d \in 1..(c - 1) : names[d] # text
<1> DEFINE cs == {d \in DOMAIN names : names[d] = text}
           f == FirstNamed(text, names)
<1>1. Len(names) \in Nat /\ DOMAIN names = 1..Len(names)
  BY IsSeqFacts
<1>2. cs \subseteq Nat /\ 0 \notin cs /\ cs \subseteq Int
  BY <1>1
<1>3. f = IF cs = {} THEN 0 ELSE CHOOSE d \in cs : \A e \in cs : d <= e
  BY DEF FirstNamed, NoColumn
<1>4. \A c \in DOMAIN names :
        (names[c] = text /\ \A d \in 1..(c - 1) : names[d] # text) <=>
          (c \in cs /\ \A d \in cs : c <= d)
  <2> TAKE c \in DOMAIN names
  <2>1. c \in Int /\ \A d \in DOMAIN names : d \in Int /\ (d \in 1..(c - 1) <=> ~(c <= d))
    BY <1>1
  <2>2. 1..(c - 1) \subseteq DOMAIN names
    BY <1>1
  <2> QED BY <2>1, <2>2
<1>5. (\A d \in DOMAIN names : names[d] # text) <=> cs = {}
  OBVIOUS
<1> HIDE DEF cs, f
<1>6. CASE cs = {}
  BY <1>1, <1>3, <1>4, <1>5, <1>6 DEF f
<1>7. CASE cs # {}
  <2>1. \E d \in cs : \A e \in cs : d <= e
    BY ONLY <1>2, <1>7, Least
  <2>2. f \in cs /\ \A e \in cs : f <= e
    BY ONLY <1>3, <1>7, <2>1
  <2>3. f # 0
    BY ONLY <1>2, <2>2
  <2>4. \A c \in DOMAIN names : (c \in cs /\ \A d \in cs : c <= d) <=> f = c
    <3> TAKE c \in DOMAIN names
    <3>1. ASSUME c \in cs, \A d \in cs : c <= d PROVE f = c
      <4>1. c <= f /\ f <= c /\ c \in Int /\ f \in Int
        BY ONLY <1>2, <2>2, <3>1
      <4> QED BY ONLY <4>1
    <3> QED BY ONLY <2>2, <3>1
  <2> QED BY <1>4, <1>5, <1>7, <2>3, <2>4 DEF f
<1> QED BY <1>6, <1>7

\* An index found is the column of that number.
LEMMA AtIndexIs ==
  ASSUME NEW n \in Int, NEW names, IsSeq(names), NEW zero, NEW c \in DOMAIN names
  PROVE  AtIndex(n, names, zero) = c <=> n = IF zero THEN c - 1 ELSE c
<1>1. Len(names) \in Nat /\ c \in 1..Len(names)
  BY IsSeqFacts
<1>2. Offset(zero) \in {0, 1} /\ Offset(zero) = IF zero THEN 0 ELSE 1
  BY DEF Offset
<1> PICK m, o : m = n - Offset(zero) /\ o = Offset(zero)
  OBVIOUS
<1>3. AtIndex(n, names, zero) = IF m \in 0..(Len(names) - 1) THEN m + 1 ELSE 0
  BY DEF AtIndex, NoColumn
<1> QED BY ONLY <1>1, <1>2, <1>3, n \in Int, m = n - Offset(zero)

\* What a number or a name stands for is what is looked up; and no range is.
LEMMA MatchIs ==
  ASSUME NEW id, id.lo \in Int, NEW names, IsSeq(names), names = HeaderNames(cmd.names),
         DOMAIN cmd.names = DOMAIN names, NEW m, m = MatchIdentifier(id, names, cmd.zero)
  PROVE  /\ IsRange(id) <=> id.kind = "range" /\ m = 0
         /\ ~IsRange(id) => \A c \in DOMAIN names : Covers(id, c) <=> m = c
         /\ \A c \in DOMAIN names : m = c => Covers(id, c) /\ ~IsRange(id)
<1>1. /\ (\A d \in DOMAIN names : names[d] # id.text) <=> FirstNamed(id.text, names) = 0
      /\ \A c \in DOMAIN names :
           FirstNamed(id.text, names) = c <=>
             names[c] = id.text /\ \A d \in 1..(c - 1) : names[d] # id.text
  BY FirstNamedIs
<1>2. id.kind # "number" => m = FirstNamed(id.text, names)
  BY DEF MatchIdentifier
<1>3. id.kind = "number" => m = AtIndex(id.lo, names, cmd.zero)
  BY DEF MatchIdentifier
<1>4. IsRange(id) <=> id.kind = "range" /\ m = 0
  BY <1>1, <1>2 DEF IsRange
<1>5. \A c \in DOMAIN names : c # 0
  BY IsSeqFacts
<1>6. ASSUME ~IsRange(id), NEW c \in DOMAIN names PROVE Covers(id, c) <=> m = c
  <2>1. CASE id.kind = "number"
    <3>1. m = c <=> id.lo = IF cmd.zero THEN c - 1 ELSE c
      BY <1>3, <2>1, AtIndexIs
    <3> QED BY <1>6, <2>1, <3>1 DEF Covers
  <2>2. CASE id.kind # "number"
    BY <1>1, <1>2, <1>6, <2>2 DEF Covers
  <2> QED BY <2>1, <2>2
<1> QED BY <1>4, <1>5, <1>6

\* The columns of an identifier that is understood are those it stands for.
LEMMA ColumnsAre ==
  ASSUME NEW id, id.lo \in Int, id.hi \in Int, NEW names, IsSeq(names),
         names = HeaderNames(cmd.names), DOMAIN cmd.names = DOMAIN names,
         NEW columns, columns = ColumnsOf(id, names, cmd.zero),
         \A k \in DOMAIN columns : columns[k] # 0,
         NEW c \in DOMAIN names
  PROVE  Covers(id, c) <=> \E k \in DOMAIN columns : columns[k] = c
<1> PICK m, zero : m = MatchIdentifier(id, names, cmd.zero) /\ zero = cmd.zero
  OBVIOUS
<1>1. /\ IsRange(id) <=> id.kind = "range" /\ m = 0
      /\ ~IsRange(id) => (Covers(id, c) <=> m = c)
  BY MatchIs
<1>2. Len(names) \in Nat /\ DOMAIN names = 1..Len(names)
  BY IsSeqFacts
<1>3. CASE ~IsRange(id)
  <2>1. columns = <<m>>
    BY <1>1, <1>3 DEF ColumnsOf, NoColumn
  <2>2. DOMAIN columns = {1} /\ columns[1] = m
    BY <2>1
  <2> QED BY <1>1, <1>3, <2>2
<1>4. CASE IsRange(id)
  <2> PICK L, lo, hi, o : /\ L = Len(names) /\ o = Offset(zero)
                          /\ lo = IF id.lo = Open THEN Offset(zero) ELSE id.lo
                          /\ hi = IF id.hi = Open THEN Len(names) - 1 + Offset(zero) ELSE id.hi
    OBVIOUS
  <2> PICK n, number : /\ n = IF hi < lo THEN 0 ELSE hi - lo + 1
                       /\ number = IF zero THEN c - 1 ELSE c
    OBVIOUS
  <2>0. o = (IF zero THEN 0 ELSE 1) /\ L \in Nat /\ c \in 1..L
    BY <1>2 DEF Offset
  <2>1. lo \in Int /\ hi \in Int
    BY <2>0
  <2>2. columns = [k \in 1..n |-> AtIndex(lo + k - 1, names, zero)]
    <3>1. columns = RangeOf(id, names, zero)
      BY <1>1, <1>4 DEF ColumnsOf, NoColumn
    <3> QED BY <3>1 DEF RangeOf
  <2>3. Covers(id, c) <=>
          (id.lo = Open \/ id.lo <= number) /\ (id.hi = Open \/ number <= id.hi)
    <3>1. id.kind = "range"
      BY <1>4 DEF IsRange
    <3>2. ~(names[c] = id.text)
      BY <1>4 DEF IsRange
    <3> QED BY <1>4, <3>1, <3>2 DEF Covers
  <2>4. Covers(id, c) <=> lo <= number /\ number <= hi
    <3>1. o <= number /\ number <= L - 1 + o
      BY ONLY <2>0, number = IF zero THEN c - 1 ELSE c
    <3>2. /\ lo = IF id.lo = Open THEN o ELSE id.lo
          /\ hi = IF id.hi = Open THEN L - 1 + o ELSE id.hi
      OBVIOUS
    <3> QED BY ONLY <2>3, <3>1, <3>2
  <2>5. DOMAIN columns = 1..n /\ n \in Nat
        /\ \A k \in 1..n : columns[k] = c <=> lo + k - 1 = number
    <3>1. n \in Nat
      BY ONLY <2>1, n = IF hi < lo THEN 0 ELSE hi - lo + 1
    <3>2. \A k \in 1..n : lo + k - 1 \in Int
      BY ONLY <2>1, <3>1
    <3>3. \A i \in Int : AtIndex(i, names, zero) = c <=> i = number
      BY AtIndexIs
    <3>4. DOMAIN columns = 1..n /\ \A k \in 1..n : columns[k] = AtIndex(lo + k - 1, names, zero)
      BY ONLY <2>2
    <3> QED BY ONLY <3>1, <3>2, <3>3, <3>4
  <2>6. (\E k \in 1..n : lo + k - 1 = number) <=> lo <= number /\ number <= hi
    <3>0. number \in Int
      BY ONLY <2>0, number = IF zero THEN c - 1 ELSE c
    <3>1. ASSUME NEW k \in 1..n, lo + k - 1 = number PROVE lo <= number /\ number <= hi
      BY ONLY <2>1, <3>0, <3>1, n = IF hi < lo THEN 0 ELSE hi - lo + 1
    <3>2. ASSUME lo <= number, number <= hi PROVE \E k \in 1..n : lo + k - 1 = number
      <4>1. number - lo + 1 \in 1..n /\ lo + (number - lo + 1) - 1 = number
        BY ONLY <2>1, <3>0, <3>2, n = IF hi < lo THEN 0 ELSE hi - lo + 1
      <4> QED BY ONLY <4>1
    <3> QED BY ONLY <3>1, <3>2
  <2> QED BY ONLY <2>4, <2>5, <2>6
<1> QED BY <1>3, <1>4

\* The columns found, without the excluded ones, are those that are stood for.
LEMMA ColumnsExact ==
  ASSUME NEW ids, AreIds(ids), NEW excl, AreIds(excl), NEW names, IsSeq(names),
         names = HeaderNames(cmd.names), DOMAIN cmd.names = DOMAIN names,
         \A k \in DOMAIN excl : ~IsRange(excl[k]),
         NEW columns, columns = ParseColumnIdentifiers(ids, excl, names, cmd.zero),
         Understood(columns), NEW c \in DOMAIN names
  PROVE  (\E k \in DOMAIN columns : columns[k] = c) <=>
           /\ ids = <<>> \/ \E k \in DOMAIN ids : Covers(ids[k], c)
           /\ \A k \in DOMAIN excl : ~Covers(excl[k], c)
<1> DEFINE every == [d \in DOMAIN names |-> d]
           parts == [k \in DOMAIN ids |-> ColumnsOf(ids[k], names, cmd.zero)]
           wanted == IF ids = <<>> THEN every ELSE FlattenSeq(parts)
           X == Excluded(excl, names, cmd.zero)
<1>1. Len(names) \in Nat /\ DOMAIN names = 1..Len(names)
  BY IsSeqFacts
<1>2. IsSeq(every) /\ DOMAIN every = DOMAIN names /\ \A d \in DOMAIN names : every[d] = d
  BY <1>1, IsSeqFunction
<1>3. IsSeq(ids) /\ Len(ids) \in Nat /\ DOMAIN ids = 1..Len(ids)
  BY SeqIsSeq DEF AreIds
<1>4. /\ \A k \in DOMAIN ids : ids[k].lo \in Int /\ ids[k].hi \in Int
      /\ \A k \in DOMAIN excl : excl[k].lo \in Int
  BY IdsNumbered
<1>5. IsSeq(parts) /\ Len(parts) = Len(ids) /\ DOMAIN parts = 1..Len(ids)
      /\ \A k \in DOMAIN ids : parts[k] = ColumnsOf(ids[k], names, cmd.zero)
  BY <1>3, IsSeqFunction
<1>6. columns = IF NoColumn \in Range(wanted) THEN <<NoColumn>> ELSE Without(wanted, X)
  BY DEF ParseColumnIdentifiers
<1>w. (ids = <<>> => wanted = every) /\ (ids # <<>> => wanted = FlattenSeq(parts))
  OBVIOUS
<1> HIDE DEF every, parts, wanted
<1>7. \A k \in DOMAIN parts : IsSeq(parts[k])
  BY <1>3, <1>4, <1>5, IdentifiersFound
<1>8. Gathered(FlattenSeq(parts), parts, Len(parts))
  BY <1>5, <1>7, FlattenFacts
<1>9. IsSeq(wanted)
  BY <1>2, <1>8, <1>w DEF Gathered
<1>10. NoColumn \notin Range(wanted)
  <2>1. Range(<<NoColumn>>) = {NoColumn}
    BY DEF Range
  <2> QED BY <1>6, <2>1 DEF Understood
<1>11. \A i \in DOMAIN wanted : wanted[i] # 0
  BY <1>10 DEF Range, NoColumn
<1>12. /\ \A k \in DOMAIN columns :
            columns[k] \notin X /\ \E i \in DOMAIN wanted : columns[k] = wanted[i]
       /\ \A i \in DOMAIN wanted : wanted[i] \notin X =>
            \E k \in DOMAIN columns : columns[k] = wanted[i]
  BY <1>6, <1>9, <1>10, WithoutFacts
<1>13. (\E k \in DOMAIN columns : columns[k] = c) <=>
         c \notin X /\ \E i \in DOMAIN wanted : wanted[i] = c
  BY ONLY <1>12
<1>14. c \in X <=> \E k \in DOMAIN excl : Covers(excl[k], c)
  <2>1. \A k \in DOMAIN excl : Covers(excl[k], c) <=> MatchIdentifier(excl[k], names, cmd.zero) = c
    BY <1>4, MatchIs
  <2> QED BY <2>1 DEF Excluded
<1>15. (\E i \in DOMAIN wanted : wanted[i] = c) <=>
         ids = <<>> \/ \E k \in DOMAIN ids : Covers(ids[k], c)
  <2>1. CASE ids = <<>>
    <3>1. wanted = every
      BY <1>w, <2>1
    <3> QED BY <1>2, <2>1, <3>1
  <2>2. CASE ids # <<>>
    <3>1. /\ \A i \in DOMAIN ids : \A k \in DOMAIN parts[i] : \E m \in DOMAIN wanted : wanted[m] = parts[i][k]
          /\ \A m \in DOMAIN wanted : \E i \in DOMAIN ids : \E k \in DOMAIN parts[i] : wanted[m] = parts[i][k]
      BY <1>3, <1>5, <1>8, <1>w, <2>2 DEF Gathered
    <3>2. \A i \in DOMAIN ids : \A k \in DOMAIN parts[i] : parts[i][k] # 0
      BY <1>11, <3>1
    <3>3. \A i \in DOMAIN ids : Covers(ids[i], c) <=> \E k \in DOMAIN parts[i] : parts[i][k] = c
      <4> TAKE i \in DOMAIN ids
      <4>1. PICK id, part : id = ids[i] /\ part = ColumnsOf(id, names, cmd.zero)
        OBVIOUS
      <4>2. id.lo \in Int /\ id.hi \in Int /\ part = parts[i]
        BY <1>4, <1>5, <4>1
      <4>3. \A k \in DOMAIN part : part[k] # 0
        BY <3>2, <4>2
      <4>4. Covers(id, c) <=> \E k \in DOMAIN part : part[k] = c
        <5>1. IsSeq(names) /\ names = HeaderNames(cmd.names) /\ DOMAIN cmd.names = DOMAIN names
              /\ c \in DOMAIN names
          OBVIOUS
        <5>2. part = ColumnsOf(id, names, cmd.zero) /\ id.lo \in Int /\ id.hi \in Int
          BY <4>1, <4>2
        <5> QED BY ONLY <4>3, <5>1, <5>2, ColumnsAre
      <4> QED BY ONLY <4>1, <4>2, <4>4
    <3> QED BY ONLY <2>2, <3>1, <3>3
  <2> QED BY <2>1, <2>2
<1> QED BY ONLY <1>13, <1>14, <1>15

\* For every header and every identifiers, the columns printed are exactly those that -c
\* asks for and that no identifier of -C stands for, unless -C has a range, which is not
\* looked at (parse_column_identifiers).
THEOREM CutPrintsColumns == CutSpec => []CutColumns
<1>1. ToolInit /\ CutInit => CutChosen
  BY CutAssumption DEF ToolInit, CutChosen
<1>2. CutChosen => CutColumns
  <2> SUFFICES ASSUME CutChosen, cmd.tool = "cut", ~cmd.show_names,
                      at \in {"cutting", "done", "undefined"},
                      \A k \in DOMAIN cmd.excl : ~IsRange(cmd.excl[k])
               PROVE  CutColumns
    BY DEF CutColumns
  <2> PICK names : names = HeaderNames(cmd.names)
    OBVIOUS
  <2> PICK columns : columns = ParseColumnIdentifiers(cmd.ids, cmd.excl, names, cmd.zero)
    OBVIOUS
  <2>1. IsSeq(names) /\ Len(names) = Len(cmd.names) /\ AreIds(cmd.ids) /\ AreIds(cmd.excl)
    BY HeaderNamesFacts DEF CutChosen
  <2>2. cut_ids = columns /\ Understood(columns)
    BY DEF CutChosen, CutIds
  <2>3. DOMAIN cmd.names = DOMAIN names
    <3>1. Len(cmd.names) \in Nat /\ DOMAIN cmd.names = 1..Len(cmd.names)
      BY SeqIsSeq DEF CutChosen
    <3> QED BY <2>1, <3>1, IsSeqFacts
  <2>4. \A k \in DOMAIN columns : columns[k] \in DOMAIN names
    BY <2>1, <2>2, ColumnsFound
  <2>5. ASSUME NEW c \in DOMAIN names
        PROVE  (\E k \in DOMAIN columns : columns[k] = c) <=>
                 /\ cmd.ids = <<>> \/ \E k \in DOMAIN cmd.ids : Covers(cmd.ids[k], c)
                 /\ \A k \in DOMAIN cmd.excl : ~Covers(cmd.excl[k], c)
    BY <2>1, <2>2, <2>3, ColumnsExact
  <2>6. Range(cut_ids) = {columns[k] : k \in DOMAIN columns}
    BY <2>2 DEF Range
  <2>7. Range(cut_ids) =
          {c \in DOMAIN cmd.names :
             /\ cmd.ids = <<>> \/ \E k \in DOMAIN cmd.ids : Covers(cmd.ids[k], c)
             /\ \A k \in DOMAIN cmd.excl : ~Covers(cmd.excl[k], c)}
    BY ONLY <2>3, <2>4, <2>5, <2>6
  <2> QED BY <2>7 DEF CutColumns
<1> QED BY <1>1, <1>2, CutChosenStep, PTL DEF CutSpec

-------------------------------------------------------------------------------
(* csvGrep.                                                                   *)

GrepLines == [n : Int, line : Int]
\* What the property asks of a row.
Found(l) ==
  IF cmd.any THEN \E c \in Range(grep_ids) : <<l, c>> \in cmd.patterns[Pattern]
  ELSE \A c \in Range(grep_ids) : <<l, c>> \in cmd.patterns[Pattern]

GrepPrinted ==
  /\ searched \in Nat
  /\ Len(Output) > 0 /\ Output[1].line = 0
  /\ \A l \in 1..searched : (\E k \in 1..Len(Output) : Output[k].line = l) = (Found(l) # cmd.invert)
  /\ \A k \in 1..Len(Output) : Output[k].line <= searched
  /\ \A j, k \in 1..Len(Output) : j < k => Output[j].line < Output[k].line
  /\ cmd.linenumbers => \A k \in 1..Len(Output) : Output[k].n = Output[k].line
GrepInv ==
  cmd.tool = "grep" /\ ~cmd.show_names =>
    /\ GrepIds \in Seq(Int) /\ OutputOK(GrepLines)
    /\ at = "start" => out = <<>> /\ held = <<>> /\ searched = 0
    /\ at \in {"searching", "done"} => grep_ids \in Seq(Int) /\ GrepPrinted

LEMMA GrepInitially == ToolInit /\ GrepInit => GrepInv
<1> SUFFICES ASSUME ToolInit, GrepInit, cmd.tool = "grep" PROVE GrepInv
  BY DEF GrepInv
<1>1. GrepIds \in Seq(Int)
  <2>1. cmd.names \in Seq(STRING) /\ AreIds(cmd.ids)
    BY GrepAssumption DEF ToolInit
  <2>2. GrepIds \in Seq(0..Len(HeaderNames(cmd.names))) /\ IsSeq(HeaderNames(cmd.names))
    <3> PICK names : names = HeaderNames(cmd.names)
      OBVIOUS
    <3> PICK columns : columns = ParseColumnIdentifiers(cmd.ids, <<>>, names, cmd.zero)
      OBVIOUS
    <3>1. IsSeq(names)
      BY <2>1, HeaderNamesFacts
    <3>2. columns \in Seq(0..Len(names))
      BY <2>1, <3>1, ColumnsFound
    <3> QED BY <3>1, <3>2 DEF GrepIds
  <2>3. 0..Len(HeaderNames(cmd.names)) \subseteq Int
    BY <2>2, IsSeqFacts
  <2> QED BY <2>2, <2>3, SeqIsSeq, IsSeqIn, ElementOfSeq
<1>2. OutputOK(GrepLines)
  BY DEF ToolInit, OutputOK
<1> QED BY <1>1, <1>2 DEF GrepInv, ToolInit, GrepInit

\* To count the columns in which a row matches is to look for one in which it does not,
\* even if a column is asked for twice.
LEMMA MatchesIsFound ==
  ASSUME grep_ids \in Seq(Int), NEW l
  PROVE  Matches(l) = Found(l)
<1> DEFINE n == Len(grep_ids)
<1>1. n \in Nat /\ DOMAIN grep_ids = 1..n
  BY LenProperties
<1>2. Hits(l) \in SUBSET (1..n)
  BY <1>1 DEF Hits
<1>3. IsFiniteSet(1..n) /\ Cardinality(1..n) = n
  <2>1. 1 \in Int /\ n \in Int /\ (IF 1 > n THEN 0 ELSE n - 1 + 1) = n
    BY <1>1
  <2> HIDE DEF n
  <2> QED BY <2>1, FS_Interval
<1>4. Cardinality(Hits(l)) = n <=> Hits(l) = 1..n
  BY <1>2, <1>3, FS_Subset
<1>5. AllHits(l) = (\A c \in Range(grep_ids) : <<l, c>> \in cmd.patterns[Pattern])
  <2>1. Hits(l) = 1..n <=> \A c \in Range(grep_ids) : <<l, c>> \in cmd.patterns[Pattern]
    BY <1>1 DEF Hits, Range
  <2> QED BY <1>4, <2>1 DEF AllHits
<1>6. AnyHits(l) = (\E c \in Range(grep_ids) : <<l, c>> \in cmd.patterns[Pattern])
  BY <1>1 DEF AnyHits, Hits, Range
<1> QED BY <1>5, <1>6 DEF Matches, Found

LEMMA GrepStartStep ==
  ASSUME GrepInv, cmd.tool = "grep", ~cmd.show_names, GrepStart
  PROVE  GrepInv'
<1> DEFINE x == [n |-> 0, line |-> 0]
<1>1. /\ out = <<>> /\ held = <<>> /\ searched' = 0 /\ cmd' = cmd /\ grep_ids' = GrepIds
      /\ GrepIds \in Seq(Int) /\ OutputOK(GrepLines) /\ Write(<<x>>)
      /\ at' \in {"rejected", "searching"}
  BY DEF GrepStart, GrepInv, Goto
<1>2. x \in GrepLines /\ x.n = 0 /\ x.line = 0
  BY DEF GrepLines
<1>3. Len(Output) = 0
  BY <1>1 DEF Output
<1> HIDE DEF x
<1>4. OutputOK(GrepLines)' /\ Len(Output') = 1 /\ Output'[1] = x
  BY <1>1, <1>2, <1>3, LineWritten
<1>5. GrepPrinted'
  <2>1. \A k \in 1..1 : Output'[k].line = 0 /\ Output'[k].n = 0
    BY <1>2, <1>4
  <2>2. \A j, k \in 1..1 : ~(j < k)
    OBVIOUS
  <2>3. \A l \in 1..0 : FALSE
    OBVIOUS
  <2> HIDE DEF Output
  <2> QED BY <1>1, <1>4, <2>1, <2>2, <2>3 DEF GrepPrinted
<1>6. GrepIds' = GrepIds
  BY <1>1 DEF GrepIds, HeaderNames
<1> QED BY <1>1, <1>4, <1>5, <1>6 DEF GrepInv

LEMMA GrepRowStep ==
  ASSUME GrepInv, cmd.tool = "grep", ~cmd.show_names, GrepRow
  PROVE  GrepInv'
<1> DEFINE N == Len(Output)
           l == searched + 1
           x == [n |-> IF cmd.linenumbers THEN l ELSE 0, line |-> l]
<1>1. /\ at = "searching" /\ at' = at /\ cmd' = cmd /\ grep_ids' = grep_ids /\ grep_ids \in Seq(Int)
      /\ GrepIds \in Seq(Int) /\ OutputOK(GrepLines) /\ GrepPrinted /\ searched' = l
      /\ \/ Matches(l) # cmd.invert /\ Write(<<x>>)
         \/ Matches(l) = cmd.invert /\ Quiet
  BY DEF GrepRow, GrepInv, RowToSearch
<1>2. GrepIds' = GrepIds /\ (\A i : Found(i)' = Found(i)) /\ Matches(l) = Found(l)
  BY <1>1, MatchesIsFound DEF GrepIds, HeaderNames, Found, Pattern
<1>3. Output \in Seq(GrepLines) /\ N \in Nat /\ DOMAIN Output = 1..N
  BY <1>1, OutputFacts
<1>4. \A k \in 1..N : Output[k].line \in Int /\ Output[k].line <= searched /\ Output[k].line # l
  <2>1. \A k \in 1..N : Output[k] \in GrepLines
    BY <1>3
  <2>2. \A k \in 1..N : Output[k].line <= searched
    BY <1>1 DEF GrepPrinted
  <2>3. \A k \in 1..N : Output[k].line \in Int
    BY <2>1 DEF GrepLines
  <2> QED BY <1>1, <2>2, <2>3 DEF GrepPrinted
<1>5. searched \in Nat /\ N > 0 /\ Output[1].line = 0 /\ l \in Nat
  BY <1>1 DEF GrepPrinted
<1>6. \A i \in 1..l : i \in 1..searched \/ i = l
  BY <1>5
<1>7. CASE Matches(l) # cmd.invert /\ Write(<<x>>)
  <2>1. x \in GrepLines /\ x.line = l /\ (cmd.linenumbers => x.n = l)
    BY <1>5 DEF GrepLines
  <2> HIDE DEF x
  <2>2. /\ OutputOK(GrepLines)' /\ Len(Output') = N + 1
        /\ \A k \in 1..N : Output'[k] = Output[k]
        /\ Output'[N + 1] = x
    BY <1>1, <1>7, <2>1, LineWritten
  <2> HIDE DEF Output, N
  <2>3. \A k \in 1..(N + 1) : k \in 1..N \/ k = N + 1
    BY <1>3
  <2>4. \A k \in 1..N : k \in 1..(N + 1)
    BY <1>3
  <2>5. \A i \in 1..l : (\E k \in 1..(N + 1) : Output'[k].line = i) = (Found(i) # cmd.invert)
    <3> SUFFICES ASSUME NEW i \in 1..l
                 PROVE  (\E k \in 1..(N + 1) : Output'[k].line = i) <=> (Found(i) # cmd.invert)
      OBVIOUS
    <3>1. CASE i = l
      BY <1>2, <1>3, <1>7, <2>1, <2>2, <3>1
    <3>2. CASE i \in 1..searched
      <4>1. (\E k \in 1..N : Output[k].line = i) <=> (Found(i) # cmd.invert)
        BY <1>1, <3>2 DEF GrepPrinted, N
      <4>2. x.line # i
        BY <1>5, <2>1, <3>2
      <4> QED BY <2>2, <2>3, <2>4, <4>1, <4>2
    <3> QED BY <1>6, <3>1, <3>2
  <2>6. \A k \in 1..(N + 1) : Output'[k].line <= l
    BY <1>4, <1>5, <2>1, <2>2, <2>3
  <2>7. \A j, k \in 1..(N + 1) : j < k => Output'[j].line < Output'[k].line
    <3> SUFFICES ASSUME NEW j \in 1..(N + 1), NEW k \in 1..(N + 1), j < k
                 PROVE  Output'[j].line < Output'[k].line
      OBVIOUS
    <3>1. j \in 1..N /\ Output'[j] = Output[j] /\ Output[j].line <= searched /\ Output[j].line \in Int
      BY <1>3, <1>4, <2>2
    <3>2. CASE k \in 1..N
      BY <1>1, <2>2, <3>1, <3>2 DEF GrepPrinted, N
    <3>3. CASE k = N + 1
      BY <1>5, <2>1, <2>2, <3>1, <3>3
    <3> QED BY <2>3, <3>2, <3>3
  <2>8. cmd.linenumbers => \A k \in 1..(N + 1) : Output'[k].n = Output'[k].line
    BY <1>1, <2>1, <2>2, <2>3 DEF GrepPrinted, N
  <2>9. Output'[1].line = 0 /\ N + 1 > 0
    BY <1>3, <1>5, <2>2
  <2>10. GrepPrinted'
    BY <1>1, <1>2, <1>5, <2>2, <2>5, <2>6, <2>7, <2>8, <2>9 DEF GrepPrinted
  <2> QED BY <1>1, <1>2, <2>2, <2>10 DEF GrepInv
<1>8. CASE Matches(l) = cmd.invert /\ Quiet
  <2>1. Output' = Output /\ OutputOK(GrepLines)'
    BY <1>1, <1>8 DEF Quiet, Output, OutputOK
  <2> HIDE DEF Output, N
  <2>2. \A i \in 1..l : (\E k \in 1..N : Output[k].line = i) = (Found(i) # cmd.invert)
    <3> SUFFICES ASSUME NEW i \in 1..l
                 PROVE  (\E k \in 1..N : Output[k].line = i) = (Found(i) # cmd.invert)
      OBVIOUS
    <3>1. CASE i = l
      BY <1>2, <1>4, <1>8, <3>1
    <3>2. CASE i \in 1..searched
      BY <1>1, <3>2 DEF GrepPrinted, N
    <3> QED BY <1>6, <3>1, <3>2
  <2>3. \A k \in 1..N : Output[k].line <= l
    BY <1>4, <1>5
  <2>4. GrepPrinted'
    BY <1>1, <1>2, <1>5, <2>1, <2>2, <2>3 DEF GrepPrinted, N
  <2> QED BY <1>1, <1>2, <2>1, <2>4 DEF GrepInv
<1> QED BY <1>1, <1>7, <1>8

LEMMA GrepEndStep ==
  ASSUME GrepInv, cmd.tool = "grep", ~cmd.show_names, GrepEnd
  PROVE  GrepInv'
<1>1. /\ at = "searching" /\ at' = "done" /\ cmd' = cmd /\ Flush /\ grep_ids \in Seq(Int)
      /\ GrepIds \in Seq(Int) /\ OutputOK(GrepLines) /\ GrepPrinted
      /\ grep_ids' = grep_ids /\ searched' = searched
  BY DEF GrepEnd, GrepInv, Goto, grepVars
<1>2. OutputOK(GrepLines)' /\ Output' = Output
  BY <1>1, Flushed
<1>3. GrepIds' = GrepIds /\ \A i : Found(i)' = Found(i)
  BY <1>1 DEF GrepIds, HeaderNames, Found, Pattern
<1> HIDE DEF Output
<1>4. GrepPrinted'
  BY <1>1, <1>2, <1>3 DEF GrepPrinted
<1> QED BY <1>1, <1>2, <1>3, <1>4 DEF GrepInv

LEMMA GrepStep == GrepInv /\ [GrepNext]_<<toolVars, grepVars>> => GrepInv'
<1> SUFFICES ASSUME GrepInv, [GrepNext]_<<toolVars, grepVars>>, cmd'.tool = "grep",
                    ~cmd'.show_names
             PROVE  GrepInv'
  BY DEF GrepInv
<1>1. cmd' = cmd
  BY DEF GrepNext, toolVars, GrepNames, GrepRejected, GrepStart, GrepRow, GrepEnd, Goto
<1>2. CASE GrepStart
  BY <1>1, <1>2, GrepStartStep
<1>3. CASE GrepRow
  BY <1>1, <1>3, GrepRowStep
<1>4. CASE GrepEnd
  BY <1>1, <1>4, GrepEndStep
<1>5. CASE GrepNames
  BY <1>1, <1>5 DEF GrepNames
<1>6. CASE GrepRejected
  <2>1. at' \in {"failed", "rejected"} /\ UNCHANGED <<out, held, grep_ids, searched>>
    BY <1>6 DEF GrepRejected, Goto, Quiet, grepVars
  <2> QED BY <1>1, <2>1 DEF GrepInv, OutputOK, GrepIds, HeaderNames
<1>7. CASE UNCHANGED <<toolVars, grepVars>>
  <2>1. UNCHANGED <<cmd, at, out, held, grep_ids, searched>>
    BY <1>7 DEF toolVars, grepVars
  <2>2. GrepIds' = GrepIds /\ OutputOK(GrepLines)' = OutputOK(GrepLines)
    BY <2>1 DEF GrepIds, HeaderNames, OutputOK
  <2>3. GrepPrinted' = GrepPrinted
    BY <2>1 DEF GrepPrinted, Found, Pattern, Output
  <2> QED BY <1>1, <2>1, <2>2, <2>3 DEF GrepInv
<1> QED BY <1>2, <1>3, <1>4, <1>5, <1>6, <1>7 DEF GrepNext

\* For any source, patterns and command line, csvGrep prints under the header, in order and
\* with their places in the source for numbers, exactly the rows that match in the columns
\* asked for, or under -i exactly the others (search_and_output).
THEOREM GrepPrintsMatches == GrepSpec => []GrepSelects
<1>1. ToolInit /\ GrepInit => GrepInv
  BY GrepInitially
<1>2. GrepInv /\ [GrepNext]_<<toolVars, grepVars>> => GrepInv'
  BY GrepStep
<1>3. GrepInv => GrepSelects
  <2> SUFFICES ASSUME GrepInv, cmd.tool = "grep", at \in {"searching", "done"}, ~cmd.show_names
               PROVE  GrepSelects
    BY DEF GrepSelects
  <2>1. OutputOK(GrepLines) /\ GrepPrinted
    BY DEF GrepInv
  <2>2. DOMAIN Output = 1..Len(Output)
    BY <2>1, OutputFacts
  <2> HIDE DEF Output
  <2> QED BY <2>1, <2>2 DEF GrepSelects, GrepPrinted, Found
<1> QED BY <1>1, <1>2, <1>3, PTL DEF GrepSpec

-------------------------------------------------------------------------------
(* csvClean: one file.                                                        *)

FileLines == [kind : {"none", "header", "row", "error"}, n : Int, row : Int, line : Int]

\* After m rows: the file begins with its header, holds the rows wanted and count lines
\* of data, in the order of the source.
FileHolds(file, header, m, wanted, count) ==
  /\ file \in Seq(FileLines)
  /\ file # NoFile => /\ Len(header) <= Len(file)
                      /\ \A i \in 1..Len(header) : file[i] = header[i]
  /\ \A k \in 1..Len(file) : file[k].line <= m
  /\ \A j, k \in 1..Len(file) : j < k => file[j].line < file[k].line
  /\ IsFiniteSet(DataLines(file)) /\ Cardinality(DataLines(file)) = count
  /\ \A r \in wanted : \E k \in DataLines(file) : file[k].line = r

\* A header by itself.
IsHeader(header) ==
  header = <<>> \/ header = <<FileLine("header", 0, 0, 0)>>

LEMMA HeaderFacts ==
  ASSUME NEW header, IsHeader(header)
  PROVE  /\ header \in Seq(FileLines) /\ header # NoFile
         /\ DataLines(header) = {}
         /\ \A k \in 1..Len(header) : header[k].line = 0
         /\ Len(header) \in {0, 1}
<1>1. FileLine("header", 0, 0, 0) \in FileLines
  BY DEF FileLine, FileLines
<1>2. CASE header = <<>>
  <2>1. header \in Seq(FileLines) /\ Len(header) = 0 /\ DOMAIN header = {}
    BY <1>2
  <2>2. header # NoFile
    BY <1>2 DEF NoFile
  <2> QED BY <2>1, <2>2 DEF DataLines
<1>3. CASE header = <<FileLine("header", 0, 0, 0)>>
  <2>1. header \in Seq(FileLines) /\ Len(header) = 1 /\ header[1] = FileLine("header", 0, 0, 0)
    BY <1>1, <1>3
  <2>2. header[1].kind = "header" /\ header[1].line = 0
    BY <2>1 DEF FileLine
  <2>3. header # NoFile
    BY <2>2 DEF NoFile, FileLine
  <2> QED BY <2>1, <2>2, <2>3 DEF DataLines
<1> QED BY <1>2, <1>3 DEF IsHeader

LEMMA NoFileFacts ==
  /\ NoFile \in Seq(FileLines) /\ Len(NoFile) = 1 /\ NoFile[1].line = -1
  /\ DataLines(NoFile) = {}
<1>1. FileLine("none", 0, 0, -1) \in FileLines
  BY DEF FileLine, FileLines
<1>2. NoFile \in Seq(FileLines) /\ Len(NoFile) = 1 /\ NoFile[1] = FileLine("none", 0, 0, -1)
  BY <1>1 DEF NoFile
<1> QED BY <1>2 DEF DataLines, FileLine

LEMMA NoFileHolds ==
  ASSUME NEW header
  PROVE  FileHolds(NoFile, header, 0, {}, 0)
BY NoFileFacts, FS_EmptySet DEF FileHolds

\* A file that holds nothing is no worse for being created with its header.
LEMMA HeaderHolds ==
  ASSUME NEW header, IsHeader(header), NEW m \in Nat
  PROVE  FileHolds(header, header, m, {}, 0)
<1>1. header \in Seq(FileLines) /\ DataLines(header) = {} /\ Len(header) \in {0, 1}
  BY HeaderFacts
<1>2. \A k \in 1..Len(header) : header[k].line <= m
  BY HeaderFacts
<1> QED BY <1>1, <1>2, FS_EmptySet DEF FileHolds

LEMMA IntoFacts ==
  ASSUME NEW file \in Seq(FileLines), NEW header \in Seq(FileLines), NEW entry \in FileLines
  PROVE  LET base == IF file = NoFile THEN header ELSE file
             g == Into(file, header, entry)
         IN  /\ g \in Seq(FileLines) /\ Len(base) \in Nat /\ Len(g) = Len(base) + 1
             /\ \A i \in 1..Len(base) : g[i] = base[i]
             /\ g[Len(g)] = entry
<1> DEFINE base == IF file = NoFile THEN header ELSE file
<1>1. base \in Seq(FileLines) /\ Into(file, header, entry) = base \o <<entry>>
  BY DEF Into
<1> HIDE DEF base
<1>2. base \o <<entry>> = Append(base, entry)
  BY <1>1
<1> QED BY <1>1, <1>2 DEF base

\* The next row goes to the end of its file.
LEMMA IntoHolds ==
  ASSUME NEW header, IsHeader(header), NEW m \in Nat, NEW wanted, NEW count \in Nat,
         NEW file, FileHolds(file, header, m, wanted, count),
         NEW entry \in FileLines, entry.kind \in {"row", "error"}, entry.line = m + 1
  PROVE  FileHolds(Into(file, header, entry), header, m + 1, wanted \cup {m + 1}, count + 1)
<1> DEFINE base == IF file = NoFile THEN header ELSE file
           g == Into(file, header, entry)
<1>1. file \in Seq(FileLines) /\ header \in Seq(FileLines)
  BY HeaderFacts DEF FileHolds
<1>2. /\ g \in Seq(FileLines) /\ Len(base) \in Nat /\ Len(g) = Len(base) + 1
      /\ \A i \in 1..Len(base) : g[i] = base[i]
      /\ g[Len(g)] = entry
  BY <1>1, IntoFacts
<1>3. /\ base \in Seq(FileLines)
      /\ \A k \in 1..Len(base) : base[k].line <= m /\ base[k].line \in Int
      /\ \A j, k \in 1..Len(base) : j < k => base[j].line < base[k].line
      /\ IsFiniteSet(DataLines(base)) /\ Cardinality(DataLines(base)) = count
      /\ \A r \in wanted : \E k \in DataLines(base) : base[k].line = r
      /\ Len(header) \in Nat /\ Len(header) <= Len(base)
      /\ \A i \in 1..Len(header) : base[i] = header[i]
  <2>1. CASE file = NoFile
    <3>1. base = header /\ DataLines(file) = {}
      BY <2>1, NoFileFacts
    <3>2. wanted = {} /\ count = 0
      BY <3>1, FS_EmptySet DEF FileHolds
    <3>3. \A j, k \in 1..Len(header) : ~(j < k)
      BY HeaderFacts, <1>1
    <3>4. /\ \A k \in 1..Len(header) : header[k].line <= m /\ header[k].line \in Int
          /\ \A j, k \in 1..Len(header) : j < k => header[j].line < header[k].line
      BY <3>3, HeaderFacts
    <3>5. IsFiniteSet(DataLines(header)) /\ Cardinality(DataLines(header)) = count
      BY <3>2, HeaderFacts, FS_EmptySet
    <3>6. Len(header) \in Nat
      BY HeaderFacts
    <3>7. /\ header \in Seq(FileLines)
          /\ \A r \in wanted : \E k \in DataLines(header) : header[k].line = r
          /\ Len(header) <= Len(header)
          /\ \A i \in 1..Len(header) : header[i] = header[i]
      BY ONLY <1>1, <3>2, <3>6
    <3>8. base = header
      BY <3>1
    <3> HIDE DEF base
    <3> QED BY ONLY <3>4, <3>5, <3>6, <3>7, <3>8
  <2>2. CASE file # NoFile
    <3>1. base = file
      BY <2>2
    <3>2. \A k \in 1..Len(file) : file[k] \in FileLines
      BY <1>1
    <3>3. \A k \in 1..Len(file) : file[k].line \in Int
      BY <3>2 DEF FileLines
    <3> QED BY <1>1, <2>2, <3>1, <3>3 DEF FileHolds
  <2> QED BY <2>1, <2>2
<1> HIDE DEF base, g
<1>4. DataLines(g) = DataLines(base) \cup {Len(g)} /\ Len(g) \notin DataLines(base)
  <2>1. DOMAIN g = 1..Len(g) /\ DOMAIN base = 1..Len(base)
    BY <1>2, <1>3
  <2>2. \A k \in DOMAIN g : k \in DataLines(g) <=> k \in DataLines(base) \cup {Len(g)}
    BY <1>2, <2>1 DEF DataLines
  <2> QED BY <1>2, <2>1, <2>2 DEF DataLines
<1>5. IsFiniteSet(DataLines(g)) /\ Cardinality(DataLines(g)) = count + 1
  <2>1. /\ IsFiniteSet(DataLines(base) \cup {Len(g)})
        /\ Cardinality(DataLines(base) \cup {Len(g)}) = Cardinality(DataLines(base)) + 1
    BY <1>3, <1>4, FS_AddElement, Zenon
  <2> QED BY <1>3, <1>4, <2>1
<1>6. \A k \in 1..Len(g) : g[k].line <= m + 1
  <2> TAKE k \in 1..Len(g)
  <2>1. CASE k \in 1..Len(base)
    <3>1. g[k] = base[k] /\ base[k].line <= m /\ base[k].line \in Int
      BY <1>2, <1>3, <2>1
    <3> QED BY ONLY <3>1, m \in Nat
  <2>2. CASE k = Len(g)
    <3>1. g[k].line = m + 1
      BY <1>2, <2>2
    <3> QED BY ONLY <3>1, m \in Nat
  <2>3. k \in 1..Len(base) \/ k = Len(g)
    BY <1>2
  <2> QED BY ONLY <2>1, <2>2, <2>3
<1>7. \A j, k \in 1..Len(g) : j < k => g[j].line < g[k].line
  <2> SUFFICES ASSUME NEW j \in 1..Len(g), NEW k \in 1..Len(g), j < k
               PROVE  g[j].line < g[k].line
    OBVIOUS
  <2>1. j \in 1..Len(base) /\ g[j] = base[j]
    BY <1>2
  <2>2. CASE k = Len(g)
    BY <1>2, <1>3, <2>1, <2>2
  <2>3. CASE k # Len(g)
    <3>1. k \in 1..Len(base) /\ g[k] = base[k]
      BY <1>2, <2>3
    <3> QED BY <1>3, <2>1, <3>1
  <2> QED BY <2>2, <2>3
<1>8. \A r \in wanted \cup {m + 1} : \E k \in DataLines(g) : g[k].line = r
  <2>1. \A r \in wanted : \E k \in DataLines(g) : g[k].line = r
    <3> SUFFICES ASSUME NEW r \in wanted
                 PROVE  \E k \in DataLines(g) : g[k].line = r
      OBVIOUS
    <3>1. PICK k \in DataLines(base) : base[k].line = r
      BY <1>3
    <3>2. k \in 1..Len(base)
      BY <1>3 DEF DataLines
    <3> QED BY <1>2, <1>4, <3>1, <3>2
  <2> QED BY <1>2, <1>4, <2>1
<1>9. Len(header) <= Len(g) /\ \A i \in 1..Len(header) : g[i] = header[i]
  BY <1>2, <1>3
<1> QED BY <1>2, <1>5, <1>6, <1>7, <1>8, <1>9 DEF FileHolds, g

-------------------------------------------------------------------------------
(* csvClean: the inductive invariant.                                         *)

\* The row the reader reports that is none.
NoRows == Len(cmd.widths) = 1 /\ cmd.widths[1] = 0
Good(m) == {r \in 1..m : cmd.widths[r] = cmd.header}
Bad(m) == {r \in 1..m : cmd.widths[r] # cmd.header}

SourceOK ==
  /\ cmd.header \in Nat /\ cmd.widths \in Seq(Nat)
  /\ 0 \in Range(cmd.widths) => Len(cmd.widths) = 1
CountsOK ==
  /\ reported \in 0..Len(cmd.widths)
  /\ rows = IF NoRows THEN 0 ELSE reported
  /\ errors \in Nat
  /\ good_rows \in Nat /\ bad_rows \in Nat
  /\ at = "start" => reported = 0 /\ errors = 0
  /\ at = "cleaning" => current_row = rows + FirstLine
DryOK ==
  /\ files = [out |-> NoFile, err |-> NoFile]
  /\ log \in Seq(Nat) /\ Range(log) = Bad(rows)
FilesOK ==
  /\ files = [out |-> files.out, err |-> files.err]
  /\ FileHolds(files.out, OutHeader, rows, Good(rows), rows - errors)
  /\ FileHolds(files.err, ErrHeader, rows, Bad(rows), errors)
  /\ \A k \in DataLines(files.err) : files.err[k].row = files.err[k].line
  /\ files.err # NoFile => Bad(rows) # {}
  /\ at = "done" => files.out # NoFile

CleanInv ==
  cmd.tool = "clean" =>
    /\ SourceOK /\ CountsOK
    /\ cmd.dry_run => DryOK
    /\ ~cmd.dry_run => FilesOK

LEMMA Headers == IsHeader(OutHeader) /\ IsHeader(ErrHeader)
BY DEF IsHeader, OutHeader, ErrHeader

LEMMA CleanInitially == ToolInit /\ CleanInit => CleanInv
<1> SUFFICES ASSUME ToolInit, CleanInit, cmd.tool = "clean"
             PROVE  /\ SourceOK /\ CountsOK
                    /\ cmd.dry_run => DryOK
                    /\ ~cmd.dry_run => FilesOK
  BY DEF CleanInv
<1>1. SourceOK
  BY CleanAssumption DEF ToolInit, SourceOK
<1>2. CountsOK
  <2>1. Len(cmd.widths) \in Nat
    BY <1>1 DEF SourceOK
  <2> QED BY <2>1 DEF CountsOK, CleanInit, ToolInit
<1>3. Good(0) = {} /\ Bad(0) = {}
  BY DEF Good, Bad
<1>4. DryOK
  BY <1>3 DEF DryOK, CleanInit, Range
<1>5. FilesOK
  <2>1. FileHolds(NoFile, OutHeader, 0, {}, 0) /\ FileHolds(NoFile, ErrHeader, 0, {}, 0)
    BY NoFileHolds
  <2>2. files.out = NoFile /\ files.err = NoFile /\ rows = 0 /\ errors = 0 /\ at = "start"
    BY DEF CleanInit, ToolInit
  <2>3. files = [out |-> files.out, err |-> files.err]
    BY DEF CleanInit
  <2>4. rows - errors = 0 /\ Good(rows) = {} /\ Bad(rows) = {}
    BY <1>3, <2>2
  <2>5. /\ FileHolds(files.out, OutHeader, rows, Good(rows), rows - errors)
        /\ FileHolds(files.err, ErrHeader, rows, Bad(rows), errors)
    BY <2>1, <2>2, <2>4, Zenon
  <2>6. DataLines(files.err) = {} /\ at # "done"
    BY <2>2, NoFileFacts
  <2> QED BY <2>2, <2>3, <2>5, <2>6 DEF FilesOK
<1> QED BY <1>1, <1>2, <1>4, <1>5

\* The rows counted when a row that counts is reported.
LEMMA NextRow ==
  ASSUME SourceOK, CountsOK, RowReported, ~NoCells
  PROVE  /\ ~NoRows /\ rows \in Nat /\ rows = reported /\ ThisRow = rows + 1
         /\ ThisRow \in 1..Len(cmd.widths)
<1>1. Len(cmd.widths) \in Nat /\ reported \in Nat /\ reported < Len(cmd.widths)
  BY DEF SourceOK, CountsOK, RowReported
<1>2. ~NoRows
  BY <1>1 DEF NoCells, NoRows, CountsOK, ThisRow
<1> QED BY <1>1, <1>2 DEF CountsOK, ThisRow

LEMMA RowsSplit ==
  ASSUME NEW m \in Nat
  PROVE  /\ cmd.widths[m + 1] = cmd.header => Good(m + 1) = Good(m) \cup {m + 1} /\ Bad(m + 1) = Bad(m)
         /\ cmd.widths[m + 1] # cmd.header => Bad(m + 1) = Bad(m) \cup {m + 1} /\ Good(m + 1) = Good(m)
<1>1. 1..(m + 1) = (1..m) \cup {m + 1}
  OBVIOUS
<1> QED BY <1>1 DEF Good, Bad

\* Another row neither adds to a file nor takes from it.
LEMMA HoldsLater ==
  ASSUME NEW file, NEW header, NEW m \in Nat, NEW wanted, NEW count,
         FileHolds(file, header, m, wanted, count)
  PROVE  FileHolds(file, header, m + 1, wanted, count)
<1>1. \A k \in 1..Len(file) : file[k].line \in Int
  <2>1. \A k \in 1..Len(file) : file[k] \in FileLines
    BY DEF FileHolds
  <2> QED BY <2>1 DEF FileLines
<1> QED BY <1>1 DEF FileHolds

\* What is true of the lines of data of a file and of the next line stays true.
LEMMA IntoKeepsRows ==
  ASSUME NEW header, IsHeader(header), NEW file \in Seq(FileLines), NEW entry \in FileLines,
         \A k \in DataLines(file) : file[k].row = file[k].line, entry.row = entry.line
  PROVE  LET g == Into(file, header, entry) IN \A k \in DataLines(g) : g[k].row = g[k].line
<1> DEFINE base == IF file = NoFile THEN header ELSE file
           g == Into(file, header, entry)
<1>1. /\ g \in Seq(FileLines) /\ Len(base) \in Nat /\ Len(g) = Len(base) + 1
      /\ \A i \in 1..Len(base) : g[i] = base[i]
      /\ g[Len(g)] = entry
  BY HeaderFacts, IntoFacts
<1>2. \A k \in DataLines(base) : base[k].row = base[k].line
  BY HeaderFacts
<1>3. base \in Seq(FileLines)
  BY HeaderFacts
<1> HIDE DEF base, g
<1>4. \A k \in DataLines(g) : k = Len(g) \/ k \in DataLines(base)
  <2>1. DOMAIN g = 1..Len(g) /\ DOMAIN base = 1..Len(base)
    BY <1>1, <1>3
  <2> QED BY <1>1, <2>1 DEF DataLines
<1>5. \A k \in DataLines(base) : k \in 1..Len(base)
  BY <1>3 DEF DataLines
<1> QED BY <1>1, <1>2, <1>4, <1>5 DEF g

LEMMA GoodRowKeeps ==
  ASSUME cmd.tool = "clean", SourceOK, CountsOK, cmd.dry_run => DryOK, ~cmd.dry_run => FilesOK,
         GoodRow
  PROVE  CleanInv'
<1>1. RowReported /\ ~NoCells /\ cmd.widths[ThisRow] = cmd.header /\ at = "cleaning"
  BY DEF GoodRow, RowReported
<1>2. ~NoRows /\ rows \in Nat /\ rows = reported /\ ThisRow = rows + 1 /\ ThisRow \in 1..Len(cmd.widths)
  BY <1>1, NextRow
<1>3. cmd' = cmd /\ at' = at /\ rows' = rows + 1 /\ errors' = errors
  BY DEF GoodRow
<1>4. SourceOK'
  BY <1>3 DEF SourceOK
<1>5. CountsOK'
  <2>1. Len(cmd.widths) \in Nat /\ reported + 1 \in 0..Len(cmd.widths)
    BY <1>2 DEF SourceOK
  <2>2. current_row \in Int /\ FirstLine \in Nat /\ FirstLine' = FirstLine /\ NoRows' = NoRows
    BY <1>1, <1>2, <1>3 DEF CountsOK, FirstLine, NoRows
  <2>3. reported' = reported + 1 /\ current_row' = current_row + 1 /\ bad_rows' = bad_rows
        /\ good_rows' \in Nat
    BY DEF GoodRow, CountsOK
  <2> QED BY <1>1, <1>2, <1>3, <2>1, <2>2, <2>3 DEF CountsOK
<1>6. Good(rows)' = Good(rows) \cup {rows + 1} /\ Bad(rows)' = Bad(rows)
  <2>1. Good(rows)' = Good(rows + 1) /\ Bad(rows)' = Bad(rows + 1)
    BY <1>3 DEF Good, Bad
  <2> QED BY <1>1, <1>2, <2>1, RowsSplit
<1>7. CASE cmd.dry_run
  <2>1. DryOK'
    BY <1>3, <1>6, <1>7 DEF DryOK, GoodRow
  <2> QED BY <1>3, <1>4, <1>5, <1>7, <2>1 DEF CleanInv
<1>8. CASE ~cmd.dry_run
  <2> DEFINE entry == FileLine("row", CleanNumber(good_rows'), 0, ThisRow)
  <2>1. entry \in FileLines /\ entry.kind = "row" /\ entry.line = rows + 1
    <3>1. good_rows' \in Nat /\ CleanNumber(good_rows') \in Nat
      BY DEF GoodRow, CountsOK, CleanNumber
    <3> QED BY <1>2, <3>1 DEF FileLine, FileLines
  <2>2. files' = [files EXCEPT !.out = Into(@, OutHeader, entry)]
    BY <1>8 DEF GoodRow
  <2>3. files'.out = Into(files.out, OutHeader, entry) /\ files'.err = files.err
        /\ files' = [out |-> files'.out, err |-> files'.err]
    BY <1>8, <2>2 DEF FilesOK
  <2>4. rows - errors \in Nat /\ FileHolds(files.out, OutHeader, rows, Good(rows), rows - errors)
    <3>1. IsFiniteSet(DataLines(files.out)) /\ Cardinality(DataLines(files.out)) = rows - errors
          /\ FileHolds(files.out, OutHeader, rows, Good(rows), rows - errors)
      BY <1>8 DEF FilesOK, FileHolds
    <3> QED BY <3>1, FS_CardinalityType
  <2> HIDE DEF entry
  <2>5. FileHolds(files'.out, OutHeader, rows + 1, Good(rows) \cup {rows + 1}, rows - errors + 1)
    BY <1>2, <2>1, <2>3, <2>4, IntoHolds, Headers
  <2>6. OutHeader' = OutHeader /\ ErrHeader' = ErrHeader
    BY <1>3 DEF OutHeader, ErrHeader
  <2>7. FileHolds(files'.err, ErrHeader, rows + 1, Bad(rows), errors)
    BY <1>2, <1>8, <2>3, HoldsLater DEF FilesOK
  <2>8. rows' - errors' = rows - errors + 1
    BY <1>2, <1>3 DEF CountsOK
  <2>9. FilesOK'
    <3>1. FileHolds(files.out, OutHeader, rows, Good(rows), rows - errors)'
      BY <1>3, <1>6, <2>5, <2>6, <2>8 DEF FileHolds, DataLines
    <3>2. FileHolds(files.err, ErrHeader, rows, Bad(rows), errors)'
      BY <1>3, <1>6, <2>6, <2>7 DEF FileHolds, DataLines
    <3>3. (\A k \in DataLines(files.err) : files.err[k].row = files.err[k].line)'
      BY <1>8, <2>3 DEF FilesOK, DataLines
    <3> QED BY <1>1, <1>3, <1>6, <1>8, <2>3, <3>1, <3>2, <3>3 DEF FilesOK
  <2> QED BY <1>3, <1>4, <1>5, <1>8, <2>9 DEF CleanInv
<1> QED BY <1>7, <1>8

LEMMA BadRowKeeps ==
  ASSUME cmd.tool = "clean", SourceOK, CountsOK, cmd.dry_run => DryOK, ~cmd.dry_run => FilesOK,
         BadRow
  PROVE  CleanInv'
<1>1. RowReported /\ ~NoCells /\ cmd.widths[ThisRow] # cmd.header /\ at = "cleaning"
  BY DEF BadRow, RowReported
<1>2. ~NoRows /\ rows \in Nat /\ rows = reported /\ ThisRow = rows + 1 /\ ThisRow \in 1..Len(cmd.widths)
  BY <1>1, NextRow
<1>3. cmd' = cmd /\ at' = at /\ rows' = rows + 1 /\ errors' = errors + 1
  BY DEF BadRow
<1>4. SourceOK'
  BY <1>3 DEF SourceOK
<1>5. CountsOK'
  <2>1. Len(cmd.widths) \in Nat /\ reported + 1 \in 0..Len(cmd.widths)
    BY <1>2 DEF SourceOK
  <2>2. current_row \in Int /\ FirstLine \in Nat /\ FirstLine' = FirstLine /\ NoRows' = NoRows
    BY <1>1, <1>2, <1>3 DEF CountsOK, FirstLine, NoRows
  <2>3. reported' = reported + 1 /\ current_row' = current_row + 1 /\ good_rows' = good_rows
        /\ bad_rows' \in Nat
    BY DEF BadRow, CountsOK
  <2> QED BY <1>1, <1>2, <1>3, <2>1, <2>2, <2>3 DEF CountsOK
<1>6. Bad(rows)' = Bad(rows) \cup {rows + 1} /\ Good(rows)' = Good(rows)
  <2>1. Good(rows)' = Good(rows + 1) /\ Bad(rows)' = Bad(rows + 1)
    BY <1>3 DEF Good, Bad
  <2> QED BY <1>1, <1>2, <2>1, RowsSplit
<1>7. CASE cmd.dry_run
  <2>1. log' = Append(log, rows + 1) /\ files' = files
    BY <1>3, <1>7 DEF BadRow
  <2>2. log \in Seq(Nat) /\ Range(log) = Bad(rows)
    BY <1>7 DEF DryOK
  <2>3. log' \in Seq(Nat) /\ Range(log') = Range(log) \cup {rows + 1}
    <3>1. /\ log' \in Seq(Nat) /\ Len(log') = Len(log) + 1 /\ Len(log) \in Nat
          /\ \A i \in 1..Len(log) : log'[i] = log[i]
          /\ log'[Len(log) + 1] = rows + 1
      BY <1>2, <2>1, <2>2, AppendProperties
    <3>2. DOMAIN log = 1..Len(log) /\ DOMAIN log' = 1..(Len(log) + 1)
      BY <2>2, <3>1, LenProperties
    <3>3. 1..(Len(log) + 1) = 1..Len(log) \cup {Len(log) + 1}
      BY <3>1
    <3> QED BY <3>1, <3>2, <3>3 DEF Range
  <2>4. DryOK'
    BY <1>6, <1>7, <2>1, <2>2, <2>3 DEF DryOK
  <2> QED BY <1>3, <1>4, <1>5, <1>7, <2>4 DEF CleanInv
<1>8. CASE ~cmd.dry_run
  <2> DEFINE entry == FileLine("error", CleanNumber(bad_rows'), rows', ThisRow)
  <2>1. entry \in FileLines /\ entry.kind = "error" /\ entry.line = rows + 1 /\ entry.row = rows + 1
    <3>1. bad_rows' \in Nat /\ CleanNumber(bad_rows') \in Nat
      BY DEF BadRow, CountsOK, CleanNumber
    <3> QED BY <1>2, <1>3, <3>1 DEF FileLine, FileLines
  <2>2. files' = [files EXCEPT !.err = Into(@, ErrHeader, entry)]
    BY <1>8 DEF BadRow
  <2>3. files'.err = Into(files.err, ErrHeader, entry) /\ files'.out = files.out
        /\ files' = [out |-> files'.out, err |-> files'.err]
    BY <1>8, <2>2 DEF FilesOK
  <2>4. errors \in Nat /\ FileHolds(files.err, ErrHeader, rows, Bad(rows), errors)
    BY <1>8 DEF FilesOK, CountsOK
  <2> HIDE DEF entry
  <2>5. FileHolds(files'.err, ErrHeader, rows + 1, Bad(rows) \cup {rows + 1}, errors + 1)
    BY <1>2, <2>1, <2>3, <2>4, IntoHolds, Headers
  <2>6. OutHeader' = OutHeader /\ ErrHeader' = ErrHeader
    BY <1>3 DEF OutHeader, ErrHeader
  <2>7. FileHolds(files'.out, OutHeader, rows + 1, Good(rows), rows - errors)
    BY <1>2, <1>8, <2>3, HoldsLater DEF FilesOK
  <2>8. rows' - errors' = rows - errors
    BY <1>2, <1>3, <2>4
  <2>9. FilesOK'
    <3>1. FileHolds(files.out, OutHeader, rows, Good(rows), rows - errors)'
      BY <1>3, <1>6, <2>6, <2>7, <2>8 DEF FileHolds, DataLines
    <3>2. FileHolds(files.err, ErrHeader, rows, Bad(rows), errors)'
      BY <1>3, <1>6, <2>5, <2>6 DEF FileHolds, DataLines
    <3>3. (\A k \in DataLines(files.err) : files.err[k].row = files.err[k].line)'
      <4>1. files.err \in Seq(FileLines)
            /\ \A k \in DataLines(files.err) : files.err[k].row = files.err[k].line
        BY <1>8, <2>4 DEF FilesOK, FileHolds
      <4> DEFINE g == Into(files.err, ErrHeader, entry)
      <4>2. entry.row = entry.line
        BY <2>1
      <4>3. \A k \in DataLines(g) : g[k].row = g[k].line
        BY <2>1, <4>1, <4>2, IntoKeepsRows, Headers
      <4>4. g = files'.err
        BY <2>3
      <4> HIDE DEF g
      <4> QED BY <4>3, <4>4 DEF DataLines
    <3>4. Bad(rows)' # {}
      BY <1>6
    <3> QED BY <1>1, <1>3, <2>3, <3>1, <3>2, <3>3, <3>4 DEF FilesOK
  <2> QED BY <1>3, <1>4, <1>5, <1>8, <2>9 DEF CleanInv
<1> QED BY <1>7, <1>8

LEMMA CleanStepKeeps == CleanInv /\ [CleanNext]_<<toolVars, cleanVars>> => CleanInv'
<1> SUFFICES ASSUME CleanInv, [CleanNext]_<<toolVars, cleanVars>> PROVE CleanInv'
  OBVIOUS
<1>1. cmd' = cmd
  BY DEF toolVars, CleanNext, CleanStart, TooLong, NoRow, GoodRow, BadRow, CleanEnd, Goto
<1> SUFFICES ASSUME cmd.tool = "clean", SourceOK, CountsOK, cmd.dry_run => DryOK,
                    ~cmd.dry_run => FilesOK
             PROVE  CleanInv'
  BY <1>1 DEF CleanInv
<1>2. SourceOK' /\ NoRows' = NoRows /\ FirstLine' = FirstLine
  BY <1>1 DEF SourceOK, NoRows, FirstLine
<1>3. Len(cmd.widths) \in Nat
  BY DEF SourceOK
<1>4. OutHeader' = OutHeader /\ ErrHeader' = ErrHeader
  BY <1>1 DEF OutHeader, ErrHeader

\* A step that leaves the files and the counts alone.
<1>5. ASSUME UNCHANGED <<rows, errors, files, log>>, CountsOK', at' = "done" => at = "done"
      PROVE  CleanInv'
  <2>1. Good(rows)' = Good(rows) /\ Bad(rows)' = Bad(rows)
    BY <1>1, <1>5 DEF Good, Bad
  <2>2. DryOK => DryOK'
    BY <1>5, <2>1 DEF DryOK
  <2>3. FilesOK => FilesOK'
    BY <1>4, <1>5, <2>1 DEF FilesOK, FileHolds, DataLines
  <2> QED BY <1>1, <1>2, <1>5, <2>2, <2>3 DEF CleanInv
<1>6. CASE CleanStart
  <2>1. UNCHANGED <<reported, rows, errors, good_rows, bad_rows, files, log>> /\ at' # "done"
        /\ at = "start" /\ at' \in {"failed", "cleaning"}
        /\ (at' = "cleaning" => current_row' = FirstLine)
    BY <1>6 DEF CleanStart, Goto
  <2>2. FirstLine \in Nat /\ rows = 0
    BY <2>1, <1>3 DEF FirstLine, CountsOK
  <2>3. CountsOK'
    BY <1>1, <1>2, <2>1, <2>2 DEF CountsOK
  <2> QED BY <1>5, <2>1, <2>3
<1>7. CASE TooLong
  <2>1. UNCHANGED <<reported, rows, errors, good_rows, bad_rows, files, log>> /\ at' = "failed"
    BY <1>7 DEF TooLong, Goto, cleanVars
  <2>2. CountsOK'
    BY <1>1, <1>2, <2>1 DEF CountsOK
  <2> QED BY <1>5, <2>1, <2>2
<1>8. CASE NoRow
  <2>1. /\ UNCHANGED <<at, rows, errors, good_rows, bad_rows, current_row, files, log>>
        /\ reported' = reported + 1 /\ reported < Len(cmd.widths) /\ rows = 0
        /\ at = "cleaning" /\ cmd.widths[reported + 1] = 0
    BY <1>8 DEF NoRow, RowReported, NoCells, ThisRow
  <2>2. NoRows
    <3>1. reported + 1 \in DOMAIN cmd.widths
      BY <1>3, <2>1 DEF CountsOK, SourceOK
    <3>2. Len(cmd.widths) = 1
      BY <2>1, <3>1 DEF SourceOK, Range
    <3> QED BY <2>1, <3>2 DEF CountsOK, NoRows
  <2>3. CountsOK'
    BY <1>1, <1>2, <1>3, <2>1, <2>2 DEF CountsOK
  <2> QED BY <1>5, <2>1, <2>3
<1>9. CASE GoodRow
  BY <1>9, GoodRowKeeps
<1>10. CASE BadRow
  BY <1>10, BadRowKeeps
<1>11. CASE CleanEnd
  <2>1. UNCHANGED <<reported, rows, errors, good_rows, bad_rows, current_row, log>>
        /\ at' = "done"
    BY <1>11 DEF CleanEnd, Goto
  <2>2. CountsOK'
    BY <1>1, <1>2, <2>1 DEF CountsOK
  <2>3. Good(rows)' = Good(rows) /\ Bad(rows)' = Bad(rows)
    BY <1>1, <2>1 DEF Good, Bad
  <2>4. CASE cmd.dry_run
    <3>1. files' = files
      BY <1>11, <2>4 DEF CleanEnd
    <3> QED BY <1>1, <1>2, <2>1, <2>2, <2>3, <2>4, <3>1 DEF CleanInv, DryOK
  <2>5. CASE ~cmd.dry_run
    <3>1. FilesOK
      BY <2>5
    <3>2. files' = IF AllInError THEN [files EXCEPT !.out = OutHeader] ELSE files
      BY <1>11, <2>5 DEF CleanEnd
    <3>3. rows \in Nat /\ errors \in Nat
      BY <1>3 DEF CountsOK
    <3>4. CASE AllInError
      <4>1. files'.out = OutHeader /\ files'.err = files.err
            /\ files' = [out |-> files'.out, err |-> files'.err]
        BY <3>1, <3>2, <3>4 DEF FilesOK
      <4>2. rows - errors = 0
        BY <3>3, <3>4 DEF AllInError
      <4>3. DataLines(files.out) = {}
        BY <3>1, <4>2, FS_EmptySet DEF FilesOK, FileHolds
      <4>4. Good(rows) = {}
        BY <3>1, <4>3 DEF FilesOK, FileHolds
      <4>5. FileHolds(OutHeader, OutHeader, rows, {}, 0)
        BY <3>3, HeaderHolds, Headers
      <4>6. FileHolds(files.out, OutHeader, rows, Good(rows), rows - errors)'
        BY <1>4, <2>1, <2>3, <4>1, <4>2, <4>4, <4>5 DEF FileHolds, DataLines
      <4>7. FileHolds(files.err, ErrHeader, rows, Bad(rows), errors)'
        BY <1>4, <2>1, <2>3, <3>1, <4>1 DEF FilesOK, FileHolds, DataLines
      <4>8. OutHeader # NoFile
        BY HeaderFacts, Headers
      <4>9. FilesOK'
        BY <2>1, <2>3, <3>1, <4>1, <4>6, <4>7, <4>8 DEF FilesOK, DataLines
      <4> QED BY <1>1, <1>2, <2>2, <2>5, <4>9 DEF CleanInv
    <3>5. CASE ~AllInError
      <4>1. files' = files /\ rows - errors # 0
        BY <3>2, <3>3, <3>5 DEF AllInError
      <4>2. files.out # NoFile
        BY <3>1, <4>1, NoFileFacts, FS_EmptySet DEF FilesOK, FileHolds
      <4>3. FilesOK'
        BY <1>4, <2>1, <2>3, <3>1, <4>1, <4>2 DEF FilesOK, FileHolds, DataLines
      <4> QED BY <1>1, <1>2, <2>2, <2>5, <4>3 DEF CleanInv
    <3> QED BY <3>4, <3>5
  <2> QED BY <2>4, <2>5
<1>12. CASE UNCHANGED <<toolVars, cleanVars>>
  <2>1. UNCHANGED <<at, reported, rows, errors, good_rows, bad_rows, current_row, files, log>>
    BY <1>12 DEF toolVars, cleanVars
  <2>2. CountsOK'
    BY <1>1, <1>2, <2>1 DEF CountsOK
  <2> QED BY <1>5, <2>1, <2>2
<1> QED BY <1>6, <1>7, <1>8, <1>9, <1>10, <1>11, <1>12 DEF CleanNext

THEOREM CleanInvariant == CleanSpec => []CleanInv
<1>1. ToolInit /\ CleanInit => CleanInv
  BY CleanInitially
<1>2. CleanInv /\ [CleanNext]_<<toolVars, cleanVars>> => CleanInv'
  BY CleanStepKeeps
<1> QED BY <1>1, <1>2, PTL DEF CleanSpec

-------------------------------------------------------------------------------
(* csvClean: the properties.                                                  *)

\* No row of any source is lost, doubled, reordered or put in the wrong file by
\* csvClean (CleanNothingLost).
THEOREM CleanLosesNothing == CleanSpec => []CleanNothingLost
<1>1. CleanInv => CleanNothingLost
  <2> SUFFICES ASSUME CleanInv, cmd.tool = "clean", ~cmd.dry_run PROVE CleanNothingLost
    BY DEF CleanNothingLost
  <2>1. FilesOK /\ CountsOK /\ SourceOK
    BY DEF CleanInv
  <2>2. rows \in Nat /\ errors \in Nat
    BY <2>1 DEF CountsOK, SourceOK
  <2>3. \A r \in 1..rows :
          \E k \in DataLines(IF cmd.widths[r] = cmd.header THEN files.out ELSE files.err) :
            (IF cmd.widths[r] = cmd.header THEN files.out ELSE files.err)[k].line = r
    BY <2>1 DEF FilesOK, FileHolds, Good, Bad
  <2>4. Cardinality(DataLines(files.out)) + Cardinality(DataLines(files.err)) = rows
    BY <2>1, <2>2 DEF FilesOK, FileHolds
  <2>5. \A f \in TheFiles : \A j, k \in DOMAIN f : j < k => f[j].line < f[k].line
    <3> SUFFICES ASSUME NEW f \in {files.out, files.err}
                 PROVE  \A j, k \in DOMAIN f : j < k => f[j].line < f[k].line
      BY DEF TheFiles
    <3>1. f \in Seq(FileLines) /\ \A j, k \in 1..Len(f) : j < k => f[j].line < f[k].line
      BY <2>1 DEF FilesOK, FileHolds
    <3> QED BY <3>1
  <2> QED BY <2>1, <2>3, <2>4, <2>5 DEF CleanNothingLost, FilesOK
<1> QED BY <1>1, CleanInvariant, PTL

\* The line a message about a field names is the line it is on, and a dry run names
\* exactly the rows in error (CleanBlames).
THEOREM CleanBlamesRight == CleanSpec => []CleanBlames
<1>1. CleanInv => CleanBlames
  <2> SUFFICES ASSUME CleanInv, cmd.tool = "clean"
               PROVE  /\ RowReported => current_row = ThisRow + (IF cmd.no_header THEN 0 ELSE 1)
                      /\ cmd.dry_run => Range(log) = {r \in 1..rows : cmd.widths[r] # cmd.header}
    BY DEF CleanBlames
  <2>1. SourceOK /\ CountsOK
    BY DEF CleanInv
  <2>2. ASSUME RowReported
        PROVE  current_row = ThisRow + (IF cmd.no_header THEN 0 ELSE 1)
    <3>1. reported \in Nat /\ reported < Len(cmd.widths) /\ at = "cleaning" /\ Len(cmd.widths) \in Nat
      BY <2>1, <2>2 DEF CountsOK, SourceOK, RowReported
    <3>2. rows = reported
      <4>1. CASE NoRows
        BY <2>1, <3>1, <4>1 DEF CountsOK, NoRows
      <4>2. CASE ~NoRows
        BY <2>1, <4>2 DEF CountsOK
      <4> QED BY <4>1, <4>2
    <3> QED BY <2>1, <3>1, <3>2 DEF CountsOK, FirstLine, ThisRow
  <2>3. cmd.dry_run => Range(log) = {r \in 1..rows : cmd.widths[r] # cmd.header}
    BY DEF CleanInv, DryOK, Bad
  <2> QED BY <2>2, <2>3
<1> QED BY <1>1, CleanInvariant, PTL

\* The files there are in the end: an output that begins with its header, errors if
\* there were any, nothing after a dry run (CleanFiles).
THEOREM CleanLeavesFiles == CleanSpec => []CleanFiles
<1>1. CleanInv => CleanFiles
  <2> SUFFICES ASSUME CleanInv, cmd.tool = "clean" PROVE CleanFiles
    BY DEF CleanFiles
  <2>1. cmd.dry_run => TheFiles = {NoFile}
    BY DEF CleanInv, DryOK, TheFiles
  <2>2. ASSUME at = "done", ~cmd.dry_run
        PROVE  /\ files.out # NoFile /\ IsPrefix(OutHeader, files.out)
               /\ (files.err # NoFile) = (\E r \in 1..rows : cmd.widths[r] # cmd.header)
    <3>1. FilesOK
      BY <2>2 DEF CleanInv
    <3>2. files.out # NoFile /\ files.out \in Seq(FileLines) /\ OutHeader \in Seq(FileLines)
      BY <2>2, <3>1, HeaderFacts, Headers DEF FilesOK, FileHolds
    <3>3. /\ Len(OutHeader) <= Len(files.out)
          /\ \A i \in 1..Len(OutHeader) : files.out[i] = OutHeader[i]
      BY <3>1, <3>2 DEF FilesOK, FileHolds
    <3>4. IsPrefix(OutHeader, files.out)
      BY <3>2, <3>3 DEF IsPrefix
    <3>5. files.err # NoFile => \E r \in 1..rows : cmd.widths[r] # cmd.header
      BY <3>1 DEF FilesOK, Bad
    <3>6. ASSUME NEW r \in 1..rows, cmd.widths[r] # cmd.header PROVE files.err # NoFile
      <4>1. r \in Bad(rows)
        BY <3>6 DEF Bad
      <4>2. \E k \in DataLines(files.err) : files.err[k].line = r
        BY <3>1, <4>1 DEF FilesOK, FileHolds
      <4> QED BY <4>2, NoFileFacts
    <3> QED BY <3>2, <3>4, <3>5, <3>6
  <2> QED BY <2>1, <2>2 DEF CleanFiles
<1> QED BY <1>1, CleanInvariant, PTL

-------------------------------------------------------------------------------
(* csvStack: the files and their names.                                       *)

StackFiles == cmd.files \in Seq([names : Seq(STRING), rows : Nat, ragged : BOOLEAN])

LEMMA FileFacts ==
  ASSUME StackFiles
  PROVE  /\ Len(cmd.files) \in Nat /\ DOMAIN cmd.files = 1..Len(cmd.files)
         /\ \A f \in DOMAIN cmd.files :
              /\ cmd.files[f].rows \in Nat
              /\ IsSeq(NamesOf(f)) /\ Len(NamesOf(f)) \in Nat
              /\ DOMAIN NamesOf(f) = 1..Len(NamesOf(f))
<1> DEFINE S == [names : Seq(STRING), rows : Nat, ragged : BOOLEAN]
<1>1. cmd.files \in Seq(S)
  BY DEF StackFiles
<1>2. \A x \in S : x.names \in Seq(STRING) /\ x.rows \in Nat
  OBVIOUS
<1> HIDE DEF S
<1>3. Len(cmd.files) \in Nat /\ DOMAIN cmd.files = 1..Len(cmd.files)
  BY <1>1, LenProperties
<1>4. \A f \in DOMAIN cmd.files : cmd.files[f] \in S
  BY <1>1, <1>3, ElementOfSeq
<1>5. \A f \in DOMAIN cmd.files : IsSeq(NamesOf(f))
  BY <1>2, <1>4, HeaderNamesFacts DEF NamesOf
<1> QED BY <1>2, <1>3, <1>4, <1>5, IsSeqFacts

\* The names of the files after the first, and the places before those of file g.
LaterSeqs == [f \in 1..(Len(cmd.files) - 1) |-> NamesOf(f + 1)]
PlacesBefore(g) == Len(FlattenSeq(SubSeq(LaterSeqs, 1, g - 2)))

LEMMA LaterFacts ==
  ASSUME StackFiles, cmd.files # <<>>
  PROVE  /\ IsSeq(LaterNames) /\ DOMAIN LaterNames = 1..Len(LaterNames)
         /\ PlacesBefore(2) = 0
         /\ \A g \in 2..Len(cmd.files) :
              /\ PlacesBefore(g + 1) = PlacesBefore(g) + Len(NamesOf(g))
              /\ \A c \in DOMAIN NamesOf(g) :
                   /\ PlacesBefore(g) + c \in DOMAIN LaterNames
                   /\ LaterNames[PlacesBefore(g) + c] = NamesOf(g)[c]
         /\ \A k \in DOMAIN LaterNames :
              \E g \in 2..Len(cmd.files) : LaterNames[k] \in Range(NamesOf(g))
<1> PICK s : s = LaterSeqs
  OBVIOUS
<1> DEFINE n == Len(cmd.files) - 1
<1>1. n \in Nat /\ n + 1 = Len(cmd.files) /\ DOMAIN cmd.files = 1..(n + 1)
  <2>1. Len(cmd.files) \in Nat /\ Len(cmd.files) # 0
    BY FileFacts, EmptySeq DEF StackFiles
  <2> QED BY <2>1, FileFacts
<1>2. s = [f \in 1..n |-> NamesOf(f + 1)]
  BY DEF LaterSeqs
<1>3. LaterNames = FlattenSeq(s)
  BY <1>2 DEF LaterNames
<1>4. \A g \in 2..(n + 1) :
        g \in DOMAIN cmd.files /\ g - 1 \in 1..n /\ (g - 1) + 1 = g /\ s[g - 1] = NamesOf(g)
        /\ IsSeq(NamesOf(g)) /\ (g - 1) - 1 = g - 2 /\ (g + 1) - 2 = g - 1
        /\ g - 2 \in 0..n /\ g - 2 < n /\ (g - 2) + 1 = g - 1
  <2>1. \A f \in 1..n : s[f] = NamesOf(f + 1)
    BY <1>2
  <2> HIDE DEF n
  <2> QED BY <1>1, <2>1, FileFacts
<1> HIDE DEF n
<1>5. IsSeq(s) /\ Len(s) = n /\ DOMAIN s = 1..n
  BY <1>1, <1>2, IsSeqFunction
<1>6. \A i \in DOMAIN s : IsSeq(s[i]) /\ \E g \in 2..(n + 1) : s[i] = NamesOf(g)
  <2> TAKE i \in DOMAIN s
  <2>1. i + 1 \in 2..(n + 1) /\ s[i] = NamesOf(i + 1)
    BY <1>1, <1>2, <1>5
  <2> QED BY <1>4, <2>1
<1>7. Gathered(FlattenSeq(s), s, n)
  BY <1>5, <1>6, FlattenFacts
<1>8. IsSeq(LaterNames) /\ DOMAIN LaterNames = 1..Len(LaterNames)
  BY <1>3, <1>7, IsSeqFacts DEF Gathered
<1>9. PlacesBefore(2) = 0
  <2>1. 0 \in 0..Len(s) /\ 2 - 2 = 0
    BY <1>1, <1>5
  <2>2. FlattenSeq(SubSeq(s, 1, 0)) = <<>>
    BY <1>5, <1>6, <2>1, FlattenFirst
  <2> QED BY <2>1, <2>2, IsSeqEmpty DEF PlacesBefore
<1>10. ASSUME NEW g \in 2..(n + 1)
       PROVE  /\ PlacesBefore(g + 1) = PlacesBefore(g) + Len(NamesOf(g))
              /\ \A c \in DOMAIN NamesOf(g) :
                   /\ PlacesBefore(g) + c \in DOMAIN LaterNames
                   /\ LaterNames[PlacesBefore(g) + c] = NamesOf(g)[c]
  <2>1. /\ PlacesBefore(g) = Len(FlattenSeq(SubSeq(s, 1, g - 2)))
        /\ PlacesBefore(g + 1) = Len(FlattenSeq(SubSeq(s, 1, g - 1)))
    BY <1>4 DEF PlacesBefore
  <2>2. /\ IsSeq(FlattenSeq(SubSeq(s, 1, g - 2)))
        /\ FlattenSeq(SubSeq(s, 1, g - 1)) = FlattenSeq(SubSeq(s, 1, g - 2)) \o s[g - 1]
    <3>1. \A m \in 0..Len(s) :
            /\ IsSeq(FlattenSeq(SubSeq(s, 1, m)))
            /\ m < Len(s) => FlattenSeq(SubSeq(s, 1, m + 1)) = FlattenSeq(SubSeq(s, 1, m)) \o s[m + 1]
      BY <1>5, <1>6, FlattenFirst
    <3>2. g - 2 \in 0..Len(s) /\ g - 2 < Len(s) /\ (g - 2) + 1 = g - 1
      BY <1>4, <1>5
    <3> QED BY <3>1, <3>2
  <2>3. PlacesBefore(g + 1) = PlacesBefore(g) + Len(NamesOf(g))
    <3> PICK a : a = FlattenSeq(SubSeq(s, 1, g - 2))
      OBVIOUS
    <3> PICK b : b = NamesOf(g)
      OBVIOUS
    <3>1. Len(a \o b) = Len(a) + Len(b)
      BY <1>4, <2>2, IsSeqConcat
    <3> QED BY <1>4, <2>1, <2>2, <3>1
  <2>4. ASSUME NEW c \in DOMAIN NamesOf(g)
        PROVE  /\ PlacesBefore(g) + c \in DOMAIN LaterNames
               /\ LaterNames[PlacesBefore(g) + c] = NamesOf(g)[c]
    <3> PICK m : m = g - 1
      OBVIOUS
    <3> PICK before : before = PlacesBefore(g)
      OBVIOUS
    <3>1. /\ m \in DOMAIN s /\ c \in DOMAIN s[m] /\ s[m] = NamesOf(g)
          /\ g - 2 = m - 1
      BY <1>4, <1>5
    <3>2. before = Len(FlattenSeq(SubSeq(s, 1, m - 1)))
      BY <2>1, <3>1
    <3>3. IsSeq(s) /\ (\A i \in DOMAIN s : IsSeq(s[i]))
      BY <1>5, <1>6
    <3>4. before + c \in DOMAIN FlattenSeq(s) /\ FlattenSeq(s)[before + c] = s[m][c]
      BY <3>1, <3>2, <3>3, FlattenAt
    <3> QED BY <1>3, <3>1, <3>4
  <2> QED BY <2>3, <2>4
<1>11. ASSUME NEW k \in DOMAIN LaterNames
       PROVE  \E g \in 2..(n + 1) : LaterNames[k] \in Range(NamesOf(g))
  <2>1. PICK i \in DOMAIN s : \E m \in DOMAIN s[i] : LaterNames[k] = s[i][m]
    BY <1>3, <1>5, <1>7 DEF Gathered
  <2> QED BY <1>6, <2>1 DEF Range
<1> QED BY <1>1, <1>8, <1>9, <1>10, <1>11

-------------------------------------------------------------------------------
(* csvStack: the header.                                                      *)

\* What is known of the names found new among the first m of the later ones.
FreshNames(s, first, later, m) ==
  /\ IsSeq(s)
  /\ \A i, j \in 1..Len(s) : s[i] = s[j] => i = j
  /\ \A i \in 1..Len(s) : s[i] \notin Range(first) /\ \E k \in 1..m : s[i] = later[k]
  /\ \A k \in 1..m : later[k] \in Range(first) \/ \E i \in 1..Len(s) : s[i] = later[k]

LEMMA FreshStep ==
  ASSUME NEW first, NEW later, NEW m \in Nat, NEW s, FreshNames(s, first, later, m),
         NEW p, p = IF /\ later[m + 1] \notin Range(first)
                       /\ \A j \in 1..m : later[j] # later[m + 1]
                    THEN <<later[m + 1]>> ELSE <<>>
  PROVE  FreshNames(s \o p, first, later, m + 1)
<1> PICK x : x = later[m + 1]
  OBVIOUS
<1>1. IsSeq(s) /\ Len(s) \in Nat
  BY IsSeqFacts DEF FreshNames
<1>2. \A k \in 1..(m + 1) : k \in 1..m \/ k = m + 1
  OBVIOUS
<1>3. CASE x \notin Range(first) /\ \A j \in 1..m : later[j] # x
  <2> PICK t : t = s \o <<x>>
    OBVIOUS
  <2>1. /\ IsSeq(t) /\ Len(t) = Len(s) + 1
        /\ \A i \in 1..Len(s) : t[i] = s[i]
        /\ t[Len(s) + 1] = x
    <3>1. <<x>> \in Seq({x}) /\ Len(<<x>>) = 1 /\ <<x>>[1] = x
      OBVIOUS
    <3>2. IsSeq(<<x>>)
      BY <3>1, SeqIsSeq
    <3>3. 1 \in 1..1
      OBVIOUS
    <3> QED BY <1>1, <3>1, <3>2, <3>3, IsSeqConcat
  <2>2. \A i \in 1..(Len(s) + 1) : i \in 1..Len(s) \/ i = Len(s) + 1
    BY <1>1
  <2>3. \A i \in 1..Len(s) : s[i] # x /\ i \in 1..(Len(s) + 1)
    BY <1>1, <1>3 DEF FreshNames
  <2>4. Len(s) + 1 \in 1..(Len(s) + 1) /\ m + 1 \in 1..(m + 1) /\ 1..m \subseteq 1..(m + 1)
    BY <1>1
  <2>5. \A i, j \in 1..Len(t) : t[i] = t[j] => i = j
    BY <2>1, <2>2, <2>3 DEF FreshNames
  <2>6. \A i \in 1..Len(t) : t[i] \notin Range(first) /\ \E k \in 1..(m + 1) : t[i] = later[k]
    BY <1>3, <2>1, <2>2, <2>4 DEF FreshNames
  <2>7. \A k \in 1..(m + 1) : later[k] \in Range(first) \/ \E i \in 1..Len(t) : t[i] = later[k]
    BY <1>2, <2>1, <2>3, <2>4 DEF FreshNames
  <2>8. s \o p = t
    BY <1>3
  <2>9. FreshNames(t, first, later, m + 1)
    BY <2>1, <2>5, <2>6, <2>7 DEF FreshNames
  <2> QED BY <2>8, <2>9
<1>4. CASE ~(x \notin Range(first) /\ \A j \in 1..m : later[j] # x)
  <2>1. s \o p = s
    <3>1. p = <<>>
      BY <1>4
    <3> QED BY <1>1, <3>1, ConcatEmpty
  <2>2. \A k \in 1..m : k \in 1..(m + 1)
    OBVIOUS
  <2>3. x \in Range(first) \/ \E i \in 1..Len(s) : s[i] = x
    BY <1>4 DEF FreshNames
  <2>4. \A i \in 1..Len(s) : s[i] \notin Range(first) /\ \E k \in 1..(m + 1) : s[i] = later[k]
    BY <2>2 DEF FreshNames
  <2>5. \A k \in 1..(m + 1) : later[k] \in Range(first) \/ \E i \in 1..Len(s) : s[i] = later[k]
    BY <1>2, <2>3 DEF FreshNames
  <2>6. FreshNames(s, first, later, m + 1)
    BY <2>4, <2>5 DEF FreshNames
  <2> QED BY <2>1, <2>6
<1> QED BY <1>3, <1>4

LEMMA NewNamesFacts ==
  ASSUME NEW first, NEW later, IsSeq(later),
         NEW parts, parts = [k \in DOMAIN later |->
                               IF /\ later[k] \notin Range(first)
                                  /\ \A j \in 1..(k - 1) : later[j] # later[k]
                               THEN <<later[k]>> ELSE <<>>]
  PROVE  FreshNames(FlattenSeq(parts), first, later, Len(later))
<1> DEFINE Flat(m) == FlattenSeq(SubSeq(parts, 1, m))
           S == {m \in Nat : m <= Len(later) => FreshNames(Flat(m), first, later, m)}
<1>1. Len(later) \in Nat /\ DOMAIN later = 1..Len(later)
  BY IsSeqFacts
<1>2. IsSeq(parts) /\ Len(parts) = Len(later)
  <2>1. parts = [k \in 1..Len(later) |-> parts[k]]
    BY <1>1
  <2> QED BY <1>1, <2>1, IsSeqFunction
<1>3. \A k \in DOMAIN parts : IsSeq(parts[k])
  <2>1. \A x : <<x>> \in Seq({x})
    OBVIOUS
  <2>2. \A x : IsSeq(<<x>>)
    BY <2>1, SeqIsSeq
  <2> QED BY <2>2, IsSeqEmpty
<1>4. \A m \in 0..Len(later) :
        /\ m = 0 => Flat(m) = <<>>
        /\ m < Len(later) => Flat(m + 1) = Flat(m) \o parts[m + 1]
  BY <1>1, <1>2, <1>3, FlattenFirst
<1>5. 0 \in S
  <2>1. Flat(0) = <<>>
    <3>1. 0 \in 0..Len(later)
      BY <1>1
    <3> HIDE DEF Flat
    <3> QED BY <1>4, <3>1
  <2> HIDE DEF Flat
  <2>2. FreshNames(<<>>, first, later, 0)
    BY IsSeqEmpty DEF FreshNames
  <2> QED BY <2>1, <2>2
<1>6. ASSUME NEW m \in Nat, m \in S PROVE m + 1 \in S
  <2> SUFFICES ASSUME m + 1 <= Len(later) PROVE FreshNames(Flat(m + 1), first, later, m + 1)
    OBVIOUS
  <2>1. m \in 0..Len(later) /\ m < Len(later) /\ m + 1 \in DOMAIN later /\ (m + 1) - 1 = m
    BY <1>1
  <2>2. Flat(m + 1) = Flat(m) \o parts[m + 1]
    BY <1>4, <2>1
  <2>3. FreshNames(Flat(m), first, later, m)
    BY <1>1, <1>6, <2>1
  <2>4. parts[m + 1] = IF /\ later[m + 1] \notin Range(first)
                          /\ \A j \in 1..m : later[j] # later[m + 1]
                       THEN <<later[m + 1]>> ELSE <<>>
    BY <2>1
  <2> HIDE DEF Flat
  <2> PICK s : s = Flat(m)
    OBVIOUS
  <2> PICK p : p = parts[m + 1]
    OBVIOUS
  <2>5. FreshNames(s \o p, first, later, m + 1)
    BY <2>3, <2>4, FreshStep
  <2> QED BY <2>2, <2>5
<1> HIDE DEF S
<1>7. Len(later) \in S
  BY <1>1, <1>5, <1>6, Induction
<1>8. Flat(Len(later)) = FlattenSeq(parts)
  BY <1>2, WholeIsSubSeq
<1> HIDE DEF Flat
<1> QED BY <1>1, <1>7, <1>8 DEF S

\* A list without repetitions has as many elements as its set.
LEMMA DistinctCount ==
  ASSUME NEW s, IsSeq(s), \A i, j \in 1..Len(s) : s[i] = s[j] => i = j
  PROVE  IsFiniteSet(Range(s)) /\ Cardinality(Range(s)) = Len(s)
<1>1. Len(s) \in Nat /\ DOMAIN s = 1..Len(s)
  BY IsSeqFacts
<1>2. IsFiniteSet(1..Len(s)) /\ Cardinality(1..Len(s)) = Len(s)
  <2> PICK n : n = Len(s)
    OBVIOUS
  <2>1. 1 \in Int /\ n \in Int /\ (IF 1 > n THEN 0 ELSE n - 1 + 1) = n
    BY <1>1
  <2> QED BY <2>1, FS_Interval
<1>3. ExistsBijection(1..Len(s), Range(s))
  <2>1. s = [i \in 1..Len(s) |-> s[i]]
    BY <1>1, SeqDef DEF IsSeq
  <2>2. Range(s) = {s[i] : i \in 1..Len(s)}
    BY <1>1 DEF Range
  <2>3. /\ s \in [1..Len(s) -> Range(s)]
        /\ \A i, j \in 1..Len(s) : s[i] = s[j] => i = j
        /\ \A x \in Range(s) : \E i \in 1..Len(s) : s[i] = x
    BY <1>1, <2>1, <2>2
  <2>4. s \in Bijection(1..Len(s), Range(s))
    BY <2>3, Fun_IsBij
  <2> QED BY <2>4 DEF ExistsBijection
<1> QED BY <1>2, <1>3, FS_Bijection

\* What csvStack is meant for.
Stacking == StackFiles /\ cmd.files # <<>> /\ Regular

\* The columns before those of the first file.
GroupColumns == IF groups_or_filenames THEN 1 ELSE 0

LEMMA FirstHeaderFacts ==
  ASSUME Stacking
  PROVE  /\ 1 \in DOMAIN cmd.files /\ IsSeq(FirstHeader)
         /\ Len(FirstHeader) = GroupColumns + Len(NamesOf(1))
         /\ groups_or_filenames => FirstHeader[1] = GroupName
         /\ \A c \in DOMAIN NamesOf(1) : FirstHeader[GroupColumns + c] = NamesOf(1)[c]
         /\ \A i \in 1..Len(FirstHeader) :
              ~(groups_or_filenames /\ i = 1) =>
                i - GroupColumns \in DOMAIN NamesOf(1) /\ FirstHeader[i] = NamesOf(1)[i - GroupColumns]
         /\ \A i, j \in 1..Len(FirstHeader) : FirstHeader[i] = FirstHeader[j] => i = j
<1> PICK names : names = NamesOf(1)
  OBVIOUS
<1> PICK g : g = (IF groups_or_filenames THEN <<GroupName>> ELSE <<>>)
  OBVIOUS
<1> PICK h : h = FirstHeader
  OBVIOUS
<1>1. 1 \in DOMAIN cmd.files
  <2>1. Len(cmd.files) \in Nat /\ Len(cmd.files) # 0 /\ DOMAIN cmd.files = 1..Len(cmd.files)
    BY FileFacts, EmptySeq DEF StackFiles, Stacking
  <2> QED BY <2>1
<1>2. IsSeq(names) /\ Len(names) \in Nat /\ DOMAIN names = 1..Len(names)
  BY <1>1, FileFacts DEF Stacking
<1>3. IsSeq(g) /\ Len(g) = GroupColumns /\ (groups_or_filenames => g[1] = GroupName)
  <2> PICK x : x = GroupName
    OBVIOUS
  <2>1. <<x>> \in Seq({x}) /\ Len(<<x>>) = 1 /\ <<x>>[1] = x
    OBVIOUS
  <2>2. IsSeq(<<x>>)
    BY <2>1, SeqIsSeq
  <2> QED BY <2>1, <2>2, IsSeqEmpty DEF GroupColumns
<1>4. GroupColumns \in {0, 1} /\ (groups_or_filenames <=> GroupColumns = 1)
  BY DEF GroupColumns
<1>5. h = g \o names
  BY DEF FirstHeader
<1>6. /\ IsSeq(h) /\ Len(h) = GroupColumns + Len(names)
      /\ \A i \in 1..GroupColumns : h[i] = g[i]
      /\ \A i \in 1..Len(names) : h[GroupColumns + i] = names[i]
  BY <1>2, <1>3, <1>5, IsSeqConcat
<1>7. groups_or_filenames => h[1] = GroupName
  BY <1>3, <1>4, <1>6
<1>8. \A i \in 1..Len(h) : ~(groups_or_filenames /\ i = 1) =>
        i - GroupColumns \in DOMAIN names /\ h[i] = names[i - GroupColumns]
  <2> SUFFICES ASSUME NEW i \in 1..Len(h), ~(groups_or_filenames /\ i = 1)
               PROVE  i - GroupColumns \in DOMAIN names /\ h[i] = names[i - GroupColumns]
    OBVIOUS
  <2>1. i - GroupColumns \in 1..Len(names) /\ GroupColumns + (i - GroupColumns) = i
    BY <1>2, <1>4, <1>6
  <2> QED BY <1>2, <1>6, <2>1
<1>9. ASSUME NEW i \in 1..Len(h), NEW j \in 1..Len(h), h[i] = h[j] PROVE i = j
  <2>1. IsInjective(names) /\ (groups_or_filenames => GroupName \notin Range(names))
    BY <1>1 DEF Stacking, Regular
  <2>2. \A c \in DOMAIN names : groups_or_filenames => names[c] # GroupName
    BY <2>1 DEF Range
  <2>3. CASE groups_or_filenames /\ i = 1
    BY <1>7, <1>8, <1>9, <2>2, <2>3
  <2>4. CASE groups_or_filenames /\ j = 1
    BY <1>7, <1>8, <1>9, <2>2, <2>4
  <2>5. CASE ~(groups_or_filenames /\ i = 1) /\ ~(groups_or_filenames /\ j = 1)
    <3>1. i - GroupColumns = j - GroupColumns
      BY <1>8, <1>9, <2>1, <2>5 DEF IsInjective
    <3>2. i \in Int /\ j \in Int
      BY <1>2, <1>4, <1>6
    <3> QED BY <1>4, <3>1, <3>2
  <2> QED BY <2>3, <2>4, <2>5
<1> QED BY <1>1, <1>2, <1>6, <1>7, <1>8, <1>9

\* The header of the output names every column of every file, once, those of the first
\* file where they were; total_cols counts its names.
LEMMA FinalHeaderFacts ==
  ASSUME Stacking
  PROVE  /\ IsSeq(FinalHeader) /\ Len(FinalHeader) \in Nat /\ Len(FinalHeader) = TotalCols
         /\ \A i, j \in 1..Len(FinalHeader) : FinalHeader[i] = FinalHeader[j] => i = j
         /\ Len(FirstHeader) <= Len(FinalHeader)
         /\ \A i \in 1..Len(FirstHeader) : FinalHeader[i] = FirstHeader[i]
         /\ \A f \in DOMAIN cmd.files : Range(NamesOf(f)) \subseteq Range(FinalHeader)
<1> PICK first : first = FirstHeader
  OBVIOUS
<1> PICK later : later = LaterNames
  OBVIOUS
<1> PICK parts : parts = [k \in DOMAIN later |->
                            IF /\ later[k] \notin Range(first)
                               /\ \A j \in 1..(k - 1) : later[j] # later[k]
                            THEN <<later[k]>> ELSE <<>>]
  OBVIOUS
<1> PICK new : new = FlattenSeq(parts)
  OBVIOUS
<1> PICK h : h = FinalHeader
  OBVIOUS
<1>1. /\ IsSeq(later) /\ DOMAIN later = 1..Len(later)
      /\ \A k \in DOMAIN later : \E g \in 2..Len(cmd.files) : later[k] \in Range(NamesOf(g))
      /\ \A g \in 2..Len(cmd.files) : \A c \in DOMAIN NamesOf(g) :
           \E k \in DOMAIN later : later[k] = NamesOf(g)[c]
  BY LaterFacts DEF Stacking
<1>2. /\ IsSeq(first) /\ Len(first) \in Nat
      /\ \A i, j \in 1..Len(first) : first[i] = first[j] => i = j
  BY FirstHeaderFacts, IsSeqFacts
<1>3. FreshNames(new, first, later, Len(later))
  BY <1>1, NewNamesFacts
<1>4. IsSeq(new) /\ Len(new) \in Nat
  BY <1>3, IsSeqFacts DEF FreshNames
<1>5. h = first \o new
  BY DEF FinalHeader, New
<1>6. /\ IsSeq(h) /\ Len(h) = Len(first) + Len(new)
      /\ \A i \in 1..Len(first) : h[i] = first[i]
      /\ \A i \in 1..Len(new) : h[Len(first) + i] = new[i]
  BY <1>2, <1>4, <1>5, IsSeqConcat
<1>7. Len(h) \in Nat /\ Len(first) <= Len(h) /\ DOMAIN h = 1..Len(h)
  <2>1. Len(h) \in Nat /\ Len(first) <= Len(h)
    BY <1>2, <1>4, <1>6
  <2> QED BY <1>6, <2>1, IsSeqFacts
<1>8. \A i \in 1..Len(h) : \/ i \in 1..Len(first) /\ h[i] = first[i]
                           \/ i - Len(first) \in 1..Len(new) /\ h[i] = new[i - Len(first)]
  <2> TAKE i \in 1..Len(h)
  <2>1. CASE i <= Len(first)
    BY <1>2, <1>6, <1>7, <2>1
  <2>2. CASE ~(i <= Len(first))
    <3>1. i - Len(first) \in 1..Len(new) /\ Len(first) + (i - Len(first)) = i
      BY <1>2, <1>4, <1>6, <1>7, <2>2
    <3> QED BY <1>6, <3>1
  <2> QED BY <2>1, <2>2
<1>9. \A i \in 1..Len(new) : \A j \in 1..Len(first) : new[i] # first[j]
  <2>1. \A i \in 1..Len(new) : new[i] \notin Range(first)
    BY <1>3 DEF FreshNames
  <2>2. \A j \in 1..Len(first) : first[j] \in Range(first)
    BY <1>2, IsSeqFacts DEF Range
  <2> QED BY <2>1, <2>2
<1>10. ASSUME NEW i \in 1..Len(h), NEW j \in 1..Len(h), h[i] = h[j] PROVE i = j
  <2>1. CASE i \in 1..Len(first) /\ h[i] = first[i]
    <3>1. j \in 1..Len(first) /\ h[j] = first[j]
      <4>1. ASSUME j - Len(first) \in 1..Len(new), h[j] = new[j - Len(first)] PROVE FALSE
        <5> PICK n : n = j - Len(first)
          OBVIOUS
        <5>1. n \in 1..Len(new) /\ new[n] = first[i] /\ i \in 1..Len(first)
          BY ONLY <1>10, <2>1, <4>1, n = j - Len(first)
        <5> QED BY ONLY <1>9, <5>1
      <4> QED BY ONLY <1>8, <1>10, <4>1
    <3> QED BY <1>2, <1>10, <2>1, <3>1
  <2>2. CASE i - Len(first) \in 1..Len(new) /\ h[i] = new[i - Len(first)]
    <3>1. j - Len(first) \in 1..Len(new) /\ h[j] = new[j - Len(first)]
      <4> PICK m : m = i - Len(first)
        OBVIOUS
      <4>1. m \in 1..Len(new) /\ h[j] = new[m]
        BY <1>10, <2>2
      <4>2. ~(j \in 1..Len(first) /\ h[j] = first[j])
        BY <1>9, <4>1
      <4> QED BY <1>8, <4>2
    <3>2. i - Len(first) = j - Len(first)
      <4>1. \A k, m \in 1..Len(new) : new[k] = new[m] => k = m
        BY <1>3 DEF FreshNames
      <4> QED BY <1>10, <2>2, <3>1, <4>1
    <3> QED BY <1>2, <1>7, <3>2
  <2> QED BY <1>8, <2>1, <2>2
<1>11. \A f \in DOMAIN cmd.files : \A c \in DOMAIN NamesOf(f) : \E i \in 1..Len(h) : h[i] = NamesOf(f)[c]
  <2> TAKE f \in DOMAIN cmd.files
  <2> TAKE c \in DOMAIN NamesOf(f)
  <2>1. \A i \in 1..Len(first) : i \in 1..Len(h)
    BY <1>2, <1>7
  <2>2. CASE f = 1
    <3>1. first[GroupColumns + c] = NamesOf(f)[c] /\ GroupColumns + c \in 1..Len(first)
      <4>1. Len(NamesOf(1)) \in Nat /\ c \in 1..Len(NamesOf(1)) /\ GroupColumns \in {0, 1}
        BY <2>2, FileFacts DEF Stacking, GroupColumns
      <4>2. Len(first) = GroupColumns + Len(NamesOf(1))
        BY FirstHeaderFacts
      <4> QED BY <2>2, <4>1, <4>2, FirstHeaderFacts
    <3> QED BY <1>6, <2>1, <3>1
  <2>3. CASE f # 1
    <3>1. f \in 2..Len(cmd.files)
      BY <2>3, FileFacts DEF Stacking
    <3>2. PICK k \in 1..Len(later) : later[k] = NamesOf(f)[c]
      BY <1>1, <3>1
    <3>3. CASE later[k] \in Range(first)
      <4>1. PICK i \in 1..Len(first) : first[i] = later[k]
        BY <1>2, <3>3, IsSeqFacts DEF Range
      <4> QED BY <1>6, <2>1, <3>2, <4>1
    <3>4. CASE later[k] \notin Range(first)
      <4>1. PICK i \in 1..Len(new) : new[i] = later[k]
        BY <1>3, <3>2, <3>4 DEF FreshNames
      <4>2. Len(first) + i \in 1..Len(h)
        BY <1>2, <1>4, <1>6
      <4> QED BY <1>6, <3>2, <4>1, <4>2
    <3> QED BY <3>3, <3>4
  <2> QED BY <2>2, <2>3
<1>12. Len(h) = TotalCols
  <2> PICK all : all = UNION {Range(NamesOf(f)) : f \in DOMAIN cmd.files}
    OBVIOUS
  <2>1. IsFiniteSet(Range(h)) /\ Cardinality(Range(h)) = Len(h)
    BY <1>6, <1>10, DistinctCount
  <2>2. all \subseteq Range(h)
    <3>1. \A f \in DOMAIN cmd.files : Range(NamesOf(f)) \subseteq Range(h)
      BY <1>7, <1>11 DEF Range
    <3> QED BY <3>1
  <2>3. \A f \in DOMAIN cmd.files : Range(NamesOf(f)) \subseteq all
    OBVIOUS
  <2>4. \A i \in 1..Len(h) : ~(groups_or_filenames /\ i = 1) => h[i] \in all
    <3> SUFFICES ASSUME NEW i \in 1..Len(h), ~(groups_or_filenames /\ i = 1) PROVE h[i] \in all
      OBVIOUS
    <3>1. CASE i \in 1..Len(first) /\ h[i] = first[i]
      <4>1. i - GroupColumns \in DOMAIN NamesOf(1) /\ first[i] = NamesOf(1)[i - GroupColumns] /\ 1 \in DOMAIN cmd.files
        BY <3>1, FirstHeaderFacts
      <4>2. first[i] \in Range(NamesOf(1))
        BY <4>1 DEF Range
      <4> QED BY <2>3, <3>1, <4>1, <4>2
    <3>2. CASE i - Len(first) \in 1..Len(new) /\ h[i] = new[i - Len(first)]
      <4>1. PICK k \in DOMAIN later : h[i] = later[k]
        <5>1. \A m \in 1..Len(new) : \E k \in 1..Len(later) : new[m] = later[k]
          BY <1>3 DEF FreshNames
        <5> PICK m : m = i - Len(first)
          OBVIOUS
        <5>2. m \in 1..Len(new) /\ h[i] = new[m]
          BY <3>2
        <5>3. PICK k \in 1..Len(later) : new[m] = later[k]
          BY <5>1, <5>2
        <5>4. k \in DOMAIN later
          BY <1>1
        <5> QED BY <5>2, <5>3, <5>4
      <4>2. PICK g \in 2..Len(cmd.files) : later[k] \in Range(NamesOf(g))
        BY <1>1
      <4>3. g \in DOMAIN cmd.files
        BY FileFacts DEF Stacking
      <4> QED BY <2>3, <4>1, <4>2, <4>3
    <3> QED BY <1>8, <3>1, <3>2
  <2>5. IsFiniteSet(all) /\ Cardinality(all) \in Nat
    BY <2>1, <2>2, FS_Subset, FS_CardinalityType
  <2>6. CASE groups_or_filenames
    <3>1. 1 \in 1..Len(first) /\ h[1] = GroupName /\ 1 \in 1..Len(h)
      <4>1. Len(first) = 1 + Len(NamesOf(1)) /\ Len(NamesOf(1)) \in Nat /\ first[1] = GroupName
        BY <2>6, FirstHeaderFacts, FileFacts DEF Stacking, GroupColumns
      <4> QED BY <1>6, <1>7, <4>1
    <3>2. GroupName \notin all
      BY <2>6 DEF Stacking, Regular
    <3>3. Range(h) = all \cup {GroupName}
      <4>1. Range(h) \subseteq all \cup {GroupName}
        BY <1>7, <2>4, <3>1 DEF Range
      <4>2. GroupName \in Range(h)
        BY <1>7, <3>1 DEF Range
      <4> QED BY <2>2, <4>1, <4>2
    <3>4. Cardinality(all \cup {GroupName}) = Cardinality(all) + 1
      BY <2>5, <3>2, FS_AddElement
    <3>5. TotalCols = Cardinality(all) + 1
      BY <2>6 DEF TotalCols
    <3> QED BY <2>1, <3>3, <3>4, <3>5
  <2>7. CASE ~groups_or_filenames
    <3>1. Range(h) \subseteq all
      BY <1>7, <2>4, <2>7 DEF Range
    <3>2. Range(h) = all
      BY <2>2, <3>1
    <3>3. TotalCols = Cardinality(all) + 0
      BY <2>7 DEF TotalCols
    <3> QED BY <2>1, <2>5, <3>2, <3>3
  <2> QED BY <2>6, <2>7
<1>13. \A f \in DOMAIN cmd.files : Range(NamesOf(f)) \subseteq Range(h)
  BY <1>7, <1>11 DEF Range
<1> QED BY <1>6, <1>7, <1>10, <1>12, <1>13

-------------------------------------------------------------------------------
(* csvStack: the lines of the output.                                         *)

LEMMA AboveFacts ==
  ASSUME StackFiles
  PROVE  /\ Above(1) = 1
         /\ \A f \in 1..(Len(cmd.files) + 1) : Above(f) \in Nat /\ Above(f) >= 1
         /\ \A f \in DOMAIN cmd.files : Above(f + 1) = Above(f) + cmd.files[f].rows
         /\ \A f, g \in 1..(Len(cmd.files) + 1) : f <= g => Above(f) <= Above(g)
<1>0. \A k, m \in Nat : 1 + (k + m) = (1 + k) + m
  OBVIOUS
<1> PICK n : n = Len(cmd.files)
  OBVIOUS
<1> PICK all : all = [g \in 1..n |-> RowsOf(g)]
  OBVIOUS
<1>1. n \in Nat /\ DOMAIN cmd.files = 1..n
  BY FileFacts
<1>2. IsSeq(all) /\ Len(all) = n /\ DOMAIN all = 1..n
  BY <1>1, IsSeqFunction
<1>3. \A g \in 1..n : IsSeq(all[g]) /\ Len(all[g]) = cmd.files[g].rows
  <2> TAKE g \in 1..n
  <2> PICK r : r = cmd.files[g].rows
    OBVIOUS
  <2> PICK s : s = all[g]
    OBVIOUS
  <2>1. r \in Nat
    BY <1>1, FileFacts
  <2>2. s = [l \in 1..r |-> s[l]]
    <3>1. s = [l \in 1..r |-> <<g, l>>]
      BY DEF RowsOf
    <3> QED BY <3>1
  <2> QED BY <2>1, <2>2, IsSeqFunction
<1> DEFINE Flat(m) == FlattenSeq(SubSeq(all, 1, m))
<1>4. \A f \in 1..(n + 1) : Above(f) = 1 + Len(Flat(f - 1))
  <2> TAKE f \in 1..(n + 1)
  <2> PICK m : m = f - 1
    OBVIOUS
  <2>1. m \in 0..n /\ m \in Nat
    BY <1>1
  <2> PICK s : s = [g \in 1..m |-> RowsOf(g)]
    OBVIOUS
  <2>2. IsSeq(s) /\ Len(s) = m
    BY <2>1, IsSeqFunction
  <2>3. IsSeq(SubSeq(all, 1, m)) /\ Len(SubSeq(all, 1, m)) = m
        /\ \A i \in 1..m : SubSeq(all, 1, m)[i] = all[i]
    BY <1>2, <2>1, IsSeqPrefix
  <2>4. \A i \in 1..m : all[i] = s[i]
    BY <1>1, <2>1
  <2>5. s = SubSeq(all, 1, m)
    BY <2>2, <2>3, <2>4, IsSeqSame
  <2> QED BY <2>5 DEF Above
<1>5. \A m \in 0..n : /\ IsSeq(Flat(m)) /\ Len(Flat(m)) \in Nat
                      /\ m = 0 => Flat(m) = <<>>
                      /\ m < n => Flat(m + 1) = Flat(m) \o all[m + 1]
  BY <1>2, <1>3, FlattenFirst, IsSeqFacts
<1>6. \A m, k \in 0..n : m <= k => Len(Flat(m)) <= Len(Flat(k))
  <2> SUFFICES ASSUME NEW m \in 0..n, NEW k \in 0..n, m <= k PROVE Len(Flat(m)) <= Len(Flat(k))
    OBVIOUS
  <2>1. IsPrefix(Flat(m), Flat(k))
    BY <1>2, <1>3, FlattenGrows
  <2> HIDE DEF Flat
  <2> QED BY <1>5, <2>1, PrefixFacts
<1> HIDE DEF Flat
<1>7. \A f \in 1..(n + 1) : f - 1 \in 0..n
  BY <1>1
<1>8. Above(1) = 1
  <2>1. 1 \in 1..(n + 1) /\ 0 \in 0..n /\ 1 - 1 = 0
    BY <1>1
  <2> QED BY <1>4, <1>5, <2>1, IsSeqEmpty
<1>9. \A f \in 1..(n + 1) : Above(f) \in Nat /\ Above(f) >= 1
  BY <1>4, <1>5, <1>7
<1>10. ASSUME NEW f \in 1..n PROVE Above(f + 1) = Above(f) + cmd.files[f].rows
  <2>1. /\ f \in 1..(n + 1) /\ f + 1 \in 1..(n + 1) /\ f - 1 \in 0..n /\ f - 1 < n
        /\ (f - 1) + 1 = f /\ (f + 1) - 1 = f
    BY <1>1
  <2>2. Flat(f) = Flat(f - 1) \o all[f] /\ IsSeq(Flat(f - 1)) /\ Len(Flat(f - 1)) \in Nat
    BY <1>5, <2>1
  <2>3. Len(Flat(f)) = Len(Flat(f - 1)) + Len(all[f])
    BY <1>3, <2>2, IsSeqConcat
  <2>4. cmd.files[f].rows \in Nat
    BY <1>1, FileFacts
  <2>5. Above(f) = 1 + Len(Flat(f - 1)) /\ Above(f + 1) = 1 + Len(Flat(f))
    BY <1>4, <2>1
  <2>6. Len(Flat(f)) = Len(Flat(f - 1)) + cmd.files[f].rows
    BY <1>3, <2>3
  <2> QED BY <1>0, <2>2, <2>4, <2>5, <2>6
<1>11. \A f, g \in 1..(n + 1) : f <= g => Above(f) <= Above(g)
  <2> SUFFICES ASSUME NEW f \in 1..(n + 1), NEW g \in 1..(n + 1), f <= g PROVE Above(f) <= Above(g)
    OBVIOUS
  <2>1. f - 1 \in 0..n /\ g - 1 \in 0..n /\ f - 1 <= g - 1
    BY <1>1
  <2>2. Above(f) = 1 + Len(Flat(f - 1)) /\ Above(g) = 1 + Len(Flat(g - 1))
    BY <1>4
  <2>3. Len(Flat(f - 1)) <= Len(Flat(g - 1))
    BY <1>6, <2>1
  <2>4. Len(Flat(f - 1)) \in Nat /\ Len(Flat(g - 1)) \in Nat
    BY <1>5, <2>1
  <2> QED BY <2>2, <2>3, <2>4
<1> QED BY <1>1, <1>8, <1>9, <1>10, <1>11

OutputIsSeq == IsSeq(out) /\ IsSeq(held) /\ (cmd.asap => held = <<>>)

LEMMA LineAdded ==
  ASSUME OutputIsSeq, NEW x, Write(<<x>>), cmd' = cmd
  PROVE  /\ OutputIsSeq' /\ Len(Output) \in Nat /\ Len(Output') = Len(Output) + 1
         /\ \A k \in 1..Len(Output) : Output'[k] = Output[k]
         /\ Output'[Len(Output) + 1] = x
<1> DEFINE S == {out[i] : i \in DOMAIN out} \cup {held[i] : i \in DOMAIN held} \cup {x}
<1>1. (\A i \in DOMAIN out : out[i] \in S) /\ (\A i \in DOMAIN held : held[i] \in S) /\ x \in S
  OBVIOUS
<1> HIDE DEF S
<1>2. OutputOK(S)
  BY <1>1, IsSeqIn DEF OutputOK, OutputIsSeq
<1>3. Len(Output) \in Nat
  BY <1>2, OutputFacts
<1>4. out' \in Seq(S) /\ held' \in Seq(S) /\ (cmd'.asap => held' = <<>>)
  <2>1. CASE cmd.asap
    <3>1. out' = out \o <<x>> /\ held' = <<>>
      BY <1>2, <2>1 DEF Write, OutputOK
    <3> QED BY <1>1, <1>2, <3>1, Appended DEF OutputOK
  <2>2. CASE ~cmd.asap
    <3>1. held' = held \o <<x>> /\ out' = out
      BY <2>2 DEF Write
    <3> QED BY <1>1, <1>2, <2>2, <3>1, Appended DEF OutputOK
  <2> QED BY <2>1, <2>2
<1>5. /\ Len(Output') = Len(Output) + 1 /\ Output'[Len(Output) + 1] = x
      /\ \A k \in 1..Len(Output) : Output'[k] = Output[k]
  BY <1>1, <1>2, LineWritten
<1>6. IsSeq(out') /\ IsSeq(held')
  BY <1>4, SeqIsSeq
<1>7. OutputIsSeq'
  BY <1>4, <1>6 DEF OutputIsSeq
<1> QED BY <1>3, <1>5, <1>7

LEMMA AllFlushed ==
  ASSUME OutputIsSeq, Flush, cmd' = cmd
  PROVE  OutputIsSeq' /\ Output' = Output /\ held' = <<>> /\ out' = Output
<1>1. IsSeq(out) /\ IsSeq(held) /\ out' = out \o held /\ held' = <<>>
  BY DEF OutputIsSeq, Flush
<1>2. IsSeq(out \o held) /\ (out \o held) \o <<>> = out \o held
  BY <1>1, IsSeqConcat, ConcatEmpty
<1> QED BY <1>1, <1>2, IsSeqEmpty DEF OutputIsSeq, Output

-------------------------------------------------------------------------------
(* csvStack: a row.                                                           *)

\* UnderItsNames, of a header and the names of a file.
RowIs(cells, names, header, front, f, l) ==
  /\ Len(cells) = Len(header)
  /\ \A i \in DOMAIN cells :
       LET c == {d \in DOMAIN names : names[d] = header[i]} IN
       cells[i] = IF front = 1 /\ i = 1 THEN GroupCell(f)
                  ELSE IF c # {} THEN StackCell(f, l, CHOOSE d \in c : TRUE)
                  ELSE EmptyCell

LEMMA UnderNames ==
  ASSUME NEW cells, NEW f, NEW l
  PROVE  UnderItsNames(cells, f, l) <=> RowIs(cells, NamesOf(f), final_header, GroupColumns, f, l)
<1>1. groups_or_filenames <=> GroupColumns = 1
  BY DEF GroupColumns
<1> QED BY <1>1 DEF UnderItsNames, RowIs

HeaderKnown ==
  /\ final_header = FinalHeader
  /\ replace_vec = [k \in DOMAIN LaterNames |-> FirstPlace(LaterNames[k], final_header)]
  /\ cmd.groups # NoGroups => Len(cmd.groups) = Len(cmd.files)

\* How far the reading is.
OnFile ==
  /\ group_idx \in 1..(Len(cmd.files) + 1) /\ stacked \in Nat
  /\ group_idx <= Len(cmd.files) => stacked <= cmd.files[group_idx].rows
  /\ group_idx > Len(cmd.files) => stacked = 0
  /\ replace_idx = IF group_idx = 1 THEN 0 ELSE PlacesBefore(group_idx)

\* The row that is used again for every line has nothing under the names its file does
\* not have.
RowReady ==
  /\ IsSeq(stack_row) /\ Len(stack_row) = TotalCols
  /\ group_idx <= Len(cmd.files) =>
       \A i \in 1..TotalCols :
         ~(GroupColumns = 1 /\ i = 1) /\ final_header[i] \notin Range(NamesOf(group_idx)) =>
           stack_row[i] = EmptyCell

StackPrinted ==
  /\ OutputIsSeq /\ Len(Output) = Above(group_idx) + stacked
  /\ \A f \in DOMAIN cmd.files : \A l \in 1..cmd.files[f].rows :
       f < group_idx \/ (f = group_idx /\ l <= stacked) =>
         RowIs(Output[Above(f) + l].cells, NamesOf(f), final_header, GroupColumns, f, l)

LEMMA SameFiles ==
  ASSUME cmd' = cmd
  PROVE  /\ StackFiles' <=> StackFiles
         /\ Regular' <=> Regular
         /\ \A f : Above(f)' = Above(f) /\ NamesOf(f)' = NamesOf(f)
         /\ Above(group_idx)' = Above(group_idx')
         /\ NamesOf(group_idx)' = NamesOf(group_idx')
         /\ PlacesBefore(group_idx)' = PlacesBefore(group_idx')
         /\ TotalCols' = TotalCols /\ GroupColumns' = GroupColumns
         /\ FinalHeader' = FinalHeader /\ LaterNames' = LaterNames
<1>1. \A f : NamesOf(f)' = NamesOf(f)
  BY DEF NamesOf, HeaderNames
<1>2. NamesOf(group_idx)' = NamesOf(group_idx')
  BY DEF NamesOf, HeaderNames
<1>3. \A f : Above(f)' = Above(f)
  BY DEF Above, RowsOf
<1>4. Above(group_idx)' = Above(group_idx')
  BY DEF Above, RowsOf
<1>5. PlacesBefore(group_idx)' = PlacesBefore(group_idx')
  BY DEF PlacesBefore, LaterSeqs, NamesOf, HeaderNames
<1>6. (groups_or_filenames' <=> groups_or_filenames) /\ GroupName' = GroupName /\ GroupColumns' = GroupColumns
  BY DEF groups_or_filenames, GroupName, GroupColumns
<1>7. Regular' <=> Regular
  BY <1>1, <1>6 DEF Regular
<1>8. TotalCols' = TotalCols
  BY DEF TotalCols, NamesOf, HeaderNames, groups_or_filenames
<1>9. LaterNames' = LaterNames
  BY DEF LaterNames, NamesOf, HeaderNames
<1>10. FirstHeader' = FirstHeader
  BY <1>1, <1>6 DEF FirstHeader
<1>11. FinalHeader' = FinalHeader
  BY <1>9, <1>10 DEF FinalHeader, New
<1>12. StackFiles' <=> StackFiles
  BY DEF StackFiles
<1> QED BY <1>1, <1>2, <1>3, <1>4, <1>5, <1>6, <1>7, <1>8, <1>9, <1>11, <1>12

LEMMA FirstPlaceFacts ==
  ASSUME NEW h, IsSeq(h), \A i, j \in 1..Len(h) : h[i] = h[j] => i = j, NEW name \in Range(h)
  PROVE  FirstPlace(name, h) \in 1..Len(h) /\ h[FirstPlace(name, h)] = name
<1>1. Len(h) \in Nat /\ DOMAIN h = 1..Len(h)
  BY IsSeqFacts
<1>2. PICK i \in DOMAIN h : h[i] = name
  BY DEF Range
<1>3. \A j \in 1..(i - 1) : j \in 1..Len(h) /\ j # i
  BY <1>1
<1>4. \A j \in 1..(i - 1) : h[j] # name
  BY <1>1, <1>2, <1>3
<1>5. \E p \in DOMAIN h : h[p] = name /\ \A j \in 1..(p - 1) : h[j] # name
  BY <1>2, <1>4
<1> QED BY <1>1, <1>5 DEF FirstPlace

\* The cells of a file go where the header has their names.
LEMMA PlaceFacts ==
  ASSUME Stacking, HeaderKnown, OnFile, group_idx > 1, group_idx <= Len(cmd.files)
  PROVE  \A c \in DOMAIN NamesOf(group_idx) :
           /\ PlaceInRow(c) \in 1..TotalCols
           /\ \A i \in 1..TotalCols :
                PlaceInRow(c) = i <=> final_header[i] = NamesOf(group_idx)[c]
<1> PICK h : h = FinalHeader
  OBVIOUS
<1> PICK g : g = group_idx
  OBVIOUS
<1>1. /\ IsSeq(h) /\ Len(h) = TotalCols /\ final_header = h
      /\ \A i, j \in 1..Len(h) : h[i] = h[j] => i = j
      /\ \A f \in DOMAIN cmd.files : Range(NamesOf(f)) \subseteq Range(h)
  BY FinalHeaderFacts DEF HeaderKnown
<1>2. g \in 2..Len(cmd.files) /\ g \in DOMAIN cmd.files /\ replace_idx = PlacesBefore(g)
  <2>1. Len(cmd.files) \in Nat /\ DOMAIN cmd.files = 1..Len(cmd.files)
    BY FileFacts DEF Stacking
  <2> QED BY <2>1 DEF OnFile
<1> TAKE c \in DOMAIN NamesOf(group_idx)
<1> PICK name : name = NamesOf(g)[c]
  OBVIOUS
<1>3. replace_idx + c \in DOMAIN LaterNames /\ LaterNames[replace_idx + c] = name
  BY <1>2, LaterFacts DEF Stacking
<1>4. PlaceInRow(c) = FirstPlace(name, h)
  BY <1>1, <1>3 DEF PlaceInRow, HeaderKnown
<1>5. name \in Range(h)
  BY <1>1, <1>2 DEF Range
<1>6. PlaceInRow(c) \in 1..Len(h) /\ h[PlaceInRow(c)] = name
  BY <1>1, <1>4, <1>5, FirstPlaceFacts
<1> QED BY <1>1, <1>6

\* A row composed for a file after the first.
LEMMA ComposedFacts ==
  ASSUME Stacking, HeaderKnown, OnFile, RowReady, group_idx > 1, group_idx <= Len(cmd.files),
         NEW row, row = Composed
  PROVE  /\ IsSeq(row) /\ Len(row) = TotalCols
         /\ RowIs(row, NamesOf(group_idx), final_header, GroupColumns, group_idx, stacked + 1)
         /\ \A i \in 1..TotalCols :
              ~(GroupColumns = 1 /\ i = 1) /\ final_header[i] \notin Range(NamesOf(group_idx)) =>
                row[i] = EmptyCell
<1> PICK h : h = final_header
  OBVIOUS
<1> PICK names : names = NamesOf(group_idx)
  OBVIOUS
<1>1. /\ TotalCols \in Nat /\ IsSeq(h) /\ Len(h) = TotalCols
      /\ \A i, j \in 1..Len(h) : h[i] = h[j] => i = j
      /\ 1 \in 1..Len(h) /\ GroupColumns = 1 => h[1] = GroupName
  <2>1. h = FinalHeader
    BY DEF HeaderKnown
  <2>2. Len(FirstHeader) = GroupColumns + Len(NamesOf(1)) /\ Len(NamesOf(1)) \in Nat
    BY FirstHeaderFacts, FileFacts DEF Stacking
  <2>3. GroupColumns = 1 => h[1] = GroupName
    <3> SUFFICES ASSUME GroupColumns = 1 PROVE h[1] = GroupName
      OBVIOUS
    <3>1. 1 \in 1..Len(FirstHeader) /\ groups_or_filenames
      BY <2>2 DEF GroupColumns
    <3> QED BY <2>1, <3>1, FinalHeaderFacts, FirstHeaderFacts
  <2> QED BY <2>1, <2>3, FinalHeaderFacts
<1>2. IsSeq(stack_row) /\ Len(stack_row) = TotalCols /\ DOMAIN stack_row = 1..TotalCols
  BY IsSeqFacts DEF RowReady
<1>3. GroupColumns = 1 => GroupName \notin Range(names)
  <2>1. group_idx \in DOMAIN cmd.files
    <3>1. Len(cmd.files) \in Nat /\ DOMAIN cmd.files = 1..Len(cmd.files)
      BY FileFacts DEF Stacking
    <3> QED BY <3>1 DEF OnFile
  <2> QED BY <2>1 DEF Stacking, Regular, GroupColumns
<1>4. \A c, d \in DOMAIN names : names[c] = names[d] => c = d
  <2>1. group_idx \in DOMAIN cmd.files
    <3>1. Len(cmd.files) \in Nat /\ DOMAIN cmd.files = 1..Len(cmd.files)
      BY FileFacts DEF Stacking
    <3> QED BY <3>1 DEF OnFile
  <2> QED BY <2>1 DEF Stacking, Regular, IsInjective
<1> DEFINE mine(i) == {c \in DOMAIN names : PlaceInRow(c) = i}
           under(i) == {d \in DOMAIN names : names[d] = h[i]}
<1>5. \A i \in 1..TotalCols : mine(i) = under(i)
  BY PlaceFacts
<1>6. row = [i \in 1..TotalCols |->
               IF mine(i) # {}
               THEN StackCell(group_idx, stacked + 1, CHOOSE c \in mine(i) : \A d \in mine(i) : d <= c)
               ELSE IF groups_or_filenames /\ i = 1 THEN GroupCell(group_idx) ELSE stack_row[i]]
  BY <1>2 DEF Composed
<1>7. IsSeq(row) /\ Len(row) = TotalCols /\ DOMAIN row = 1..TotalCols
  <2>1. row = [i \in 1..TotalCols |-> row[i]]
    BY <1>6
  <2> QED BY <1>1, <2>1, IsSeqFunction
<1>8. ASSUME NEW i \in 1..TotalCols
      PROVE  row[i] = IF GroupColumns = 1 /\ i = 1 THEN GroupCell(group_idx)
                      ELSE IF under(i) # {}
                      THEN StackCell(group_idx, stacked + 1, CHOOSE d \in under(i) : TRUE)
                      ELSE EmptyCell
  <2>1. mine(i) = under(i)
    BY <1>5
  <2>2. GroupColumns = 1 /\ i = 1 => under(i) = {}
    BY <1>1, <1>3 DEF Range
  <2>3. under(i) # {} => (CHOOSE c \in under(i) : \A d \in under(i) : d <= c)
                           = (CHOOSE d \in under(i) : TRUE)
    <3> SUFFICES ASSUME NEW e \in under(i)
                 PROVE  (CHOOSE c \in under(i) : \A d \in under(i) : d <= c)
                           = (CHOOSE d \in under(i) : TRUE)
      OBVIOUS
    <3>1. under(i) = {e}
      BY <1>4
    <3>2. e \in Int
      <4>1. group_idx \in DOMAIN cmd.files
        <5>1. Len(cmd.files) \in Nat /\ DOMAIN cmd.files = 1..Len(cmd.files)
          BY FileFacts DEF Stacking
        <5> QED BY <5>1 DEF OnFile
      <4>2. DOMAIN names = 1..Len(names) /\ Len(names) \in Nat
        BY <4>1, FileFacts DEF Stacking
      <4> QED BY <4>2
    <3> HIDE DEF under
    <3>3. e <= e
      BY <3>2
    <3>4. (CHOOSE c \in {e} : \A d \in {e} : d <= c) = e
      BY <3>3
    <3>5. (CHOOSE d \in {e} : TRUE) = e
      OBVIOUS
    <3> QED BY <3>1, <3>4, <3>5
  <2>4. under(i) = {} /\ ~(GroupColumns = 1 /\ i = 1) => stack_row[i] = EmptyCell
    BY DEF RowReady, Range
  <2>5. groups_or_filenames <=> GroupColumns = 1
    BY DEF GroupColumns
  <2> HIDE DEF mine, under
  <2>6. row[i] = IF mine(i) # {}
                 THEN StackCell(group_idx, stacked + 1, CHOOSE c \in mine(i) : \A d \in mine(i) : d <= c)
                 ELSE IF groups_or_filenames /\ i = 1 THEN GroupCell(group_idx) ELSE stack_row[i]
    BY <1>6
  <2>7. CASE under(i) # {}
    BY <2>1, <2>2, <2>3, <2>6, <2>7
  <2>8. CASE under(i) = {}
    BY <2>1, <2>4, <2>5, <2>6, <2>8
  <2> QED BY <2>7, <2>8
<1>9. RowIs(row, names, h, GroupColumns, group_idx, stacked + 1)
  BY <1>1, <1>7, <1>8 DEF RowIs
<1>10. \A i \in 1..TotalCols : ~(GroupColumns = 1 /\ i = 1) /\ h[i] \notin Range(names) => row[i] = EmptyCell
  <2>1. \A i : h[i] \notin Range(names) => under(i) = {}
    BY DEF Range
  <2> HIDE DEF under
  <2> QED BY <1>8, <2>1
<1> QED BY <1>7, <1>9, <1>10

\* Three sequences, one after the other.
ThreeJoined(t, a, b, c) ==
  /\ IsSeq(t) /\ Len(t) = Len(a) + Len(b) + Len(c)
  /\ \A i \in 1..Len(a) : t[i] = a[i]
  /\ \A i \in 1..Len(b) : t[Len(a) + i] = b[i]
  /\ \A i \in 1..Len(c) : t[Len(a) + Len(b) + i] = c[i]

LEMMA JoinedFacts ==
  ASSUME NEW a, NEW b, NEW c, IsSeq(a), IsSeq(b), IsSeq(c)
  PROVE  ThreeJoined((a \o b) \o c, a, b, c)
<1> PICK s : s = a \o b
  OBVIOUS
<1>1. /\ IsSeq(s) /\ Len(s) = Len(a) + Len(b)
      /\ \A i \in 1..Len(a) : s[i] = a[i]
      /\ \A i \in 1..Len(b) : s[Len(a) + i] = b[i]
  BY IsSeqConcat
<1>2. Len(a) \in Nat /\ Len(b) \in Nat
  BY IsSeqFacts
<1> PICK t : t = s \o c
  OBVIOUS
<1>3. /\ IsSeq(t) /\ Len(t) = Len(s) + Len(c)
      /\ \A i \in 1..Len(s) : t[i] = s[i]
      /\ \A i \in 1..Len(c) : t[Len(s) + i] = c[i]
  BY <1>1, IsSeqConcat
<1>4. t = (a \o b) \o c
  OBVIOUS
<1>5. /\ \A i \in 1..Len(a) : i \in 1..(Len(a) + Len(b))
      /\ \A i \in 1..Len(b) : Len(a) + i \in 1..(Len(a) + Len(b))
  BY <1>2
<1>6. /\ \A i \in 1..Len(a) : t[i] = a[i]
      /\ \A i \in 1..Len(b) : t[Len(a) + i] = b[i]
  BY <1>1, <1>3, <1>5
<1>7. ThreeJoined(t, a, b, c)
  BY <1>1, <1>3, <1>6 DEF ThreeJoined
<1> QED BY <1>4, <1>7

\* A group, a cell for every name and nothing after them, under a header that begins
\* with the group and the names.
LEMMA RowOfParts ==
  ASSUME NEW names, IsSeq(names), NEW front \in {0, 1}, NEW h, IsSeq(h),
         front + Len(names) <= Len(h),
         \A i, j \in 1..Len(h) : h[i] = h[j] => i = j,
         \A c \in 1..Len(names) : h[front + c] = names[c],
         NEW f, NEW l, NEW cells, IsSeq(cells), Len(cells) = Len(h),
         front = 1 => cells[1] = GroupCell(f),
         \A c \in 1..Len(names) : cells[front + c] = StackCell(f, l, c),
         \A i \in 1..Len(h) : i > front + Len(names) => cells[i] = EmptyCell
  PROVE  RowIs(cells, names, h, front, f, l)
<1> PICK n : n = Len(names)
  OBVIOUS
<1> PICK total : total = Len(h)
  OBVIOUS
<1>0. /\ n \in Nat /\ DOMAIN names = 1..n /\ total \in Nat
      /\ Len(cells) = total /\ DOMAIN cells = 1..total
  BY IsSeqFacts
<1> DEFINE under(i) == {d \in DOMAIN names : names[d] = h[i]}
<1>1. \A c \in 1..n : front + c \in 1..total
  BY <1>0
<1>2. \A i \in 1..total : \A d \in 1..n : names[d] = h[i] => front + d = i
  BY <1>0, <1>1
<1>3. ASSUME NEW i \in 1..total
      PROVE  cells[i] = IF front = 1 /\ i = 1 THEN GroupCell(f)
                        ELSE IF under(i) # {} THEN StackCell(f, l, CHOOSE d \in under(i) : TRUE)
                        ELSE EmptyCell
  <2>1. CASE front = 1 /\ i = 1
    BY <2>1
  <2>2. CASE ~(front = 1 /\ i = 1) /\ i <= front + n
    <3> PICK c : c = i - front
      OBVIOUS
    <3>1. c \in 1..n /\ front + c = i
      BY <1>0, <2>2
    <3>2. \A d \in 1..n : front + d = i => d = c
      BY <1>0
    <3>3. \A d \in 1..n : names[d] = h[i] => d = c
      BY <1>2, <3>2
    <3>4. names[c] = h[i]
      BY <3>1
    <3>5. under(i) = {c}
      BY <1>0, <3>1, <3>3, <3>4
    <3> HIDE DEF under
    <3>6. (CHOOSE d \in {c} : TRUE) = c
      OBVIOUS
    <3>7. cells[i] = StackCell(f, l, c)
      BY <3>1
    <3> QED BY <2>2, <3>5, <3>6, <3>7
  <2>3. CASE i > front + n
    <3>1. cells[i] = EmptyCell /\ ~(front = 1 /\ i = 1)
      BY <1>0, <2>3
    <3>2. \A d \in 1..n : front + d # i
      BY <1>0, <2>3
    <3>3. under(i) = {}
      BY <1>0, <1>2, <3>2
    <3> HIDE DEF under
    <3> QED BY <3>1, <3>3
  <2> QED BY <1>0, <2>1, <2>2, <2>3
<1> QED BY <1>0, <1>3 DEF RowIs

\* A row of the first file.
LEMMA FirstRowFacts ==
  ASSUME Stacking, HeaderKnown, NEW l,
         NEW row, row = (IF groups_or_filenames THEN <<GroupCell(1)>> ELSE <<>>)
                          \o [c \in DOMAIN NamesOf(1) |-> StackCell(1, l, c)],
         NEW cells, cells = row \o [i \in 1..(IF Len(row) < TotalCols THEN TotalCols - Len(row) ELSE 0)
                                      |-> EmptyCell]
  PROVE  RowIs(cells, NamesOf(1), final_header, GroupColumns, 1, l)
<1> PICK h : h = final_header
  OBVIOUS
<1> PICK names : names = NamesOf(1)
  OBVIOUS
<1> PICK n : n = Len(names)
  OBVIOUS
<1>1. /\ TotalCols \in Nat /\ IsSeq(h) /\ Len(h) = TotalCols /\ h = FinalHeader
      /\ \A i, j \in 1..Len(h) : h[i] = h[j] => i = j
  BY FinalHeaderFacts DEF HeaderKnown
<1>2. n \in Nat /\ DOMAIN names = 1..n /\ GroupColumns \in {0, 1}
  BY FirstHeaderFacts, FileFacts DEF Stacking, GroupColumns
<1>3. /\ GroupColumns + n <= TotalCols
      /\ \A c \in 1..n : h[GroupColumns + c] = names[c]
  <2>1. Len(FirstHeader) = GroupColumns + n /\ GroupColumns + n <= TotalCols
    BY <1>1, FirstHeaderFacts, FinalHeaderFacts
  <2>2. \A i \in 1..(GroupColumns + n) : h[i] = FirstHeader[i]
    BY <1>1, <2>1, FinalHeaderFacts
  <2>3. \A c \in 1..n : FirstHeader[GroupColumns + c] = names[c]
    BY <1>2, FirstHeaderFacts
  <2>4. \A c \in 1..n : GroupColumns + c \in 1..(GroupColumns + n)
    BY <1>2
  <2> QED BY <2>1, <2>2, <2>3, <2>4
<1>g. PICK g : g = (IF groups_or_filenames THEN <<GroupCell(1)>> ELSE <<>>)
  OBVIOUS
<1>4. IsSeq(g) /\ Len(g) = GroupColumns /\ (GroupColumns = 1 => g[1] = GroupCell(1))
  <2> PICK x : x = GroupCell(1)
    OBVIOUS
  <2>1. <<x>> \in Seq({x}) /\ Len(<<x>>) = 1 /\ <<x>>[1] = x
    OBVIOUS
  <2>2. IsSeq(<<x>>)
    BY <2>1, SeqIsSeq
  <2> QED BY <1>g, <2>1, <2>2, IsSeqEmpty DEF GroupColumns
<1>o. PICK own : own = [c \in 1..n |-> StackCell(1, l, c)]
  OBVIOUS
<1>5. IsSeq(own) /\ Len(own) = n /\ \A c \in 1..n : own[c] = StackCell(1, l, c)
  <2>1. own = [c \in 1..n |-> own[c]] /\ \A c \in 1..n : own[c] = StackCell(1, l, c)
    BY <1>o
  <2> QED BY <1>2, <2>1, IsSeqFunction
<1>6. row = g \o own
  BY <1>2, <1>g, <1>o
<1>7. Len(row) = GroupColumns + n
  BY <1>4, <1>5, <1>6, IsSeqConcat
<1> PICK more : more = TotalCols - (GroupColumns + n)
  OBVIOUS
<1>8. more \in Nat /\ (GroupColumns + n) + more = TotalCols
  BY <1>1, <1>2, <1>3
<1>9. more = IF Len(row) < TotalCols THEN TotalCols - Len(row) ELSE 0
  <2>1. \A t, b \in Nat : b <= t => t - b = IF b < t THEN t - b ELSE 0
    OBVIOUS
  <2>2. GroupColumns + n \in Nat
    BY <1>2
  <2> QED BY <1>1, <1>3, <1>7, <2>1, <2>2
<1>f. PICK fill : fill = [i \in 1..more |-> EmptyCell]
  OBVIOUS
<1>10. IsSeq(fill) /\ Len(fill) = more /\ \A i \in 1..more : fill[i] = EmptyCell
  <2>1. fill = [i \in 1..more |-> fill[i]] /\ \A i \in 1..more : fill[i] = EmptyCell
    BY <1>f
  <2> QED BY <1>8, <2>1, IsSeqFunction
<1>11. cells = (g \o own) \o fill
  BY <1>6, <1>9, <1>f
<1>12. /\ IsSeq(cells) /\ Len(cells) = (GroupColumns + n) + more
       /\ \A i \in 1..GroupColumns : cells[i] = g[i]
       /\ \A c \in 1..n : cells[GroupColumns + c] = own[c]
       /\ \A i \in 1..more : cells[(GroupColumns + n) + i] = fill[i]
  <2>1. IsSeq(g) /\ IsSeq(own) /\ IsSeq(fill)
    BY <1>4, <1>5, <1>10
  <2>2. ThreeJoined((g \o own) \o fill, g, own, fill)
    BY <2>1, JoinedFacts, Zenon
  <2>3. ThreeJoined(cells, g, own, fill)
    BY <1>11, <2>2
  <2> QED BY <1>4, <1>5, <1>10, <2>3 DEF ThreeJoined
<1>13. Len(cells) = TotalCols /\ DOMAIN cells = 1..TotalCols
  BY <1>8, <1>12, IsSeqFacts
<1>14. GroupColumns = 1 => cells[1] = GroupCell(1)
  <2> SUFFICES ASSUME GroupColumns = 1 PROVE cells[1] = GroupCell(1)
    OBVIOUS
  <2>1. 1 \in 1..GroupColumns
    OBVIOUS
  <2> QED BY <1>4, <1>12, <2>1
<1>15. \A i \in 1..TotalCols : i > GroupColumns + n => cells[i] = EmptyCell
  <2>1. \A i \in 1..TotalCols : i > GroupColumns + n =>
          i - (GroupColumns + n) \in 1..more /\ (GroupColumns + n) + (i - (GroupColumns + n)) = i
    BY <1>1, <1>2, <1>8
  <2> TAKE i \in 1..TotalCols
  <2> HAVE i > GroupColumns + n
  <2> PICK k : k = i - (GroupColumns + n)
    OBVIOUS
  <2>2. k \in 1..more /\ (GroupColumns + n) + k = i
    BY <2>1
  <2>3. cells[(GroupColumns + n) + k] = fill[k] /\ fill[k] = EmptyCell
    BY <1>10, <1>12, <2>2
  <2> QED BY <2>2, <2>3
<1>16. RowIs(cells, names, h, GroupColumns, 1, l)
  <2>1. \A c \in 1..Len(names) : cells[GroupColumns + c] = StackCell(1, l, c)
    BY <1>5, <1>12
  <2>2. IsSeq(names) /\ GroupColumns \in {0, 1} /\ IsSeq(h) /\ IsSeq(cells) /\ Len(cells) = Len(h)
    BY <1>1, <1>2, <1>12, <1>13, FirstHeaderFacts, FileFacts DEF Stacking
  <2>3. GroupColumns + Len(names) <= Len(h) /\ \A c \in 1..Len(names) : h[GroupColumns + c] = names[c]
    BY <1>1, <1>3
  <2>4. \A i \in 1..Len(h) : i > GroupColumns + Len(names) => cells[i] = EmptyCell
    BY <1>1, <1>15
  <2> QED BY <1>1, <1>14, <2>1, <2>2, <2>3, <2>4, RowOfParts
<1> QED BY <1>16

-------------------------------------------------------------------------------
(* csvStack: the inductive invariant.                                         *)

StackInv ==
  cmd.tool = "stack" /\ Regular =>
    /\ StackFiles
    /\ at \in {"start", "stacking", "done", "failed"}
    /\ at \in {"start", "failed"} => out = <<>> /\ held = <<>>
    /\ at = "start" => group_idx = 1 /\ stacked = 0 /\ replace_idx = 0
    /\ at \in {"stacking", "done"} =>
         /\ cmd.files # <<>>
         /\ HeaderKnown /\ OnFile /\ StackPrinted
         /\ group_idx > 1 => RowReady
    /\ at = "done" => held = <<>> /\ group_idx > Len(cmd.files)

LEMMA OnThisFile ==
  ASSUME StackFiles, OnFile, group_idx <= Len(cmd.files)
  PROVE  /\ group_idx \in DOMAIN cmd.files /\ cmd.files[group_idx].rows \in Nat
         /\ Len(cmd.files) \in Nat
<1>1. Len(cmd.files) \in Nat /\ DOMAIN cmd.files = 1..Len(cmd.files)
  BY FileFacts
<1>2. group_idx \in DOMAIN cmd.files
  BY <1>1 DEF OnFile
<1> QED BY <1>1, <1>2, FileFacts

\* A row printed for the file whose turn it is.
LEMMA LinePrinted ==
  ASSUME StackFiles, HeaderKnown, OnFile, StackPrinted, RowToStack, NEW cells, StackLine(cells),
         RowIs(cells, NamesOf(group_idx), final_header, GroupColumns, group_idx, stacked + 1)
  PROVE  HeaderKnown' /\ OnFile' /\ StackPrinted'
<1>1. /\ cmd' = cmd /\ final_header' = final_header /\ replace_vec' = replace_vec
      /\ group_idx' = group_idx /\ replace_idx' = replace_idx /\ stacked' = stacked + 1
      /\ Write(<<[n |-> line_nums', cells |-> cells]>>)
  BY DEF StackLine
<1>2. group_idx <= Len(cmd.files) /\ stacked < cmd.files[group_idx].rows /\ stacked \in Nat
  BY DEF RowToStack, OnFile
<1>3. group_idx \in DOMAIN cmd.files /\ cmd.files[group_idx].rows \in Nat
  BY <1>2, OnThisFile
<1>4. HeaderKnown'
  <2>1. FinalHeader' = FinalHeader /\ LaterNames' = LaterNames
    BY <1>1, SameFiles
  <2> QED BY <1>1, <2>1 DEF HeaderKnown, FirstPlace
<1>5. OnFile'
  <2>1. PlacesBefore(group_idx)' = PlacesBefore(group_idx)
    BY <1>1, SameFiles
  <2> QED BY <1>1, <1>2, <1>3, <2>1 DEF OnFile
<1> PICK x : x = [n |-> line_nums', cells |-> cells]
  OBVIOUS
<1>6. /\ OutputIsSeq' /\ Len(Output) \in Nat /\ Len(Output') = Len(Output) + 1
      /\ \A k \in 1..Len(Output) : Output'[k] = Output[k]
      /\ Output'[Len(Output) + 1] = x
  BY <1>1, LineAdded DEF StackPrinted
<1>7. /\ \A f \in DOMAIN cmd.files : Above(f) \in Nat /\ Above(f) >= 1
      /\ \A f \in DOMAIN cmd.files : f < group_idx => Above(f) + cmd.files[f].rows <= Above(group_idx)
      /\ DOMAIN cmd.files = 1..Len(cmd.files) /\ Len(cmd.files) \in Nat
  <2>1. DOMAIN cmd.files = 1..Len(cmd.files) /\ Len(cmd.files) \in Nat
    BY FileFacts
  <2>2. \A f \in DOMAIN cmd.files : f \in 1..(Len(cmd.files) + 1) /\ f + 1 \in 1..(Len(cmd.files) + 1)
    BY <2>1
  <2>3. \A f \in DOMAIN cmd.files : f < group_idx => f + 1 <= group_idx
    BY <1>3, <2>1
  <2> QED BY <1>3, <2>1, <2>2, <2>3, AboveFacts
<1>8. Len(Output) = Above(group_idx) + stacked
  BY DEF StackPrinted
<1>9. ASSUME NEW f \in DOMAIN cmd.files, NEW l \in 1..cmd.files[f].rows,
             f < group_idx \/ (f = group_idx /\ l <= stacked + 1)
      PROVE  RowIs(Output'[Above(f) + l].cells, NamesOf(f), final_header, GroupColumns, f, l)
  <2> PICK k : k = Above(f) + l
    OBVIOUS
  <2>0. cmd.files[f].rows \in Nat /\ l \in Nat /\ l >= 1
    BY FileFacts
  <2>1. CASE f = group_idx /\ l = stacked + 1
    <3>1. k = Len(Output) + 1
      BY <1>2, <1>7, <1>8, <2>1
    <3>2. Output'[k].cells = cells
      BY <1>6, <3>1
    <3> QED BY <2>1, <3>2
  <2>2. CASE ~(f = group_idx /\ l = stacked + 1)
    <3>1. f < group_idx \/ (f = group_idx /\ l <= stacked)
      BY <1>2, <1>9, <2>0, <2>2
    <3>2. k \in 1..Len(Output)
      <4>1. CASE f < group_idx
        <5> PICK r : r = cmd.files[f].rows
          OBVIOUS
        <5> PICK a : a = Above(f)
          OBVIOUS
        <5> PICK b : b = Above(group_idx)
          OBVIOUS
        <5>1. a \in Nat /\ b \in Nat /\ a + r <= b /\ r \in Nat /\ l <= r /\ k = a + l
              /\ Len(Output) = b + stacked
          BY <1>3, <1>7, <1>8, <2>0, <4>1
        <5>2. \A u, v, w, y, z \in Nat : u + v <= w /\ y <= v /\ y >= 1 => u + y \in 1..(w + z)
          OBVIOUS
        <5>3. a + l \in 1..(b + stacked)
          BY <1>2, <2>0, <5>1, <5>2
        <5> QED BY <5>1, <5>3
      <4>2. CASE f = group_idx /\ l <= stacked
        BY <1>2, <1>7, <1>8, <2>0, <4>2
      <4> QED BY <3>1, <4>1, <4>2
    <3>3. RowIs(Output[k].cells, NamesOf(f), final_header, GroupColumns, f, l)
      BY <3>1 DEF StackPrinted
    <3> QED BY <1>6, <3>2, <3>3
  <2> QED BY <2>1, <2>2
<1>10. StackPrinted'
  <2>1. \A f : Above(f)' = Above(f) /\ NamesOf(f)' = NamesOf(f)
    BY <1>1, SameFiles
  <2>2. GroupColumns' = GroupColumns /\ Above(group_idx)' = Above(group_idx)
    BY <1>1, SameFiles
  <2>3. Len(Output') = Above(group_idx) + (stacked + 1)
    BY <1>2, <1>3, <1>6, <1>7, <1>8
  <2>4. \A f \in DOMAIN cmd.files : \A l \in 1..cmd.files[f].rows :
          f < group_idx \/ (f = group_idx /\ l <= stacked') =>
            RowIs(Output'[Above(f)' + l].cells, NamesOf(f)', final_header', GroupColumns', f, l)
    BY <1>1, <1>9, <2>1, <2>2
  <2>5. (\A f \in DOMAIN cmd.files : \A l \in 1..cmd.files[f].rows :
           f < group_idx \/ (f = group_idx /\ l <= stacked) =>
             RowIs(Output[Above(f) + l].cells, NamesOf(f), final_header, GroupColumns, f, l))'
    BY <1>1, <2>4 DEF RowIs
  <2>6. (OutputIsSeq /\ Len(Output) = Above(group_idx) + stacked)'
    BY <1>1, <1>6, <2>2, <2>3
  <2> QED BY <2>5, <2>6 DEF StackPrinted
<1> QED BY <1>4, <1>5, <1>10

LEMMA StackInitially == ToolInit /\ StackInit => StackInv
<1> SUFFICES ASSUME ToolInit, StackInit, cmd.tool = "stack", Regular
             PROVE  /\ StackFiles /\ at = "start" /\ out = <<>> /\ held = <<>>
                    /\ group_idx = 1 /\ stacked = 0 /\ replace_idx = 0
  BY DEF StackInv
<1> QED BY StackAssumption DEF ToolInit, StackInit, StackFiles

LEMMA StackStarts ==
  ASSUME StackFiles, Regular, StackStart, out = <<>>, held = <<>>,
         group_idx = 1, stacked = 0, replace_idx = 0
  PROVE  /\ at' = "stacking" /\ cmd.files # <<>> /\ group_idx' = 1
         /\ HeaderKnown' /\ OnFile' /\ StackPrinted'
<1>1. /\ cmd' = cmd /\ at' = "stacking" /\ ~StackRejects
      /\ final_header' = FinalHeader /\ replace_vec' = FillReplaceVec
      /\ Write(<<[n |-> 0, cells |-> final_header']>>)
      /\ group_idx' = 1 /\ stacked' = 0 /\ replace_idx' = 0
  BY DEF StackStart, Goto
<1>2. cmd.files # <<>> /\ (cmd.groups # NoGroups => Len(cmd.groups) = Len(cmd.files))
  BY <1>1 DEF StackRejects, Regular
<1>3. HeaderKnown'
  <2>1. FinalHeader' = FinalHeader /\ LaterNames' = LaterNames
    BY <1>1, SameFiles
  <2>2. replace_vec' = [k \in DOMAIN LaterNames' |-> FirstPlace(LaterNames'[k], final_header')]
    BY <1>1, <2>1 DEF FillReplaceVec
  <2> QED BY <1>1, <1>2, <2>1, <2>2 DEF HeaderKnown, FirstPlace, NoGroups
<1>4. Len(cmd.files) \in Nat /\ 1 \in DOMAIN cmd.files /\ cmd.files[1].rows \in Nat
  <2>1. Len(cmd.files) \in Nat /\ Len(cmd.files) # 0 /\ DOMAIN cmd.files = 1..Len(cmd.files)
    BY <1>2, FileFacts, EmptySeq DEF StackFiles
  <2>2. 1 \in DOMAIN cmd.files
    BY <2>1
  <2> QED BY <2>1, <2>2, FileFacts
<1>5. OnFile'
  <2>1. 1 \in 1..(Len(cmd.files) + 1) /\ ~(1 > Len(cmd.files))
    <3>1. DOMAIN cmd.files = 1..Len(cmd.files)
      BY FileFacts
    <3> QED BY <1>4, <3>1
  <2> QED BY <1>1, <1>4, <2>1 DEF OnFile
<1>6. StackPrinted'
  <2> PICK x : x = [n |-> 0, cells |-> final_header']
    OBVIOUS
  <2>1. OutputIsSeq /\ Len(Output) = 0
    <3>1. IsSeq(<<>>) /\ Len(<<>>) = 0
      BY IsSeqEmpty
    <3>2. <<>> \o <<>> = <<>>
      BY <3>1, ConcatEmpty
    <3> QED BY <3>1, <3>2 DEF OutputIsSeq, Output
  <2>2. OutputIsSeq' /\ Len(Output') = 0 + 1
    BY <1>1, <2>1, LineAdded
  <2>3. Above(group_idx)' = 1
    <3>1. Above(group_idx)' = Above(group_idx')
      BY <1>1, SameFiles
    <3> QED BY <1>1, <3>1, AboveFacts
  <2>4. (OutputIsSeq /\ Len(Output) = Above(group_idx) + stacked)'
    BY <1>1, <2>2, <2>3
  <2>5. \A f \in DOMAIN cmd.files : \A l \in 1..cmd.files[f].rows :
          ~(f < group_idx' \/ (f = group_idx' /\ l <= stacked'))
    <3>1. DOMAIN cmd.files = 1..Len(cmd.files)
      BY FileFacts
    <3> QED BY <1>1, <1>4, <3>1
  <2> QED BY <1>1, <2>4, <2>5 DEF StackPrinted
<1> QED BY <1>1, <1>2, <1>3, <1>5, <1>6

LEMMA PutFirstKeeps ==
  ASSUME Stacking, HeaderKnown, OnFile, StackPrinted, PutFirst
  PROVE  HeaderKnown' /\ OnFile' /\ StackPrinted' /\ group_idx' = 1 /\ cmd' = cmd /\ at' = "stacking"
<1>1. RowToStack /\ group_idx = 1
  BY DEF PutFirst
<1> PICK row : row = (IF groups_or_filenames THEN <<GroupCell(1)>> ELSE <<>>)
                       \o [c \in DOMAIN NamesOf(1) |-> StackCell(1, stacked + 1, c)]
  OBVIOUS
<1> PICK cells : cells = row \o [i \in 1..(IF Len(row) < TotalCols THEN TotalCols - Len(row) ELSE 0)
                                   |-> EmptyCell]
  OBVIOUS
<1>2. StackLine(cells)
  BY DEF PutFirst
<1>3. RowIs(cells, NamesOf(1), final_header, GroupColumns, 1, stacked + 1)
  BY FirstRowFacts
<1>4. HeaderKnown' /\ OnFile' /\ StackPrinted'
  BY <1>1, <1>2, <1>3, LinePrinted DEF Stacking
<1> QED BY <1>1, <1>2, <1>4 DEF StackLine, RowToStack

LEMMA PutRestKeeps ==
  ASSUME Stacking, HeaderKnown, OnFile, StackPrinted, RowReady, PutRest
  PROVE  HeaderKnown' /\ OnFile' /\ StackPrinted' /\ RowReady' /\ cmd' = cmd /\ at' = "stacking"
<1>1. RowToStack /\ group_idx > 1 /\ group_idx <= Len(cmd.files) /\ at = "stacking"
  BY DEF PutRest, RowToStack
<1> PICK row : row = Composed
  OBVIOUS
<1>2. StackLine(row) /\ stack_row' = row
  BY DEF PutRest
<1>3. /\ IsSeq(row) /\ Len(row) = TotalCols
      /\ RowIs(row, NamesOf(group_idx), final_header, GroupColumns, group_idx, stacked + 1)
      /\ \A i \in 1..TotalCols :
           ~(GroupColumns = 1 /\ i = 1) /\ final_header[i] \notin Range(NamesOf(group_idx)) =>
             row[i] = EmptyCell
  BY <1>1, ComposedFacts
<1>4. HeaderKnown' /\ OnFile' /\ StackPrinted'
  BY <1>1, <1>2, <1>3, LinePrinted DEF Stacking
<1>5. cmd' = cmd /\ at' = at /\ final_header' = final_header /\ group_idx' = group_idx
  BY <1>2 DEF StackLine
<1>6. RowReady'
  <2>1. /\ NamesOf(group_idx)' = NamesOf(group_idx) /\ TotalCols' = TotalCols
        /\ GroupColumns' = GroupColumns
    BY <1>5, SameFiles
  <2> QED BY <1>2, <1>3, <1>5, <2>1 DEF RowReady
<1> QED BY <1>1, <1>4, <1>5, <1>6

\* A row never goes beyond its end, nor a file beyond the groups.
LEMMA NeverOutside ==
  ASSUME Stacking, HeaderKnown, OnFile, RowReady, PutOutside
  PROVE  FALSE
<1>1. group_idx > 1 /\ group_idx <= Len(cmd.files) /\ (NoSuchGroup \/ OutsideRow)
  BY DEF PutOutside, RowToStack
<1>2. group_idx \in Nat /\ Len(cmd.files) \in Nat
  BY <1>1, FileFacts DEF OnFile, Stacking
<1>3. ~NoSuchGroup
  BY <1>1, <1>2 DEF NoSuchGroup, HeaderKnown
<1>4. ~OutsideRow
  <2>1. \A c \in DOMAIN NamesOf(group_idx) : PlaceInRow(c) \in 1..TotalCols
    BY <1>1, PlaceFacts
  <2>2. TotalCols \in Nat /\ Len(stack_row) = TotalCols
    BY FinalHeaderFacts DEF RowReady
  <2> QED BY <2>1, <2>2 DEF OutsideRow
<1> QED BY <1>1, <1>3, <1>4

LEMMA NextReaderKeeps ==
  ASSUME Stacking, HeaderKnown, OnFile, StackPrinted, NextReader
  PROVE  /\ HeaderKnown' /\ OnFile' /\ StackPrinted' /\ RowReady' /\ cmd' = cmd /\ at' = "stacking"
<1>1. /\ cmd' = cmd /\ at' = at /\ final_header' = final_header /\ replace_vec' = replace_vec
      /\ group_idx' = group_idx + 1 /\ stacked' = 0 /\ out' = out /\ held' = held
      /\ at = "stacking" /\ group_idx <= Len(cmd.files) /\ ~RowToStack
      /\ stack_row' = [i \in 1..TotalCols |-> EmptyCell]
      /\ replace_idx' = IF group_idx = 1 THEN 0 ELSE replace_idx + Len(NamesOf(group_idx))
  BY DEF NextReader, Quiet
<1>2. group_idx \in DOMAIN cmd.files /\ cmd.files[group_idx].rows \in Nat /\ Len(cmd.files) \in Nat
      /\ DOMAIN cmd.files = 1..Len(cmd.files)
  BY <1>1, OnThisFile, FileFacts DEF Stacking
<1>3. stacked = cmd.files[group_idx].rows
  BY <1>1, <1>2 DEF OnFile, RowToStack
<1>4. HeaderKnown'
  <2>1. FinalHeader' = FinalHeader /\ LaterNames' = LaterNames
    BY <1>1, SameFiles
  <2> QED BY <1>1, <2>1 DEF HeaderKnown, FirstPlace
<1>5. OnFile'
  <2>1. group_idx + 1 \in 1..(Len(cmd.files) + 1) /\ group_idx + 1 # 1
        /\ (group_idx # 1 => group_idx \in 2..Len(cmd.files))
    BY <1>2
  <2>2. replace_idx' = PlacesBefore(group_idx + 1)
    <3>1. CASE group_idx = 1
      BY <1>1, <3>1, LaterFacts DEF Stacking
    <3>2. CASE group_idx # 1
      BY <1>1, <2>1, <3>2, LaterFacts DEF Stacking, OnFile
    <3> QED BY <3>1, <3>2
  <2>3. PlacesBefore(group_idx)' = PlacesBefore(group_idx')
    BY <1>1, SameFiles
  <2>4. group_idx + 1 <= Len(cmd.files) => 0 <= cmd.files[group_idx + 1].rows
    <3> SUFFICES ASSUME group_idx + 1 <= Len(cmd.files) PROVE 0 <= cmd.files[group_idx + 1].rows
      OBVIOUS
    <3>1. group_idx + 1 \in DOMAIN cmd.files
      BY <1>2
    <3>2. cmd.files[group_idx + 1].rows \in Nat
      BY <3>1, FileFacts DEF Stacking
    <3> QED BY <3>2
  <2> QED BY <1>1, <2>1, <2>2, <2>3, <2>4 DEF OnFile
<1>6. StackPrinted'
  <2>1. \A f : Above(f)' = Above(f) /\ NamesOf(f)' = NamesOf(f)
    BY <1>1, SameFiles
  <2>2. GroupColumns' = GroupColumns /\ Above(group_idx)' = Above(group_idx + 1) /\ Output' = Output
    BY <1>1, SameFiles DEF Output
  <2>3. Above(group_idx + 1) = Above(group_idx) + stacked /\ Above(group_idx + 1) \in Nat
    <3>1. group_idx + 1 \in 1..(Len(cmd.files) + 1)
      BY <1>2
    <3> QED BY <1>2, <1>3, <3>1, AboveFacts DEF Stacking
  <2>4. (OutputIsSeq /\ Len(Output) = Above(group_idx) + stacked)'
    BY <1>1, <2>2, <2>3 DEF StackPrinted, OutputIsSeq
  <2>5. ASSUME NEW f \in DOMAIN cmd.files, NEW l \in 1..cmd.files[f].rows,
               f < group_idx + 1 \/ (f = group_idx + 1 /\ l <= 0)
        PROVE  RowIs(Output[Above(f) + l].cells, NamesOf(f), final_header, GroupColumns, f, l)
    <3>1. cmd.files[f].rows \in Nat
      BY FileFacts DEF Stacking
    <3>2. f < group_idx \/ (f = group_idx /\ l <= stacked)
      BY <1>2, <1>3, <2>5, <3>1
    <3> QED BY <3>2 DEF StackPrinted
  <2>6. (\A f \in DOMAIN cmd.files : \A l \in 1..cmd.files[f].rows :
           f < group_idx \/ (f = group_idx /\ l <= stacked) =>
             RowIs(Output[Above(f) + l].cells, NamesOf(f), final_header, GroupColumns, f, l))'
    <3>1. \A f \in DOMAIN cmd.files : \A l \in 1..cmd.files[f].rows :
            f < group_idx' \/ (f = group_idx' /\ l <= stacked') =>
              RowIs(Output'[Above(f)' + l].cells, NamesOf(f)', final_header', GroupColumns', f, l)
      BY <1>1, <2>1, <2>2, <2>5
    <3> QED BY <1>1, <3>1 DEF RowIs
  <2> QED BY <2>4, <2>6 DEF StackPrinted
<1>7. RowReady'
  <2>1. TotalCols' = TotalCols /\ GroupColumns' = GroupColumns /\ TotalCols \in Nat
    BY <1>1, SameFiles, FinalHeaderFacts
  <2> PICK row : row = [i \in 1..TotalCols |-> EmptyCell]
    OBVIOUS
  <2>2. row = [i \in 1..TotalCols |-> row[i]] /\ \A i \in 1..TotalCols : row[i] = EmptyCell
    OBVIOUS
  <2>3. IsSeq(row) /\ Len(row) = TotalCols
    BY <2>1, <2>2, IsSeqFunction
  <2>4. stack_row' = row
    BY <1>1
  <2> QED BY <2>1, <2>2, <2>3, <2>4 DEF RowReady
<1> QED BY <1>1, <1>4, <1>5, <1>6, <1>7

\* A step that reads and prints nothing.
LEMMA NothingRead ==
  ASSUME cmd' = cmd, UNCHANGED stackVars, HeaderKnown, OnFile, StackPrinted,
         OutputIsSeq', Output' = Output
  PROVE  HeaderKnown' /\ OnFile' /\ StackPrinted' /\ (RowReady => RowReady')
<1>1. /\ final_header' = final_header /\ replace_vec' = replace_vec /\ replace_idx' = replace_idx
      /\ group_idx' = group_idx /\ stack_row' = stack_row /\ stacked' = stacked
  BY DEF stackVars
<1>2. /\ \A f : Above(f)' = Above(f) /\ NamesOf(f)' = NamesOf(f)
      /\ Above(group_idx)' = Above(group_idx) /\ NamesOf(group_idx)' = NamesOf(group_idx)
      /\ PlacesBefore(group_idx)' = PlacesBefore(group_idx)
      /\ TotalCols' = TotalCols /\ GroupColumns' = GroupColumns
      /\ FinalHeader' = FinalHeader /\ LaterNames' = LaterNames
  BY <1>1, SameFiles
<1>3. HeaderKnown'
  BY <1>1, <1>2 DEF HeaderKnown, FirstPlace
<1>4. OnFile'
  BY <1>1, <1>2 DEF OnFile
<1>5. RowReady => RowReady'
  BY <1>1, <1>2 DEF RowReady
<1>6. StackPrinted'
  <2>1. \A f \in DOMAIN cmd.files : \A l \in 1..cmd.files[f].rows :
          f < group_idx' \/ (f = group_idx' /\ l <= stacked') =>
            RowIs(Output'[Above(f)' + l].cells, NamesOf(f)', final_header', GroupColumns', f, l)
    BY <1>1, <1>2 DEF StackPrinted
  <2>2. (\A f \in DOMAIN cmd.files : \A l \in 1..cmd.files[f].rows :
           f < group_idx \/ (f = group_idx /\ l <= stacked) =>
             RowIs(Output[Above(f) + l].cells, NamesOf(f), final_header, GroupColumns, f, l))'
    BY <1>1, <2>1 DEF RowIs
  <2>3. (OutputIsSeq /\ Len(Output) = Above(group_idx) + stacked)'
    BY <1>1, <1>2 DEF StackPrinted
  <2> QED BY <2>2, <2>3 DEF StackPrinted
<1> QED BY <1>3, <1>4, <1>5, <1>6

LEMMA StackStep == StackInv /\ [StackNext]_<<toolVars, stackVars>> => StackInv'
<1> SUFFICES ASSUME StackInv, [StackNext]_<<toolVars, stackVars>> PROVE StackInv'
  OBVIOUS
<1>1. cmd' = cmd
  BY DEF toolVars, StackNext, StackRejected, StackStart, PutFirst, PutRest, PutOutside,
         StackLine, NextReader, StackEnd, Goto
<1> SUFFICES ASSUME cmd.tool = "stack", Regular, StackFiles
             PROVE  StackInv'
  <2>1. Regular' <=> Regular
    BY <1>1, SameFiles
  <2> QED BY <1>1, <2>1 DEF StackInv
<1>2. StackFiles'
  BY <1>1, SameFiles
<1>3. at \in {"stacking", "done"} =>
        /\ Stacking /\ HeaderKnown /\ OnFile /\ StackPrinted
        /\ group_idx > 1 => RowReady
  BY DEF StackInv, Stacking
<1>4. ASSUME at' \in {"stacking", "done"}, cmd.files # <<>>, HeaderKnown', OnFile', StackPrinted',
             group_idx' > 1 => RowReady',
             at' = "done" => held' = <<>> /\ group_idx' > Len(cmd.files)
      PROVE  StackInv'
  BY <1>1, <1>2, <1>4 DEF StackInv
<1>5. CASE StackRejected
  <2>1. at' = "failed" /\ out' = <<>> /\ held' = <<>>
    BY <1>5 DEF StackInv, StackRejected, Goto, Quiet
  <2> QED BY <1>2, <2>1 DEF StackInv
<1>6. CASE StackStart
  <2>1. out = <<>> /\ held = <<>> /\ group_idx = 1 /\ stacked = 0 /\ replace_idx = 0
    BY <1>6 DEF StackInv, StackStart
  <2>2. /\ at' = "stacking" /\ cmd.files # <<>> /\ group_idx' = 1
        /\ HeaderKnown' /\ OnFile' /\ StackPrinted'
    BY <1>6, <2>1, StackStarts
  <2> QED BY <1>4, <2>2
<1>7. CASE PutFirst
  <2>1. at = "stacking"
    BY <1>7 DEF PutFirst, RowToStack
  <2>2. HeaderKnown' /\ OnFile' /\ StackPrinted' /\ group_idx' = 1 /\ at' = "stacking"
    BY <1>3, <1>7, <2>1, PutFirstKeeps
  <2> QED BY <1>3, <1>4, <2>1, <2>2 DEF Stacking
<1>8. CASE PutRest
  <2>1. at = "stacking" /\ group_idx > 1
    BY <1>8 DEF PutRest, RowToStack
  <2>2. HeaderKnown' /\ OnFile' /\ StackPrinted' /\ RowReady' /\ at' = "stacking"
    BY <1>3, <1>8, <2>1, PutRestKeeps
  <2> QED BY <1>3, <1>4, <2>1, <2>2 DEF Stacking
<1>9. CASE PutOutside
  <2>1. at = "stacking" /\ group_idx > 1
    BY <1>9 DEF PutOutside, RowToStack
  <2> QED BY <1>3, <1>9, <2>1, NeverOutside
<1>10. CASE NextReader
  <2>1. at = "stacking"
    BY <1>10 DEF NextReader
  <2>2. HeaderKnown' /\ OnFile' /\ StackPrinted' /\ RowReady' /\ at' = "stacking"
    BY <1>3, <1>10, <2>1, NextReaderKeeps
  <2> QED BY <1>3, <1>4, <2>1, <2>2 DEF Stacking
<1>11. CASE StackEnd
  <2>1. /\ at = "stacking" /\ at' = "done" /\ Flush /\ UNCHANGED stackVars
        /\ group_idx > Len(cmd.files) /\ group_idx' = group_idx
    BY <1>11 DEF StackEnd, Goto, stackVars
  <2>2. OutputIsSeq' /\ Output' = Output /\ held' = <<>>
    BY <1>1, <1>3, <2>1, AllFlushed DEF StackPrinted
  <2>3. HeaderKnown' /\ OnFile' /\ StackPrinted' /\ (RowReady => RowReady')
    BY <1>1, <1>3, <2>1, <2>2, NothingRead
  <2> QED BY <1>3, <1>4, <2>1, <2>2, <2>3 DEF Stacking
<1>12. CASE UNCHANGED <<toolVars, stackVars>>
  <2>1. /\ at' = at /\ out' = out /\ held' = held /\ UNCHANGED stackVars
        /\ group_idx' = group_idx /\ stacked' = stacked /\ replace_idx' = replace_idx
    BY <1>12 DEF toolVars, stackVars
  <2>2. CASE at \in {"stacking", "done"}
    <3>1. OutputIsSeq' /\ Output' = Output
      BY <1>1, <1>3, <2>1, <2>2 DEF Output, OutputIsSeq, StackPrinted
    <3>2. HeaderKnown' /\ OnFile' /\ StackPrinted' /\ (RowReady => RowReady')
      BY <1>1, <1>3, <2>1, <2>2, <3>1, NothingRead
    <3>3. at' = "done" => held' = <<>> /\ group_idx' > Len(cmd.files)
      BY <2>1 DEF StackInv
    <3> QED BY <1>3, <1>4, <2>1, <2>2, <3>2, <3>3 DEF Stacking
  <2>3. CASE at \notin {"stacking", "done"}
    <3>1. /\ at \in {"start", "failed"} /\ out = <<>> /\ held = <<>>
          /\ at = "start" => group_idx = 1 /\ stacked = 0 /\ replace_idx = 0
      BY <2>3 DEF StackInv
    <3> QED BY <1>2, <2>1, <3>1 DEF StackInv
  <2> QED BY <2>2, <2>3
<1> QED BY <1>5, <1>6, <1>7, <1>8, <1>9, <1>10, <1>11, <1>12 DEF StackNext

\* What is printed so far is the header and, file by file, the rows.
LEMMA StackInvUnion == StackInv => StackUnion
<1> SUFFICES ASSUME StackInv, cmd.tool = "stack", Regular
             PROVE  /\ at # "undefined"
                    /\ at = "done" => Len(out) = Above(Len(cmd.files) + 1)
                    /\ \A f \in DOMAIN cmd.files : \A l \in 1..cmd.files[f].rows :
                         Above(f) + l \in DOMAIN Output => UnderItsNames(Output[Above(f) + l].cells, f, l)
  BY DEF StackUnion
<1>1. StackFiles /\ at \in {"start", "stacking", "done", "failed"}
  BY DEF StackInv
<1>2. Len(cmd.files) \in Nat /\ DOMAIN cmd.files = 1..Len(cmd.files)
  BY <1>1, FileFacts
<1>3. ASSUME at = "done" PROVE Len(out) = Above(Len(cmd.files) + 1)
  <2>1. OnFile /\ StackPrinted /\ held = <<>> /\ group_idx > Len(cmd.files)
    BY <1>3 DEF StackInv
  <2>2. group_idx = Len(cmd.files) + 1 /\ stacked = 0
    BY <1>2, <2>1 DEF OnFile
  <2>3. Output = out
    <3>1. IsSeq(out)
      BY <2>1 DEF StackPrinted, OutputIsSeq
    <3> QED BY <2>1, <3>1, ConcatEmpty DEF Output
  <2>4. Above(Len(cmd.files) + 1) \in Nat
    <3>1. Len(cmd.files) + 1 \in 1..(Len(cmd.files) + 1)
      BY <1>2
    <3> QED BY <1>1, <3>1, AboveFacts
  <2> QED BY <2>1, <2>2, <2>3, <2>4 DEF StackPrinted
<1>4. ASSUME NEW f \in DOMAIN cmd.files, NEW l \in 1..cmd.files[f].rows,
             Above(f) + l \in DOMAIN Output
      PROVE  UnderItsNames(Output[Above(f) + l].cells, f, l)
  <2>1. at \in {"stacking", "done"}
    <3> SUFFICES ASSUME at \notin {"stacking", "done"} PROVE FALSE
      OBVIOUS
    <3>1. out = <<>> /\ held = <<>>
      BY <1>1 DEF StackInv
    <3>2. <<>> \o <<>> = <<>> /\ DOMAIN <<>> = {}
      BY IsSeqEmpty, ConcatEmpty
    <3>3. DOMAIN Output = {}
      BY <3>1, <3>2 DEF Output
    <3> QED BY <1>4, <3>3
  <2>2. OnFile /\ StackPrinted
    BY <2>1 DEF StackInv
  <2>3. cmd.files[f].rows \in Nat /\ l \in Nat /\ l >= 1 /\ l <= cmd.files[f].rows
        /\ f \in 1..Len(cmd.files)
    BY <1>1, <1>2, FileFacts
  <2>4. Above(f) + l <= Above(group_idx) + stacked
    <3>1. IsSeq(Output)
      BY <2>2, IsSeqConcat DEF StackPrinted, OutputIsSeq, Output
    <3> QED BY <1>4, <2>2, <3>1, IsSeqFacts DEF StackPrinted
  <2>5. /\ \A g \in 1..(Len(cmd.files) + 1) : Above(g) \in Nat
        /\ \A g \in DOMAIN cmd.files : Above(g + 1) = Above(g) + cmd.files[g].rows
        /\ \A g, h \in 1..(Len(cmd.files) + 1) : g <= h => Above(g) <= Above(h)
    BY <1>1, AboveFacts
  <2>6. f < group_idx \/ (f = group_idx /\ l <= stacked)
    <3>1. group_idx \in 1..(Len(cmd.files) + 1) /\ f \in 1..(Len(cmd.files) + 1) /\ stacked \in Nat
      BY <1>2, <2>2, <2>3 DEF OnFile
    <3>2. CASE f < group_idx
      BY <3>2
    <3>3. CASE f = group_idx
      <4>1. Above(f) \in Nat
        BY <2>5, <3>1
      <4> QED BY <2>3, <2>4, <3>1, <3>3, <4>1
    <3>4. CASE f > group_idx
      <4>1. group_idx \in DOMAIN cmd.files /\ group_idx + 1 \in 1..(Len(cmd.files) + 1)
            /\ group_idx + 1 <= f
        BY <1>2, <2>3, <3>1, <3>4
      <4> PICK a : a = Above(f)
        OBVIOUS
      <4> PICK b : b = Above(group_idx)
        OBVIOUS
      <4> PICK r : r = cmd.files[group_idx].rows
        OBVIOUS
      <4>2. b + r <= a /\ a \in Nat /\ b \in Nat
        BY <2>5, <3>1, <4>1
      <4>3. r \in Nat /\ stacked <= r
        BY <1>1, <1>2, <2>2, <4>1, FileFacts DEF OnFile
      <4>4. a + l <= b + stacked
        BY <2>4
      <4>5. \A v, w, x, y, z \in Nat : ~(w + x <= v /\ z <= x /\ v + y <= w + z /\ y >= 1)
        OBVIOUS
      <4>6. stacked \in Nat /\ l \in Nat /\ l >= 1
        BY <2>3, <3>1
      <4> QED BY <4>2, <4>3, <4>4, <4>5, <4>6
    <3> QED BY <2>3, <3>1, <3>2, <3>3, <3>4
  <2> QED BY <2>2, <2>6, UnderNames DEF StackPrinted
<1> QED BY <1>1, <1>3, <1>4

\* csvStack prints every row of every file in its turn, each cell under the name it had
\* in its file, the group value in front, nothing under the names its file does not have
\* and nothing left over from the row or the file before (StackUnion).
THEOREM StackPutsUnderNames == StackSpec => []StackUnion
<1>1. ToolInit /\ StackInit => StackInv
  BY StackInitially
<1>2. StackInv /\ [StackNext]_<<toolVars, stackVars>> => StackInv'
  BY StackStep
<1>3. StackInv => StackUnion
  BY StackInvUnion
<1> QED BY <1>1, <1>2, <1>3, PTL DEF StackSpec

-------------------------------------------------------------------------------
(* Lines written together.                                                    *)

LEMMA LinesWritten ==
  ASSUME OutputIsSeq, NEW lines, IsSeq(lines), Write(lines), cmd' = cmd
  PROVE  OutputIsSeq' /\ IsSeq(Output) /\ Output' = Output \o lines
<1>1. IsSeq(out) /\ IsSeq(held) /\ (cmd.asap => held = <<>>)
  BY DEF OutputIsSeq
<1>2. IsSeq(Output)
  BY <1>1, IsSeqConcat DEF Output
<1>3. CASE cmd.asap
  <2>1. out' = out \o lines /\ held' = <<>> /\ held = <<>>
    BY <1>1, <1>3 DEF Write
  <2>2. IsSeq(out \o lines)
    BY <1>1, IsSeqConcat
  <2>3. Output' = out \o lines /\ Output = out
    BY <1>1, <2>1, <2>2, ConcatEmpty DEF Output
  <2> QED BY <1>2, <2>1, <2>2, <2>3, IsSeqEmpty DEF OutputIsSeq
<1>4. CASE ~cmd.asap
  <2>1. out' = out /\ held' = held \o lines
    BY <1>4 DEF Write
  <2>2. IsSeq(held \o lines)
    BY <1>1, IsSeqConcat
  <2>3. Output' = Output \o lines
    BY <1>1, <2>1, ConcatMore DEF Output
  <2> QED BY <1>1, <1>2, <1>4, <2>1, <2>2, <2>3 DEF OutputIsSeq
<1> QED BY <1>3, <1>4

LEMMA MinOfTwo == ASSUME NEW a \in Int, NEW b \in Int PROVE Min({a, b}) = IF a <= b THEN a ELSE b
BY DEF Min
LEMMA MaxOfTwo == ASSUME NEW a \in Int, NEW b \in Int PROVE Max({a, b}) = IF a >= b THEN a ELSE b
BY DEF Max

-------------------------------------------------------------------------------
(* csvLook: limits and lines.                                                 *)

LookSource ==
  /\ cmd.names \in Seq(Nat) /\ cmd.sizes \in Seq(Seq(Nat))
  /\ \A r \in DOMAIN cmd.sizes : Len(cmd.sizes[r]) = Len(cmd.names)
  /\ \A k \in DOMAIN cmd.names : cmd.name_bytes[k] \in Nat /\ cmd.name_bytes[k] >= cmd.names[k]
  /\ \A r \in DOMAIN cmd.sizes : \A k \in DOMAIN cmd.names :
       cmd.bytes[r][k] \in Nat /\ cmd.bytes[r][k] >= cmd.sizes[r][k]
  /\ cmd.max_rows \in Nat /\ cmd.max_columns \in Nat /\ cmd.max_column_width \in Nat

\* The rows to show, and the row of dots.
RowsShown == Min({Len(cmd.sizes), cmd.max_rows})
RowOfDots == IF Len(cmd.sizes) > cmd.max_rows THEN 1 ELSE 0

LEMMA LookSourceFacts ==
  ASSUME LookSource
  PROVE  /\ Len(cmd.names) \in Nat /\ Columns = 1..Len(cmd.names)
         /\ \A c \in Columns : cmd.names[c] \in Nat
         /\ \A c \in Columns : cmd.name_bytes[c] \in Nat /\ cmd.name_bytes[c] >= cmd.names[c]
         /\ Len(cmd.sizes) \in Nat
         /\ \A r \in 1..Len(cmd.sizes) : \A c \in Columns : cmd.sizes[r][c] \in Nat
         /\ \A r \in 1..Len(cmd.sizes) : \A c \in Columns :
              cmd.bytes[r][c] \in Nat /\ cmd.bytes[r][c] >= cmd.sizes[r][c]
<1>1. /\ Len(cmd.names) \in Nat /\ Columns = 1..Len(cmd.names)
      /\ \A c \in Columns : cmd.names[c] \in Nat
  BY DEF LookSource, Columns
<1>2. Len(cmd.sizes) \in Nat /\ DOMAIN cmd.sizes = 1..Len(cmd.sizes)
  BY LenProperties DEF LookSource
<1>3. ASSUME NEW r \in 1..Len(cmd.sizes), NEW c \in Columns PROVE cmd.sizes[r][c] \in Nat
  <2>1. cmd.sizes[r] \in Seq(Nat) /\ Len(cmd.sizes[r]) = Len(cmd.names)
    <3>1. r \in DOMAIN cmd.sizes
      BY <1>2
    <3>2. cmd.sizes \in Seq(Seq(Nat)) /\ Len(cmd.sizes[r]) = Len(cmd.names)
      BY <3>1 DEF LookSource
    <3> QED BY <3>2, ElementOfSeq
  <2> QED BY <1>1, <2>1
<1>4. \A c \in Columns : cmd.name_bytes[c] \in Nat /\ cmd.name_bytes[c] >= cmd.names[c]
  BY DEF LookSource, Columns
<1>5. \A r \in 1..Len(cmd.sizes) : \A c \in Columns :
        cmd.bytes[r][c] \in Nat /\ cmd.bytes[r][c] >= cmd.sizes[r][c]
  BY <1>2 DEF LookSource, Columns
<1> QED BY ONLY <1>1, <1>2, <1>3, <1>4, <1>5

LEMMA RowFacts ==
  ASSUME LookSource
  PROVE  /\ LookRows \in Nat /\ LookRows <= Len(cmd.sizes) /\ (LookRows = 0 <=> Len(cmd.sizes) = 0)
         /\ LookRows > cmd.max_rows <=> Len(cmd.sizes) > cmd.max_rows
         /\ LookRows <= cmd.max_rows => LookRows = Len(cmd.sizes)
         /\ RowsShown \in Nat /\ RowsShown <= cmd.max_rows /\ RowsShown <= LookRows
         /\ RowsShown = IF LookRows <= cmd.max_rows THEN LookRows ELSE cmd.max_rows
         /\ Min({LookRows, cmd.max_rows}) = RowsShown
<1> PICK n : n = Len(cmd.sizes)
  OBVIOUS
<1> PICK m : m = cmd.max_rows
  OBVIOUS
<1>1. n \in Nat /\ m \in Nat
  BY LookSourceFacts DEF LookSource
<1>2. Min({n, m + 1}) = (IF n <= m + 1 THEN n ELSE m + 1) /\ Min({n, m}) = IF n <= m THEN n ELSE m
  BY <1>1, MinOfTwo
<1>3. LookRows \in {n, IF n <= m + 1 THEN n ELSE m + 1}
  BY <1>2 DEF LookRows
<1>4. LookRows \in Nat /\ LookRows <= n /\ (n <= m + 1 => LookRows = n) /\ (n > m + 1 => LookRows >= m + 1)
  BY <1>1, <1>3
<1>5. Min({LookRows, m}) = IF LookRows <= m THEN LookRows ELSE m
  BY <1>1, <1>4, MinOfTwo
<1>6. RowsShown = IF n <= m THEN n ELSE m
  BY <1>2 DEF RowsShown
<1> QED BY <1>1, <1>4, <1>5, <1>6

\* The limits, as they are once the command has started.
LookLimits ==
  /\ cmd.max_column_width >= native_ellipsis_len /\ LookRows > 0
  /\ look_columns = Adjusted.columns /\ look_numbers = Adjusted.numbers
  /\ DOMAIN max_sizes = Columns
  /\ \A c \in Columns : max_sizes[c] \in Nat /\ max_sizes[c] <= cmd.max_column_width

Shift == IF look_numbers THEN 1 ELSE 0

LEMMA LimitFacts ==
  ASSUME LookSource, LookLimits
  PROVE  /\ look_columns \in Nat /\ Shift \in {0, 1} /\ (look_numbers <=> Shift = 1)
         /\ Shift = IF cmd.linenumbers /\ cmd.max_columns > 0 THEN 1 ELSE 0
         /\ look_columns + Shift = cmd.max_columns
         /\ Fitting = IF Len(cmd.names) <= look_columns THEN Len(cmd.names) ELSE look_columns
         /\ Fitting \in Nat /\ Fitting <= Len(cmd.names)
         /\ NumbersWidth \in Nat /\ NumbersWidth >= 3
<1>1. Len(cmd.names) \in Nat /\ cmd.max_columns \in Nat /\ cmd.max_column_width \in Nat
  BY LookSourceFacts DEF LookSource
<1>2. /\ look_columns \in Nat /\ Shift \in {0, 1} /\ (look_numbers <=> Shift = 1)
      /\ Shift = IF cmd.linenumbers /\ cmd.max_columns > 0 THEN 1 ELSE 0
      /\ look_columns + Shift = cmd.max_columns
  BY <1>1 DEF LookLimits, Adjusted, Shift
<1>3. Fitting = IF Len(cmd.names) <= look_columns THEN Len(cmd.names) ELSE look_columns
  BY <1>1, <1>2, MinOfTwo DEF Fitting
<1>4. NumbersWidth \in Nat /\ NumbersWidth >= 3
  BY <1>1, MinOfTwo DEF NumbersWidth, LookLimits, native_ellipsis_len, linenumbers_header_length
<1> QED BY <1>1, <1>2, <1>3, <1>4

LEMMA LineFacts ==
  ASSUME LookSource, LookLimits, NEW kind, NEW row, NEW number,
         NEW fields, IsSeq(fields), Len(fields) = Len(cmd.names),
         NEW l, l = Line(kind, row, number, fields)
  PROVE  /\ l.kind = kind /\ l.row = row /\ l.more = (Fitting # Len(cmd.names))
         /\ IsSeq(l.fields) /\ Len(l.fields) = Shift + Fitting
         /\ Shift = 1 => l.fields[1] = number
         /\ \A c \in 1..Fitting : l.fields[Shift + c] = fields[c]
<1>g. PICK g : g = (IF look_numbers THEN <<number>> ELSE <<>>)
  OBVIOUS
<1> PICK own : own = SubSeq(fields, 1, Fitting)
  OBVIOUS
<1>1. Fitting \in Nat /\ Fitting <= Len(fields) /\ Shift \in {0, 1} /\ (look_numbers <=> Shift = 1)
      /\ Len(fields) \in Nat
  BY LimitFacts, IsSeqFacts
<1>2. IsSeq(own) /\ Len(own) = Fitting /\ \A c \in 1..Fitting : own[c] = fields[c]
  BY <1>1, IsSeqPrefix
<1>3. IsSeq(g) /\ Len(g) = Shift /\ (Shift = 1 => g[1] = number)
  <2>1. <<number>> \in Seq({number}) /\ Len(<<number>>) = 1 /\ <<number>>[1] = number
    OBVIOUS
  <2>2. IsSeq(<<number>>)
    BY <2>1, SeqIsSeq
  <2> QED BY <1>1, <1>g, <2>1, <2>2, IsSeqEmpty
<1>4. l.kind = kind /\ l.row = row /\ l.more = (Fitting # Len(cmd.names)) /\ l.fields = g \o own
  BY <1>g DEF Line
<1>5. /\ IsSeq(g \o own) /\ Len(g \o own) = Shift + Fitting
      /\ \A i \in 1..Shift : (g \o own)[i] = g[i]
      /\ \A c \in 1..Fitting : (g \o own)[Shift + c] = own[c]
  <2>1. TwoJoined(g \o own, g, own)
    BY <1>2, <1>3, TwoJoinedFacts, Zenon
  <2>2. Len(g) = Shift /\ Len(own) = Fitting
    BY <1>2, <1>3
  <2> QED BY <2>1, <2>2 DEF TwoJoined
<1>6. Shift = 1 => (g \o own)[1] = number
  BY <1>3, <1>5
<1> QED BY <1>2, <1>4, <1>5, <1>6

\* A value, or dots, in a column of some width.
LEMMA DotsFacts ==
  ASSUME NEW w \in Nat
  PROVE  /\ Dots(w) \in Nat /\ Dots(w) >= 1
         /\ w > 0 => Max({w, Dots(w)}) = w
<1>1. Max({w, 1}) = IF w >= 1 THEN w ELSE 1
  BY MaxOfTwo
<1> PICK m : m = Max({w, 1})
  OBVIOUS
<1>2. m \in Nat /\ m >= 1 /\ (w > 0 => m = w) /\ Dots(w) = Min({m, 3})
  BY <1>1 DEF Dots, micro_ellipsis_len, native_ellipsis_len
<1>3. Dots(w) = IF m <= 3 THEN m ELSE 3
  BY <1>2, MinOfTwo
<1>4. Dots(w) \in Nat /\ Dots(w) >= 1 /\ (w > 0 => Dots(w) <= w)
  BY <1>2, <1>3
<1>6. Max({w, Dots(w)}) = IF w >= Dots(w) THEN w ELSE Dots(w)
  BY <1>4, MaxOfTwo
<1> QED BY <1>4, <1>6

LEMMA EllipsisFacts ==
  ASSUME NEW size \in Nat, NEW bytes \in Nat, bytes >= size, NEW w \in Nat
  PROVE  /\ Ellipsis(size, bytes, w).symbols = 0 /\ Ellipsis(size, bytes, w).dots > 0
         /\ w > 0 =>
              Ellipsis(size, bytes, w).width = w + (IF size < w THEN bytes - size ELSE 0)
<1> PICK e : e = Ellipsis(size, bytes, w)
  OBVIOUS
<1> PICK m : m = StreamWidth(size, bytes, w)
  OBVIOUS
<1>1. m = (IF size < w THEN w + bytes - size ELSE w)
  BY DEF StreamWidth
<1>2. m \in Nat /\ m = w + (IF size < w THEN bytes - size ELSE 0)
  BY ONLY <1>1, size \in Nat, bytes \in Nat, w \in Nat, bytes >= size
<1>3. w > 0 => m > 0
  BY ONLY <1>2, size \in Nat, bytes \in Nat, w \in Nat, bytes >= size
<1>4. e = [width |-> Max({m, Dots(m)}), symbols |-> 0, dots |-> Dots(m)]
  BY DEF Ellipsis, Field
<1>5. Dots(m) \in Nat /\ Dots(m) >= 1 /\ (m > 0 => Max({m, Dots(m)}) = m)
  BY ONLY <1>2, DotsFacts
<1>6. e.symbols = 0 /\ e.dots = Dots(m) /\ e.width = Max({m, Dots(m)})
  BY ONLY <1>4
<1>7. e.symbols = 0 /\ e.dots > 0
  BY ONLY <1>5, <1>6
<1>8. w > 0 => e.width = w + (IF size < w THEN bytes - size ELSE 0)
  BY ONLY <1>2, <1>3, <1>5, <1>6
<1> QED BY <1>7, <1>8

LEMMA PrintedFacts ==
  ASSUME NEW size \in Nat, NEW bytes \in Nat, bytes >= size, NEW w \in Nat,
         NEW e, e = Printed(size, bytes, w)
  PROVE  /\ e.width = w
         /\ e.symbols = IF size <= w THEN size ELSE w - native_ellipsis_len
         /\ e.dots = IF size <= w THEN 0 ELSE native_ellipsis_len
<1> PICK m : m = StreamWidth(size, bytes, w) - bytes
  OBVIOUS
<1>1. m = (IF size < w THEN w - size ELSE w - bytes) /\ m \in Int
  <2>1. m = (IF size < w THEN w + bytes - size ELSE w) - bytes
    BY DEF StreamWidth
  <2> QED BY ONLY <2>1, size \in Nat, bytes \in Nat, w \in Nat
<1>2. Max({m, 0}) = IF m >= 0 THEN m ELSE 0
  BY ONLY <1>1, MaxOfTwo
<1>3. size <= w => size + Max({m, 0}) = w
  BY ONLY <1>1, <1>2, size \in Nat, bytes \in Nat, w \in Nat, bytes >= size
<1>4. e = IF size <= w THEN [width |-> size + Max({m, 0}), symbols |-> size, dots |-> 0]
          ELSE [width |-> w, symbols |-> w - native_ellipsis_len, dots |-> native_ellipsis_len]
  BY DEF Printed, Field
<1> QED BY ONLY <1>3, <1>4

LEMMA LookPlaceFacts ==
  ASSUME NEW size \in Nat, NEW bytes \in Nat, bytes >= size, NEW w \in Nat, NEW row,
         NEW e, e = Place(size, bytes, w, row)
  PROVE  /\ w > 0 => e.width = w + (IF row = cmd.max_rows /\ size < w THEN bytes - size ELSE 0)
         /\ row = cmd.max_rows => e.symbols = 0 /\ e.dots > 0
         /\ row # cmd.max_rows =>
              /\ e.symbols = IF size <= w THEN size ELSE w - native_ellipsis_len
              /\ e.dots = IF size <= w THEN 0 ELSE native_ellipsis_len
<1>1. CASE row = cmd.max_rows
  <2>1. e = Ellipsis(size, bytes, w)
    BY <1>1 DEF Place
  <2>2. e.symbols = 0 /\ e.dots > 0
    BY ONLY <2>1, EllipsisFacts, size \in Nat, bytes \in Nat, w \in Nat, bytes >= size
  <2>3. w > 0 => Ellipsis(size, bytes, w).width = w + (IF size < w THEN bytes - size ELSE 0)
    BY ONLY EllipsisFacts, size \in Nat, bytes \in Nat, w \in Nat, bytes >= size
  <2> QED BY ONLY <1>1, <2>1, <2>2, <2>3
<1>2. CASE row # cmd.max_rows
  <2>1. e = Printed(size, bytes, w)
    BY <1>2 DEF Place
  <2>2. /\ e.width = w
        /\ e.symbols = IF size <= w THEN size ELSE w - native_ellipsis_len
        /\ e.dots = IF size <= w THEN 0 ELSE native_ellipsis_len
    BY ONLY <2>1, PrintedFacts, size \in Nat, bytes \in Nat, w \in Nat, bytes >= size
  <2> QED BY ONLY <1>2, <2>2, w \in Nat
<1> QED BY <1>1, <1>2

-------------------------------------------------------------------------------
(* csvLook: lines that are drawn alike.                                       *)

AlikeLine(drawn) ==
  /\ drawn.more = (Fitting # Len(cmd.names)) /\ IsSeq(drawn.fields)
  /\ Len(drawn.fields) = Shift + Fitting
  /\ Shift = 1 => drawn.fields[1].width = NumbersWidth
  /\ (\A c \in Columns : max_sizes[c] > 0) =>
       \A c \in 1..Fitting :
         drawn.fields[Shift + c].width - Excess(drawn.row, c) = max_sizes[c]

\* Only the row of dots has fields that are too wide.
LEMMA NoExcess ==
  ASSUME NEW row, row # cmd.max_rows + 1 \/ ~(cmd.max_rows > 0), NEW c
  PROVE  Excess(row, c) = 0
BY DEF Excess

LEMMA AlikeFacts ==
  ASSUME LookSource, LookLimits, NEW kind, NEW row, NEW number, number.width = NumbersWidth,
         NEW fields, IsSeq(fields), Len(fields) = Len(cmd.names),
         (\A c \in Columns : max_sizes[c] > 0) =>
            \A c \in 1..Fitting : fields[c].width - Excess(row, c) = max_sizes[c]
  PROVE  AlikeLine(Line(kind, row, number, fields))
<1> PICK l : l = Line(kind, row, number, fields)
  OBVIOUS
<1>1. /\ l.row = row /\ l.more = (Fitting # Len(cmd.names))
      /\ IsSeq(l.fields) /\ Len(l.fields) = Shift + Fitting
      /\ Shift = 1 => l.fields[1] = number
      /\ \A c \in 1..Fitting : l.fields[Shift + c] = fields[c]
  BY LineFacts
<1>2. Shift = 1 => l.fields[1].width = NumbersWidth
  BY <1>1
<1>3. (\A c \in Columns : max_sizes[c] > 0) =>
        \A c \in 1..Fitting : l.fields[Shift + c].width - Excess(l.row, c) = max_sizes[c]
  BY <1>1
<1>4. AlikeLine(l)
  BY ONLY <1>1, <1>2, <1>3 DEF AlikeLine
<1> QED BY <1>4

\* A column drawn is a column, of a width.
LEMMA WidthFacts ==
  ASSUME LookSource, LookLimits, NEW c \in 1..Fitting
  PROVE  c \in Columns /\ max_sizes[c] \in Nat
<1>1. c \in Columns
  BY LimitFacts, LookSourceFacts
<1> QED BY <1>1 DEF LookLimits

LEMMA NotTheDots ==
  ASSUME LookSource, NEW c
  PROVE  Excess(0, c) = 0
BY NoExcess DEF LookSource

LEMMA HeaderDrawn ==
  ASSUME LookSource, LookLimits
  PROVE  AlikeLine(Header) /\ Header.kind = "header"
<1> PICK fields : fields = [c \in Columns |-> Printed(cmd.names[c], cmd.name_bytes[c], max_sizes[c])]
  OBVIOUS
<1> PICK number : number = Printed(linenumbers_header_length, linenumbers_header_length, NumbersWidth)
  OBVIOUS
<1>1. number.width = NumbersWidth
  BY PrintedFacts, LimitFacts DEF linenumbers_header_length
<1>2. Columns = 1..Len(cmd.names) /\ Len(cmd.names) \in Nat
  BY LookSourceFacts
<1>3. IsSeq(fields) /\ Len(fields) = Len(cmd.names)
  <2>1. fields = [c \in 1..Len(cmd.names) |-> fields[c]]
    BY <1>2
  <2> QED BY <1>2, <2>1, IsSeqFunction
<1>4. ASSUME NEW c \in 1..Fitting PROVE fields[c].width - Excess(0, c) = max_sizes[c]
  <2> PICK size, bytes, w, e : /\ size = cmd.names[c] /\ bytes = cmd.name_bytes[c]
                               /\ w = max_sizes[c] /\ e = fields[c]
    OBVIOUS
  <2>1. c \in Columns /\ w \in Nat /\ Excess(0, c) = 0
    BY WidthFacts, NotTheDots
  <2>2. size \in Nat /\ bytes \in Nat /\ bytes >= size
    BY <2>1, LookSourceFacts
  <2>3. e = Printed(size, bytes, w)
    BY <2>1
  <2>4. e.width = w
    BY ONLY <2>1, <2>2, <2>3, PrintedFacts
  <2>5. w = max_sizes[c] /\ e = fields[c]
    OBVIOUS
  <2> QED BY ONLY <2>1, <2>4, <2>5
<1>5. Header = Line("header", 0, number, fields)
  BY DEF Header
<1>6. Header.kind = "header"
  BY <1>5 DEF Line
<1> QED BY <1>1, <1>3, <1>4, <1>5, <1>6, AlikeFacts

LEMMA RuleDrawn ==
  ASSUME LookSource, LookLimits
  PROVE  AlikeLine(Rule) /\ Rule.kind = "rule"
<1> PICK fields : fields = [c \in Columns |-> Field(Max({max_sizes[c], 1}), 0, 0)]
  OBVIOUS
<1> PICK number : number = Field(NumbersWidth, 0, 0)
  OBVIOUS
<1>1. number.width = NumbersWidth
  BY DEF Field
<1>2. Columns = 1..Len(cmd.names) /\ Len(cmd.names) \in Nat
  BY LookSourceFacts
<1>3. IsSeq(fields) /\ Len(fields) = Len(cmd.names)
  <2>1. fields = [c \in 1..Len(cmd.names) |-> fields[c]]
    BY <1>2
  <2> QED BY <1>2, <2>1, IsSeqFunction
<1>4. ASSUME \A c \in Columns : max_sizes[c] > 0
      PROVE  \A c \in 1..Fitting : fields[c].width - Excess(0, c) = max_sizes[c]
  <2> TAKE c \in 1..Fitting
  <2> PICK w, e : w = max_sizes[c] /\ e = fields[c]
    OBVIOUS
  <2>1. c \in Columns /\ w \in Nat /\ Excess(0, c) = 0
    BY WidthFacts, NotTheDots
  <2>2. e.width = Max({w, 1})
    BY <2>1 DEF Field
  <2>3. w >= 1
    BY <1>4, <2>1
  <2>4. Max({w, 1}) = w
    BY ONLY <2>1, <2>3, MaxOfTwo
  <2>5. w = max_sizes[c] /\ e = fields[c]
    OBVIOUS
  <2> QED BY ONLY <2>1, <2>2, <2>4, <2>5
<1>5. Rule = Line("rule", 0, number, fields)
  BY DEF Rule
<1>6. Rule.kind = "rule"
  BY <1>5 DEF Line
<1> QED BY <1>1, <1>3, <1>4, <1>5, <1>6, AlikeFacts

-------------------------------------------------------------------------------
(* csvLook: rows.                                                             *)

\* The cell in row k and column c, in the table.
CellDrawn(field, k, c) ==
  IF k <= RowsShown
  THEN <<field.symbols, field.dots>> =
         IF cmd.sizes[k][c] <= cmd.max_column_width THEN <<cmd.sizes[k][c], 0>>
         ELSE <<cmd.max_column_width - native_ellipsis_len, native_ellipsis_len>>
  ELSE field.symbols = 0 /\ field.dots > 0

\* A row is drawn, with so many columns before those of the source.
DrawnWith(drawn, k, drawn_rows, numbers) ==
  LET fields == drawn.fields
      shown(size) == IF size <= cmd.max_column_width THEN <<size, 0>>
                     ELSE <<cmd.max_column_width - native_ellipsis_len, native_ellipsis_len>>
  IN  /\ drawn.kind = "row" /\ drawn.row = k
      /\ Len(fields) = Min({Len(cmd.names) + numbers, cmd.max_columns})
      /\ drawn.more = (Len(cmd.names) + numbers > cmd.max_columns)
      /\ \A f \in (numbers + 1)..Len(fields) :
           IF k <= drawn_rows
           THEN <<fields[f].symbols, fields[f].dots>> = shown(cmd.sizes[k][f - numbers])
           ELSE fields[f].symbols = 0 /\ fields[f].dots > 0

LEMMA DrawnWithFacts ==
  ASSUME NEW drawn, NEW k, NEW drawn_rows
  PROVE  DrawnRow(drawn, k, drawn_rows) <=>
           DrawnWith(drawn, k, drawn_rows, IF cmd.linenumbers /\ cmd.max_columns > 0 THEN 1 ELSE 0)
BY ONLY DEF DrawnRow, DrawnWith

LEMMA RowDrawn ==
  ASSUME LookSource, LookLimits, NEW k, NEW number,
         NEW fields, IsSeq(fields), Len(fields) = Len(cmd.names),
         \A c \in 1..Fitting : CellDrawn(fields[c], k, c)
  PROVE  DrawnRow(Line("row", k, number, fields), k, RowsShown)
<1> PICK l : l = Line("row", k, number, fields)
  OBVIOUS
<1>1. /\ l.kind = "row" /\ l.row = k /\ l.more = (Fitting # Len(cmd.names))
      /\ IsSeq(l.fields) /\ Len(l.fields) = Shift + Fitting
      /\ \A c \in 1..Fitting : l.fields[Shift + c] = fields[c]
  BY LineFacts
<1>2. /\ look_columns \in Nat /\ Shift \in {0, 1}
      /\ look_columns + Shift = cmd.max_columns
      /\ Fitting = IF Len(cmd.names) <= look_columns THEN Len(cmd.names) ELSE look_columns
      /\ Fitting \in Nat /\ Fitting <= Len(cmd.names) /\ Len(cmd.names) \in Nat
  BY LimitFacts, LookSourceFacts
<1> PICK n : n = Len(cmd.names)
  OBVIOUS
<1>3. Len(l.fields) = Min({n + Shift, cmd.max_columns})
  <2>1. n + Shift \in Int /\ cmd.max_columns \in Int
    BY <1>2
  <2>2. Min({n + Shift, cmd.max_columns}) = IF n + Shift <= cmd.max_columns THEN n + Shift ELSE cmd.max_columns
    BY <2>1, MinOfTwo
  <2> QED BY <1>1, <1>2, <2>2
<1>4. l.more = (n + Shift > cmd.max_columns)
  BY <1>1, <1>2
<1>5. ASSUME NEW f \in (Shift + 1)..Len(l.fields) PROVE CellDrawn(l.fields[f], k, f - Shift)
  <2> PICK c : c = f - Shift
    OBVIOUS
  <2>1. c \in 1..Fitting /\ Shift + c = f
    BY <1>1, <1>2
  <2>2. l.fields[Shift + c] = fields[c]
    BY <1>1, <2>1
  <2> QED BY <2>1, <2>2
<1>6. Shift = IF cmd.linenumbers /\ cmd.max_columns > 0 THEN 1 ELSE 0
  BY LimitFacts
<1> HIDE DEF Shift
<1>7. \A f \in (Shift + 1)..Len(l.fields) :
        IF k <= RowsShown
        THEN <<l.fields[f].symbols, l.fields[f].dots>> =
               IF cmd.sizes[k][f - Shift] <= cmd.max_column_width THEN <<cmd.sizes[k][f - Shift], 0>>
               ELSE <<cmd.max_column_width - native_ellipsis_len, native_ellipsis_len>>
        ELSE l.fields[f].symbols = 0 /\ l.fields[f].dots > 0
  BY <1>5 DEF CellDrawn
<1>8. l.kind = "row" /\ l.row = k
  BY <1>1
<1>9. n = Len(cmd.names)
  OBVIOUS
<1>10. DrawnWith(l, k, RowsShown, Shift)
  BY ONLY <1>3, <1>4, <1>7, <1>8, <1>9 DEF DrawnWith
<1>11. DrawnRow(l, k, RowsShown)
  BY ONLY <1>6, <1>10, DrawnWithFacts
<1>12. l = Line("row", k, number, fields)
  OBVIOUS
<1> QED BY ONLY <1>11, <1>12

\* Rows measured are wide enough for their cells, or as wide as a column may be.
Wide(n) ==
  \A r \in 1..n : \A c \in Columns :
    max_sizes[c] >= cmd.sizes[r][c] \/ max_sizes[c] >= cmd.max_column_width

LEMMA RowLineDrawn ==
  ASSUME LookSource, LookLimits, NEW row \in Nat, row < LookRows, row <= cmd.max_rows,
         look_columns > 0 => Wide(RowsShown) /\ cmd.max_rows > 0
  PROVE  AlikeLine(RowLine(row)) /\ DrawnRow(RowLine(row), row + 1, RowsShown)
<1> PICK fields : fields = [c \in Columns |->
                     Place(cmd.sizes[row + 1][c], cmd.bytes[row + 1][c], max_sizes[c], row)]
  OBVIOUS
<1> PICK number : number = Place(1, 1, NumbersWidth, row)
  OBVIOUS
<1>1. number.width = NumbersWidth
  <2> PICK w : w = NumbersWidth
    OBVIOUS
  <2>1. 1 \in Nat /\ 1 >= 1 /\ w \in Nat /\ w > 0
    BY LimitFacts
  <2>2. number.width = w + (IF row = cmd.max_rows /\ 1 < w THEN 1 - 1 ELSE 0)
    BY <2>1, LookPlaceFacts
  <2> QED BY <2>1, <2>2
<1>2. Columns = 1..Len(cmd.names) /\ Len(cmd.names) \in Nat
  BY LookSourceFacts
<1>3. IsSeq(fields) /\ Len(fields) = Len(cmd.names)
  <2>1. fields = [c \in 1..Len(cmd.names) |-> fields[c]]
    BY <1>2
  <2> QED BY <1>2, <2>1, IsSeqFunction
<1>4. row + 1 \in 1..Len(cmd.sizes) /\ (row + 1 <= RowsShown <=> row # cmd.max_rows)
  BY RowFacts, LookSourceFacts DEF LookSource
<1>5. ASSUME NEW c \in Columns
      PROVE  /\ cmd.sizes[row + 1][c] \in Nat /\ max_sizes[c] \in Nat
             /\ cmd.bytes[row + 1][c] \in Nat /\ cmd.bytes[row + 1][c] >= cmd.sizes[row + 1][c]
             /\ max_sizes[c] <= cmd.max_column_width /\ cmd.max_column_width \in Nat
             /\ fields[c] = Place(cmd.sizes[row + 1][c], cmd.bytes[row + 1][c], max_sizes[c], row)
  BY <1>4, LookSourceFacts DEF LookLimits, LookSource
<1>6. ASSUME \A c \in Columns : max_sizes[c] > 0
      PROVE  \A c \in 1..Fitting : fields[c].width - Excess(row + 1, c) = max_sizes[c]
  <2> TAKE c \in 1..Fitting
  <2> PICK size, bytes, w, e : /\ size = cmd.sizes[row + 1][c] /\ bytes = cmd.bytes[row + 1][c]
                               /\ w = max_sizes[c] /\ e = fields[c]
    OBVIOUS
  <2>1. c \in Columns
    BY <1>2, LimitFacts
  <2>f. cmd.max_rows > 0
    BY LimitFacts
  <2>2. /\ size \in Nat /\ bytes \in Nat /\ bytes >= size /\ w \in Nat /\ w > 0
        /\ e = Place(size, bytes, w, row)
    BY <1>5, <1>6, <2>1
  <2>3. e.width = w + (IF row = cmd.max_rows /\ size < w THEN bytes - size ELSE 0)
    BY ONLY <2>2, LookPlaceFacts
  <2>4. Excess(row + 1, c) =
          IF cmd.max_rows > 0 /\ row + 1 = cmd.max_rows + 1 /\ size < w THEN bytes - size ELSE 0
    BY DEF Excess
  <2>5. row = cmd.max_rows <=> cmd.max_rows > 0 /\ row + 1 = cmd.max_rows + 1
    <3>1. cmd.max_rows \in Nat /\ cmd.max_rows > 0
      BY <2>f DEF LookSource
    <3> QED BY <3>1
  <2>6. w = max_sizes[c] /\ e = fields[c]
    OBVIOUS
  <2>7. Excess(row + 1, c) = IF row = cmd.max_rows /\ size < w THEN bytes - size ELSE 0
    BY ONLY <2>4, <2>5
  <2>8. e.width - Excess(row + 1, c) = w
    BY ONLY <2>2, <2>3, <2>7
  <2> QED BY ONLY <2>6, <2>8
<1>7. ASSUME NEW c \in 1..Fitting PROVE CellDrawn(fields[c], row + 1, c)
  <2>1. c \in Columns /\ look_columns > 0
    BY <1>2, LimitFacts
  <2> PICK size : size = cmd.sizes[row + 1][c]
    OBVIOUS
  <2> PICK w, bytes : w = max_sizes[c] /\ bytes = cmd.bytes[row + 1][c]
    OBVIOUS
  <2>2. size \in Nat /\ w \in Nat /\ w <= cmd.max_column_width /\ cmd.max_column_width \in Nat
        /\ bytes \in Nat /\ bytes >= size /\ fields[c] = Place(size, bytes, w, row)
    BY <1>5, <2>1
  <2>3. CASE row = cmd.max_rows
    <3>1. fields[c].symbols = 0 /\ fields[c].dots > 0
      BY <2>2, <2>3, LookPlaceFacts
    <3> QED BY <1>4, <2>3, <3>1 DEF CellDrawn
  <2>4. CASE row # cmd.max_rows
    <3>1. /\ fields[c].symbols = IF size <= w THEN size ELSE w - native_ellipsis_len
          /\ fields[c].dots = IF size <= w THEN 0 ELSE native_ellipsis_len
      BY <2>2, <2>4, LookPlaceFacts
    <3>2. w >= size \/ w >= cmd.max_column_width
      <4>1. row + 1 \in 1..RowsShown
        BY <1>4, <2>4, RowFacts
      <4> QED BY <2>1, <4>1 DEF Wide
    <3>3. <<fields[c].symbols, fields[c].dots>> =
            IF size <= cmd.max_column_width THEN <<size, 0>>
            ELSE <<cmd.max_column_width - native_ellipsis_len, native_ellipsis_len>>
      <4>1. CASE size <= w
        BY <2>2, <3>1, <4>1
      <4>2. CASE ~(size <= w)
        <5>1. w = cmd.max_column_width /\ ~(size <= cmd.max_column_width)
          BY <2>2, <3>2, <4>2
        <5> QED BY <3>1, <4>2, <5>1
      <4> QED BY <4>1, <4>2
    <3> QED BY <1>4, <2>4, <3>3 DEF CellDrawn
  <2> QED BY <2>3, <2>4
<1>8. RowLine(row) = Line("row", row + 1, number, fields)
  BY DEF RowLine
<1>9. AlikeLine(RowLine(row))
  <2>k. PICK k : k = row + 1
    OBVIOUS
  <2>1. LookSource /\ LookLimits
    OBVIOUS
  <2>2. AlikeLine(Line("row", k, number, fields))
    <3>1. (\A c \in Columns : max_sizes[c] > 0) =>
            \A c \in 1..Fitting : fields[c].width - Excess(k, c) = max_sizes[c]
      BY ONLY <1>6, <2>k
    <3> QED BY ONLY <1>1, <1>3, <2>1, <3>1, AlikeFacts
  <2> QED BY ONLY <1>8, <2>k, <2>2
<1>10. DrawnRow(RowLine(row), row + 1, RowsShown)
  <2>k. PICK k : k = row + 1
    OBVIOUS
  <2>1. \A c \in 1..Fitting : CellDrawn(fields[c], k, c)
    BY ONLY <1>7, <2>k
  <2>2. LookSource /\ LookLimits
    OBVIOUS
  <2>3. DrawnRow(Line("row", k, number, fields), k, RowsShown)
    BY ONLY <1>3, <2>1, <2>2, RowDrawn
  <2> QED BY ONLY <1>8, <2>k, <2>3
<1> QED BY <1>9, <1>10

LEMMA DottedLineDrawn ==
  ASSUME LookSource, LookLimits, look_row \in Nat, RowsShown < look_row + 1,
         look_columns = 0 \/ cmd.max_rows = 0
  PROVE  AlikeLine(DottedLine) /\ DrawnRow(DottedLine, look_row + 1, RowsShown)
<1> DEFINE dots(w) == IF w >= native_ellipsis_len THEN native_ellipsis_len
                      ELSE IF w = 1 THEN micro_ellipsis_len ELSE mini_ellipsis_len
           dotted(w) == Field(Max({w, dots(w)}), 0, dots(w))
<1> PICK fields : fields = [c \in Columns |-> dotted(max_sizes[c])]
  OBVIOUS
<1> PICK number : number = dotted(NumbersWidth)
  OBVIOUS
<1>1. ASSUME NEW w \in Nat
      PROVE  dotted(w).symbols = 0 /\ dotted(w).dots > 0 /\ (w > 0 => dotted(w).width = w)
  <2>1. dots(w) \in Nat /\ dots(w) > 0 /\ (w > 0 => dots(w) <= w)
    BY DEF native_ellipsis_len, micro_ellipsis_len, mini_ellipsis_len
  <2>2. dotted(w).symbols = 0 /\ dotted(w).dots = dots(w) /\ dotted(w).width = Max({w, dots(w)})
    BY DEF Field
  <2> HIDE DEF dots, dotted
  <2>3. Max({w, dots(w)}) = IF w >= dots(w) THEN w ELSE dots(w)
    BY <2>1, MaxOfTwo
  <2> QED BY <2>1, <2>2, <2>3
<1>2. DottedLine = Line("row", look_row + 1, number, fields)
  BY DEF DottedLine
<1> HIDE DEF dotted
<1>3. number.width = NumbersWidth
  BY <1>1, LimitFacts
<1>4. Columns = 1..Len(cmd.names) /\ Len(cmd.names) \in Nat
  BY LookSourceFacts
<1>5. IsSeq(fields) /\ Len(fields) = Len(cmd.names)
  <2>1. fields = [c \in 1..Len(cmd.names) |-> fields[c]]
    BY <1>4
  <2> QED BY <1>4, <2>1, IsSeqFunction
<1>6. ASSUME NEW c \in Columns
      PROVE  /\ fields[c].symbols = 0 /\ fields[c].dots > 0
             /\ max_sizes[c] > 0 => fields[c].width = max_sizes[c]
  <2>1. fields[c] = dotted(max_sizes[c]) /\ max_sizes[c] \in Nat
    BY DEF LookLimits
  <2> QED BY <1>1, <2>1
<1>7. ASSUME NEW c \in 1..Fitting PROVE CellDrawn(fields[c], look_row + 1, c)
  <2>1. c \in Columns
    BY <1>4, LimitFacts
  <2>2. ~(look_row + 1 <= RowsShown)
    BY RowFacts
  <2> QED BY <1>6, <2>1, <2>2 DEF CellDrawn
<1>8. AlikeLine(DottedLine)
  <2>k. PICK k : k = look_row + 1
    OBVIOUS
  <2>1. ASSUME \A c \in Columns : max_sizes[c] > 0, NEW c \in 1..Fitting
        PROVE  fields[c].width - Excess(k, c) = max_sizes[c]
    <3>1. c \in Columns /\ max_sizes[c] \in Nat
      BY WidthFacts
    <3>2. fields[c].width = max_sizes[c]
      BY <1>6, <2>1, <3>1
    <3>3. cmd.max_rows = 0
      BY <1>4, LimitFacts
    <3>4. Excess(k, c) = 0
      BY <3>3, NoExcess
    <3> QED BY ONLY <3>1, <3>2, <3>4
  <2>2. LookSource /\ LookLimits
    OBVIOUS
  <2>3. AlikeLine(Line("row", k, number, fields))
    BY ONLY <1>3, <1>5, <2>1, <2>2, AlikeFacts
  <2> QED BY ONLY <1>2, <2>k, <2>3
<1>9. DrawnRow(DottedLine, look_row + 1, RowsShown)
  BY <1>2, <1>5, <1>7, RowDrawn
<1> QED BY <1>8, <1>9

-------------------------------------------------------------------------------
(* csvLook: the inductive invariant.                                          *)

\* The table so far: its header, the rule and n rows.
Drawn(n) ==
  /\ Len(Output) = 2 + n
  /\ Output[1].kind = "header" /\ Output[2].kind = "rule"
  /\ AlikeLine(Output[1]) /\ AlikeLine(Output[2])
  /\ \A k \in 1..n : AlikeLine(Output[k + 2]) /\ DrawnRow(Output[k + 2], k, RowsShown)

BeforeLook == {"start", "rejected", "failed"}
TableStarted == {"drawing", "counting", "dotting", "drawn", "done"}

LookPlace ==
  /\ at = "measuring" => look_columns > 0 /\ look_row < RowsShown /\ Wide(look_row)
  /\ at # "measuring" => (look_columns > 0 => Wide(RowsShown))
  /\ at = "heading" => look_row = 0
  /\ at = "drawing" =>
       /\ look_columns > 0 /\ cmd.max_rows > 0
       /\ look_row < LookRows /\ look_row <= cmd.max_rows /\ Drawn(look_row)
  /\ at = "counting" => look_columns = 0 /\ look_row <= RowsShown /\ Drawn(look_row)
  /\ at = "dotting" => cmd.max_rows = 0 /\ look_row = 0 /\ Drawn(0)
  /\ at \in {"drawn", "done"} => Drawn(RowsShown + RowOfDots)

LookInv ==
  cmd.tool = "look" =>
    /\ LookSource /\ OutputIsSeq /\ look_row \in Nat
    /\ at \in BeforeLook \cup {"measuring", "heading"} \cup TableStarted
    /\ at \in BeforeLook \cup {"measuring", "heading"} => out = <<>> /\ held = <<>>
    /\ at = "start" => look_row = 0
    /\ at \notin BeforeLook => LookLimits /\ LookPlace
    /\ at = "done" => held = <<>>

LEMMA SameTable ==
  ASSUME cmd' = cmd, look_columns' = look_columns, look_numbers' = look_numbers,
         max_sizes' = max_sizes
  PROVE  /\ LookSource' <=> LookSource
         /\ LookRows' = LookRows /\ RowsShown' = RowsShown /\ RowOfDots' = RowOfDots
         /\ LookLimits' <=> LookLimits
         /\ \A n : Wide(n)' <=> Wide(n)
         /\ \A l : AlikeLine(l)' <=> AlikeLine(l)
         /\ \A l, k, r : DrawnRow(l, k, r)' <=> DrawnRow(l, k, r)
<1>1. LookSource' <=> LookSource
  BY DEF LookSource
<1>2. LookRows' = LookRows /\ RowsShown' = RowsShown /\ RowOfDots' = RowOfDots
  BY DEF LookRows, RowsShown, RowOfDots
<1>3. LookLimits' <=> LookLimits
  BY <1>2 DEF LookLimits, Adjusted, Columns
<1>4. \A n : Wide(n)' <=> Wide(n)
  BY DEF Wide, Columns
<1>5. \A l : AlikeLine(l)' <=> AlikeLine(l)
  BY DEF AlikeLine, Fitting, Shift, NumbersWidth, Columns, Excess
<1>6. \A l, k, r : DrawnRow(l, k, r)' <=> DrawnRow(l, k, r)
  BY DEF DrawnRow
<1> QED BY <1>1, <1>2, <1>3, <1>4, <1>5, <1>6

LEMMA RowAddedToTable ==
  ASSUME OutputIsSeq, NEW n \in Nat, Drawn(n), NEW x, AlikeLine(x), DrawnRow(x, n + 1, RowsShown),
         Write(<<x>>), cmd' = cmd, look_columns' = look_columns, look_numbers' = look_numbers,
         max_sizes' = max_sizes
  PROVE  OutputIsSeq' /\ Drawn(n + 1)'
<1> PICK o : o = Output
  OBVIOUS
<1> PICK p : p = Output'
  OBVIOUS
<1>1. /\ OutputIsSeq' /\ Len(o) = 2 + n /\ Len(p) = (2 + n) + 1
      /\ \A k \in 1..(2 + n) : p[k] = o[k]
      /\ p[(2 + n) + 1] = x
  <2>1. Len(o) = 2 + n
    BY DEF Drawn
  <2> QED BY <2>1, LineAdded
<1>2. RowsShown' = RowsShown
  BY SameTable
<1>3. /\ Len(p) = 2 + (n + 1) /\ p[1] = o[1] /\ p[2] = o[2]
      /\ \A k \in 1..n : p[k + 2] = o[k + 2]
      /\ p[(n + 1) + 2] = x
  BY <1>1
<1>4. p[1].kind = "header" /\ p[2].kind = "rule" /\ AlikeLine(p[1]) /\ AlikeLine(p[2])
  BY <1>3 DEF Drawn
<1>5. ASSUME NEW k \in 1..(n + 1)
      PROVE  AlikeLine(p[k + 2]) /\ DrawnRow(p[k + 2], k, RowsShown)
  <2>1. CASE k \in 1..n
    BY <1>3, <2>1 DEF Drawn
  <2>2. CASE k = n + 1
    BY <1>3, <2>2
  <2> QED BY <2>1, <2>2
<1>6. /\ AlikeLine(p[1])' /\ AlikeLine(p[2])'
      /\ \A k \in 1..(n + 1) : AlikeLine(p[k + 2])' /\ DrawnRow(p[k + 2], k, RowsShown)'
  <2>1. \A l : AlikeLine(l) => AlikeLine(l)'
    BY SameTable
  <2>2. \A l, k : DrawnRow(l, k, RowsShown) => DrawnRow(l, k, RowsShown)'
    <3> SUFFICES ASSUME NEW l, NEW k, DrawnRow(l, k, RowsShown) PROVE DrawnRow(l, k, RowsShown)'
      OBVIOUS
    <3> QED BY <1>2 DEF DrawnRow
  <2> QED BY <1>4, <1>5, <2>1, <2>2
<1> QED BY <1>1, <1>3, <1>4, <1>6 DEF Drawn

-------------------------------------------------------------------------------
(* csvLook: the steps.                                                        *)

LEMMA LookInitially == ToolInit /\ LookInit => LookInv
<1> SUFFICES ASSUME ToolInit, LookInit, cmd.tool = "look" PROVE LookInv
  BY DEF LookInv
<1>1. LookSource
  BY LookAssumption DEF ToolInit, LookSource
<1>2. OutputIsSeq
  BY IsSeqEmpty DEF ToolInit, OutputIsSeq
<1> QED BY <1>1, <1>2 DEF LookInv, ToolInit, LookInit, BeforeLook, TableStarted

LEMMA LookStarts ==
  ASSUME LookSource, look_row = 0, LookStart, LookRows # 0
  PROVE  (LookLimits /\ LookPlace)' /\ at' \in {"measuring", "heading"}
<1>1. /\ cmd' = cmd /\ look_row' = 0 /\ cmd.max_column_width >= native_ellipsis_len
      /\ look_columns' = Adjusted.columns /\ look_numbers' = Adjusted.numbers
      /\ max_sizes' = [c \in Columns |-> Min({cmd.max_column_width, cmd.names[c]})]
      /\ at' = IF cmd.max_rows > 0 /\ look_columns' > 0 THEN "measuring" ELSE "heading"
  BY DEF LookStart, Goto
<1>2. /\ LookRows \in Nat /\ LookRows > 0 /\ LookRows' = LookRows /\ RowsShown' = RowsShown
      /\ RowsShown = IF LookRows <= cmd.max_rows THEN LookRows ELSE cmd.max_rows
      /\ cmd.max_rows \in Nat /\ cmd.max_column_width \in Nat
  <2>1. LookRows' = LookRows /\ RowsShown' = RowsShown
    BY <1>1 DEF LookRows, RowsShown
  <2> QED BY <2>1, RowFacts DEF LookSource
<1>3. Adjusted' = Adjusted /\ Columns' = Columns
  BY <1>1 DEF Adjusted, Columns
<1>4. \A c \in Columns : max_sizes'[c] \in Nat /\ max_sizes'[c] <= cmd.max_column_width
  <2> TAKE c \in Columns
  <2>1. cmd.names[c] \in Nat
    BY LookSourceFacts
  <2>2. max_sizes'[c] = IF cmd.max_column_width <= cmd.names[c] THEN cmd.max_column_width ELSE cmd.names[c]
    BY <1>1, <1>2, <2>1, MinOfTwo
  <2> QED BY <1>2, <2>1, <2>2
<1>5. LookLimits'
  BY <1>1, <1>2, <1>3, <1>4 DEF LookLimits
<1>6. Wide(0)'
  BY DEF Wide
<1>7. Adjusted.columns \in Nat
  BY DEF Adjusted, LookSource
<1>8. LookPlace'
  <2>1. CASE at' = "measuring"
    <3>1. look_columns' > 0 /\ cmd.max_rows > 0
      BY <1>1, <2>1
    <3> QED BY <1>1, <1>2, <1>6, <2>1, <3>1 DEF LookPlace
  <2>2. CASE at' = "heading"
    <3>1. look_columns' > 0 => RowsShown' = 0
      BY <1>1, <1>2, <2>2
    <3>2. look_columns' > 0 => Wide(RowsShown)'
      BY <3>1, <1>6 DEF Wide
    <3> QED BY <1>1, <2>2, <3>2 DEF LookPlace
  <2> QED BY <1>1, <2>1, <2>2
<1> QED BY <1>1, <1>5, <1>8

LEMMA WidenedFacts ==
  ASSUME NEW w \in Nat, NEW size \in Nat, w <= cmd.max_column_width, cmd.max_column_width \in Nat,
         cmd.max_column_width >= 3
  PROVE  /\ Widened(w, size) \in Nat /\ Widened(w, size) <= cmd.max_column_width
         /\ w <= Widened(w, size)
         /\ Widened(w, size) >= size \/ Widened(w, size) >= cmd.max_column_width
<1> PICK m : m = cmd.max_column_width
  OBVIOUS
<1> PICK a : a = Max({w, size})
  OBVIOUS
<1> PICK b : b = Min({a, m})
  OBVIOUS
<1>1. a = IF w >= size THEN w ELSE size
  BY MaxOfTwo
<1>2. a \in Nat /\ w <= a /\ size <= a
  BY <1>1
<1>3. b = IF a <= m THEN a ELSE m
  BY <1>2, MinOfTwo
<1>4. b \in Nat /\ b <= m /\ w <= b /\ (b >= size \/ b >= m)
  BY <1>2, <1>3
<1>5. Widened(w, size) = Max({b, 1})
  BY DEF Widened, micro_ellipsis_len
<1>6. Max({b, 1}) = IF b >= 1 THEN b ELSE 1
  <2>1. b \in Int /\ 1 \in Int
    BY <1>4
  <2> QED BY <2>1, MaxOfTwo, Zenon
<1> QED BY <1>4, <1>5, <1>6

LEMMA MeasureKeeps ==
  ASSUME LookSource, LookLimits, LookPlace, look_row \in Nat, LookMeasure
  PROVE  (LookLimits /\ LookPlace)' /\ at' \in {"measuring", "heading"} /\ look_row' \in Nat
<1>1. /\ cmd' = cmd /\ look_columns' = look_columns /\ look_numbers' = look_numbers
      /\ at = "measuring"
      /\ max_sizes' = [c \in Columns |-> Widened(max_sizes[c], cmd.sizes[look_row + 1][c])]
      /\ look_row + 1 \in {cmd.max_rows, LookRows} => look_row' = 0 /\ at' = "heading"
      /\ look_row + 1 \notin {cmd.max_rows, LookRows} => look_row' = look_row + 1 /\ at' = "measuring"
  BY DEF LookMeasure, Goto
<1>2. look_columns > 0 /\ look_row < RowsShown /\ Wide(look_row)
  BY <1>1 DEF LookPlace
<1>3. /\ LookRows \in Nat /\ LookRows' = LookRows /\ RowsShown' = RowsShown
      /\ RowsShown = IF LookRows <= cmd.max_rows THEN LookRows ELSE cmd.max_rows
      /\ cmd.max_rows \in Nat /\ cmd.max_column_width \in Nat
      /\ LookRows <= Len(cmd.sizes) /\ Len(cmd.sizes) \in Nat
  <2>1. LookRows' = LookRows /\ RowsShown' = RowsShown
    BY <1>1 DEF LookRows, RowsShown
  <2> QED BY <2>1, RowFacts, LookSourceFacts DEF LookSource
<1>4. look_row + 1 \in 1..Len(cmd.sizes)
  BY <1>2, <1>3
<1>5. Adjusted' = Adjusted /\ Columns' = Columns
  BY <1>1 DEF Adjusted, Columns
<1>6. ASSUME NEW c \in Columns
      PROVE  /\ max_sizes'[c] \in Nat /\ max_sizes'[c] <= cmd.max_column_width
             /\ max_sizes[c] <= max_sizes'[c]
             /\ \/ max_sizes'[c] >= cmd.sizes[look_row + 1][c]
                \/ max_sizes'[c] >= cmd.max_column_width
             /\ max_sizes[c] \in Nat
  <2>1. cmd.sizes[look_row + 1][c] \in Nat
    BY <1>4, LookSourceFacts
  <2>2. max_sizes[c] \in Nat /\ max_sizes[c] <= cmd.max_column_width /\ cmd.max_column_width >= 3
    BY DEF LookLimits, native_ellipsis_len
  <2>3. max_sizes'[c] = Widened(max_sizes[c], cmd.sizes[look_row + 1][c])
    BY <1>1
  <2>4. PICK w, size : w = max_sizes[c] /\ size = cmd.sizes[look_row + 1][c]
    OBVIOUS
  <2>5. w \in Nat /\ size \in Nat /\ w <= cmd.max_column_width /\ cmd.max_column_width >= 3
        /\ cmd.max_column_width \in Nat
    BY ONLY <1>3, <2>1, <2>2, <2>4
  <2>6. /\ Widened(w, size) \in Nat /\ Widened(w, size) <= cmd.max_column_width
        /\ w <= Widened(w, size)
        /\ Widened(w, size) >= size \/ Widened(w, size) >= cmd.max_column_width
    BY ONLY <2>5, WidenedFacts
  <2> QED BY ONLY <2>2, <2>3, <2>4, <2>6
<1>7. LookLimits'
  <2>1. LookRows > 0 /\ cmd.max_column_width >= native_ellipsis_len
        /\ look_columns = Adjusted.columns /\ look_numbers = Adjusted.numbers
    BY DEF LookLimits
  <2>2. DOMAIN max_sizes' = Columns
    BY <1>1
  <2> QED BY <1>1, <1>3, <1>5, <1>6, <2>1, <2>2 DEF LookLimits
<1> PICK n : n = look_row + 1
  OBVIOUS
<1>8. Wide(n)'
  <2> SUFFICES ASSUME NEW r \in 1..n, NEW c \in Columns
               PROVE  max_sizes'[c] >= cmd.sizes[r][c] \/ max_sizes'[c] >= cmd.max_column_width
    BY <1>1, <1>5 DEF Wide
  <2>1. CASE r = look_row + 1
    BY <1>6, <2>1
  <2>2. CASE r # look_row + 1
    <3>1. r \in 1..look_row /\ r \in 1..Len(cmd.sizes)
      BY <1>4, <2>2
    <3>2. max_sizes[c] >= cmd.sizes[r][c] \/ max_sizes[c] >= cmd.max_column_width
      BY <1>2, <3>1 DEF Wide
    <3>3. cmd.sizes[r][c] \in Nat
      BY <3>1, LookSourceFacts
    <3> QED BY <1>3, <1>6, <3>2, <3>3
  <2> QED BY <2>1, <2>2
<1>9. CASE look_row + 1 \in {cmd.max_rows, LookRows}
  <2>1. look_row' = 0 /\ at' = "heading" /\ n = RowsShown
    BY <1>1, <1>2, <1>3, <1>9
  <2>2. Wide(RowsShown)'
    BY <1>3, <1>8, <2>1 DEF Wide
  <2> QED BY <1>7, <2>1, <2>2 DEF LookPlace
<1>10. CASE look_row + 1 \notin {cmd.max_rows, LookRows}
  <2>1. look_row' = look_row + 1 /\ at' = "measuring" /\ look_row' < RowsShown'
    BY <1>1, <1>2, <1>3, <1>10
  <2>2. Wide(look_row)'
    BY <1>8, <2>1 DEF Wide
  <2> QED BY <1>1, <1>2, <1>7, <2>1, <2>2 DEF LookPlace
<1> QED BY <1>9, <1>10

LEMMA HeadKeeps ==
  ASSUME LookSource, LookLimits, LookPlace, OutputIsSeq, at = "heading", LookHead,
         out = <<>>, held = <<>>
  PROVE  OutputIsSeq' /\ LookPlace' /\ at' \in {"drawing", "counting", "dotting"}
<1>1. /\ cmd' = cmd /\ look_columns' = look_columns /\ look_numbers' = look_numbers
      /\ max_sizes' = max_sizes /\ look_row' = look_row /\ look_row = 0
      /\ look_columns > 0 => Wide(RowsShown)
      /\ Write(<<Header, Rule>>)
      /\ at' = IF look_columns = 0 THEN "counting" ELSE IF cmd.max_rows = 0 THEN "dotting" ELSE "drawing"
  BY DEF LookHead, Goto, lookVars, LookPlace
<1>2. /\ RowsShown' = RowsShown /\ LookRows' = LookRows /\ LookRows \in Nat /\ LookRows > 0
      /\ RowsShown \in Nat /\ cmd.max_rows \in Nat /\ look_columns \in Nat
  BY <1>1, SameTable, RowFacts, LimitFacts DEF LookSource, LookLimits
<1>h. PICK h : h = Header
  OBVIOUS
<1>r. PICK r : r = Rule
  OBVIOUS
<1>3. AlikeLine(h) /\ h.kind = "header" /\ AlikeLine(r) /\ r.kind = "rule"
  BY <1>h, <1>r, HeaderDrawn, RuleDrawn
<1>4. <<h, r>> \in Seq({h, r}) /\ Len(<<h, r>>) = 2 /\ <<h, r>>[1] = h /\ <<h, r>>[2] = r
  OBVIOUS
<1>5. IsSeq(<<h, r>>)
  BY <1>4, SeqIsSeq
<1>6. OutputIsSeq' /\ Output' = Output \o <<h, r>>
  BY <1>1, <1>5, <1>h, <1>r, LinesWritten
<1>7. Output' = <<h, r>>
  <2>1. Output = <<>>
    BY IsSeqEmpty, ConcatEmpty DEF Output
  <2> QED BY <1>5, <1>6, <2>1, ConcatEmpty
<1>8. Len(Output') = 2 /\ Output'[1] = h /\ Output'[2] = r
  BY <1>4, <1>7
<1>9. Drawn(0)'
  <2>1. AlikeLine(h)' /\ AlikeLine(r)'
    BY <1>1, <1>3, SameTable
  <2> QED BY <1>3, <1>8, <2>1 DEF Drawn
<1>10. look_columns' > 0 => Wide(RowsShown)'
  BY <1>1, <1>2 DEF Wide, Columns
<1>s. Drawn(look_row)'
  BY <1>1, <1>9 DEF Drawn
<1>11. CASE look_columns = 0
  BY <1>1, <1>2, <1>6, <1>9, <1>10, <1>s, <1>11 DEF LookPlace
<1>12. CASE look_columns # 0 /\ cmd.max_rows = 0
  BY <1>1, <1>2, <1>6, <1>9, <1>10, <1>s, <1>12 DEF LookPlace
<1>13. CASE look_columns # 0 /\ cmd.max_rows # 0
  BY <1>1, <1>2, <1>6, <1>9, <1>10, <1>s, <1>13 DEF LookPlace
<1> QED BY <1>1, <1>6, <1>11, <1>12, <1>13

\* What Drawn says is said of n rows, whatever is the row now.
LEMMA RowKeeps ==
  ASSUME LookSource, LookLimits, LookPlace, OutputIsSeq, look_row \in Nat, LookRow
  PROVE  OutputIsSeq' /\ LookPlace' /\ at' \in {"drawing", "drawn"} /\ look_row' \in Nat
<1> PICK n : n = look_row
  OBVIOUS
<1>1. /\ cmd' = cmd /\ look_columns' = look_columns /\ look_numbers' = look_numbers
      /\ max_sizes' = max_sizes /\ look_row' = n + 1 /\ at = "drawing"
      /\ Write(<<RowLine(n)>>)
      /\ at' = IF n = cmd.max_rows \/ n + 1 = LookRows THEN "drawn" ELSE "drawing"
  BY DEF LookRow, Goto, PastLimit
<1>2. /\ look_columns > 0 /\ n < LookRows /\ n <= cmd.max_rows /\ Drawn(n) /\ n \in Nat
      /\ Wide(RowsShown) /\ cmd.max_rows > 0
  BY <1>1 DEF LookPlace
<1>3. AlikeLine(RowLine(n)) /\ DrawnRow(RowLine(n), n + 1, RowsShown)
  BY <1>2, RowLineDrawn
<1>4. OutputIsSeq' /\ Drawn(n + 1)'
  BY <1>1, <1>2, <1>3, RowAddedToTable
<1>5. /\ RowsShown' = RowsShown /\ LookRows' = LookRows /\ RowOfDots' = RowOfDots
      /\ LookRows \in Nat /\ cmd.max_rows \in Nat
      /\ LookRows > cmd.max_rows <=> Len(cmd.sizes) > cmd.max_rows
      /\ RowsShown = IF LookRows <= cmd.max_rows THEN LookRows ELSE cmd.max_rows
  BY <1>1, SameTable, RowFacts DEF LookSource
<1>6. Wide(RowsShown)'
  BY <1>1, <1>2, <1>5 DEF Wide, Columns
<1>7. RowOfDots = IF LookRows > cmd.max_rows THEN 1 ELSE 0
  BY <1>5 DEF RowOfDots
<1>8. CASE n = cmd.max_rows \/ n + 1 = LookRows
  <2>1. n + 1 = RowsShown + RowOfDots
    BY <1>2, <1>5, <1>7, <1>8
  <2>2. Drawn(RowsShown + RowOfDots)'
    BY <1>4, <1>5, <2>1 DEF Drawn
  <2> QED BY <1>1, <1>2, <1>4, <1>6, <1>8, <2>2 DEF LookPlace
<1>9. CASE ~(n = cmd.max_rows \/ n + 1 = LookRows)
  <2>1. n + 1 < LookRows /\ n + 1 <= cmd.max_rows
    BY <1>2, <1>5, <1>9
  <2>2. Drawn(look_row)'
    BY <1>1, <1>4 DEF Drawn
  <2> QED BY <1>1, <1>2, <1>4, <1>5, <1>6, <1>9, <2>1, <2>2 DEF LookPlace
<1> QED BY <1>8, <1>9

LEMMA NumberKeeps ==
  ASSUME LookSource, LookLimits, LookPlace, OutputIsSeq, look_row \in Nat, LookNumber
  PROVE  OutputIsSeq' /\ LookPlace' /\ at' = "counting" /\ look_row' \in Nat
<1> PICK n : n = look_row
  OBVIOUS
<1>1. /\ cmd' = cmd /\ look_columns' = look_columns /\ look_numbers' = look_numbers
      /\ max_sizes' = max_sizes /\ look_row' = n + 1 /\ at = "counting" /\ at' = at
      /\ Write(<<RowLine(n)>>) /\ n < Min({LookRows, cmd.max_rows})
  BY DEF LookNumber
<1>2. /\ RowsShown' = RowsShown /\ LookRows \in Nat /\ cmd.max_rows \in Nat /\ RowsShown \in Nat
      /\ RowsShown = IF LookRows <= cmd.max_rows THEN LookRows ELSE cmd.max_rows
      /\ n < RowsShown
  BY <1>1, SameTable, RowFacts DEF LookSource
<1>3. look_columns = 0 /\ Drawn(n) /\ n \in Nat /\ n < LookRows /\ n <= cmd.max_rows
  BY <1>1, <1>2 DEF LookPlace
<1>4. AlikeLine(RowLine(n)) /\ DrawnRow(RowLine(n), n + 1, RowsShown)
  BY <1>3, RowLineDrawn
<1>5. OutputIsSeq' /\ Drawn(n + 1)'
  BY <1>1, <1>3, <1>4, RowAddedToTable
<1>6. Drawn(look_row)'
  BY <1>1, <1>5 DEF Drawn
<1> QED BY <1>1, <1>2, <1>3, <1>5, <1>6 DEF LookPlace

LEMMA DotsKeep ==
  ASSUME LookSource, LookLimits, LookPlace, OutputIsSeq, look_row \in Nat, LookNumbered \/ LookDots
  PROVE  OutputIsSeq' /\ LookPlace' /\ at' = "drawn" /\ look_row' \in Nat
<1> PICK n : n = look_row
  OBVIOUS
<1>1. /\ cmd' = cmd /\ look_columns' = look_columns /\ look_numbers' = look_numbers
      /\ max_sizes' = max_sizes /\ look_row' = n /\ at' = "drawn" /\ n \in Nat
  BY DEF LookNumbered, LookDots, Goto, lookVars
<1>2. /\ RowsShown' = RowsShown /\ RowOfDots' = RowOfDots
      /\ LookRows \in Nat /\ cmd.max_rows \in Nat /\ RowsShown \in Nat
      /\ RowsShown = IF LookRows <= cmd.max_rows THEN LookRows ELSE cmd.max_rows
      /\ Min({LookRows, cmd.max_rows}) = RowsShown
      /\ LookRows > cmd.max_rows <=> Len(cmd.sizes) > cmd.max_rows
      /\ LookRows > 0
  BY <1>1, SameTable, RowFacts DEF LookSource, LookLimits
<1>3. RowOfDots = IF LookRows > cmd.max_rows THEN 1 ELSE 0
  BY <1>2 DEF RowOfDots
<1>4. look_columns > 0 => Wide(RowsShown)
  BY DEF LookNumbered, LookDots, LookPlace
<1>5. look_columns' > 0 => Wide(RowsShown)'
  BY <1>1, <1>2, <1>4 DEF Wide, Columns
<1>6. Drawn(n) /\ n = RowsShown /\ (look_columns = 0 \/ cmd.max_rows = 0)
      /\ Write(IF LookRows > cmd.max_rows THEN <<DottedLine>> ELSE <<>>)
  <2>1. CASE LookNumbered
    <3>1. /\ at = "counting" /\ n >= RowsShown
          /\ Write(IF LookRows > cmd.max_rows THEN <<DottedLine>> ELSE <<>>)
      BY <1>2, <2>1 DEF LookNumbered
    <3>2. Drawn(n) /\ n <= RowsShown /\ look_columns = 0
      BY <3>1 DEF LookPlace
    <3> QED BY <1>1, <1>2, <3>1, <3>2
  <2>2. CASE LookDots
    <3>1. at = "dotting" /\ Write(<<DottedLine>>)
      BY <2>2 DEF LookDots
    <3>2. cmd.max_rows = 0 /\ n = 0 /\ Drawn(n)
      BY <3>1 DEF LookPlace
    <3>3. n = RowsShown /\ LookRows > cmd.max_rows
      BY <1>2, <3>2
    <3> QED BY <3>1, <3>2, <3>3
  <2> QED BY <2>1, <2>2
<1>7. OutputIsSeq' /\ Drawn(RowsShown + RowOfDots)'
  <2>1. CASE LookRows > cmd.max_rows
    <3>1. AlikeLine(DottedLine) /\ DrawnRow(DottedLine, n + 1, RowsShown)
      BY <1>1, <1>2, <1>6, DottedLineDrawn
    <3>2. OutputIsSeq' /\ Drawn(n + 1)'
      BY <1>1, <1>6, <2>1, <3>1, RowAddedToTable
    <3> QED BY <1>2, <1>3, <1>6, <2>1, <3>2 DEF Drawn
  <2>2. CASE ~(LookRows > cmd.max_rows)
    <3>1. OutputIsSeq' /\ Output' = Output \o <<>> /\ IsSeq(Output)
      BY <1>1, <1>6, <2>2, LinesWritten, IsSeqEmpty
    <3>2. Output' = Output
      BY <3>1, ConcatEmpty
    <3>3. Drawn(n)'
      BY <1>1, <1>2, <1>6, <3>2, SameTable DEF Drawn
    <3>4. n = RowsShown + RowOfDots
      BY <1>1, <1>2, <1>3, <1>6, <2>2
    <3> QED BY <1>2, <3>1, <3>3, <3>4 DEF Drawn
  <2> QED BY <2>1, <2>2
<1> QED BY <1>1, <1>5, <1>7 DEF LookPlace

LEMMA LookStep == LookInv /\ [LookNext]_<<toolVars, lookVars>> => LookInv'
<1> SUFFICES ASSUME LookInv, [LookNext]_<<toolVars, lookVars>> PROVE LookInv'
  OBVIOUS
<1>1. cmd' = cmd
  BY DEF toolVars, LookNext, LookRejected, LookStart, LookMeasure, LookHead, LookRow, LookNumber,
         LookNumbered, LookDots, LookEnd, Goto
<1> SUFFICES ASSUME cmd.tool = "look" PROVE LookInv'
  BY <1>1 DEF LookInv
<1>2. /\ LookSource /\ OutputIsSeq /\ look_row \in Nat
      /\ at \in BeforeLook \cup {"measuring", "heading"} \cup TableStarted
      /\ at \in BeforeLook \cup {"measuring", "heading"} => out = <<>> /\ held = <<>>
      /\ at = "start" => look_row = 0
      /\ at \notin BeforeLook => LookLimits /\ LookPlace
      /\ at = "done" => held = <<>>
  BY DEF LookInv
<1>3. LookSource'
  BY <1>1, <1>2 DEF LookSource
<1>4. CASE LookRejected
  <2>1. at' = "rejected" /\ out' = out /\ held' = held /\ look_row' = look_row /\ at = "start"
    BY <1>4 DEF LookRejected, Goto, Quiet, lookVars
  <2> QED BY <1>1, <1>2, <1>3, <2>1 DEF LookInv, BeforeLook, OutputIsSeq
<1>5. CASE LookStart
  <2>1. at = "start" /\ out' = out /\ held' = held /\ look_row' = look_row
    BY <1>5 DEF LookStart, Quiet
  <2>2. CASE LookRows = 0
    <3>1. at' = "failed"
      BY <1>5, <2>2 DEF LookStart, Goto
    <3> QED BY <1>1, <1>2, <1>3, <2>1, <3>1 DEF LookInv, BeforeLook, OutputIsSeq
  <2>3. CASE LookRows # 0
    <3>1. LookLimits' /\ LookPlace' /\ at' \in {"measuring", "heading"}
      BY <1>2, <1>5, <2>1, <2>3, LookStarts
    <3> QED BY <1>1, <1>2, <1>3, <2>1, <3>1 DEF LookInv, BeforeLook, OutputIsSeq
  <2> QED BY <2>2, <2>3
<1>6. CASE LookMeasure
  <2>1. at = "measuring" /\ out' = out /\ held' = held
    BY <1>6 DEF LookMeasure, Quiet
  <2>2. LookLimits /\ LookPlace
    BY <1>2, <2>1 DEF BeforeLook
  <2>3. LookLimits' /\ LookPlace' /\ at' \in {"measuring", "heading"} /\ look_row' \in Nat
    BY <1>2, <1>6, <2>2, MeasureKeeps
  <2> QED BY <1>1, <1>2, <1>3, <2>1, <2>3 DEF LookInv, BeforeLook, OutputIsSeq
<1>7. ASSUME LookLimits, cmd' = cmd, look_columns' = look_columns, look_numbers' = look_numbers,
             max_sizes' = max_sizes, OutputIsSeq', LookPlace', look_row' \in Nat,
             at' \in TableStarted, at' = "done" => held' = <<>>
      PROVE  LookInv'
  <2>1. LookLimits'
    BY <1>7, SameTable
  <2>2. at' \notin BeforeLook \cup {"measuring", "heading"}
    BY <1>7 DEF BeforeLook, TableStarted
  <2> QED BY <1>3, <1>7, <2>1, <2>2 DEF LookInv, BeforeLook, TableStarted
<1>8. CASE LookHead
  <2>1. /\ at = "heading" /\ look_columns' = look_columns /\ look_numbers' = look_numbers
        /\ max_sizes' = max_sizes /\ look_row' = look_row
    BY <1>8 DEF LookHead, lookVars
  <2>2. LookLimits /\ LookPlace /\ out = <<>> /\ held = <<>>
    BY <1>2, <2>1 DEF BeforeLook
  <2>3. OutputIsSeq' /\ LookPlace' /\ at' \in {"drawing", "counting", "dotting"}
    BY <1>2, <1>8, <2>1, <2>2, HeadKeeps
  <2> QED BY <1>1, <1>2, <1>7, <2>1, <2>2, <2>3 DEF TableStarted
<1>9. CASE LookRow
  <2>1. /\ at = "drawing" /\ look_columns' = look_columns /\ look_numbers' = look_numbers
        /\ max_sizes' = max_sizes
    BY <1>9 DEF LookRow
  <2>2. LookLimits /\ LookPlace
    BY <1>2, <2>1 DEF BeforeLook
  <2>3. OutputIsSeq' /\ LookPlace' /\ at' \in {"drawing", "drawn"} /\ look_row' \in Nat
    BY <1>2, <1>9, <2>2, RowKeeps
  <2> QED BY <1>1, <1>7, <2>1, <2>2, <2>3 DEF TableStarted
<1>10. CASE LookNumber
  <2>1. /\ at = "counting" /\ look_columns' = look_columns /\ look_numbers' = look_numbers
        /\ max_sizes' = max_sizes
    BY <1>10 DEF LookNumber
  <2>2. LookLimits /\ LookPlace
    BY <1>2, <2>1 DEF BeforeLook
  <2>3. OutputIsSeq' /\ LookPlace' /\ at' = "counting" /\ look_row' \in Nat
    BY <1>2, <1>10, <2>2, NumberKeeps
  <2> QED BY <1>1, <1>7, <2>1, <2>2, <2>3 DEF TableStarted
<1>11. CASE LookNumbered \/ LookDots
  <2>1. /\ at \in {"counting", "dotting"} /\ look_columns' = look_columns
        /\ look_numbers' = look_numbers /\ max_sizes' = max_sizes
    BY <1>11 DEF LookNumbered, LookDots, lookVars
  <2>2. LookLimits /\ LookPlace
    BY <1>2, <2>1 DEF BeforeLook
  <2>3. OutputIsSeq' /\ LookPlace' /\ at' = "drawn" /\ look_row' \in Nat
    BY <1>2, <1>11, <2>2, DotsKeep
  <2> QED BY <1>1, <1>7, <2>1, <2>2, <2>3 DEF TableStarted
<1>12. CASE LookEnd
  <2>1. /\ at = "drawn" /\ at' = "done" /\ Flush /\ look_columns' = look_columns
        /\ look_numbers' = look_numbers /\ max_sizes' = max_sizes /\ look_row' = look_row
    BY <1>12 DEF LookEnd, Goto, lookVars
  <2>2. LookLimits /\ LookPlace
    BY <1>2, <2>1 DEF BeforeLook
  <2>3. OutputIsSeq' /\ Output' = Output /\ held' = <<>>
    BY <1>1, <1>2, <2>1, AllFlushed
  <2>4. LookPlace'
    <3>1. Drawn(RowsShown + RowOfDots) /\ (look_columns > 0 => Wide(RowsShown))
      BY <2>1, <2>2 DEF LookPlace
    <3>2. Drawn(RowsShown + RowOfDots)'
      BY <1>1, <2>1, <2>3, <3>1, SameTable DEF Drawn
    <3>3. look_columns' > 0 => Wide(RowsShown)'
      BY <1>1, <2>1, <3>1, SameTable DEF Wide, Columns
    <3> QED BY <2>1, <3>2, <3>3 DEF LookPlace
  <2> QED BY <1>1, <1>2, <1>7, <2>1, <2>2, <2>3, <2>4 DEF TableStarted
<1>13. CASE UNCHANGED <<toolVars, lookVars>>
  <2>1. /\ at' = at /\ out' = out /\ held' = held /\ look_columns' = look_columns
        /\ look_numbers' = look_numbers /\ max_sizes' = max_sizes /\ look_row' = look_row
    BY <1>13 DEF toolVars, lookVars
  <2>2. OutputIsSeq' /\ Output' = Output
    BY <1>1, <1>2, <2>1 DEF OutputIsSeq, Output
  <2>3. LookLimits /\ LookPlace => LookLimits' /\ LookPlace'
    <3> SUFFICES ASSUME LookLimits, LookPlace PROVE LookLimits' /\ LookPlace'
      OBVIOUS
    <3>1. LookLimits' /\ RowsShown' = RowsShown /\ LookRows' = LookRows /\ RowOfDots' = RowOfDots
      BY <1>1, <2>1, SameTable
    <3>2. \A n : Drawn(n) => Drawn(n)'
      BY <1>1, <2>1, <2>2, SameTable DEF Drawn
    <3>3. \A n : Wide(n) => Wide(n)'
      BY <1>1, <2>1, SameTable
    <3>4. /\ Drawn(look_row) => Drawn(look_row)'
          /\ Drawn(0) => Drawn(0)'
          /\ Drawn(RowsShown + RowOfDots) => Drawn(RowsShown + RowOfDots)'
          /\ Wide(RowsShown) => Wide(RowsShown)'
          /\ Wide(look_row) => Wide(look_row)'
      BY <1>1, <2>1, <2>2, <3>1, <3>2, <3>3, SameTable DEF Drawn, Wide, Columns
    <3> QED BY <1>1, <2>1, <3>1, <3>4 DEF LookPlace
  <2> QED BY <1>1, <1>2, <1>3, <2>1, <2>2, <2>3 DEF LookInv
<1> QED BY <1>4, <1>5, <1>6, <1>8, <1>9, <1>10, <1>11, <1>12, <1>13 DEF LookNext

LEMMA LookInvariant == LookSpec => []LookInv
<1>1. ToolInit /\ LookInit => LookInv
  BY LookInitially
<1>2. LookInv /\ [LookNext]_<<toolVars, lookVars>> => LookInv'
  BY LookStep
<1> QED BY <1>1, <1>2, PTL DEF LookSpec

LEMMA LookInvAligned == LookInv => LookAligned
<1> SUFFICES ASSUME LookInv, cmd.tool = "look", \A c \in DOMAIN max_sizes : max_sizes[c] > 0,
                    NEW j \in DOMAIN Output, NEW k \in DOMAIN Output
             PROVE  LET excess(drawn, f) == IF f > Shift THEN Excess(drawn.row, f - Shift) ELSE 0
                        one == Output[j]
                        other == Output[k]
                    IN  /\ one.more = other.more /\ Len(one.fields) = Len(other.fields)
                        /\ \A f \in DOMAIN one.fields :
                             one.fields[f].width - excess(one, f) = other.fields[f].width - excess(other, f)
  BY DEF LookAligned, Shift
<1>1. at \in TableStarted
  <2> SUFFICES ASSUME at \notin TableStarted PROVE FALSE
    OBVIOUS
  <2>1. out = <<>> /\ held = <<>>
    BY DEF LookInv
  <2>2. Output = <<>>
    BY <2>1, IsSeqEmpty, ConcatEmpty DEF Output
  <2> QED BY <2>2
<1>2. LookSource /\ LookLimits /\ LookPlace /\ OutputIsSeq /\ look_row \in Nat
  BY <1>1 DEF LookInv, TableStarted, BeforeLook
<1>3. PICK n \in Nat : Drawn(n)
  <2>1. RowsShown + RowOfDots \in Nat
    BY <1>2, RowFacts DEF RowOfDots
  <2> QED BY <1>1, <1>2, <2>1 DEF LookPlace, TableStarted
<1>4. \A i \in DOMAIN Output : AlikeLine(Output[i])
  <2>1. DOMAIN Output = 1..(2 + n)
    <3>1. IsSeq(Output)
      BY <1>2, IsSeqConcat DEF OutputIsSeq, Output
    <3> QED BY <1>3, <3>1, IsSeqFacts DEF Drawn
  <2> TAKE i \in DOMAIN Output
  <2>2. CASE i \in {1, 2}
    BY <1>3, <2>2 DEF Drawn
  <2>3. CASE i \notin {1, 2}
    <3> PICK m : m = i - 2
      OBVIOUS
    <3>1. m \in 1..n /\ i = m + 2
      BY <1>3, <2>1, <2>3
    <3> QED BY <1>3, <3>1 DEF Drawn
  <2> QED BY <2>2, <2>3
<1>5. DOMAIN max_sizes = Columns
  BY <1>2 DEF LookLimits
<1>6. Shift \in {0, 1} /\ Fitting \in Nat
  BY <1>2, LimitFacts
<1> PICK one : one = Output[j]
  OBVIOUS
<1> PICK other : other = Output[k]
  OBVIOUS
<1>7. AlikeLine(one) /\ AlikeLine(other)
  BY <1>4
<1>8. /\ one.more = other.more /\ Len(one.fields) = Shift + Fitting
      /\ Len(other.fields) = Shift + Fitting /\ DOMAIN one.fields = 1..(Shift + Fitting)
  BY <1>7, IsSeqFacts DEF AlikeLine
<1>9. ASSUME NEW f \in DOMAIN one.fields
      PROVE  one.fields[f].width - (IF f > Shift THEN Excess(one.row, f - Shift) ELSE 0) =
               other.fields[f].width - (IF f > Shift THEN Excess(other.row, f - Shift) ELSE 0)
  <2>1. CASE Shift = 1 /\ f = 1
    <3>1. one.fields[f].width = NumbersWidth /\ other.fields[f].width = NumbersWidth
      BY <1>7, <2>1 DEF AlikeLine
    <3>2. ~(f > Shift)
      BY <2>1
    <3> QED BY ONLY <3>1, <3>2
  <2>2. CASE ~(Shift = 1 /\ f = 1)
    <3> PICK c : c = f - Shift
      OBVIOUS
    <3>1. c \in 1..Fitting /\ Shift + c = f
      BY <1>6, <1>8, <2>2
    <3>2. /\ one.fields[Shift + c].width - Excess(one.row, c) = max_sizes[c]
          /\ other.fields[Shift + c].width - Excess(other.row, c) = max_sizes[c]
      BY <1>5, <1>7, <3>1 DEF AlikeLine
    <3>3. f > Shift /\ f - Shift = c
      BY <1>6, <3>1
    <3> QED BY ONLY <3>1, <3>2, <3>3
  <2> QED BY <2>1, <2>2
<1> QED BY <1>8, <1>9

\* For any sizes of names and cells and any limits, all lines csvLook draws have as many
\* columns of the same widths, although the widths are found in one pass over some of the
\* rows and used in another; but for the fields in the row of dots, each wider by the bytes
\* its cell has beyond its symbols, and unless a column has no width (LookAligned).
THEOREM LookDrawsAlike == LookSpec => []LookAligned
BY LookInvariant, LookInvAligned, PTL

\* csvLook shows the rows up to --max-rows, in order, with one row of dots after them
\* exactly if the source has more, the columns up to --max-columns, and cuts a cell only
\* if it is longer than --max-column-width, from a file and from standard input (LookShown).
THEOREM LookShowsRows == LookSpec => []LookShown
<1>1. LookInv => LookShown
  <2> SUFFICES ASSUME LookInv, cmd.tool = "look", at = "done" PROVE LookShown
    BY DEF LookShown
  <2>1. LookSource /\ LookPlace /\ OutputIsSeq /\ held = <<>>
    BY DEF LookInv, BeforeLook
  <2>2. Output = out
    BY <2>1, ConcatEmpty DEF Output, OutputIsSeq
  <2>3. Drawn(RowsShown + RowOfDots)
    BY <2>1 DEF LookPlace
  <2>4. /\ Len(out) = 2 + (RowsShown + RowOfDots)
        /\ out[1].kind = "header" /\ out[2].kind = "rule"
        /\ \A k \in 1..(RowsShown + RowOfDots) : DrawnRow(out[k + 2], k, RowsShown)
    BY <2>2, <2>3 DEF Drawn
  <2>5. Len(out) = 2 + RowsShown + RowOfDots
    <3>1. RowsShown \in Nat /\ RowOfDots \in Nat
      BY <2>1, RowFacts DEF RowOfDots
    <3> QED BY <2>4, <3>1
  <2> QED BY <2>4, <2>5 DEF LookShown, RowsShown, RowOfDots
<1> QED BY <1>1, LookInvariant, PTL
===============================================================================
