--------------------------- MODULE JoinRefinesProofs ---------------------------
(***************************************************************************)
(* Proof that csvJoin's join() implements RelationalJoin: the tables it    *)
(* pushes back in front of its deque are those of a sequence of relational *)
(* joins, computed by nested loops over the rows of the files.  What it    *)
(* takes, and the types of all columns with it, also proves the assertion  *)
(* of print_func: that a cell printed by type can be.                      *)
(***************************************************************************)
EXTENDS JoinProofs

-------------------------------------------------------------------------------
(* What is known of the result while it is being put together.               *)

\* What typify() said of the key column of the file that is joined next.
NextKey == Abs!KeyInfo(FileTypes(deq[2].file), c_ids[2])

\* What RelationalJoin puts into the result: the rows of the left table with what they
\* match, and the rows of the right one that match nothing; or the two side by side.
FirstPart ==
  Abs!LeftPart(LeftRows, RightRows, c_ids[1], c_ids[2], Width(deq[2].file), AbsKey, NextKey)
Rest == Abs!Unmatched(LeftRows, RightRows, c_ids[1], c_ids[2], AbsKey, NextKey)
RestPadded == [i \in DOMAIN Rest |-> Abs!PadLeft(Rest[i], Abs!TotalWidth(Joined))]
InRow(rows, i, w) == IF i \in DOMAIN rows THEN rows[i] ELSE Padding(w)
BothSides ==
  [i \in 1..(IF Len(LeftRows) > Len(RightRows) THEN Len(LeftRows) ELSE Len(RightRows)) |->
     InRow(LeftRows, i, Abs!TotalWidth(Joined)) \o InRow(RightRows, i, Width(deq[2].file))]

\* The key columns of the files still to be joined are as typify() found them; only that
\* of the file being joined may have become text.
FileKeys ==
  \A i \in DOMAIN c_ids : i # 1 =>
    LET found == FileTypes(deq[i].file) IN
    /\ KeyBlanks(i) = found.blanks[c_ids[i]]
    /\ i # 2 \/ pc \in {"fill", "loop"} => KeyTypeOf(i) = found.types[c_ids[i]]

\* Keys are compared as numbers only if types are inferred and no null is a value.
PlainKeys ==
  \A i \in DOMAIN c_ids :
    KeyTypeOf(i) = "number" => ~args.no_inference /\ ~(args.blanks /\ KeyBlanks(i))

\* Which join is done, and as what the keys are compared, is as RelationalJoin says.
Compared ==
  pc \in JoiningPcs /\ ~IsUnion =>
    /\ pc \in KeyedPcs => Abs!Comparable(AbsKey, NextKey)
    /\ pc = "disjoint" => ~Abs!Comparable(AbsKey, NextKey)
    /\ Abs!Comparable(AbsKey, NextKey) /\ ~args.no_inference =>
         Abs!KeyType(AbsKey, NextKey) = AbsKey.type

\* The parallel passes are left out only where there are no rows for them.
PassesLeftOut ==
  /\ pc = "no_body" => /\ ~IsOuter
                       /\ args.kind # "inner" => RightRows = <<>> /\ RunRows(deq[1]) = LeftRows
  /\ pc # "no_body_2"

\* recalculate is set as soon as a row of the right table matches nothing.
Recalculates ==
  /\ pc \in KeyedPcs \ {"second"} => recalculate = FALSE
  /\ pc = "second" /\ recalculate => \E i \in DOMAIN table \ todo : RightRow(table[i]) # <<>>
  /\ pc = "cleanup" /\ IsOuter => recalculate = (Rest # <<>>)

\* The result, once a pass has been merged into it, and at the end.
ResultIs ==
  /\ pc \in {"hash_left", "second"} => impl = FirstPart
  /\ pc = "cleanup" => impl = IF IsUnion THEN BothSides
                              ELSE FirstPart \o (IF IsOuter THEN RestPadded ELSE <<>>)

\* The readers of the other files wait on their first data rows, the second until its
\* hash table is built.
Waiting ==
  \A i \in DOMAIN headers :
    (i > 2 \/ (i = 2 /\ pc \in {"fill", "loop", "hash_right", "disjoint"})) => deq[i].pos = Body

AccInv ==
  /\ KeptFilesHaveRows /\ FileKeys /\ PlainKeys /\ Waiting
  /\ Compared /\ PassesLeftOut /\ Recalculates /\ ResultIs

-------------------------------------------------------------------------------
(* RelationalJoin, over the same files.                                      *)

\* The operators on lists of the two specifications are the same.
LEMMA SameLists ==
  /\ \A s : Abs!FlattenSeq(s) = FlattenSeq(s)
  /\ \A s, i : Abs!RemoveAt(s, i) = RemoveAt(s, i)
  /\ \A rows, I : Abs!RowsAt(rows, I) = RowsAt(rows, I)
<1>1. \A s : Abs!FlattenSeq(s) = FlattenSeq(s)
  BY DEF FlattenSeq, Abs!FlattenSeq
<1>2. \A s, i : Abs!RemoveAt(s, i) = RemoveAt(s, i)
  BY DEF RemoveAt, Abs!RemoveAt
<1>3. \A rows, I : Abs!RowsAt(rows, I) = RowsAt(rows, I)
  BY <1>1 DEF RowsAt, Abs!RowsAt
<1> QED BY <1>1, <1>2, <1>3

\* And so are those on files, cells and types.
LEMMA SameFiles ==
  /\ \A f : Abs!BodyRows(f) = BodyRows(f) /\ Abs!Width(f) = Width(f)
  /\ \A cell : Abs!Value(cell) = Value(cell)
  /\ \A v : Abs!Absent(v) <=> Absent(v)
  /\ \A n : Abs!Padding(n) = Padding(n)
  /\ \A rows, w : Abs!Typify(rows, w) = Typify(rows, w)
  /\ \A f : Abs!FileTypes(f) = FileTypes(f)
<1>1. \A f : Abs!BodyRows(f) = BodyRows(f) /\ Abs!Width(f) = Width(f)
  BY DEF BodyRows, Abs!BodyRows, RunRows, Abs!RunRows, Reader, Abs!Reader,
         NLines, Abs!NLines, Line, Abs!Line, Width, Abs!Width, Body, Abs!Body
<1>2. \A cell : Abs!Value(cell) = Value(cell)
  BY DEF Value, Abs!Value, Body, Abs!Body, Pad, Abs!Pad
<1>3. \A v : Abs!Absent(v) <=> Absent(v)
  BY DEF Absent, Abs!Absent
<1>4. \A n : Abs!Padding(n) = Padding(n)
  BY DEF Padding, Abs!Padding, Pad, Abs!Pad
<1>5. \A rows, w : Abs!Typify(rows, w) = Typify(rows, w)
  <2>1. \A rows, c : Abs!Column(rows, c) = Column(rows, c)
    BY <1>2 DEF Column, Abs!Column
  <2>2. \A vals : Abs!TypeOf(vals) = TypeOf(vals)
    BY <1>3 DEF TypeOf, Abs!TypeOf, Numerals, Abs!Numerals
  <2>3. \A vals : Abs!HasBlanks(vals) = HasBlanks(vals)
    BY <1>3 DEF HasBlanks, Abs!HasBlanks
  <2> QED BY <2>1, <2>2, <2>3 DEF Typify, Abs!Typify
<1>6. \A f : Abs!FileTypes(f) = FileTypes(f)
  <2>1. \A w : Abs!NoBodyTypes(w) = NoBodyTypes(w)
    BY DEF NoBodyTypes, Abs!NoBodyTypes
  <2> QED BY <1>1, <1>5, <2>1 DEF FileTypes, Abs!FileTypes
<1> QED BY <1>1, <1>2, <1>3, <1>4, <1>5, <1>6

\* The files are joined in the same order, on the same columns.
LEMMA SameOrder ==
  ASSUME ValidArgs(args)
  PROVE  /\ Abs!N = N /\ (Abs!IsOuter <=> IsOuter)
         /\ \A i \in 1..N : Abs!Nth(i) = Nth(i)
         /\ ~IsUnion => \A i \in 1..N : JoinColumns[i] = Abs!KeyCol(Nth(i))
<1>1. Abs!N = N /\ (Abs!IsOuter <=> IsOuter)
  BY DEF N, Abs!N, IsOuter, Abs!IsOuter
<1>2. \A i \in 1..N : Abs!Nth(i) = Nth(i)
  <2> TAKE i \in 1..N
  <2>1. N \in Nat /\ (N - i) + 1 = N + 1 - i
    BY SourcesFacts
  <2> QED BY <1>1, <2>1, NthFacts DEF Abs!Nth
<1>3. ASSUME ~IsUnion PROVE \A i \in 1..N : JoinColumns[i] = Abs!KeyCol(Nth(i))
  BY <1>3, JoinColumnsFacts DEF Abs!KeyCol
<1> QED BY <1>1, <1>2, <1>3

\* The width of the first tables side by side.
LEMMA TotalWidths ==
  ASSUME ValidArgs(args), NEW j \in 1..N
  PROVE  /\ j = 1 => Abs!TotalWidth(j) = Width(Nth(1))
         /\ Abs!TotalWidth(j) \in Nat
         /\ j + 1 \in 1..N => Abs!TotalWidth(j + 1) = Abs!TotalWidth(j) + Width(Nth(j + 1))
<1> DEFINE Upto(m) == [i \in 1..m |-> Names[Abs!Nth(i)]]
<1>1. \A m : Abs!TotalWidth(m) = Len(FlattenSeq(Upto(m)))
  BY SameLists DEF Abs!TotalWidth
<1>2. ASSUME NEW m \in 1..N
      PROVE  /\ IsSeq(Upto(m)) /\ Len(Upto(m)) = m
             /\ \A i \in 1..m : Upto(m)[i] = Names[Nth(i)] /\ IsSeq(Upto(m)[i])
                                /\ Len(Upto(m)[i]) = Width(Nth(i))
  <2> PICK s : s = Upto(m)
    OBVIOUS
  <2>1. m \in Nat /\ s = [i \in 1..m |-> s[i]]
    BY SourcesFacts
  <2>2. IsSeq(s) /\ Len(s) = m
    BY <2>1, IsSeqFunction
  <2>3. ASSUME NEW i \in 1..m PROVE s[i] = Names[Nth(i)] /\ IsSeq(s[i]) /\ Len(s[i]) = Width(Nth(i))
    <3>1. i \in 1..N
      BY SourcesFacts
    <3>2. s[i] = Names[Nth(i)] /\ Nth(i) \in File
      BY <3>1, SameOrder, NthFacts
    <3>3. Names[Nth(i)] \in Seq(Seq(STRING))
      BY <3>2, TablesAssumption DEF File
    <3>4. IsSeq(Names[Nth(i)])
      BY <3>3, SeqIsSeq
    <3> QED BY <3>2, <3>4 DEF Width
  <2> QED BY <2>2, <2>3
<1> HIDE DEF Upto
<1>3. ASSUME NEW m \in 1..N PROVE Abs!TotalWidth(m) \in Nat
  <2>1. \A i \in DOMAIN Upto(m) : IsSeq(Upto(m)[i])
    BY <1>2, IsSeqFacts
  <2>2. IsSeq(FlattenSeq(Upto(m)))
    BY <1>2, <2>1, FlattenIsSeq
  <2> QED BY <1>1, <2>2, IsSeqFacts
<1>4. ASSUME j = 1 PROVE Abs!TotalWidth(j) = Width(Nth(1))
  <2>0. 1 \in 1..1 /\ 1 \in 1..N
    BY <1>4
  <2>1. Len(Upto(1)) = 1
    BY <1>2, <2>0
  <2>2. FlattenSeq(Upto(1)) = Upto(1)[1]
    BY <2>1, FlattenOne
  <2> QED BY <1>1, <1>2, <1>4, <2>0, <2>2
<1>5. ASSUME j + 1 \in 1..N
      PROVE  Abs!TotalWidth(j + 1) = Abs!TotalWidth(j) + Width(Nth(j + 1))
  <2>1. j \in Nat \ {0} /\ j + 1 \in 1..(j + 1) /\ N \in Nat
    BY SourcesFacts
  <2> PICK s : s = Upto(j)
    OBVIOUS
  <2> PICK t : t = Upto(j + 1)
    OBVIOUS
  <2>2. Len(s) = j /\ IsSeq(s) /\ \A i \in 1..j : s[i] = Names[Nth(i)] /\ IsSeq(s[i])
    BY <1>2
  <2>3. Len(t) = j + 1 /\ IsSeq(t) /\ \A i \in 1..(j + 1) : t[i] = Names[Nth(i)] /\ IsSeq(t[i])
    BY <1>2, <1>5
  <2>4. \A i \in 1..j : t[i] = s[i]
    BY <2>1, <2>2, <2>3
  <2>5. FlattenSeq(t) = FlattenSeq(s) \o t[j + 1]
    BY <2>1, <2>2, <2>3, <2>4, FlattenMore
  <2>6. IsSeq(FlattenSeq(s)) /\ IsSeq(t[j + 1])
    <3>1. \A i \in DOMAIN s : IsSeq(s[i])
      BY <2>2, IsSeqFacts
    <3> QED BY <2>1, <2>2, <2>3, <3>1, FlattenIsSeq
  <2>7. Len(FlattenSeq(s) \o t[j + 1]) = Len(FlattenSeq(s)) + Len(t[j + 1])
    BY <2>6, IsSeqConcat
  <2>8. Len(t[j + 1]) = Width(Nth(j + 1))
    BY <2>1, <2>3 DEF Width
  <2> QED BY <1>1, <2>5, <2>7, <2>8
<1> QED BY <1>3, <1>4, <1>5

\* With every key column kept the joined table is as wide.
LEMMA KeptWidth ==
  ASSUME ValidArgs(args), KeysIn, KeepsKey, NEW j \in 1..N
  PROVE  Len(JoinedColumns(j)) = Abs!TotalWidth(j)
<1> DEFINE S == {m \in Nat : m \in 1..N => Len(JoinedColumns(m)) = Abs!TotalWidth(m)}
<1>1. N \in Nat \ {0}
  BY SourcesFacts
<1>2. 0 \in S
  OBVIOUS
<1>3. ASSUME NEW m \in Nat, m \in S PROVE m + 1 \in S
  <2> SUFFICES ASSUME m + 1 \in 1..N PROVE Len(JoinedColumns(m + 1)) = Abs!TotalWidth(m + 1)
    OBVIOUS
  <2>1. CASE m = 0
    <3>1. 1 \in 1..N /\ m + 1 = 1
      BY <1>1, <2>1
    <3>2. Abs!TotalWidth(1) = Width(Nth(1)) /\ Nth(1) \in File
      BY <3>1, TotalWidths, NthFacts
    <3>3. Len(JoinedColumns(1)) = Width(Nth(1))
      BY <3>2, FirstColumns, ColumnsOfFacts
    <3> QED BY <3>1, <3>2, <3>3
  <2>2. CASE m # 0
    <3>1. m \in 1..N
      BY <1>1, <2>2
    <3>2. Abs!TotalWidth(m + 1) = Abs!TotalWidth(m) + Width(Nth(m + 1))
      BY <3>1, TotalWidths
    <3>3. Len(JoinedColumns(m)) = Abs!TotalWidth(m)
      BY <1>3, <3>1
    <3>4. Len(Added(m + 1)) = Width(Nth(m + 1))
      <4>1. Width(Nth(m + 1)) \in Nat
        BY NthFacts, WidthFacts
      <4> QED BY <4>1, AddedFacts
    <3>5. IsSeq(JoinedColumns(m)) /\ IsSeq(Added(m + 1)) /\ JoinedColumns(m + 1) = JoinedColumns(m) \o Added(m + 1)
      BY <3>1, NewColumns
    <3>6. Len(JoinedColumns(m) \o Added(m + 1)) = Len(JoinedColumns(m)) + Len(Added(m + 1))
      BY <3>5, IsSeqConcat
    <3> QED BY <3>2, <3>3, <3>4, <3>5, <3>6
  <2> QED BY <2>1, <2>2
<1> HIDE DEF S
<1>4. j \in S
  BY <1>2, <1>3, Induction
<1> QED BY <1>4 DEF S

-------------------------------------------------------------------------------
(* What a step leaves alone of a join in progress.                           *)

\* What depends on the files and the command line alone is left as it is by every step.
LEMMA SameData ==
  ASSUME args' = args, keys' = keys
  PROVE  /\ N' = N /\ (IsOuter' <=> IsOuter) /\ Sources' = Sources /\ JoinColumns' = JoinColumns
         /\ \A cell : Value(cell)' = Value(cell)
         /\ \A f : BodyRows(f)' = BodyRows(f) /\ FileTypes(f)' = FileTypes(f)
         /\ \A i : Nth(i)' = Nth(i) /\ Abs!TotalWidth(i)' = Abs!TotalWidth(i)
<1>1. N' = N /\ (IsOuter' <=> IsOuter) /\ Sources' = Sources /\ JoinColumns' = JoinColumns
  BY DEF N, IsOuter, Sources, JoinColumns, Ordered, Reader
<1>2. \A cell : Value(cell)' = Value(cell)
  BY DEF Value
<1>3. \A f : BodyRows(f)' = BodyRows(f) /\ FileTypes(f)' = FileTypes(f)
  BY DEF BodyRows, RunRows, Reader, NLines, Line, Width, FileTypes, NoBodyTypes, Typify, Column,
         TypeOf, HasBlanks, Absent, Value
<1>4. \A i : Nth(i)' = Nth(i) /\ Abs!TotalWidth(i)' = Abs!TotalWidth(i)
  BY DEF Nth, Sources, Ordered, Reader, Abs!TotalWidth, Abs!Nth, Abs!N
<1> QED BY <1>1, <1>2, <1>3, <1>4

\* And so are the joins of given tables.
LEMMA SameRelation ==
  ASSUME args' = args, keys' = keys, NEW left, NEW right, NEW c0, NEW c1, NEW n, NEW k0, NEW k1
  PROVE  /\ Abs!LeftPart(left, right, c0, c1, n, k0, k1)' =
              Abs!LeftPart(left, right, c0, c1, n, k0, k1)
         /\ Abs!Unmatched(left, right, c0, c1, k0, k1)' =
              Abs!Unmatched(left, right, c0, c1, k0, k1)
<1>1. Abs!LeftPart(left, right, c0, c1, n, k0, k1)' = Abs!LeftPart(left, right, c0, c1, n, k0, k1)
  BY DEF Abs!LeftPart, Abs!Same, Abs!Comparable, Abs!SameKey, Abs!KeyType, Abs!Value, Abs!Absent,
         Abs!Contribution, Abs!KeepsLeft, Abs!PadRight, Abs!Glue, Abs!IsOuter
<1>2. Abs!Unmatched(left, right, c0, c1, k0, k1)' = Abs!Unmatched(left, right, c0, c1, k0, k1)
  BY DEF Abs!Unmatched, Abs!Same, Abs!Comparable, Abs!SameKey, Abs!KeyType, Abs!Value, Abs!Absent
<1> QED BY <1>1, <1>2

\* While two tables are being joined, what RelationalJoin sees of them does not change.
LEMMA AccStays ==
  ASSUME JoinInv, RowInv, pc \in JoiningPcs \/ (pc = "loop" /\ Len(deq) > 1),
         args' = args, keys' = keys, headers' = headers, c_ids' = c_ids,
         ts_n_blanks' = ts_n_blanks,
         \/ deq' = deq
         \/ \E i \in DOMAIN deq : /\ deq[i].kind = "reader"
                                  /\ \E p \in 0..Body : deq' = At(i, p)
  PROVE  /\ AbsAcc' = AbsAcc /\ AbsKey' = AbsKey /\ NextKey' = NextKey
         /\ FirstPart' = FirstPart /\ Rest' = Rest
         /\ RestPadded' = RestPadded /\ BothSides' = BothSides
         /\ Joined' = Joined /\ LeftRows' = LeftRows /\ RightRows' = RightRows
<1>1. /\ Joined' = Joined /\ LeftRows' = LeftRows /\ RightRows' = RightRows
      /\ IsUnion' = IsUnion
  BY JoinStays
<1>2. deq'[2].file = deq[2].file
  <2>1. 2 \in DOMAIN deq /\ deq[2].kind = "reader"
    BY InProgress
  <2> QED BY <2>1, SourcesMove
<1>3. AbsAcc' = AbsAcc
  BY <1>1 DEF AbsAcc, LeftRows
<1>4. AbsKey' = AbsKey
  <2>1. \A f : FileTypes(f)' = FileTypes(f)
    BY SameData
  <2>2. Nth(1)' = Nth(1) /\ JoinColumns' = JoinColumns
    BY SameData
  <2> QED BY <1>1, <2>1, <2>2 DEF AbsKey, KeyTypeOf, KeyBlanks
<1>5. NextKey' = NextKey
  <2> PICK f : f = deq[2].file
    OBVIOUS
  <2>1. FileTypes(f)' = FileTypes(f)
    BY SameData
  <2> QED BY <1>2, <2>1 DEF NextKey, Abs!KeyInfo
<1> PICK left : left = LeftRows
  OBVIOUS
<1> PICK right : right = RightRows
  OBVIOUS
<1> PICK k0 : k0 = AbsKey
  OBVIOUS
<1> PICK k1 : k1 = NextKey
  OBVIOUS
<1> PICK c0 : c0 = c_ids[1]
  OBVIOUS
<1> PICK c1 : c1 = c_ids[2]
  OBVIOUS
<1> PICK n : n = Width(deq[2].file)
  OBVIOUS
<1>6. Width(deq[2].file)' = n
  BY <1>2 DEF Width
<1>7. FirstPart' = FirstPart
  <2>1. Abs!LeftPart(left, right, c0, c1, n, k0, k1)' = Abs!LeftPart(left, right, c0, c1, n, k0, k1)
    BY SameRelation
  <2> QED BY <1>1, <1>4, <1>5, <1>6, <2>1 DEF FirstPart
<1>8. Rest' = Rest
  <2>1. Abs!Unmatched(left, right, c0, c1, k0, k1)' = Abs!Unmatched(left, right, c0, c1, k0, k1)
    BY SameRelation
  <2> QED BY <1>1, <1>4, <1>5, <2>1 DEF Rest
<1> PICK w : w = Abs!TotalWidth(Joined)
  OBVIOUS
<1>9. Abs!TotalWidth(Joined)' = w
  <2> PICK j : j = Joined
    OBVIOUS
  <2>1. Abs!TotalWidth(j)' = Abs!TotalWidth(j)
    BY SameData
  <2> QED BY <1>1, <2>1
<1>10. RestPadded' = RestPadded
  <2> PICK rest : rest = Rest
    OBVIOUS
  <2>1. RestPadded = [i \in DOMAIN rest |-> Abs!PadLeft(rest[i], w)]
    BY DEF RestPadded
  <2>2. RestPadded' = [i \in DOMAIN rest |-> Abs!PadLeft(rest[i], w)]
    BY <1>8, <1>9 DEF RestPadded, Abs!PadLeft
  <2> QED BY <2>1, <2>2
<1>11. BothSides' = BothSides
  <2>1. BothSides = [i \in 1..(IF Len(left) > Len(right) THEN Len(left) ELSE Len(right)) |->
                       InRow(left, i, w) \o InRow(right, i, n)]
    BY DEF BothSides
  <2>2. BothSides' = [i \in 1..(IF Len(left) > Len(right) THEN Len(left) ELSE Len(right)) |->
                       InRow(left, i, w) \o InRow(right, i, n)]
    BY <1>1, <1>6, <1>9 DEF BothSides, InRow
  <2> QED BY <2>1, <2>2
<1> QED BY <1>1, <1>3, <1>4, <1>5, <1>7, <1>8, <1>10, <1>11

-------------------------------------------------------------------------------
(* The comparison of two keys is that of RelationalJoin.                     *)

\* The rows that RelationalJoin takes to match.
Matching(l, r) == Abs!Same(l, r, c_ids[1], c_ids[2], AbsKey, NextKey)
\* A hash table compares keys as RelationalJoin does: as numbers, or else as texts.
Agree(h, u, v, number) ==
  KeysEqual(h, u, v) <=>
    IF Absent(u) \/ Absent(v) THEN Absent(u) /\ Absent(v)
    ELSE IF number THEN NumberOf[u] = NumberOf[v] ELSE u = v

\* KeysEqual is that comparison if the blanks of the table tell of every null.
LEMMA KeysCompare ==
  ASSUME NEW h, NEW u, NEW v, NEW number \in BOOLEAN,
         Absent(u) \/ Absent(v) => h.blanks,
         (~AsText(h) /\ h.type = "number") <=> number
  PROVE  Agree(h, u, v, number)
<1>1. NullAware(h) /\ (u \in Nulls \/ v \in Nulls) <=> Absent(u) \/ Absent(v)
  BY DEF NullAware, Absent
<1>2. CASE Absent(u) \/ Absent(v)
  <2>1. ~args.blanks
    BY <1>2 DEF Absent
  <2>2. KeysEqual(h, u, v) <=> u \in Nulls /\ v \in Nulls
    BY <1>1, <1>2 DEF KeysEqual
  <2> QED BY <1>2, <2>1, <2>2 DEF Absent, Agree
<1>3. CASE ~(Absent(u) \/ Absent(v))
  <2>1. CASE number
    BY <1>1, <1>3, <2>1 DEF KeysEqual, Agree
  <2>2. CASE ~number
    BY <1>1, <1>3, <2>2 DEF KeysEqual, Agree
  <2> QED BY <2>1, <2>2
<1> QED BY <1>2, <1>3

\* The key of the joined table is that of the first in the deque.
LEMMA KeyOfFront ==
  ASSUME 1 \in DOMAIN c_ids, ~IsUnion
  PROVE  AbsKey.type = KeyTypeOf(1) /\ AbsKey.nulls = KeyBlanks(1)
<1>1. c_ids # <<>>
  OBVIOUS
<1> QED BY <1>1 DEF AbsKey

\* In either pass the two rows match for join() exactly if they do for RelationalJoin.
LEMMA KeysAgree ==
  ASSUME JoinInv, RowInv, KeyInv, AccInv, pc \in KeyedPcs,
         NEW i \in DOMAIN LeftRows, NEW j \in DOMAIN RightRows,
         NEW l, l = LeftRows[i], NEW r, r = RightRows[j]
  PROVE  /\ KeysEqual(NewHash(RightRows, 2), Value(r[c_ids[2]]), Value(l[c_ids[1]])) <=> Matching(l, r)
         /\ KeysEqual(NewHash(LeftRows, 1), Value(l[c_ids[1]]), Value(r[c_ids[2]])) <=> Matching(l, r)
<1>1. ~IsUnion /\ SameTypes /\ pc \in JoiningPcs
  BY DEF RowInv, Keyed, KeyedPcs, JoiningPcs
<1>2. /\ KeyTold(1, LeftRows) /\ KeyTold(2, RightRows)
      /\ 1 \in DOMAIN c_ids /\ 2 \in DOMAIN c_ids
  BY <1>1, KeysInFront DEF KeyInv
<1> PICK u : u = Value(r[c_ids[2]])
  OBVIOUS
<1> PICK v : v = Value(l[c_ids[1]])
  OBVIOUS
<1>3. (Absent(v) => KeyBlanks(1)) /\ (Absent(u) => KeyBlanks(2))
  <2>1. Told(KeyTypeOf(1), KeyBlanks(1), v)
    BY <1>2 DEF KeyTold, ColumnTold
  <2>2. Told(KeyTypeOf(2), KeyBlanks(2), u)
    BY <1>2 DEF KeyTold, ColumnTold
  <2> QED BY <2>1, <2>2 DEF Told
<1>4. AbsKey.type = KeyTypeOf(1)
  BY <1>1, <1>2, KeyOfFront
<1>5. /\ Abs!Comparable(AbsKey, NextKey)
      /\ ~args.no_inference => Abs!KeyType(AbsKey, NextKey) = AbsKey.type
  BY <1>1 DEF AccInv, Compared
<1>6. \A k \in {1, 2} : KeyTypeOf(k) = "number" => ~args.no_inference /\ ~(args.blanks /\ KeyBlanks(k))
  BY <1>2 DEF AccInv, PlainKeys
<1> PICK type : type = Abs!KeyType(AbsKey, NextKey)
  OBVIOUS
<1>7. /\ type = "number" => KeyTypeOf(1) = "number"
      /\ ~args.no_inference => type = KeyTypeOf(1) /\ KeyTypeOf(1) = KeyTypeOf(2)
  BY <1>1, <1>4, <1>5 DEF Abs!KeyType, SameTypes
<1> PICK number \in BOOLEAN : number <=> type = "number"
  OBVIOUS
<1>8. Matching(l, r) <=> IF Absent(u) \/ Absent(v) THEN Absent(u) /\ Absent(v)
                         ELSE IF number THEN NumberOf[u] = NumberOf[v] ELSE u = v
  <2>1. Matching(l, r) <=> Abs!SameKey(type, l[c_ids[1]], r[c_ids[2]])
    BY <1>5 DEF Matching, Abs!Same
  <2>2. Abs!SameKey(type, l[c_ids[1]], r[c_ids[2]]) <=>
          IF Absent(v) \/ Absent(u) THEN Absent(v) /\ Absent(u)
          ELSE IF type = "number" THEN NumberOf[v] = NumberOf[u] ELSE v = u
    <3>1. Abs!Value(l[c_ids[1]]) = v /\ Abs!Value(r[c_ids[2]]) = u
      BY SameFiles
    <3>2. (Abs!Absent(v) <=> Absent(v)) /\ (Abs!Absent(u) <=> Absent(u))
      BY SameFiles
    <3> QED BY <3>1, <3>2 DEF Abs!SameKey
  <2> QED BY <2>1, <2>2
<1>9. ASSUME NEW k \in {1, 2}, NEW rows
      PROVE  Agree(NewHash(rows, k), u, v, number) /\ Agree(NewHash(rows, k), v, u, number)
  <2> PICK h : h = NewHash(rows, k)
    OBVIOUS
  <2>1. h.type = KeyTypeOf(k) /\ (h.blanks <=> KeyBlanks(1) \/ KeyBlanks(2))
    BY DEF NewHash
  <2>2. Absent(u) \/ Absent(v) => h.blanks
    BY <1>3, <2>1
  <2>3. (~AsText(h) /\ h.type = "number") <=> number
    BY <1>6, <1>7, <2>1 DEF AsText
  <2>4. Agree(h, u, v, number)
    BY <2>2, <2>3, KeysCompare
  <2>5. Agree(h, v, u, number)
    BY <2>2, <2>3, KeysCompare
  <2> QED BY <2>4, <2>5
<1>10. KeysEqual(NewHash(RightRows, 2), u, v) <=> Matching(l, r)
  BY <1>8, <1>9 DEF Agree
<1>11. KeysEqual(NewHash(LeftRows, 1), v, u) <=> Matching(l, r)
  BY <1>8, <1>9 DEF Agree
<1> QED BY <1>10, <1>11

-------------------------------------------------------------------------------
(* Lists of lists with at most one element each.                             *)

LEMMA OneElement ==
  ASSUME NEW x
  PROVE  IsSeq(<<x>>) /\ Len(<<x>>) = 1 /\ <<x>>[1] = x
<1>1. <<x>> \in Seq({x}) /\ Len(<<x>>) = 1 /\ <<x>>[1] = x
  OBVIOUS
<1> QED BY <1>1, SeqIsSeq

\* Lists of one element each, put together.
LEMMA FlattenSingles ==
  ASSUME NEW s, IsSeq(s), NEW slots, slots = [i \in DOMAIN s |-> <<s[i]>>]
  PROVE  FlattenSeq(slots) = s
<1>1. Len(s) \in Nat /\ DOMAIN s = 1..Len(s)
  BY IsSeqFacts
<1>2. IsSeq(slots) /\ Len(slots) = Len(s)
  <2>1. slots = [i \in 1..Len(s) |-> slots[i]]
    BY <1>1
  <2> QED BY <1>1, <2>1, IsSeqFunction
<1>3. \A i \in DOMAIN slots : IsSeq(slots[i]) /\ Len(slots[i]) = 1 /\ slots[i][1] = s[i]
  <2> TAKE i \in DOMAIN slots
  <2> PICK x : x = s[i]
    OBVIOUS
  <2>1. slots[i] = <<x>>
    OBVIOUS
  <2> QED BY <2>1, OneElement
<1> PICK flat : flat = FlattenSeq(slots)
  OBVIOUS
<1>4. Grouped(flat, slots, 1)
  BY <1>2, <1>3, FlattenGroups DEF InGroups
<1>5. IsSeq(flat) /\ Len(flat) = Len(s)
  <2>1. IsSeq(flat) /\ Len(flat) = 1 * Len(slots)
    BY <1>4 DEF Grouped
  <2>2. \A m \in Nat : 1 * m = m
    OBVIOUS
  <2> QED BY <1>1, <1>2, <2>1, <2>2
<1>6. \A i \in 1..Len(s) : flat[i] = s[i]
  <2> TAKE i \in 1..Len(s)
  <2>1. i \in DOMAIN slots /\ 1 \in 1..1 /\ 1 * (i - 1) + 1 = i
    BY <1>1
  <2>2. flat[1 * (i - 1) + 1] = slots[i][1]
    BY <1>4, <2>1 DEF Grouped
  <2> QED BY <1>3, <2>1, <2>2
<1> QED BY <1>5, <1>6, IsSeqSame

\* Lists of none.
LEMMA FlattenNothing ==
  ASSUME NEW slots, IsSeq(slots), \A i \in DOMAIN slots : slots[i] = <<>>
  PROVE  FlattenSeq(slots) = <<>>
<1> PICK flat : flat = FlattenSeq(slots)
  OBVIOUS
<1>1. Len(slots) \in Nat /\ DOMAIN slots = 1..Len(slots) /\ IsSeq(<<>>) /\ Len(<<>>) = 0
  BY IsSeqFacts, IsSeqEmpty
<1>2. Gathered(flat, slots, Len(slots))
  BY <1>1, FlattenFacts
<1>3. IsSeq(flat) /\ DOMAIN flat = {}
  <2>1. IsSeq(flat) /\ \A m \in DOMAIN flat : \E i \in 1..Len(slots) : \E k \in DOMAIN slots[i] :
                          flat[m] = slots[i][k]
    BY <1>2 DEF Gathered
  <2>2. \A i \in 1..Len(slots) : DOMAIN slots[i] = {}
    BY <1>1
  <2> QED BY <2>1, <2>2
<1>4. Len(flat) \in Nat /\ DOMAIN flat = 1..Len(flat)
  BY <1>3, IsSeqFacts
<1>5. Len(flat) = 0
  BY <1>3, <1>4
<1> QED BY <1>1, <1>3, <1>5, IsSeqSame

\* The one list is the other with every element padded.
PaddedAs(b, a, w) ==
  IsSeq(b) /\ IsSeq(a) /\ Len(b) = Len(a) /\ \A k \in 1..Len(a) : b[k] = Padding(w) \o a[k]

LEMMA PaddedConcat ==
  ASSUME NEW w, NEW a1, NEW b1, PaddedAs(b1, a1, w), NEW a2, NEW b2, PaddedAs(b2, a2, w)
  PROVE  PaddedAs(b1 \o b2, a1 \o a2, w)
<1>0. IsSeq(a1) /\ IsSeq(a2) /\ IsSeq(b1) /\ IsSeq(b2)
  BY DEF PaddedAs
<1> PICK a : a = a1 \o a2
  OBVIOUS
<1> PICK b : b = b1 \o b2
  OBVIOUS
<1>1. /\ IsSeq(a) /\ Len(a) = Len(a1) + Len(a2)
      /\ \A i \in 1..Len(a1) : a[i] = a1[i]
      /\ \A i \in 1..Len(a2) : a[Len(a1) + i] = a2[i]
  BY <1>0, IsSeqConcat
<1>2. /\ IsSeq(b) /\ Len(b) = Len(b1) + Len(b2)
      /\ \A i \in 1..Len(b1) : b[i] = b1[i]
      /\ \A i \in 1..Len(b2) : b[Len(b1) + i] = b2[i]
  BY <1>0, IsSeqConcat
<1>3. Len(a1) \in Nat /\ Len(a2) \in Nat
  BY <1>0, IsSeqFacts
<1>4. /\ Len(b1) = Len(a1) /\ \A k \in 1..Len(a1) : b1[k] = Padding(w) \o a1[k]
      /\ Len(b2) = Len(a2) /\ \A k \in 1..Len(a2) : b2[k] = Padding(w) \o a2[k]
  BY DEF PaddedAs
<1>5. ASSUME NEW k \in 1..Len(a) PROVE b[k] = Padding(w) \o a[k]
  <2>1. CASE k \in 1..Len(a1)
    BY <1>1, <1>2, <1>4, <2>1
  <2>2. CASE k \notin 1..Len(a1)
    <3> PICK m : m = k - Len(a1)
      OBVIOUS
    <3>1. m \in 1..Len(a2) /\ Len(a1) + m = k
      BY <1>1, <1>3, <2>2
    <3>2. a[k] = a2[m] /\ b[k] = b2[m]
      BY <1>1, <1>2, <1>4, <3>1
    <3> QED BY <1>4, <3>1, <3>2
  <2> QED BY <2>1, <2>2
<1> QED BY <1>1, <1>2, <1>3, <1>4, <1>5 DEF PaddedAs

\* Every element of the one list padded in the other.
PaddedSlots(more, slots, w) ==
  /\ IsSeq(slots) /\ IsSeq(more) /\ Len(more) = Len(slots)
  /\ \A i \in DOMAIN slots :
       \/ slots[i] = <<>> /\ more[i] = <<>>
       \/ \E r : slots[i] = <<r>> /\ more[i] = <<Padding(w) \o r>>

LEMMA FlattenPadded ==
  ASSUME NEW w, NEW slots, NEW more, PaddedSlots(more, slots, w)
  PROVE  PaddedAs(FlattenSeq(more), FlattenSeq(slots), w)
<1> DEFINE P(n) == PaddedAs(FlattenSeq(SubSeq(more, 1, n)), FlattenSeq(SubSeq(slots, 1, n)), w)
<1> DEFINE S == {n \in Nat : n \in 0..Len(slots) => P(n)}
<1>0. IsSeq(slots) /\ IsSeq(more) /\ Len(more) = Len(slots)
  BY DEF PaddedSlots
<1>1. Len(slots) \in Nat /\ DOMAIN slots = 1..Len(slots) /\ DOMAIN more = 1..Len(slots)
  BY <1>0, IsSeqFacts
<1>2. \A i \in 1..Len(slots) : PaddedAs(more[i], slots[i], w)
  <2> TAKE i \in 1..Len(slots)
  <2>1. CASE slots[i] = <<>> /\ more[i] = <<>>
    BY <2>1, IsSeqEmpty DEF PaddedAs
  <2>2. ASSUME NEW r, slots[i] = <<r>>, more[i] = <<Padding(w) \o r>> PROVE PaddedAs(more[i], slots[i], w)
    <3> PICK x : x = Padding(w) \o r
      OBVIOUS
    <3>1. more[i] = <<x>> /\ slots[i] = <<r>>
      BY <2>2
    <3> PICK b : b = <<x>>
      OBVIOUS
    <3> PICK a : a = <<r>>
      OBVIOUS
    <3>2. IsSeq(b) /\ Len(b) = 1 /\ b[1] = x
      BY OneElement
    <3>3. IsSeq(a) /\ Len(a) = 1 /\ a[1] = r
      BY OneElement
    <3>4. PaddedAs(b, a, w)
      BY <3>2, <3>3 DEF PaddedAs
    <3> QED BY <3>1, <3>4
  <2> QED BY <1>1, <2>1, <2>2 DEF PaddedSlots
<1>3. \A i \in 1..Len(slots) : IsSeq(more[i]) /\ IsSeq(slots[i])
  BY <1>2 DEF PaddedAs
<1>4. 0 \in S
  <2>1. 0 \in 0..Len(slots)
    BY <1>1
  <2>2. FlattenSeq(SubSeq(slots, 1, 0)) = <<>>
    BY <1>0, <1>1, <1>3, <2>1, FlattenFirst
  <2>3. FlattenSeq(SubSeq(more, 1, 0)) = <<>>
    BY <1>0, <1>1, <1>3, <2>1, FlattenFirst
  <2> QED BY <2>2, <2>3, IsSeqEmpty DEF PaddedAs
<1>5. ASSUME NEW n \in Nat, n \in S PROVE n + 1 \in S
  <2> SUFFICES ASSUME n + 1 \in 0..Len(slots) PROVE P(n + 1)
    OBVIOUS
  <2>1. n \in 0..Len(slots) /\ n < Len(slots) /\ n + 1 \in 1..Len(slots)
    BY <1>1
  <2>2. P(n)
    BY <1>5, <2>1
  <2>3. FlattenSeq(SubSeq(slots, 1, n + 1)) = FlattenSeq(SubSeq(slots, 1, n)) \o slots[n + 1]
    BY <1>0, <1>1, <1>3, <2>1, FlattenFirst
  <2>4. FlattenSeq(SubSeq(more, 1, n + 1)) = FlattenSeq(SubSeq(more, 1, n)) \o more[n + 1]
    BY <1>0, <1>1, <1>3, <2>1, FlattenFirst
  <2>5. PaddedAs(more[n + 1], slots[n + 1], w)
    BY <1>2, <2>1
  <2> QED BY PaddedConcat, <2>2, <2>3, <2>4, <2>5
<1>6. Len(slots) \in S
  <2> HIDE DEF S
  <2> QED BY <1>1, <1>4, <1>5, Induction
<1>7. PaddedAs(FlattenSeq(more), FlattenSeq(slots), w)
  <2>1. P(Len(slots))
    BY <1>1, <1>6
  <2> QED BY <1>0, <2>1, WholeIsSubSeq
<1> QED BY <1>7

LEMMA PaddedSame ==
  ASSUME NEW w, NEW a, NEW b, PaddedAs(b, a, w)
  PROVE  b = [k \in DOMAIN a |-> Padding(w) \o a[k]]
<1> PICK c : c = [k \in DOMAIN a |-> Padding(w) \o a[k]]
  OBVIOUS
<1>1. IsSeq(a) /\ IsSeq(b) /\ Len(b) = Len(a) /\ \A k \in 1..Len(a) : b[k] = Padding(w) \o a[k]
  BY DEF PaddedAs
<1>2. Len(a) \in Nat /\ DOMAIN a = 1..Len(a)
  BY <1>1, IsSeqFacts
<1>3. IsSeq(c) /\ Len(c) = Len(a)
  <2>1. c = [k \in 1..Len(a) |-> c[k]]
    BY <1>2
  <2> QED BY <1>2, <2>1, IsSeqFunction
<1>4. \A k \in 1..Len(b) : b[k] = c[k]
  BY <1>1, <1>2
<1>5. b = c
  BY <1>1, <1>3, <1>4, IsSeqSame
<1> QED BY <1>5

-------------------------------------------------------------------------------
(* What the rows of the left table contribute.                               *)

\* The right rows that match a left one, and what the left one contributes.
MatchedBy(l) == RowsAt(RightRows, {j \in DOMAIN RightRows : Matching(l, RightRows[j])})
Contributed(l) ==
  IF MatchedBy(l) = <<>> THEN IF args.kind = "inner" THEN <<>> ELSE <<PadRight(l)>>
  ELSE [i \in DOMAIN MatchedBy(l) |-> Glue(l, MatchedBy(l)[i])]

\* No row is taken from a table exactly if no index is one of its rows.
LEMMA RowsAtNone ==
  ASSUME NEW rows, RowsOK(rows), NEW I
  PROVE  RowsAt(rows, I) = <<>> <=> DOMAIN rows \cap I = {}
<1> PICK s : s = RowsAt(rows, I)
  OBVIOUS
<1>1. RowsOK(s) /\ (DOMAIN s = {} <=> DOMAIN rows \cap I = {})
  BY RowsAtFacts
<1>2. IsSeq(s)
  BY <1>1 DEF RowsOK
<1>3. Len(s) \in Nat /\ DOMAIN s = 1..Len(s) /\ IsSeq(<<>>) /\ Len(<<>>) = 0
  BY <1>2, IsSeqFacts, IsSeqEmpty
<1>4. ASSUME DOMAIN s = {} PROVE s = <<>>
  <2>1. Len(s) = 0
    BY <1>3, <1>4
  <2> QED BY <1>2, <1>3, <2>1, IsSeqSame
<1>5. s = <<>> => DOMAIN s = {}
  OBVIOUS
<1> QED BY <1>1, <1>4, <1>5

\* The first part of the result, in the terms of join().
LEMMA FirstPartIs ==
  ASSUME JoinInv, RowInv, ShapeInv, pc \in JoiningPcs, ~IsUnion
  PROVE  FirstPart = FlattenSeq([i \in DOMAIN LeftRows |-> Contributed(LeftRows[i])])
<1>1. Len(ts_n_blanks[2].types) = Width(deq[2].file)
  BY InProgress, InShape
<1>2. (Abs!KeepsLeft <=> args.kind # "inner") /\ (Abs!IsOuter <=> IsOuter)
  BY DEF ShapeInv, ValidArgs, Abs!KeepsLeft, Abs!IsOuter, IsOuter
<1> PICK w : w = Width(deq[2].file)
  OBVIOUS
<1> PICK c1 : c1 = c_ids[2]
  OBVIOUS
<1> PICK left : left = LeftRows
  OBVIOUS
<1> PICK right : right = RightRows
  OBVIOUS
<1> DEFINE Found(l) == Abs!RowsAt(right, {j \in DOMAIN right : Matching(l, right[j])})
<1>3. ASSUME NEW l PROVE Abs!Contribution(l, Found(l), c1, w) = Contributed(l)
  <2> PICK m : m = MatchedBy(l)
    OBVIOUS
  <2>1. Found(l) = m
    BY SameLists DEF MatchedBy
  <2>2. Abs!PadRight(l, w) = PadRight(l)
    <3>1. \A n : Abs!Padding(n) = Padding(n)
      BY SameFiles
    <3>2. CASE IsOuter
      <4>1. Abs!PadRight(l, w) = l \o Padding(w)
        BY <1>2, <3>1, <3>2 DEF Abs!PadRight
      <4>2. PadRight(l) = l \o Padding(w - 0)
        BY <1>1, <3>2 DEF PadRight
      <4>3. w - 0 = w
        BY InProgress, WidthFacts
      <4> QED BY <4>1, <4>2, <4>3
    <3>3. CASE ~IsOuter
      <4>1. Abs!PadRight(l, w) = l \o Padding(w - 1)
        BY <1>2, <3>1, <3>3 DEF Abs!PadRight
      <4>2. PadRight(l) = l \o Padding(w - 1)
        BY <1>1, <3>3 DEF PadRight
      <4> QED BY <4>1, <4>2
    <3> QED BY <3>2, <3>3
  <2>3. \A r : Abs!Glue(l, r, c1) = Glue(l, r)
    <3>1. \A s, i : Abs!RemoveAt(s, i) = RemoveAt(s, i)
      BY SameLists
    <3> QED BY <1>2, <3>1 DEF Abs!Glue, Glue
  <2>4. CASE m = <<>>
    BY <1>2, <2>1, <2>2, <2>4 DEF Abs!Contribution, Contributed
  <2>5. CASE m # <<>>
    <3>1. Abs!Contribution(l, m, c1, w) = [i \in DOMAIN m |-> Glue(l, m[i])]
      BY <2>3, <2>5 DEF Abs!Contribution
    <3>2. Contributed(l) = [i \in DOMAIN m |-> Glue(l, m[i])]
      BY <2>5 DEF Contributed
    <3> QED BY <2>1, <3>1, <3>2
  <2> QED BY <2>4, <2>5
<1>4. FirstPart = FlattenSeq([i \in DOMAIN left |-> Abs!Contribution(left[i], Found(left[i]), c1, w)])
  <2> PICK slots : slots = [i \in DOMAIN left |-> Abs!Contribution(left[i], Found(left[i]), c1, w)]
    OBVIOUS
  <2>1. FirstPart = Abs!FlattenSeq(slots)
    BY DEF FirstPart, Abs!LeftPart, Matching
  <2> QED BY <2>1, SameLists
<1> HIDE DEF Found
<1>5. [i \in DOMAIN left |-> Abs!Contribution(left[i], Found(left[i]), c1, w)] =
        [i \in DOMAIN left |-> Contributed(left[i])]
  BY <1>3
<1> QED BY <1>4, <1>5

\* Where nothing matches only the rows themselves are left, padded.
LEMMA NothingMatches ==
  ASSUME JoinInv, RowInv, ShapeInv, pc \in JoiningPcs, ~IsUnion,
         \A i \in DOMAIN LeftRows : MatchedBy(LeftRows[i]) = <<>>
  PROVE  FirstPart = IF args.kind = "inner" THEN <<>>
                     ELSE [i \in DOMAIN LeftRows |-> PadRight(LeftRows[i])]
<1> PICK left : left = LeftRows
  OBVIOUS
<1> PICK slots : slots = [i \in DOMAIN left |-> Contributed(left[i])]
  OBVIOUS
<1>1. FirstPart = FlattenSeq(slots)
  BY FirstPartIs
<1>2. IsSeq(left) /\ Len(left) \in Nat /\ DOMAIN left = 1..Len(left)
  <2>1. RowsOK(LeftRows)
    BY InProgress DEF Kept
  <2> QED BY <2>1, IsSeqFacts DEF RowsOK
<1>3. CASE args.kind = "inner"
  <2>1. slots = [i \in 1..Len(left) |-> slots[i]]
    BY <1>2
  <2>2. IsSeq(slots) /\ DOMAIN slots = DOMAIN left
    BY <1>2, <2>1, IsSeqFunction
  <2>3. \A i \in DOMAIN slots : slots[i] = <<>>
    BY <1>3, <2>2 DEF Contributed
  <2> QED BY <1>1, <1>3, <2>2, <2>3, FlattenNothing
<1>4. CASE args.kind # "inner"
  <2> PICK s : s = [i \in DOMAIN left |-> PadRight(left[i])]
    OBVIOUS
  <2>1. s = [i \in 1..Len(left) |-> s[i]]
    BY <1>2
  <2>2. IsSeq(s) /\ DOMAIN s = DOMAIN left
    BY <1>2, <2>1, IsSeqFunction
  <2>3. \A i \in DOMAIN left : Contributed(left[i]) = <<s[i]>>
    BY <1>4 DEF Contributed
  <2>4. slots = [i \in DOMAIN s |-> <<s[i]>>]
    BY <2>2, <2>3
  <2>5. FlattenSeq(slots) = s
    BY <2>2, <2>4, FlattenSingles
  <2> QED BY <1>1, <1>4, <2>5
<1> QED BY <1>3, <1>4

\* What a worker of the first pass finds for a row is what the row contributes.
LEMMA LeftRowSame ==
  ASSUME JoinInv, RowInv, ShapeInv, KeyInv, AccInv, pc = "first", NEW i \in DOMAIN LeftRows
  PROVE  LeftRow(LeftRows[i]) = Contributed(LeftRows[i])
<1> PICK l : l = LeftRows[i]
  OBVIOUS
<1> PICK right : right = RightRows
  OBVIOUS
<1>1. hash = NewHash(right, 2) /\ pc \in KeyedPcs
  BY DEF RowInv, Opened, KeyedPcs
<1>2. hash.rows = right /\ hash.col = c_ids[2]
  BY <1>1 DEF NewHash
<1>3. \A j \in DOMAIN right :
        KeysEqual(hash, Value(right[j][c_ids[2]]), Value(l[c_ids[1]])) <=> Matching(l, right[j])
  BY <1>1, KeysAgree
<1>4. Matches(hash, l[c_ids[1]]) = {j \in DOMAIN right : Matching(l, right[j])}
  BY <1>2, <1>3 DEF Matches
<1>5. Find(hash, l[c_ids[1]]) = MatchedBy(l)
  BY <1>2, <1>4 DEF Find, MatchedBy
<1> QED BY <1>5 DEF LeftRow, Contributed

-------------------------------------------------------------------------------
(* The rows of the right table that nothing matches.                         *)

\* A right row that matches no left one.
Alone(r) == \A i \in DOMAIN LeftRows : ~Matching(LeftRows[i], r)

\* The second part of the result is made of those rows.
LEMMA RestIs ==
  /\ Rest = RowsAt(RightRows, {j \in DOMAIN RightRows : Alone(RightRows[j])})
  /\ RowsOK(RightRows) => (Rest = <<>> <=> \A j \in DOMAIN RightRows : ~Alone(RightRows[j]))
<1> PICK right : right = RightRows
  OBVIOUS
<1>1. Rest = RowsAt(right, {j \in DOMAIN right : Alone(right[j])})
  BY SameLists DEF Rest, Abs!Unmatched, Alone, Matching
<1>2. ASSUME RowsOK(right) PROVE Rest = <<>> <=> \A j \in DOMAIN right : ~Alone(right[j])
  <2> PICK I : I = {j \in DOMAIN right : Alone(right[j])}
    OBVIOUS
  <2>1. Rest = <<>> <=> DOMAIN right \cap I = {}
    BY <1>1, <1>2, RowsAtNone
  <2> QED BY <2>1
<1> QED BY <1>1, <1>2

\* A worker of the second pass keeps the row if it is one of them.
LEMMA RightRowSame ==
  ASSUME JoinInv, RowInv, ShapeInv, KeyInv, AccInv, pc = "second", NEW j \in DOMAIN RightRows
  PROVE  RightRow(RightRows[j]) = IF Alone(RightRows[j]) THEN <<PadLeft(RightRows[j])>> ELSE <<>>
<1> PICK r : r = RightRows[j]
  OBVIOUS
<1> PICK left : left = LeftRows
  OBVIOUS
<1>1. hash = NewHash(left, 1) /\ pc \in KeyedPcs /\ pc \in JoiningPcs
  BY DEF RowInv, Opened, KeyedPcs, JoiningPcs
<1>2. hash.rows = left /\ hash.col = c_ids[1]
  BY <1>1 DEF NewHash
<1>3. \A i \in DOMAIN left :
        KeysEqual(hash, Value(left[i][c_ids[1]]), Value(r[c_ids[2]])) <=> Matching(left[i], r)
  BY <1>1, KeysAgree
<1> PICK I : I = Matches(hash, r[c_ids[2]])
  OBVIOUS
<1>4. I = {i \in DOMAIN left : Matching(left[i], r)}
  BY <1>2, <1>3 DEF Matches
<1>5. RowsOK(left)
  BY <1>1, InProgress DEF Kept
<1>6. Find(hash, r[c_ids[2]]) = RowsAt(left, I)
  BY <1>2 DEF Find
<1>7. RowsAt(left, I) = <<>> <=> Alone(r)
  BY <1>4, <1>5, RowsAtNone DEF Alone
<1> QED BY <1>6, <1>7 DEF RightRow

\* The slots of the second pass put together are the second part of the result.
LEMMA SecondPart ==
  ASSUME JoinInv, RowInv, ShapeInv, KeyInv, AccInv, pc = "second"
  PROVE  /\ FlattenSeq([j \in DOMAIN RightRows |-> RightRow(RightRows[j])]) = RestPadded
         /\ Rest # <<>> <=> \E j \in DOMAIN RightRows : RightRow(RightRows[j]) # <<>>
<1> PICK right : right = RightRows
  OBVIOUS
<1>1. pc \in JoiningPcs /\ pc \in KeyedPcs /\ IsOuter
  BY DEF JoiningPcs, KeyedPcs, RowInv, Keyed
<1>2. IsSeq(right) /\ RowsOK(right) /\ Len(right) \in Nat /\ DOMAIN right = 1..Len(right)
  <2>1. RowsOK(right)
    BY <1>1, InProgress
  <2> QED BY <2>1, IsSeqFacts DEF RowsOK
<1> PICK w : w = Abs!TotalWidth(Joined)
  OBVIOUS
<1>3. Len(ts_n_blanks[1].types) = w
  <2>1. KeysIn /\ Len(ts_n_blanks[1].types) = Len(JoinedColumns(Joined)) /\ Joined \in 1..N
    BY <1>1, InShape, InProgress
  <2> QED BY <1>1, <2>1, KeptWidth DEF ShapeInv, KeepsKey
<1> PICK U : U = {j \in DOMAIN right : Alone(right[j])}
  OBVIOUS
<1> PICK slots : slots = [j \in DOMAIN right |-> IF j \in U THEN <<right[j]>> ELSE <<>>]
  OBVIOUS
<1> PICK more : more = [j \in DOMAIN right |-> RightRow(right[j])]
  OBVIOUS
<1>4. IsSeq(slots) /\ IsSeq(more) /\ Len(slots) = Len(right) /\ Len(more) = Len(right)
  <2>1. slots = [j \in 1..Len(right) |-> slots[j]]
    BY <1>2
  <2>2. more = [j \in 1..Len(right) |-> more[j]]
    BY <1>2
  <2> QED BY <1>2, <2>1, <2>2, IsSeqFunction
<1>5. \A j \in DOMAIN right : RightRow(right[j]) = IF j \in U THEN <<Padding(w) \o right[j]>> ELSE <<>>
  BY <1>3, RightRowSame DEF PadLeft
<1>6. ASSUME NEW j \in DOMAIN slots
      PROVE  \/ slots[j] = <<>> /\ more[j] = <<>>
             \/ \E r : slots[j] = <<r>> /\ more[j] = <<Padding(w) \o r>>
  <2>1. j \in DOMAIN right
    OBVIOUS
  <2>2. CASE j \in U
    <3>1. slots[j] = <<right[j]>> /\ more[j] = <<Padding(w) \o right[j]>>
      BY <1>5, <2>1, <2>2
    <3> QED BY <3>1
  <2>3. CASE j \notin U
    BY <1>5, <2>1, <2>3
  <2> QED BY <2>2, <2>3
<1> PICK rest : rest = Rest
  OBVIOUS
<1>7. rest = FlattenSeq(slots)
  BY RestIs DEF RowsAt
<1>8. FlattenSeq(more) = [k \in DOMAIN rest |-> Padding(w) \o rest[k]]
  <2>1. Len(more) = Len(slots)
    BY <1>4
  <2>2. PaddedSlots(more, slots, w)
    BY <1>4, <1>6, <2>1 DEF PaddedSlots
  <2>3. PaddedAs(FlattenSeq(more), rest, w)
    BY <1>7, <2>2, FlattenPadded
  <2> QED BY <2>3, PaddedSame
<1>9. RestPadded = [k \in DOMAIN rest |-> Padding(w) \o rest[k]]
  BY SameFiles DEF RestPadded, Abs!PadLeft
<1>10. rest # <<>> <=> \E j \in DOMAIN right : RightRow(right[j]) # <<>>
  <2>1. \A j \in DOMAIN right : RightRow(right[j]) # <<>> <=> j \in U
    <3>1. \A x : <<x>> # <<>>
      OBVIOUS
    <3> QED BY <1>5, <3>1
  <2>2. rest = <<>> <=> \A j \in DOMAIN right : ~Alone(right[j])
    BY <1>2, RestIs
  <2> QED BY <2>1, <2>2
<1> QED BY <1>8, <1>9, <1>10

-------------------------------------------------------------------------------
(* Most steps of join() are no step of RelationalJoin.                       *)

\* The invariant is kept, and the step is one of RelationalJoin or none.
AccKept == AccInv' /\ [Abs!AbsNext]_(Abs!absvars)

\* A step that only moves the reader of one of the first two files.
LEMMA FilesStay ==
  ASSUME JoinInv, RowInv, AccInv,
         args' = args, keys' = keys, headers' = headers, c_ids' = c_ids,
         ts_n_blanks' = ts_n_blanks,
         \/ deq' = deq
         \/ \E i \in DOMAIN deq : /\ i \in {1, 2} /\ deq[i].kind = "reader"
                                  /\ \E p \in 0..Body : deq' = At(i, p),
         pc' \in {"fill", "loop", "hash_right", "disjoint"} => pc' = pc /\ deq' = deq
  PROVE  /\ KeptFilesHaveRows' /\ FileKeys' /\ PlainKeys' /\ Waiting'
         /\ UNCHANGED Abs!absvars
<1>1. /\ DOMAIN deq = 1..Len(deq) /\ Len(deq) \in Nat /\ 1 \in DOMAIN deq /\ DOMAIN deq' = DOMAIN deq
      /\ \A i \in DOMAIN deq : /\ deq'[i].kind = deq[i].kind
                               /\ deq[i].kind = "reader" => deq'[i].file = deq[i].file
                               /\ deq[i].kind = "fake" => deq'[i] = deq[i]
      /\ Joined' = Joined
  BY SourcesMove
<1>2. /\ \A i \in DOMAIN deq : i # 1 => deq[i].kind = "reader"
      /\ \A i \in DOMAIN deq : deq[i].kind \in {"reader", "fake"}
  BY DEF JoinInv, TypeOK, DeqOK
<1>3. /\ DOMAIN c_ids \subseteq DOMAIN deq /\ DOMAIN headers \subseteq DOMAIN deq
  <2>1. Len(headers) \in Nat /\ DOMAIN headers = 1..Len(headers) /\ DOMAIN c_ids = 1..Len(c_ids)
        /\ (~IsUnion => Len(c_ids) = Len(headers)) /\ (IsUnion => c_ids = <<>>)
    BY Sizes DEF JoinInv, Lockstep
  <2>2. Len(headers) <= Len(deq)
    BY <1>1, <2>1 DEF JoinInv, Lockstep
  <2>3. DOMAIN headers \subseteq DOMAIN deq
    <3>1. \A m, n \in Nat : m <= n => 1..m \subseteq 1..n
      OBVIOUS
    <3>2. DOMAIN headers = 1..Len(headers) /\ DOMAIN deq = 1..Len(deq)
      BY <1>1, <2>1
    <3>3. Len(headers) \in Nat /\ Len(deq) \in Nat
      BY <1>1, <2>1
    <3> QED BY <2>2, <3>1, <3>2, <3>3
  <2>4. CASE IsUnion
    <3>1. DOMAIN c_ids = {}
      BY <2>1, <2>4
    <3> QED BY <2>3, <3>1
  <2>5. CASE ~IsUnion
    <3>1. DOMAIN c_ids = DOMAIN headers
      BY <2>1, <2>5
    <3> QED BY <2>3, <3>1
  <2> QED BY <2>4, <2>5
<1>4. KeptFilesHaveRows'
  <2>1. Nth(1)' = Nth(1)
    BY SameData
  <2> QED BY <2>1 DEF AccInv, KeptFilesHaveRows
<1>5. \A f : FileTypes(f)' = FileTypes(f)
  BY SameData
<1>6. FileKeys'
  <2> SUFFICES ASSUME NEW i \in DOMAIN c_ids, i # 1
               PROVE  /\ KeyBlanks(i) = FileTypes(deq[i].file)'.blanks[c_ids[i]]
                      /\ (i # 2 \/ pc' \in {"fill", "loop"}) =>
                           KeyTypeOf(i) = FileTypes(deq[i].file)'.types[c_ids[i]]
    BY DEF FileKeys, KeyBlanks, KeyTypeOf
  <2> PICK f : f = deq[i].file
    OBVIOUS
  <2>1. deq'[i].file = f
    BY <1>1, <1>2, <1>3
  <2>2. FileTypes(deq[i].file)' = FileTypes(f)
    BY <1>5, <2>1
  <2>3. /\ KeyBlanks(i) = FileTypes(f).blanks[c_ids[i]]
        /\ i # 2 \/ pc \in {"fill", "loop"} => KeyTypeOf(i) = FileTypes(f).types[c_ids[i]]
    BY DEF AccInv, FileKeys
  <2> QED BY <2>2, <2>3
<1>7. PlainKeys'
  BY DEF AccInv, PlainKeys, KeyTypeOf, KeyBlanks
<1>8. Waiting'
  <2> SUFFICES ASSUME NEW i \in DOMAIN headers,
                      i > 2 \/ (i = 2 /\ pc' \in {"fill", "loop", "hash_right", "disjoint"})
               PROVE  deq'[i].pos = Body
    BY DEF Waiting
  <2>1. i \in DOMAIN deq
    BY <1>3
  <2>2. deq[i].pos = Body
    BY <2>1 DEF AccInv, Waiting
  <2>3. CASE deq' = deq
    BY <2>2, <2>3
  <2>4. ASSUME NEW k \in DOMAIN deq, k \in {1, 2}, NEW p \in 0..Body, deq' = At(k, p), deq' # deq
        PROVE  deq'[i].pos = Body
    <3>1. i > 2
      BY <2>4
    <3>2. i # k
      BY <1>1, <2>1, <2>4, <3>1
    <3> QED BY <2>1, <2>2, <2>4, <3>2 DEF At
  <2> QED BY <2>3, <2>4
<1>9. UNCHANGED Abs!absvars
  <2>1. AbsAcc' = AbsAcc
    <3>1. CASE deq[1].kind = "fake"
      BY <1>1, <3>1 DEF AbsAcc
    <3>2. CASE deq[1].kind = "reader"
      <4> PICK f : f = deq[1].file
        OBVIOUS
      <4>1. BodyRows(f)' = BodyRows(f)
        BY SameData
      <4>2. deq'[1].file = f /\ deq'[1].kind = "reader"
        BY <1>1, <3>2
      <4> QED BY <3>2, <4>1, <4>2 DEF AbsAcc
    <3> QED BY <1>1, <1>2, <3>1, <3>2
  <2>2. AbsKey' = AbsKey
    <3>1. Nth(1)' = Nth(1) /\ JoinColumns' = JoinColumns
      BY SameData
    <3> QED BY <1>5, <3>1 DEF AbsKey, KeyTypeOf, KeyBlanks, IsUnion
  <2> QED BY <1>1, <2>1, <2>2 DEF Abs!absvars
<1> QED BY <1>4, <1>6, <1>7, <1>8, <1>9

\* How the keys compare stays known within a join.
LEMMA ComparedStays ==
  ASSUME JoinInv, RowInv, AccInv, pc \in JoiningPcs \/ (pc = "loop" /\ Len(deq) > 1 /\ IsUnion),
         args' = args, keys' = keys, headers' = headers, c_ids' = c_ids,
         ts_n_blanks' = ts_n_blanks,
         \/ deq' = deq
         \/ \E i \in DOMAIN deq : /\ deq[i].kind = "reader"
                                  /\ \E p \in 0..Body : deq' = At(i, p),
         pc' = "disjoint" => pc = "disjoint", pc' \in KeyedPcs => pc \in KeyedPcs
  PROVE  Compared'
<1>1. AbsKey' = AbsKey /\ NextKey' = NextKey
  BY AccStays
<1> PICK k0 : k0 = AbsKey
  OBVIOUS
<1> PICK k1 : k1 = NextKey
  OBVIOUS
<1>2. (Abs!Comparable(k0, k1)' <=> Abs!Comparable(k0, k1)) /\ Abs!KeyType(k0, k1)' = Abs!KeyType(k0, k1)
  BY DEF Abs!Comparable, Abs!KeyType
<1>3. IsUnion' <=> IsUnion
  BY DEF IsUnion
<1>4. pc \in JoiningPcs /\ ~IsUnion =>
        /\ pc \in KeyedPcs => Abs!Comparable(k0, k1)
        /\ pc = "disjoint" => ~Abs!Comparable(k0, k1)
        /\ Abs!Comparable(k0, k1) /\ ~args.no_inference => Abs!KeyType(k0, k1) = k0.type
  BY DEF AccInv, Compared
<1>5. pc' \in JoiningPcs /\ ~IsUnion' =>
        /\ pc' \in KeyedPcs => Abs!Comparable(k0, k1)'
        /\ pc' = "disjoint" => ~Abs!Comparable(k0, k1)'
        /\ Abs!Comparable(k0, k1)' /\ ~args.no_inference => Abs!KeyType(k0, k1)' = k0.type
  BY <1>2, <1>3, <1>4
<1> QED BY <1>1, <1>5 DEF Compared

LEMMA HashRightAcc == JoinInv /\ RowInv /\ ShapeInv /\ KeyInv /\ AccInv /\ HashRight => AccKept
<1> SUFFICES ASSUME JoinInv, RowInv, ShapeInv, KeyInv, AccInv, HashRight PROVE AccKept
  OBVIOUS
<1>1. /\ pc = "hash_right" /\ pc \in JoiningPcs /\ pc \in KeyedPcs
      /\ args' = args /\ keys' = keys /\ headers' = headers /\ c_ids' = c_ids
      /\ ts_n_blanks' = ts_n_blanks /\ impl' = impl /\ recalculate' = recalculate
      /\ deq' = At(2, IF IsOuter THEN Header ELSE 0)
      /\ IF keys[deq[2].file] = <<>> THEN pc' = "no_body"
         ELSE pc' \in {"terminated", "open_left"}
  BY DEF HashRight, Untouched, Tables, JoiningPcs, KeyedPcs
<1>2. /\ 2 \in DOMAIN deq /\ deq[2].kind = "reader" /\ KeysOK /\ deq[2].file \in File
  BY <1>1, InProgress
<1> PICK p : p = IF IsOuter THEN Header ELSE 0
  OBVIOUS
<1>3. p \in 0..Body /\ deq' = At(2, p)
  BY <1>1, BodyFacts
<1>4. /\ \E i \in DOMAIN deq : deq[i].kind = "reader" /\ \E q \in 0..Body : deq' = At(i, q)
      /\ \E i \in DOMAIN deq : /\ i \in {1, 2} /\ deq[i].kind = "reader"
                               /\ \E q \in 0..Body : deq' = At(i, q)
  BY <1>2, <1>3
<1>5. pc' \notin {"fill", "loop", "hash_right", "disjoint", "hash_left", "second", "cleanup", "no_body_2"}
  BY <1>1
<1>6. KeptFilesHaveRows' /\ FileKeys' /\ PlainKeys' /\ Waiting' /\ UNCHANGED Abs!absvars
  BY <1>1, <1>4, <1>5, FilesStay
<1>7. Compared'
  BY <1>1, <1>4, <1>5, ComparedStays
<1>8. PassesLeftOut'
  <2> SUFFICES ASSUME pc' = "no_body"
               PROVE  /\ ~IsOuter'
                      /\ args.kind # "inner" => RightRows' = <<>> /\ RunRows(deq[1])' = LeftRows'
    BY <1>1, <1>5 DEF PassesLeftOut
  <2>1. keys[deq[2].file] = <<>>
    BY <1>1
  <2>2. ~IsOuter
    BY <1>2, <2>1 DEF AccInv, KeptFilesHaveRows, IsOuter
  <2>3. RightRows = <<>>
    BY <1>2, <2>1, BodyRowsFacts DEF RightRows
  <2>4. RunRows(deq[1])' = RunRows(deq[1])
    BY <1>1, <1>3, SecondMoves
  <2>5. Len(deq) > 1
    BY <1>1 DEF JoinInv, Phases
  <2>6. RunRows(deq[1]) = LeftRows
    BY <1>1, <2>5, ReadsBody
  <2>7. LeftRows' = LeftRows /\ RightRows' = RightRows /\ IsOuter' = IsOuter
    BY <1>1, <1>4, JoinStays
  <2> QED BY <2>2, <2>3, <2>4, <2>6, <2>7
<1>9. Recalculates' /\ ResultIs'
  <2>1. recalculate = FALSE
    BY <1>1 DEF AccInv, Recalculates
  <2> QED BY <1>1, <1>5, <2>1 DEF Recalculates, ResultIs
<1> QED BY <1>6, <1>7, <1>8, <1>9 DEF AccKept, AccInv


\* A step within a join that is seen in none of the tables.
LEMMA QuietAcc ==
  ASSUME JoinInv, RowInv, AccInv, pc \in JoiningPcs \/ (pc = "loop" /\ Len(deq) > 1 /\ IsUnion),
         args' = args, keys' = keys, headers' = headers, c_ids' = c_ids,
         ts_n_blanks' = ts_n_blanks,
         \/ deq' = deq
         \/ \E i \in DOMAIN deq : /\ i \in {1, 2} /\ deq[i].kind = "reader"
                                  /\ \E p \in 0..Body : deq' = At(i, p),
         pc' \notin {"fill", "loop", "hash_right", "disjoint"},
         pc' \in KeyedPcs => pc \in KeyedPcs,
         PassesLeftOut', Recalculates', ResultIs'
  PROVE  AccKept
<1>1. KeptFilesHaveRows' /\ FileKeys' /\ PlainKeys' /\ Waiting' /\ UNCHANGED Abs!absvars
  BY FilesStay
<1>2. \/ deq' = deq
      \/ \E i \in DOMAIN deq : deq[i].kind = "reader" /\ \E p \in 0..Body : deq' = At(i, p)
  OBVIOUS
<1>3. Compared'
  BY <1>2, ComparedStays
<1> QED BY <1>1, <1>3 DEF AccKept, AccInv

LEMMA OpenLeftAcc == JoinInv /\ RowInv /\ ShapeInv /\ AccInv /\ OpenLeft => AccKept
<1> SUFFICES ASSUME JoinInv, RowInv, ShapeInv, AccInv, OpenLeft PROVE AccKept
  OBVIOUS
<1>1. /\ pc = "open_left" /\ pc \in JoiningPcs /\ pc \in KeyedPcs
      /\ args' = args /\ keys' = keys /\ headers' = headers /\ c_ids' = c_ids
      /\ ts_n_blanks' = ts_n_blanks /\ recalculate' = recalculate
      /\ IF deq[1].kind = "fake" THEN pc' = "first" /\ deq' = deq
         ELSE deq' = At(1, 0) /\ pc' = IF keys[deq[1].file] = <<>> THEN "no_body" ELSE "first"
  BY DEF OpenLeft, Untouched, Tables, JoiningPcs, KeyedPcs
<1>2. 1 \in DOMAIN deq
  BY <1>1, InProgress
<1>3. deq[1].kind # "fake" => deq[1].kind = "reader" /\ deq[1].file = Nth(1) /\ Nth(1) \in File
  <2>1. deq[1].kind \in {"reader", "fake"} /\ (deq[1].kind = "reader" => deq[1].file \in File)
    BY <1>2 DEF JoinInv, TypeOK, DeqOK
  <2>2. deq[1].kind = "reader" => deq[1].file = Nth(1)
    <3>1. deq[1].kind = "reader" => Joined = 1 /\ deq[1].file = Nth(Joined + 1 - 1)
      BY <1>2 DEF RowInv, SourcesOK
    <3>2. 1 + 1 - 1 = 1
      OBVIOUS
    <3> QED BY <3>1, <3>2
  <2> QED BY <2>1, <2>2
<1>4. \/ deq' = deq
      \/ \E i \in DOMAIN deq : /\ i \in {1, 2} /\ deq[i].kind = "reader"
                               /\ \E p \in 0..Body : deq' = At(i, p)
  BY <1>1, <1>2, <1>3, BodyFacts
<1>5. pc' = "no_body" => args.kind = "inner" /\ ~IsOuter
  <2>1. pc' = "no_body" => deq[1].kind # "fake" /\ keys[deq[1].file] = <<>>
    BY <1>1
  <2> QED BY <1>3, <2>1 DEF AccInv, KeptFilesHaveRows, IsOuter
<1>6. PassesLeftOut'
  BY <1>1, <1>5 DEF PassesLeftOut, IsOuter
<1>7. recalculate = FALSE
  BY <1>1 DEF AccInv, Recalculates
<1>8. Recalculates' /\ ResultIs'
  BY <1>1, <1>7 DEF Recalculates, ResultIs
<1>9. pc' \in {"no_body", "first"}
  BY <1>1
<1> QED BY <1>1, <1>4, <1>6, <1>8, <1>9, QuietAcc

LEMMA WorkAcc ==
  ASSUME JoinInv, RowInv, ShapeInv, AccInv, NEW i \in todo, WorkFirst(i) \/ WorkSecond(i)
  PROVE  AccKept
<1>1. /\ pc \in {"first", "second"} /\ pc \in JoiningPcs /\ pc \in KeyedPcs
      /\ args' = args /\ keys' = keys /\ deq' = deq /\ headers' = headers /\ c_ids' = c_ids
      /\ ts_n_blanks' = ts_n_blanks /\ impl' = impl /\ hash' = hash /\ table' = table
      /\ pc' \in {pc, "terminated"}
      /\ pc' = pc => todo' = todo \ {i}
      /\ pc = "first" => recalculate' = recalculate
      /\ pc = "second" =>
           recalculate' = (recalculate \/ (pc' = pc /\ RightRow(table[i]) # <<>>))
  BY DEF WorkFirst, WorkSecond, Work, Store, Untouched, Tables, JoiningPcs, KeyedPcs
<1>2. i \in DOMAIN table /\ todo \subseteq DOMAIN table
  BY DEF JoinInv, TypeOK, WorkOK
<1>3. PassesLeftOut'
  BY <1>1 DEF PassesLeftOut
<1>4. Recalculates'
  <2>1. CASE pc = "first"
    BY <1>1, <2>1 DEF AccInv, Recalculates, KeyedPcs
  <2>2. CASE pc = "second" /\ pc' = "terminated"
    BY <1>1, <2>2 DEF Recalculates, KeyedPcs
  <2>3. CASE pc = "second" /\ pc' = "second"
    <3> SUFFICES ASSUME recalculate'
                 PROVE  \E j \in DOMAIN table \ todo' : RightRow(table[j])' # <<>>
      BY <1>1, <2>3 DEF Recalculates
    <3>1. \A j \in DOMAIN table : RightRow(table[j])' = RightRow(table[j])
      BY <1>1, RowResultStable
    <3>2. \E j \in DOMAIN table \ todo' : RightRow(table[j]) # <<>>
      <4>1. recalculate => \E j \in DOMAIN table \ todo : RightRow(table[j]) # <<>>
        BY <2>3 DEF AccInv, Recalculates
      <4>2. recalculate \/ RightRow(table[i]) # <<>>
        BY <1>1, <2>3
      <4> QED BY <1>1, <1>2, <2>3, <4>1, <4>2
    <3> QED BY <3>1, <3>2
  <2> QED BY <1>1, <2>1, <2>2, <2>3
<1>5. ResultIs'
  <2>1. FirstPart' = FirstPart
    BY <1>1, AccStays
  <2> QED BY <1>1, <2>1 DEF AccInv, ResultIs
<1>6. pc' \in {"first", "second", "terminated"} /\ (pc' \in KeyedPcs => pc \in KeyedPcs)
  BY <1>1
<1> QED BY <1>1, <1>3, <1>4, <1>5, <1>6, QuietAcc

LEMMA BodyNotEmpty ==
  ASSUME RowInv, NEW f \in File, keys[f] # <<>>
  PROVE  BodyRows(f) # <<>>
<1> PICK k : k = keys[f]
  OBVIOUS
<1>1. Len(k) \in Nat \ {0}
  <2>1. k \in Seq(KeyValue) /\ k # <<>>
    BY InputsAssumption DEF RowInv, Chosen
  <2> QED BY <2>1
<1>2. DOMAIN BodyRows(f) = 1..((Body + Len(k)) - Body)
  BY DEF BodyRows, RunRows, Reader, NLines
<1>3. 1 \in DOMAIN BodyRows(f)
  BY <1>1, <1>2, BodyFacts
<1> QED BY <1>3

LEMMA HashLeftAcc == JoinInv /\ RowInv /\ ShapeInv /\ AccInv /\ HashLeft => AccKept
<1> SUFFICES ASSUME JoinInv, RowInv, ShapeInv, AccInv, HashLeft PROVE AccKept
  OBVIOUS
<1>1. pc = "hash_left" /\ pc \in JoiningPcs /\ pc \in KeyedPcs /\ IsOuter
  BY DEF HashLeft, JoiningPcs, KeyedPcs, RowInv, Keyed
<1>2. /\ 1 \in DOMAIN deq /\ 2 \in DOMAIN deq /\ deq[2].kind = "reader" /\ deq[2].file \in File
      /\ KeysOK
  BY <1>1, InProgress
<1>3. \A f \in File : keys[f] # <<>>
  BY <1>1 DEF AccInv, KeptFilesHaveRows, IsOuter
<1>4. deq[1].kind # "fake" => BodyRows(deq[1].file) # <<>>
  <2>1. deq[1].kind # "fake" => deq[1].file \in File
    BY <1>2 DEF JoinInv, TypeOK, DeqOK
  <2> QED BY <1>3, <2>1, BodyNotEmpty
<1>5. /\ args' = args /\ keys' = keys /\ headers' = headers /\ c_ids' = c_ids
      /\ ts_n_blanks' = ts_n_blanks /\ recalculate' = recalculate /\ impl' = impl
      /\ pc' \in {"failed", "terminated", "second"}
      /\ deq' = deq \/ deq' = At(2, 0)
  <2>1. keys[deq[2].file] # <<>>
    BY <1>2, <1>3
  <2> QED BY <1>4, <2>1 DEF HashLeft, StartWork, Untouched, Tables
<1>6. \/ deq' = deq
      \/ \E i \in DOMAIN deq : /\ i \in {1, 2} /\ deq[i].kind = "reader"
                               /\ \E p \in 0..Body : deq' = At(i, p)
  BY <1>2, <1>5, BodyFacts
<1>7. PassesLeftOut'
  BY <1>5 DEF PassesLeftOut
<1>8. recalculate = FALSE
  BY <1>1 DEF AccInv, Recalculates
<1>9. Recalculates'
  BY <1>5, <1>8 DEF Recalculates, KeyedPcs
<1>10. ResultIs'
  <2>1. \/ deq' = deq
        \/ \E i \in DOMAIN deq : deq[i].kind = "reader" /\ \E p \in 0..Body : deq' = At(i, p)
    BY <1>6
  <2>2. FirstPart' = FirstPart
    BY <1>1, <1>5, <2>1, AccStays
  <2> QED BY <1>1, <1>5, <2>2 DEF AccInv, ResultIs
<1>11. pc' \notin {"fill", "loop", "hash_right", "disjoint"} /\ (pc' \in KeyedPcs => pc \in KeyedPcs)
  BY <1>1, <1>5
<1> QED BY <1>1, <1>5, <1>6, <1>7, <1>9, <1>10, <1>11, QuietAcc


LEMMA FirstPartSeq ==
  ASSUME JoinInv, RowInv, ShapeInv, pc \in JoiningPcs, ~IsUnion
  PROVE  IsSeq(FirstPart)
<1> PICK left : left = LeftRows
  OBVIOUS
<1> PICK slots : slots = [i \in DOMAIN left |-> Contributed(left[i])]
  OBVIOUS
<1>1. FirstPart = FlattenSeq(slots)
  BY FirstPartIs
<1>2. IsSeq(left) /\ RowsOK(RightRows)
  BY InProgress DEF Kept, RowsOK
<1>3. IsSeq(slots) /\ DOMAIN slots = DOMAIN left
  <2>1. Len(left) \in Nat /\ DOMAIN left = 1..Len(left)
    BY <1>2, IsSeqFacts
  <2>2. slots = [i \in 1..Len(left) |-> slots[i]]
    BY <2>1
  <2> QED BY <2>1, <2>2, IsSeqFunction
<1>4. ASSUME NEW l PROVE IsSeq(Contributed(l))
  <2> PICK m : m = MatchedBy(l)
    OBVIOUS
  <2> PICK s : s = [i \in DOMAIN m |-> Glue(l, m[i])]
    OBVIOUS
  <2>1. IsSeq(m)
    BY <1>2, RowsAtFacts DEF MatchedBy, RowsOK
  <2>2. IsSeq(s)
    <3>1. Len(m) \in Nat /\ DOMAIN m = 1..Len(m)
      BY <2>1, IsSeqFacts
    <3>2. s = [i \in 1..Len(m) |-> s[i]]
      BY <3>1
    <3> QED BY <3>1, <3>2, IsSeqFunction
  <2>3. IsSeq(<<PadRight(l)>>) /\ IsSeq(<<>>)
    BY OneElement, IsSeqEmpty
  <2> QED BY <2>2, <2>3 DEF Contributed
<1>5. \A i \in DOMAIN slots : IsSeq(slots[i])
  BY <1>3, <1>4
<1>6. IsSeq(FlattenSeq(slots))
  BY <1>3, <1>5, FlattenIsSeq
<1> QED BY <1>1, <1>6

\* The end of a pass.
LEMMA ResultAcc ==
  ASSUME JoinInv, RowInv, ShapeInv, AccInv,
         pc \in JoiningPcs \/ (pc = "loop" /\ Len(deq) > 1 /\ IsUnion),
         args' = args, keys' = keys, headers' = headers, c_ids' = c_ids,
         ts_n_blanks' = ts_n_blanks, deq' = deq,
         NEW rows, impl' = rows,
         \/ /\ pc' = "hash_left" /\ pc \in KeyedPcs /\ IsOuter /\ rows = FirstPart
            /\ recalculate' = FALSE
         \/ /\ pc' = "cleanup"
            /\ rows = IF IsUnion THEN BothSides
                      ELSE FirstPart \o (IF IsOuter THEN RestPadded ELSE <<>>)
            /\ IsOuter => recalculate' = (Rest # <<>>)
  PROVE  AccKept
<1>1. FirstPart' = FirstPart /\ RestPadded' = RestPadded /\ BothSides' = BothSides /\ Rest' = Rest
  BY AccStays
<1>2. (IsOuter' <=> IsOuter) /\ (IsUnion' <=> IsUnion)
  BY DEF IsOuter, IsUnion
<1>3. PassesLeftOut'
  BY DEF PassesLeftOut
<1>4. Recalculates'
  <2>1. CASE pc' = "hash_left"
    BY <2>1 DEF Recalculates
  <2>2. CASE pc' = "cleanup"
    BY <1>1, <1>2, <2>2 DEF Recalculates, KeyedPcs
  <2> QED BY <2>1, <2>2
<1>5. ResultIs'
  <2>1. CASE pc' = "hash_left"
    BY <1>1, <2>1 DEF ResultIs
  <2>2. CASE pc' = "cleanup"
    BY <1>1, <1>2, <2>2 DEF ResultIs
  <2> QED BY <2>1, <2>2
<1>6. pc' \notin {"fill", "loop", "hash_right", "disjoint"} /\ (pc' \in KeyedPcs => pc \in KeyedPcs)
  BY DEF KeyedPcs
<1> QED BY <1>3, <1>4, <1>5, <1>6, QuietAcc

LEMMA MergeFirstAcc ==
  JoinInv /\ RowInv /\ ShapeInv /\ KeyInv /\ SlotsFollowRows /\ AccInv /\ MergeFirst => AccKept
<1> SUFFICES ASSUME JoinInv, RowInv, ShapeInv, KeyInv, SlotsFollowRows, AccInv, MergeFirst
             PROVE  AccKept
  OBVIOUS
<1>1. /\ pc = "first" /\ pc \in JoiningPcs /\ pc \in KeyedPcs /\ todo = {}
      /\ args' = args /\ keys' = keys /\ deq' = deq /\ headers' = headers /\ c_ids' = c_ids
      /\ ts_n_blanks' = ts_n_blanks /\ recalculate' = recalculate
      /\ pc' = IF IsOuter THEN "hash_left" ELSE "cleanup"
      /\ impl' = impl \o FlattenSeq(join_vec)
  BY DEF MergeFirst, Untouched, Tables, JoiningPcs, KeyedPcs, Merged
<1>2. impl = <<>> /\ table = LeftRows /\ ~IsUnion
  BY <1>1 DEF RowInv, Keyed, Opened
<1>3. FlattenSeq(join_vec) = FirstPart
  <2>1. join_vec = [i \in DOMAIN LeftRows |-> LeftRow(LeftRows[i])]
    BY <1>1, <1>2 DEF SlotsFollowRows, RowResult
  <2>2. \A i \in DOMAIN LeftRows : LeftRow(LeftRows[i]) = Contributed(LeftRows[i])
    BY <1>1, LeftRowSame
  <2>3. join_vec = [i \in DOMAIN LeftRows |-> Contributed(LeftRows[i])]
    BY <2>1, <2>2
  <2> QED BY <1>1, <1>2, <2>3, FirstPartIs
<1>4. IsSeq(FirstPart)
  BY <1>1, <1>2, FirstPartSeq
<1>5. impl' = FirstPart /\ FirstPart = FirstPart \o <<>>
  BY <1>1, <1>2, <1>3, <1>4, ConcatEmpty
<1>6. recalculate' = FALSE
  BY <1>1 DEF AccInv, Recalculates
<1>7. CASE IsOuter
  BY <1>1, <1>5, <1>6, <1>7, ResultAcc
<1>8. CASE ~IsOuter
  BY <1>1, <1>2, <1>5, <1>8, ResultAcc
<1> QED BY <1>7, <1>8

LEMMA MergeSecondAcc ==
  JoinInv /\ RowInv /\ ShapeInv /\ KeyInv /\ SlotsFollowRows /\ AccInv /\ MergeSecond => AccKept
<1> SUFFICES ASSUME JoinInv, RowInv, ShapeInv, KeyInv, SlotsFollowRows, AccInv, MergeSecond
             PROVE  AccKept
  OBVIOUS
<1>1. /\ pc = "second" /\ pc \in JoiningPcs /\ pc \in KeyedPcs /\ todo = {}
      /\ args' = args /\ keys' = keys /\ deq' = deq /\ headers' = headers /\ c_ids' = c_ids
      /\ ts_n_blanks' = ts_n_blanks /\ recalculate' = recalculate /\ pc' = "cleanup"
      /\ impl' = impl \o FlattenSeq(join_vec)
  BY DEF MergeSecond, Untouched, Tables, JoiningPcs, KeyedPcs, Merged
<1>2. table = RightRows /\ ~IsUnion /\ IsOuter /\ impl = FirstPart /\ recalculate \in BOOLEAN
  BY <1>1 DEF RowInv, Keyed, Opened, AccInv, ResultIs, JoinInv, TypeOK
<1>3. /\ FlattenSeq([j \in DOMAIN RightRows |-> RightRow(RightRows[j])]) = RestPadded
      /\ Rest # <<>> <=> \E j \in DOMAIN RightRows : RightRow(RightRows[j]) # <<>>
  BY <1>1, SecondPart
<1>4. join_vec = [j \in DOMAIN RightRows |-> RightRow(RightRows[j])]
  BY <1>1, <1>2 DEF SlotsFollowRows, RowResult
<1>5. recalculate = (Rest # <<>>)
  <2>1. recalculate => \E j \in DOMAIN RightRows : RightRow(RightRows[j]) # <<>>
    BY <1>1, <1>2 DEF AccInv, Recalculates
  <2>2. ~recalculate => \A j \in DOMAIN RightRows : RightRow(RightRows[j]) = <<>>
    BY <1>1, <1>2 DEF KeyInv, Unadded
  <2> QED BY <1>2, <1>3, <2>1, <2>2
<1>6. impl' = FirstPart \o RestPadded
  BY <1>1, <1>2, <1>3, <1>4
<1> QED BY <1>1, <1>2, <1>5, <1>6, ResultAcc

LEMMA NoBodyAcc == JoinInv /\ RowInv /\ ShapeInv /\ AccInv /\ NoBody => AccKept
<1> SUFFICES ASSUME JoinInv, RowInv, ShapeInv, AccInv, NoBody PROVE AccKept
  OBVIOUS
<1>1. /\ pc = "no_body" /\ pc \in JoiningPcs /\ ~IsUnion
      /\ args' = args /\ keys' = keys /\ deq' = deq /\ headers' = headers /\ c_ids' = c_ids
      /\ ts_n_blanks' = ts_n_blanks
      /\ impl = <<>> /\ (LeftRows = <<>> \/ RightRows = <<>>)
  BY DEF NoBody, Untouched, Tables, JoiningPcs, KeyedPcs, RowInv, Keyed
<1>2. ~IsOuter /\ (args.kind # "inner" => RunRows(deq[1]) = LeftRows)
  BY <1>1 DEF AccInv, PassesLeftOut
<1>3. \A i \in DOMAIN LeftRows : MatchedBy(LeftRows[i]) = <<>>
  <2>1. CASE LeftRows = <<>>
    BY <2>1
  <2>2. CASE RightRows = <<>>
    <3>1. RowsOK(RightRows)
      BY <1>1, InProgress
    <3> QED BY <2>2, <3>1, RowsAtNone DEF MatchedBy
  <2> QED BY <1>1, <2>1, <2>2
<1>4. FirstPart = IF args.kind = "inner" THEN <<>>
                  ELSE [i \in DOMAIN LeftRows |-> PadRight(LeftRows[i])]
  BY <1>1, <1>3, NothingMatches
<1>5. pc' = "cleanup" /\ impl' = FirstPart
  <2>1. CASE args.kind = "inner"
    BY <1>1, <1>2, <1>4, <2>1 DEF NoBody
  <2>2. CASE args.kind # "inner"
    BY <1>1, <1>2, <1>4, <2>2 DEF NoBody
  <2> QED BY <2>1, <2>2
<1>6. FirstPart = FirstPart \o <<>>
  BY <1>1, FirstPartSeq, ConcatEmpty
<1> QED BY <1>1, <1>2, <1>5, <1>6, ResultAcc


\* The second source still has all its data rows when the keys are not compared.
LEMMA SecondReader ==
  ASSUME JoinInv, RowInv, AccInv, pc \in {"loop", "disjoint"}, Len(deq) > 1
  PROVE  RunRows(deq[2]) = RightRows
<1>1. /\ 2 \in DOMAIN deq /\ deq[2].kind = "reader"
      /\ 2 \in DOMAIN headers
  <2>1. 2 \in DOMAIN deq /\ deq[2].kind = "reader"
    BY InProgress DEF JoiningPcs
  <2>2. Len(headers) = Len(deq) /\ DOMAIN headers = 1..Len(headers) /\ DOMAIN deq = 1..Len(deq)
    BY Sizes DEF JoinInv, Lockstep, Filled
  <2> QED BY <2>1, <2>2
<1>2. deq[2].pos = Body
  BY <1>1 DEF AccInv, Waiting
<1> PICK src : src = deq[2]
  OBVIOUS
<1>3. RunRows(src) = BodyRows(src.file)
  BY <1>1, <1>2 DEF BodyRows, RunRows, Reader
<1> QED BY <1>3 DEF RightRows

LEMMA AllRows ==
  ASSUME NEW rows, IsSeq(rows)
  PROVE  RowsAt(rows, DOMAIN rows) = rows
<1> PICK slots : slots = [i \in DOMAIN rows |-> <<rows[i]>>]
  OBVIOUS
<1>1. FlattenSeq(slots) = rows
  BY FlattenSingles
<1>2. slots = [i \in DOMAIN rows |-> IF i \in DOMAIN rows THEN <<rows[i]>> ELSE <<>>]
  OBVIOUS
<1> QED BY <1>1, <1>2 DEF RowsAt

LEMMA DisjointAcc == JoinInv /\ RowInv /\ ShapeInv /\ KeyInv /\ AccInv /\ Disjoint => AccKept
<1> SUFFICES ASSUME JoinInv, RowInv, ShapeInv, KeyInv, AccInv, Disjoint PROVE AccKept
  OBVIOUS
<1>1. /\ pc = "disjoint" /\ pc \in JoiningPcs /\ ~IsUnion /\ Len(deq) > 1 /\ pc' = "cleanup"
      /\ args' = args /\ keys' = keys /\ deq' = deq /\ headers' = headers /\ c_ids' = c_ids
      /\ ts_n_blanks' = ts_n_blanks /\ recalculate' = IsOuter
  BY DEF Disjoint, Untouched, Tables, JoiningPcs, KeyedPcs, RowInv, Keyed, JoinInv, Phases
<1> PICK left : left = LeftRows
  OBVIOUS
<1> PICK right : right = RightRows
  OBVIOUS
<1>2. RunRows(deq[1]) = left /\ RunRows(deq[2]) = right
  BY <1>1, ReadsBody, SecondReader
<1>3. \A l, r : ~Matching(l, r)
  BY <1>1 DEF AccInv, Compared, Matching, Abs!Same
<1>4. RowsOK(right) /\ IsSeq(right) /\ IsSeq(left)
  BY <1>1, InProgress DEF Kept, RowsOK
<1> PICK padded : padded = [i \in DOMAIN left |-> PadRight(left[i])]
  OBVIOUS
<1>5. FirstPart = IF args.kind = "inner" THEN <<>> ELSE padded
  <2>1. \A i \in DOMAIN left : MatchedBy(left[i]) = <<>>
    <3> TAKE i \in DOMAIN left
    <3>1. {j \in DOMAIN right : Matching(left[i], right[j])} = {}
      BY <1>3
    <3> QED BY <1>4, <3>1, RowsAtNone DEF MatchedBy
  <2> QED BY <1>1, <2>1, NothingMatches
<1>6. FirstPart = FirstPart \o <<>>
  BY <1>1, FirstPartSeq, ConcatEmpty
<1>7. Rest = right
  <2>1. {j \in DOMAIN right : Alone(right[j])} = DOMAIN right
    BY <1>3 DEF Alone
  <2> QED BY <1>4, <2>1, RestIs, AllRows
<1>8. CASE IsOuter
  <2>1. RestPadded = [i \in DOMAIN right |-> PadLeft(right[i])]
    <3>1. Len(ts_n_blanks[1].types) = Abs!TotalWidth(Joined)
      <4>1. KeysIn /\ Len(ts_n_blanks[1].types) = Len(JoinedColumns(Joined)) /\ Joined \in 1..N
        BY <1>1, InShape, InProgress
      <4> QED BY <1>8, <4>1, KeptWidth DEF ShapeInv, KeepsKey
    <3> PICK w : w = Abs!TotalWidth(Joined)
      OBVIOUS
    <3>2. RestPadded = [i \in DOMAIN right |-> Padding(w) \o right[i]]
      BY <1>7, SameFiles DEF RestPadded, Abs!PadLeft
    <3>3. \A i \in DOMAIN right : PadLeft(right[i]) = Padding(w) \o right[i]
      BY <3>1 DEF PadLeft
    <3> QED BY <3>2, <3>3
  <2>2. impl' = padded \o [i \in DOMAIN right |-> PadLeft(right[i])]
    BY <1>1, <1>2, <1>8 DEF Disjoint, IsOuter
  <2>3. FirstPart = padded
    BY <1>5, <1>8 DEF IsOuter
  <2>4. Rest # <<>>
    <3>1. deq[2].file \in File /\ keys[deq[2].file] # <<>>
      <4>1. deq[2].file \in File
        BY <1>1, InProgress
      <4> QED BY <1>8, <4>1 DEF AccInv, KeptFilesHaveRows, IsOuter
    <3> QED BY <1>7, <3>1, BodyNotEmpty DEF RightRows
  <2>5. impl' = FirstPart \o RestPadded /\ recalculate' = (Rest # <<>>)
    BY <1>1, <1>8, <2>1, <2>2, <2>3, <2>4
  <2> QED BY <1>1, <1>8, <2>5, ResultAcc
<1>9. CASE ~IsOuter
  <2>1. impl' = IF args.kind = "inner" THEN <<>> ELSE padded
    BY <1>2, <1>9 DEF Disjoint
  <2>2. impl' = FirstPart \o <<>>
    BY <1>5, <1>6, <2>1
  <2> QED BY <1>1, <1>9, <2>2, ResultAcc
<1> QED BY <1>8, <1>9

LEMMA NoBodySecondAcc == AccInv /\ NoBodySecond => AccKept
BY DEF AccInv, PassesLeftOut, NoBodySecond

LEMMA UnionAcc == JoinInv /\ RowInv /\ ShapeInv /\ KeyInv /\ AccInv /\ Union => AccKept
<1> SUFFICES ASSUME JoinInv, RowInv, ShapeInv, KeyInv, AccInv, Union PROVE AccKept
  OBVIOUS
<1>1. /\ pc = "loop" /\ Len(deq) > 1 /\ IsUnion /\ ~EmptyFake /\ pc' = "cleanup"
      /\ args' = args /\ keys' = keys /\ deq' = deq /\ headers' = headers /\ c_ids' = c_ids
      /\ ts_n_blanks' = ts_n_blanks
  BY DEF Union, Untouched, Tables
<1>2. ~IsOuter
  BY <1>1 DEF ShapeInv, ValidArgs, IsOuter, IsUnion
<1> PICK left : left = LeftRows
  OBVIOUS
<1> PICK right : right = RightRows
  OBVIOUS
<1>3. RunRows(deq[1]) = left /\ RunRows(deq[2]) = right
  BY <1>1, ReadsBody, SecondReader
<1> PICK w : w = Abs!TotalWidth(Joined)
  OBVIOUS
<1> PICK n : n = Width(deq[2].file)
  OBVIOUS
<1>4. /\ KeysIn /\ Joined \in 1..N /\ deq[2].file = Nth(Joined + 1) /\ deq[2].kind = "reader"
      /\ deq[1].kind \in {"reader", "fake"} /\ Nth(Joined + 1) \in File
  <2>1. deq[1].kind \in {"reader", "fake"} /\ 1 \in DOMAIN deq
    BY <1>1, InProgress DEF JoinInv, TypeOK, DeqOK
  <2> QED BY <1>1, <2>1, InShape, InProgress
<1>5. Len(JoinedColumns(Joined)) = w
  BY <1>1, <1>4, KeptWidth DEF ShapeInv, KeepsKey
<1>6. SourceWidth(2) = n
  <2>1. Len(headers[2]) = Len(ColumnsOf(Nth(Joined + 1)))
    BY <1>1, InShape DEF HeaderFits
  <2> QED BY <1>4, <2>1, ColumnsOfFacts DEF SourceWidth
<1>7. SourceWidth(1) = w
  <2>1. CASE deq[1].kind = "reader"
    <3>1. Len(headers[1]) = Len(JoinedColumns(Joined))
      BY <1>1, InShape DEF HeaderFits
    <3> QED BY <1>5, <2>1, <3>1 DEF SourceWidth
  <2>2. CASE deq[1].kind = "fake"
    <3>1. deq[1].rows = left /\ left # <<>>
      BY <1>1, <2>2 DEF EmptyFake, LeftRows
    <3>2. IsSeq(left) /\ Fits(left, JoinedColumns(Joined))
      BY <1>1, InProgress, InShape DEF Kept, RowsOK
    <3>3. 1 \in DOMAIN left
      <4>1. Len(left) \in Nat /\ DOMAIN left = 1..Len(left) /\ IsSeq(<<>>) /\ Len(<<>>) = 0
        BY <3>2, IsSeqFacts, IsSeqEmpty
      <4>2. Len(left) # 0
        <5> SUFFICES ASSUME Len(left) = 0 PROVE left = <<>>
          BY <3>1
        <5>1. Len(left) = Len(<<>>) /\ \A i \in 1..Len(left) : left[i] = <<>>[i]
          BY <4>1
        <5> QED BY <3>2, <4>1, <5>1, IsSeqSame
      <4> QED BY <4>1, <4>2
    <3>4. Len(left[1]) = Len(JoinedColumns(Joined))
      BY <3>2, <3>3 DEF Fits, RowFits
    <3> QED BY <1>5, <2>2, <3>1, <3>4 DEF SourceWidth
  <2> QED BY <1>4, <2>1, <2>2
<1> PICK m : m = IF Len(left) > Len(right) THEN Len(left) ELSE Len(right)
  OBVIOUS
<1>8. impl' = [i \in 1..m |-> InRow(left, i, w) \o InRow(right, i, n)]
  BY <1>1, <1>3, <1>6, <1>7 DEF Union, InRow
<1>9. BothSides = [i \in 1..m |-> InRow(left, i, w) \o InRow(right, i, n)]
  BY DEF BothSides
<1>10. impl' = BothSides
  BY <1>8, <1>9
<1> QED BY <1>1, <1>2, <1>10, ResultAcc

-------------------------------------------------------------------------------
(* The steps that move on to the next file.                                  *)

\* typify() finds numbers only where types are inferred and no null is a value.
LEMMA TypifyPlain ==
  ASSUME NEW rows, NEW n \in Nat, NEW c \in 1..n, NEW t, t = Typify(rows, n),
         t.types[c] = "number"
  PROVE  ~args.no_inference /\ ~(args.blanks /\ t.blanks[c])
<1>1. /\ t.types[c] = TypeOf(Column(rows, c))
      /\ t.blanks[c] = HasBlanks(Column(rows, c))
  BY DEF Typify
<1>2. ~args.no_inference
  BY <1>1 DEF TypeOf
<1>3. args.blanks => ~HasBlanks(Column(rows, c))
  BY DEF HasBlanks, Absent
<1> QED BY <1>1, <1>2, <1>3

\* The same of the key column of a file.
LEMMA FilePlain ==
  ASSUME NEW f \in File, NEW c \in 1..Width(f), NEW t, t = FileTypes(f), t.types[c] = "number"
  PROVE  ~args.no_inference /\ ~(args.blanks /\ t.blanks[c])
<1>1. Width(f) \in Nat
  BY WidthFacts
<1>2. keys[f] # <<>>
  BY DEF FileTypes, NoBodyTypes
<1>3. t = Typify(BodyRows(f), Width(f))
  BY <1>2 DEF FileTypes
<1> QED BY <1>1, <1>3, TypifyPlain

\* What RelationalJoin takes for the next join is what join() has in front of its deque.
LEMMA NextFile ==
  ASSUME JoinInv, RowInv, ShapeInv, pc \in JoiningPcs \/ (pc = "loop" /\ Len(deq) > 1)
  PROVE  /\ Abs!Nth(Joined + 1) = deq[2].file /\ Abs!N = N /\ Joined < N /\ deq[2].file \in File
         /\ AbsAcc = LeftRows
         /\ ~IsUnion => /\ Abs!KeyCol(Abs!Nth(1)) = c_ids[1]
                        /\ Abs!KeyCol(deq[2].file) = c_ids[2]
                        /\ Abs!KeyInfo(Abs!FileTypes(deq[2].file), c_ids[2]) = NextKey
                        /\ 1 \in DOMAIN c_ids /\ 2 \in DOMAIN c_ids
                        /\ AbsKey = [type |-> KeyTypeOf(1), nulls |-> KeyBlanks(1)]
<1>1. /\ Joined \in Nat /\ Joined + 1 \in 1..N /\ deq[2].file = Nth(Joined + 1)
      /\ deq[2].file \in File /\ 1 \in 1..N
  BY InProgress, SourcesFacts
<1>2. Abs!Nth(Joined + 1) = deq[2].file /\ Abs!Nth(1) = Nth(1) /\ Abs!N = N /\ Joined < N
  BY <1>1, SameOrder, SourcesFacts DEF ShapeInv
<1>3. AbsAcc = LeftRows
  BY DEF AbsAcc, LeftRows
<1>4. ASSUME ~IsUnion
      PROVE  /\ Abs!KeyCol(Abs!Nth(1)) = c_ids[1]
             /\ Abs!KeyCol(deq[2].file) = c_ids[2]
             /\ Abs!KeyInfo(Abs!FileTypes(deq[2].file), c_ids[2]) = NextKey
             /\ 1 \in DOMAIN c_ids /\ 2 \in DOMAIN c_ids
             /\ AbsKey = [type |-> KeyTypeOf(1), nulls |-> KeyBlanks(1)]
  <2>1. c_ids[1] = JoinColumns[1] /\ c_ids[2] = JoinColumns[Joined + 1]
    BY <1>4, InShape
  <2>2. Abs!KeyCol(Nth(1)) = JoinColumns[1] /\ Abs!KeyCol(Nth(Joined + 1)) = JoinColumns[Joined + 1]
    BY <1>1, <1>4, SameOrder DEF ShapeInv
  <2>3. Abs!KeyInfo(Abs!FileTypes(deq[2].file), c_ids[2]) = NextKey
    <3>1. Abs!FileTypes(deq[2].file) = FileTypes(deq[2].file)
      BY SameFiles
    <3> QED BY <3>1 DEF NextKey
  <2>4. 1 \in DOMAIN c_ids /\ 2 \in DOMAIN c_ids
    <3>1. Len(c_ids) = Len(deq) /\ Len(deq) \in Nat /\ DOMAIN c_ids = 1..Len(c_ids)
      BY <1>4, Sizes DEF JoinInv, Lockstep, Filled, JoiningPcs
    <3>2. Len(deq) > 1
      BY DEF JoinInv, Phases
    <3> QED BY <3>1, <3>2
  <2>5. AbsKey = [type |-> KeyTypeOf(1), nulls |-> KeyBlanks(1)]
    <3>1. c_ids # <<>>
      BY <2>4
    <3> QED BY <1>4, <3>1 DEF AbsKey
  <2> QED BY <1>1, <1>2, <2>1, <2>2, <2>3, <2>4, <2>5
<1> QED BY <1>1, <1>2, <1>3, <1>4

\* Keys that only compare as texts are turned into text: Coerce, or no step.
LEMMA CanCompareAcc == JoinInv /\ RowInv /\ ShapeInv /\ AccInv /\ CanCompare => AccKept
<1> SUFFICES ASSUME JoinInv, RowInv, ShapeInv, AccInv, CanCompare PROVE AccKept
  OBVIOUS
<1>1. /\ pc = "loop" /\ Len(deq) > 1 /\ ~IsUnion
      /\ args' = args /\ keys' = keys /\ deq' = deq /\ headers' = headers /\ c_ids' = c_ids
      /\ recalculate' = FALSE
      /\ pc' = IF SameTypes \/ BothBlank THEN "hash_right" ELSE "disjoint"
  BY DEF CanCompare, Untouched
<1>2. pc' \in {"hash_right", "disjoint"}
  BY <1>1
<1>3. ASSUME NEW i \in DOMAIN c_ids
      PROVE  /\ ts_n_blanks'[i].types[c_ids[i]] \in {KeyTypeOf(i), "text"}
             /\ ts_n_blanks'[i].blanks[c_ids[i]] = KeyBlanks(i)
             /\ i \notin {1, 2} => ts_n_blanks'[i] = ts_n_blanks[i]
  <2>1. i \in DOMAIN ts_n_blanks
    <3>1. DOMAIN c_ids = DOMAIN ts_n_blanks
      BY <1>1, Sizes
    <3> QED BY <3>1
  <2>2. CASE i \in {1, 2}
    BY <2>2, KeysCompared DEF KeyBlanks
  <2>3. CASE i \notin {1, 2}
    <3>1. ts_n_blanks'[i] = ts_n_blanks[i]
      BY <2>1, <2>3, KeysCompared
    <3> QED BY <2>3, <3>1 DEF KeyTypeOf, KeyBlanks
  <2> QED BY <2>2, <2>3
<1>4. KeptFilesHaveRows'
  <2>1. Nth(1)' = Nth(1)
    BY <1>1, SameData
  <2> QED BY <1>1, <2>1 DEF AccInv, KeptFilesHaveRows
<1>5. \A f : FileTypes(f)' = FileTypes(f)
  BY <1>1, SameData
<1>6. FileKeys'
  <2> SUFFICES ASSUME NEW i \in DOMAIN c_ids, i # 1
               PROVE  /\ ts_n_blanks'[i].blanks[c_ids[i]] = FileTypes(deq[i].file)'.blanks[c_ids[i]]
                      /\ i # 2 => ts_n_blanks'[i].types[c_ids[i]] =
                                    FileTypes(deq[i].file)'.types[c_ids[i]]
    BY <1>1, <1>2 DEF FileKeys, KeyBlanks, KeyTypeOf
  <2> PICK f : f = deq[i].file
    OBVIOUS
  <2>1. FileTypes(deq[i].file)' = FileTypes(f)
    BY <1>1, <1>5
  <2>2. KeyBlanks(i) = FileTypes(f).blanks[c_ids[i]] /\ KeyTypeOf(i) = FileTypes(f).types[c_ids[i]]
    BY <1>1 DEF AccInv, FileKeys
  <2>3. i # 2 => ts_n_blanks'[i].types[c_ids[i]] = KeyTypeOf(i)
    BY <1>3 DEF KeyTypeOf
  <2> QED BY <1>3, <2>1, <2>2, <2>3
<1>7. PlainKeys'
  <2> SUFFICES ASSUME NEW i \in DOMAIN c_ids, ts_n_blanks'[i].types[c_ids[i]] = "number"
               PROVE  ~args.no_inference /\ ~(args.blanks /\ ts_n_blanks'[i].blanks[c_ids[i]])
    BY <1>1 DEF PlainKeys, KeyTypeOf, KeyBlanks
  <2>1. KeyTypeOf(i) = "number" /\ ts_n_blanks'[i].blanks[c_ids[i]] = KeyBlanks(i)
    BY <1>3
  <2> QED BY <2>1 DEF AccInv, PlainKeys
<1>8. Waiting'
  BY <1>1, <1>2 DEF AccInv, Waiting
<1>9. /\ AbsKey = [type |-> KeyTypeOf(1), nulls |-> KeyBlanks(1)]
      /\ NextKey = [type |-> KeyTypeOf(2), nulls |-> KeyBlanks(2)]
      /\ NextKey' = NextKey /\ AbsAcc' = AbsAcc /\ Joined' = Joined
      /\ 1 \in DOMAIN c_ids
  <2>1. 1 \in DOMAIN c_ids /\ 2 \in DOMAIN c_ids
        /\ AbsKey = [type |-> KeyTypeOf(1), nulls |-> KeyBlanks(1)]
    BY <1>1, NextFile
  <2> PICK f : f = deq[2].file
    OBVIOUS
  <2>2. KeyTypeOf(2) = FileTypes(f).types[c_ids[2]] /\ KeyBlanks(2) = FileTypes(f).blanks[c_ids[2]]
    BY <1>1, <2>1 DEF AccInv, FileKeys
  <2>3. NextKey = [type |-> KeyTypeOf(2), nulls |-> KeyBlanks(2)]
    BY <2>2 DEF NextKey, Abs!KeyInfo
  <2>4. NextKey' = NextKey
    <3>1. FileTypes(f)' = FileTypes(f)
      BY <1>5
    <3> QED BY <1>1, <3>1 DEF NextKey, Abs!KeyInfo
  <2>5. AbsAcc' = AbsAcc
    <3> PICK g : g = deq[1].file
      OBVIOUS
    <3>1. BodyRows(g)' = BodyRows(g)
      BY <1>1, SameData
    <3> QED BY <1>1, <3>1 DEF AbsAcc
  <2>6. Joined' = Joined
    BY <1>1, SameData DEF Joined
  <2> QED BY <2>1, <2>3, <2>4, <2>5, <2>6
<1>10. AbsKey' = [type |-> ts_n_blanks'[1].types[c_ids[1]], nulls |-> KeyBlanks(1)]
  <2>1. c_ids' # <<>> /\ ~IsUnion'
    BY <1>1, <1>9 DEF IsUnion
  <2>2. ts_n_blanks'[1].blanks[c_ids[1]] = KeyBlanks(1)
    BY <1>3, <1>9
  <2> QED BY <1>1, <2>1, <2>2 DEF AbsKey, KeyTypeOf, KeyBlanks
<1> PICK t0, b0, t1, b1 : t0 = KeyTypeOf(1) /\ b0 = KeyBlanks(1) /\ t1 = KeyTypeOf(2) /\ b1 = KeyBlanks(2)
  OBVIOUS
<1>11. /\ SameTypes <=> (t0 = t1 \/ args.no_inference)
       /\ BothBlank <=> (b0 /\ b1)
  BY DEF SameTypes, BothBlank
<1>12. ASSUME ~SameTypes /\ BothBlank PROVE Compared' /\ [Abs!AbsNext]_(Abs!absvars)
  <2>1. AbsKey' = [type |-> "text", nulls |-> b0]
    BY <1>10, <1>12, KeysCompared
  <2>2. NextKey' = [type |-> t1, nulls |-> b1]
    BY <1>9
  <2>3. Compared'
    <3>1. pc' = "hash_right"
      BY <1>1, <1>12
    <3> PICK k0 : k0 = [type |-> "text", nulls |-> b0]
      OBVIOUS
    <3> PICK k1 : k1 = [type |-> t1, nulls |-> b1]
      OBVIOUS
    <3>2. Abs!Comparable(k0, k1)' /\ Abs!KeyType(k0, k1)' = k0.type
      BY <1>11, <1>12 DEF Abs!Comparable, Abs!KeyType
    <3> QED BY <2>1, <2>2, <3>1, <3>2 DEF Compared
  <2>4. Abs!Coerce
    <3> PICK k0 : k0 = AbsKey
      OBVIOUS
    <3> PICK k1 : k1 = NextKey
      OBVIOUS
    <3>1. k0 = [type |-> t0, nulls |-> b0] /\ k1 = [type |-> t1, nulls |-> b1]
      BY <1>9
    <3>2. Abs!Comparable(k0, k1) /\ k0.type # k1.type /\ ~args.no_inference
      BY <1>11, <1>12, <3>1 DEF Abs!Comparable
    <3>3. AbsKey' = [k0 EXCEPT !.type = "text"]
      BY <2>1, <3>1
    <3>4. /\ Abs!Nth(Joined + 1) = deq[2].file /\ Joined < Abs!N
          /\ Abs!KeyInfo(Abs!FileTypes(deq[2].file), Abs!KeyCol(deq[2].file)) = k1
      BY <1>1, NextFile
    <3>5. Abs!KeyInfo(Abs!FileTypes(Abs!Nth(Joined + 1)), Abs!KeyCol(Abs!Nth(Joined + 1))) = k1
      BY <3>4
    <3>6. args.columns # <<>>
      BY <1>1 DEF IsUnion
    <3> QED BY <1>1, <1>9, <3>2, <3>3, <3>4, <3>5, <3>6 DEF Abs!Coerce
  <2> QED BY <2>3, <2>4 DEF Abs!AbsNext
<1>13. ASSUME ~(~SameTypes /\ BothBlank) PROVE Compared' /\ [Abs!AbsNext]_(Abs!absvars)
  <2>1. AbsKey' = AbsKey
    <3>1. ts_n_blanks' = ts_n_blanks
      BY <1>13, KeysCompared
    <3>2. ts_n_blanks'[1].types[c_ids[1]] = KeyTypeOf(1)
      BY <3>1 DEF KeyTypeOf
    <3> QED BY <1>9, <1>10, <3>2
  <2>2. Compared'
    <3> PICK k0 : k0 = [type |-> t0, nulls |-> b0]
      OBVIOUS
    <3> PICK k1 : k1 = [type |-> t1, nulls |-> b1]
      OBVIOUS
    <3>1. AbsKey' = k0 /\ NextKey' = k1
      BY <1>9, <2>1
    <3>2. Abs!Comparable(k0, k1)' <=> (SameTypes \/ BothBlank)
      BY <1>1, <1>11 DEF Abs!Comparable
    <3>3. (SameTypes \/ BothBlank) /\ ~args.no_inference => Abs!KeyType(k0, k1)' = k0.type
      BY <1>11, <1>13 DEF Abs!KeyType
    <3>4. pc' \in KeyedPcs <=> (SameTypes \/ BothBlank)
      BY <1>1 DEF KeyedPcs
    <3>5. pc' = "disjoint" <=> ~(SameTypes \/ BothBlank)
      BY <1>1
    <3> QED BY <1>1, <3>1, <3>2, <3>3, <3>4, <3>5 DEF Compared
  <2>3. UNCHANGED Abs!absvars
    BY <1>1, <1>9, <2>1 DEF Abs!absvars
  <2> QED BY <2>2, <2>3
<1>14. PassesLeftOut' /\ Recalculates' /\ ResultIs'
  BY <1>1, <1>2 DEF PassesLeftOut, Recalculates, ResultIs
<1>15. Compared' /\ [Abs!AbsNext]_(Abs!absvars)
  BY <1>12, <1>13
<1> QED BY <1>4, <1>6, <1>7, <1>8, <1>14, <1>15 DEF AccKept, AccInv

\* The files are prepared: no step of RelationalJoin.
LEMMA FillAcc == JoinInv /\ RowInv /\ ShapeInv /\ AccInv /\ Fill => AccKept
<1> SUFFICES ASSUME JoinInv, RowInv, ShapeInv, AccInv, Fill PROVE AccKept
  OBVIOUS
<1> PICK f : f = deq[Next0].file
  OBVIOUS
<1> PICK k : k = JoinColumns[Next0]
  OBVIOUS
<1> PICK types : types = FileTypes(f)
  OBVIOUS
<1>1. /\ pc = "fill" /\ pc' \in {"loop", "fill"}
      /\ args' = args /\ keys' = keys
      /\ ~IsUnion => k \in 1..Width(f)
      /\ deq' = At(Next0, Body)
      /\ headers' = Append(headers, Names[f])
      /\ ts_n_blanks' = Append(ts_n_blanks, types)
      /\ c_ids' = IF IsUnion THEN c_ids ELSE Append(c_ids, k)
  BY DEF Fill, Untouched
<1>2. /\ Len(headers) \in Nat /\ IsSeq(headers) /\ DOMAIN headers = 1..Len(headers)
      /\ Len(ts_n_blanks) = Len(headers)
      /\ Next0 = Len(headers) + 1 /\ Next0 \in DOMAIN deq /\ DOMAIN deq = 1..Len(deq)
      /\ Len(deq) \in Nat
      /\ IsUnion => c_ids = <<>>
      /\ ~IsUnion => Len(c_ids) = Len(headers)
      /\ c_ids \in Seq(Nat) /\ ts_n_blanks \in Seq(TableTypes)
      /\ IsSeq(deq)
  <2>1. /\ Len(headers) \in Nat /\ Len(deq) \in Nat /\ DOMAIN deq = 1..Len(deq)
        /\ Len(ts_n_blanks) = Len(headers) /\ DOMAIN headers = 1..Len(headers)
    BY Sizes
  <2>2. Len(headers) < Len(deq)
    BY <1>1 DEF JoinInv, Lockstep, Filled
  <2>3. ts_n_blanks \in Seq(TableTypes) /\ c_ids \in Seq(Nat) /\ IsSeq(deq) /\ IsSeq(headers)
    BY DEF JoinInv, TypeOK, TablesOK, DeqOK
  <2> QED BY <2>1, <2>2, <2>3 DEF Next0, JoinInv, Lockstep
<1>3. deq[Next0].kind = "reader" /\ deq[1].kind = "reader" /\ f \in File
  <2>1. deq[1].kind = "reader"
    BY <1>1 DEF JoinInv, Phases
  <2> QED BY <1>2, <2>1 DEF JoinInv, TypeOK, DeqOK
<1> PICK n : n = Next0
  OBVIOUS
<1>4. /\ \A i \in DOMAIN deq : i # n => deq'[i] = deq[i]
      /\ deq'[n] = Reader(f, Body)
  <2> PICK s : s = deq
    OBVIOUS
  <2> PICK x : x = Reader(f, Body)
    OBVIOUS
  <2>1. deq' = [s EXCEPT ![n] = x] /\ IsSeq(s) /\ n \in DOMAIN s
    BY <1>1, <1>2 DEF At
  <2>2. /\ Len([s EXCEPT ![n] = x]) = Len(s)
        /\ \A j \in DOMAIN s : [s EXCEPT ![n] = x][j] = IF j = n THEN x ELSE s[j]
    BY <2>1, IsSeqExcept
  <2> QED BY <1>2, <2>1, <2>2
<1>5. /\ ts_n_blanks'[n] = types
      /\ \A j \in 1..Len(headers) : ts_n_blanks'[j] = ts_n_blanks[j]
  <2> PICK t : t = ts_n_blanks
    OBVIOUS
  <2>1. t \in Seq(TableTypes) /\ types \in TableTypes
    BY <1>2, <1>3, FileTypesTyped
  <2>2. ts_n_blanks' = Append(t, types) /\ Len(t) = Len(headers)
    BY <1>1, <1>2
  <2> QED BY <1>2, <2>1, <2>2, AppendProperties
<1>6. ASSUME ~IsUnion
      PROVE  /\ DOMAIN c_ids' = 1..n /\ c_ids'[n] = k /\ DOMAIN c_ids = 1..Len(headers)
             /\ \A j \in 1..Len(headers) : c_ids'[j] = c_ids[j]
  <2> PICK c : c = c_ids
    OBVIOUS
  <2>1. c_ids' = Append(c, k) /\ c \in Seq(Nat) /\ Len(c) = Len(headers)
    BY <1>1, <1>2, <1>6
  <2>2. k \in Nat
    BY <1>1, <1>3, <1>6, WidthFacts
  <2> QED BY <1>2, <2>1, <2>2, AppendProperties, LenProperties
<1>7. DOMAIN headers' = 1..n
  BY <1>1, <1>2, IsSeqAppend, IsSeqFacts
<1>8. /\ KeptFilesHaveRows' /\ (IsUnion' <=> IsUnion)
      /\ \A g : FileTypes(g)' = FileTypes(g) /\ BodyRows(g)' = BodyRows(g)
      /\ JoinColumns' = JoinColumns /\ Nth(1)' = Nth(1)
  <2>1. Nth(1)' = Nth(1) /\ JoinColumns' = JoinColumns
        /\ \A g : FileTypes(g)' = FileTypes(g) /\ BodyRows(g)' = BodyRows(g)
    BY <1>1, SameData
  <2>2. KeptFilesHaveRows'
    BY <1>1, <2>1 DEF AccInv, KeptFilesHaveRows
  <2> QED BY <1>1, <2>1, <2>2 DEF IsUnion
<1>9. ASSUME NEW i \in DOMAIN c_ids'
      PROVE  /\ ~IsUnion /\ i \in DOMAIN deq
             /\ \/ /\ i = n /\ c_ids'[i] = k /\ ts_n_blanks'[i] = types /\ deq'[i].file = f
                \/ /\ i # n /\ i \in DOMAIN c_ids /\ c_ids'[i] = c_ids[i]
                   /\ ts_n_blanks'[i] = ts_n_blanks[i] /\ deq'[i] = deq[i]
  <2>1. ~IsUnion
    BY <1>1, <1>2, <1>9
  <2>2. i \in 1..n
    BY <1>6, <1>9, <2>1
  <2>3. i \in DOMAIN deq
    BY <1>2, <2>2
  <2>4. i = n \/ (i # n /\ i \in 1..Len(headers))
    BY <1>2, <2>2
  <2> QED BY <1>4, <1>5, <1>6, <2>1, <2>3, <2>4 DEF Reader
<1>10. FileKeys'
  <2> SUFFICES ASSUME NEW i \in DOMAIN c_ids', i # 1
               PROVE  /\ ts_n_blanks'[i].blanks[c_ids'[i]] = FileTypes(deq[i].file)'.blanks[c_ids'[i]]
                      /\ ts_n_blanks'[i].types[c_ids'[i]] = FileTypes(deq[i].file)'.types[c_ids'[i]]
    BY DEF FileKeys, KeyBlanks, KeyTypeOf
  <2>1. CASE i = n
    <3>1. c_ids'[i] = k /\ ts_n_blanks'[i] = types /\ deq'[i].file = f
      BY <1>9, <2>1
    <3>2. FileTypes(deq[i].file)' = types
      <4>1. FileTypes(f)' = types
        BY <1>8
      <4> QED BY <3>1, <4>1
    <3> QED BY <3>1, <3>2
  <2>2. CASE i # n
    <3>1. /\ i \in DOMAIN c_ids /\ c_ids'[i] = c_ids[i]
          /\ ts_n_blanks'[i] = ts_n_blanks[i] /\ deq'[i] = deq[i]
      BY <1>9, <2>2
    <3> PICK g : g = deq[i].file
      OBVIOUS
    <3>2. FileTypes(deq[i].file)' = FileTypes(g)
      <4>1. FileTypes(g)' = FileTypes(g)
        BY <1>8
      <4> QED BY <3>1, <4>1
    <3>3. KeyBlanks(i) = FileTypes(g).blanks[c_ids[i]] /\ KeyTypeOf(i) = FileTypes(g).types[c_ids[i]]
      BY <1>1, <3>1 DEF AccInv, FileKeys
    <3> QED BY <3>1, <3>2, <3>3 DEF KeyBlanks, KeyTypeOf
  <2> QED BY <2>1, <2>2
<1>11. PlainKeys'
  <2> SUFFICES ASSUME NEW i \in DOMAIN c_ids', ts_n_blanks'[i].types[c_ids'[i]] = "number"
               PROVE  ~args.no_inference /\ ~(args.blanks /\ ts_n_blanks'[i].blanks[c_ids'[i]])
    BY <1>1 DEF PlainKeys, KeyTypeOf, KeyBlanks
  <2>1. CASE i = n
    <3>1. c_ids'[i] = k /\ ts_n_blanks'[i] = types /\ k \in 1..Width(f)
      BY <1>1, <1>9, <2>1
    <3> QED BY <1>3, <3>1, FilePlain
  <2>2. CASE i # n
    <3>1. i \in DOMAIN c_ids /\ c_ids'[i] = c_ids[i] /\ ts_n_blanks'[i] = ts_n_blanks[i]
      BY <1>9, <2>2
    <3> QED BY <3>1 DEF AccInv, PlainKeys, KeyTypeOf, KeyBlanks
  <2> QED BY <2>1, <2>2
<1>12. Waiting'
  <2> SUFFICES ASSUME NEW i \in 1..n, i > 1 PROVE deq'[i].pos = Body
    BY <1>2, <1>7 DEF Waiting
  <2>1. CASE i = n
    BY <1>4, <2>1 DEF Reader
  <2>2. CASE i # n
    <3>1. i \in DOMAIN headers /\ i \in DOMAIN deq /\ (i = 2 \/ i > 2)
      BY <1>2, <2>2
    <3>2. deq[i].pos = Body
      BY <1>1, <3>1 DEF AccInv, Waiting
    <3> QED BY <1>4, <2>2, <3>1, <3>2
  <2> QED BY <2>1, <2>2
<1>13. Joined = 1 /\ Joined' = Joined /\ AbsAcc' = AbsAcc
  <2>1. Len(deq) = N /\ N \in Nat
    BY <1>1, SourcesFacts DEF JoinInv, Lockstep, Filled
  <2>2. \E i \in DOMAIN deq : deq[i].kind = "reader" /\ \E p \in 0..Body : deq' = At(i, p)
    <3>1. Body \in 0..Body
      BY BodyFacts
    <3> QED BY <1>1, <1>2, <1>3, <3>1
  <2>3. Joined' = Joined /\ deq'[1].kind = "reader" /\ deq'[1].file = deq[1].file
    BY <1>1, <1>3, <2>2, SourcesMove
  <2> PICK g : g = deq[1].file
    OBVIOUS
  <2>4. BodyRows(g)' = BodyRows(g)
    BY <1>8
  <2> QED BY <1>3, <2>1, <2>3, <2>4 DEF AbsAcc, Joined
<1>14. AbsKey' = AbsKey
  <2>1. CASE IsUnion
    BY <1>8, <2>1 DEF AbsKey
  <2>2. CASE ~IsUnion
    <3>1. /\ c_ids' # <<>> /\ ~IsUnion'
      <4>1. n \in DOMAIN c_ids'
        BY <1>2, <1>6, <2>2
      <4> QED BY <1>8, <2>2, <4>1
    <3>2. AbsKey' = [type |-> ts_n_blanks'[1].types[c_ids'[1]], nulls |-> ts_n_blanks'[1].blanks[c_ids'[1]]]
      BY <3>1 DEF AbsKey, KeyTypeOf, KeyBlanks
    <3>3. CASE n = 1
      <4>1. c_ids = <<>>
        <5>1. Len(c_ids) = 0
          BY <1>2, <2>2, <3>3
        <5> QED BY <1>2, <5>1, EmptySeq
      <4>2. f = Nth(1)
        <5>1. deq[1].file = Nth(Joined + 1 - 1) /\ Joined + 1 - 1 = 1
          BY <1>2, <1>3, <1>13, <3>3 DEF RowInv, SourcesOK
        <5> QED BY <3>3, <5>1
      <4>3. AbsKey = [type |-> types.types[k], nulls |-> types.blanks[k]]
        BY <2>2, <3>3, <4>1, <4>2 DEF AbsKey
      <4>4. c_ids'[1] = k /\ ts_n_blanks'[1] = types
        BY <1>5, <1>6, <2>2, <3>3
      <4> QED BY <3>2, <4>3, <4>4
    <3>4. CASE n # 1
      <4>1. 1 \in 1..Len(headers)
        BY <1>2, <3>4
      <4>2. 1 \in DOMAIN c_ids /\ c_ids'[1] = c_ids[1] /\ ts_n_blanks'[1] = ts_n_blanks[1]
        BY <1>5, <1>6, <2>2, <4>1
      <4>3. c_ids # <<>>
        BY <4>2
      <4> QED BY <2>2, <3>2, <4>2, <4>3 DEF AbsKey, KeyTypeOf, KeyBlanks
    <3> QED BY <3>3, <3>4
  <2> QED BY <2>1, <2>2
<1>15. UNCHANGED Abs!absvars
  BY <1>1, <1>13, <1>14 DEF Abs!absvars
<1>16. Compared' /\ PassesLeftOut' /\ Recalculates' /\ ResultIs'
  BY <1>1 DEF Compared, PassesLeftOut, Recalculates, ResultIs, JoiningPcs, KeyedPcs
<1> QED BY <1>8, <1>10, <1>11, <1>12, <1>15, <1>16 DEF AccKept, AccInv

\* The types that are pushed back with the joined table: found anew, or the old ones.
LEMMA JoinedTypes ==
  ASSUME JoinInv, RowInv, ShapeInv, Cleanup, pc' = "loop", ~IsUnion,
         NEW t, t = ts_n_blanks'[1], NEW c, c = c_ids[1],
         NEW w, w = Abs!TotalWidth(Joined + 1)
  PROVE  /\ c_ids'[1] = c /\ 1 \in DOMAIN c_ids'
         /\ MustRecalculate => t = Typify(impl, w) /\ w \in Nat /\ c \in 1..w
         /\ ~MustRecalculate => t.types[c] = KeyTypeOf(1) /\ t.blanks[c] = KeyBlanks(1)
<1>1. /\ pc = "cleanup" /\ pc \in JoiningPcs
      /\ Len(deq) > 1 /\ Len(deq) \in Nat
      /\ t = (IF MustRecalculate THEN Typify(impl, Len(ConcatTypes.types)) ELSE ConcatTypes)
      /\ DOMAIN c_ids' = 1..(Len(deq) - 1) /\ c_ids'[1] = c
  BY TwoTablesBecomeOne DEF Cleanup, JoiningPcs
<1>2. 1 \in DOMAIN c_ids'
  BY <1>1
<1> PICK s, r, sb, rb : /\ s = ts_n_blanks[1].types /\ sb = ts_n_blanks[1].blanks
                        /\ r = ts_n_blanks[2].types /\ rb = ts_n_blanks[2].blanks
  OBVIOUS
<1>3. /\ s \in Seq(ColumnType) /\ r \in Seq(ColumnType) /\ sb \in Seq(BOOLEAN) /\ rb \in Seq(BOOLEAN)
      /\ Len(sb) = Len(s) /\ Len(rb) = Len(r)
  <2>1. Len(headers) = Len(deq)
    BY <1>1, Sizes DEF JoinInv, Lockstep, Filled
  <2>2. 1 \in DOMAIN ts_n_blanks /\ 2 \in DOMAIN ts_n_blanks
    BY <1>1, <2>1, Sizes
  <2>3. ts_n_blanks[1] \in TableTypes /\ ts_n_blanks[2] \in TableTypes
    BY <1>1, <2>1, ElementOfSeq, Sizes DEF JoinInv, TypeOK, TablesOK
  <2> QED BY <2>2, <2>3 DEF TableTypes, JoinInv, TypeOK, TablesOK
<1>4. c \in 1..Len(s) /\ c_ids[2] \in 1..Len(r)
  BY <1>1, InProgress
<1>5. /\ Len(s) \in Nat /\ Len(r) \in Nat /\ DOMAIN s = 1..Len(s) /\ DOMAIN r = 1..Len(r)
      /\ DOMAIN sb = 1..Len(s) /\ DOMAIN rb = 1..Len(r)
      /\ IsSeq(s) /\ IsSeq(r) /\ IsSeq(sb) /\ IsSeq(rb)
  BY <1>3, LenProperties, SeqIsSeq
<1>6. ConcatTypes.types = Concat(s, r) /\ ConcatTypes.blanks = Concat(sb, rb)
  BY DEF ConcatTypes
<1>7. ASSUME MustRecalculate PROVE t = Typify(impl, w) /\ w \in Nat /\ c \in 1..w
  <2>1. KeepsKey
    BY <1>7 DEF MustRecalculate, KeepsKey
  <2>2. KeysIn /\ Joined + 1 \in 1..N
    BY <1>1, InShape, InProgress
  <2>3. Len(ConcatTypes.types) = Len(JoinedColumns(Joined + 1)) /\ Len(ConcatTypes.types) \in Nat
    BY <1>1, ResultTables
  <2> PICK m : m = Joined + 1
    OBVIOUS
  <2>4. Len(JoinedColumns(m)) = Abs!TotalWidth(m)
    BY <2>1, <2>2, KeptWidth DEF ShapeInv
  <2>5. Len(ConcatTypes.types) = w
    BY <2>3, <2>4
  <2>6. Len(s) <= w
    <3>1. Len(s) <= Len(Concat(s, r))
      BY <1>3, <1>4, ConcatTyped
    <3> QED BY <1>6, <2>5, <3>1
  <2> QED BY <1>1, <1>4, <1>5, <1>7, <2>3, <2>5, <2>6
<1>8. ASSUME ~MustRecalculate PROVE t.types[c] = KeyTypeOf(1) /\ t.blanks[c] = KeyBlanks(1)
  <2>1. Concat(s, r)[c] = s[c]
    BY <1>4, <1>5, ConcatFront
  <2>2. Concat(sb, rb)[c] = sb[c]
    BY <1>4, <1>5, ConcatFront
  <2>3. t = ConcatTypes
    BY <1>1, <1>8
  <2>4. KeyTypeOf(1) = s[c] /\ KeyBlanks(1) = sb[c]
    BY DEF KeyTypeOf, KeyBlanks
  <2> QED BY <1>6, <2>1, <2>2, <2>3, <2>4
<1> QED BY <1>1, <1>2, <1>7, <1>8

\* The files that are left move one place to the front.
LEMMA CleanupTables ==
  ASSUME JoinInv, RowInv, ShapeInv, AccInv, Cleanup, pc' = "loop"
  PROVE  KeptFilesHaveRows' /\ FileKeys' /\ PlainKeys' /\ Waiting'
<1>1. /\ pc = "cleanup" /\ args' = args /\ keys' = keys
      /\ Len(deq) > 1 /\ Len(deq) \in Nat /\ Len(deq') = Len(deq) - 1
      /\ \A i \in 2..(Len(deq) - 1) : deq'[i] = deq[i + 1] /\ ts_n_blanks'[i] = ts_n_blanks[i + 1]
      /\ IsUnion => c_ids' = <<>>
      /\ ~IsUnion => /\ DOMAIN c_ids' = 1..(Len(deq) - 1)
                     /\ \A i \in 2..(Len(deq) - 1) : i + 1 \in DOMAIN c_ids /\ c_ids'[i] = c_ids[i + 1]
  <2>1. pc = "cleanup" /\ args' = args /\ keys' = keys
    BY DEF Cleanup, Untouched
  <2>2. IsUnion => c_ids' = <<>>
    BY TwoTablesBecomeOne DEF JoinInv, Lockstep
  <2> QED BY <2>1, <2>2, TwoTablesBecomeOne
<1>2. ASSUME NEW i \in DOMAIN c_ids'
      PROVE  /\ ~IsUnion
             /\ \/ i = 1
                \/ /\ i # 1 /\ i + 1 \notin {1, 2} /\ i + 1 \in DOMAIN c_ids
                   /\ c_ids'[i] = c_ids[i + 1] /\ deq'[i] = deq[i + 1]
                   /\ ts_n_blanks'[i] = ts_n_blanks[i + 1]
  <2>1. ~IsUnion
    BY <1>1, <1>2
  <2>2. i \in 1..(Len(deq) - 1)
    BY <1>1, <1>2, <2>1
  <2>3. CASE i = 1
    BY <2>1, <2>3
  <2>4. CASE i # 1
    <3>1. i \in 2..(Len(deq) - 1) /\ i + 1 \notin {1, 2}
      BY <1>1, <2>2, <2>4
    <3> QED BY <1>1, <2>1, <2>4, <3>1
  <2> QED BY <2>3, <2>4
<1>3. KeptFilesHaveRows'
  <2>1. Nth(1)' = Nth(1)
    BY <1>1, SameData
  <2> QED BY <1>1, <2>1 DEF AccInv, KeptFilesHaveRows
<1>4. FileKeys'
  <2> SUFFICES ASSUME NEW i \in DOMAIN c_ids', i # 1
               PROVE  /\ ts_n_blanks'[i].blanks[c_ids'[i]] = FileTypes(deq[i].file)'.blanks[c_ids'[i]]
                      /\ ts_n_blanks'[i].types[c_ids'[i]] = FileTypes(deq[i].file)'.types[c_ids'[i]]
    BY DEF FileKeys, KeyBlanks, KeyTypeOf
  <2> PICK j : j = i + 1
    OBVIOUS
  <2>1. /\ j \notin {1, 2} /\ j \in DOMAIN c_ids /\ c_ids'[i] = c_ids[j] /\ deq'[i] = deq[j]
        /\ ts_n_blanks'[i] = ts_n_blanks[j]
    BY <1>2
  <2> PICK g : g = deq[j].file
    OBVIOUS
  <2>2. FileTypes(deq[i].file)' = FileTypes(g)
    <3>1. FileTypes(g)' = FileTypes(g)
      BY <1>1, SameData
    <3> QED BY <2>1, <3>1
  <2>3. KeyBlanks(j) = FileTypes(g).blanks[c_ids[j]] /\ KeyTypeOf(j) = FileTypes(g).types[c_ids[j]]
    BY <2>1 DEF AccInv, FileKeys
  <2> QED BY <2>1, <2>2, <2>3 DEF KeyBlanks, KeyTypeOf
<1>5. PlainKeys'
  <2> SUFFICES ASSUME NEW i \in DOMAIN c_ids', ts_n_blanks'[i].types[c_ids'[i]] = "number"
               PROVE  ~args.no_inference /\ ~(args.blanks /\ ts_n_blanks'[i].blanks[c_ids'[i]])
    BY <1>1 DEF PlainKeys, KeyTypeOf, KeyBlanks
  <2>1. CASE i = 1
    <3> PICK t, c, w, rows : t = ts_n_blanks'[1] /\ c = c_ids[1] /\ w = Abs!TotalWidth(Joined + 1)
                             /\ rows = impl
      OBVIOUS
    <3>1. /\ c_ids'[1] = c
          /\ MustRecalculate => t = Typify(rows, w) /\ w \in Nat /\ c \in 1..w
          /\ ~MustRecalculate => t.types[c] = KeyTypeOf(1) /\ t.blanks[c] = KeyBlanks(1)
      BY <1>2, JoinedTypes
    <3>2. t.types[c] = "number"
      BY <2>1, <3>1
    <3>3. CASE MustRecalculate
      <4>1. ~args.no_inference /\ ~(args.blanks /\ t.blanks[c])
        BY <3>1, <3>2, <3>3, TypifyPlain
      <4> QED BY <2>1, <3>1, <4>1
    <3>4. CASE ~MustRecalculate
      <4>1. 1 \in DOMAIN c_ids
        BY <1>1, <1>2, NextFile DEF JoiningPcs
      <4>2. ~args.no_inference /\ ~(args.blanks /\ KeyBlanks(1))
        BY <3>1, <3>2, <3>4, <4>1 DEF AccInv, PlainKeys
      <4> QED BY <2>1, <3>1, <3>4, <4>2
    <3> QED BY <3>3, <3>4
  <2>2. CASE i # 1
    <3> PICK j : j = i + 1
      OBVIOUS
    <3>1. j \in DOMAIN c_ids /\ c_ids'[i] = c_ids[j] /\ ts_n_blanks'[i] = ts_n_blanks[j]
      BY <1>2, <2>2
    <3> QED BY <3>1 DEF AccInv, PlainKeys, KeyTypeOf, KeyBlanks
  <2> QED BY <2>1, <2>2
<1>6. Waiting'
  <2>1. DOMAIN headers' = 1..(Len(deq) - 1) /\ DOMAIN headers = 1..Len(deq)
    <3>1. JoinInv'
      BY CleanupStep
    <3>2. Len(headers') = Len(deq') /\ DOMAIN headers' = 1..Len(headers')
      <4>1. DOMAIN headers' = 1..Len(headers')
        BY <3>1, IsSeqFacts DEF JoinInv, TypeOK, TablesOK
      <4>2. Len(headers') = Len(deq')
        BY <3>1 DEF JoinInv, Lockstep, Filled
      <4> QED BY <4>1, <4>2
    <3>3. Len(headers) = Len(deq) /\ DOMAIN headers = 1..Len(headers)
      BY <1>1, Sizes DEF JoinInv, Lockstep, Filled
    <3> QED BY <1>1, <3>2, <3>3
  <2> SUFFICES ASSUME NEW i \in 1..(Len(deq) - 1), i > 1 PROVE deq'[i].pos = Body
    BY <1>1, <2>1 DEF Waiting
  <2> PICK j : j = i + 1
    OBVIOUS
  <2>2. j > 2 /\ j \in DOMAIN headers /\ i \in 2..(Len(deq) - 1)
    BY <1>1, <2>1
  <2>3. deq[j].pos = Body
    BY <2>2 DEF AccInv, Waiting
  <2> QED BY <1>1, <2>2, <2>3
<1> QED BY <1>3, <1>4, <1>5, <1>6

LEMMA NothingPadded ==
  ASSUME NEW s, IsSeq(s), NEW rows, rows = <<>>,
         NEW none, none = [i \in DOMAIN rows |-> none[i]]
  PROVE  s \o none = s
<1>1. DOMAIN rows = 1..0
  <2>1. DOMAIN rows = {}
    OBVIOUS
  <2> QED BY <2>1
<1>2. none = [i \in 1..0 |-> none[i]]
  BY <1>1
<1>3. IsSeq(none) /\ Len(none) = 0
  BY <1>2, IsSeqFunction
<1> PICK r : r = s \o none
  OBVIOUS
<1>4. IsSeq(r) /\ Len(r) = Len(s) /\ Len(s) \in Nat /\ \A i \in 1..Len(s) : r[i] = s[i]
  BY <1>3, IsSeqConcat, IsSeqFacts
<1>5. r = s
  BY <1>4, IsSeqSame
<1> QED BY <1>5

\* One turn of the loop is one join of RelationalJoin.
LEMMA CleanupJoins ==
  ASSUME JoinInv, RowInv, ShapeInv, AccInv, Cleanup, pc' = "loop", ~IsUnion
  PROVE  Abs!JoinNext
<1>1. /\ pc = "cleanup" /\ pc \in JoiningPcs /\ args' = args /\ keys' = keys
      /\ Len(deq) > 1 /\ Len(deq) \in Nat /\ Joined' = Joined + 1 /\ deq'[1] = Fake(impl)
  BY TwoTablesBecomeOne DEF Cleanup, Untouched, JoiningPcs
<1> PICK f, left, right, c0, c1, k0, k1, n, j, rest :
      /\ f = deq[2].file /\ left = LeftRows /\ right = RightRows /\ c0 = c_ids[1] /\ c1 = c_ids[2]
      /\ k0 = AbsKey /\ k1 = NextKey /\ n = Width(f) /\ j = Joined
      /\ rest = IF IsOuter THEN Rest ELSE <<>>
  OBVIOUS
<1> PICK w, w1 : w = Abs!TotalWidth(j) /\ w1 = Abs!TotalWidth(j + 1)
  OBVIOUS
<1> PICK padded : padded = [i \in DOMAIN rest |-> Abs!PadLeft(rest[i], w)]
  OBVIOUS
<1>2. /\ Abs!Nth(j + 1) = f /\ j < Abs!N /\ Abs!N = N
      /\ Abs!KeyCol(Abs!Nth(1)) = c0 /\ Abs!KeyCol(f) = c1
      /\ Abs!KeyInfo(Abs!FileTypes(f), c1) = k1 /\ AbsAcc = left
      /\ k0 = [type |-> KeyTypeOf(1), nulls |-> KeyBlanks(1)]
      /\ Abs!BodyRows(f) = right /\ Abs!Width(f) = n /\ (Abs!IsOuter <=> IsOuter)
      /\ args.columns # <<>>
  <2>1. Abs!BodyRows(f) = right /\ Abs!Width(f) = n
    BY SameFiles DEF RightRows
  <2> QED BY <1>1, <2>1, NextFile, SameOrder DEF ShapeInv, IsUnion
<1> PICK first : first = Abs!LeftPart(left, right, c0, c1, n, k0, k1)
  OBVIOUS
<1>3. FirstPart = first /\ Rest = Abs!Unmatched(left, right, c0, c1, k0, k1)
  BY DEF FirstPart, Rest
<1>4. rest = IF Abs!IsOuter THEN Abs!Unmatched(left, right, c0, c1, k0, k1) ELSE <<>>
  BY <1>2, <1>3
<1> PICK result : result = impl
  OBVIOUS
<1>5. AbsAcc' = result
  BY <1>1 DEF AbsAcc, Fake
<1>6. result = first \o padded
  <2>1. impl = FirstPart \o (IF IsOuter THEN RestPadded ELSE <<>>)
    BY <1>1 DEF AccInv, ResultIs
  <2>2. CASE IsOuter
    <3>1. RestPadded = padded
      BY <2>2 DEF RestPadded
    <3> QED BY <1>3, <2>1, <2>2, <3>1
  <2>3. CASE ~IsOuter
    <3>1. IsSeq(first)
      BY <1>1, <1>3, FirstPartSeq
    <3>2. first \o <<>> = first
      <4> PICK r : r = first \o <<>>
        OBVIOUS
      <4>1. IsSeq(r) /\ Len(r) = Len(first) /\ Len(first) \in Nat /\ \A i \in 1..Len(first) : r[i] = first[i]
        BY <3>1, IsSeqEmpty, IsSeqConcat, IsSeqFacts
      <4>2. r = first
        BY <3>1, <4>1, IsSeqSame
      <4> QED BY <4>2
    <3>3. rest = <<>>
      BY <2>3
    <3>4. first \o padded = first
      <4>1. padded = [i \in DOMAIN rest |-> padded[i]]
        OBVIOUS
      <4> QED BY <3>1, <3>3, <4>1, NothingPadded
    <3> QED BY <1>3, <2>1, <2>3, <3>2, <3>4
  <2> QED BY <2>2, <2>3
<1>7. MustRecalculate <=> (rest # <<>> /\ (j + 1 < Abs!N \/ args.honest))
  <2>1. IsOuter => recalculate = (Rest # <<>>)
    BY <1>1 DEF AccInv, Recalculates
  <2>2. Len(deq) > 2 <=> j + 1 < Abs!N
    <3>1. N \in Nat /\ j = N - Len(deq) + 1
      BY SourcesFacts DEF Joined
    <3> QED BY <1>1, <1>2, <3>1
  <2> QED BY <2>1, <2>2 DEF MustRecalculate
<1>8. AbsKey' = IF rest # <<>> /\ (j + 1 < Abs!N \/ args.honest)
                  THEN Abs!KeyInfo(Abs!Typify(result, w1), c0)
                ELSE IF Abs!Comparable(k0, k1) /\ ~args.no_inference
                  THEN [k0 EXCEPT !.type = Abs!KeyType(k0, k1)]
                ELSE k0
  <2> PICK t : t = ts_n_blanks'[1]
    OBVIOUS
  <2>1. /\ c_ids'[1] = c0 /\ 1 \in DOMAIN c_ids'
        /\ MustRecalculate => t = Typify(result, w1)
        /\ ~MustRecalculate => t.types[c0] = KeyTypeOf(1) /\ t.blanks[c0] = KeyBlanks(1)
    BY JoinedTypes
  <2>2. AbsKey' = [type |-> t.types[c0], nulls |-> t.blanks[c0]]
    <3>1. c_ids' # <<>> /\ ~IsUnion'
      BY <1>1, <2>1 DEF IsUnion
    <3> QED BY <2>1, <3>1 DEF AbsKey, KeyTypeOf, KeyBlanks
  <2>3. CASE MustRecalculate
    <3>1. t = Abs!Typify(result, w1)
      BY <2>1, <2>3, SameFiles
    <3>2. AbsKey' = Abs!KeyInfo(Abs!Typify(result, w1), c0)
      BY <2>2, <3>1 DEF Abs!KeyInfo
    <3> QED BY <1>7, <2>3, <3>2
  <2>4. CASE ~MustRecalculate
    <3>1. AbsKey' = k0
      BY <1>2, <2>1, <2>2, <2>4
    <3>2. ASSUME Abs!Comparable(k0, k1), ~args.no_inference
          PROVE  [k0 EXCEPT !.type = Abs!KeyType(k0, k1)] = k0
      <4> PICK kt : kt = Abs!KeyType(k0, k1)
        OBVIOUS
      <4>1. kt = k0.type
        BY <1>1, <3>2 DEF AccInv, Compared
      <4> QED BY <1>2, <4>1
    <3> QED BY <1>7, <2>4, <3>1, <3>2
  <2> QED BY <2>3, <2>4
<1>9. /\ AbsAcc' = Abs!LeftPart(left, right, c0, c1, n, k0, k1)
                     \o [i \in DOMAIN rest |-> Abs!PadLeft(rest[i], w)]
      /\ AbsAcc' = result /\ Joined' = j + 1
  BY <1>1, <1>5, <1>6
<1> QED BY <1>1, <1>2, <1>4, <1>8, <1>9 DEF Abs!JoinNext

\* And without key columns one step of putting tables side by side.
LEMMA CleanupUnites ==
  ASSUME JoinInv, RowInv, ShapeInv, AccInv, Cleanup, pc' = "loop", IsUnion
  PROVE  Abs!SideBySide
<1>1. /\ pc = "cleanup" /\ pc \in JoiningPcs /\ args' = args /\ keys' = keys
      /\ Joined' = Joined + 1 /\ deq'[1] = Fake(impl)
  BY TwoTablesBecomeOne DEF Cleanup, Untouched, JoiningPcs
<1> PICK f, left, right, n, j :
      f = deq[2].file /\ left = LeftRows /\ right = RightRows /\ n = Width(f) /\ j = Joined
  OBVIOUS
<1> PICK w : w = Abs!TotalWidth(j)
  OBVIOUS
<1>2. /\ Abs!Nth(j + 1) = f /\ j < Abs!N /\ AbsAcc = left
      /\ Abs!BodyRows(f) = right /\ Abs!Width(f) = n /\ args.columns = <<>>
  <2>1. Abs!BodyRows(f) = right /\ Abs!Width(f) = n
    BY SameFiles DEF RightRows
  <2> QED BY <1>1, <2>1, NextFile DEF IsUnion
<1>3. AbsAcc' = impl
  BY <1>1 DEF AbsAcc, Fake
<1>4. impl = BothSides
  BY <1>1 DEF AccInv, ResultIs
<1>5. BothSides = [i \in 1..(IF Len(left) > Len(right) THEN Len(left) ELSE Len(right)) |->
                     InRow(left, i, w) \o InRow(right, i, n)]
  BY DEF BothSides
<1>6. \A rows, i, m : InRow(rows, i, m) = IF i \in DOMAIN rows THEN rows[i] ELSE Abs!Padding(m)
  BY SameFiles DEF InRow
<1>7. AbsKey' = AbsKey
  BY <1>1 DEF AbsKey, IsUnion
<1>8. AbsAcc' = [i \in 1..(IF Len(left) > Len(right) THEN Len(left) ELSE Len(right)) |->
                   (IF i \in DOMAIN left THEN left[i] ELSE Abs!Padding(w)) \o
                   (IF i \in DOMAIN right THEN right[i] ELSE Abs!Padding(n))]
  BY <1>3, <1>4, <1>5, <1>6
<1> QED BY <1>1, <1>2, <1>7, <1>8 DEF Abs!SideBySide

LEMMA CleanupAcc == JoinInv /\ RowInv /\ ShapeInv /\ AccInv /\ Cleanup => AccKept
<1> SUFFICES ASSUME JoinInv, RowInv, ShapeInv, AccInv, Cleanup PROVE AccKept
  OBVIOUS
<1>1. /\ pc = "cleanup" /\ args' = args /\ keys' = keys /\ pc' \in {"failed", "loop"}
      /\ pc' = "failed" => deq' = deq /\ headers' = headers /\ c_ids' = c_ids
                           /\ ts_n_blanks' = ts_n_blanks
  BY DEF Cleanup, Untouched
<1>2. Compared' /\ PassesLeftOut' /\ Recalculates' /\ ResultIs'
  BY <1>1 DEF Compared, PassesLeftOut, Recalculates, ResultIs, JoiningPcs, KeyedPcs
<1>3. CASE pc' = "failed"
  <2>1. KeptFilesHaveRows' /\ FileKeys' /\ PlainKeys' /\ Waiting' /\ UNCHANGED Abs!absvars
    BY <1>1, <1>3, FilesStay
  <2> QED BY <1>2, <2>1 DEF AccKept, AccInv
<1>4. CASE pc' = "loop"
  <2>1. KeptFilesHaveRows' /\ FileKeys' /\ PlainKeys' /\ Waiting'
    BY <1>4, CleanupTables
  <2>2. Abs!AbsNext
    BY <1>4, CleanupJoins, CleanupUnites DEF Abs!AbsNext
  <2> QED BY <1>2, <2>1, <2>2 DEF AccKept, AccInv
<1> QED BY <1>1, <1>3, <1>4

\* The end of join(), and no step at all.
LEMMA EndAcc ==
  /\ JoinInv /\ RowInv /\ ShapeInv /\ AccInv
  /\ FillRejected \/ UnionOfEmpty \/ PrintResults \/ Finished \/ UNCHANGED vars
  => AccKept
<1> SUFFICES ASSUME JoinInv, RowInv, ShapeInv, AccInv,
                    FillRejected \/ UnionOfEmpty \/ PrintResults \/ Finished \/ UNCHANGED vars
             PROVE  AccKept
  OBVIOUS
<1>1. /\ args' = args /\ keys' = keys /\ deq' = deq /\ headers' = headers /\ c_ids' = c_ids
      /\ ts_n_blanks' = ts_n_blanks
      /\ pc' = pc \/ pc' \in Final
  BY DEF FillRejected, UnionOfEmpty, PrintResults, Finished, Untouched, Tables, vars, Final
<1>2. KeptFilesHaveRows' /\ FileKeys' /\ PlainKeys' /\ Waiting' /\ UNCHANGED Abs!absvars
  <2>1. pc' \in {"fill", "loop", "hash_right", "disjoint"} => pc' = pc /\ deq' = deq
    BY <1>1 DEF Final
  <2> QED BY <1>1, <2>1, FilesStay
<1>3. CASE pc' \notin JoiningPcs
  <2>1. Compared' /\ PassesLeftOut' /\ Recalculates' /\ ResultIs'
    BY <1>3 DEF Compared, PassesLeftOut, Recalculates, ResultIs, JoiningPcs, KeyedPcs
  <2> QED BY <1>2, <2>1 DEF AccKept, AccInv
<1>4. CASE pc' \in JoiningPcs
  <2>1. /\ pc' = pc /\ pc \in JoiningPcs /\ impl' = impl /\ recalculate' = recalculate
        /\ table' = table /\ todo' = todo /\ hash' = hash
    <3>1. UNCHANGED vars
      BY <1>4 DEF FillRejected, UnionOfEmpty, PrintResults, Finished, JoiningPcs, Final
    <3> QED BY <1>4, <3>1 DEF vars
  <2>2. Compared'
    BY <1>1, <2>1, ComparedStays
  <2>3. /\ FirstPart' = FirstPart /\ Rest' = Rest /\ RestPadded' = RestPadded
        /\ BothSides' = BothSides /\ LeftRows' = LeftRows /\ RightRows' = RightRows
    BY <1>1, <2>1, AccStays
  <2>4. RunRows(deq[1])' = RunRows(deq[1]) /\ (IsOuter' <=> IsOuter) /\ (IsUnion' <=> IsUnion)
    BY <1>1 DEF RunRows, NLines, Line, Width, IsOuter, IsUnion
  <2>5. PassesLeftOut'
    BY <1>1, <2>1, <2>3, <2>4 DEF AccInv, PassesLeftOut
  <2>6. \A i \in DOMAIN table : RightRow(table[i])' = RightRow(table[i])
    BY <1>1, <2>1, RowResultStable
  <2>7. Recalculates'
    BY <2>1, <2>3, <2>4, <2>6 DEF AccInv, Recalculates
  <2>8. ResultIs'
    BY <2>1, <2>3, <2>4 DEF AccInv, ResultIs
  <2> QED BY <1>2, <2>2, <2>5, <2>7, <2>8 DEF AccKept, AccInv
<1> QED BY <1>3, <1>4

-------------------------------------------------------------------------------
(* csvJoin implements RelationalJoin.                                        *)

\* The files as they are found are where RelationalJoin begins.
LEMMA AccInit == Init /\ KeptFilesHaveRows => AccInv /\ Abs!AbsInit
<1> SUFFICES ASSUME Init, KeptFilesHaveRows PROVE AccInv /\ Abs!AbsInit
  OBVIOUS
<1>1. /\ args \in DOMAIN Inputs /\ keys \in Inputs[args] /\ ValidArgs(args)
      /\ pc = "fill" /\ headers = <<>> /\ c_ids = <<>> /\ deq = Sources
  BY DEF Init
<1>2. AccInv
  BY <1>1 DEF AccInv, FileKeys, PlainKeys, Waiting, Compared, PassesLeftOut, Recalculates, ResultIs,
              JoiningPcs, KeyedPcs
<1>3. 1 \in DOMAIN Sources /\ 1 \in 1..N /\ Len(Sources) = N /\ N \in Nat
  BY SourcesFacts, IsSeqFacts
<1>4. Joined = 1
  BY <1>1, <1>3 DEF Joined
<1>5. AbsAcc = Abs!BodyRows(Abs!Nth(1))
  <2>1. deq[1].kind = "reader" /\ deq[1].file = Nth(1)
    BY <1>1, <1>3, SourcesFacts DEF Nth
  <2>2. Abs!Nth(1) = Nth(1)
    BY <1>1, <1>3, SameOrder
  <2>3. AbsAcc = BodyRows(Nth(1))
    BY <2>1 DEF AbsAcc
  <2> QED BY <2>2, <2>3, SameFiles
<1>6. AbsKey = IF args.columns = <<>> THEN [type |-> "text", nulls |-> FALSE]
               ELSE Abs!KeyInfo(Abs!FileTypes(Abs!Nth(1)), Abs!KeyCol(Abs!Nth(1)))
  <2>1. CASE IsUnion
    BY <2>1 DEF AbsKey, IsUnion
  <2>2. CASE ~IsUnion
    <3> PICK f : f = Nth(1)
      OBVIOUS
    <3>1. Abs!Nth(1) = f /\ JoinColumns[1] = Abs!KeyCol(f) /\ Abs!FileTypes(f) = FileTypes(f)
      BY <1>1, <1>3, <2>2, SameOrder, SameFiles
    <3>2. AbsKey = [type |-> FileTypes(f).types[JoinColumns[1]],
                    nulls |-> FileTypes(f).blanks[JoinColumns[1]]]
      BY <1>1, <2>2 DEF AbsKey
    <3> QED BY <2>2, <3>1, <3>2 DEF Abs!KeyInfo, IsUnion
  <2> QED BY <2>1, <2>2
<1>7. Abs!AbsInit
  BY <1>1, <1>4, <1>5, <1>6 DEF Abs!AbsInit
<1> QED BY <1>2, <1>7

\* Every step keeps the invariant and is one of RelationalJoin or none.
LEMMA AccStep ==
  /\ JoinInv /\ RowInv /\ ShapeInv /\ KeyInv /\ SlotsFollowRows /\ AccInv /\ [Next]_vars
  => AccInv' /\ [Abs!AbsNext]_(Abs!absvars)
<1> SUFFICES ASSUME JoinInv, RowInv, ShapeInv, KeyInv, SlotsFollowRows, AccInv, [Next]_vars
             PROVE  AccKept
  BY DEF AccKept
<1>1. CASE Fill \/ CanCompare
  BY <1>1, FillAcc, CanCompareAcc
<1>2. CASE HashRight \/ OpenLeft \/ HashLeft
  BY <1>2, HashRightAcc, OpenLeftAcc, HashLeftAcc
<1>3. CASE \E i \in todo : WorkFirst(i) \/ WorkSecond(i)
  BY <1>3, WorkAcc
<1>4. CASE MergeFirst \/ MergeSecond
  BY <1>4, MergeFirstAcc, MergeSecondAcc
<1>5. CASE NoBody \/ NoBodySecond
  BY <1>5, NoBodyAcc, NoBodySecondAcc
<1>6. CASE Disjoint \/ Union
  BY <1>6, DisjointAcc, UnionAcc
<1>7. CASE Cleanup
  BY <1>7, CleanupAcc
<1>8. CASE FillRejected \/ UnionOfEmpty \/ PrintResults \/ Finished \/ UNCHANGED vars
  BY <1>8, EndAcc
<1> QED BY <1>1, <1>2, <1>3, <1>4, <1>5, <1>6, <1>7, <1>8 DEF Next

\* Where every file of which all rows are kept has one, join() is the sequence of
\* relational joins of its files: the hash tables, the two passes, the workers in any
\* order, the positions of the readers and the cached types change nothing in the rows
\* (join() of csvJoin.cpp and include/csvjoin).
THEOREM JoinIsRelational == Spec /\ KeptFilesHaveRows => Refines
<1>1. Init /\ KeptFilesHaveRows => AccInv /\ Abs!AbsInit
  BY AccInit
<1>2. /\ JoinInv /\ RowInv /\ ShapeInv /\ KeyInv /\ SlotsFollowRows /\ AccInv /\ [Next]_vars
      => AccInv' /\ [Abs!AbsNext]_(Abs!absvars)
  BY AccStep
<1> QED BY <1>1, <1>2, JoinInvHolds, RowInvHolds, ShapeInvHolds, KeyInvHolds, SlotsHold, PTL
        DEF Spec, Refines, Abs!AbsSpec

-------------------------------------------------------------------------------
(* What is printed by type.  The columns of every table are followed through *)
(* the joins: a cell that the function of its column's type will be asked to *)
(* print is one it can print.                                                *)

Printable(type, blanks, v) ==
  \/ type = "text"
  \/ v \in Nulls /\ ~args.blanks
  \/ v \notin Nulls /\ ~(args.blanks /\ blanks) /\ ~args.no_inference
RowClear(row, t) == \A c \in DOMAIN row : Printable(t.types[c], t.blanks[c], Value(row[c]))
Clear(rows, t) == \A j \in DOMAIN rows : RowClear(rows[j], t)

\* The columns that the second table adds to the first.
AddedTypes ==
  [types  |-> IF KeepsKey THEN ts_n_blanks[2].types ELSE RemoveAt(ts_n_blanks[2].types, c_ids[2]),
   blanks |-> IF KeepsKey THEN ts_n_blanks[2].blanks ELSE RemoveAt(ts_n_blanks[2].blanks, c_ids[2])]

ResultPcs == {"hash_left", "second", "no_body_2", "cleanup"}

\* Every table still to be joined is clear, and so is the result.
ClearInv ==
  /\ ~args.blanks \/ Inner
  /\ \A i \in DOMAIN ts_n_blanks : Clear(SourceRows(i), ts_n_blanks[i])
  /\ pc \in ResultPcs => Clear(impl, ConcatTypes)

\* Under --no-inference every column of files that all have rows is one of text.
AllText(t) == \A c \in DOMAIN t.types : t.types[c] = "text"
TextInv == \A i \in DOMAIN ts_n_blanks : AllText(ts_n_blanks[i])

-------------------------------------------------------------------------------
(* Rows.                                                                     *)

\* A row of two rows is clear under the types of the two, side by side.
LEMMA ConcatClear ==
  ASSUME NEW a, IsSeq(a), NEW ta, NEW b, IsSeq(b), NEW tb, NEW t,
         IsSeq(ta.types), IsSeq(ta.blanks), IsSeq(tb.types), IsSeq(tb.blanks),
         Len(ta.types) = Len(a), Len(ta.blanks) = Len(a),
         Len(tb.types) = Len(b), Len(tb.blanks) = Len(b),
         t.types = ta.types \o tb.types, t.blanks = ta.blanks \o tb.blanks,
         RowClear(a, ta), RowClear(b, tb)
  PROVE  RowClear(a \o b, t)
<1> PICK row : row = a \o b
  OBVIOUS
<1> PICK s : s = t.types
  OBVIOUS
<1> PICK u : u = t.blanks
  OBVIOUS
<1>1. Joins(row, a, b)
  BY ConcatJoins
<1>2. Joins(s, ta.types, tb.types)
  BY ConcatJoins
<1>3. Joins(u, ta.blanks, tb.blanks)
  BY ConcatJoins
<1>4. /\ DOMAIN ta.types = DOMAIN a /\ DOMAIN ta.blanks = DOMAIN a
      /\ DOMAIN tb.types = DOMAIN b /\ DOMAIN tb.blanks = DOMAIN b
      /\ DOMAIN a = 1..Len(a) /\ DOMAIN b = 1..Len(b) /\ Len(a) \in Nat /\ Len(b) \in Nat
  BY IsSeqFacts
<1> SUFFICES ASSUME NEW c \in DOMAIN row PROVE Printable(s[c], u[c], Value(row[c]))
  BY DEF RowClear
<1>5. CASE c \in DOMAIN a /\ row[c] = a[c]
  <2>1. s[c] = ta.types[c] /\ u[c] = ta.blanks[c]
    BY <1>2, <1>3, <1>4, <1>5 DEF Joins
  <2> QED BY <1>5, <2>1 DEF RowClear
<1>6. CASE c - Len(a) \in DOMAIN b /\ row[c] = b[c - Len(a)]
  <2> PICK d : d = c - Len(a)
    OBVIOUS
  <2>1. c \in Int
    <3>1. IsSeq(row)
      BY <1>1 DEF Joins
    <3> QED BY <3>1, IsSeqFacts
  <2>2. Len(a) + d = c
    BY <1>4, <2>1
  <2>3. d \in DOMAIN b /\ row[c] = b[d] /\ d \in DOMAIN tb.types /\ d \in DOMAIN tb.blanks
    BY <1>4, <1>6
  <2>4. s[Len(ta.types) + d] = tb.types[d]
    BY <1>2, <2>3 DEF Joins
  <2>5. u[Len(ta.blanks) + d] = tb.blanks[d]
    BY <1>3, <2>3 DEF Joins
  <2>6. s[c] = tb.types[d] /\ u[c] = tb.blanks[d]
    BY <2>2, <2>4, <2>5
  <2> QED BY <2>3, <2>6 DEF RowClear
<1> QED BY <1>1, <1>5, <1>6 DEF Joins

LEMMA RemovedClear ==
  ASSUME NEW r, IsSeq(r), NEW t, IsSeq(t.types), IsSeq(t.blanks),
         Len(t.types) = Len(r), Len(t.blanks) = Len(r), NEW k \in DOMAIN r, RowClear(r, t),
         NEW u, u.types = RemoveAt(t.types, k), u.blanks = RemoveAt(t.blanks, k)
  PROVE  /\ RowClear(RemoveAt(r, k), u) /\ IsSeq(RemoveAt(r, k))
         /\ Len(RemoveAt(r, k)) = Len(r) - 1
<1> PICK s : s = RemoveAt(r, k)
  OBVIOUS
<1> DEFINE at(c) == IF c < k THEN c ELSE c + 1
<1>1. Len(r) \in Nat /\ DOMAIN r = 1..Len(r) /\ DOMAIN t.types = DOMAIN r /\ DOMAIN t.blanks = DOMAIN r
  BY IsSeqFacts
<1>2. /\ IsSeq(s) /\ Len(s) = Len(r) - 1
      /\ \A c \in 1..(Len(r) - 1) : at(c) \in DOMAIN r /\ s[c] = r[at(c)]
  BY RemoveAtShift
<1>3. \A p : IsSeq(p) /\ Len(p) = Len(r) =>
        \A c \in 1..(Len(r) - 1) : RemoveAt(p, k)[c] = p[at(c)]
  <2> SUFFICES ASSUME NEW p, IsSeq(p), Len(p) = Len(r)
               PROVE  \A c \in 1..(Len(r) - 1) : RemoveAt(p, k)[c] = p[at(c)]
    OBVIOUS
  <2>1. k \in DOMAIN p
    BY <1>1, IsSeqFacts
  <2> QED BY <2>1, RemoveAtShift
<1>4. /\ \A c \in 1..(Len(r) - 1) : u.types[c] = t.types[at(c)]
      /\ \A c \in 1..(Len(r) - 1) : u.blanks[c] = t.blanks[at(c)]
  <2> HIDE DEF at
  <2> QED BY <1>3
<1>5. DOMAIN s = 1..(Len(r) - 1)
  BY <1>2, IsSeqFacts
<1> HIDE DEF at
<1>6. RowClear(s, u)
  BY <1>2, <1>4, <1>5 DEF RowClear
<1> QED BY <1>2, <1>6

\* A null that is no value can be padded with.
LEMMA PaddingClear ==
  ASSUME ~args.blanks, NEW n, NEW t
  PROVE  RowClear(Padding(n), t)
<1> PICK row : row = Padding(n)
  OBVIOUS
<1>1. \A c \in DOMAIN row : row[c] = Pad
  BY DEF Padding
<1>2. Value(Pad) \in Nulls
  BY TablesAssumption DEF Value
<1> QED BY <1>1, <1>2 DEF RowClear, Printable

LEMMA ClearFlattened ==
  ASSUME NEW slots, IsSeq(slots), \A i \in DOMAIN slots : RowsOK(slots[i]),
         NEW t, \A i \in DOMAIN slots : Clear(slots[i], t)
  PROVE  Clear(FlattenSeq(slots), t)
<1> PICK rows : rows = FlattenSeq(slots)
  OBVIOUS
<1>1. Len(slots) \in Nat /\ DOMAIN slots = 1..Len(slots)
  BY IsSeqFacts
<1>2. Gathered(rows, slots, Len(slots))
  BY FlattenFacts DEF RowsOK
<1>3. \A m \in DOMAIN rows : \E i \in DOMAIN slots : \E k \in DOMAIN slots[i] : rows[m] = slots[i][k]
  BY <1>1, <1>2 DEF Gathered
<1> QED BY <1>3 DEF Clear

LEMMA ClearBoth ==
  ASSUME NEW s, IsSeq(s), NEW u, IsSeq(u), NEW t, Clear(s, t), Clear(u, t)
  PROVE  Clear(s \o u, t)
<1>1. Joins(s \o u, s, u)
  BY ConcatJoins
<1> PICK r : r = s \o u
  OBVIOUS
<1>2. \A c \in DOMAIN r : \/ c \in DOMAIN s /\ r[c] = s[c]
                          \/ c - Len(s) \in DOMAIN u /\ r[c] = u[c - Len(s)]
  BY <1>1 DEF Joins
<1> QED BY <1>2 DEF Clear

-------------------------------------------------------------------------------
(* What typify() says of a table is clear of it.                             *)

LEMMA TypifyClear ==
  ASSUME NEW rows, NEW n \in Nat, \A i \in DOMAIN rows : DOMAIN rows[i] = 1..n
  PROVE  Clear(rows, Typify(rows, n))
<1> SUFFICES ASSUME NEW i \in DOMAIN rows, NEW c \in 1..n
             PROVE  Printable(Typify(rows, n).types[c], Typify(rows, n).blanks[c], Value(rows[i][c]))
  BY DEF Clear, RowClear
<1>1. /\ Typify(rows, n).types[c] = TypeOf(Column(rows, c))
      /\ Typify(rows, n).blanks[c] = HasBlanks(Column(rows, c))
  BY DEF Typify
<1> DEFINE vals == Column(rows, c)
<1>2. Value(rows[i][c]) \in vals
  BY DEF Column
<1> HIDE DEF vals
<1>3. ASSUME NEW v \in vals
      PROVE  Printable(TypeOf(vals), HasBlanks(vals), v)
  <2>1. Nulls \cap Numerals = {}
    BY TablesAssumption
  <2>2. args.blanks => ~HasBlanks(vals)
    BY DEF HasBlanks, Absent
  <2> SUFFICES ASSUME TypeOf(vals) # "text" PROVE (v \in Nulls /\ ~args.blanks) \/ (v \notin Nulls /\ ~args.no_inference)
    BY <2>2 DEF Printable
  <2>3. ~args.no_inference /\ (Absent(v) \/ v \in Numerals)
    BY DEF TypeOf
  <2> QED BY <2>1, <2>3 DEF Absent
<1> QED BY <1>1, <1>2, <1>3 DEF vals

LEMMA FileClear ==
  ASSUME KeysOK, NEW f \in File
  PROVE  Clear(BodyRows(f), FileTypes(f))
<1>1. CASE keys[f] = <<>>
  <2>1. BodyRows(f) = <<>>
    BY <1>1, BodyRowsFacts
  <2> QED BY <2>1 DEF Clear
<1>2. CASE keys[f] # <<>>
  <2>1. FileTypes(f) = Typify(BodyRows(f), Width(f))
    BY <1>2 DEF FileTypes
  <2>2. \A i \in DOMAIN BodyRows(f) : DOMAIN BodyRows(f)[i] = 1..Width(f)
    BY BodyRowsFacts, IsSeqFacts DEF RowsOK
  <2>3. Width(f) \in Nat
    BY WidthFacts
  <2> QED BY <2>1, <2>2, <2>3, TypifyClear
<1> QED BY <1>1, <1>2

-------------------------------------------------------------------------------
(* The two tables in front and the rows made of them.                        *)

\* The types of the joined table are those of the first and what the second adds.
LEMMA TypesInFront ==
  ASSUME JoinInv, RowInv, pc \in JoiningPcs \/ (pc = "loop" /\ Len(deq) > 1)
  PROVE  LET t1 == ts_n_blanks[1]  t2 == ts_n_blanks[2]  more == AddedTypes IN
         /\ IsSeq(t1.types) /\ IsSeq(t1.blanks) /\ Len(t1.blanks) = Len(t1.types)
         /\ IsSeq(t2.types) /\ IsSeq(t2.blanks) /\ Len(t2.blanks) = Len(t2.types)
         /\ IsSeq(more.types) /\ IsSeq(more.blanks) /\ Len(more.blanks) = Len(more.types)
         /\ Len(more.types) = Len(t2.types) - (IF KeepsKey THEN 0 ELSE 1)
         /\ ConcatTypes.types = t1.types \o more.types
         /\ ConcatTypes.blanks = t1.blanks \o more.blanks
         /\ 1 \in DOMAIN ts_n_blanks /\ 2 \in DOMAIN ts_n_blanks
<1>1. 1 \in DOMAIN ts_n_blanks /\ 2 \in DOMAIN ts_n_blanks
  <2>1. Len(headers) = Len(deq) /\ 1 \in DOMAIN deq /\ 2 \in DOMAIN deq
    BY InProgress DEF JoinInv, Lockstep, Filled, JoiningPcs
  <2> QED BY <2>1, Sizes
<1>2. ts_n_blanks[1] \in TableTypes /\ ts_n_blanks[2] \in TableTypes
  BY <1>1, ElementOfSeq, Sizes DEF JoinInv, TypeOK, TablesOK
<1> PICK s : s = ts_n_blanks[1].types
  OBVIOUS
<1> PICK sb : sb = ts_n_blanks[1].blanks
  OBVIOUS
<1> PICK t : t = ts_n_blanks[2].types
  OBVIOUS
<1> PICK tb : tb = ts_n_blanks[2].blanks
  OBVIOUS
<1>3. IsSeq(s) /\ IsSeq(sb) /\ IsSeq(t) /\ IsSeq(tb) /\ Len(sb) = Len(s) /\ Len(tb) = Len(t)
  <2>1. s \in Seq(ColumnType) /\ sb \in Seq(BOOLEAN) /\ t \in Seq(ColumnType) /\ tb \in Seq(BOOLEAN)
    BY <1>2 DEF TableTypes
  <2>2. Len(sb) = Len(s) /\ Len(tb) = Len(t)
    BY <1>1 DEF JoinInv, TypeOK, TablesOK
  <2> QED BY <2>1, <2>2, SeqIsSeq
<1>4. ConcatTypes.types = Concat(s, t) /\ ConcatTypes.blanks = Concat(sb, tb)
  BY DEF ConcatTypes
<1>5. CASE KeepsKey
  <2>1. AddedTypes.types = t /\ AddedTypes.blanks = tb
    BY <1>5 DEF AddedTypes
  <2>2. Concat(s, t) = s \o t /\ Concat(sb, tb) = sb \o tb
    BY <1>5 DEF Concat
  <2>3. Len(t) = Len(t) - 0
    BY <1>3, IsSeqFacts
  <2> QED BY <1>1, <1>3, <1>4, <1>5, <2>1, <2>2, <2>3
<1>6. CASE ~KeepsKey
  <2> PICK k : k = c_ids[2]
    OBVIOUS
  <2>1. k \in 1..Len(t)
    BY <1>6, InProgress DEF KeepsKey
  <2>2. k \in DOMAIN t /\ k \in DOMAIN tb
    BY <1>3, <2>1, IsSeqFacts
  <2> PICK r : r = RemoveAt(t, k)
    OBVIOUS
  <2> PICK rb : rb = RemoveAt(tb, k)
    OBVIOUS
  <2>3. IsSeq(r) /\ Len(r) = Len(t) - 1 /\ IsSeq(rb) /\ Len(rb) = Len(tb) - 1
    BY <1>3, <2>2, RemoveAtRow
  <2>4. AddedTypes.types = r /\ AddedTypes.blanks = rb
    BY <1>6 DEF AddedTypes
  <2>5. Concat(s, t) = s \o r /\ Concat(sb, tb) = sb \o rb
    BY <1>6 DEF Concat
  <2> QED BY <1>1, <1>3, <1>4, <1>6, <2>3, <2>4, <2>5
<1> QED BY <1>5, <1>6

\* A row of the first table followed by what the second adds.
LEMMA AddedClear ==
  ASSUME JoinInv, RowInv, pc \in JoiningPcs \/ (pc = "loop" /\ Len(deq) > 1),
         NEW l, IsSeq(l), Len(l) = Len(ts_n_blanks[1].types), RowClear(l, ts_n_blanks[1]),
         NEW p, IsSeq(p), Len(p) = Len(AddedTypes.types), RowClear(p, AddedTypes)
  PROVE  RowClear(l \o p, ConcatTypes)
<1> PICK t1 : t1 = ts_n_blanks[1]
  OBVIOUS
<1> PICK more : more = AddedTypes
  OBVIOUS
<1> PICK t : t = ConcatTypes
  OBVIOUS
<1>1. /\ IsSeq(t1.types) /\ IsSeq(t1.blanks) /\ Len(t1.blanks) = Len(t1.types)
      /\ IsSeq(more.types) /\ IsSeq(more.blanks) /\ Len(more.blanks) = Len(more.types)
      /\ t.types = t1.types \o more.types /\ t.blanks = t1.blanks \o more.blanks
  BY TypesInFront
<1>2. RowClear(l \o p, t)
  BY <1>1, ConcatClear
<1> QED BY <1>2

\* The rows of a keyed join.
LEMMA GlueClear ==
  ASSUME JoinInv, RowInv, pc \in JoiningPcs, ~IsUnion,
         NEW l, IsSeq(l), Len(l) = Len(ts_n_blanks[1].types), RowClear(l, ts_n_blanks[1]),
         NEW r, IsSeq(r), Len(r) = Len(ts_n_blanks[2].types), RowClear(r, ts_n_blanks[2])
  PROVE  RowClear(Glue(l, r), ConcatTypes)
<1> PICK t2 : t2 = ts_n_blanks[2]
  OBVIOUS
<1> PICK more : more = AddedTypes
  OBVIOUS
<1>1. /\ IsSeq(t2.types) /\ IsSeq(t2.blanks) /\ Len(t2.blanks) = Len(t2.types)
      /\ Len(more.types) = Len(t2.types) - (IF KeepsKey THEN 0 ELSE 1)
  BY TypesInFront
<1>2. CASE IsOuter
  <2>1. KeepsKey
    BY <1>2 DEF KeepsKey
  <2>2. more.types = t2.types /\ more.blanks = t2.blanks
    BY <2>1 DEF AddedTypes
  <2>3. RowClear(r, more)
    BY <2>2 DEF RowClear
  <2>4. Glue(l, r) = l \o r
    BY <1>2 DEF Glue
  <2> QED BY <2>2, <2>3, <2>4, AddedClear
<1>3. CASE ~IsOuter
  <2>1. ~KeepsKey
    BY <1>3 DEF KeepsKey
  <2> PICK k : k = c_ids[2]
    OBVIOUS
  <2>2. more.types = RemoveAt(t2.types, k) /\ more.blanks = RemoveAt(t2.blanks, k)
    BY <2>1 DEF AddedTypes
  <2>3. k \in DOMAIN r
    <3>1. k \in 1..Len(t2.types)
      BY InProgress
    <3> QED BY <3>1, IsSeqFacts
  <2> PICK p : p = RemoveAt(r, k)
    OBVIOUS
  <2>4. RowClear(p, more) /\ IsSeq(p) /\ Len(p) = Len(r) - 1
    BY <1>1, <2>2, <2>3, RemovedClear
  <2>5. Glue(l, r) = l \o p
    BY <1>3 DEF Glue
  <2> QED BY <1>1, <2>1, <2>4, <2>5, AddedClear
<1> QED BY <1>2, <1>3

LEMMA PadRightClear ==
  ASSUME JoinInv, RowInv, pc \in JoiningPcs, ~IsUnion, ~args.blanks,
         NEW l, IsSeq(l), Len(l) = Len(ts_n_blanks[1].types), RowClear(l, ts_n_blanks[1])
  PROVE  RowClear(PadRight(l), ConcatTypes)
<1> PICK n : n = Len(ts_n_blanks[2].types) - (IF IsOuter THEN 0 ELSE 1)
  OBVIOUS
<1>1. n = Len(AddedTypes.types)
  BY TypesInFront DEF KeepsKey
<1>2. n \in Nat
  BY <1>1, TypesInFront, IsSeqFacts
<1> PICK p : p = Padding(n)
  OBVIOUS
<1>3. IsSeq(p) /\ Len(p) = n /\ RowClear(p, AddedTypes)
  BY <1>2, PaddingRow, PaddingClear
<1>4. PadRight(l) = l \o p
  BY DEF PadRight
<1> QED BY <1>1, <1>3, <1>4, AddedClear

LEMMA PadLeftClear ==
  ASSUME JoinInv, RowInv, pc \in JoiningPcs, IsOuter, ~args.blanks,
         NEW r, IsSeq(r), Len(r) = Len(ts_n_blanks[2].types), RowClear(r, ts_n_blanks[2])
  PROVE  RowClear(PadLeft(r), ConcatTypes)
<1> PICK n : n = Len(ts_n_blanks[1].types)
  OBVIOUS
<1>1. n \in Nat
  BY InProgress
<1> PICK p : p = Padding(n)
  OBVIOUS
<1>2. IsSeq(p) /\ Len(p) = n /\ RowClear(p, ts_n_blanks[1])
  BY <1>1, PaddingRow, PaddingClear
<1>3. PadLeft(r) = p \o r
  BY DEF PadLeft
<1>4. Len(r) = Len(AddedTypes.types) /\ RowClear(r, AddedTypes)
  <2>1. KeepsKey
    BY DEF KeepsKey
  <2>2. AddedTypes.types = ts_n_blanks[2].types /\ AddedTypes.blanks = ts_n_blanks[2].blanks
    BY <2>1 DEF AddedTypes
  <2> QED BY <2>2 DEF RowClear
<1> QED BY <1>2, <1>3, <1>4, AddedClear

\* The tables being joined.
LEMMA ClearInFront ==
  ASSUME JoinInv, RowInv, ShapeInv, ClearInv, pc \in JoiningPcs \/ (pc = "loop" /\ Len(deq) > 1)
  PROVE  /\ RowsOK(LeftRows) /\ Clear(LeftRows, ts_n_blanks[1])
         /\ \A i \in DOMAIN LeftRows : Len(LeftRows[i]) = Len(ts_n_blanks[1].types)
         /\ RowsOK(RightRows) /\ Clear(RightRows, ts_n_blanks[2])
         /\ \A i \in DOMAIN RightRows : Len(RightRows[i]) = Len(ts_n_blanks[2].types)
<1>1. SourceRows(1) = LeftRows /\ SourceRows(2) = RightRows
  BY InProgress DEF SourceRows, LeftRows, RightRows
<1>2. 1 \in DOMAIN ts_n_blanks /\ 2 \in DOMAIN ts_n_blanks
  BY TypesInFront
<1>3. Clear(LeftRows, ts_n_blanks[1]) /\ Clear(RightRows, ts_n_blanks[2])
  BY <1>1, <1>2 DEF ClearInv
<1>4. \A i \in DOMAIN LeftRows : Len(LeftRows[i]) = Len(ts_n_blanks[1].types)
  BY InShape DEF Fits, RowFits
<1>5. /\ RowsOK(LeftRows) /\ RowsOK(RightRows)
      /\ \A i \in DOMAIN RightRows : Len(RightRows[i]) = Len(ts_n_blanks[2].types)
  BY InProgress DEF Kept
<1> QED BY <1>3, <1>4, <1>5

LEMMA LeftRowClear ==
  ASSUME JoinInv, RowInv, ShapeInv, ClearInv, pc = "first", NEW i \in DOMAIN LeftRows
  PROVE  Clear(LeftRow(LeftRows[i]), ConcatTypes)
<1> PICK l : l = LeftRows[i]
  OBVIOUS
<1> PICK t : t = ConcatTypes
  OBVIOUS
<1>1. pc \in JoiningPcs /\ ~IsUnion /\ hash.rows = RightRows
  BY DEF RowInv, Opened, Keyed, KeyedPcs, NewHash, JoiningPcs
<1>2. /\ IsSeq(l) /\ Len(l) = Len(ts_n_blanks[1].types) /\ RowClear(l, ts_n_blanks[1])
      /\ RowsOK(RightRows)
      /\ \A j \in DOMAIN RightRows : /\ IsSeq(RightRows[j])
                                     /\ Len(RightRows[j]) = Len(ts_n_blanks[2].types)
                                     /\ RowClear(RightRows[j], ts_n_blanks[2])
  BY <1>1, ClearInFront DEF RowsOK, Clear
<1> PICK found : found = Find(hash, l[c_ids[1]])
  OBVIOUS
<1>3. \A k \in DOMAIN found : \E j \in DOMAIN RightRows : found[k] = RightRows[j]
  BY <1>1, <1>2, FindFacts
<1>4. \A k \in DOMAIN found : RowClear(Glue(l, found[k]), t)
  <2> SUFFICES ASSUME NEW k \in DOMAIN found PROVE RowClear(Glue(l, found[k]), t)
    OBVIOUS
  <2> PICK r : r = found[k]
    OBVIOUS
  <2>1. IsSeq(r) /\ Len(r) = Len(ts_n_blanks[2].types) /\ RowClear(r, ts_n_blanks[2])
    BY <1>2, <1>3
  <2>2. RowClear(Glue(l, r), t)
    BY <1>1, <1>2, <2>1, GlueClear
  <2> QED BY <2>2
<1>5. LeftRow(l) = IF found = <<>> THEN IF args.kind = "inner" THEN <<>> ELSE <<PadRight(l)>>
                   ELSE [k \in DOMAIN found |-> Glue(l, found[k])]
  BY DEF LeftRow
<1>6. CASE found = <<>> /\ args.kind = "inner"
  <2>1. LeftRow(l) = <<>>
    BY <1>5, <1>6
  <2> QED BY <2>1 DEF Clear
<1>7. CASE found = <<>> /\ args.kind # "inner"
  <2> PICK p : p = PadRight(l)
    OBVIOUS
  <2>1. ~args.blanks
    BY <1>7 DEF ClearInv, Inner
  <2>2. LeftRow(l) = <<p>> /\ RowClear(p, t)
    BY <1>1, <1>2, <1>5, <1>7, <2>1, PadRightClear
  <2>3. Clear(<<p>>, t)
    BY <2>2 DEF Clear
  <2> QED BY <2>2, <2>3
<1>8. CASE found # <<>>
  <2>1. /\ DOMAIN LeftRow(l) = DOMAIN found
        /\ \A k \in DOMAIN found : LeftRow(l)[k] = Glue(l, found[k])
    BY <1>5, <1>8
  <2> QED BY <1>4, <2>1 DEF Clear
<1> QED BY <1>6, <1>7, <1>8

LEMMA RightRowClear ==
  ASSUME JoinInv, RowInv, ShapeInv, ClearInv, pc = "second", NEW i \in DOMAIN RightRows
  PROVE  Clear(RightRow(RightRows[i]), ConcatTypes)
<1> PICK r : r = RightRows[i]
  OBVIOUS
<1> PICK t : t = ConcatTypes
  OBVIOUS
<1> PICK p : p = PadLeft(r)
  OBVIOUS
<1>1. pc \in JoiningPcs /\ IsOuter /\ ~args.blanks
  BY DEF RowInv, Keyed, KeyedPcs, JoiningPcs, ClearInv, Inner, IsOuter
<1>2. IsSeq(r) /\ Len(r) = Len(ts_n_blanks[2].types) /\ RowClear(r, ts_n_blanks[2])
  BY <1>1, ClearInFront DEF RowsOK, Clear
<1>3. RowClear(p, t)
  BY <1>1, <1>2, PadLeftClear
<1>4. Clear(<<>>, t) /\ Clear(<<p>>, t)
  BY <1>3 DEF Clear
<1>5. RightRow(r) = <<>> \/ RightRow(r) = <<p>>
  BY DEF RightRow
<1> QED BY <1>4, <1>5

\* Whole tables, padded.
LEMMA RightPaddedClear ==
  ASSUME JoinInv, RowInv, ShapeInv, ClearInv, pc \in JoiningPcs, ~IsUnion, ~args.blanks,
         NEW rows, rows = [i \in DOMAIN LeftRows |-> PadRight(LeftRows[i])]
  PROVE  Clear(rows, ConcatTypes)
<1> PICK source : source = LeftRows
  OBVIOUS
<1> PICK t : t = ConcatTypes
  OBVIOUS
<1>1. \A i \in DOMAIN source : /\ IsSeq(source[i]) /\ Len(source[i]) = Len(ts_n_blanks[1].types)
                               /\ RowClear(source[i], ts_n_blanks[1])
  BY ClearInFront DEF RowsOK, Clear
<1>2. \A i \in DOMAIN source : RowClear(PadRight(source[i]), t)
  BY <1>1, PadRightClear
<1>3. DOMAIN rows = DOMAIN source /\ \A i \in DOMAIN source : rows[i] = PadRight(source[i])
  OBVIOUS
<1> QED BY <1>2, <1>3 DEF Clear

LEMMA LeftPaddedClear ==
  ASSUME JoinInv, RowInv, ShapeInv, ClearInv, pc \in JoiningPcs, IsOuter, ~args.blanks,
         NEW rows, rows = [i \in DOMAIN RightRows |-> PadLeft(RightRows[i])]
  PROVE  Clear(rows, ConcatTypes)
<1> PICK source : source = RightRows
  OBVIOUS
<1> PICK t : t = ConcatTypes
  OBVIOUS
<1>1. \A i \in DOMAIN source : /\ IsSeq(source[i]) /\ Len(source[i]) = Len(ts_n_blanks[2].types)
                               /\ RowClear(source[i], ts_n_blanks[2])
  BY ClearInFront DEF RowsOK, Clear
<1>2. \A i \in DOMAIN source : RowClear(PadLeft(source[i]), t)
  BY <1>1, PadLeftClear
<1>3. DOMAIN rows = DOMAIN source /\ \A i \in DOMAIN source : rows[i] = PadLeft(source[i])
  OBVIOUS
<1> QED BY <1>2, <1>3 DEF Clear

-------------------------------------------------------------------------------
(* The steps.                                                                *)

\* Whether rows are clear depends on the command line and on the key columns alone.
LEMMA ClearKept ==
  ASSUME args' = args, keys' = keys, NEW rows, NEW t, Clear(rows, t), NEW i
  PROVE  /\ SourceRows(i)' = rows /\ ts_n_blanks'[i] = t => Clear(SourceRows(i), ts_n_blanks[i])'
         /\ impl' = rows /\ ConcatTypes' = t => Clear(impl, ConcatTypes)'
<1>1. \A j \in DOMAIN rows : \A c \in DOMAIN rows[j] :
        Printable(t.types[c], t.blanks[c], Value(rows[j][c]))'
  BY DEF Clear, RowClear, Printable, Value
<1>2. SourceRows(i)' = rows /\ ts_n_blanks'[i] = t => Clear(SourceRows(i), ts_n_blanks[i])'
  BY <1>1 DEF Clear, RowClear, Printable, Value
<1>3. impl' = rows /\ ConcatTypes' = t => Clear(impl, ConcatTypes)'
  BY <1>1 DEF Clear, RowClear, Printable, Value
<1> QED BY <1>2, <1>3

\* A source that is moved has the rows it had.
LEMMA SourceKept ==
  ASSUME keys' = keys, NEW i, NEW j, deq[j].kind \in {"reader", "fake"},
         \/ deq'[i] = deq[j]
         \/ deq[j].kind = "reader" /\ deq'[i].kind = "reader" /\ deq'[i].file = deq[j].file
  PROVE  SourceRows(i)' = SourceRows(j)
<1>1. CASE deq[j].kind = "fake"
  BY <1>1 DEF SourceRows
<1>2. CASE deq[j].kind = "reader"
  <2> PICK g : g = deq[j].file
    OBVIOUS
  <2>1. BodyRows(g)' = BodyRows(g)
    BY DEF BodyRows, RunRows, Reader, NLines, Line, Width
  <2> QED BY <1>2, <2>1 DEF SourceRows
<1> QED BY <1>1, <1>2

\* The types of a table have a source.
LEMMA TypedSource ==
  ASSUME JoinInv, NEW i \in DOMAIN ts_n_blanks
  PROVE  i \in DOMAIN deq /\ deq[i].kind \in {"reader", "fake"}
<1>1. /\ DOMAIN deq = 1..Len(deq) /\ Len(deq) \in Nat
      /\ DOMAIN ts_n_blanks = 1..Len(headers) /\ Len(headers) \in Nat
  BY Sizes
<1>2. i \in DOMAIN deq
  <2>1. Len(headers) = Len(deq) \/ Len(headers) < Len(deq)
    BY DEF JoinInv, Lockstep
  <2> QED BY <1>1, <2>1
<1> QED BY <1>2 DEF JoinInv, TypeOK, DeqOK

\* A step that leaves the types and the result alone.
LEMMA ClearStays ==
  ASSUME JoinInv, RowInv, ClearInv, args' = args, keys' = keys, c_ids' = c_ids,
         ts_n_blanks' = ts_n_blanks,
         \/ deq' = deq
         \/ \E i \in DOMAIN deq : /\ deq[i].kind = "reader"
                                  /\ \E p \in 0..Body : deq' = At(i, p),
         pc' \in ResultPcs => Clear(impl, ConcatTypes)'
  PROVE  ClearInv'
<1>1. \A i \in DOMAIN deq : /\ deq'[i].kind = deq[i].kind
                            /\ deq[i].kind = "reader" => deq'[i].file = deq[i].file
                            /\ deq[i].kind = "fake" => deq'[i] = deq[i]
  BY SourcesMove
<1>2. ASSUME NEW i \in DOMAIN ts_n_blanks PROVE Clear(SourceRows(i), ts_n_blanks[i])'
  <2>1. i \in DOMAIN deq /\ deq[i].kind \in {"reader", "fake"}
    BY TypedSource
  <2> PICK rows : rows = SourceRows(i)
    OBVIOUS
  <2> PICK t : t = ts_n_blanks[i]
    OBVIOUS
  <2>2. SourceRows(i)' = rows
    BY <1>1, <2>1, SourceKept
  <2>3. Clear(rows, t)
    BY DEF ClearInv
  <2> QED BY <2>2, <2>3, ClearKept
<1> QED BY <1>2 DEF ClearInv, Inner, IsUnion

\* The types of the joined table are those of the two, whatever happens to the readers.
LEMMA ConcatKept ==
  ASSUME args' = args, c_ids' = c_ids, ts_n_blanks' = ts_n_blanks
  PROVE  ConcatTypes' = ConcatTypes
BY DEF ConcatTypes, Concat, KeepsKey, IsOuter, IsUnion

\* A step that makes new rows.
LEMMA ClearAdded ==
  ASSUME JoinInv, RowInv, ClearInv, args' = args, keys' = keys, c_ids' = c_ids,
         ts_n_blanks' = ts_n_blanks, deq' = deq,
         NEW rows, impl' = rows, Clear(rows, ConcatTypes)
  PROVE  ClearInv'
<1> PICK t : t = ConcatTypes
  OBVIOUS
<1>1. Clear(impl, ConcatTypes)'
  <2>1. ConcatTypes' = t
    BY ConcatKept
  <2> QED BY <2>1, ClearKept
<1> QED BY <1>1, ClearStays

LEMMA OpenClear ==
  ASSUME JoinInv, RowInv, ClearInv, HashRight \/ OpenLeft \/ HashLeft
  PROVE  ClearInv'
<1>1. /\ pc \in {"hash_right", "open_left", "hash_left"} /\ pc \in JoiningPcs
      /\ args' = args /\ keys' = keys /\ c_ids' = c_ids
      /\ ts_n_blanks' = ts_n_blanks /\ impl' = impl
      /\ pc' \in ResultPcs => pc = "hash_left"
      /\ deq' = deq \/ deq' = At(2, IF IsOuter THEN Header ELSE 0) \/ deq' = At(2, 0)
         \/ (deq' = At(1, 0) /\ deq[1].kind # "fake")
  BY DEF HashRight, OpenLeft, HashLeft, Untouched, Tables, JoiningPcs, ResultPcs
<1>2. /\ 1 \in DOMAIN deq /\ 2 \in DOMAIN deq /\ deq[2].kind = "reader"
      /\ deq[1].kind \in {"reader", "fake"}
  BY <1>1, InProgress DEF JoinInv, TypeOK, DeqOK
<1>3. \/ deq' = deq
      \/ \E i \in DOMAIN deq : deq[i].kind = "reader" /\ \E p \in 0..Body : deq' = At(i, p)
  <2>1. (IF IsOuter THEN Header ELSE 0) \in 0..Body /\ 0 \in 0..Body
    BY BodyFacts
  <2> QED BY <1>1, <1>2, <2>1
<1>4. pc' \in ResultPcs => Clear(impl, ConcatTypes)'
  <2> HAVE pc' \in ResultPcs
  <2> PICK rows : rows = impl
    OBVIOUS
  <2> PICK t : t = ConcatTypes
    OBVIOUS
  <2>1. Clear(rows, t)
    BY <1>1 DEF ClearInv, ResultPcs
  <2>2. ConcatTypes' = t /\ impl' = rows
    BY <1>1, ConcatKept
  <2> QED BY <1>1, <2>1, <2>2, ClearKept
<1> QED BY <1>1, <1>3, <1>4, ClearStays

\* The workers, the steps that end join(), and no step at all.
LEMMA QuietClear ==
  ASSUME JoinInv, RowInv, ClearInv,
         \/ \E i \in todo : WorkFirst(i) \/ WorkSecond(i)
         \/ FillRejected \/ UnionOfEmpty \/ PrintResults \/ Finished \/ UNCHANGED vars
  PROVE  ClearInv'
<1>1. /\ args' = args /\ keys' = keys /\ c_ids' = c_ids /\ deq' = deq
      /\ ts_n_blanks' = ts_n_blanks /\ impl' = impl
      /\ pc' \in ResultPcs => pc \in ResultPcs
  <2>1. CASE \E i \in todo : WorkFirst(i) \/ WorkSecond(i)
    BY <2>1 DEF WorkFirst, WorkSecond, Work, Untouched, Tables, ResultPcs
  <2>2. CASE FillRejected \/ UnionOfEmpty \/ PrintResults \/ Finished \/ UNCHANGED vars
    BY <2>2 DEF FillRejected, UnionOfEmpty, PrintResults, Finished, vars, Untouched, Tables,
                ResultPcs
  <2> QED BY <2>1, <2>2
<1>2. pc' \in ResultPcs => Clear(impl, ConcatTypes)'
  <2> HAVE pc' \in ResultPcs
  <2> PICK rows : rows = impl
    OBVIOUS
  <2> PICK t : t = ConcatTypes
    OBVIOUS
  <2>1. Clear(rows, t)
    BY <1>1 DEF ClearInv
  <2>2. ConcatTypes' = t /\ impl' = rows
    BY <1>1, ConcatKept
  <2> QED BY <1>1, <2>1, <2>2, ClearKept
<1> QED BY <1>1, <1>2, ClearStays

LEMMA MergeFirstClear ==
  JoinInv /\ RowInv /\ ShapeInv /\ SlotsFollowRows /\ ClearInv /\ MergeFirst => ClearInv'
<1> SUFFICES ASSUME JoinInv, RowInv, ShapeInv, SlotsFollowRows, ClearInv, MergeFirst
             PROVE  ClearInv'
  OBVIOUS
<1>1. /\ pc = "first" /\ pc \in JoiningPcs /\ pc \in KeyedPcs /\ todo = {}
      /\ args' = args /\ keys' = keys /\ deq' = deq /\ c_ids' = c_ids
      /\ ts_n_blanks' = ts_n_blanks
      /\ impl' = impl \o FlattenSeq(join_vec)
  BY DEF MergeFirst, Untouched, Tables, JoiningPcs, KeyedPcs, Merged
<1>2. impl = <<>> /\ table = LeftRows
  BY <1>1 DEF RowInv, Keyed, Opened
<1>3. RowsOK(LeftRows)
  BY <1>1, ClearInFront
<1> PICK slots : slots = join_vec
  OBVIOUS
<1>4. slots = [i \in DOMAIN LeftRows |-> LeftRow(LeftRows[i])]
  BY <1>1, <1>2 DEF SlotsFollowRows, RowResult
<1>5. IsSeq(slots) /\ DOMAIN slots = DOMAIN LeftRows
  <2>1. Len(LeftRows) \in Nat /\ DOMAIN LeftRows = 1..Len(LeftRows)
    BY <1>3, IsSeqFacts DEF RowsOK
  <2>2. slots = [i \in 1..Len(LeftRows) |-> slots[i]]
    BY <1>4, <2>1
  <2> QED BY <1>4, <2>1, <2>2, IsSeqFunction
<1>6. \A i \in DOMAIN slots : IsSeq(LeftRows[i]) /\ slots[i] = LeftRow(LeftRows[i])
  BY <1>3, <1>4 DEF RowsOK
<1> PICK t : t = ConcatTypes
  OBVIOUS
<1>7. \A i \in DOMAIN slots : RowsOK(slots[i]) /\ Clear(slots[i], t)
  BY <1>1, <1>5, <1>6, LeftRowFacts, LeftRowClear
<1> PICK rows : rows = FlattenSeq(slots)
  OBVIOUS
<1>8. RowsOK(rows) /\ Clear(rows, t)
  <2>1. \A i \in DOMAIN slots : RowsOK(slots[i])
    BY <1>7
  <2>2. RowsOK(rows)
    BY <1>5, <2>1, MergedRows
  <2>3. Clear(rows, t)
    BY <1>5, <1>7, ClearFlattened
  <2> QED BY <2>2, <2>3
<1>9. impl' = rows
  <2>1. rows \in Seq({rows[i] : i \in DOMAIN rows})
    BY <1>8 DEF RowsOK, IsSeq
  <2>2. <<>> \o rows = rows
    BY <2>1, ConcatEmptySeq
  <2> QED BY <1>1, <1>2, <2>2
<1> QED BY <1>1, <1>8, <1>9, ClearAdded

LEMMA MergeSecondClear ==
  JoinInv /\ RowInv /\ ShapeInv /\ SlotsFollowRows /\ ClearInv /\ MergeSecond => ClearInv'
<1> SUFFICES ASSUME JoinInv, RowInv, ShapeInv, SlotsFollowRows, ClearInv, MergeSecond
             PROVE  ClearInv'
  OBVIOUS
<1>1. /\ pc = "second" /\ pc \in JoiningPcs /\ pc \in KeyedPcs /\ todo = {}
      /\ args' = args /\ keys' = keys /\ deq' = deq /\ c_ids' = c_ids
      /\ ts_n_blanks' = ts_n_blanks
      /\ impl' = impl \o FlattenSeq(join_vec)
  BY DEF MergeSecond, Untouched, Tables, JoiningPcs, KeyedPcs, Merged
<1> PICK t : t = ConcatTypes
  OBVIOUS
<1> PICK before : before = impl
  OBVIOUS
<1>2. table = RightRows /\ IsSeq(before) /\ Clear(before, t)
  BY <1>1 DEF RowInv, Opened, FirstPassDone, PassedOnce, RowsOK, ClearInv, ResultPcs
<1>3. RowsOK(RightRows)
  BY <1>1, ClearInFront
<1> PICK slots : slots = join_vec
  OBVIOUS
<1>4. slots = [i \in DOMAIN RightRows |-> RightRow(RightRows[i])]
  BY <1>1, <1>2 DEF SlotsFollowRows, RowResult
<1>5. IsSeq(slots) /\ DOMAIN slots = DOMAIN RightRows
  <2>1. Len(RightRows) \in Nat /\ DOMAIN RightRows = 1..Len(RightRows)
    BY <1>3, IsSeqFacts DEF RowsOK
  <2>2. slots = [i \in 1..Len(RightRows) |-> slots[i]]
    BY <1>4, <2>1
  <2> QED BY <1>4, <2>1, <2>2, IsSeqFunction
<1>6. \A i \in DOMAIN slots : IsSeq(RightRows[i]) /\ slots[i] = RightRow(RightRows[i])
  BY <1>3, <1>4 DEF RowsOK
<1>7. \A i \in DOMAIN slots : RowsOK(slots[i]) /\ Clear(slots[i], t)
  BY <1>1, <1>5, <1>6, RightRowFacts, RightRowClear
<1> PICK rows : rows = FlattenSeq(slots)
  OBVIOUS
<1>8. RowsOK(rows) /\ Clear(rows, t)
  <2>1. \A i \in DOMAIN slots : RowsOK(slots[i])
    BY <1>7
  <2>2. RowsOK(rows)
    BY <1>5, <2>1, MergedRows
  <2>3. Clear(rows, t)
    BY <1>5, <1>7, ClearFlattened
  <2> QED BY <2>2, <2>3
<1>9. Clear(before \o rows, t) /\ impl' = before \o rows
  BY <1>1, <1>2, <1>8, ClearBoth DEF RowsOK
<1> QED BY <1>1, <1>9, ClearAdded

LEMMA NoBodyClear == JoinInv /\ RowInv /\ ShapeInv /\ AccInv /\ ClearInv /\ NoBody => ClearInv'
<1> SUFFICES ASSUME JoinInv, RowInv, ShapeInv, AccInv, ClearInv, NoBody PROVE ClearInv'
  OBVIOUS
<1>1. /\ pc = "no_body" /\ pc \in JoiningPcs /\ ~IsUnion /\ impl = <<>>
      /\ args' = args /\ keys' = keys /\ deq' = deq /\ c_ids' = c_ids
      /\ ts_n_blanks' = ts_n_blanks
  BY DEF NoBody, Untouched, Tables, JoiningPcs, KeyedPcs, RowInv, Keyed
<1> PICK rows : rows = impl'
  OBVIOUS
<1>2. CASE args.kind = "inner"
  <2>1. rows = <<>>
    BY <1>1, <1>2 DEF NoBody
  <2>2. Clear(rows, ConcatTypes)
    BY <2>1 DEF Clear
  <2> QED BY <1>1, <2>2, ClearAdded
<1>3. CASE args.kind # "inner"
  <2>1. RunRows(deq[1]) = LeftRows /\ ~args.blanks
    BY <1>1, <1>3 DEF AccInv, PassesLeftOut, ClearInv, Inner
  <2>2. rows = [i \in DOMAIN LeftRows |-> PadRight(LeftRows[i])]
    BY <1>3, <2>1 DEF NoBody
  <2>3. Clear(rows, ConcatTypes)
    BY <1>1, <2>1, <2>2, RightPaddedClear
  <2> QED BY <1>1, <2>3, ClearAdded
<1> QED BY <1>2, <1>3

LEMMA DisjointClear ==
  JoinInv /\ RowInv /\ ShapeInv /\ KeyInv /\ AccInv /\ ClearInv /\ Disjoint => ClearInv'
<1> SUFFICES ASSUME JoinInv, RowInv, ShapeInv, KeyInv, AccInv, ClearInv, Disjoint PROVE ClearInv'
  OBVIOUS
<1> DEFINE left == [i \in DOMAIN RunRows(deq[1]) |-> PadRight(RunRows(deq[1])[i])]
           right == [i \in DOMAIN RunRows(deq[2]) |-> PadLeft(RunRows(deq[2])[i])]
<1>1. /\ pc = "disjoint" /\ pc \in JoiningPcs /\ ~IsUnion /\ Len(deq) > 1
      /\ args' = args /\ keys' = keys /\ deq' = deq /\ c_ids' = c_ids
      /\ ts_n_blanks' = ts_n_blanks
  BY DEF Disjoint, Untouched, Tables, JoiningPcs, RowInv, Keyed, JoinInv, Phases
<1> PICK l : l = left
  OBVIOUS
<1> PICK r : r = right
  OBVIOUS
<1> PICK t : t = ConcatTypes
  OBVIOUS
<1>2. impl' = CASE args.kind = "inner" -> <<>> [] IsOuter -> l \o r [] OTHER -> l
  BY DEF Disjoint
<1>3. RunRows(deq[1]) = LeftRows /\ RunRows(deq[2]) = RightRows
  BY <1>1, ReadsBody, SecondReader
<1>4. IsSeq(l) /\ (~args.blanks => Clear(l, t))
  <2>1. IsSeq(l)
    BY <1>1, PaddedLeft DEF RowsOK
  <2> QED BY <1>1, <1>3, <2>1, RightPaddedClear
<1>5. IsSeq(r) /\ (IsOuter /\ ~args.blanks => Clear(r, t))
  <2>1. IsSeq(r)
    BY <1>1, PaddedRight DEF RowsOK
  <2> QED BY <1>1, <1>3, <2>1, LeftPaddedClear
<1> HIDE DEF left, right
<1> PICK rows : rows = impl'
  OBVIOUS
<1>6. Clear(rows, t)
  <2>1. CASE args.kind = "inner"
    <3>1. rows = <<>>
      BY <1>2, <2>1 DEF IsOuter
    <3> QED BY <3>1 DEF Clear
  <2>2. CASE args.kind # "inner"
    <3>1. ~args.blanks
      BY <2>2 DEF ClearInv, Inner
    <3>2. CASE IsOuter
      <4>1. rows = l \o r
        BY <1>2, <3>2 DEF IsOuter
      <4>2. Clear(l \o r, t)
        BY <1>4, <1>5, <3>1, <3>2, ClearBoth
      <4> QED BY <4>1, <4>2
    <3>3. CASE ~IsOuter
      BY <1>2, <1>4, <2>2, <3>1, <3>3
    <3> QED BY <3>2, <3>3
  <2> QED BY <2>1, <2>2
<1> QED BY <1>1, <1>6, ClearAdded

LEMMA UnionClear ==
  JoinInv /\ RowInv /\ ShapeInv /\ KeyInv /\ AccInv /\ ClearInv /\ Union => ClearInv'
<1> SUFFICES ASSUME JoinInv, RowInv, ShapeInv, KeyInv, AccInv, ClearInv, Union PROVE ClearInv'
  OBVIOUS
<1>1. /\ pc = "loop" /\ Len(deq) > 1 /\ IsUnion /\ ~EmptyFake /\ ~args.blanks
      /\ args' = args /\ keys' = keys /\ deq' = deq /\ c_ids' = c_ids
      /\ ts_n_blanks' = ts_n_blanks
  BY DEF Union, Untouched, Tables, ClearInv, Inner
<1> PICK l : l = LeftRows
  OBVIOUS
<1> PICK r : r = RightRows
  OBVIOUS
<1> PICK w1 : w1 = SourceWidth(1)
  OBVIOUS
<1> PICK w2 : w2 = SourceWidth(2)
  OBVIOUS
<1> PICK t1 : t1 = ts_n_blanks[1]
  OBVIOUS
<1> PICK more : more = AddedTypes
  OBVIOUS
<1> PICK t : t = ConcatTypes
  OBVIOUS
<1> DEFINE n == IF Len(l) > Len(r) THEN Len(l) ELSE Len(r)
           a(i) == IF i \in DOMAIN l THEN l[i] ELSE Padding(w1)
           b(i) == IF i \in DOMAIN r THEN r[i] ELSE Padding(w2)
<1> PICK rows : rows = impl'
  OBVIOUS
<1>2. DOMAIN rows = 1..n /\ \A i \in 1..n : rows[i] = a(i) \o b(i)
  <2>1. RunRows(deq[1]) = l /\ RunRows(deq[2]) = r
    BY <1>1, ReadsBody, SecondReader
  <2> QED BY <2>1 DEF Union
<1>3. /\ RowsOK(l) /\ Clear(l, t1) /\ \A i \in DOMAIN l : Len(l[i]) = Len(t1.types)
      /\ RowsOK(r) /\ Clear(r, ts_n_blanks[2])
      /\ \A i \in DOMAIN r : Len(r[i]) = Len(ts_n_blanks[2].types)
  BY <1>1, ClearInFront
<1>4. more = ts_n_blanks[2] \/ (more.types = ts_n_blanks[2].types /\ more.blanks = ts_n_blanks[2].blanks)
  BY <1>1 DEF AddedTypes, KeepsKey
<1>5. Clear(r, more) /\ Len(more.types) = Len(ts_n_blanks[2].types)
  BY <1>3, <1>4 DEF Clear, RowClear
<1>6. /\ IsSeq(t1.types) /\ Len(t1.types) \in Nat /\ IsSeq(more.types) /\ Len(more.types) \in Nat
  BY <1>1, TypesInFront, IsSeqFacts
<1>7. w1 = Len(t1.types)
  <2>1. CASE deq[1].kind = "fake"
    <3>1. l = deq[1].rows /\ l # <<>> /\ w1 = Len(l[1])
      BY <1>1, <2>1 DEF LeftRows, EmptyFake, SourceWidth
    <3>2. 1 \in DOMAIN l
      <4>1. Len(l) # 0 /\ Len(l) \in Nat /\ DOMAIN l = 1..Len(l)
        BY <1>3, <3>1, EmptySeq, IsSeqFacts DEF RowsOK, IsSeq
      <4> QED BY <4>1
    <3> QED BY <1>3, <3>1, <3>2
  <2>2. CASE deq[1].kind # "fake"
    <3>1. w1 = Len(headers[1])
      BY <2>2 DEF SourceWidth
    <3> QED BY <1>1, <3>1, InShape DEF HeaderFits
  <2> QED BY <2>1, <2>2
<1>8. w2 = Len(more.types)
  <2>1. w2 = Len(headers[2])
    BY <1>1, InProgress DEF SourceWidth
  <2>2. Len(headers[2]) = Len(ColumnsOf(Nth(Joined + 1)))
    BY <1>1, InShape DEF HeaderFits
  <2>3. Len(ts_n_blanks[2].types) = Width(Nth(Joined + 1))
    BY <1>1, InShape
  <2>4. Len(ColumnsOf(Nth(Joined + 1))) = Width(Nth(Joined + 1))
    <3>1. Nth(Joined + 1) \in File
      BY <1>1, InProgress
    <3> QED BY <3>1, ColumnsOfFacts
  <2> QED BY <1>5, <2>1, <2>2, <2>3, <2>4
<1>9. \A i \in 1..n : /\ IsSeq(a(i)) /\ Len(a(i)) = Len(t1.types) /\ RowClear(a(i), t1)
                      /\ IsSeq(b(i)) /\ Len(b(i)) = Len(more.types) /\ RowClear(b(i), more)
  <2>1. /\ IsSeq(Padding(w1)) /\ Len(Padding(w1)) = w1 /\ RowClear(Padding(w1), t1)
        /\ IsSeq(Padding(w2)) /\ Len(Padding(w2)) = w2 /\ RowClear(Padding(w2), more)
    BY <1>1, <1>6, <1>7, <1>8, PaddingRow, PaddingClear
  <2> QED BY <1>3, <1>5, <1>7, <1>8, <2>1 DEF RowsOK, Clear
<1> HIDE DEF n, a, b
<1>10. \A i \in 1..n : RowClear(a(i) \o b(i), t)
  BY <1>1, <1>9, AddedClear
<1>11. Clear(rows, t)
  BY <1>2, <1>10 DEF Clear
<1> QED BY <1>1, <1>11, ClearAdded

\* The next file's types come after the others.
LEMMA TypesGrow ==
  ASSUME JoinInv, RowInv, Fill
  PROVE  LET n == Next0  f == deq[n].file IN
         /\ Len(headers) \in Nat /\ n = Len(headers) + 1 /\ n \in DOMAIN deq
         /\ DOMAIN ts_n_blanks = 1..Len(headers) /\ KeysOK
         /\ deq[n].kind = "reader" /\ f \in File
         /\ DOMAIN ts_n_blanks' = 1..n /\ ts_n_blanks'[n] = FileTypes(f)
         /\ \A i \in 1..Len(headers) : ts_n_blanks'[i] = ts_n_blanks[i]
<1> PICK n : n = Next0
  OBVIOUS
<1> PICK f : f = deq[n].file
  OBVIOUS
<1> PICK types : types = FileTypes(f)
  OBVIOUS
<1> PICK s : s = ts_n_blanks
  OBVIOUS
<1> PICK u : u = ts_n_blanks'
  OBVIOUS
<1>1. pc = "fill" /\ u = Append(s, types)
  BY DEF Fill
<1>2. /\ Len(headers) \in Nat /\ n = Len(headers) + 1 /\ n \in DOMAIN deq
      /\ IsSeq(s) /\ Len(s) = Len(headers) /\ DOMAIN s = 1..Len(headers) /\ KeysOK
  <2>1. /\ Len(headers) \in Nat /\ Len(deq) \in Nat /\ DOMAIN deq = 1..Len(deq)
        /\ Len(s) = Len(headers) /\ DOMAIN s = 1..Len(headers)
    BY Sizes
  <2>2. Len(headers) < Len(deq)
    BY <1>1 DEF JoinInv, Lockstep, Filled
  <2>3. IsSeq(s)
    BY SeqIsSeq DEF JoinInv, TypeOK, TablesOK
  <2>4. KeysOK
    <3>1. \A g \in File : keys[g] \in Seq(KeyValue)
      BY InputsAssumption DEF RowInv, Chosen
    <3> QED BY <3>1, LenProperties DEF KeysOK
  <2> QED BY <2>1, <2>2, <2>3, <2>4 DEF Next0
<1>3. deq[n].kind = "reader" /\ f \in File
  <2>1. deq[1].kind = "reader"
    BY <1>1 DEF JoinInv, Phases
  <2> QED BY <1>2, <2>1 DEF JoinInv, TypeOK, DeqOK
<1>4. IsSeq(u) /\ Len(u) = Len(s) + 1
  BY <1>1, <1>2, AppendedAny
<1>5. u[Len(s) + 1] = types /\ \A i \in 1..Len(s) : u[i] = s[i]
  BY <1>1, <1>2, AppendedAny
<1>6. DOMAIN u = 1..n
  BY <1>2, <1>4, IsSeqFacts
<1>7. u[n] = types /\ \A i \in 1..Len(headers) : u[i] = s[i]
  BY <1>2, <1>5
<1> QED BY <1>2, <1>3, <1>6, <1>7

LEMMA FillClear == JoinInv /\ RowInv /\ ClearInv /\ Fill => ClearInv'
<1> SUFFICES ASSUME JoinInv, RowInv, ClearInv, Fill PROVE ClearInv'
  OBVIOUS
<1> PICK n : n = Next0
  OBVIOUS
<1> PICK f : f = deq[n].file
  OBVIOUS
<1> PICK types : types = FileTypes(f)
  OBVIOUS
<1>1. /\ pc = "fill" /\ pc' \notin ResultPcs
      /\ args' = args /\ keys' = keys
      /\ deq' = At(n, Body)
  BY DEF Fill, Untouched, ResultPcs
<1>2. /\ Len(headers) \in Nat /\ n = Len(headers) + 1 /\ n \in DOMAIN deq
      /\ DOMAIN ts_n_blanks = 1..Len(headers) /\ KeysOK
      /\ deq[n].kind = "reader" /\ f \in File
  BY TypesGrow
<1>3. /\ DOMAIN ts_n_blanks' = 1..n /\ ts_n_blanks'[n] = types
      /\ \A i \in 1..Len(headers) : ts_n_blanks'[i] = ts_n_blanks[i]
  BY TypesGrow
<1>4. \A i \in DOMAIN deq : /\ deq'[i].kind = deq[i].kind
                            /\ deq[i].kind = "reader" => deq'[i].file = deq[i].file
                            /\ deq[i].kind = "fake" => deq'[i] = deq[i]
  <2>1. Body \in 0..Body
    BY BodyFacts
  <2> QED BY <1>1, <1>2, <2>1, SourcesMove
<1>5. ASSUME NEW i \in DOMAIN ts_n_blanks' PROVE Clear(SourceRows(i), ts_n_blanks[i])'
  <2> PICK rows : rows = SourceRows(i)
    OBVIOUS
  <2> PICK t : t = ts_n_blanks'[i]
    OBVIOUS
  <2>1. CASE i = n
    <3>1. rows = BodyRows(f)
      BY <1>2, <2>1 DEF SourceRows
    <3>2. Clear(rows, t)
      BY <1>2, <1>3, <2>1, <3>1, FileClear
    <3>3. SourceRows(i)' = rows
      BY <1>1, <1>2, <1>4, <2>1, SourceKept
    <3> QED BY <1>1, <3>2, <3>3, ClearKept
  <2>2. CASE i # n
    <3>1. i \in DOMAIN ts_n_blanks /\ t = ts_n_blanks[i]
      BY <1>2, <1>3, <2>2
    <3>2. i \in DOMAIN deq /\ deq[i].kind \in {"reader", "fake"}
      BY <3>1, TypedSource
    <3>3. Clear(rows, t)
      BY <3>1 DEF ClearInv
    <3>4. SourceRows(i)' = rows
      BY <1>1, <1>4, <3>2, SourceKept
    <3> QED BY <1>1, <3>3, <3>4, ClearKept
  <2> QED BY <2>1, <2>2
<1> QED BY <1>1, <1>5 DEF ClearInv, Inner, IsUnion

LEMMA CanCompareClear == JoinInv /\ RowInv /\ ShapeInv /\ ClearInv /\ CanCompare => ClearInv'
<1> SUFFICES ASSUME JoinInv, RowInv, ShapeInv, ClearInv, CanCompare PROVE ClearInv'
  OBVIOUS
<1>1. /\ pc = "loop" /\ Len(deq) > 1 /\ ~IsUnion /\ pc' \notin ResultPcs
      /\ args' = args /\ keys' = keys /\ deq' = deq
      /\ ts_n_blanks' = IF ~SameTypes /\ BothBlank
                          THEN [ts_n_blanks EXCEPT ![1] = SetKeyToText(1), ![2] = SetKeyToText(2)]
                          ELSE ts_n_blanks
  BY DEF CanCompare, Untouched, ResultPcs
<1>2. CASE ~(~SameTypes /\ BothBlank)
  <2>1. c_ids' = c_ids /\ ts_n_blanks' = ts_n_blanks
    BY <1>1, <1>2 DEF CanCompare
  <2> QED BY <1>1, <2>1, ClearStays
<1>3. CASE ~SameTypes /\ BothBlank
  <2>1. 1 \in DOMAIN ts_n_blanks /\ 2 \in DOMAIN ts_n_blanks
    BY <1>1, TypesInFront
  <2> DEFINE s1 == SetKeyToText(1)
             s2 == SetKeyToText(2)
  <2>2. ts_n_blanks' = [ts_n_blanks EXCEPT ![1] = s1, ![2] = s2]
    BY <1>1, <1>3
  <2> HIDE DEF s1, s2
  <2>3. /\ DOMAIN ts_n_blanks' = DOMAIN ts_n_blanks
        /\ ts_n_blanks'[1] = s1 /\ ts_n_blanks'[2] = s2
        /\ \A i \in DOMAIN ts_n_blanks : i \notin {1, 2} => ts_n_blanks'[i] = ts_n_blanks[i]
    BY <2>1, <2>2
  <2>4. ASSUME NEW rows, RowsOK(rows), NEW i \in {1, 2}, Clear(rows, ts_n_blanks[i]),
               \A j \in DOMAIN rows : Len(rows[j]) = Len(ts_n_blanks[i].types)
        PROVE  Clear(rows, SetKeyToText(i))
    <3> PICK t : t = ts_n_blanks[i]
      OBVIOUS
    <3> PICK u : u = SetKeyToText(i)
      OBVIOUS
    <3>1. u.types = [t.types EXCEPT ![c_ids[i]] = "text"] /\ u.blanks = t.blanks
      BY DEF SetKeyToText
    <3>2. IsSeq(t.types)
      BY <1>1, TypesInFront
    <3>3. \A j \in DOMAIN rows : DOMAIN rows[j] = DOMAIN t.types
      BY <2>4, <3>2, IsSeqFacts DEF RowsOK
    <3>4. \A c \in DOMAIN t.types : u.types[c] = t.types[c] \/ u.types[c] = "text"
      <4> PICK p : p = t.types
        OBVIOUS
      <4> PICK q : q = u.types
        OBVIOUS
      <4>1. q = [p EXCEPT ![c_ids[i]] = "text"]
        BY <3>1
      <4> QED BY <4>1
    <3>5. \A j \in DOMAIN rows : \A c \in DOMAIN rows[j] :
            Printable(u.types[c], u.blanks[c], Value(rows[j][c]))
      BY <2>4, <3>1, <3>3, <3>4 DEF Clear, RowClear, Printable
    <3> QED BY <3>5 DEF Clear, RowClear
  <2>5. Clear(LeftRows, s1) /\ Clear(RightRows, s2)
    BY <1>1, <2>4, ClearInFront DEF s1, s2
  <2>6. SourceRows(1) = LeftRows /\ SourceRows(2) = RightRows
    BY <1>1, InProgress DEF SourceRows, LeftRows, RightRows
  <2>7. ASSUME NEW i \in DOMAIN ts_n_blanks PROVE Clear(SourceRows(i), ts_n_blanks[i])'
    <3> PICK rows : rows = SourceRows(i)
      OBVIOUS
    <3> PICK t : t = ts_n_blanks'[i]
      OBVIOUS
    <3>1. SourceRows(i)' = rows
      BY <1>1, TypedSource, SourceKept
    <3>2. Clear(rows, t)
      <4>1. i \notin {1, 2} => Clear(rows, ts_n_blanks[i])
        BY DEF ClearInv
      <4> QED BY <2>3, <2>5, <2>6, <4>1
    <3> QED BY <1>1, <3>1, <3>2, ClearKept
  <2> QED BY <1>1, <2>3, <2>7 DEF ClearInv, Inner, IsUnion
<1> QED BY <1>2, <1>3

\* The rows of the result have its width.
LEMMA ResultWidth ==
  ASSUME JoinInv, RowInv, ShapeInv, pc = "cleanup"
  PROVE  /\ Len(ConcatTypes.types) \in Nat
         /\ \A i \in DOMAIN impl : DOMAIN impl[i] = 1..Len(ConcatTypes.types)
<1> PICK t : t = ConcatTypes
  OBVIOUS
<1> PICK cols : cols = JoinedColumns(Joined + 1)
  OBVIOUS
<1>1. Len(t.types) = Len(cols) /\ Len(t.types) \in Nat
  BY ResultTables
<1>2. \A i \in DOMAIN impl : IsSeq(impl[i]) /\ Len(impl[i]) = Len(cols)
  BY DEF RowInv, JoinDone, Kept, RowsOK, ShapeInv, ResultFits, Fits, RowFits
<1> QED BY <1>1, <1>2, IsSeqFacts

\* There is one table less.
LEMMA TypesShrink ==
  ASSUME JoinInv, Cleanup, pc' = "loop"
  PROVE  DOMAIN ts_n_blanks' = 1..(Len(deq) - 1) /\ DOMAIN ts_n_blanks = 1..Len(deq)
<1> PICK types : /\ pc = "cleanup"
                 /\ ts_n_blanks' = DropSecond([ts_n_blanks EXCEPT ![1] = types])
  BY DEF Cleanup
<1> PICK s : s = ts_n_blanks
  OBVIOUS
<1> PICK r : r = [s EXCEPT ![1] = types]
  OBVIOUS
<1>1. IsSeq(s) /\ Len(s) = Len(deq) /\ Len(deq) > 1 /\ Len(deq) \in Nat /\ DOMAIN s = 1..Len(deq)
  <2>1. Len(deq) > 1 /\ Len(headers) = Len(deq)
    BY DEF JoinInv, Phases, Lockstep, Filled, JoiningPcs
  <2>2. IsSeq(s)
    BY SeqIsSeq DEF JoinInv, TypeOK, TablesOK
  <2> QED BY <2>1, <2>2, Sizes
<1>2. IsSeq(r) /\ Len(r) = Len(s)
  <2>1. 1 \in DOMAIN s
    BY <1>1
  <2> QED BY <1>1, <2>1, IsSeqExcept
<1>3. IsSeq(DropSecond(r)) /\ Len(DropSecond(r)) = Len(r) - 1
  BY <1>1, <1>2, DropSecondFacts
<1>4. DOMAIN DropSecond(r) = 1..(Len(deq) - 1)
  BY <1>1, <1>2, <1>3, IsSeqFacts
<1> QED BY <1>1, <1>4

LEMMA CleanupClear == JoinInv /\ RowInv /\ ShapeInv /\ ClearInv /\ Cleanup => ClearInv'
<1> SUFFICES ASSUME JoinInv, RowInv, ShapeInv, ClearInv, Cleanup PROVE ClearInv'
  OBVIOUS
<1>1. /\ pc = "cleanup" /\ args' = args /\ keys' = keys /\ impl' = impl
      /\ pc' \in {"failed", "loop"} /\ pc' \notin ResultPcs
      /\ pc' = "failed" => deq' = deq /\ c_ids' = c_ids /\ ts_n_blanks' = ts_n_blanks
  BY DEF Cleanup, Untouched, ResultPcs
<1>2. CASE pc' = "failed"
  BY <1>1, <1>2, ClearStays
<1>3. CASE pc' = "loop"
  <2> PICK rows : rows = impl
    OBVIOUS
  <2> PICK t : t = (IF MustRecalculate THEN Typify(impl, Len(ConcatTypes.types)) ELSE ConcatTypes)
    OBVIOUS
  <2>1. /\ Len(deq) > 1 /\ Len(deq) \in Nat
        /\ deq'[1] = Fake(rows) /\ \A i \in 2..(Len(deq) - 1) : deq'[i] = deq[i + 1]
        /\ ts_n_blanks'[1] = t
        /\ \A i \in 2..(Len(deq) - 1) : ts_n_blanks'[i] = ts_n_blanks[i + 1]
    BY <1>3, TwoTablesBecomeOne
  <2>2. DOMAIN ts_n_blanks' = 1..(Len(deq) - 1) /\ DOMAIN ts_n_blanks = 1..Len(deq)
    BY <1>1, <1>3, <2>1, TypesShrink
  <2>3. Clear(rows, t)
    <3>1. CASE MustRecalculate
      <4>1. t = Typify(rows, Len(ConcatTypes.types))
        BY <3>1
      <4> QED BY <1>1, <4>1, ResultWidth, TypifyClear
    <3>2. CASE ~MustRecalculate
      BY <1>1, <3>2 DEF ClearInv, ResultPcs
    <3> QED BY <3>1, <3>2
  <2>4. ASSUME NEW i \in DOMAIN ts_n_blanks' PROVE Clear(SourceRows(i), ts_n_blanks[i])'
    <3>1. CASE i = 1
      <4>1. SourceRows(1)' = rows
        BY <2>1 DEF SourceRows, Fake
      <4> QED BY <1>1, <2>1, <2>3, <3>1, <4>1, ClearKept
    <3>2. CASE i # 1
      <4> PICK j : j = i + 1
        OBVIOUS
      <4>1. i \in 2..(Len(deq) - 1) /\ j \in DOMAIN ts_n_blanks
        BY <2>1, <2>2, <3>2
      <4>2. deq'[i] = deq[j] /\ ts_n_blanks'[i] = ts_n_blanks[j]
        BY <2>1, <4>1
      <4> PICK r : r = SourceRows(j)
        OBVIOUS
      <4> PICK u : u = ts_n_blanks[j]
        OBVIOUS
      <4>3. Clear(r, u)
        BY <4>1 DEF ClearInv
      <4>4. SourceRows(i)' = r
        BY <1>1, <4>1, <4>2, TypedSource, SourceKept
      <4> QED BY <1>1, <4>2, <4>3, <4>4, ClearKept
    <3> QED BY <3>1, <3>2
  <2> QED BY <1>1, <2>4 DEF ClearInv, Inner, IsUnion
<1> QED BY <1>1, <1>2, <1>3

LEMMA ClearStep ==
  /\ JoinInv /\ RowInv /\ ShapeInv /\ KeyInv /\ SlotsFollowRows /\ AccInv /\ ClearInv /\ [Next]_vars
  => ClearInv'
<1> SUFFICES ASSUME JoinInv, RowInv, ShapeInv, KeyInv, SlotsFollowRows, AccInv, ClearInv, [Next]_vars
             PROVE  ClearInv'
  OBVIOUS
<1>1. CASE Fill
  BY <1>1, FillClear
<1>2. CASE CanCompare
  BY <1>2, CanCompareClear
<1>3. CASE HashRight \/ OpenLeft \/ HashLeft
  BY <1>3, OpenClear
<1>4. CASE MergeFirst
  BY <1>4, MergeFirstClear
<1>5. CASE MergeSecond
  BY <1>5, MergeSecondClear
<1>6. CASE NoBody
  BY <1>6, NoBodyClear
<1>7. CASE NoBodySecond
  BY <1>7 DEF NoBodySecond, AccInv, PassesLeftOut
<1>8. CASE Disjoint
  BY <1>8, DisjointClear
<1>9. CASE Union
  BY <1>9, UnionClear
<1>10. CASE Cleanup
  BY <1>10, CleanupClear
<1>11. CASE \/ \E i \in todo : WorkFirst(i) \/ WorkSecond(i)
            \/ FillRejected \/ UnionOfEmpty \/ PrintResults \/ Finished \/ UNCHANGED vars
  BY <1>11, QuietClear
<1> QED BY <1>1, <1>2, <1>3, <1>4, <1>5, <1>6, <1>7, <1>8, <1>9, <1>10, <1>11 DEF Next

\* No step changes which files there are and how they are joined.
LEMMA CommandLineStays == [Next]_vars => args' = args /\ keys' = keys
<1> SUFFICES ASSUME [Next]_vars PROVE args' = args /\ keys' = keys
  OBVIOUS
<1>1. CASE Fill \/ FillRejected \/ CanCompare \/ HashRight \/ OpenLeft \/ HashLeft
  BY <1>1 DEF Fill, FillRejected, CanCompare, HashRight, OpenLeft, HashLeft, Untouched
<1>2. CASE \E i \in todo : WorkFirst(i) \/ WorkSecond(i)
  BY <1>2 DEF WorkFirst, WorkSecond, Work, Untouched
<1>3. CASE MergeFirst \/ MergeSecond \/ NoBody \/ NoBodySecond \/ Disjoint \/ Union
  BY <1>3 DEF MergeFirst, MergeSecond, NoBody, NoBodySecond, Disjoint, Union, Untouched
<1>4. CASE UnionOfEmpty \/ Cleanup \/ PrintResults \/ Finished \/ UNCHANGED vars
  BY <1>4 DEF UnionOfEmpty, Cleanup, PrintResults, Finished, vars, Untouched
<1> QED BY <1>1, <1>2, <1>3, <1>4 DEF Next

LEMMA CaseStays == [Next]_vars => NoNullTyped' = NoNullTyped /\ OnlyText' = OnlyText
<1> SUFFICES ASSUME [Next]_vars PROVE NoNullTyped' = NoNullTyped /\ OnlyText' = OnlyText
  OBVIOUS
<1>1. args' = args /\ keys' = keys
  BY CommandLineStays
<1>2. Sources' = Sources
  BY <1>1 DEF Sources, Ordered
<1> QED BY <1>1, <1>2 DEF NoNullTyped, OnlyText, KeptFilesHaveRows, Nth, IsUnion

-------------------------------------------------------------------------------
(* Columns of text.                                                          *)

LEMMA TypifyText ==
  ASSUME args.no_inference, NEW rows, NEW n
  PROVE  AllText(Typify(rows, n))
BY DEF AllText, Typify, TypeOf

LEMMA ConcatText ==
  ASSUME JoinInv, RowInv, pc \in JoiningPcs, AllText(ts_n_blanks[1]), AllText(ts_n_blanks[2])
  PROVE  AllText(ConcatTypes)
<1> PICK s : s = ts_n_blanks[1].types
  OBVIOUS
<1> PICK p : p = ts_n_blanks[2].types
  OBVIOUS
<1> PICK more : more = AddedTypes.types
  OBVIOUS
<1> PICK t : t = ConcatTypes.types
  OBVIOUS
<1>1. IsSeq(s) /\ IsSeq(more) /\ IsSeq(p) /\ t = s \o more
  BY TypesInFront
<1>2. \A c \in DOMAIN more : more[c] = "text"
  <2>1. CASE KeepsKey
    <3>1. more = p
      BY <2>1 DEF AddedTypes
    <3> QED BY <3>1 DEF AllText
  <2>2. CASE ~KeepsKey
    <3> PICK k : k = c_ids[2]
      OBVIOUS
    <3> DEFINE at(c) == IF c < k THEN c ELSE c + 1
    <3>1. more = RemoveAt(p, k)
      BY <2>2 DEF AddedTypes
    <3>2. k \in DOMAIN p
      <4>1. k \in 1..Len(p)
        BY <2>2, InProgress DEF KeepsKey
      <4> QED BY <1>1, <4>1, IsSeqFacts
    <3>3. /\ Len(more) = Len(p) - 1
          /\ \A c \in 1..(Len(p) - 1) : at(c) \in DOMAIN p /\ more[c] = p[at(c)]
      <4>1. IsSeq(p)
        BY <1>1
      <4>2. /\ Len(RemoveAt(p, k)) = Len(p) - 1
            /\ \A c \in 1..(Len(p) - 1) : at(c) \in DOMAIN p /\ RemoveAt(p, k)[c] = p[at(c)]
        BY ONLY <3>2, <4>1, RemoveAtShift
      <4> HIDE DEF at
      <4> QED BY ONLY <3>1, <4>2
    <3>4. DOMAIN more = 1..(Len(p) - 1)
      BY <1>1, <3>3, IsSeqFacts
    <3> HIDE DEF at
    <3> QED BY <3>3, <3>4 DEF AllText
  <2> QED BY <2>1, <2>2
<1>3. Joins(t, s, more)
  BY <1>1, ConcatJoins
<1>4. \A c \in DOMAIN t : t[c] = "text"
  <2> TAKE c \in DOMAIN t
  <2>1. \/ c \in DOMAIN s /\ t[c] = s[c]
        \/ c - Len(s) \in DOMAIN more /\ t[c] = more[c - Len(s)]
    BY <1>3 DEF Joins
  <2> QED BY <1>2, <2>1 DEF AllText
<1> QED BY <1>4 DEF AllText

LEMMA CleanupText ==
  JoinInv /\ RowInv /\ OnlyText /\ TextInv /\ Cleanup => TextInv'
<1> SUFFICES ASSUME JoinInv, RowInv, OnlyText, TextInv, Cleanup PROVE TextInv'
  OBVIOUS
<1>1. pc = "cleanup" /\ ((pc' = "failed" /\ ts_n_blanks' = ts_n_blanks) \/ pc' = "loop")
  BY DEF Cleanup
<1>2. CASE pc' = "failed" /\ ts_n_blanks' = ts_n_blanks
  BY <1>2 DEF TextInv, AllText
<1>3. CASE pc' = "loop"
  <2> PICK t : t = (IF MustRecalculate THEN Typify(impl, Len(ConcatTypes.types)) ELSE ConcatTypes)
    OBVIOUS
  <2>1. /\ Len(deq) > 1 /\ Len(deq) \in Nat /\ ts_n_blanks'[1] = t
        /\ \A i \in 2..(Len(deq) - 1) : ts_n_blanks'[i] = ts_n_blanks[i + 1]
    BY <1>3, TwoTablesBecomeOne
  <2>2. DOMAIN ts_n_blanks' = 1..(Len(deq) - 1) /\ DOMAIN ts_n_blanks = 1..Len(deq)
    BY <1>3, TypesShrink
  <2>3. AllText(t)
    <3>1. CASE MustRecalculate
      BY <3>1, TypifyText DEF OnlyText
    <3>2. CASE ~MustRecalculate
      <4>1. AllText(ts_n_blanks[1]) /\ AllText(ts_n_blanks[2])
        BY <2>1, <2>2 DEF TextInv
      <4> QED BY <1>1, <3>2, <4>1, ConcatText DEF JoiningPcs
    <3> QED BY <3>1, <3>2
  <2>4. \A i \in DOMAIN ts_n_blanks' : AllText(ts_n_blanks'[i])
    <3> TAKE i \in DOMAIN ts_n_blanks'
    <3>1. CASE i = 1
      BY <2>1, <2>3, <3>1
    <3>2. CASE i # 1
      <4>1. i \in 2..(Len(deq) - 1) /\ i + 1 \in DOMAIN ts_n_blanks
        BY <2>1, <2>2, <3>2
      <4> QED BY <2>1, <4>1 DEF TextInv
    <3> QED BY <3>1, <3>2
  <2> QED BY <2>4 DEF TextInv, AllText
<1> QED BY <1>1, <1>2, <1>3

LEMMA FillText == JoinInv /\ RowInv /\ OnlyText /\ TextInv /\ Fill => TextInv'
<1> SUFFICES ASSUME JoinInv, RowInv, OnlyText, TextInv, Fill PROVE TextInv'
  OBVIOUS
<1> PICK n : n = Next0
  OBVIOUS
<1> PICK f : f = deq[n].file
  OBVIOUS
<1>1. /\ Len(headers) \in Nat /\ n = Len(headers) + 1 /\ DOMAIN ts_n_blanks = 1..Len(headers)
      /\ f \in File
      /\ DOMAIN ts_n_blanks' = 1..n /\ ts_n_blanks'[n] = FileTypes(f)
      /\ \A i \in 1..Len(headers) : ts_n_blanks'[i] = ts_n_blanks[i]
  BY TypesGrow
<1>2. AllText(FileTypes(f))
  <2>1. FileTypes(f) = Typify(BodyRows(f), Width(f))
    BY <1>1 DEF FileTypes, OnlyText
  <2> QED BY <2>1, TypifyText DEF OnlyText
<1>3. \A i \in DOMAIN ts_n_blanks' : AllText(ts_n_blanks'[i])
  <2> TAKE i \in DOMAIN ts_n_blanks'
  <2>1. i = n \/ i \in 1..Len(headers)
    BY <1>1
  <2> QED BY <1>1, <1>2, <2>1 DEF TextInv
<1> QED BY <1>3 DEF TextInv, AllText

LEMMA CanCompareText == JoinInv /\ RowInv /\ TextInv /\ CanCompare => TextInv'
<1> SUFFICES ASSUME JoinInv, RowInv, TextInv, CanCompare PROVE TextInv'
  OBVIOUS
<1>1. /\ pc = "loop" /\ Len(deq) > 1
      /\ \/ ts_n_blanks' = ts_n_blanks
         \/ ts_n_blanks' = [ts_n_blanks EXCEPT ![1] = SetKeyToText(1), ![2] = SetKeyToText(2)]
  BY DEF CanCompare
<1>2. CASE ts_n_blanks' = ts_n_blanks
  BY <1>2 DEF TextInv, AllText
<1>3. CASE ts_n_blanks' = [ts_n_blanks EXCEPT ![1] = SetKeyToText(1), ![2] = SetKeyToText(2)]
  <2> DEFINE s1 == SetKeyToText(1)
             s2 == SetKeyToText(2)
  <2>1. ts_n_blanks' = [ts_n_blanks EXCEPT ![1] = s1, ![2] = s2]
    BY <1>3
  <2>2. 1 \in DOMAIN ts_n_blanks /\ 2 \in DOMAIN ts_n_blanks
    BY <1>1, TypesInFront
  <2>3. ASSUME NEW i \in {1, 2} PROVE AllText(SetKeyToText(i))
    <3> PICK p : p = ts_n_blanks[i].types
      OBVIOUS
    <3> PICK q : q = SetKeyToText(i).types
      OBVIOUS
    <3>1. q = [p EXCEPT ![c_ids[i]] = "text"]
      BY DEF SetKeyToText
    <3>2. \A c \in DOMAIN p : p[c] = "text"
      BY <2>2, <2>3 DEF TextInv, AllText
    <3>3. \A c \in DOMAIN q : q[c] = "text"
      BY <3>1, <3>2
    <3> QED BY <3>3 DEF AllText
  <2>4. AllText(s1) /\ AllText(s2)
    BY <2>3
  <2> HIDE DEF s1, s2
  <2>5. \A i \in DOMAIN ts_n_blanks' : AllText(ts_n_blanks'[i])
    BY <2>1, <2>2, <2>4 DEF TextInv
  <2> QED BY <2>5 DEF TextInv, AllText
<1> QED BY <1>1, <1>2, <1>3

LEMMA TextStep == JoinInv /\ RowInv /\ OnlyText /\ TextInv /\ [Next]_vars => TextInv'
<1> SUFFICES ASSUME JoinInv, RowInv, OnlyText, TextInv, [Next]_vars PROVE TextInv'
  OBVIOUS
<1>1. CASE Fill
  BY <1>1, FillText
<1>2. CASE CanCompare
  BY <1>2, CanCompareText
<1>3. CASE Cleanup
  BY <1>3, CleanupText
<1>4. CASE ts_n_blanks' = ts_n_blanks
  BY <1>4 DEF TextInv, AllText
<1>5. CASE FillRejected \/ HashRight \/ OpenLeft \/ HashLeft
  <2>1. ts_n_blanks' = ts_n_blanks
    BY <1>5 DEF FillRejected, HashRight, OpenLeft, HashLeft, Tables
  <2> QED BY <1>4, <2>1
<1>6. CASE \E i \in todo : WorkFirst(i) \/ WorkSecond(i)
  <2>1. ts_n_blanks' = ts_n_blanks
    BY <1>6 DEF WorkFirst, WorkSecond, Work, Tables
  <2> QED BY <1>4, <2>1
<1>7. CASE MergeFirst \/ MergeSecond \/ NoBody \/ NoBodySecond \/ Disjoint \/ Union
  <2>1. ts_n_blanks' = ts_n_blanks
    BY <1>7 DEF MergeFirst, MergeSecond, NoBody, NoBodySecond, Disjoint, Union, Tables
  <2> QED BY <1>4, <2>1
<1>8. CASE UnionOfEmpty \/ PrintResults \/ Finished \/ UNCHANGED vars
  <2>1. ts_n_blanks' = ts_n_blanks
    BY <1>8 DEF UnionOfEmpty, PrintResults, Finished, vars, Tables
  <2> QED BY <1>4, <2>1
<1> QED BY <1>1, <1>2, <1>3, <1>5, <1>6, <1>7, <1>8 DEF Next

-------------------------------------------------------------------------------
(* The printed table.                                                        *)

\* The last table is printed from its first data row.
LEMMA LastTable ==
  ASSUME JoinInv, RowInv, KeyInv, pc = "loop"
  PROVE  /\ 1 \in DOMAIN ts_n_blanks
         /\ RunRows(deq[1]) = SourceRows(1) /\ RowsOK(SourceRows(1))
<1>1. Len(headers) = Len(deq)
  BY DEF JoinInv, Lockstep, Filled
<1>2. 1 \in DOMAIN deq /\ 1 \in DOMAIN ts_n_blanks /\ headers # <<>>
  <2>1. /\ Len(deq) \in Nat \ {0} /\ DOMAIN deq = 1..Len(deq)
        /\ DOMAIN headers = 1..Len(headers) /\ DOMAIN ts_n_blanks = 1..Len(headers)
    BY Sizes
  <2>2. 1 \in 1..Len(deq)
    BY <2>1
  <2> QED BY <1>1, <2>1, <2>2
<1>3. deq[1].kind \in {"reader", "fake"} /\ (deq[1].kind = "reader" => deq[1].file \in File)
  BY <1>2 DEF JoinInv, TypeOK, DeqOK
<1>4. CASE deq[1].kind = "fake"
  <2>1. RowsOK(deq[1].rows)
    BY <1>4 DEF RowInv, SourcesOK, Kept
  <2> QED BY <1>2, <1>4, <2>1 DEF RunRows, SourceRows
<1>5. CASE deq[1].kind = "reader"
  <2>1. deq[1].pos = Body
    BY <1>2, <1>5 DEF KeyInv, OnBody
  <2>2. KeysOK
    <3>1. \A f \in File : keys[f] \in Seq(KeyValue)
      BY InputsAssumption DEF RowInv, Chosen
    <3> QED BY <3>1, LenProperties DEF KeysOK
  <2>3. RunRows(deq[1]) = BodyRows(deq[1].file)
    BY <1>5, <2>1 DEF RunRows, BodyRows, Reader
  <2>4. RowsOK(BodyRows(deq[1].file))
    BY <1>3, <1>5, <2>2, BodyRowsFacts
  <2> QED BY <1>2, <1>5, <2>3, <2>4 DEF SourceRows
<1> QED BY <1>3, <1>4, <1>5

PrintInv == (NoNullTyped => AccInv /\ ClearInv) /\ (OnlyText => TextInv)

LEMMA PrintedClear ==
  ASSUME JoinInv, RowInv, ShapeInv, KeyInv, PrintInv, PrintsByType
  PROVE  PrintAssertion
<1> SUFFICES ASSUME pc = "loop", Len(deq) = 1,
                    NEW i \in DOMAIN RunRows(deq[1]), NEW c \in DOMAIN RunRows(deq[1])[i]
             PROVE  \/ AsItIs(RunRows(deq[1])[i][c], ts_n_blanks[1].types[c])
                    \/ /\ ~IsNull(RunRows(deq[1])[i][c])
                       /\ ~(args.blanks /\ ts_n_blanks[1].blanks[c]) /\ ~args.no_inference
  BY DEF PrintAssertion
<1> PICK rows : rows = RunRows(deq[1])
  OBVIOUS
<1> PICK t : t = ts_n_blanks[1]
  OBVIOUS
<1>1. 1 \in DOMAIN ts_n_blanks /\ rows = SourceRows(1) /\ RowsOK(rows)
  BY LastTable
<1>2. i \in DOMAIN rows /\ c \in DOMAIN rows[i]
  OBVIOUS
<1>3. CASE ~args.blanks /\ ~args.no_inference
  BY <1>3 DEF AsItIs
<1>4. CASE NoNullTyped
  <2>1. Clear(rows, t)
    BY <1>1, <1>4 DEF PrintInv, ClearInv
  <2>2. Printable(t.types[c], t.blanks[c], Value(rows[i][c]))
    BY <1>2, <2>1 DEF Clear, RowClear
  <2> QED BY <2>2 DEF Printable, AsItIs, IsNull
<1>5. CASE OnlyText
  <2>1. AllText(t)
    BY <1>1, <1>5 DEF PrintInv, TextInv
  <2>2. c \in DOMAIN t.types
    <3>1. Aligned
      BY ShapeAligned
    <3> PICK cols : cols = JoinedColumns(Joined)
      OBVIOUS
    <3>2. Len(rows[i]) = Len(cols) /\ Len(t.types) = Len(cols)
      BY <3>1 DEF Aligned, AtLoop, RowFits
    <3>3. IsSeq(t.types) /\ IsSeq(rows[i])
      <4>1. t \in TableTypes
        BY <1>1, ElementOfSeq, Sizes DEF JoinInv, TypeOK, TablesOK
      <4>2. t.types \in Seq(ColumnType)
        BY <4>1 DEF TableTypes
      <4> QED BY <1>1, <1>2, <4>2, SeqIsSeq DEF RowsOK
    <3> QED BY <1>2, <3>2, <3>3, IsSeqFacts
  <2>3. t.types[c] = "text"
    BY <2>1, <2>2 DEF AllText
  <2> QED BY <2>3 DEF AsItIs
<1> QED BY <1>3, <1>4, <1>5 DEF PrintsByType

LEMMA PrintInit == Init => PrintInv
<1> SUFFICES ASSUME Init PROVE PrintInv
  OBVIOUS
<1>1. pc = "fill" /\ DOMAIN ts_n_blanks = {}
  BY DEF Init
<1>2. NoNullTyped => AccInv
  BY AccInit DEF NoNullTyped
<1>3. NoNullTyped => ClearInv
  BY <1>1 DEF NoNullTyped, ClearInv, ResultPcs, Inner
<1>4. TextInv
  BY <1>1 DEF TextInv
<1> QED BY <1>2, <1>3, <1>4 DEF PrintInv

LEMMA PrintStep ==
  /\ JoinInv /\ RowInv /\ ShapeInv /\ KeyInv /\ SlotsFollowRows /\ PrintInv /\ [Next]_vars
  => PrintInv'
<1> SUFFICES ASSUME JoinInv, RowInv, ShapeInv, KeyInv, SlotsFollowRows, PrintInv, [Next]_vars
             PROVE  PrintInv'
  OBVIOUS
<1>1. NoNullTyped' = NoNullTyped /\ OnlyText' = OnlyText
  BY CaseStays
<1>2. NoNullTyped => AccInv' /\ ClearInv'
  BY AccStep, ClearStep DEF PrintInv
<1>3. OnlyText => TextInv'
  BY TextStep DEF PrintInv
<1> QED BY <1>1, <1>2, <1>3 DEF PrintInv

\* However many files are joined and whatever the order of the workers, the assertion of
\* print_func (csvJoin.cpp) holds of every cell of the printed table: one that is printed
\* by the type of its column is no null, its column has no blanks under --blanks and types
\* are inferred.  The exceptions are the command lines and files that PrintsByType leaves
\* out, with an option that changes how cells are read and either a null that pads a row
\* or a file without rows.
THEOREM PrintedByType == Spec => [](PrintsByType => PrintAssertion)
<1>1. JoinInv /\ RowInv /\ ShapeInv /\ KeyInv /\ PrintInv => (PrintsByType => PrintAssertion)
  BY PrintedClear
<1> QED BY <1>1, PrintInit, PrintStep, JoinInvHolds, RowInvHolds, ShapeInvHolds, KeyInvHolds,
           SlotsHold, PTL DEF Spec
===============================================================================
