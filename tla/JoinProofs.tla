------------------------------ MODULE JoinProofs ------------------------------
(***************************************************************************)
(* Proofs about csvJoin's join(), for every set of files, every content    *)
(* and every command line: the work on its deque; and the columns of its   *)
(* tables, whose header, types and rows go together however many tables    *)
(* have been joined, and of whose key columns what is said is true, so     *)
(* that no key is read as a number that is none.                           *)
(***************************************************************************)
EXTENDS JoinProperties, AnySequence, FiniteSetTheorems

-------------------------------------------------------------------------------
(* Operations on the deques.                                                 *)

\* What cycle_cleanup does to a deque: the first two elements become one.
LEMMA TwoBecomeOne ==
  ASSUME NEW s, IsSeq(s), Len(s) > 1, NEW x
  PROVE  LET t == <<x>> \o SubSeq(s, 3, Len(s)) IN
         /\ IsSeq(t) /\ Len(t) = Len(s) - 1
         /\ t[1] = x
         /\ \A i \in 2..Len(t) : i + 1 \in DOMAIN s /\ t[i] = s[i + 1]
<1> DEFINE S == {s[j] : j \in DOMAIN s} \cup {x}
           r == SubSeq(s, 3, Len(s))
           t == <<x>> \o r
<1>1. Len(s) \in Nat /\ DOMAIN s = 1..Len(s)
  BY IsSeqFacts
<1>2. \A i \in 3..Len(s) : s[i] \in S
  BY <1>1
<1>3. <<x>> \in Seq(S) /\ Len(<<x>>) = 1
  <2>1. x \in S
    OBVIOUS
  <2> HIDE DEF S
  <2> QED BY <2>1
<1> HIDE DEF S
<1>4. /\ r \in Seq(S) /\ Len(r) = Len(s) - 2
      /\ \A i \in 1..(Len(s) - 2) : r[i] = s[i + 2]
  BY <1>1, <1>2, SubSeqProperties
<1> HIDE DEF r
<1>5. /\ t \in Seq(S) /\ Len(t) = Len(s) - 1
      /\ \A i \in 1..(Len(s) - 1) : t[i] = IF i <= 1 THEN <<x>>[i] ELSE r[i - 1]
  <2>1. /\ t \in Seq(S) /\ Len(t) = Len(<<x>>) + Len(r)
        /\ \A i \in 1..(Len(<<x>>) + Len(r)) :
             t[i] = IF i <= Len(<<x>>) THEN <<x>>[i] ELSE r[i - Len(<<x>>)]
    BY <1>3, <1>4, ConcatProperties, Zenon
  <2>2. Len(<<x>>) + Len(r) = Len(s) - 1
    BY <1>1, <1>3, <1>4
  <2> QED BY <1>3, <2>1, <2>2
<1> HIDE DEF t
<1>6. IsSeq(t)
  BY <1>5, SeqIsSeq
<1>7. t[1] = x
  BY <1>1, <1>5
<1>8. \A i \in 2..Len(t) : i + 1 \in DOMAIN s /\ t[i] = s[i + 1]
  BY <1>1, <1>4, <1>5
<1> QED BY <1>5, <1>6, <1>7, <1>8 DEF t, r

LEMMA DropSecondFacts ==
  ASSUME NEW s, IsSeq(s), Len(s) > 1
  PROVE  /\ IsSeq(DropSecond(s)) /\ Len(DropSecond(s)) = Len(s) - 1
         /\ DropSecond(s)[1] = s[1]
         /\ \A i \in 2..Len(DropSecond(s)) :
              i + 1 \in DOMAIN s /\ DropSecond(s)[i] = s[i + 1]
BY TwoBecomeOne DEF DropSecond

LEMMA RemoveAtFacts ==
  ASSUME NEW S, NEW s \in Seq(S), NEW i \in DOMAIN s
  PROVE  RemoveAt(s, i) \in Seq(S) /\ Len(RemoveAt(s, i)) = Len(s) - 1
<1>1. Len(s) \in Nat /\ i \in 1..Len(s) /\ \A j \in 1..Len(s) : s[j] \in S
  BY LenProperties, ElementOfSeq
<1>2. SubSeq(s, 1, i - 1) \in Seq(S) /\ Len(SubSeq(s, 1, i - 1)) = i - 1
  BY <1>1, SubSeqProperties
<1>3. SubSeq(s, i + 1, Len(s)) \in Seq(S) /\ Len(SubSeq(s, i + 1, Len(s))) = Len(s) - i
  BY <1>1, SubSeqProperties
<1>4. /\ RemoveAt(s, i) \in Seq(S)
      /\ Len(RemoveAt(s, i)) = Len(SubSeq(s, 1, i - 1)) + Len(SubSeq(s, i + 1, Len(s)))
  BY <1>2, <1>3, ConcatProperties, Zenon DEF RemoveAt
<1>5. (i - 1) + (Len(s) - i) = Len(s) - 1
  BY <1>1
<1>6. Len(RemoveAt(s, i)) = (i - 1) + (Len(s) - i)
  BY <1>2, <1>3, <1>4, Zenon
<1> QED BY <1>4, <1>5, <1>6, Zenon

-------------------------------------------------------------------------------
(* The types and the lengths of the deques.                                  *)

LEMMA SourcesFacts ==
  /\ IsSeq(Sources) /\ Len(Sources) = N /\ N \in Nat \ {0}
  /\ \A i \in DOMAIN Sources : Sources[i].kind = "reader" /\ Sources[i].file \in File
<1>1. N \in Nat \ {0} /\ File = 1..N
  BY TablesAssumption, LenProperties, EmptySeq DEF File, N
<1> DEFINE R == {Reader(f, 0) : f \in File}
           t == [f \in File |-> Reader(f, 0)]
<1>2. t \in [1..N -> R]
  BY <1>1
<1>3. t \in Seq(R) /\ Len(t) = N
  <2>1. t \in Seq(R)
    BY <1>1, <1>2, SeqDef
  <2> QED BY <1>1, <2>1
<1>4. Sources \in Seq(R) /\ Len(Sources) = N
  <2>1. CASE args.kind = "right"
    <3>1. Sources = [i \in 1..N |-> t[(N - i) + 1]]
      BY <1>3, <2>1 DEF Sources, Ordered, Reverse
    <3>2. Sources \in [1..N -> R]
      BY <1>1, <1>2, <3>1
    <3> HIDE DEF R, t
    <3>3. Sources \in Seq(R) /\ DOMAIN Sources = 1..N
      <4>1. DOMAIN Sources = 1..N
        BY <3>2
      <4>2. Sources \in Seq(R)
        BY <1>1, <3>2, SeqDef
      <4> QED BY <4>1, <4>2
    <3>4. Len(Sources) = N
      BY <1>1, <3>3, LenOfDomain
    <3> QED BY <3>3, <3>4
  <2>2. CASE args.kind # "right"
    BY <1>3, <2>2 DEF Sources, Ordered
  <2> QED BY <2>1, <2>2
<1>5. \A i \in DOMAIN Sources : Sources[i] \in R
  BY <1>4
<1> QED BY <1>1, <1>4, <1>5, SeqIsSeq DEF Reader

LEMMA JoinInvInit == Init => JoinInv
<1> SUFFICES ASSUME Init PROVE JoinInv
  OBVIOUS
<1>1. /\ pc = "fill" /\ deq = Sources /\ headers = <<>> /\ ts_n_blanks = <<>> /\ c_ids = <<>>
      /\ table = <<>> /\ join_vec = <<>> /\ todo = {} /\ recalculate = FALSE
  BY DEF Init
<1>2. IsSeq(headers) /\ Len(headers) = 0
  <2>1. headers \in Seq({}) /\ Len(headers) = 0
    BY <1>1, EmptySeq
  <2> QED BY <2>1, SeqIsSeq
<1>3. TypeOK
  <2>1. DeqOK
    BY <1>1, SourcesFacts DEF DeqOK
  <2>2. TablesOK
    <3>1. ts_n_blanks \in Seq(TableTypes) /\ c_ids \in Seq(Nat)
      BY <1>1
    <3>2. DOMAIN ts_n_blanks = {} /\ DOMAIN c_ids = {}
      BY <1>1
    <3> QED BY <1>2, <3>1, <3>2 DEF TablesOK
  <2>3. WorkOK
    BY <1>1 DEF WorkOK
  <2> QED BY <1>1, <2>1, <2>2, <2>3 DEF TypeOK
<1>4. Lockstep
  BY <1>1, <1>2, SourcesFacts DEF Lockstep, Filled
<1>5. Phases
  BY <1>1, SourcesFacts, IsSeqFacts DEF Phases, JoiningPcs
<1> QED BY <1>3, <1>4, <1>5 DEF JoinInv

\* The numbers of tables, of key columns and of sources.
LEMMA Sizes ==
  ASSUME JoinInv
  PROVE  /\ Len(deq) \in Nat \ {0} /\ DOMAIN deq = 1..Len(deq)
         /\ Len(headers) \in Nat /\ DOMAIN headers = 1..Len(headers)
         /\ Len(ts_n_blanks) = Len(headers) /\ DOMAIN ts_n_blanks = 1..Len(headers)
         /\ DOMAIN c_ids = 1..Len(c_ids) /\ Len(c_ids) \in Nat
         /\ ~IsUnion => Len(c_ids) = Len(headers)
<1>1. Len(deq) \in Nat /\ DOMAIN deq = 1..Len(deq)
  BY IsSeqFacts DEF JoinInv, TypeOK, DeqOK
<1>2. Len(deq) # 0
  <2>1. deq \in Seq({deq[i] : i \in DOMAIN deq}) /\ deq # <<>>
    BY DEF JoinInv, TypeOK, DeqOK, IsSeq
  <2> QED BY <2>1, EmptySeq
<1>3. Len(headers) \in Nat /\ DOMAIN headers = 1..Len(headers)
  BY IsSeqFacts DEF JoinInv, TypeOK, TablesOK
<1>4. DOMAIN ts_n_blanks = 1..Len(ts_n_blanks) /\ DOMAIN c_ids = 1..Len(c_ids) /\ Len(c_ids) \in Nat
  BY LenProperties DEF JoinInv, TypeOK, TablesOK
<1> QED BY <1>1, <1>2, <1>3, <1>4 DEF JoinInv, Lockstep

\* Passing lines of a reader leaves the deque as it is.
LEMMA DeqAt ==
  ASSUME DeqOK, NEW i \in DOMAIN deq, deq[i].kind = "reader", NEW p, deq' = At(i, p)
  PROVE  DeqOK' /\ Len(deq') = Len(deq)
<1>1. /\ IsSeq(deq') /\ Len(deq') = Len(deq)
      /\ \A j \in DOMAIN deq : deq'[j] = IF j = i THEN Reader(deq[i].file, p) ELSE deq[j]
  <2> DEFINE r == Reader(deq[i].file, p)
             d == [deq EXCEPT ![i] = r]
  <2>1. IsSeq(d) /\ Len(d) = Len(deq) /\ \A j \in DOMAIN deq : d[j] = IF j = i THEN r ELSE deq[j]
    <3>1. IsSeq(deq)
      BY DEF DeqOK
    <3> HIDE DEF r
    <3> QED BY <3>1, IsSeqExcept
  <2>2. deq' = d
    BY DEF At
  <2> QED BY <2>1, <2>2
<1>2. DOMAIN deq' = DOMAIN deq /\ DOMAIN deq = 1..Len(deq) /\ Len(deq) \in Nat
  BY <1>1, IsSeqFacts DEF DeqOK
<1>3. deq' # <<>>
  <2>1. i \in DOMAIN deq'
    BY <1>2
  <2> QED BY <2>1
<1>4. \A j \in DOMAIN deq : /\ deq'[j].kind = deq[j].kind
                            /\ deq'[j].kind = "reader" => deq'[j].file = deq[j].file
  BY <1>1 DEF Reader
<1>5. \A j \in DOMAIN deq' : /\ deq'[j].kind \in {"reader", "fake"}
                             /\ j # 1 => deq'[j].kind = "reader"
                             /\ deq'[j].kind = "reader" => deq'[j].file \in File
  BY <1>2, <1>4 DEF DeqOK
<1>6. IsSeq(deq)'
  BY <1>1 DEF IsSeq
<1>7. (\A j \in DOMAIN deq : /\ deq[j].kind \in {"reader", "fake"}
                             /\ j # 1 => deq[j].kind = "reader"
                             /\ deq[j].kind = "reader" => deq[j].file \in File)'
  BY <1>5 DEF File
<1> QED BY <1>1, <1>3, <1>6, <1>7 DEF DeqOK

\* A step that leaves the tables alone and joins no sources.
LEMMA QuietStep ==
  ASSUME JoinInv, UNCHANGED <<args, headers, ts_n_blanks, c_ids>>,
         DeqOK', Len(deq') = Len(deq), WorkOK', recalculate' \in BOOLEAN,
         pc' \in Final \cup {"loop"} \cup JoiningPcs,
         (pc \in {"fill", "rejected"}) <=> (pc' = "rejected"),
         pc' \in JoiningPcs => Len(deq) > 1
  PROVE  JoinInv'
<1>1. TablesOK'
  BY DEF JoinInv, TypeOK, TablesOK
<1>2. TypeOK'
  BY <1>1 DEF TypeOK
<1>3. Lockstep'
  BY DEF JoinInv, Lockstep, Filled, IsUnion, JoiningPcs, Final, N
<1>4. Phases'
  BY DEF Phases, Final, JoiningPcs
<1> QED BY <1>2, <1>3, <1>4 DEF JoinInv

LEMMA TypifyTyped ==
  ASSUME NEW rows, NEW n \in Nat
  PROVE  /\ Typify(rows, n) \in TableTypes
         /\ Len(Typify(rows, n).types) = n /\ Len(Typify(rows, n).blanks) = n
<1> DEFINE t == [c \in 1..n |-> TypeOf(Column(rows, c))]
           b == [c \in 1..n |-> HasBlanks(Column(rows, c))]
<1>1. Typify(rows, n) = [types |-> t, blanks |-> b]
  BY DEF Typify
<1>2. t \in [1..n -> ColumnType]
  BY DEF TypeOf, ColumnType
<1>3. b \in [1..n -> BOOLEAN]
  BY DEF HasBlanks
<1>4. /\ t \in Seq(ColumnType) /\ b \in Seq(BOOLEAN)
      /\ DOMAIN t = 1..n /\ DOMAIN b = 1..n
  <2>1. DOMAIN t = 1..n /\ DOMAIN b = 1..n
    OBVIOUS
  <2> HIDE DEF t, b
  <2> QED BY <1>2, <1>3, <2>1, SeqDef
<1> HIDE DEF t, b
<1>5. Len(t) = n /\ Len(b) = n
  BY <1>4, LenOfDomain
<1> QED BY <1>1, <1>4, <1>5 DEF TableTypes

LEMMA FileTypesTyped ==
  ASSUME NEW f \in File
  PROVE  /\ FileTypes(f) \in TableTypes /\ Width(f) \in Nat
         /\ Len(FileTypes(f).types) = Width(f) /\ Len(FileTypes(f).blanks) = Width(f)
<1>1. Width(f) \in Nat
  <2>1. Names[f] \in Seq(Seq(STRING))
    BY TablesAssumption DEF File
  <2> QED BY <2>1, LenProperties DEF Width
<1> DEFINE n == Width(f)
           t == [c \in 1..n |-> "bool"]
           b == [c \in 1..n |-> TRUE]
<1>2. CASE keys[f] = <<>>
  <2>1. FileTypes(f) = [types |-> t, blanks |-> b]
    BY <1>2 DEF FileTypes, NoBodyTypes
  <2>2. /\ t \in [1..n -> ColumnType] /\ b \in [1..n -> BOOLEAN]
        /\ DOMAIN t = 1..n /\ DOMAIN b = 1..n
    BY DEF ColumnType
  <2> HIDE DEF t, b
  <2>3. t \in Seq(ColumnType) /\ b \in Seq(BOOLEAN)
    BY <1>1, <2>2, SeqDef
  <2>4. Len(t) = n /\ Len(b) = n
    BY <1>1, <2>2, <2>3, LenOfDomain
  <2> QED BY <1>1, <2>1, <2>3, <2>4 DEF TableTypes
<1>3. CASE keys[f] # <<>>
  BY <1>1, <1>3, TypifyTyped DEF FileTypes
<1> QED BY <1>2, <1>3

LEMMA FillStep == JoinInv /\ Fill => JoinInv'
<1> SUFFICES ASSUME JoinInv, Fill PROVE JoinInv'
  OBVIOUS
<1> DEFINE f == deq[Next0].file
<1>1. /\ pc = "fill" /\ UNCHANGED <<args, keys, recalculate, table, join_vec, todo>>
      /\ ~IsUnion => JoinColumns[Next0] \in 1..Width(f)
      /\ deq' = At(Next0, Body)
      /\ headers' = Append(headers, Names[f])
      /\ ts_n_blanks' = Append(ts_n_blanks, FileTypes(f))
      /\ c_ids' = IF IsUnion THEN c_ids ELSE Append(c_ids, JoinColumns[Next0])
      /\ pc' = IF Next0 = N THEN "loop" ELSE "fill"
  BY DEF Fill, NoWork, Untouched
<1>2. /\ DeqOK /\ TablesOK /\ WorkOK /\ recalculate \in BOOLEAN
      /\ Len(headers) < Len(deq) /\ Len(deq) = N
      /\ IF IsUnion THEN c_ids = <<>> ELSE Len(c_ids) = Len(headers)
  BY <1>1 DEF JoinInv, TypeOK, Lockstep, Filled
<1>3. /\ Next0 \in DOMAIN deq /\ Next0 = Len(headers) + 1 /\ Next0 \in Nat
      /\ Len(ts_n_blanks) = Len(headers)
  <2>1. /\ Len(headers) \in Nat /\ Len(deq) \in Nat /\ DOMAIN deq = 1..Len(deq)
        /\ Len(ts_n_blanks) = Len(headers)
    BY Sizes
  <2> QED BY <1>2, <2>1 DEF Next0
<1>4. deq[Next0].kind = "reader" /\ f \in File
  <2>1. CASE Next0 # 1
    BY <1>2, <1>3, <2>1 DEF DeqOK
  <2>2. CASE Next0 = 1
    BY <1>1, <1>2, <1>3, <2>2 DEF JoinInv, Phases, DeqOK
  <2> QED BY <2>1, <2>2
<1>5. DeqOK' /\ Len(deq') = Len(deq)
  BY <1>1, <1>2, <1>3, <1>4, DeqAt
<1> HIDE DEF f
<1>6. IsSeq(headers') /\ Len(headers') = Len(headers) + 1
  BY <1>1, <1>2, IsSeqAppend DEF TablesOK
<1>7. /\ ts_n_blanks' \in Seq(TableTypes) /\ Len(ts_n_blanks') = Len(headers) + 1
      /\ \A i \in 1..Len(headers) : ts_n_blanks'[i] = ts_n_blanks[i]
      /\ ts_n_blanks'[Len(headers) + 1] = FileTypes(f)
  BY <1>1, <1>2, <1>3, <1>4, FileTypesTyped, AppendProperties DEF TablesOK
<1>8. DOMAIN ts_n_blanks' = 1..(Len(headers) + 1)
  BY <1>7, LenProperties
<1>9. \A i \in DOMAIN ts_n_blanks' : Len(ts_n_blanks'[i].blanks) = Len(ts_n_blanks'[i].types)
  <2> SUFFICES ASSUME NEW i \in DOMAIN ts_n_blanks'
               PROVE  Len(ts_n_blanks'[i].blanks) = Len(ts_n_blanks'[i].types)
    OBVIOUS
  <2>1. CASE i = Len(headers) + 1
    BY <1>4, <1>7, <2>1, FileTypesTyped
  <2>2. CASE i \in 1..Len(headers)
    BY <1>2, <1>7, <2>2, Sizes DEF TablesOK
  <2> QED BY <1>3, <1>8, <2>1, <2>2
<1>10. /\ c_ids' \in Seq(Nat)
       /\ IF IsUnion THEN c_ids' = <<>> ELSE Len(c_ids') = Len(headers) + 1
       /\ \A i \in DOMAIN c_ids' : c_ids'[i] \in 1..Len(ts_n_blanks'[i].types)
  <2>1. CASE IsUnion
    BY <1>1, <1>2, <2>1 DEF TablesOK
  <2>2. CASE ~IsUnion
    <3> DEFINE c == JoinColumns[Next0]
    <3>1. c \in 1..Len(FileTypes(f).types) /\ c \in Nat
      BY <1>1, <1>4, <2>2, FileTypesTyped DEF f
    <3> HIDE DEF c
    <3>2. c_ids' = Append(c_ids, c) /\ c_ids \in Seq(Nat) /\ Len(c_ids) = Len(headers)
      BY <1>1, <1>2, <2>2 DEF TablesOK, c
    <3>3. /\ c_ids' \in Seq(Nat) /\ Len(c_ids') = Len(headers) + 1
          /\ \A i \in 1..Len(headers) : c_ids'[i] = c_ids[i]
          /\ c_ids'[Len(headers) + 1] = c
      BY <3>1, <3>2, AppendProperties
    <3>4. DOMAIN c_ids' = 1..(Len(headers) + 1)
      BY <3>3, LenProperties
    <3>5. \A i \in 1..Len(headers) : c_ids'[i] \in 1..Len(ts_n_blanks'[i].types)
      BY <1>2, <1>7, <3>2, <3>3, Sizes DEF TablesOK
    <3>6. c_ids'[Len(headers) + 1] \in 1..Len(ts_n_blanks'[Len(headers) + 1].types)
      BY <1>7, <3>1, <3>3
    <3>7. \A i \in DOMAIN c_ids' : i \in 1..Len(headers) \/ i = Len(headers) + 1
      BY <1>3, <3>4
    <3> QED BY <2>2, <3>3, <3>5, <3>6, <3>7
  <2> QED BY <2>1, <2>2
<1>11. TypeOK'
  <2>1. TablesOK'
    BY <1>6, <1>7, <1>9, <1>10 DEF TablesOK, IsSeq
  <2>2. WorkOK' /\ recalculate' \in BOOLEAN
    BY <1>1, <1>2 DEF WorkOK
  <2> QED BY <1>1, <1>5, <2>1, <2>2 DEF TypeOK
<1>12. Lockstep'
  <2>1. /\ Len(ts_n_blanks') = Len(headers')
        /\ IF IsUnion' THEN c_ids' = <<>> ELSE Len(c_ids') = Len(headers')
    BY <1>1, <1>6, <1>7, <1>10 DEF IsUnion
  <2>2. Len(headers') = Next0 /\ Len(deq') = N /\ Next0 <= N
    <3>1. Len(headers) \in Nat /\ Len(deq) \in Nat
      BY Sizes
    <3> QED BY <1>2, <1>3, <1>5, <1>6, <3>1
  <2>3. IF Next0 = N THEN Filled' ELSE ~Filled' /\ Next0 < N
    <3>1. Next0 \in Nat /\ N \in Nat
      BY <1>2, <1>3, Sizes
    <3> QED BY <1>1, <2>2, <3>1 DEF Filled
  <2> QED BY <2>1, <2>2, <2>3 DEF Lockstep, N
<1>13. Phases'
  <2>1. 1 \in DOMAIN deq /\ pc' \in {"fill", "loop"}
    <3>1. Len(deq) \in Nat \ {0} /\ DOMAIN deq = 1..Len(deq)
      BY Sizes
    <3> QED BY <1>1, <3>1
  <2>2. deq'[1].kind = "reader"
    BY <1>1, <2>1 DEF At, Reader, JoinInv, Phases
  <2> QED BY <2>1, <2>2 DEF Phases, JoiningPcs
<1> QED BY <1>11, <1>12, <1>13 DEF JoinInv

LEMMA CanCompareStep == JoinInv /\ CanCompare => JoinInv'
<1> SUFFICES ASSUME JoinInv, CanCompare PROVE JoinInv'
  OBVIOUS
<1>1. /\ pc = "loop" /\ Len(deq) > 1 /\ ~IsUnion
      /\ UNCHANGED <<args, deq, headers, c_ids, table, join_vec, todo>>
      /\ recalculate' = FALSE /\ pc' \in {"hash_right", "disjoint"}
      /\ \/ UNCHANGED ts_n_blanks
         \/ ts_n_blanks' = [ts_n_blanks EXCEPT ![1] = SetKeyToText(1), ![2] = SetKeyToText(2)]
  BY DEF CanCompare, NoWork, Untouched
<1>2. DeqOK /\ TablesOK /\ WorkOK
  BY DEF JoinInv, TypeOK
<1>3. /\ Len(headers) = Len(deq) /\ Len(deq) \in Nat
      /\ ts_n_blanks \in Seq(TableTypes)
      /\ DOMAIN ts_n_blanks = 1..Len(deq) /\ Len(ts_n_blanks) = Len(deq)
      /\ DOMAIN c_ids = 1..Len(deq)
  <2>1. Len(headers) = Len(deq)
    BY <1>1 DEF JoinInv, Lockstep, Filled
  <2> QED BY <1>1, <1>2, <2>1, Sizes DEF TablesOK
<1>4. \A i \in {1, 2} : /\ SetKeyToText(i) \in TableTypes
                        /\ Len(SetKeyToText(i).types) = Len(ts_n_blanks[i].types)
                        /\ Len(SetKeyToText(i).blanks) = Len(ts_n_blanks[i].blanks)
  <2> SUFFICES ASSUME NEW i \in {1, 2}
               PROVE  /\ SetKeyToText(i) \in TableTypes
                      /\ Len(SetKeyToText(i).types) = Len(ts_n_blanks[i].types)
                      /\ Len(SetKeyToText(i).blanks) = Len(ts_n_blanks[i].blanks)
    OBVIOUS
  <2> DEFINE t == ts_n_blanks[i]
             u == [t.types EXCEPT ![c_ids[i]] = "text"]
  <2>1. i \in 1..Len(ts_n_blanks) /\ i \in DOMAIN c_ids
    BY <1>1, <1>3
  <2>2. t \in TableTypes
    BY <1>3, <2>1, ElementOfSeq
  <2>3. t.types \in Seq(ColumnType) /\ t.blanks \in Seq(BOOLEAN)
    BY <2>2 DEF TableTypes
  <2>4. c_ids[i] \in 1..Len(t.types)
    BY <1>2, <2>1 DEF TablesOK
  <2>5. "text" \in ColumnType
    BY DEF ColumnType
  <2>6. SetKeyToText(i) = [types |-> u, blanks |-> t.blanks]
    BY DEF SetKeyToText
  <2> HIDE DEF t
  <2>7. u \in Seq(ColumnType) /\ Len(u) = Len(t.types)
    BY <2>3, <2>4, <2>5, ExceptSeq
  <2> HIDE DEF u
  <2>8. /\ SetKeyToText(i) \in TableTypes /\ Len(SetKeyToText(i).types) = Len(t.types)
        /\ Len(SetKeyToText(i).blanks) = Len(t.blanks)
    BY <2>3, <2>6, <2>7 DEF TableTypes
  <2> QED BY <2>8 DEF t
<1>5. /\ ts_n_blanks' \in Seq(TableTypes) /\ Len(ts_n_blanks') = Len(deq)
      /\ \A i \in 1..Len(deq) :
           /\ Len(ts_n_blanks'[i].types) = Len(ts_n_blanks[i].types)
           /\ Len(ts_n_blanks'[i].blanks) = Len(ts_n_blanks[i].blanks)
  <2>1. CASE UNCHANGED ts_n_blanks
    BY <1>3, <2>1
  <2>2. CASE ts_n_blanks' = [ts_n_blanks EXCEPT ![1] = SetKeyToText(1), ![2] = SetKeyToText(2)]
    <3> DEFINE t == [ts_n_blanks EXCEPT ![1] = SetKeyToText(1)]
               u == [t EXCEPT ![2] = SetKeyToText(2)]
    <3>1. /\ t \in Seq(TableTypes) /\ Len(t) = Len(deq)
          /\ \A j \in 1..Len(deq) : t[j] = IF j = 1 THEN SetKeyToText(1) ELSE ts_n_blanks[j]
      BY <1>1, <1>3, <1>4, ExceptSeq
    <3>2. ts_n_blanks' = u
      BY <2>2
    <3> HIDE DEF t
    <3>3. /\ u \in Seq(TableTypes) /\ Len(u) = Len(deq)
          /\ \A j \in 1..Len(deq) : u[j] = IF j = 2 THEN SetKeyToText(2) ELSE t[j]
      BY <1>1, <1>3, <1>4, <3>1, ExceptSeq
    <3> HIDE DEF u
    <3> QED BY <1>4, <3>1, <3>2, <3>3
  <2> QED BY <1>1, <2>1, <2>2
<1>6. TablesOK'
  <2>1. DOMAIN ts_n_blanks' = 1..Len(deq)
    BY <1>5, LenProperties
  <2>2. \A i \in DOMAIN ts_n_blanks' : Len(ts_n_blanks'[i].blanks) = Len(ts_n_blanks'[i].types)
    BY <1>2, <1>3, <1>5, <2>1 DEF TablesOK
  <2>3. \A i \in DOMAIN c_ids' : c_ids'[i] \in 1..Len(ts_n_blanks'[i].types)
    BY <1>1, <1>2, <1>3, <1>5 DEF TablesOK
  <2> QED BY <1>1, <1>2, <1>5, <2>2, <2>3 DEF TablesOK
<1>7. TypeOK'
  BY <1>1, <1>2, <1>6 DEF TypeOK, DeqOK, WorkOK, JoiningPcs, File
<1>8. Lockstep'
  BY <1>1, <1>3, <1>5 DEF JoinInv, Lockstep, Filled, IsUnion
<1>9. Phases'
  BY <1>1 DEF Phases
<1> QED BY <1>7, <1>8, <1>9 DEF JoinInv

\* The steps in which a table is opened, rows are matched or rows are added.
LEMMA RowStep ==
  ASSUME JoinInv,
         \/ FillRejected \/ HashRight \/ OpenLeft
         \/ (\E i \in todo : WorkFirst(i)) \/ MergeFirst \/ NoBody
         \/ HashLeft \/ (\E i \in todo : WorkSecond(i)) \/ MergeSecond \/ NoBodySecond
         \/ Disjoint \/ Union \/ UnionOfEmpty \/ PrintResults \/ Finished \/ UNCHANGED vars
  PROVE  JoinInv'
<1>1. DeqOK /\ TablesOK /\ WorkOK /\ recalculate \in BOOLEAN /\ Phases
  BY DEF JoinInv, TypeOK
<1>2. Len(deq) \in Nat \ {0} /\ DOMAIN deq = 1..Len(deq)
  BY Sizes
<1>3. ASSUME UNCHANGED deq PROVE DeqOK' /\ Len(deq') = Len(deq)
  BY <1>1, <1>3 DEF DeqOK, File
<1>4. ASSUME UNCHANGED <<table, join_vec, todo>> PROVE WorkOK'
  BY <1>1, <1>4 DEF WorkOK
<1>5. ASSUME NEW rows, StartWork(rows) PROVE WorkOK'
  BY <1>5 DEF WorkOK, StartWork
<1>6. CASE FillRejected
  BY <1>1, <1>3, <1>4, <1>6, QuietStep
  DEF FillRejected, NoWork, Untouched, Tables, Final, JoiningPcs
<1>7. CASE HashRight
  <2>1. /\ pc = "hash_right" /\ Len(deq) > 1 /\ pc' \in {"no_body", "terminated", "open_left"}
        /\ \E p : deq' = At(2, p)
        /\ UNCHANGED <<args, headers, ts_n_blanks, c_ids, recalculate, table, join_vec, todo>>
    BY <1>1, <1>7 DEF HashRight, Untouched, Tables, Phases, JoiningPcs
  <2>2. 2 \in DOMAIN deq /\ deq[2].kind = "reader"
    BY <1>1, <1>2, <2>1 DEF DeqOK
  <2>3. DeqOK' /\ Len(deq') = Len(deq)
    BY <1>1, <2>1, <2>2, DeqAt
  <2> QED BY <1>1, <1>4, <2>1, <2>3, QuietStep DEF Final, JoiningPcs
<1>8. CASE OpenLeft
  <2>1. /\ pc = "open_left" /\ Len(deq) > 1 /\ pc' \in {"no_body", "first"}
        /\ \/ UNCHANGED deq
           \/ deq[1].kind # "fake" /\ \E p : deq' = At(1, p)
        /\ UNCHANGED <<args, headers, ts_n_blanks, c_ids, recalculate>>
        /\ UNCHANGED <<table, join_vec, todo>> \/ \E rows : StartWork(rows)
    BY <1>1, <1>8 DEF OpenLeft, Untouched, Tables, Phases, JoiningPcs
  <2>2. DeqOK' /\ Len(deq') = Len(deq)
    <3>1. CASE deq[1].kind # "fake" /\ \E p : deq' = At(1, p)
      <4>1. 1 \in DOMAIN deq /\ deq[1].kind = "reader"
        BY <1>1, <1>2, <3>1 DEF DeqOK
      <4> QED BY <1>1, <3>1, <4>1, DeqAt
    <3> QED BY <1>3, <2>1, <3>1
  <2>3. WorkOK'
    BY <1>4, <1>5, <2>1
  <2> QED BY <1>1, <2>1, <2>2, <2>3, QuietStep DEF Final, JoiningPcs
<1>9. ASSUME NEW i \in todo, WorkFirst(i) \/ WorkSecond(i) PROVE JoinInv'
  <2>1. /\ pc \in {"first", "second"} /\ pc' \in {pc, "terminated"}
        /\ UNCHANGED <<args, deq, headers, ts_n_blanks, c_ids, table>>
        /\ \/ UNCHANGED <<join_vec, todo>>
           \/ \E r : Store(i, r)
        /\ recalculate' \in BOOLEAN
    BY <1>1, <1>9 DEF WorkFirst, WorkSecond, Work, Untouched, Tables
  <2>2. WorkOK'
    BY <1>1, <2>1 DEF WorkOK, Store
  <2> QED BY <1>1, <1>3, <2>1, <2>2, QuietStep DEF Final, JoiningPcs, Phases
<1>10. CASE MergeFirst \/ NoBody \/ MergeSecond \/ NoBodySecond \/ Disjoint
  <2>1. /\ pc \in {"first", "second", "no_body", "no_body_2", "disjoint"}
        /\ pc' \in {"hash_left", "cleanup"}
        /\ UNCHANGED <<args, deq, headers, ts_n_blanks, c_ids, table, join_vec, todo>>
        /\ recalculate' \in BOOLEAN
    BY <1>1, <1>10 DEF MergeFirst, NoBody, MergeSecond, NoBodySecond, Disjoint, NoWork,
                       Untouched, Tables, IsOuter
  <2> QED BY <1>1, <1>3, <1>4, <2>1, QuietStep DEF Final, JoiningPcs, Phases
<1>11. CASE HashLeft
  <2>1. /\ pc = "hash_left" /\ Len(deq) > 1
        /\ pc' \in {"failed", "no_body_2", "terminated", "second"}
        /\ \/ UNCHANGED deq
           \/ deq' = At(2, 0)
        /\ UNCHANGED <<args, headers, ts_n_blanks, c_ids, recalculate>>
        /\ UNCHANGED <<table, join_vec, todo>> \/ \E rows : StartWork(rows)
    BY <1>1, <1>11 DEF HashLeft, Untouched, Tables, Phases, JoiningPcs
  <2>2. DeqOK' /\ Len(deq') = Len(deq)
    <3>1. 2 \in DOMAIN deq /\ deq[2].kind = "reader"
      BY <1>1, <1>2, <2>1 DEF DeqOK
    <3> QED BY <1>1, <1>3, <2>1, <3>1, DeqAt
  <2>3. WorkOK'
    BY <1>4, <1>5, <2>1
  <2> QED BY <1>1, <2>1, <2>2, <2>3, QuietStep DEF Final, JoiningPcs
<1>12. CASE Union \/ UnionOfEmpty \/ PrintResults
  <2>1. /\ pc = "loop" /\ pc' \in {"cleanup", "undefined", "done", "failed"}
        /\ pc' = "cleanup" => Len(deq) > 1
        /\ UNCHANGED <<args, deq, headers, ts_n_blanks, c_ids, recalculate, table, join_vec, todo>>
    BY <1>12 DEF Union, UnionOfEmpty, PrintResults, NoWork, Untouched, Tables
  <2> QED BY <1>1, <1>3, <1>4, <2>1, QuietStep DEF Final, JoiningPcs
<1>13. CASE Finished \/ UNCHANGED vars
  <2>1. UNCHANGED <<args, pc, deq, headers, ts_n_blanks, c_ids, recalculate, table, join_vec, todo>>
    BY <1>13 DEF Finished, vars
  <2>2. DeqOK' /\ WorkOK' /\ Len(deq') = Len(deq)
    BY <1>3, <1>4, <2>1
  <2>3. TypeOK'
    BY <2>1, <2>2 DEF JoinInv, TypeOK, TablesOK
  <2> QED BY <2>1, <2>3 DEF JoinInv, Lockstep, Filled, IsUnion, Phases
<1> QED BY <1>6, <1>7, <1>8, <1>9, <1>10, <1>11, <1>12, <1>13

\* The columns of the two tables side by side, less the second key column.
LEMMA ConcatTyped ==
  ASSUME NEW S, NEW s \in Seq(S), NEW t \in Seq(S), KeepsKey \/ c_ids[2] \in 1..Len(t)
  PROVE  /\ Concat(s, t) \in Seq(S)
         /\ Len(Concat(s, t)) = Len(s) + Len(t) - (IF KeepsKey THEN 0 ELSE 1)
         /\ Len(s) <= Len(Concat(s, t)) /\ Len(Concat(s, t)) \in Nat
<1>1. Len(s) \in Nat /\ Len(t) \in Nat /\ DOMAIN t = 1..Len(t)
  BY LenProperties
<1>2. CASE KeepsKey
  <2>1. Concat(s, t) \in Seq(S) /\ Len(Concat(s, t)) = Len(s) + Len(t)
    BY <1>2, ConcatProperties DEF Concat
  <2> QED BY <1>1, <1>2, <2>1
<1>3. CASE ~KeepsKey
  <2> DEFINE r == RemoveAt(t, c_ids[2])
  <2>1. r \in Seq(S) /\ Len(r) = Len(t) - 1
    BY <1>1, <1>3, RemoveAtFacts
  <2>2. Concat(s, t) = s \o r
    BY <1>3 DEF Concat
  <2> HIDE DEF r
  <2>3. Concat(s, t) \in Seq(S) /\ Len(Concat(s, t)) = Len(s) + Len(r)
    BY <2>1, <2>2, ConcatProperties
  <2>4. Len(t) > 0
    BY <1>1, <1>3
  <2> QED BY <1>1, <1>3, <2>1, <2>3, <2>4
<1> QED BY <1>2, <1>3

LEMMA CleanupStep == JoinInv /\ Cleanup => JoinInv'
<1> SUFFICES ASSUME JoinInv, Cleanup PROVE JoinInv'
  OBVIOUS
<1>1. /\ DeqOK /\ TablesOK /\ WorkOK /\ recalculate \in BOOLEAN
      /\ pc = "cleanup" /\ Len(deq) > 1
      /\ UNCHANGED <<args, recalculate, table, join_vec, todo>>
  BY DEF JoinInv, TypeOK, Phases, JoiningPcs, Cleanup, NoWork, Untouched
<1>2. /\ Len(deq) \in Nat /\ DOMAIN deq = 1..Len(deq)
      /\ Len(headers) = Len(deq) /\ DOMAIN headers = 1..Len(deq)
      /\ Len(ts_n_blanks) = Len(deq) /\ DOMAIN ts_n_blanks = 1..Len(deq)
      /\ IF IsUnion THEN c_ids = <<>> ELSE Len(c_ids) = Len(deq) /\ DOMAIN c_ids = 1..Len(deq)
  <2>1. /\ Len(headers) = Len(deq)
        /\ IF IsUnion THEN c_ids = <<>> ELSE Len(c_ids) = Len(headers)
    BY <1>1 DEF JoinInv, Lockstep, Filled
  <2> QED BY <2>1, Sizes
<1>3. CASE UNCHANGED <<deq, headers, ts_n_blanks, c_ids>> /\ pc' = "failed"
  <2>1. DeqOK' /\ WorkOK' /\ Len(deq') = Len(deq)
    BY <1>1, <1>3 DEF DeqOK, WorkOK, File
  <2> QED BY <1>1, <1>3, <2>1, QuietStep DEF Final, JoiningPcs
<1>4. CASE /\ pc' = "loop"
           /\ deq' = <<Fake(impl)>> \o SubSeq(deq, 3, Len(deq))
           /\ headers' = DropSecond([headers EXCEPT ![1] = ConcatHeaders])
           /\ ts_n_blanks' = DropSecond([ts_n_blanks EXCEPT ![1] =
                IF MustRecalculate THEN Typify(impl, Len(ConcatTypes.types)) ELSE ConcatTypes])
           /\ c_ids' = IF IsUnion THEN c_ids ELSE DropSecond(c_ids)
  <2> DEFINE fake == Fake(impl)
             header == ConcatHeaders
             types == IF MustRecalculate THEN Typify(impl, Len(ConcatTypes.types)) ELSE ConcatTypes
             h == [headers EXCEPT ![1] = header]
             t == [ts_n_blanks EXCEPT ![1] = types]
  <2>1. /\ deq' = <<fake>> \o SubSeq(deq, 3, Len(deq)) /\ headers' = DropSecond(h)
        /\ ts_n_blanks' = DropSecond(t) /\ fake.kind = "fake"
    BY <1>4 DEF Fake
  <2>2. /\ types \in TableTypes /\ Len(types.blanks) = Len(types.types)
        /\ Len(ts_n_blanks[1].types) <= Len(types.types)
    <3> DEFINE t0 == ts_n_blanks[1]
               t1 == ts_n_blanks[2]
    <3>1. t0 \in TableTypes /\ t1 \in TableTypes
      BY <1>1, <1>2, ElementOfSeq DEF TablesOK
    <3>2. Len(t0.blanks) = Len(t0.types) /\ Len(t1.blanks) = Len(t1.types)
      BY <1>1, <1>2 DEF TablesOK
    <3>3. KeepsKey \/ c_ids[2] \in 1..Len(t1.types)
      BY <1>1, <1>2 DEF TablesOK, KeepsKey
    <3>4. ConcatTypes = [types |-> Concat(t0.types, t1.types), blanks |-> Concat(t0.blanks, t1.blanks)]
      BY DEF ConcatTypes
    <3> HIDE DEF t0, t1
    <3>5. /\ t0.types \in Seq(ColumnType) /\ t1.types \in Seq(ColumnType)
          /\ t0.blanks \in Seq(BOOLEAN) /\ t1.blanks \in Seq(BOOLEAN)
      BY <3>1 DEF TableTypes
    <3>6. /\ Concat(t0.types, t1.types) \in Seq(ColumnType)
          /\ Len(t0.types) <= Len(Concat(t0.types, t1.types))
          /\ Len(Concat(t0.types, t1.types)) \in Nat
          /\ Len(Concat(t0.types, t1.types)) =
               Len(t0.types) + Len(t1.types) - (IF KeepsKey THEN 0 ELSE 1)
      BY <3>3, <3>5, ConcatTyped
    <3>7. /\ Concat(t0.blanks, t1.blanks) \in Seq(BOOLEAN)
          /\ Len(Concat(t0.blanks, t1.blanks)) =
               Len(t0.blanks) + Len(t1.blanks) - (IF KeepsKey THEN 0 ELSE 1)
      BY <3>2, <3>3, <3>5, ConcatTyped
    <3>8. Len(Concat(t0.blanks, t1.blanks)) = Len(Concat(t0.types, t1.types))
      BY <3>2, <3>6, <3>7
    <3>9. CASE MustRecalculate
      <4> DEFINE n == Len(Concat(t0.types, t1.types))
      <4>1. types = Typify(impl, n) /\ n \in Nat
        BY <3>4, <3>6, <3>9
      <4> HIDE DEF n, types
      <4>2. types \in TableTypes /\ Len(types.types) = n /\ Len(types.blanks) = n
        BY <4>1, TypifyTyped
      <4> QED BY <3>6, <4>2 DEF n, t0
    <3>10. CASE ~MustRecalculate
      <4>1. types = [types |-> Concat(t0.types, t1.types), blanks |-> Concat(t0.blanks, t1.blanks)]
        BY <3>4, <3>10
      <4> HIDE DEF types
      <4> QED BY <3>6, <3>7, <3>8, <4>1 DEF TableTypes, t0
    <3> QED BY <3>9, <3>10
  <2> HIDE DEF fake, header, types
  <2>3. DeqOK' /\ Len(deq') = Len(deq) - 1
    <3>1. /\ IsSeq(deq') /\ Len(deq') = Len(deq) - 1 /\ deq'[1] = fake
          /\ \A i \in 2..Len(deq') : i + 1 \in DOMAIN deq /\ deq'[i] = deq[i + 1]
      BY <1>1, <2>1, TwoBecomeOne DEF DeqOK
    <3>2. DOMAIN deq' = 1..Len(deq') /\ Len(deq') \in Nat \ {0}
      BY <1>1, <1>2, <3>1, IsSeqFacts
    <3>3. \A i \in DOMAIN deq' : i = 1 \/ i \in 2..Len(deq')
      BY <3>2
    <3>4. \A i \in 2..Len(deq') : i + 1 # 1
      OBVIOUS
    <3>5. (\A i \in DOMAIN deq : /\ deq[i].kind \in {"reader", "fake"}
                                 /\ i # 1 => deq[i].kind = "reader"
                                 /\ deq[i].kind = "reader" => deq[i].file \in File)'
      BY <1>1, <2>1, <3>1, <3>3, <3>4 DEF DeqOK, File
    <3>6. deq' # <<>>
      <4>1. 1 \in DOMAIN deq'
        BY <3>2
      <4> QED BY <4>1
    <3>7. IsSeq(deq)'
      BY <3>1 DEF IsSeq
    <3> QED BY <3>1, <3>5, <3>6, <3>7 DEF DeqOK
  <2>4. IsSeq(headers') /\ Len(headers') = Len(deq) - 1
    <3>1. 1 \in DOMAIN headers /\ IsSeq(headers)
      BY <1>1, <1>2 DEF TablesOK
    <3>2. IsSeq(h) /\ Len(h) = Len(deq)
      BY <1>2, <3>1, IsSeqExcept
    <3> HIDE DEF h
    <3> QED BY <1>1, <2>1, <3>2, DropSecondFacts
  <2>5. /\ t \in Seq(TableTypes) /\ Len(t) = Len(deq) /\ IsSeq(t) /\ DOMAIN t = 1..Len(deq)
        /\ t[1] = types /\ \A i \in 2..Len(deq) : t[i] = ts_n_blanks[i]
    <3>1. ts_n_blanks \in Seq(TableTypes) /\ 1 \in 1..Len(ts_n_blanks)
      BY <1>1, <1>2 DEF TablesOK
    <3>2. /\ t \in Seq(TableTypes) /\ Len(t) = Len(deq)
          /\ \A i \in 1..Len(deq) : t[i] = IF i = 1 THEN types ELSE ts_n_blanks[i]
      BY <1>2, <2>2, <3>1, ExceptSeq
    <3> HIDE DEF t
    <3> QED BY <1>1, <1>2, <3>2, SeqIsSeq
  <2> HIDE DEF t
  <2>6. /\ IsSeq(ts_n_blanks') /\ Len(ts_n_blanks') = Len(deq) - 1
        /\ DOMAIN ts_n_blanks' = 1..(Len(deq) - 1)
        /\ ts_n_blanks'[1] = types
        /\ \A i \in 2..(Len(deq) - 1) : i + 1 \in 2..Len(deq) /\ ts_n_blanks'[i] = ts_n_blanks[i + 1]
    <3>1. /\ IsSeq(ts_n_blanks') /\ Len(ts_n_blanks') = Len(deq) - 1
          /\ ts_n_blanks'[1] = types
          /\ \A i \in 2..(Len(deq) - 1) : i + 1 \in DOMAIN t /\ ts_n_blanks'[i] = t[i + 1]
      BY <1>1, <2>1, <2>5, DropSecondFacts
    <3>2. DOMAIN ts_n_blanks' = 1..(Len(deq) - 1)
      BY <3>1, IsSeqFacts
    <3>3. \A i \in 2..(Len(deq) - 1) : i + 1 \in 2..Len(deq)
      BY <1>2
    <3> QED BY <2>5, <3>1, <3>2, <3>3
  <2>7. \A i \in DOMAIN ts_n_blanks' :
          /\ ts_n_blanks'[i] \in TableTypes
          /\ Len(ts_n_blanks'[i].blanks) = Len(ts_n_blanks'[i].types)
    <3>1. \A i \in 2..(Len(deq) - 1) : i + 1 \in DOMAIN ts_n_blanks
      BY <1>2, <2>6
    <3>2. \A i \in DOMAIN ts_n_blanks : ts_n_blanks[i] \in TableTypes
      BY <1>1, <1>2, ElementOfSeq DEF TablesOK
    <3>3. \A i \in 2..(Len(deq) - 1) :
            /\ ts_n_blanks'[i] \in TableTypes
            /\ Len(ts_n_blanks'[i].blanks) = Len(ts_n_blanks'[i].types)
      BY <1>1, <2>6, <3>1, <3>2 DEF TablesOK
    <3>4. \A i \in DOMAIN ts_n_blanks' : i = 1 \/ i \in 2..(Len(deq) - 1)
      BY <1>2, <2>6
    <3> QED BY <2>2, <2>6, <3>3, <3>4
  <2>8. ts_n_blanks' \in Seq(TableTypes)
    BY <2>6, <2>7, IsSeqIn
  <2>9. /\ c_ids' \in Seq(Nat)
        /\ IF IsUnion THEN c_ids' = <<>> ELSE Len(c_ids') = Len(deq) - 1
        /\ \A i \in DOMAIN c_ids' : c_ids'[i] \in 1..Len(ts_n_blanks'[i].types)
    <3>1. CASE IsUnion
      BY <1>2, <1>4, <3>1
    <3>2. CASE ~IsUnion
      <4>1. c_ids \in Seq(Nat) /\ IsSeq(c_ids) /\ Len(c_ids) > 1
        BY <1>1, <1>2, <3>2, SeqIsSeq DEF TablesOK
      <4>2. /\ IsSeq(c_ids') /\ Len(c_ids') = Len(deq) - 1
            /\ c_ids'[1] = c_ids[1]
            /\ \A i \in 2..(Len(deq) - 1) : i + 1 \in DOMAIN c_ids /\ c_ids'[i] = c_ids[i + 1]
        BY <1>2, <1>4, <3>2, <4>1, DropSecondFacts
      <4>3. DOMAIN c_ids' = 1..(Len(deq) - 1)
        BY <4>2, IsSeqFacts
      <4>4. \A i \in DOMAIN c_ids' : i = 1 \/ i \in 2..(Len(deq) - 1)
        BY <1>2, <4>3
      <4>5. c_ids[1] \in Nat /\ \A i \in DOMAIN c_ids : c_ids[i] \in Nat
        BY <1>1, <1>2, <3>2, <4>1, ElementOfSeq
      <4>6. c_ids'[1] \in 1..Len(ts_n_blanks'[1].types)
        <5>1. c_ids[1] \in 1..Len(ts_n_blanks[1].types)
          BY <1>1, <1>2, <3>2 DEF TablesOK
        <5>2. types.types \in Seq(ColumnType)
          BY <2>2 DEF TableTypes
        <5>3. Len(types.types) \in Nat
          BY <5>2, LenProperties
        <5>4. ts_n_blanks[1] \in TableTypes
          BY <1>1, <1>2, ElementOfSeq DEF TablesOK
        <5>5. Len(ts_n_blanks[1].types) \in Nat
          BY <5>4, LenProperties DEF TableTypes
        <5> QED BY <2>2, <2>6, <4>2, <5>1, <5>3, <5>5
      <4>7. \A i \in 2..(Len(deq) - 1) : c_ids'[i] \in 1..Len(ts_n_blanks'[i].types)
        BY <1>1, <2>6, <4>2 DEF TablesOK
      <4>8. c_ids' \in Seq(Nat)
        BY <4>2, <4>4, <4>5, IsSeqIn
      <4> QED BY <3>2, <4>2, <4>4, <4>6, <4>7, <4>8
    <3> QED BY <3>1, <3>2
  <2>10. TypeOK'
    <3>1. TablesOK'
      BY <2>4, <2>7, <2>8, <2>9 DEF TablesOK, IsSeq
    <3>2. WorkOK'
      BY <1>1 DEF WorkOK
    <3> QED BY <1>1, <1>4, <2>3, <3>1, <3>2 DEF TypeOK
  <2>11. Lockstep'
    BY <1>1, <1>4, <2>3, <2>4, <2>6, <2>9 DEF Lockstep, Filled, IsUnion
  <2>12. Phases'
    BY <1>4 DEF Phases, JoiningPcs
  <2> QED BY <2>10, <2>11, <2>12 DEF JoinInv
<1>5. \/ UNCHANGED <<deq, headers, ts_n_blanks, c_ids>> /\ pc' = "failed"
      \/ /\ pc' = "loop"
         /\ deq' = <<Fake(impl)>> \o SubSeq(deq, 3, Len(deq))
         /\ headers' = DropSecond([headers EXCEPT ![1] = ConcatHeaders])
         /\ ts_n_blanks' = DropSecond([ts_n_blanks EXCEPT ![1] =
              IF MustRecalculate THEN Typify(impl, Len(ConcatTypes.types)) ELSE ConcatTypes])
         /\ c_ids' = IF IsUnion THEN c_ids ELSE DropSecond(c_ids)
  BY DEF Cleanup
<1> QED BY <1>3, <1>4, <1>5

LEMMA JoinInvStep == JoinInv /\ [Next]_vars => JoinInv'
<1> SUFFICES ASSUME JoinInv, [Next]_vars PROVE JoinInv'
  OBVIOUS
<1>1. CASE Fill
  BY <1>1, FillStep
<1>2. CASE CanCompare
  BY <1>2, CanCompareStep
<1>3. CASE Cleanup
  BY <1>3, CleanupStep
<1>4. CASE ~Fill /\ ~CanCompare /\ ~Cleanup
  BY <1>4, RowStep DEF Next
<1> QED BY <1>1, <1>2, <1>3, <1>4

LEMMA JoinInvHolds == Spec => []JoinInv
BY JoinInvInit, JoinInvStep, PTL DEF Spec

\* The deque, the deques that go with it and the slots of the workers keep their
\* types, and every key column is a column of its table, in every state of join().
THEOREM TypeCorrect == Spec => []TypeOK
<1>1. JoinInv => TypeOK
  BY DEF JoinInv
<1> QED BY <1>1, JoinInvHolds, PTL

\* deq, headers, ts_n_blanks and c_ids have the same length at every turn of the
\* loop, however the tables were joined (the assertions of outer_join.h:228-229).
THEOREM LockstepHolds == Spec => []Lockstep
<1>1. JoinInv => Lockstep
  BY DEF JoinInv
<1> QED BY <1>1, JoinInvHolds, PTL

-------------------------------------------------------------------------------
(* The workers.                                                              *)

\* While workers run, nothing a row's result depends on is written.
LEMMA RowResultStable ==
  ASSUME UNCHANGED <<args, keys, c_ids, ts_n_blanks, hash, table>>, NEW k \in DOMAIN table
  PROVE  /\ LeftRow(table[k])' = LeftRow(table[k])
         /\ RightRow(table[k])' = RightRow(table[k])
<1>1. LeftRow(table[k])' = LeftRow(table[k])
  BY DEF LeftRow, Find, Matches, KeysEqual, AsText, NullAware, Value, Glue, PadRight,
         IsOuter
<1>2. RightRow(table[k])' = RightRow(table[k])
  BY DEF RightRow, Find, Matches, KeysEqual, AsText, NullAware, Value, PadLeft
<1> QED BY <1>1, <1>2

\* The two passes of workers: before the step of row i every finished slot holds
\* the row's result and every other slot is empty, and so it is after it.
LEMMA SlotsStep ==
  ASSUME SlotsFollowRows, [Next]_vars
  PROVE  SlotsFollowRows'
<1> USE DEF SlotsFollowRows
<1>1. CASE OpenLeft
  <2>1. pc' \in {"first", "second"} =>
          \E rows : StartWork(rows)
    BY <1>1 DEF OpenLeft
  <2> QED BY <2>1 DEF StartWork
<1>2. CASE HashLeft
  <2>1. pc' \in {"first", "second"} =>
          \E rows : StartWork(rows)
    BY <1>2 DEF HashLeft
  <2> QED BY <2>1 DEF StartWork
<1>3. ASSUME NEW i \in todo, WorkFirst(i)
      PROVE  SlotsFollowRows'
  <2> SUFFICES ASSUME pc' # "terminated" PROVE SlotsFollowRows'
    OBVIOUS
  <2>1. /\ pc = "first" /\ pc' = "first" /\ UNCHANGED <<args, keys, c_ids, ts_n_blanks, hash, table>>
        /\ Store(i, LeftRow(table[i]))
    BY <1>3 DEF WorkFirst, Work, Untouched, Tables
  <2>2. \A k \in DOMAIN table : LeftRow(table[k])' = LeftRow(table[k])
    BY <2>1, RowResultStable
  <2> QED BY <2>1, <2>2 DEF Store, RowResult
<1>4. ASSUME NEW i \in todo, WorkSecond(i)
      PROVE  SlotsFollowRows'
  <2> SUFFICES ASSUME pc' # "terminated" PROVE SlotsFollowRows'
    OBVIOUS
  <2>1. /\ pc = "second" /\ pc' = "second" /\ UNCHANGED <<args, keys, c_ids, ts_n_blanks, hash, table>>
        /\ Store(i, RightRow(table[i]))
    BY <1>4 DEF WorkSecond, Work, Untouched, Tables
  <2>2. \A k \in DOMAIN table : RightRow(table[k])' = RightRow(table[k])
    BY <2>1, RowResultStable
  <2> QED BY <2>1, <2>2 DEF Store, RowResult
<1>5. CASE \/ Fill \/ FillRejected \/ CanCompare \/ HashRight \/ MergeFirst \/ NoBody
           \/ MergeSecond \/ NoBodySecond \/ Disjoint \/ Union \/ UnionOfEmpty
           \/ Cleanup \/ PrintResults \/ Finished
  <2>1. pc' \notin {"first", "second"}
    BY <1>5 DEF Fill, FillRejected, CanCompare, HashRight, MergeFirst, NoBody, MergeSecond,
                NoBodySecond, Disjoint, Union, UnionOfEmpty, Cleanup, PrintResults,
                Finished, Final, vars
  <2> QED BY <2>1
<1>6. CASE UNCHANGED vars
  <2>1. UNCHANGED <<pc, args, keys, c_ids, ts_n_blanks, hash, table, join_vec, todo>>
    BY <1>6 DEF vars
  <2>2. \A k \in DOMAIN table : RowResult(table[k])' = RowResult(table[k])
    BY <2>1, RowResultStable DEF RowResult
  <2> QED BY <2>1, <2>2
<1> QED BY <1>1, <1>2, <1>3, <1>4, <1>5, <1>6 DEF Next

\* Whatever the order of the workers, a finished slot holds what a sequential loop
\* would put there (the for_each loops of inner_join.h, left_right_join.h and
\* outer_join.h).
THEOREM SlotsHold == Spec => []SlotsFollowRows
<1>1. Init => SlotsFollowRows
  BY DEF Init, SlotsFollowRows
<1> QED BY <1>1, SlotsStep, PTL DEF Spec

\* The rows a pass adds to the result are those of a sequential loop, in the order
\* of the table, although the workers finish in any order.
THEOREM MergesHold == Spec => MergeIsSequential
<1> DEFINE Merging == impl' # impl /\ pc \in {"first", "second"} => impl' = impl \o Sequential
<1>1. ASSUME SlotsFollowRows, [Next]_vars PROVE Merging
  <2>1. CASE MergeFirst \/ MergeSecond
    BY <1>1, <2>1 DEF SlotsFollowRows, MergeFirst, MergeSecond, Merged, Sequential
  <2>2. CASE (\E i \in todo : WorkFirst(i)) \/ (\E i \in todo : WorkSecond(i))
    BY <2>2 DEF WorkFirst, WorkSecond, Work
  <2>3. CASE UNCHANGED vars
    BY <2>3 DEF vars
  <2>4. CASE \/ Fill \/ FillRejected \/ CanCompare \/ HashRight \/ OpenLeft \/ NoBody
             \/ HashLeft \/ NoBodySecond \/ Disjoint \/ Union \/ UnionOfEmpty
             \/ Cleanup \/ PrintResults \/ Finished
    BY <2>4 DEF Fill, FillRejected, CanCompare, HashRight, OpenLeft, NoBody, HashLeft,
                NoBodySecond, Disjoint, Union, UnionOfEmpty, Cleanup, PrintResults,
                Finished, Final
  <2> QED BY <1>1, <2>1, <2>2, <2>3, <2>4 DEF Next
<1> QED BY <1>1, SlotsHold, PTL DEF Spec, MergeIsSequential

-------------------------------------------------------------------------------
(* Every row of every file is followed from the turn of the loop that joins  *)
(* it to the printed table.                                                  *)

-------------------------------------------------------------------------------
(* Rows and tables of rows.                                                  *)

\* A table of rows, each a sequence of cells.
RowsOK(rows) == IsSeq(rows) /\ \A i \in DOMAIN rows : IsSeq(rows[i])

\* A row has all the cells of r; some row of a table has.
Has(row, r) == \A c \in DOMAIN r : \E d \in DOMAIN row : row[d] = r[c]
Covered(r, rows) == \E i \in DOMAIN rows : Has(rows[i], r)
CoversAll(rows, others) == \A i \in DOMAIN others : Covered(others[i], rows)

\* No cell of a row, or of a table, is padding.
Full(row) == \A c \in DOMAIN row : row[c] # Pad
NoPad(rows) == \A i \in DOMAIN rows : Full(rows[i])

KeysOK == \A f \in File : Len(keys[f]) \in Nat

LEMMA ConcatHas ==
  ASSUME NEW l, IsSeq(l), NEW r, IsSeq(r)
  PROVE  /\ IsSeq(l \o r) /\ Has(l \o r, l) /\ Has(l \o r, r)
         /\ Full(l) /\ Full(r) => Full(l \o r)
<1> PICK s : s = l \o r
  OBVIOUS
<1>1. /\ Len(l) \in Nat /\ DOMAIN l = 1..Len(l)
      /\ Len(r) \in Nat /\ DOMAIN r = 1..Len(r)
  BY IsSeqFacts
<1>2. /\ IsSeq(s) /\ Len(s) = Len(l) + Len(r)
      /\ \A i \in 1..Len(l) : s[i] = l[i]
      /\ \A i \in 1..Len(r) : s[Len(l) + i] = r[i]
  BY IsSeqConcat
<1>3. DOMAIN s = 1..(Len(l) + Len(r))
  BY <1>2, IsSeqFacts
<1>4. Has(s, l)
  <2>1. \A c \in DOMAIN l : c \in DOMAIN s
    BY <1>1, <1>3
  <2> QED BY <1>1, <1>2, <2>1 DEF Has
<1>5. Has(s, r)
  <2>1. \A c \in DOMAIN r : Len(l) + c \in DOMAIN s
    BY <1>1, <1>3
  <2> QED BY <1>1, <1>2, <2>1 DEF Has
<1>6. ASSUME Full(l), Full(r) PROVE Full(s)
  <2> SUFFICES ASSUME NEW c \in DOMAIN s PROVE s[c] # Pad
    BY DEF Full
  <2>1. CASE c <= Len(l)
    <3>1. c \in DOMAIN l /\ s[c] = l[c]
      BY <1>1, <1>2, <1>3, <2>1
    <3> QED BY <1>6, <3>1 DEF Full
  <2>2. CASE ~(c <= Len(l))
    <3>1. c - Len(l) \in 1..Len(r) /\ Len(l) + (c - Len(l)) = c
      BY <1>1, <1>3, <2>2
    <3>2. c - Len(l) \in DOMAIN r /\ s[c] = r[c - Len(l)]
      BY <1>1, <1>2, <3>1
    <3> QED BY <1>6, <3>2 DEF Full
  <2> QED BY <2>1, <2>2
<1> QED BY <1>2, <1>4, <1>5, <1>6

LEMMA RemoveAtRow ==
  ASSUME NEW r, IsSeq(r), NEW i \in DOMAIN r
  PROVE  /\ IsSeq(RemoveAt(r, i)) /\ Len(RemoveAt(r, i)) = Len(r) - 1
         /\ \A c \in DOMAIN RemoveAt(r, i) : \E d \in DOMAIN r : RemoveAt(r, i)[c] = r[d]
<1> DEFINE S == {r[c] : c \in DOMAIN r}
<1> PICK s : s = RemoveAt(r, i)
  OBVIOUS
<1>1. r \in Seq(S)
  BY DEF IsSeq
<1> HIDE DEF S
<1>2. s \in Seq(S) /\ Len(s) = Len(r) - 1
  BY <1>1, RemoveAtFacts
<1>3. IsSeq(s) /\ \A c \in DOMAIN s : s[c] \in S
  BY <1>2, SeqIsSeq
<1> QED BY <1>2, <1>3 DEF S

LEMMA PaddingRow ==
  ASSUME NEW n \in Nat
  PROVE  IsSeq(Padding(n)) /\ Len(Padding(n)) = n
BY IsSeqFunction DEF Padding

LEMMA ListOfOne ==
  ASSUME NEW row, IsSeq(row)
  PROVE  RowsOK(<<row>>) /\ <<row>>[1] = row /\ DOMAIN <<row>> = {1}
<1>1. IsSeq(<<row>>)
  <2> PICK S : S = {row}
    OBVIOUS
  <2>1. <<row>> \in Seq(S)
    OBVIOUS
  <2> QED BY <2>1, SeqIsSeq
<1> QED BY <1>1 DEF RowsOK

LEMMA EmptyRows ==
  RowsOK(<<>>) /\ NoPad(<<>>)
BY IsSeqEmpty DEF RowsOK, NoPad

\* Rows picked by their indices.
LEMMA RowsAtFacts ==
  ASSUME NEW rows, RowsOK(rows), NEW I
  PROVE  /\ RowsOK(RowsAt(rows, I))
         /\ \A i \in DOMAIN rows \cap I : \E k \in DOMAIN RowsAt(rows, I) : RowsAt(rows, I)[k] = rows[i]
         /\ \A k \in DOMAIN RowsAt(rows, I) : \E i \in DOMAIN rows \cap I : RowsAt(rows, I)[k] = rows[i]
<1> DEFINE chosen == [i \in DOMAIN rows |-> IF i \in I THEN <<rows[i]>> ELSE <<>>]
<1> PICK s : s = RowsAt(rows, I)
  OBVIOUS
<1>1. Len(rows) \in Nat /\ DOMAIN rows = 1..Len(rows)
  BY IsSeqFacts DEF RowsOK
<1>2. s = FlattenSeq(chosen)
  BY DEF RowsAt
<1>3. IsSeq(chosen) /\ Len(chosen) = Len(rows)
  <2>1. chosen = [i \in 1..Len(rows) |-> chosen[i]]
    BY <1>1
  <2> HIDE DEF chosen
  <2> QED BY <1>1, <2>1, IsSeqFunction
<1>4. \A i \in DOMAIN rows : /\ IsSeq(chosen[i])
                             /\ i \in I => chosen[i][1] = rows[i] /\ DOMAIN chosen[i] = {1}
                             /\ i \notin I => DOMAIN chosen[i] = {}
  <2> TAKE i \in DOMAIN rows
  <2>1. IsSeq(rows[i])
    BY DEF RowsOK
  <2>2. CASE i \in I
    <3>1. chosen[i] = <<rows[i]>>
      BY <2>2
    <3> HIDE DEF chosen
    <3>2. IsSeq(<<rows[i]>>) /\ <<rows[i]>>[1] = rows[i] /\ DOMAIN <<rows[i]>> = {1}
      BY <2>1, ListOfOne DEF RowsOK
    <3> QED BY <2>2, <3>1, <3>2
  <2>3. CASE i \notin I
    <3>1. chosen[i] = <<>>
      BY <2>3
    <3> HIDE DEF chosen
    <3> QED BY <2>3, <3>1, IsSeqEmpty
  <2> QED BY <2>2, <2>3
<1>5. DOMAIN chosen = DOMAIN rows
  OBVIOUS
<1> HIDE DEF chosen
<1>6. Gathered(s, chosen, Len(rows))
  BY <1>2, <1>3, <1>4, <1>5, FlattenFacts
<1>7. \A i \in DOMAIN rows \cap I : \E k \in DOMAIN s : s[k] = rows[i]
  BY <1>1, <1>4, <1>6 DEF Gathered
<1>8. \A k \in DOMAIN s : \E i \in DOMAIN rows \cap I : s[k] = rows[i]
  <2> TAKE k \in DOMAIN s
  <2>1. PICK i \in 1..Len(rows) : \E m \in DOMAIN chosen[i] : s[k] = chosen[i][m]
    BY <1>6 DEF Gathered
  <2>2. i \in DOMAIN rows
    BY <1>1
  <2> QED BY <1>4, <2>1, <2>2
<1>9. RowsOK(s)
  <2>1. \A k \in DOMAIN s : IsSeq(s[k])
    BY <1>8 DEF RowsOK
  <2> QED BY <1>6, <2>1 DEF RowsOK, Gathered
<1> QED BY <1>7, <1>8, <1>9

\* What the slots of the workers add to the result.
LEMMA MergedRows ==
  ASSUME NEW slots, IsSeq(slots), \A i \in DOMAIN slots : RowsOK(slots[i])
  PROVE  /\ RowsOK(FlattenSeq(slots))
         /\ \A i \in DOMAIN slots : CoversAll(FlattenSeq(slots), slots[i])
         /\ \A i \in DOMAIN slots : \A r : Covered(r, slots[i]) => Covered(r, FlattenSeq(slots))
         /\ (\A i \in DOMAIN slots : NoPad(slots[i])) => NoPad(FlattenSeq(slots))
<1> PICK s : s = FlattenSeq(slots)
  OBVIOUS
<1>1. Len(slots) \in Nat /\ DOMAIN slots = 1..Len(slots)
  BY IsSeqFacts
<1>2. Gathered(s, slots, Len(slots))
  BY FlattenFacts DEF RowsOK
<1>3. \A m \in DOMAIN s : \E i \in DOMAIN slots : \E k \in DOMAIN slots[i] : s[m] = slots[i][k]
  BY <1>1, <1>2 DEF Gathered
<1>4. RowsOK(s)
  BY <1>2, <1>3 DEF RowsOK, Gathered
<1>5. \A i \in DOMAIN slots : \A r : Covered(r, slots[i]) => Covered(r, s)
  <2>1. \A i \in DOMAIN slots : \A k \in DOMAIN slots[i] : \E m \in DOMAIN s : s[m] = slots[i][k]
    BY <1>1, <1>2 DEF Gathered
  <2> QED BY <2>1 DEF Covered
<1>6. \A i \in DOMAIN slots : CoversAll(s, slots[i])
  <2>1. \A i \in DOMAIN slots : \A k \in DOMAIN slots[i] : Covered(slots[i][k], slots[i])
    BY DEF Covered, Has
  <2> QED BY <1>5, <2>1 DEF CoversAll
<1>7. (\A i \in DOMAIN slots : NoPad(slots[i])) => NoPad(s)
  BY <1>3 DEF NoPad
<1> QED BY <1>4, <1>5, <1>6, <1>7

\* Rows after rows.
LEMMA ConcatRows ==
  ASSUME NEW s, RowsOK(s), NEW t, RowsOK(t)
  PROVE  /\ RowsOK(s \o t) /\ (NoPad(s) /\ NoPad(t) => NoPad(s \o t))
         /\ \A r : Covered(r, s) \/ Covered(r, t) => Covered(r, s \o t)
<1> PICK u : u = s \o t
  OBVIOUS
<1>1. /\ Len(s) \in Nat /\ DOMAIN s = 1..Len(s)
      /\ Len(t) \in Nat /\ DOMAIN t = 1..Len(t)
  BY IsSeqFacts DEF RowsOK
<1>2. /\ IsSeq(u) /\ Len(u) = Len(s) + Len(t)
      /\ \A i \in 1..Len(s) : u[i] = s[i]
      /\ \A i \in 1..Len(t) : u[Len(s) + i] = t[i]
  BY IsSeqConcat DEF RowsOK
<1>3. DOMAIN u = 1..(Len(s) + Len(t))
  BY <1>2, IsSeqFacts
<1>4. \A i \in DOMAIN u : (\E k \in DOMAIN s : u[i] = s[k]) \/ (\E k \in DOMAIN t : u[i] = t[k])
  <2> TAKE i \in DOMAIN u
  <2>1. CASE i <= Len(s)
    <3>1. i \in DOMAIN s
      BY <1>1, <1>3, <2>1
    <3> QED BY <1>1, <1>2, <3>1
  <2>2. CASE ~(i <= Len(s))
    <3>1. i - Len(s) \in 1..Len(t) /\ Len(s) + (i - Len(s)) = i
      BY <1>1, <1>3, <2>2
    <3> QED BY <1>1, <1>2, <3>1
  <2> QED BY <2>1, <2>2
<1>5. RowsOK(u)
  BY <1>2, <1>4 DEF RowsOK
<1>6. NoPad(s) /\ NoPad(t) => NoPad(u)
  BY <1>4 DEF NoPad
<1>7. (\A i \in DOMAIN s : i \in DOMAIN u) /\ (\A i \in DOMAIN t : Len(s) + i \in DOMAIN u)
  BY <1>1, <1>3
<1>8. \A r : Covered(r, s) \/ Covered(r, t) => Covered(r, u)
  BY <1>1, <1>2, <1>7 DEF Covered
<1> QED BY <1>5, <1>6, <1>8

\* A file whose rows are all covered appears.
LEMMA CoverAppears ==
  ASSUME NEW f, NEW rows, NEW others, Appears(f, others), CoversAll(rows, others)
  PROVE  Appears(f, rows)
BY DEF Appears, CoversAll, Covered, Has

-------------------------------------------------------------------------------
(* The rows of a file.                                                       *)

LEMMA BodyFacts == Body \in Nat /\ SkipLines \in Nat /\ Header \in 0..Body /\ 0 \in 0..Body
BY TablesAssumption DEF Body

LEMMA WidthFacts ==
  ASSUME NEW f \in File
  PROVE  Width(f) \in Nat \ {0} /\ f \in Nat \ {0}
<1>1. /\ Len(Names) \in Nat /\ DOMAIN Names = 1..Len(Names)
      /\ Names[f] \in Seq(Seq(STRING)) /\ Names[f] # <<>>
  <2>1. Names \in Seq(Seq(Seq(STRING)))
    BY TablesAssumption
  <2>2. Len(Names) \in Nat /\ DOMAIN Names = 1..Len(Names)
    BY <2>1, LenProperties
  <2>3. Names[f] \in Seq(Seq(STRING))
    BY <2>1, <2>2, ElementOfSeq DEF File
  <2> QED BY <2>2, <2>3, TablesAssumption
<1>2. Len(Names[f]) \in Nat /\ Len(Names[f]) # 0
  BY <1>1, LenProperties, EmptySeq
<1> QED BY <1>1, <1>2 DEF Width, File

LEMMA LineFacts ==
  ASSUME NEW f \in File, NEW l
  PROVE  /\ IsSeq(Line(f, l)) /\ Full(Line(f, l)) /\ Len(Line(f, l)) = Width(f)
         /\ 1 \in DOMAIN Line(f, l) /\ Line(f, l)[1][1] = f /\ Line(f, l)[1][2] = l
<1> PICK r : r = Line(f, l)
  OBVIOUS
<1>1. Width(f) \in Nat /\ 1 \in 1..Width(f) /\ f # 0
  BY WidthFacts
<1>2. r = [c \in 1..Width(f) |-> <<f, l, c>>]
  BY DEF Line
<1>3. IsSeq(r) /\ Len(r) = Width(f)
  <2>1. r = [c \in 1..Width(f) |-> r[c]]
    BY <1>2
  <2> QED BY <1>1, <2>1, IsSeqFunction
<1>4. Full(r)
  BY <1>1, <1>2 DEF Full, Pad
<1> QED BY <1>1, <1>2, <1>3, <1>4

\* What a reader still has, left on one of the lines a reader is ever left on.
LEMMA ReaderRows ==
  ASSUME KeysOK, NEW f \in File, NEW p \in 0..Body, NEW src,
         src.kind = "reader", src.file = f, src.pos = p
  PROVE  /\ RowsOK(RunRows(src)) /\ NoPad(RunRows(src))
         /\ \A i \in DOMAIN RunRows(src) :
              IsSeq(RunRows(src)[i]) /\ Len(RunRows(src)[i]) = Width(f)
         /\ Appears(f, RunRows(src))
         /\ CoversAll(RunRows(src), BodyRows(f))
<1> DEFINE n == NLines(f) - p
           b == Len(keys[f])
<1>1. /\ p \in Nat /\ b \in Nat /\ n \in Nat /\ n = (Body - p) + b /\ Body - p \in Nat
      /\ Body \in Nat
  BY BodyFacts DEF NLines, KeysOK
<1> PICK rows : rows = RunRows(src)
  OBVIOUS
<1>2. rows = [i \in 1..n |-> Line(f, p + i)]
  BY DEF RunRows
<1> PICK body : body = BodyRows(f)
  OBVIOUS
<1>3. body = [i \in 1..b |-> Line(f, Body + i)]
  <2>1. NLines(f) - Body = b
    BY <1>1 DEF NLines
  <2> QED BY <2>1 DEF BodyRows, RunRows, Reader
<1>4. NLines(f) = p + n /\ NLines(f) = Body + b
  BY <1>1 DEF NLines
<1> HIDE DEF n, b
<1>5. IsSeq(rows) /\ DOMAIN rows = 1..n
  <2>1. rows = [i \in 1..n |-> rows[i]]
    BY <1>2
  <2> QED BY <1>1, <1>2, <2>1, IsSeqFunction
<1>6. \A i \in 1..n : rows[i] = Line(f, p + i)
  BY <1>2
<1>7. \A i \in DOMAIN rows : IsSeq(rows[i]) /\ Full(rows[i]) /\ Len(rows[i]) = Width(f)
  BY <1>5, <1>6, LineFacts
<1>8. Appears(f, rows)
  <2> SUFFICES ASSUME NEW l \in (Body + 1)..NLines(f)
               PROVE  \E i \in DOMAIN rows : \E c \in DOMAIN rows[i] :
                        rows[i][c][1] = f /\ rows[i][c][2] = l
    BY DEF Appears
  <2>1. l - p \in 1..n /\ p + (l - p) = l
    BY <1>1, <1>4
  <2>2. rows[l - p] = Line(f, l)
    BY <1>6, <2>1
  <2> QED BY <1>5, <2>1, <2>2, LineFacts
<1>9. CoversAll(rows, body)
  <2> SUFFICES ASSUME NEW i \in DOMAIN body PROVE Covered(body[i], rows)
    BY DEF CoversAll
  <2>1. i \in 1..b /\ body[i] = Line(f, Body + i)
    BY <1>3
  <2>2. (Body - p) + i \in 1..n /\ p + ((Body - p) + i) = Body + i
    BY <1>1, <1>4, <2>1
  <2>3. rows[(Body - p) + i] = body[i] /\ (Body - p) + i \in DOMAIN rows
    BY <1>5, <1>6, <2>1, <2>2
  <2> QED BY <2>3 DEF Covered, Has
<1> QED BY <1>5, <1>7, <1>8, <1>9 DEF RowsOK, NoPad

LEMMA BodyRowsFacts ==
  ASSUME KeysOK, NEW f \in File
  PROVE  /\ RowsOK(BodyRows(f)) /\ NoPad(BodyRows(f)) /\ Appears(f, BodyRows(f))
         /\ \A i \in DOMAIN BodyRows(f) : Len(BodyRows(f)[i]) = Width(f)
         /\ keys[f] = <<>> => BodyRows(f) = <<>>
<1> PICK src : src = Reader(f, Body)
  OBVIOUS
<1>1. /\ src.kind = "reader" /\ src.file = f /\ src.pos = Body /\ Body \in 0..Body
      /\ BodyRows(f) = RunRows(src)
  BY BodyFacts DEF Reader, BodyRows
<1>2. /\ RowsOK(BodyRows(f)) /\ NoPad(BodyRows(f)) /\ Appears(f, BodyRows(f))
      /\ \A i \in DOMAIN BodyRows(f) : Len(BodyRows(f)[i]) = Width(f)
  BY <1>1, ReaderRows
<1>3. ASSUME keys[f] = <<>> PROVE BodyRows(f) = <<>>
  <2>1. NLines(f) - Body = 0
    BY <1>3, BodyFacts, IsSeqEmpty DEF NLines
  <2>2. BodyRows(f) = [i \in 1..0 |-> Line(f, Body + i)]
    BY <2>1 DEF BodyRows, RunRows, Reader
  <2> QED BY <2>2
<1> QED BY <1>2, <1>3

-------------------------------------------------------------------------------
(* The invariant.                                                            *)

\* The files, by their place in the order of joining, of the first k joined of
\* which no row may be lost.
Due(k) == {j \in 1..k : \/ IsOuter \/ IsUnion
                        \/ args.kind \in {"left", "right"} /\ j = 1}
Inner == args.kind = "inner" /\ ~IsUnion
Kept(rows, k) ==
  /\ RowsOK(rows)
  /\ \A j \in Due(k) : Appears(Nth(j), rows)
  /\ Inner => NoPad(rows)

\* The two tables being joined, from their first data rows, and which of their rows
\* have the same key.
LeftRows == IF deq[1].kind = "fake" THEN deq[1].rows ELSE BodyRows(deq[1].file)
RightRows == BodyRows(deq[2].file)
SameKey(l, r) == KeysEqual(NewHash(<<>>, 2), Value(r[c_ids[2]]), Value(l[c_ids[1]]))

Chosen == args \in DOMAIN Inputs /\ keys \in Inputs[args]

\* Each reader is the one of its place, on one of the lines a reader is ever left
\* on, and goes with its file's header; a reader_fake has kept what is due.
SourcesOK ==
  /\ \A i \in DOMAIN deq : deq[i].kind = "reader" =>
       deq[i].file = Nth(Joined + i - 1) /\ deq[i].pos \in 0..Body
  /\ Joined \in 1..N /\ (deq[1].kind = "reader" => Joined = 1)
  /\ deq[1].kind = "fake" => Kept(deq[1].rows, Joined)
TablesFit ==
  \A i \in DOMAIN headers : deq[i].kind = "reader" =>
    headers[i] = Names[deq[i].file] /\ Len(ts_n_blanks[i].types) = Width(deq[i].file)

\* What is known while two tables are joined by their keys.
KeyedPcs == {"hash_right", "open_left", "first", "no_body", "hash_left", "second",
             "no_body_2"}
Keyed ==
  /\ pc \in KeyedPcs \cup {"disjoint"} => ~IsUnion
  /\ pc \in KeyedPcs => SameTypes
  /\ pc \in {"hash_right", "open_left", "first", "no_body"} => impl = <<>>
  /\ pc \in {"hash_left", "second", "no_body_2"} => IsOuter
  /\ pc = "no_body" => LeftRows = <<>> \/ RightRows = <<>>
Opened ==
  /\ pc \in {"open_left", "first"} => hash = NewHash(RightRows, 2)
  /\ pc = "first" => table = LeftRows
  /\ pc = "second" => hash = NewHash(LeftRows, 1) /\ table = RightRows

\* The first pass puts every left row into the result, and every right row that has
\* the key of a left row.
PassedOnce(rows) ==
  /\ RowsOK(rows)
  /\ CoversAll(rows, LeftRows)
  /\ \A j \in DOMAIN RightRows : \A i \in DOMAIN LeftRows :
       SameKey(LeftRows[i], RightRows[j]) => Covered(RightRows[j], rows)
FirstPassDone == pc \in {"hash_left", "second", "no_body_2"} => PassedOnce(impl)
JoinDone == pc = "cleanup" => Kept(impl, Joined + 1)
Printed == pc = "done" => Len(deq) = 1

RowInv ==
  /\ Chosen /\ SourcesOK /\ TablesFit /\ Keyed /\ Opened /\ FirstPassDone /\ JoinDone /\ Printed

\* What every lemma about a join in progress starts from.
LEMMA InProgress ==
  ASSUME JoinInv, RowInv, pc \in JoiningPcs \/ (pc = "loop" /\ Len(deq) > 1)
  PROVE  /\ KeysOK /\ 1 \in DOMAIN deq /\ 2 \in DOMAIN deq /\ Joined \in Nat /\ Joined + 1 \in 1..N
         /\ Joined \in 1..N
         /\ deq[2].kind = "reader" /\ deq[2].file = Nth(Joined + 1) /\ deq[2].file \in File
         /\ deq[2].pos \in 0..Body
         /\ RowsOK(RightRows) /\ NoPad(RightRows) /\ Appears(Nth(Joined + 1), RightRows)
         /\ \A j \in DOMAIN RightRows : Len(RightRows[j]) = Len(ts_n_blanks[2].types)
         /\ ~IsUnion => c_ids[2] \in 1..Len(ts_n_blanks[2].types)
         /\ ~IsUnion => c_ids[1] \in 1..Len(ts_n_blanks[1].types)
         /\ Len(ts_n_blanks[1].types) \in Nat /\ Len(ts_n_blanks[2].types) \in Nat
         /\ Kept(LeftRows, Joined)
         /\ RowsOK(RunRows(deq[1])) /\ CoversAll(RunRows(deq[1]), LeftRows)
         /\ RowsOK(RunRows(deq[2])) /\ CoversAll(RunRows(deq[2]), RightRows)
<1>1. KeysOK
  <2>1. \A f \in File : keys[f] \in Seq(KeyValue)
    BY InputsAssumption DEF RowInv, Chosen
  <2> QED BY <2>1, LenProperties DEF KeysOK
<1>2. /\ Len(deq) \in Nat /\ DOMAIN deq = 1..Len(deq) /\ Len(deq) > 1
      /\ Len(headers) = Len(deq) /\ DOMAIN headers = 1..Len(deq)
      /\ DOMAIN ts_n_blanks = 1..Len(deq)
      /\ ~IsUnion => DOMAIN c_ids = 1..Len(deq)
  <2>1. Len(deq) > 1
    BY DEF JoinInv, Phases
  <2>2. Len(headers) = Len(deq)
    BY DEF JoinInv, Lockstep, Filled, JoiningPcs
  <2> QED BY <2>1, <2>2, Sizes
<1> DEFINE d1 == deq[1]
           d2 == deq[2]
<1>3. 1 \in DOMAIN deq /\ 2 \in DOMAIN deq
  BY <1>2
<1>4. /\ d2.kind = "reader" /\ d2.file \in File /\ d1.kind \in {"reader", "fake"}
      /\ d1.kind = "reader" => d1.file \in File
  BY <1>3 DEF JoinInv, TypeOK, DeqOK
<1>5. /\ d2.file = Nth(Joined + 1) /\ d2.pos \in 0..Body
      /\ d1.kind = "reader" => d1.file = Nth(Joined) /\ d1.pos \in 0..Body /\ Joined = 1
      /\ d1.kind = "fake" => Kept(d1.rows, Joined)
  <2>1. Joined + 2 - 1 = Joined + 1 /\ Joined + 1 - 1 = Joined
    <3>1. Joined \in Int
      BY <1>2, SourcesFacts DEF Joined
    <3> QED BY <3>1
  <2> QED BY <1>3, <1>4, <2>1 DEF RowInv, SourcesOK
<1>6. Joined \in 1..N /\ Joined + 1 \in 1..N
  <2>1. N \in Nat /\ Joined \in 1..N /\ Joined = N - Len(deq) + 1
    BY SourcesFacts DEF RowInv, SourcesOK, Joined
  <2> QED BY <1>2, <2>1
<1>7. /\ RowsOK(RightRows) /\ NoPad(RightRows) /\ Appears(Nth(Joined + 1), RightRows)
      /\ \A j \in DOMAIN RightRows : Len(RightRows[j]) = Width(d2.file)
  BY <1>1, <1>4, <1>5, BodyRowsFacts DEF RightRows
<1>8. Len(ts_n_blanks[2].types) = Width(d2.file)
  BY <1>2, <1>3, <1>4 DEF RowInv, TablesFit
<1>9. /\ ~IsUnion => c_ids[2] \in 1..Len(ts_n_blanks[2].types)
      /\ ~IsUnion => c_ids[1] \in 1..Len(ts_n_blanks[1].types)
      /\ Len(ts_n_blanks[1].types) \in Nat /\ Len(ts_n_blanks[2].types) \in Nat
  <2>1. ts_n_blanks[1] \in TableTypes /\ ts_n_blanks[2] \in TableTypes
    BY <1>2, ElementOfSeq, Sizes DEF JoinInv, TypeOK, TablesOK
  <2>2. Len(ts_n_blanks[1].types) \in Nat /\ Len(ts_n_blanks[2].types) \in Nat
    BY <2>1, LenProperties DEF TableTypes
  <2> QED BY <1>2, <2>2 DEF JoinInv, TypeOK, TablesOK
<1>10. RowsOK(RunRows(d2)) /\ CoversAll(RunRows(d2), RightRows)
  BY <1>1, <1>4, <1>5, ReaderRows DEF RightRows
<1>11. CASE d1.kind = "reader"
  <2>1. LeftRows = BodyRows(d1.file)
    BY <1>11 DEF LeftRows
  <2>2. RowsOK(RunRows(d1)) /\ CoversAll(RunRows(d1), LeftRows)
    BY <1>1, <1>4, <1>5, <1>11, <2>1, ReaderRows
  <2>3. Kept(LeftRows, Joined)
    <3>1. RowsOK(LeftRows) /\ NoPad(LeftRows) /\ Appears(Nth(1), LeftRows)
      BY <1>1, <1>4, <1>5, <1>11, <2>1, BodyRowsFacts
    <3>2. \A j \in Due(Joined) : j = 1
      BY <1>5, <1>11 DEF Due
    <3> QED BY <3>1, <3>2 DEF Kept
  <2> QED BY <1>1, <1>3, <1>4, <1>5, <1>6, <1>7, <1>8, <1>9, <1>10, <2>2, <2>3
<1>12. CASE d1.kind = "fake"
  <2>1. LeftRows = d1.rows /\ RunRows(d1) = LeftRows
    BY <1>12 DEF LeftRows, RunRows
  <2>2. Kept(LeftRows, Joined) /\ RowsOK(LeftRows)
    BY <1>5, <1>12, <2>1 DEF Kept
  <2>3. CoversAll(LeftRows, LeftRows)
    BY DEF CoversAll, Covered, Has
  <2> QED BY <1>1, <1>3, <1>4, <1>5, <1>6, <1>7, <1>8, <1>9, <1>10, <2>1, <2>2, <2>3
<1> QED BY <1>4, <1>11, <1>12

-------------------------------------------------------------------------------
(* What a row contributes.                                                   *)

LEMMA FindFacts ==
  ASSUME RowsOK(hash.rows), NEW cell
  PROVE  LET found == Find(hash, cell)
             equal(j) == KeysEqual(hash, Value(hash.rows[j][hash.col]), Value(cell))
         IN /\ RowsOK(found)
            /\ NoPad(hash.rows) => NoPad(found)
            /\ \A j \in DOMAIN hash.rows :
                 equal(j) => \E k \in DOMAIN found : found[k] = hash.rows[j]
            /\ \A k \in DOMAIN found :
                 \E j \in DOMAIN hash.rows : equal(j) /\ found[k] = hash.rows[j]
<1> DEFINE I == Matches(hash, cell)
<1> PICK found : found = RowsAt(hash.rows, I)
  OBVIOUS
<1>1. \A j \in DOMAIN hash.rows :
        j \in I <=> KeysEqual(hash, Value(hash.rows[j][hash.col]), Value(cell))
  BY DEF Matches
<1> HIDE DEF I
<1>2. /\ RowsOK(found)
      /\ \A j \in DOMAIN hash.rows \cap I : \E k \in DOMAIN found : found[k] = hash.rows[j]
      /\ \A k \in DOMAIN found : \E j \in DOMAIN hash.rows \cap I : found[k] = hash.rows[j]
  BY RowsAtFacts
<1>3. NoPad(hash.rows) => NoPad(found)
  BY <1>2 DEF NoPad
<1>4. found = Find(hash, cell)
  BY DEF Find, I
<1> QED BY <1>1, <1>2, <1>3, <1>4

\* The rows of a comparison do not matter to it, and when the key columns have one
\* type neither does the side it is made from.
LEMMA OneComparison ==
  ASSUME NEW rows, NEW u, NEW v
  PROVE  /\ KeysEqual(NewHash(rows, 2), u, v) <=> KeysEqual(NewHash(<<>>, 2), u, v)
         /\ SameTypes => (KeysEqual(NewHash(rows, 1), v, u) => KeysEqual(NewHash(<<>>, 2), u, v))
<1>1. KeysEqual(NewHash(rows, 2), u, v) <=> KeysEqual(NewHash(<<>>, 2), u, v)
  BY DEF KeysEqual, NewHash, NullAware, AsText
<1>2. ASSUME SameTypes, KeysEqual(NewHash(rows, 1), v, u)
      PROVE  KeysEqual(NewHash(<<>>, 2), u, v)
  BY <1>2 DEF SameTypes, KeysEqual, NewHash, NullAware, AsText
<1> QED BY <1>1, <1>2

LEMMA GlueFacts ==
  ASSUME NEW l, IsSeq(l), NEW r, IsSeq(r), IsOuter \/ c_ids[2] \in DOMAIN r
  PROVE  /\ IsSeq(Glue(l, r)) /\ Has(Glue(l, r), l)
         /\ IsOuter => Has(Glue(l, r), r)
         /\ Full(l) /\ Full(r) => Full(Glue(l, r))
<1>1. CASE IsOuter
  <2>1. Glue(l, r) = l \o r
    BY <1>1 DEF Glue
  <2> QED BY <1>1, <2>1, ConcatHas
<1>2. CASE ~IsOuter
  <2> PICK s : s = RemoveAt(r, c_ids[2])
    OBVIOUS
  <2>1. Glue(l, r) = l \o s
    BY <1>2 DEF Glue
  <2>2. IsSeq(s) /\ \A c \in DOMAIN s : \E d \in DOMAIN r : s[c] = r[d]
    BY <1>2, RemoveAtRow
  <2>3. Full(r) => Full(s)
    BY <2>2 DEF Full
  <2> QED BY <1>2, <2>1, <2>2, <2>3, ConcatHas
<1> QED BY <1>1, <1>2

LEMMA PadRightFacts ==
  ASSUME Len(ts_n_blanks[2].types) \in Nat,
         IsOuter \/ Len(ts_n_blanks[2].types) # 0, NEW l, IsSeq(l)
  PROVE  IsSeq(PadRight(l)) /\ Has(PadRight(l), l)
<1> DEFINE n == Len(ts_n_blanks[2].types) - (IF IsOuter THEN 0 ELSE 1)
<1>1. n \in Nat
  OBVIOUS
<1>2. PadRight(l) = l \o Padding(n)
  BY DEF PadRight
<1> HIDE DEF n
<1> QED BY <1>1, <1>2, PaddingRow, ConcatHas

LEMMA PadLeftFacts ==
  ASSUME Len(ts_n_blanks[1].types) \in Nat, NEW r, IsSeq(r)
  PROVE  IsSeq(PadLeft(r)) /\ Has(PadLeft(r), r)
BY PaddingRow, ConcatHas DEF PadLeft

\* A left row in the first pass.
LEMMA LeftRowFacts ==
  ASSUME JoinInv, RowInv, pc = "first", NEW l, IsSeq(l)
  PROVE  /\ RowsOK(LeftRow(l))
         /\ args.kind # "inner" => Covered(l, LeftRow(l))
         /\ IsOuter => \A j \in DOMAIN RightRows :
              SameKey(l, RightRows[j]) => Covered(RightRows[j], LeftRow(l))
         /\ args.kind = "inner" /\ Full(l) => NoPad(LeftRow(l))
<1>1. /\ hash = NewHash(RightRows, 2) /\ ~IsUnion
      /\ hash.rows = RightRows /\ hash.col = c_ids[2]
  BY DEF RowInv, Opened, Keyed, KeyedPcs, NewHash
<1>2. /\ RowsOK(RightRows) /\ NoPad(RightRows)
      /\ \A j \in DOMAIN RightRows : Len(RightRows[j]) = Len(ts_n_blanks[2].types)
      /\ c_ids[2] \in 1..Len(ts_n_blanks[2].types) /\ Len(ts_n_blanks[2].types) \in Nat
  BY <1>1, InProgress DEF JoiningPcs
<1> PICK found : found = Find(hash, l[c_ids[1]])
  OBVIOUS
<1>3. /\ RowsOK(found) /\ NoPad(found)
      /\ \A j \in DOMAIN RightRows : SameKey(l, RightRows[j]) =>
           \E k \in DOMAIN found : found[k] = RightRows[j]
      /\ \A k \in DOMAIN found : \E j \in DOMAIN RightRows : found[k] = RightRows[j]
  <2>1. \A j \in DOMAIN RightRows :
          SameKey(l, RightRows[j]) =>
            KeysEqual(hash, Value(hash.rows[j][hash.col]), Value(l[c_ids[1]]))
    BY <1>1, OneComparison DEF SameKey
  <2> QED BY <1>1, <1>2, <2>1, FindFacts
<1>4. \A k \in DOMAIN found : IsSeq(found[k]) /\ c_ids[2] \in DOMAIN found[k] /\ Full(found[k])
  <2>1. \A j \in DOMAIN RightRows : IsSeq(RightRows[j]) /\ c_ids[2] \in DOMAIN RightRows[j]
    BY <1>2, IsSeqFacts DEF RowsOK
  <2> QED BY <1>3, <2>1 DEF NoPad
<1>5. CASE found = <<>>
  <2>1. DOMAIN found = {}
    BY <1>5
  <2>2. CASE args.kind = "inner"
    <3>1. LeftRow(l) = <<>>
      BY <1>5, <2>2 DEF LeftRow
    <3> QED BY <2>2, <3>1, EmptyRows DEF IsOuter
  <2>3. CASE args.kind # "inner"
    <3> PICK row : row = PadRight(l)
      OBVIOUS
    <3>1. LeftRow(l) = <<row>>
      BY <1>5, <2>3 DEF LeftRow
    <3>2. IsSeq(row) /\ Has(row, l)
      BY <1>2, PadRightFacts
    <3>3. RowsOK(LeftRow(l)) /\ Covered(l, LeftRow(l))
      BY <3>1, <3>2, ListOfOne DEF Covered
    <3> QED BY <1>3, <2>1, <2>3, <3>3
  <2> QED BY <2>2, <2>3
<1>6. CASE found # <<>>
  <2> PICK rows : rows = LeftRow(l)
    OBVIOUS
  <2>1. rows = [i \in DOMAIN found |-> Glue(l, found[i])]
    BY <1>6 DEF LeftRow
  <2>2. Len(found) \in Nat /\ DOMAIN found = 1..Len(found) /\ Len(found) # 0
    <3>1. IsSeq(found)
      BY <1>3 DEF RowsOK
    <3> QED BY <1>6, <3>1, IsSeqFacts, EmptySeq DEF IsSeq
  <2>3. IsSeq(rows) /\ DOMAIN rows = DOMAIN found
    <3>1. rows = [i \in 1..Len(found) |-> rows[i]]
      BY <2>1, <2>2
    <3> QED BY <2>1, <2>2, <3>1, IsSeqFunction
  <2>4. \A i \in DOMAIN found : rows[i] = Glue(l, found[i])
    BY <2>1
  <2>5. \A i \in DOMAIN found : /\ IsSeq(rows[i]) /\ Has(rows[i], l)
                                /\ IsOuter => Has(rows[i], found[i])
                                /\ Full(l) => Full(rows[i])
    BY <1>4, <2>4, GlueFacts
  <2>6. Covered(l, rows)
    <3>1. 1 \in DOMAIN found
      BY <2>2
    <3> QED BY <2>3, <2>5, <3>1 DEF Covered
  <2>7. IsOuter => \A j \in DOMAIN RightRows :
          SameKey(l, RightRows[j]) => Covered(RightRows[j], rows)
    BY <1>3, <2>3, <2>5 DEF Covered
  <2> QED BY <2>3, <2>5, <2>6, <2>7 DEF RowsOK, NoPad
<1> QED BY <1>5, <1>6

\* A right row in the second pass: in the result or without the key of a left row.
LEMMA RightRowFacts ==
  ASSUME JoinInv, RowInv, pc = "second", NEW r, IsSeq(r)
  PROVE  /\ RowsOK(RightRow(r))
         /\ Covered(r, RightRow(r)) \/ \E i \in DOMAIN LeftRows : SameKey(LeftRows[i], r)
<1>1. /\ hash = NewHash(LeftRows, 1) /\ ~IsUnion /\ SameTypes
      /\ hash.rows = LeftRows /\ hash.col = c_ids[1]
  BY DEF RowInv, Opened, Keyed, KeyedPcs, NewHash
<1>2. RowsOK(LeftRows) /\ Len(ts_n_blanks[1].types) \in Nat
  BY <1>1, InProgress DEF JoiningPcs, Kept
<1> PICK found : found = Find(hash, r[c_ids[2]])
  OBVIOUS
<1>3. CASE found = <<>>
  <2> PICK row : row = PadLeft(r)
    OBVIOUS
  <2>1. RightRow(r) = <<row>>
    BY <1>3 DEF RightRow
  <2>2. IsSeq(row) /\ Has(row, r)
    BY <1>2, PadLeftFacts
  <2> QED BY <2>1, <2>2, ListOfOne DEF Covered
<1>4. CASE found # <<>>
  <2>1. RightRow(r) = <<>>
    BY <1>4 DEF RightRow
  <2>2. RowsOK(found) /\ \A k \in DOMAIN found : \E j \in DOMAIN LeftRows :
          KeysEqual(hash, Value(LeftRows[j][c_ids[1]]), Value(r[c_ids[2]]))
    BY <1>1, <1>2, FindFacts
  <2>3. 1 \in DOMAIN found
    <3>1. IsSeq(found)
      BY <2>2 DEF RowsOK
    <3>2. Len(found) \in Nat /\ DOMAIN found = 1..Len(found) /\ Len(found) # 0
      BY <1>4, <3>1, IsSeqFacts, EmptySeq DEF IsSeq
    <3> QED BY <3>2
  <2>4. PICK j \in DOMAIN LeftRows :
          KeysEqual(hash, Value(LeftRows[j][c_ids[1]]), Value(r[c_ids[2]]))
    BY <2>2, <2>3
  <2>5. SameKey(LeftRows[j], r)
    BY <1>1, <2>4, OneComparison DEF SameKey
  <2> QED BY <2>1, <2>5, EmptyRows
<1> QED BY <1>3, <1>4

-------------------------------------------------------------------------------
(* The command line and the contents of the files do not change, so neither  *)
(* does what is said of given rows.                                          *)

LEMMA SameCommand ==
  ASSUME UNCHANGED <<args, keys>>
  PROVE  /\ IsOuter' = IsOuter /\ IsUnion' = IsUnion /\ Inner' = Inner
         /\ Sources' = Sources
<1>1. IsOuter' = IsOuter /\ IsUnion' = IsUnion /\ Inner' = Inner
  BY DEF IsOuter, IsUnion, Inner
<1>2. Sources' = Sources
  BY DEF Sources, Ordered
<1> QED BY <1>1, <1>2

LEMMA KeptFake ==
  ASSUME UNCHANGED <<args, keys>>, NEW rows, NEW k, Kept(rows, k),
         deq'[1].rows = rows, Joined' = k
  PROVE  Kept(deq[1].rows, Joined)'
<1>1. RowsOK(deq[1].rows)' /\ (Inner' => NoPad(deq[1].rows)')
  BY SameCommand DEF Kept, RowsOK, IsSeq, NoPad, Full, Pad
<1>2. Due(Joined)' = Due(k)
  BY SameCommand DEF Due
<1>3. \A j \in Due(k) : Appears(Nth(j), deq[1].rows)'
  <2>1. \A j \in Due(k) : Appears(Nth(j), rows)
    BY DEF Kept
  <2> QED BY <2>1, SameCommand DEF Appears, NLines, Body, Nth
<1> QED BY <1>1, <1>2, <1>3 DEF Kept

LEMMA KeptResult ==
  ASSUME UNCHANGED <<args, keys>>, NEW rows, NEW k, Kept(rows, k),
         impl' = rows, Joined' + 1 = k
  PROVE  Kept(impl, Joined + 1)'
<1>1. RowsOK(impl)' /\ (Inner' => NoPad(impl)')
  BY SameCommand DEF Kept, RowsOK, IsSeq, NoPad, Full, Pad
<1>2. Due(Joined + 1)' = Due(k)
  BY SameCommand DEF Due
<1>3. \A j \in Due(k) : Appears(Nth(j), impl)'
  <2>1. \A j \in Due(k) : Appears(Nth(j), rows)
    BY DEF Kept
  <2> QED BY <2>1, SameCommand DEF Appears, NLines, Body, Nth
<1> QED BY <1>1, <1>2, <1>3 DEF Kept

LEMMA PassedOnceKept ==
  ASSUME UNCHANGED <<args, keys, c_ids, ts_n_blanks>>,
         LeftRows' = LeftRows, RightRows' = RightRows,
         NEW rows, PassedOnce(rows), impl' = rows
  PROVE  PassedOnce(impl)'
<1>1. RowsOK(impl)' /\ CoversAll(impl, LeftRows)'
  BY DEF PassedOnce, RowsOK, IsSeq, CoversAll, Covered, Has
<1>2. \A i, j : SameKey(LeftRows[i], RightRows[j])' <=> SameKey(LeftRows[i], RightRows[j])
  BY DEF SameKey, KeysEqual, NewHash, NullAware, AsText, KeyTypeOf, KeyBlanks, Value, Body, Pad
<1>3. \A j : Covered(RightRows[j], impl)' <=> Covered(RightRows[j], rows)
  BY DEF Covered, Has
<1> QED BY <1>1, <1>2, <1>3 DEF PassedOnce

\* Passing lines of a reader: every source stays what it is.
LEMMA SourcesMove ==
  ASSUME JoinInv, RowInv, UNCHANGED <<args, keys>>,
         \/ deq' = deq
         \/ \E i \in DOMAIN deq : /\ deq[i].kind = "reader"
                                  /\ \E p \in 0..Body : deq' = At(i, p)
  PROVE  /\ Len(deq) \in Nat \ {0} /\ DOMAIN deq = 1..Len(deq) /\ 1 \in DOMAIN deq
         /\ Len(deq') = Len(deq) /\ DOMAIN deq' = DOMAIN deq
         /\ \A i \in DOMAIN deq : /\ deq'[i].kind = deq[i].kind
                                  /\ deq[i].kind = "reader" => deq'[i].file = deq[i].file
                                  /\ deq[i].kind = "fake" => deq'[i] = deq[i]
         /\ Joined' = Joined /\ SourcesOK'
<1>1. /\ Len(deq) \in Nat \ {0} /\ DOMAIN deq = 1..Len(deq) /\ 1 \in DOMAIN deq
      /\ Len(deq') = Len(deq) /\ DOMAIN deq' = DOMAIN deq
      /\ \A i \in DOMAIN deq : /\ deq'[i].kind = deq[i].kind
                               /\ deq[i].kind = "reader" =>
                                    deq'[i].file = deq[i].file
                               /\ deq[i].kind = "reader" => deq'[i].pos \in 0..Body
                               /\ deq[i].kind = "fake" => deq'[i] = deq[i]
  <2>0. Len(deq) \in Nat \ {0} /\ DOMAIN deq = 1..Len(deq) /\ IsSeq(deq)
    BY Sizes DEF JoinInv, TypeOK, DeqOK
  <2>1. CASE deq' = deq
    BY <2>0, <2>1 DEF RowInv, SourcesOK
  <2>2. CASE \E i \in DOMAIN deq : /\ deq[i].kind = "reader"
                                   /\ \E p \in 0..Body : deq' = At(i, p)
    <3>1. PICK i \in DOMAIN deq, p \in 0..Body : deq[i].kind = "reader" /\ deq' = At(i, p)
      BY <2>2
    <3> PICK r : r = Reader(deq[i].file, p)
      OBVIOUS
    <3>2. r.kind = "reader" /\ r.file = deq[i].file /\ r.pos = p
      BY DEF Reader
    <3>3. deq' = [deq EXCEPT ![i] = r]
      BY <3>1 DEF At
    <3>4. /\ Len(deq') = Len(deq)
          /\ \A j \in DOMAIN deq : deq'[j] = IF j = i THEN r ELSE deq[j]
      <4> PICK d : d = [deq EXCEPT ![i] = r]
        OBVIOUS
      <4>1. Len(d) = Len(deq) /\ \A j \in DOMAIN deq : d[j] = IF j = i THEN r ELSE deq[j]
        BY <2>0, IsSeqExcept
      <4> QED BY <3>3, <4>1
    <3>5. DOMAIN deq' = DOMAIN deq
      BY <3>3
    <3>6. \A j \in DOMAIN deq : deq[j].kind = "reader" => deq[j].pos \in 0..Body
      BY DEF RowInv, SourcesOK
    <3> QED BY <2>0, <3>1, <3>2, <3>4, <3>5, <3>6
  <2> QED BY <2>1, <2>2
<1>2. Joined' = Joined
  BY <1>1 DEF Joined, N
<1>3. SourcesOK'
  <2>1. \A i \in DOMAIN deq' : deq'[i].kind = "reader" =>
          deq'[i].file = Sources'[Joined' + i - 1].file /\ deq'[i].pos \in 0..Body
    BY <1>1, <1>2, SameCommand DEF RowInv, SourcesOK, Nth
  <2>2. Joined' \in 1..N /\ (deq'[1].kind = "reader" => Joined' = 1)
    BY <1>1, <1>2 DEF RowInv, SourcesOK
  <2>3. ASSUME deq'[1].kind = "fake" PROVE Kept(deq[1].rows, Joined)'
    <3> PICK rows : rows = deq[1].rows
      OBVIOUS
    <3> PICK k : k = Joined
      OBVIOUS
    <3>1. Kept(rows, k)
      BY <1>1, <2>3 DEF RowInv, SourcesOK
    <3>2. deq'[1].rows = rows /\ Joined' = k
      BY <1>1, <1>2, <2>3
    <3> QED BY <3>1, <3>2, KeptFake
  <2> QED BY <2>1, <2>2, <2>3 DEF SourcesOK, Nth, N, Body
<1> QED BY <1>1, <1>2, <1>3

\* A step that joins nothing leaves the tables what they were.
LEMMA SourcesStay ==
  ASSUME JoinInv, RowInv, UNCHANGED <<args, keys, headers, c_ids>>,
         \A i \in DOMAIN headers : Len(ts_n_blanks'[i].types) = Len(ts_n_blanks[i].types),
         \/ deq' = deq
         \/ \E i \in DOMAIN deq : /\ deq[i].kind = "reader"
                                  /\ \E p \in 0..Body : deq' = At(i, p)
  PROVE  /\ Chosen' /\ SourcesOK' /\ TablesFit' /\ Len(deq') = Len(deq)
         /\ 2 \in DOMAIN deq => LeftRows' = LeftRows /\ RightRows' = RightRows
<1>1. /\ Len(deq) \in Nat \ {0} /\ DOMAIN deq = 1..Len(deq) /\ 1 \in DOMAIN deq
      /\ Len(deq') = Len(deq) /\ DOMAIN deq' = DOMAIN deq
      /\ \A i \in DOMAIN deq : /\ deq'[i].kind = deq[i].kind
                               /\ deq[i].kind = "reader" => deq'[i].file = deq[i].file
                               /\ deq[i].kind = "fake" => deq'[i] = deq[i]
      /\ Joined' = Joined /\ SourcesOK'
  BY SourcesMove
<1>4. TablesFit'
  <2>1. DOMAIN headers \subseteq DOMAIN deq
    <3>1. Len(headers) \in Nat /\ DOMAIN headers = 1..Len(headers)
      BY Sizes
    <3>2. Len(headers) <= Len(deq)
      BY <1>1, <3>1 DEF JoinInv, Lockstep
    <3> QED BY <1>1, <3>1, <3>2
  <2> QED BY <1>1, <2>1 DEF RowInv, TablesFit, Width
<1>5. ASSUME 2 \in DOMAIN deq
      PROVE  LeftRows' = LeftRows /\ RightRows' = RightRows
  <2>1. deq[2].kind = "reader" /\ deq[1].kind \in {"reader", "fake"}
    BY <1>1, <1>5 DEF JoinInv, TypeOK, DeqOK
  <2>2. RightRows' = RightRows
    BY <1>1, <1>5, <2>1 DEF RightRows, BodyRows, RunRows, Reader, NLines, Body, Line, Width
  <2>3. LeftRows' = LeftRows
    BY <1>1, <2>1 DEF LeftRows, BodyRows, RunRows, Reader, NLines, Body, Line, Width
  <2> QED BY <2>2, <2>3
<1> QED BY <1>1, <1>4, <1>5 DEF RowInv, Chosen

-------------------------------------------------------------------------------
(* The steps of a join.                                                      *)

\* A result that covers what it must is what is to be kept of one more file.
LEMMA OneMoreFile ==
  ASSUME JoinInv, RowInv, pc \in JoiningPcs \/ (pc = "loop" /\ Len(deq) > 1),
         NEW rows, RowsOK(rows), ~Inner => CoversAll(rows, LeftRows),
         IsOuter \/ IsUnion => CoversAll(rows, RightRows),
         Inner => NoPad(rows)
  PROVE  Kept(rows, Joined + 1)
<1>1. /\ Kept(LeftRows, Joined) /\ Joined \in Nat /\ Joined \in 1..N
      /\ Appears(Nth(Joined + 1), RightRows)
  BY InProgress
<1>2. ASSUME NEW j \in Due(Joined + 1) PROVE Appears(Nth(j), rows)
  <2>1. CASE j = Joined + 1
    <3>1. IsOuter \/ IsUnion
      BY <1>1, <2>1 DEF Due
    <3> QED BY <1>1, <2>1, <3>1, CoverAppears
  <2>2. CASE j # Joined + 1
    <3>1. j \in 1..(Joined + 1) /\ j \in 1..Joined
      BY <1>1, <2>2 DEF Due
    <3>2. j \in Due(Joined) /\ ~Inner
      BY <3>1 DEF Due, Inner, IsOuter
    <3>3. Appears(Nth(j), LeftRows)
      BY <1>1, <3>2 DEF Kept
    <3> QED BY <3>2, <3>3, CoverAppears
  <2> QED BY <2>1, <2>2
<1> QED BY <1>2 DEF Kept

LEMMA CanCompareRows == JoinInv /\ RowInv /\ CanCompare => RowInv'
<1> SUFFICES ASSUME JoinInv, RowInv, CanCompare PROVE RowInv'
  OBVIOUS
<1>1. /\ pc = "loop" /\ Len(deq) > 1 /\ ~IsUnion
      /\ args' = args /\ keys' = keys /\ deq' = deq /\ headers' = headers /\ c_ids' = c_ids
      /\ impl' = <<>> /\ pc' \in {"hash_right", "disjoint"}
      /\ pc' = "hash_right" => SameTypes \/ BothBlank
      /\ ts_n_blanks' = IF ~SameTypes /\ BothBlank
                          THEN [ts_n_blanks EXCEPT ![1] = SetKeyToText(1), ![2] = SetKeyToText(2)]
                          ELSE ts_n_blanks
  BY DEF CanCompare, Untouched
<1>2. /\ 1 \in DOMAIN ts_n_blanks /\ 2 \in DOMAIN ts_n_blanks /\ DOMAIN ts_n_blanks = DOMAIN headers
      /\ c_ids[1] \in DOMAIN ts_n_blanks[1].types /\ c_ids[2] \in DOMAIN ts_n_blanks[2].types
      /\ \A i \in {1, 2} : ts_n_blanks[i].types \in Seq(ColumnType)
      /\ DOMAIN headers = DOMAIN deq
  <2>1. Len(headers) = Len(deq) /\ DOMAIN headers = 1..Len(deq) /\ DOMAIN ts_n_blanks = 1..Len(deq)
    BY <1>1, Sizes DEF JoinInv, Lockstep, Filled
  <2>2. 1 \in 1..Len(deq) /\ 2 \in 1..Len(deq) /\ DOMAIN deq = 1..Len(deq)
    BY <1>1, Sizes
  <2>3. ts_n_blanks[1] \in TableTypes /\ ts_n_blanks[2] \in TableTypes
    BY <2>1, <2>2, ElementOfSeq, Sizes DEF JoinInv, TypeOK, TablesOK
  <2>4. /\ c_ids[1] \in 1..Len(ts_n_blanks[1].types) /\ c_ids[2] \in 1..Len(ts_n_blanks[2].types)
    BY <1>1, InProgress
  <2>5. ts_n_blanks[1].types \in Seq(ColumnType) /\ ts_n_blanks[2].types \in Seq(ColumnType)
    BY <2>3 DEF TableTypes
  <2>6. /\ DOMAIN ts_n_blanks[1].types = 1..Len(ts_n_blanks[1].types)
        /\ DOMAIN ts_n_blanks[2].types = 1..Len(ts_n_blanks[2].types)
    BY <2>5, LenProperties
  <2> QED BY <2>1, <2>2, <2>4, <2>5, <2>6
<1>3. ASSUME ~SameTypes, BothBlank
      PROVE  /\ SameTypes'
             /\ \A i \in DOMAIN headers : Len(ts_n_blanks'[i].types) = Len(ts_n_blanks[i].types)
  <2> DEFINE s1 == SetKeyToText(1)
             s2 == SetKeyToText(2)
  <2>1. /\ s1.types = [ts_n_blanks[1].types EXCEPT ![c_ids[1]] = "text"]
        /\ s2.types = [ts_n_blanks[2].types EXCEPT ![c_ids[2]] = "text"]
    BY DEF SetKeyToText
  <2>2. /\ s1.types[c_ids[1]] = "text" /\ s2.types[c_ids[2]] = "text"
    BY <1>2, <2>1
  <2>3. Len(s1.types) = Len(ts_n_blanks[1].types) /\ Len(s2.types) = Len(ts_n_blanks[2].types)
    <3>1. ASSUME NEW t \in Seq(ColumnType), NEW c \in DOMAIN t
          PROVE  Len([t EXCEPT ![c] = "text"]) = Len(t)
      <4>1. "text" \in ColumnType /\ c \in 1..Len(t)
        BY LenProperties DEF ColumnType
      <4> QED BY <4>1, ExceptSeq
    <3>2. s1.types = [ts_n_blanks[1].types EXCEPT ![c_ids[1]] = "text"]
      BY <2>1
    <3>3. s2.types = [ts_n_blanks[2].types EXCEPT ![c_ids[2]] = "text"]
      BY <2>1
    <3> HIDE DEF s1, s2
    <3> QED BY <1>2, <3>1, <3>2, <3>3
  <2>4. ts_n_blanks' = [ts_n_blanks EXCEPT ![1] = s1, ![2] = s2]
    BY <1>1, <1>3
  <2> HIDE DEF s1, s2
  <2>5. /\ ts_n_blanks'[1] = s1 /\ ts_n_blanks'[2] = s2
        /\ \A i \in DOMAIN ts_n_blanks : i # 1 /\ i # 2 => ts_n_blanks'[i] = ts_n_blanks[i]
    BY <1>2, <2>4
  <2>6. SameTypes'
    BY <1>1, <2>2, <2>5 DEF SameTypes, KeyTypeOf
  <2>7. \A i \in DOMAIN headers : Len(ts_n_blanks'[i].types) = Len(ts_n_blanks[i].types)
    BY <1>2, <2>3, <2>5
  <2> QED BY <2>6, <2>7
<1>4. ASSUME SameTypes \/ ~BothBlank
      PROVE  /\ SameTypes' = SameTypes
             /\ \A i \in DOMAIN headers : Len(ts_n_blanks'[i].types) = Len(ts_n_blanks[i].types)
  <2>1. ts_n_blanks' = ts_n_blanks
    BY <1>1, <1>4
  <2> QED BY <1>1, <2>1 DEF SameTypes, KeyTypeOf
<1>5. Chosen' /\ SourcesOK' /\ TablesFit'
  BY <1>1, <1>3, <1>4, SourcesStay
<1>6. Keyed'
  <2>1. pc' = "hash_right" => SameTypes'
    BY <1>1, <1>3, <1>4
  <2> QED BY <1>1, <2>1 DEF Keyed, KeyedPcs, IsUnion
<1>7. Opened' /\ FirstPassDone' /\ JoinDone' /\ Printed'
  BY <1>1 DEF Opened, FirstPassDone, JoinDone, Printed
<1> QED BY <1>5, <1>6, <1>7 DEF RowInv

\* While a join is in progress the tables and what is compared stay as they are.
LEMMA JoinStays ==
  ASSUME JoinInv, RowInv, pc \in JoiningPcs \/ (pc = "loop" /\ Len(deq) > 1),
         args' = args, keys' = keys, headers' = headers, c_ids' = c_ids,
         ts_n_blanks' = ts_n_blanks,
         \/ deq' = deq
         \/ \E i \in DOMAIN deq : /\ deq[i].kind = "reader"
                                  /\ \E p \in 0..Body : deq' = At(i, p)
  PROVE  /\ Chosen' /\ SourcesOK' /\ TablesFit'
         /\ Len(deq) > 1 /\ Len(deq') = Len(deq)
         /\ LeftRows' = LeftRows /\ RightRows' = RightRows
         /\ SameTypes' = SameTypes /\ IsUnion' = IsUnion /\ IsOuter' = IsOuter
         /\ Joined' = Joined
         /\ NewHash(RightRows, 2)' = NewHash(RightRows, 2)
         /\ NewHash(LeftRows, 1)' = NewHash(LeftRows, 1)
<1>1. Len(deq) > 1 /\ 2 \in DOMAIN deq
  BY InProgress DEF JoinInv, Phases
<1>2. /\ Chosen' /\ SourcesOK' /\ TablesFit' /\ Len(deq') = Len(deq)
      /\ LeftRows' = LeftRows /\ RightRows' = RightRows
  BY <1>1, SourcesStay
<1>3. SameTypes' = SameTypes /\ IsUnion' = IsUnion /\ IsOuter' = IsOuter
  BY DEF SameTypes, KeyTypeOf, IsUnion, IsOuter
<1>4. Joined' = Joined
  BY <1>2 DEF Joined, N
<1>5. /\ NewHash(RightRows, 2)' = NewHash(RightRows, 2)
      /\ NewHash(LeftRows, 1)' = NewHash(LeftRows, 1)
  BY <1>2 DEF NewHash, KeyTypeOf, KeyBlanks
<1> QED BY <1>1, <1>2, <1>3, <1>4, <1>5

LEMMA HashRightRows == JoinInv /\ RowInv /\ HashRight => RowInv'
<1> SUFFICES ASSUME JoinInv, RowInv, HashRight PROVE RowInv'
  OBVIOUS
<1>1. /\ pc = "hash_right" /\ pc \in JoiningPcs /\ pc \in KeyedPcs
      /\ args' = args /\ keys' = keys /\ headers' = headers /\ c_ids' = c_ids
      /\ ts_n_blanks' = ts_n_blanks /\ impl' = impl
      /\ deq' = At(2, IF IsOuter THEN Header ELSE 0)
      /\ IF keys[deq[2].file] = <<>> THEN pc' = "no_body"
         ELSE hash' = NewHash(BodyRows(deq[2].file), 2) /\ pc' \in {"terminated", "open_left"}
  BY DEF HashRight, Untouched, Tables, JoiningPcs, KeyedPcs
<1>2. /\ 2 \in DOMAIN deq /\ deq[2].kind = "reader" /\ KeysOK /\ deq[2].file \in File
  BY <1>1, InProgress
<1>3. \E i \in DOMAIN deq : deq[i].kind = "reader" /\ \E p \in 0..Body : deq' = At(i, p)
  <2>1. (IF IsOuter THEN Header ELSE 0) \in 0..Body
    BY BodyFacts
  <2> QED BY <1>1, <1>2, <2>1
<1>4. /\ Chosen' /\ SourcesOK' /\ TablesFit'
      /\ LeftRows' = LeftRows /\ RightRows' = RightRows
      /\ SameTypes' = SameTypes /\ IsUnion' = IsUnion
      /\ NewHash(RightRows, 2)' = NewHash(RightRows, 2)
  BY <1>1, <1>3, JoinStays
<1>5. Keyed'
  <2>1. ~IsUnion /\ SameTypes /\ impl = <<>>
    BY <1>1 DEF RowInv, Keyed
  <2>2. pc' = "no_body" => RightRows = <<>>
    BY <1>1, <1>2, BodyRowsFacts DEF RightRows
  <2>3. (LeftRows = <<>> \/ RightRows = <<>>)' <=> (LeftRows = <<>> \/ RightRows = <<>>)
    BY <1>4
  <2> QED BY <1>1, <1>4, <2>1, <2>2, <2>3 DEF Keyed, KeyedPcs
<1>6. Opened'
  <2>1. pc' = "open_left" => hash' = NewHash(RightRows, 2)
    BY <1>1 DEF RightRows
  <2>2. pc' \notin {"first", "second"}
    BY <1>1
  <2> QED BY <1>4, <2>1, <2>2 DEF Opened
<1>7. FirstPassDone' /\ JoinDone' /\ Printed'
  BY <1>1 DEF FirstPassDone, JoinDone, Printed
<1> QED BY <1>4, <1>5, <1>6, <1>7 DEF RowInv

LEMMA OpenLeftRows == JoinInv /\ RowInv /\ OpenLeft => RowInv'
<1> SUFFICES ASSUME JoinInv, RowInv, OpenLeft PROVE RowInv'
  OBVIOUS
<1>1. /\ pc = "open_left" /\ pc \in JoiningPcs /\ pc \in KeyedPcs
      /\ args' = args /\ keys' = keys /\ headers' = headers /\ c_ids' = c_ids
      /\ ts_n_blanks' = ts_n_blanks /\ impl' = impl /\ hash' = hash
      /\ IF deq[1].kind = "fake"
           THEN table' = deq[1].rows /\ pc' = "first" /\ deq' = deq
           ELSE /\ deq' = At(1, 0)
                /\ IF keys[deq[1].file] = <<>> THEN pc' = "no_body"
                   ELSE table' = BodyRows(deq[1].file) /\ pc' = "first"
  BY DEF OpenLeft, Untouched, Tables, JoiningPcs, KeyedPcs, StartWork
<1>2. /\ 1 \in DOMAIN deq /\ KeysOK /\ deq[1].kind \in {"reader", "fake"}
      /\ deq[1].kind = "reader" => deq[1].file \in File
  BY <1>1, InProgress DEF JoinInv, TypeOK, DeqOK
<1>3. \/ deq' = deq
      \/ \E i \in DOMAIN deq : deq[i].kind = "reader" /\ \E p \in 0..Body : deq' = At(i, p)
  BY <1>1, <1>2, BodyFacts
<1>4. /\ Chosen' /\ SourcesOK' /\ TablesFit'
      /\ LeftRows' = LeftRows /\ RightRows' = RightRows
      /\ SameTypes' = SameTypes /\ IsUnion' = IsUnion
      /\ NewHash(RightRows, 2)' = NewHash(RightRows, 2)
  BY <1>1, <1>3, JoinStays
<1>5. pc' \in {"no_body", "first"}
  BY <1>1
<1>6. Keyed'
  <2>1. ~IsUnion /\ SameTypes /\ impl = <<>>
    BY <1>1 DEF RowInv, Keyed
  <2>2. pc' = "no_body" => LeftRows = <<>>
    BY <1>1, <1>2, BodyRowsFacts DEF LeftRows
  <2>3. (LeftRows = <<>> \/ RightRows = <<>>)' <=> (LeftRows = <<>> \/ RightRows = <<>>)
    BY <1>4
  <2> QED BY <1>1, <1>4, <1>5, <2>1, <2>2, <2>3 DEF Keyed, KeyedPcs
<1>7. Opened'
  <2>1. hash' = NewHash(RightRows, 2)
    BY <1>1 DEF RowInv, Opened
  <2>2. pc' = "first" => table' = LeftRows
    BY <1>1, <1>2 DEF LeftRows
  <2> QED BY <1>4, <1>5, <2>1, <2>2 DEF Opened
<1>8. FirstPassDone' /\ JoinDone' /\ Printed'
  BY <1>5 DEF FirstPassDone, JoinDone, Printed
<1> QED BY <1>4, <1>6, <1>7, <1>8 DEF RowInv

LEMMA WorkRows ==
  ASSUME JoinInv, RowInv, NEW i \in todo, WorkFirst(i) \/ WorkSecond(i)
  PROVE  RowInv'
<1>1. /\ pc \in {"first", "second"} /\ pc \in JoiningPcs /\ pc \in KeyedPcs
      /\ args' = args /\ keys' = keys /\ headers' = headers /\ c_ids' = c_ids
      /\ ts_n_blanks' = ts_n_blanks /\ impl' = impl /\ hash' = hash /\ table' = table
      /\ deq' = deq /\ pc' \in {pc, "terminated"}
  BY DEF WorkFirst, WorkSecond, Work, Untouched, Tables, JoiningPcs, KeyedPcs
<1>2. /\ Chosen' /\ SourcesOK' /\ TablesFit'
      /\ LeftRows' = LeftRows /\ RightRows' = RightRows
      /\ SameTypes' = SameTypes /\ IsUnion' = IsUnion /\ IsOuter' = IsOuter
      /\ NewHash(RightRows, 2)' = NewHash(RightRows, 2)
      /\ NewHash(LeftRows, 1)' = NewHash(LeftRows, 1)
  BY <1>1, JoinStays
<1>3. Keyed'
  BY <1>1, <1>2 DEF RowInv, Keyed, KeyedPcs
<1>4. Opened'
  BY <1>1, <1>2 DEF RowInv, Opened
<1>5. FirstPassDone'
  <2> PICK rows : rows = impl
    OBVIOUS
  <2>1. pc' = "second" => PassedOnce(rows)
    BY <1>1 DEF RowInv, FirstPassDone
  <2>2. pc' = "second" => PassedOnce(impl)'
    BY <1>1, <1>2, <2>1, PassedOnceKept
  <2> QED BY <1>1, <2>2 DEF FirstPassDone
<1>6. JoinDone' /\ Printed'
  BY <1>1 DEF JoinDone, Printed
<1> QED BY <1>2, <1>3, <1>4, <1>5, <1>6 DEF RowInv

LEMMA HashLeftRows == JoinInv /\ RowInv /\ HashLeft => RowInv'
<1> SUFFICES ASSUME JoinInv, RowInv, HashLeft PROVE RowInv'
  OBVIOUS
<1>1. /\ pc = "hash_left" /\ pc \in JoiningPcs /\ pc \in KeyedPcs
      /\ args' = args /\ keys' = keys /\ headers' = headers /\ c_ids' = c_ids
      /\ ts_n_blanks' = ts_n_blanks /\ impl' = impl
      /\ deq' = deq \/ deq' = At(2, 0)
      /\ pc' \in {"failed", "no_body_2", "terminated", "second"}
      /\ pc' = "second" => hash' = NewHash(LeftRows, 1) /\ table' = RightRows
  BY DEF HashLeft, Untouched, Tables, JoiningPcs, KeyedPcs, StartWork, LeftRows, RightRows
<1>2. 2 \in DOMAIN deq /\ deq[2].kind = "reader"
  BY <1>1, InProgress
<1>3. \/ deq' = deq
      \/ \E i \in DOMAIN deq : deq[i].kind = "reader" /\ \E p \in 0..Body : deq' = At(i, p)
  BY <1>1, <1>2, BodyFacts
<1>4. /\ Chosen' /\ SourcesOK' /\ TablesFit'
      /\ LeftRows' = LeftRows /\ RightRows' = RightRows
      /\ SameTypes' = SameTypes /\ IsUnion' = IsUnion /\ IsOuter' = IsOuter
      /\ NewHash(LeftRows, 1)' = NewHash(LeftRows, 1)
  BY <1>1, <1>3, JoinStays
<1>5. Keyed'
  BY <1>1, <1>4 DEF RowInv, Keyed, KeyedPcs
<1>6. Opened'
  BY <1>1, <1>4 DEF Opened
<1>7. FirstPassDone'
  <2> PICK rows : rows = impl
    OBVIOUS
  <2>1. PassedOnce(rows)
    BY <1>1 DEF RowInv, FirstPassDone
  <2>2. PassedOnce(impl)'
    BY <1>1, <1>4, <2>1, PassedOnceKept
  <2> QED BY <2>2 DEF FirstPassDone
<1>8. JoinDone' /\ Printed'
  BY <1>1 DEF JoinDone, Printed
<1> QED BY <1>4, <1>5, <1>6, <1>7, <1>8 DEF RowInv

\* A step that adds rows to the result and ends a pass or the join.
LEMMA RowsAdded ==
  ASSUME JoinInv, RowInv, pc \in JoiningPcs \/ (pc = "loop" /\ Len(deq) > 1),
         args' = args, keys' = keys, deq' = deq, headers' = headers, c_ids' = c_ids,
         ts_n_blanks' = ts_n_blanks,
         NEW rows, impl' = rows,
         \/ pc' = "cleanup" /\ Kept(rows, Joined + 1)
         \/ pc' = "hash_left" /\ pc \in KeyedPcs /\ IsOuter /\ PassedOnce(rows)
  PROVE  RowInv'
<1>1. /\ Chosen' /\ SourcesOK' /\ TablesFit' /\ Joined' = Joined
      /\ LeftRows' = LeftRows /\ RightRows' = RightRows
      /\ SameTypes' = SameTypes /\ IsUnion' = IsUnion /\ IsOuter' = IsOuter
  BY JoinStays
<1>2. Keyed'
  BY <1>1 DEF RowInv, Keyed, KeyedPcs
<1>3. FirstPassDone'
  <2>1. pc' = "hash_left" => PassedOnce(impl)'
    BY <1>1, PassedOnceKept
  <2> QED BY <2>1 DEF FirstPassDone
<1>4. JoinDone'
  <2>1. pc' = "cleanup" => Kept(impl, Joined + 1)'
    <3> PICK k : k = Joined + 1
      OBVIOUS
    <3>1. pc' = "cleanup" => Kept(rows, k)
      OBVIOUS
    <3>2. Joined' + 1 = k
      BY <1>1
    <3> QED BY <3>1, <3>2, KeptResult
  <2> QED BY <2>1 DEF JoinDone
<1>5. Opened' /\ Printed'
  BY DEF Opened, Printed
<1> QED BY <1>1, <1>2, <1>3, <1>4, <1>5 DEF RowInv

\* The rows that a function makes of the rows of a table.
LEMMA MappedRows ==
  ASSUME NEW rows, RowsOK(rows), NEW result,
         result = [i \in DOMAIN rows |-> result[i]],
         \A i \in DOMAIN rows : IsSeq(result[i]) /\ Has(result[i], rows[i])
  PROVE  RowsOK(result) /\ CoversAll(result, rows)
<1>1. Len(rows) \in Nat /\ DOMAIN rows = 1..Len(rows)
  BY IsSeqFacts DEF RowsOK
<1>2. result = [i \in 1..Len(rows) |-> result[i]] /\ DOMAIN result = DOMAIN rows
  BY <1>1
<1>3. IsSeq(result)
  BY <1>1, <1>2, IsSeqFunction
<1> QED BY <1>2, <1>3 DEF RowsOK, CoversAll, Covered

LEMMA CoverTrans ==
  ASSUME NEW a, NEW b, NEW c, CoversAll(a, b), CoversAll(b, c)
  PROVE  CoversAll(a, c)
<1> SUFFICES ASSUME NEW i \in DOMAIN c PROVE Covered(c[i], a)
  BY DEF CoversAll
<1>1. PICK j \in DOMAIN b : Has(b[j], c[i])
  BY DEF CoversAll, Covered
<1>2. PICK k \in DOMAIN a : Has(a[k], b[j])
  BY <1>1 DEF CoversAll, Covered
<1>3. Has(a[k], c[i])
  BY <1>1, <1>2 DEF Has
<1> QED BY <1>3 DEF Covered

\* Every left row, padded.
LEMMA PaddedLeft ==
  ASSUME JoinInv, RowInv, pc \in {"no_body", "disjoint"}, NEW rows,
         rows = [i \in DOMAIN RunRows(deq[1]) |-> PadRight(RunRows(deq[1])[i])]
  PROVE  RowsOK(rows) /\ CoversAll(rows, LeftRows)
<1>1. /\ RowsOK(RunRows(deq[1])) /\ CoversAll(RunRows(deq[1]), LeftRows)
      /\ Len(ts_n_blanks[2].types) \in Nat /\ Len(ts_n_blanks[2].types) # 0
  <2>1. ~IsUnion
    BY DEF RowInv, Keyed, KeyedPcs
  <2> QED BY <2>1, InProgress DEF JoiningPcs
<1> PICK source : source = RunRows(deq[1])
  OBVIOUS
<1>2. \A i \in DOMAIN source : IsSeq(PadRight(source[i])) /\ Has(PadRight(source[i]), source[i])
  BY <1>1, PadRightFacts DEF RowsOK
<1>3. RowsOK(rows) /\ CoversAll(rows, source)
  <2>1. rows = [i \in DOMAIN source |-> rows[i]]
    OBVIOUS
  <2>2. \A i \in DOMAIN source : rows[i] = PadRight(source[i])
    OBVIOUS
  <2> QED BY <1>1, <1>2, <2>1, <2>2, MappedRows
<1> QED BY <1>1, <1>3, CoverTrans

LEMMA PaddedRight ==
  ASSUME JoinInv, RowInv, pc \in {"no_body_2", "disjoint"}, NEW rows,
         rows = [i \in DOMAIN RunRows(deq[2]) |-> PadLeft(RunRows(deq[2])[i])]
  PROVE  RowsOK(rows) /\ CoversAll(rows, RightRows)
<1>1. /\ RowsOK(RunRows(deq[2])) /\ CoversAll(RunRows(deq[2]), RightRows)
      /\ Len(ts_n_blanks[1].types) \in Nat
  BY InProgress DEF JoiningPcs
<1> PICK source : source = RunRows(deq[2])
  OBVIOUS
<1>2. \A i \in DOMAIN source : IsSeq(PadLeft(source[i])) /\ Has(PadLeft(source[i]), source[i])
  BY <1>1, PadLeftFacts DEF RowsOK
<1>3. RowsOK(rows) /\ CoversAll(rows, source)
  <2>1. rows = [i \in DOMAIN source |-> rows[i]]
    OBVIOUS
  <2>2. \A i \in DOMAIN source : rows[i] = PadLeft(source[i])
    OBVIOUS
  <2> QED BY <1>1, <1>2, <2>1, <2>2, MappedRows
<1> QED BY <1>1, <1>3, CoverTrans

LEMMA MergeFirstRows == JoinInv /\ RowInv /\ SlotsFollowRows /\ MergeFirst => RowInv'
<1> SUFFICES ASSUME JoinInv, RowInv, SlotsFollowRows, MergeFirst PROVE RowInv'
  OBVIOUS
<1>1. /\ pc = "first" /\ pc \in JoiningPcs /\ pc \in KeyedPcs /\ todo = {}
      /\ args' = args /\ keys' = keys /\ deq' = deq /\ headers' = headers /\ c_ids' = c_ids
      /\ ts_n_blanks' = ts_n_blanks
      /\ impl' = impl \o FlattenSeq(join_vec)
      /\ pc' = IF IsOuter THEN "hash_left" ELSE "cleanup"
  BY DEF MergeFirst, Untouched, Tables, JoiningPcs, KeyedPcs, Merged
<1>2. ~IsUnion /\ impl = <<>> /\ table = LeftRows
  BY <1>1 DEF RowInv, Keyed, Opened
<1>3. /\ RowsOK(LeftRows) /\ Kept(LeftRows, Joined)
  BY <1>1, InProgress DEF Kept
<1> PICK slots : slots = join_vec
  OBVIOUS
<1>4. slots = [i \in DOMAIN LeftRows |-> LeftRow(LeftRows[i])]
  BY <1>1, <1>2 DEF SlotsFollowRows, RowResult
<1>5. IsSeq(slots) /\ DOMAIN slots = DOMAIN LeftRows
  <2>1. Len(LeftRows) \in Nat /\ DOMAIN LeftRows = 1..Len(LeftRows)
    BY <1>3, IsSeqFacts DEF RowsOK
  <2>2. slots = [i \in 1..Len(LeftRows) |-> slots[i]]
    BY <1>4, <2>1
  <2> QED BY <1>4, <2>1, <2>2, IsSeqFunction
<1>6. \A i \in DOMAIN slots : IsSeq(LeftRows[i]) /\ slots[i] = LeftRow(LeftRows[i])
  BY <1>3, <1>4 DEF RowsOK
<1>7. \A i \in DOMAIN slots :
        /\ RowsOK(slots[i])
        /\ args.kind # "inner" => Covered(LeftRows[i], slots[i])
        /\ IsOuter => \A j \in DOMAIN RightRows :
             SameKey(LeftRows[i], RightRows[j]) => Covered(RightRows[j], slots[i])
        /\ args.kind = "inner" /\ Full(LeftRows[i]) => NoPad(slots[i])
  BY <1>1, <1>6, LeftRowFacts
<1> PICK rows : rows = FlattenSeq(slots)
  OBVIOUS
<1>8. /\ RowsOK(rows)
      /\ \A i \in DOMAIN slots : \A r : Covered(r, slots[i]) => Covered(r, rows)
      /\ (\A i \in DOMAIN slots : NoPad(slots[i])) => NoPad(rows)
  BY <1>5, <1>7, MergedRows
<1>9. args.kind # "inner" => CoversAll(rows, LeftRows)
  BY <1>5, <1>7, <1>8 DEF CoversAll
<1>10. impl' = rows
  <2>1. rows \in Seq({rows[i] : i \in DOMAIN rows})
    BY <1>8 DEF RowsOK, IsSeq
  <2>2. <<>> \o rows = rows
    BY <2>1, ConcatEmptySeq
  <2> QED BY <1>1, <1>2, <2>2
<1>11. CASE IsOuter
  <2>1. PassedOnce(rows)
    <3>1. \A j \in DOMAIN RightRows : \A i \in DOMAIN LeftRows :
            SameKey(LeftRows[i], RightRows[j]) => Covered(RightRows[j], rows)
      BY <1>5, <1>7, <1>8, <1>11
    <3>2. args.kind # "inner"
      BY <1>11 DEF IsOuter
    <3> QED BY <1>8, <1>9, <3>1, <3>2 DEF PassedOnce
  <2> QED BY <1>1, <1>10, <1>11, <2>1, RowsAdded
<1>12. CASE ~IsOuter
  <2>1. Inner => NoPad(rows)
    <3>1. Inner => \A i \in DOMAIN LeftRows : Full(LeftRows[i])
      BY <1>3 DEF Kept, NoPad
    <3> QED BY <1>5, <1>7, <1>8, <3>1 DEF Inner
  <2>2. Kept(rows, Joined + 1)
    BY <1>1, <1>2, <1>8, <1>9, <1>12, <2>1, OneMoreFile DEF Inner
  <2> QED BY <1>1, <1>10, <1>12, <2>2, RowsAdded
<1> QED BY <1>11, <1>12

LEMMA NoBodyRows == JoinInv /\ RowInv /\ NoBody => RowInv'
<1> SUFFICES ASSUME JoinInv, RowInv, NoBody PROVE RowInv'
  OBVIOUS
<1>1. /\ pc = "no_body" /\ pc \in JoiningPcs /\ pc \in KeyedPcs
      /\ args' = args /\ keys' = keys /\ deq' = deq /\ headers' = headers /\ c_ids' = c_ids
      /\ ts_n_blanks' = ts_n_blanks
      /\ pc' = IF IsOuter THEN "hash_left" ELSE "cleanup"
  BY DEF NoBody, Untouched, Tables, JoiningPcs, KeyedPcs
<1>2. ~IsUnion /\ impl = <<>> /\ (LeftRows = <<>> \/ RightRows = <<>>)
  BY <1>1 DEF RowInv, Keyed
<1> PICK rows : rows = impl'
  OBVIOUS
<1>3. CASE args.kind = "inner"
  <2>1. rows = <<>> /\ ~IsOuter
    BY <1>2, <1>3 DEF NoBody, IsOuter
  <2>2. Kept(rows, Joined + 1)
    BY <1>1, <1>2, <1>3, <2>1, EmptyRows, OneMoreFile DEF Inner
  <2> QED BY <1>1, <2>1, <2>2, RowsAdded
<1>4. CASE args.kind # "inner"
  <2>1. rows = [i \in DOMAIN RunRows(deq[1]) |-> PadRight(RunRows(deq[1])[i])]
    BY <1>4 DEF NoBody
  <2>2. RowsOK(rows) /\ CoversAll(rows, LeftRows)
    BY <1>1, <2>1, PaddedLeft
  <2>3. CASE IsOuter
    <3>1. DOMAIN LeftRows = {} \/ DOMAIN RightRows = {}
      BY <1>2
    <3>2. PassedOnce(rows)
      BY <2>2, <3>1 DEF PassedOnce
    <3> QED BY <1>1, <2>3, <3>2, RowsAdded
  <2>4. CASE ~IsOuter
    <3>1. Kept(rows, Joined + 1)
      BY <1>1, <1>2, <1>4, <2>2, <2>4, OneMoreFile DEF Inner
    <3> QED BY <1>1, <2>4, <3>1, RowsAdded
  <2> QED BY <2>3, <2>4
<1> QED BY <1>3, <1>4

LEMMA MergeSecondRows == JoinInv /\ RowInv /\ SlotsFollowRows /\ MergeSecond => RowInv'
<1> SUFFICES ASSUME JoinInv, RowInv, SlotsFollowRows, MergeSecond PROVE RowInv'
  OBVIOUS
<1>1. /\ pc = "second" /\ pc \in JoiningPcs /\ pc \in KeyedPcs /\ todo = {}
      /\ args' = args /\ keys' = keys /\ deq' = deq /\ headers' = headers /\ c_ids' = c_ids
      /\ ts_n_blanks' = ts_n_blanks
      /\ impl' = impl \o FlattenSeq(join_vec)
      /\ pc' = "cleanup"
  BY DEF MergeSecond, Untouched, Tables, JoiningPcs, KeyedPcs, Merged
<1>2. IsOuter /\ table = RightRows /\ PassedOnce(impl) /\ ~Inner
  BY <1>1 DEF RowInv, Keyed, Opened, FirstPassDone, Inner, IsOuter
<1>3. RowsOK(RightRows)
  BY <1>1, InProgress
<1> PICK slots : slots = join_vec
  OBVIOUS
<1>4. slots = [i \in DOMAIN RightRows |-> RightRow(RightRows[i])]
  BY <1>1, <1>2 DEF SlotsFollowRows, RowResult
<1>5. IsSeq(slots) /\ DOMAIN slots = DOMAIN RightRows
  <2>1. Len(RightRows) \in Nat /\ DOMAIN RightRows = 1..Len(RightRows)
    BY <1>3, IsSeqFacts DEF RowsOK
  <2>2. slots = [i \in 1..Len(RightRows) |-> slots[i]]
    BY <1>4, <2>1
  <2> QED BY <1>4, <2>1, <2>2, IsSeqFunction
<1>6. \A j \in DOMAIN slots : IsSeq(RightRows[j]) /\ slots[j] = RightRow(RightRows[j])
  BY <1>3, <1>4 DEF RowsOK
<1>7. \A j \in DOMAIN slots :
        /\ RowsOK(slots[j])
        /\ \/ Covered(RightRows[j], slots[j])
           \/ \E i \in DOMAIN LeftRows : SameKey(LeftRows[i], RightRows[j])
  BY <1>1, <1>6, RightRowFacts
<1> PICK found : found = FlattenSeq(slots)
  OBVIOUS
<1>8. /\ RowsOK(found)
      /\ \A j \in DOMAIN slots : \A r : Covered(r, slots[j]) => Covered(r, found)
  BY <1>5, <1>7, MergedRows
<1> PICK once : once = impl
  OBVIOUS
<1> PICK rows : rows = once \o found
  OBVIOUS
<1>9. RowsOK(once) /\ CoversAll(once, LeftRows)
  BY <1>2 DEF PassedOnce
<1>10. RowsOK(rows) /\ \A r : Covered(r, once) \/ Covered(r, found) => Covered(r, rows)
  BY <1>8, <1>9, ConcatRows
<1>11. CoversAll(rows, LeftRows)
  BY <1>9, <1>10 DEF CoversAll
<1>12. CoversAll(rows, RightRows)
  <2> SUFFICES ASSUME NEW j \in DOMAIN RightRows PROVE Covered(RightRows[j], rows)
    BY DEF CoversAll
  <2>1. CASE Covered(RightRows[j], slots[j])
    BY <1>5, <1>8, <1>10, <2>1
  <2>2. CASE \E i \in DOMAIN LeftRows : SameKey(LeftRows[i], RightRows[j])
    <3>1. Covered(RightRows[j], once)
      BY <1>2, <2>2 DEF PassedOnce
    <3> QED BY <1>10, <3>1
  <2> QED BY <1>5, <1>7, <2>1, <2>2
<1>13. Kept(rows, Joined + 1)
  BY <1>1, <1>2, <1>10, <1>11, <1>12, OneMoreFile
<1> QED BY <1>1, <1>13, RowsAdded

LEMMA NoBodySecondRows == JoinInv /\ RowInv /\ NoBodySecond => RowInv'
<1> SUFFICES ASSUME JoinInv, RowInv, NoBodySecond PROVE RowInv'
  OBVIOUS
<1> DEFINE padded == [i \in DOMAIN RunRows(deq[2]) |-> PadLeft(RunRows(deq[2])[i])]
<1>1. /\ pc = "no_body_2" /\ pc \in JoiningPcs /\ pc \in KeyedPcs
      /\ args' = args /\ keys' = keys /\ deq' = deq /\ headers' = headers /\ c_ids' = c_ids
      /\ ts_n_blanks' = ts_n_blanks /\ impl' = impl \o padded /\ pc' = "cleanup"
  BY DEF NoBodySecond, Untouched, Tables, JoiningPcs, KeyedPcs
<1>2. IsOuter /\ PassedOnce(impl) /\ ~Inner
  BY <1>1 DEF RowInv, Keyed, FirstPassDone, Inner, IsOuter
<1> PICK once : once = impl
  OBVIOUS
<1> PICK rest : rest = padded
  OBVIOUS
<1> PICK rows : rows = once \o rest
  OBVIOUS
<1>3. RowsOK(once) /\ CoversAll(once, LeftRows)
  BY <1>2 DEF PassedOnce
<1>4. RowsOK(rest) /\ CoversAll(rest, RightRows)
  BY <1>1, PaddedRight
<1>5. RowsOK(rows) /\ \A r : Covered(r, once) \/ Covered(r, rest) => Covered(r, rows)
  BY <1>3, <1>4, ConcatRows
<1>6. CoversAll(rows, LeftRows) /\ CoversAll(rows, RightRows)
  BY <1>3, <1>4, <1>5 DEF CoversAll
<1>7. Kept(rows, Joined + 1)
  BY <1>1, <1>2, <1>5, <1>6, OneMoreFile
<1> QED BY <1>1, <1>7, RowsAdded

LEMMA DisjointRows == JoinInv /\ RowInv /\ Disjoint => RowInv'
<1> SUFFICES ASSUME JoinInv, RowInv, Disjoint PROVE RowInv'
  OBVIOUS
<1> DEFINE left == [i \in DOMAIN RunRows(deq[1]) |-> PadRight(RunRows(deq[1])[i])]
           right == [i \in DOMAIN RunRows(deq[2]) |-> PadLeft(RunRows(deq[2])[i])]
<1>1. /\ pc = "disjoint" /\ pc \in JoiningPcs
      /\ args' = args /\ keys' = keys /\ deq' = deq /\ headers' = headers /\ c_ids' = c_ids
      /\ ts_n_blanks' = ts_n_blanks /\ pc' = "cleanup"
  BY DEF Disjoint, Untouched, Tables, JoiningPcs
<1>2. ~IsUnion
  BY <1>1 DEF RowInv, Keyed
<1> PICK l : l = left
  OBVIOUS
<1> PICK r : r = right
  OBVIOUS
<1>3. impl' = CASE args.kind = "inner" -> <<>> [] IsOuter -> l \o r [] OTHER -> l
  BY DEF Disjoint
<1>4. RowsOK(l) /\ CoversAll(l, LeftRows)
  BY <1>1, PaddedLeft
<1>5. RowsOK(r) /\ CoversAll(r, RightRows)
  BY <1>1, PaddedRight
<1> HIDE DEF left, right
<1> PICK rows : rows = impl'
  OBVIOUS
<1>6. CASE args.kind = "inner"
  <2>1. rows = <<>> /\ Inner /\ ~IsOuter
    BY <1>2, <1>3, <1>6 DEF Inner, IsOuter
  <2>2. Kept(rows, Joined + 1)
    BY <1>1, <1>2, <2>1, EmptyRows, OneMoreFile
  <2> QED BY <1>1, <2>2, RowsAdded
<1>7. CASE IsOuter
  <2>1. rows = l \o r /\ ~Inner
    BY <1>3, <1>7 DEF Inner, IsOuter
  <2>2. RowsOK(rows) /\ \A x : Covered(x, l) \/ Covered(x, r) => Covered(x, rows)
    BY <1>4, <1>5, <2>1, ConcatRows
  <2>3. CoversAll(rows, LeftRows) /\ CoversAll(rows, RightRows)
    BY <1>4, <1>5, <2>2 DEF CoversAll
  <2>4. Kept(rows, Joined + 1)
    BY <1>1, <2>1, <2>2, <2>3, OneMoreFile
  <2> QED BY <1>1, <2>4, RowsAdded
<1>8. CASE args.kind # "inner" /\ ~IsOuter
  <2>1. rows = l /\ ~Inner
    BY <1>3, <1>8 DEF Inner
  <2>2. Kept(rows, Joined + 1)
    BY <1>1, <1>2, <1>4, <1>8, <2>1, OneMoreFile
  <2> QED BY <1>1, <2>2, RowsAdded
<1> QED BY <1>6, <1>7, <1>8

LEMMA UnionRows == JoinInv /\ RowInv /\ Union => RowInv'
<1> SUFFICES ASSUME JoinInv, RowInv, Union PROVE RowInv'
  OBVIOUS
<1>1. /\ pc = "loop" /\ Len(deq) > 1 /\ IsUnion /\ ~EmptyFake
      /\ args' = args /\ keys' = keys /\ deq' = deq /\ headers' = headers /\ c_ids' = c_ids
      /\ ts_n_blanks' = ts_n_blanks /\ pc' = "cleanup"
  BY DEF Union, Untouched, Tables
<1> PICK l : l = RunRows(deq[1])
  OBVIOUS
<1> PICK r : r = RunRows(deq[2])
  OBVIOUS
<1> PICK w1 : w1 = SourceWidth(1)
  OBVIOUS
<1> PICK w2 : w2 = SourceWidth(2)
  OBVIOUS
<1> DEFINE n == IF Len(l) > Len(r) THEN Len(l) ELSE Len(r)
           a(i) == IF i \in DOMAIN l THEN l[i] ELSE Padding(w1)
           b(i) == IF i \in DOMAIN r THEN r[i] ELSE Padding(w2)
<1> PICK rows : rows = impl'
  OBVIOUS
<1>2. rows = [i \in 1..n |-> a(i) \o b(i)]
  BY DEF Union
<1>3. /\ RowsOK(l) /\ CoversAll(l, LeftRows) /\ RowsOK(r) /\ CoversAll(r, RightRows)
      /\ deq[2].kind = "reader" /\ deq[2].file \in File
      /\ 1 \in DOMAIN headers /\ 2 \in DOMAIN headers
      /\ deq[1].kind \in {"reader", "fake"}
      /\ deq[1].kind = "reader" => deq[1].file \in File
  <2>1. Len(headers) = Len(deq) /\ DOMAIN headers = 1..Len(headers) /\ DOMAIN deq = 1..Len(deq)
    BY <1>1, Sizes DEF JoinInv, Lockstep, Filled
  <2> QED BY <1>1, <2>1, InProgress DEF JoinInv, TypeOK, DeqOK
<1>4. /\ Len(l) \in Nat /\ DOMAIN l = 1..Len(l) /\ Len(r) \in Nat /\ DOMAIN r = 1..Len(r)
  BY <1>3, IsSeqFacts DEF RowsOK
<1>5. w1 \in Nat
  <2>1. CASE deq[1].kind = "fake"
    <3>1. l = deq[1].rows /\ l # <<>> /\ w1 = Len(l[1])
      BY <1>1, <2>1 DEF RunRows, EmptyFake, SourceWidth
    <3>2. 1 \in DOMAIN l
      <4>1. Len(l) # 0
        BY <1>3, <3>1, EmptySeq DEF RowsOK, IsSeq
      <4> QED BY <1>4, <4>1
    <3> QED BY <1>3, <3>1, <3>2, IsSeqFacts DEF RowsOK
  <2>2. CASE deq[1].kind = "reader"
    <3>1. w1 = Width(deq[1].file)
      BY <1>3, <2>2 DEF SourceWidth, RowInv, TablesFit, Width
    <3> QED BY <1>3, <2>2, <3>1, WidthFacts
  <2> QED BY <1>3, <2>1, <2>2
<1>6. w2 \in Nat
  <2>1. w2 = Width(deq[2].file)
    BY <1>3 DEF SourceWidth, RowInv, TablesFit, Width
  <2> QED BY <1>3, <2>1, WidthFacts
<1>7. \A i \in 1..n : IsSeq(a(i)) /\ IsSeq(b(i))
  BY <1>3, <1>5, <1>6, PaddingRow DEF RowsOK
<1>8. /\ (\A i \in DOMAIN l : i \in 1..n /\ a(i) = l[i])
      /\ (\A i \in DOMAIN r : i \in 1..n /\ b(i) = r[i])
      /\ n \in Nat
  BY <1>4
<1> HIDE DEF n, a, b
<1>9. \A i \in 1..n : /\ rows[i] = a(i) \o b(i) /\ IsSeq(rows[i])
                      /\ Has(rows[i], a(i)) /\ Has(rows[i], b(i))
  <2> TAKE i \in 1..n
  <2>1. rows[i] = a(i) \o b(i)
    BY <1>2
  <2> QED BY <1>7, <2>1, ConcatHas
<1>10. IsSeq(rows) /\ DOMAIN rows = 1..n
  <2>1. rows = [i \in 1..n |-> rows[i]]
    BY <1>2
  <2> QED BY <1>2, <1>8, <2>1, IsSeqFunction
<1>11. RowsOK(rows)
  BY <1>9, <1>10 DEF RowsOK
<1>12. CoversAll(rows, l) /\ CoversAll(rows, r)
  BY <1>8, <1>9, <1>10 DEF CoversAll, Covered
<1>13. CoversAll(rows, LeftRows) /\ CoversAll(rows, RightRows)
  BY <1>3, <1>12, CoverTrans
<1>14. Kept(rows, Joined + 1)
  BY <1>1, <1>11, <1>13, OneMoreFile DEF Inner
<1> QED BY <1>1, <1>14, RowsAdded

LEMMA FillRows == JoinInv /\ RowInv /\ Fill => RowInv'
<1> SUFFICES ASSUME JoinInv, RowInv, Fill PROVE RowInv'
  OBVIOUS
<1> PICK f : f = deq[Next0].file
  OBVIOUS
<1>1. /\ pc = "fill" /\ pc' \in {"loop", "fill"} /\ args' = args /\ keys' = keys
      /\ deq' = At(Next0, Body)
      /\ headers' = Append(headers, Names[f])
      /\ ts_n_blanks' = Append(ts_n_blanks, FileTypes(f))
  BY DEF Fill, Untouched
<1>2. /\ Len(headers) \in Nat /\ DOMAIN headers = 1..Len(headers) /\ IsSeq(headers)
      /\ IsSeq(ts_n_blanks) /\ Len(ts_n_blanks) = Len(headers)
      /\ Next0 = Len(headers) + 1 /\ Next0 \in DOMAIN deq /\ DOMAIN deq = 1..Len(deq)
  <2>1. /\ Len(headers) \in Nat /\ Len(deq) \in Nat /\ DOMAIN deq = 1..Len(deq)
        /\ DOMAIN headers = 1..Len(headers) /\ Len(ts_n_blanks) = Len(headers)
    BY Sizes
  <2>2. Len(headers) < Len(deq)
    BY <1>1 DEF JoinInv, Lockstep, Filled
  <2>3. IsSeq(headers) /\ ts_n_blanks \in Seq(TableTypes)
    BY DEF JoinInv, TypeOK, TablesOK
  <2>4. IsSeq(ts_n_blanks)
    BY <2>3, SeqIsSeq
  <2> QED BY <2>1, <2>2, <2>3, <2>4 DEF Next0
<1>3. deq[Next0].kind = "reader" /\ f \in File
  <2>1. CASE Next0 # 1
    BY <1>2, <2>1 DEF JoinInv, TypeOK, DeqOK
  <2>2. CASE Next0 = 1
    BY <1>1, <1>2, <2>2 DEF JoinInv, Phases, TypeOK, DeqOK
  <2> QED BY <2>1, <2>2
<1>4. \E i \in DOMAIN deq : deq[i].kind = "reader" /\ \E p \in 0..Body : deq' = At(i, p)
  <2>1. Body \in 0..Body
    BY BodyFacts
  <2> QED BY <1>1, <1>2, <1>3, <2>1
<1>5. /\ SourcesOK' /\ Joined' = Joined
      /\ \A i \in DOMAIN deq : /\ deq'[i].kind = deq[i].kind
                               /\ deq[i].kind = "reader" => deq'[i].file = deq[i].file
  BY <1>1, <1>4, SourcesMove
<1>6. TablesFit'
  <2> PICK header : header = Names[f]
    OBVIOUS
  <2> PICK types : types = FileTypes(f)
    OBVIOUS
  <2> PICK h : h = headers
    OBVIOUS
  <2> PICK t : t = ts_n_blanks
    OBVIOUS
  <2>1. /\ DOMAIN Append(h, header) = 1..(Len(h) + 1)
        /\ \A i \in 1..Len(h) : Append(h, header)[i] = h[i]
        /\ Append(h, header)[Len(h) + 1] = header
    <3>1. IsSeq(h) /\ Len(h) \in Nat
      BY <1>2
    <3> DEFINE S == {h[i] : i \in DOMAIN h} \cup {header}
    <3>2. \A i \in DOMAIN h : h[i] \in S
      OBVIOUS
    <3>3. header \in S
      OBVIOUS
    <3> HIDE DEF S
    <3>4. h \in Seq(S)
      BY <3>1, <3>2, IsSeqIn
    <3>5. IsSeq(Append(h, header)) /\ Len(Append(h, header)) = Len(h) + 1
      BY <3>1, IsSeqAppend
    <3> QED BY <3>3, <3>4, <3>5, IsSeqFacts, AppendProperties
  <2>2. /\ \A i \in 1..Len(t) : Append(t, types)[i] = t[i]
        /\ Append(t, types)[Len(t) + 1] = types
    <3>1. t \in Seq(TableTypes) /\ types \in TableTypes
      BY <1>3, FileTypesTyped DEF JoinInv, TypeOK, TablesOK
    <3> QED BY <3>1, AppendProperties
  <2>3. headers' = Append(h, header) /\ ts_n_blanks' = Append(t, types) /\ Len(t) = Len(h)
    BY <1>1, <1>2
  <2> SUFFICES ASSUME NEW i \in DOMAIN headers', deq'[i].kind = "reader"
               PROVE  /\ headers'[i] = Names[deq'[i].file]
                      /\ Len(ts_n_blanks'[i].types) = Len(Names[deq'[i].file])
    BY DEF TablesFit, Width
  <2>4. CASE i = Next0
    <3>1. headers'[i] = header /\ ts_n_blanks'[i] = types
      BY <1>2, <2>1, <2>2, <2>3, <2>4
    <3>2. deq'[i].file = f
      BY <1>2, <1>3, <1>5, <2>4
    <3> QED BY <1>3, <3>1, <3>2, FileTypesTyped DEF Width
  <2>5. CASE i # Next0
    <3>1. i \in 1..Len(headers) /\ i \in DOMAIN headers
      BY <1>2, <2>1, <2>3, <2>5
    <3>2. headers'[i] = headers[i] /\ ts_n_blanks'[i] = ts_n_blanks[i]
      BY <2>1, <2>2, <2>3, <3>1
    <3>3. i \in DOMAIN deq
      <4>1. Len(headers) + 1 \in 1..Len(deq)
        BY <1>2
      <4> QED BY <1>2, <3>1, <4>1
    <3> QED BY <1>5, <3>1, <3>2, <3>3 DEF RowInv, TablesFit, Width
  <2> QED BY <2>4, <2>5
<1>7. Chosen' /\ Keyed' /\ Opened' /\ FirstPassDone' /\ JoinDone' /\ Printed'
  BY <1>1 DEF RowInv, Chosen, Keyed, KeyedPcs, Opened, FirstPassDone, JoinDone, Printed
<1> QED BY <1>5, <1>6, <1>7 DEF RowInv

\* The table of two elements that have become one, the others as they were.
LEMMA HeadReplaced ==
  ASSUME NEW s, IsSeq(s), Len(s) > 1,
         NEW r, IsSeq(r), Len(r) = Len(s), \A i \in DOMAIN s : i # 1 => r[i] = s[i]
  PROVE  /\ IsSeq(DropSecond(r)) /\ Len(DropSecond(r)) = Len(s) - 1
         /\ \A i \in 2..(Len(s) - 1) : DropSecond(r)[i] = s[i + 1]
<1>1. Len(s) \in Nat /\ DOMAIN s = 1..Len(s)
  BY IsSeqFacts
<1> PICK t : t = DropSecond(r)
  OBVIOUS
<1>2. IsSeq(t) /\ Len(t) = Len(r) - 1 /\ \A i \in 2..Len(t) : t[i] = r[i + 1]
  BY DropSecondFacts
<1>3. \A i \in 2..(Len(s) - 1) : i + 1 \in DOMAIN s /\ i + 1 # 1
  BY <1>1
<1> QED BY <1>1, <1>2, <1>3

LEMMA CleanupRows == JoinInv /\ RowInv /\ Cleanup => RowInv'
<1> SUFFICES ASSUME JoinInv, RowInv, Cleanup PROVE RowInv'
  OBVIOUS
<1>1. PICK header, types :
        /\ pc = "cleanup" /\ pc \in JoiningPcs /\ args' = args /\ keys' = keys /\ impl' = impl
        /\ \/ /\ pc' = "failed" /\ deq' = deq /\ headers' = headers /\ c_ids' = c_ids
              /\ ts_n_blanks' = ts_n_blanks
           \/ /\ pc' = "loop"
              /\ deq' = <<Fake(impl)>> \o SubSeq(deq, 3, Len(deq))
              /\ headers' = DropSecond([headers EXCEPT ![1] = header])
              /\ ts_n_blanks' = DropSecond([ts_n_blanks EXCEPT ![1] = types])
  BY DEF Cleanup, Untouched, JoiningPcs
<1>2. Keyed' /\ Opened' /\ FirstPassDone' /\ JoinDone' /\ Printed'
  BY <1>1 DEF Keyed, KeyedPcs, Opened, FirstPassDone, JoinDone, Printed
<1>3. Chosen'
  BY <1>1 DEF RowInv, Chosen
<1>4. CASE pc' = "failed"
  BY <1>1, <1>2, <1>4, JoinStays DEF RowInv
<1>5. CASE pc' = "loop"
  <2> PICK fake : fake = Fake(impl)
    OBVIOUS
  <2>1. /\ Len(deq) > 1 /\ Len(deq) \in Nat /\ DOMAIN deq = 1..Len(deq) /\ IsSeq(deq)
        /\ Len(headers) = Len(deq) /\ DOMAIN headers = 1..Len(deq) /\ IsSeq(headers)
        /\ Len(ts_n_blanks) = Len(deq) /\ DOMAIN ts_n_blanks = 1..Len(deq) /\ IsSeq(ts_n_blanks)
    <3>1. Len(deq) > 1 /\ Len(headers) = Len(deq)
      BY <1>1 DEF JoinInv, Phases, Lockstep, Filled
    <3>2. IsSeq(deq) /\ IsSeq(headers) /\ ts_n_blanks \in Seq(TableTypes)
      BY DEF JoinInv, TypeOK, DeqOK, TablesOK
    <3>3. IsSeq(ts_n_blanks)
      BY <3>2, SeqIsSeq
    <3> QED BY <3>1, <3>2, <3>3, Sizes
  <2>2. /\ IsSeq(deq') /\ Len(deq') = Len(deq) - 1 /\ deq'[1] = fake
        /\ \A i \in 2..(Len(deq) - 1) : deq'[i] = deq[i + 1]
        /\ DOMAIN deq' = 1..(Len(deq) - 1)
    <3>1. deq' = <<fake>> \o SubSeq(deq, 3, Len(deq))
      BY <1>1, <1>5
    <3>2. /\ IsSeq(deq') /\ Len(deq') = Len(deq) - 1 /\ deq'[1] = fake
          /\ \A i \in 2..(Len(deq) - 1) : deq'[i] = deq[i + 1]
      BY <2>1, <3>1, TwoBecomeOne
    <3> QED BY <3>2, IsSeqFacts
  <2>3. /\ DOMAIN headers' = 1..(Len(deq) - 1)
        /\ \A i \in 2..(Len(deq) - 1) : headers'[i] = headers[i + 1]
    <3> PICK s : s = headers
      OBVIOUS
    <3>1. IsSeq(s) /\ Len(s) > 1 /\ Len(s) = Len(deq) /\ 1 \in DOMAIN s
      BY <2>1, IsSeqFacts
    <3>2. PICK r : /\ headers' = DropSecond(r) /\ IsSeq(r) /\ Len(r) = Len(s)
                   /\ \A i \in DOMAIN s : i # 1 => r[i] = s[i]
      <4> PICK e : e = [s EXCEPT ![1] = header]
        OBVIOUS
      <4>1. IsSeq(e) /\ Len(e) = Len(s) /\ \A i \in DOMAIN s : i # 1 => e[i] = s[i]
        BY <3>1, IsSeqExcept
      <4>2. headers' = DropSecond(e)
        BY <1>1, <1>5
      <4> QED BY <4>1, <4>2
    <3>3. /\ IsSeq(DropSecond(r)) /\ Len(DropSecond(r)) = Len(s) - 1
          /\ \A i \in 2..(Len(s) - 1) : DropSecond(r)[i] = s[i + 1]
      BY <3>1, <3>2, HeadReplaced
    <3> QED BY <3>1, <3>2, <3>3, IsSeqFacts
  <2>4. \A i \in 2..(Len(deq) - 1) : ts_n_blanks'[i] = ts_n_blanks[i + 1]
    <3> PICK s : s = ts_n_blanks
      OBVIOUS
    <3>1. IsSeq(s) /\ Len(s) > 1 /\ Len(s) = Len(deq) /\ 1 \in DOMAIN s
      BY <2>1, IsSeqFacts
    <3>2. PICK r : /\ ts_n_blanks' = DropSecond(r) /\ IsSeq(r) /\ Len(r) = Len(s)
                   /\ \A i \in DOMAIN s : i # 1 => r[i] = s[i]
      <4> PICK e : e = [s EXCEPT ![1] = types]
        OBVIOUS
      <4>1. IsSeq(e) /\ Len(e) = Len(s) /\ \A i \in DOMAIN s : i # 1 => e[i] = s[i]
        BY <3>1, IsSeqExcept
      <4>2. ts_n_blanks' = DropSecond(e)
        BY <1>1, <1>5
      <4> QED BY <4>1, <4>2
    <3>3. /\ IsSeq(DropSecond(r)) /\ Len(DropSecond(r)) = Len(s) - 1
          /\ \A i \in 2..(Len(s) - 1) : DropSecond(r)[i] = s[i + 1]
      BY <3>1, <3>2, HeadReplaced
    <3> QED BY <3>1, <3>2, <3>3
  <2>5. /\ N \in Nat /\ Joined = N - Len(deq) + 1 /\ Joined' = Joined + 1
        /\ Joined' \in 1..N /\ Joined \in Nat
    <3>1. N \in Nat /\ Joined + 1 \in 1..N /\ Joined \in Nat
      BY <1>1, SourcesFacts, InProgress
    <3>2. Joined = N - Len(deq) + 1 /\ Joined' = N - (Len(deq) - 1) + 1
      BY <2>2 DEF Joined, N
    <3> QED BY <2>1, <3>1, <3>2
  <2>6. fake.kind = "fake" /\ fake.rows = impl
    BY DEF Fake
  <2>7. \A i \in DOMAIN deq' : i = 1 \/ (i \in 2..(Len(deq) - 1) /\ i + 1 \in DOMAIN deq)
    BY <2>1, <2>2
  <2>8. SourcesOK'
    <3>1. \A i \in DOMAIN deq' : deq'[i].kind = "reader" =>
            deq'[i].file = Sources'[Joined' + i - 1].file /\ deq'[i].pos \in 0..Body
      <4> SUFFICES ASSUME NEW i \in DOMAIN deq', deq'[i].kind = "reader"
                   PROVE  deq'[i].file = Sources'[Joined' + i - 1].file /\ deq'[i].pos \in 0..Body
        OBVIOUS
      <4>1. i \in 2..(Len(deq) - 1) /\ i + 1 \in DOMAIN deq /\ deq'[i] = deq[i + 1]
        BY <2>2, <2>6, <2>7
      <4>2. Joined' + i - 1 = Joined + (i + 1) - 1
        BY <2>5, <4>1
      <4>3. Sources' = Sources
        BY <1>1, SameCommand
      <4> QED BY <4>1, <4>2, <4>3 DEF RowInv, SourcesOK, Nth
    <3>2. Kept(deq[1].rows, Joined)'
      <4> PICK rows : rows = impl
        OBVIOUS
      <4> PICK k : k = Joined + 1
        OBVIOUS
      <4>1. Kept(rows, k)
        BY <1>1 DEF RowInv, JoinDone
      <4>2. deq'[1].rows = rows /\ Joined' = k
        BY <2>2, <2>5, <2>6
      <4> QED BY <1>1, <4>1, <4>2, KeptFake
    <3> QED BY <2>2, <2>5, <2>6, <3>1, <3>2 DEF SourcesOK, Nth, N, Body
  <2>9. TablesFit'
    <3> SUFFICES ASSUME NEW i \in DOMAIN headers', deq'[i].kind = "reader"
                 PROVE  /\ headers'[i] = Names[deq'[i].file]
                        /\ Len(ts_n_blanks'[i].types) = Len(Names[deq'[i].file])
      BY DEF TablesFit, Width
    <3>1. i \in 2..(Len(deq) - 1) /\ i + 1 \in DOMAIN headers
      BY <2>1, <2>2, <2>3, <2>6, <2>7
    <3> QED BY <2>2, <2>3, <2>4, <3>1 DEF RowInv, TablesFit, Width
  <2> QED BY <1>2, <1>3, <2>8, <2>9 DEF RowInv
<1> QED BY <1>1, <1>4, <1>5

\* The steps that end join(), and no step at all.
LEMMA EndRows ==
  ASSUME JoinInv, RowInv,
         FillRejected \/ UnionOfEmpty \/ PrintResults \/ Finished \/ UNCHANGED vars
  PROVE  RowInv'
<1>1. /\ args' = args /\ keys' = keys /\ deq' = deq /\ headers' = headers /\ c_ids' = c_ids
      /\ ts_n_blanks' = ts_n_blanks /\ impl' = impl /\ hash' = hash /\ table' = table
      /\ \/ pc' \in {"rejected", "undefined", "failed"}
         \/ pc' = "done" /\ Len(deq) = 1
         \/ pc' = pc
  BY DEF FillRejected, UnionOfEmpty, PrintResults, Finished, vars, Untouched, Tables, NoWork
<1>2. Chosen' /\ SourcesOK' /\ TablesFit' /\ Len(deq') = Len(deq)
  BY <1>1, SourcesStay
<1>3. CASE pc' \in {"rejected", "undefined", "failed"} \/ (pc' = "done" /\ Len(deq) = 1)
  BY <1>2, <1>3 DEF RowInv, Keyed, KeyedPcs, Opened, FirstPassDone, JoinDone, Printed
<1>4. CASE pc' = pc /\ pc \notin JoiningPcs
  BY <1>2, <1>4 DEF RowInv, Keyed, KeyedPcs, Opened, FirstPassDone, JoinDone, Printed, JoiningPcs
<1>5. CASE pc' = pc /\ pc \in JoiningPcs
  <2>1. /\ LeftRows' = LeftRows /\ RightRows' = RightRows /\ Joined' = Joined
        /\ SameTypes' = SameTypes /\ IsUnion' = IsUnion /\ IsOuter' = IsOuter
        /\ NewHash(RightRows, 2)' = NewHash(RightRows, 2)
        /\ NewHash(LeftRows, 1)' = NewHash(LeftRows, 1)
    BY <1>1, <1>5, JoinStays
  <2>2. Keyed'
    BY <1>1, <1>5, <2>1 DEF RowInv, Keyed
  <2>3. Opened'
    BY <1>1, <1>5, <2>1 DEF RowInv, Opened
  <2> PICK rows : rows = impl
    OBVIOUS
  <2>4. FirstPassDone'
    <3>1. pc \in {"hash_left", "second", "no_body_2"} => PassedOnce(rows)
      BY DEF RowInv, FirstPassDone
    <3>2. pc \in {"hash_left", "second", "no_body_2"} => PassedOnce(impl)'
      BY <1>1, <2>1, <3>1, PassedOnceKept
    <3> QED BY <1>5, <3>2 DEF FirstPassDone
  <2>5. JoinDone'
    <3> PICK k : k = Joined + 1
      OBVIOUS
    <3>1. pc = "cleanup" => Kept(rows, k)
      BY DEF RowInv, JoinDone
    <3>2. pc = "cleanup" => Kept(impl, Joined + 1)'
      BY <1>1, <2>1, <3>1, KeptResult
    <3> QED BY <1>5, <3>2 DEF JoinDone
  <2>6. Printed'
    BY <1>5 DEF Printed, JoiningPcs
  <2> QED BY <1>2, <2>2, <2>3, <2>4, <2>5, <2>6 DEF RowInv
<1> QED BY <1>1, <1>3, <1>4, <1>5

LEMMA RowInvInit == Init => RowInv
<1> SUFFICES ASSUME Init PROVE RowInv
  OBVIOUS
<1>1. /\ pc = "fill" /\ deq = Sources /\ headers = <<>> /\ Chosen
  BY DEF Init, Chosen
<1>2. Joined = 1 /\ N \in Nat \ {0}
  BY <1>1, SourcesFacts DEF Joined
<1>3. \A i \in DOMAIN Sources : Sources[i].kind = "reader" /\ Sources[i].pos = 0
  <2>1. N \in Nat \ {0} /\ File = 1..N
    BY TablesAssumption, LenProperties, EmptySeq DEF File, N
  <2> DEFINE t == [f \in File |-> Reader(f, 0)]
  <2>2. \A f \in 1..N : t[f].kind = "reader" /\ t[f].pos = 0
    BY <2>1 DEF Reader
  <2>3. CASE args.kind = "right"
    <3>1. t = [f \in 1..N |-> t[f]]
      BY <2>1
    <3> HIDE DEF t
    <3>2. Len(t) = N
      BY <2>1, <3>1, IsSeqFunction
    <3>3. Sources = [i \in 1..N |-> t[(N - i) + 1]]
      BY <2>3, <3>2 DEF Sources, Ordered, Reverse, t
    <3>4. \A i \in 1..N : (N - i) + 1 \in 1..N
      BY <2>1
    <3> QED BY <2>2, <3>3, <3>4
  <2>4. CASE args.kind # "right"
    BY <2>1, <2>2, <2>4 DEF Sources, Ordered
  <2> QED BY <2>3, <2>4
<1>4. SourcesOK
  <2>1. \A i \in DOMAIN Sources : i \in Int /\ Joined + i - 1 = i
    BY <1>2, SourcesFacts, IsSeqFacts
  <2>2. 1 \in DOMAIN Sources
    BY SourcesFacts, IsSeqFacts
  <2> QED BY <1>1, <1>2, <1>3, <2>1, <2>2, BodyFacts DEF SourcesOK, Nth
<1>5. TablesFit
  BY <1>1 DEF TablesFit
<1>6. Keyed /\ Opened /\ FirstPassDone /\ JoinDone /\ Printed
  BY <1>1 DEF Keyed, KeyedPcs, Opened, FirstPassDone, JoinDone, Printed
<1> QED BY <1>1, <1>4, <1>5, <1>6 DEF RowInv

LEMMA RowInvStep == JoinInv /\ SlotsFollowRows /\ RowInv /\ [Next]_vars => RowInv'
<1> SUFFICES ASSUME JoinInv, SlotsFollowRows, RowInv, [Next]_vars PROVE RowInv'
  OBVIOUS
<1>1. CASE Fill
  BY <1>1, FillRows
<1>2. CASE CanCompare
  BY <1>2, CanCompareRows
<1>3. CASE HashRight \/ OpenLeft \/ HashLeft
  BY <1>3, HashRightRows, OpenLeftRows, HashLeftRows
<1>4. CASE (\E i \in todo : WorkFirst(i)) \/ (\E i \in todo : WorkSecond(i))
  BY <1>4, WorkRows
<1>5. CASE MergeFirst \/ NoBody \/ MergeSecond \/ NoBodySecond
  BY <1>5, MergeFirstRows, NoBodyRows, MergeSecondRows, NoBodySecondRows
<1>6. CASE Disjoint \/ Union
  BY <1>6, DisjointRows, UnionRows
<1>7. CASE Cleanup
  BY <1>7, CleanupRows
<1>8. CASE FillRejected \/ UnionOfEmpty \/ PrintResults \/ Finished \/ UNCHANGED vars
  BY <1>8, EndRows
<1> QED BY <1>1, <1>2, <1>3, <1>4, <1>5, <1>6, <1>7, <1>8 DEF Next

LEMMA RowInvHolds == Spec => []RowInv
BY RowInvInit, RowInvStep, JoinInvHolds, SlotsHold, PTL DEF Spec

LEMMA EveryFileHasAPlace ==
  ASSUME NEW f \in File
  PROVE  \E j \in 1..N : Nth(j) = f
<1>1. N \in Nat \ {0} /\ File = 1..N
  BY TablesAssumption, LenProperties, EmptySeq DEF File, N
<1> DEFINE t == [g \in File |-> Reader(g, 0)]
<1>2. \A g \in 1..N : t[g].file = g
  BY <1>1 DEF Reader
<1>3. CASE args.kind = "right"
  <2>1. t = [g \in 1..N |-> t[g]]
    BY <1>1
  <2> HIDE DEF t
  <2>2. Len(t) = N
    BY <1>1, <2>1, IsSeqFunction
  <2>3. Sources = [i \in 1..N |-> t[(N - i) + 1]]
    BY <1>3, <2>2 DEF Sources, Ordered, Reverse, t
  <2>4. (N - f) + 1 \in 1..N /\ (N - ((N - f) + 1)) + 1 = f
    BY <1>1
  <2>5. Sources[(N - f) + 1] = t[f]
    BY <2>3, <2>4
  <2> QED BY <1>1, <1>2, <2>4, <2>5 DEF Nth
<1>4. CASE args.kind # "right"
  BY <1>1, <1>2, <1>4 DEF Sources, Ordered, Nth
<1> QED BY <1>3, <1>4

LEMMA PrintedRows ==
  ASSUME JoinInv, RowInv
  PROVE  NothingLost
<1> SUFFICES ASSUME pc = "done" PROVE NothingLost
  BY DEF NothingLost
<1>1. Len(deq) = 1 /\ 1 \in DOMAIN deq /\ Joined = N /\ N \in Nat \ {0}
  <2>1. Len(deq) = 1 /\ N \in Nat \ {0} /\ Joined = N - Len(deq) + 1
    BY SourcesFacts DEF RowInv, Printed, Joined
  <2>2. 1 \in DOMAIN deq
    <3>1. DOMAIN deq = 1..Len(deq)
      BY Sizes
    <3> QED BY <2>1, <3>1
  <2>3. Joined = N
    BY <2>1
  <2> QED BY <2>1, <2>2, <2>3
<1> PICK rows : rows = RunRows(deq[1])
  OBVIOUS
<1>2. Kept(rows, N)
  <2>1. CASE deq[1].kind = "fake"
    <3>1. rows = deq[1].rows
      BY <2>1 DEF RunRows
    <3> QED BY <1>1, <2>1, <3>1 DEF RowInv, SourcesOK
  <2>2. CASE deq[1].kind # "fake"
    <3>1. deq[1].kind = "reader" /\ deq[1].file \in File
      BY <1>1, <2>2 DEF JoinInv, TypeOK, DeqOK
    <3>2. N = 1
      BY <1>1, <3>1 DEF RowInv, SourcesOK
    <3>3. deq[1].file = Nth(1) /\ deq[1].pos \in 0..Body
      BY <1>1, <3>1, <3>2 DEF RowInv, SourcesOK
    <3>4. KeysOK
      <4>1. \A f \in File : keys[f] \in Seq(KeyValue)
        BY InputsAssumption DEF RowInv, Chosen
      <4> QED BY <4>1, LenProperties DEF KeysOK
    <3>5. RowsOK(rows) /\ NoPad(rows) /\ Appears(Nth(1), rows)
      BY <3>1, <3>3, <3>4, ReaderRows
    <3>6. \A j \in Due(N) : j = 1
      BY <3>2 DEF Due
    <3> QED BY <3>5, <3>6 DEF Kept
  <2> QED BY <2>1, <2>2
<1>3. IsOuter \/ IsUnion => \A f \in File : Appears(f, rows)
  <2> SUFFICES ASSUME IsOuter \/ IsUnion, NEW f \in File PROVE Appears(f, rows)
    OBVIOUS
  <2>1. PICK j \in 1..N : Nth(j) = f
    BY EveryFileHasAPlace
  <2>2. j \in Due(N)
    BY DEF Due
  <2> QED BY <1>2, <2>1, <2>2 DEF Kept
<1>4. args.kind \in {"left", "right"} => Appears(Nth(1), rows)
  <2>1. 1 \in 1..N
    BY <1>1
  <2>2. args.kind \in {"left", "right"} => 1 \in Due(N)
    BY <2>1 DEF Due
  <2> QED BY <1>2, <2>2 DEF Kept
<1>5. args.kind = "inner" /\ ~IsUnion =>
        \A i \in DOMAIN rows : \A c \in DOMAIN rows[i] : rows[i][c] # Pad
  BY <1>2 DEF Kept, Inner, NoPad, Full
<1> QED BY <1>3, <1>4, <1>5 DEF NothingLost

\* In the printed table every row of every file of an outer or a union join has its
\* place, every row of the first file of a left join and of the last of a right join,
\* and an inner join has no padding: whatever the files contain, whatever the types
\* of the keys, in any order of the workers, through any number of files.
THEOREM NothingLostHolds == Spec => []NothingLost
BY PrintedRows, JoinInvHolds, RowInvHolds, PTL

-------------------------------------------------------------------------------
(* The columns of a table.                                                   *)

\* Every row of a table has the given columns, and so has a header.
Fits(rows, cols) == \A i \in DOMAIN rows : RowFits(rows[i], cols)
HeaderFits(header, cols) ==
  /\ IsSeq(header) /\ Len(header) = Len(cols)
  /\ \A c \in DOMAIN cols : IsPrefix(Names[cols[c][1]][cols[c][2]], header[c])

\* The key columns are those of the command line, each in its file, of
\* which it is a column; that of the first file stays where it was.
KeyPlaces ==
  /\ \A i \in DOMAIN c_ids : c_ids[i] = JoinColumns[IF i = 1 THEN 1 ELSE Joined + i - 1]
  /\ ~IsUnion => \A i \in 1..(IF Filled THEN N ELSE Len(headers)) :
                   JoinColumns[i] \in 1..Width(Nth(i))

\* The table joined so far and its header and types have its columns.
JoinedFits ==
  deq[1].kind = "fake" =>
    /\ Fits(deq[1].rows, JoinedColumns(Joined))
    /\ HeaderFits(headers[1], JoinedColumns(Joined))
    /\ Len(ts_n_blanks[1].types) = Len(JoinedColumns(Joined))

\* So does the result of the join in progress, with the columns of one more file.
ResultFits ==
  pc \in {"hash_left", "second", "no_body_2", "cleanup"} => Fits(impl, JoinedColumns(Joined + 1))

ShapeInv == ValidArgs(args) /\ KeyPlaces /\ JoinedFits /\ ResultFits

-------------------------------------------------------------------------------
(* The types of the key columns.                                             *)

\* What a column is said to hold is true of its cells: no null where no blanks are
\* announced, nothing but nulls and numerals in a column of numbers.
Told(type, blanks, v) ==
  /\ Absent(v) => blanks
  /\ type = "number" => v \in Numerals \/ Absent(v)
ColumnTold(type, blanks, c, rows) == \A j \in DOMAIN rows : Told(type, blanks, Value(rows[j][c]))
KeyTold(i, rows) == ColumnTold(KeyTypeOf(i), KeyBlanks(i), c_ids[i], rows)
SourceRows(i) == IF deq[i].kind = "fake" THEN deq[i].rows ELSE BodyRows(deq[i].file)

\* It is, as long as there is another table to be joined.
KeysTold ==
  \A i \in DOMAIN c_ids : Len(deq) > 1 \/ i > 1 =>
    /\ KeyTold(i, SourceRows(i))
    /\ deq[i].kind = "reader" /\ keys[deq[i].file] = <<>> => KeyTypeOf(i) # "number"

\* The first reader is on its first data row until its rows are read; one that is
\* read from another line has none.
OnBody ==
  /\ pc \in {"fill", "loop", "hash_right", "open_left", "disjoint"} /\ headers # <<>> =>
       (deq[1].kind = "reader" => deq[1].pos = Body)
  /\ pc = "no_body" => KeyTold(1, RunRows(deq[1]))

\* An outer join that has added no row of the right table keeps what is said of the
\* keys of the left one.
ResultTold ==
  pc \in {"hash_left", "second", "no_body_2", "cleanup"} /\ ~IsUnion =>
    (IsOuter /\ recalculate) \/ KeyTold(1, impl)
Unadded ==
  pc = "second" /\ ~recalculate =>
    \A i \in DOMAIN table \ todo : RightRow(table[i]) = <<>>

KeyInv == pc # "terminated" /\ KeysTold /\ OnBody /\ ResultTold /\ Unadded

-------------------------------------------------------------------------------
(* Rows and columns.                                                         *)

\* A sequence without its i-th element.
LEMMA RemoveAtShift ==
  ASSUME NEW s, IsSeq(s), NEW i \in DOMAIN s
  PROVE  /\ IsSeq(RemoveAt(s, i)) /\ Len(RemoveAt(s, i)) = Len(s) - 1
         /\ \A c \in 1..(Len(s) - 1) :
              /\ (IF c < i THEN c ELSE c + 1) \in DOMAIN s
              /\ RemoveAt(s, i)[c] = s[IF c < i THEN c ELSE c + 1]
<1> DEFINE a == SubSeq(s, 1, i - 1)
           b == SubSeq(s, i + 1, Len(s))
           n == Len(s)
<1> PICK r : r = RemoveAt(s, i)
  OBVIOUS
<1>1. n \in Nat /\ DOMAIN s = 1..n /\ i \in 1..n /\ i \in Nat
  BY IsSeqFacts
<1>2. IsSeq(a) /\ Len(a) = i - 1 /\ \A c \in 1..(i - 1) : a[c] = s[c]
  <2>1. i - 1 \in 0..Len(s)
    BY <1>1
  <2> QED BY <2>1, IsSeqPrefix
<1>3. IsSeq(b) /\ Len(b) = n - i /\ \A c \in 1..(n - i) : b[c] = s[i + c]
  <2>1. IsSeq(b) /\ Len(b) = n - i /\ \A c \in 1..(n - i) : b[c] = s[(i + 1) + c - 1]
    <3> DEFINE S == {s[c] : c \in DOMAIN s}
    <3>1. \A c \in (i + 1)..n : s[c] \in S
      BY <1>1
    <3> HIDE DEF S
    <3>2. i + 1 \in Int /\ n \in Int /\ n - (i + 1) + 1 = n - i
          /\ (IF i + 1 <= n THEN n - (i + 1) + 1 ELSE 0) = n - i
      BY <1>1
    <3>3. b \in Seq(S) /\ Len(b) = n - i /\ \A c \in 1..(n - i) : b[c] = s[(i + 1) + c - 1]
      BY <3>1, <3>2, SubSeqProperties
    <3> QED BY <3>3, SeqIsSeq
  <2>2. \A c \in 1..(n - i) : (i + 1) + c - 1 = i + c
    BY <1>1
  <2> QED BY <2>1, <2>2
<1>4. r = a \o b
  BY DEF RemoveAt
<1>0. IsSeq(a) /\ IsSeq(b)
  BY <1>2, <1>3
<1> HIDE DEF a, b
<1>5. /\ IsSeq(r) /\ Len(r) = (i - 1) + (n - i)
      /\ \A c \in 1..(i - 1) : r[c] = a[c]
      /\ \A c \in 1..(n - i) : r[(i - 1) + c] = b[c]
  <2>1. /\ IsSeq(r) /\ Len(r) = Len(a) + Len(b)
        /\ \A c \in 1..Len(a) : r[c] = a[c]
        /\ \A c \in 1..Len(b) : r[Len(a) + c] = b[c]
    BY <1>0, <1>4, IsSeqConcat
  <2> QED BY <1>2, <1>3, <2>1
<1>6. Len(r) = n - 1
  BY <1>1, <1>5
<1>7. ASSUME NEW c \in 1..(n - 1)
      PROVE  (IF c < i THEN c ELSE c + 1) \in DOMAIN s /\ r[c] = s[IF c < i THEN c ELSE c + 1]
  <2>1. CASE c < i
    <3>1. c \in 1..(i - 1) /\ c \in 1..n
      BY <1>1, <2>1
    <3> QED BY <1>1, <1>2, <1>5, <2>1, <3>1
  <2>2. CASE ~(c < i)
    <3>1. /\ c - (i - 1) \in 1..(n - i) /\ (i - 1) + (c - (i - 1)) = c
          /\ i + (c - (i - 1)) = c + 1 /\ c + 1 \in 1..n
      BY <1>1, <2>2
    <3>2. r[c] = b[c - (i - 1)] /\ b[c - (i - 1)] = s[i + (c - (i - 1))]
      BY <1>3, <1>5, <3>1
    <3>3. r[c] = s[c + 1] /\ c + 1 \in DOMAIN s
      BY <1>1, <3>1, <3>2
    <3> QED BY <2>2, <3>3
  <2> QED BY <2>1, <2>2
<1> QED BY <1>5, <1>6, <1>7

\* A sequence of the elements of one and then those of another.
Joins(s, a, b) ==
  /\ IsSeq(s) /\ Len(s) = Len(a) + Len(b)
  /\ \A c \in DOMAIN a : c \in DOMAIN s /\ s[c] = a[c]
  /\ \A c \in DOMAIN b : Len(a) + c \in DOMAIN s /\ s[Len(a) + c] = b[c]
  /\ \A c \in DOMAIN s : \/ c \in DOMAIN a /\ s[c] = a[c]
                         \/ c - Len(a) \in DOMAIN b /\ s[c] = b[c - Len(a)]

LEMMA ConcatJoins ==
  ASSUME NEW a, IsSeq(a), NEW b, IsSeq(b)
  PROVE  Joins(a \o b, a, b)
<1> DEFINE s == a \o b
<1>1. /\ Len(a) \in Nat /\ DOMAIN a = 1..Len(a)
      /\ Len(b) \in Nat /\ DOMAIN b = 1..Len(b)
  BY IsSeqFacts
<1>2. /\ IsSeq(s) /\ Len(s) = Len(a) + Len(b)
      /\ \A c \in 1..Len(a) : s[c] = a[c]
      /\ \A c \in 1..Len(b) : s[Len(a) + c] = b[c]
  BY IsSeqConcat
<1> HIDE DEF s
<1>3. DOMAIN s = 1..(Len(a) + Len(b))
  BY <1>2, IsSeqFacts
<1>4. \A c \in DOMAIN s : \/ c \in DOMAIN a /\ s[c] = a[c]
                          \/ c - Len(a) \in DOMAIN b /\ s[c] = b[c - Len(a)]
  <2> TAKE c \in DOMAIN s
  <2>1. CASE c \in 1..Len(a)
    BY <1>1, <1>2, <2>1
  <2>2. CASE c \notin 1..Len(a)
    <3>1. c - Len(a) \in 1..Len(b) /\ Len(a) + (c - Len(a)) = c
      BY <1>1, <1>3, <2>2
    <3>2. s[Len(a) + (c - Len(a))] = b[c - Len(a)]
      BY <1>2, <3>1
    <3> QED BY <1>1, <3>1, <3>2
  <2> QED BY <2>1, <2>2
<1>5. \A c \in DOMAIN a : c \in DOMAIN s /\ s[c] = a[c]
  BY <1>1, <1>2, <1>3
<1>6. \A c \in DOMAIN b : Len(a) + c \in DOMAIN s /\ s[Len(a) + c] = b[c]
  BY <1>1, <1>2, <1>3
<1>7. Joins(s, a, b)
  BY <1>2, <1>4, <1>5, <1>6 DEF Joins
<1> QED BY <1>7 DEF s

\* A row of two rows has the columns of the one and the columns of the other, if
\* they are of different files.
LEMMA FitsConcat ==
  ASSUME NEW a, IsSeq(a), NEW acols, IsSeq(acols), RowFits(a, acols),
         NEW b, IsSeq(b), NEW bcols, IsSeq(bcols), RowFits(b, bcols),
         \A c \in DOMAIN acols, d \in DOMAIN bcols : acols[c][1] # bcols[d][1]
  PROVE  RowFits(a \o b, acols \o bcols)
<1> PICK row : row = a \o b
  OBVIOUS
<1> PICK cols : cols = acols \o bcols
  OBVIOUS
<1> DEFINE n == Len(a)
           m == Len(b)
<1>1. /\ n \in Nat /\ m \in Nat /\ DOMAIN a = 1..n /\ DOMAIN b = 1..m
      /\ Len(acols) = n /\ Len(bcols) = m /\ DOMAIN acols = 1..n /\ DOMAIN bcols = 1..m
  BY IsSeqFacts DEF RowFits
<1>2. /\ IsSeq(row) /\ Len(row) = n + m
      /\ \A c \in 1..n : row[c] = a[c]
      /\ \A c \in 1..m : row[n + c] = b[c]
  BY IsSeqConcat
<1>3. /\ IsSeq(cols) /\ Len(cols) = n + m
      /\ \A c \in 1..n : cols[c] = acols[c]
      /\ \A c \in 1..m : cols[n + c] = bcols[c]
  <2>1. /\ IsSeq(cols) /\ Len(cols) = Len(acols) + Len(bcols)
        /\ \A c \in 1..Len(acols) : cols[c] = acols[c]
        /\ \A c \in 1..Len(bcols) : cols[Len(acols) + c] = bcols[c]
    BY IsSeqConcat
  <2> QED BY <1>1, <2>1
<1>4. DOMAIN row = 1..(n + m)
  BY <1>2, IsSeqFacts
<1> HIDE DEF n, m
<1>5. \A c \in 1..(n + m) : c \in 1..n \/ (c - n \in 1..m /\ n + (c - n) = c)
  BY <1>1
<1>6. \A c \in DOMAIN row : \/ c \in DOMAIN a /\ row[c] = a[c] /\ cols[c] = acols[c]
                            \/ /\ c - n \in DOMAIN b /\ row[c] = b[c - n]
                               /\ cols[c] = bcols[c - n]
  BY <1>1, <1>2, <1>3, <1>4, <1>5
<1>7. \A c \in DOMAIN row : row[c] # Pad => <<row[c][1], row[c][3]>> = cols[c]
  BY <1>6 DEF RowFits
<1>8. ASSUME NEW c \in DOMAIN row, NEW d \in DOMAIN row, cols[c][1] = cols[d][1]
      PROVE  row[c][2] = row[d][2]
  <2>1. CASE c \in DOMAIN a /\ row[c] = a[c] /\ cols[c] = acols[c]
    <3>1. d \in DOMAIN a /\ row[d] = a[d] /\ cols[d] = acols[d]
      BY <1>1, <1>6, <1>8, <2>1
    <3>2. acols[c][1] = acols[d][1]
      BY <1>8, <2>1, <3>1
    <3>3. a[c][2] = a[d][2]
      BY <2>1, <3>1, <3>2 DEF RowFits
    <3> QED BY <2>1, <3>1, <3>3
  <2>2. CASE c - n \in DOMAIN b /\ row[c] = b[c - n] /\ cols[c] = bcols[c - n]
    <3>1. d - n \in DOMAIN b /\ row[d] = b[d - n] /\ cols[d] = bcols[d - n]
      <4>1. CASE d \in DOMAIN a /\ cols[d] = acols[d]
        <5>1. d \in DOMAIN acols /\ c - n \in DOMAIN bcols
          BY <1>1, <2>2, <4>1
        <5> QED BY <1>8, <2>2, <4>1, <5>1
      <4> QED BY <1>6, <4>1
    <3>2. bcols[c - n][1] = bcols[d - n][1]
      BY <1>8, <2>2, <3>1
    <3>3. b[c - n][2] = b[d - n][2]
      BY <2>2, <3>1, <3>2 DEF RowFits
    <3> QED BY <2>2, <3>1, <3>3
  <2> QED BY <1>6, <2>1, <2>2
<1>9. RowFits(row, cols)
  <2>1. Len(row) = Len(cols)
    BY <1>2, <1>3
  <2>2. \A c, d \in DOMAIN row : cols[c][1] = cols[d][1] => row[c][2] = row[d][2]
    BY <1>8
  <2> QED BY <1>7, <2>1, <2>2 DEF RowFits
<1> QED BY <1>9

LEMMA FitsRemove ==
  ASSUME NEW r, IsSeq(r), NEW cols, IsSeq(cols), RowFits(r, cols), NEW i \in DOMAIN r
  PROVE  RowFits(RemoveAt(r, i), RemoveAt(cols, i))
<1> PICK s : s = RemoveAt(r, i)
  OBVIOUS
<1> PICK t : t = RemoveAt(cols, i)
  OBVIOUS
<1>1. Len(r) \in Nat /\ DOMAIN r = 1..Len(r) /\ Len(cols) = Len(r) /\ DOMAIN cols = DOMAIN r
  BY IsSeqFacts DEF RowFits
<1> DEFINE at(c) == IF c < i THEN c ELSE c + 1
<1>2. /\ IsSeq(s) /\ Len(s) = Len(r) - 1
      /\ \A c \in 1..(Len(r) - 1) : at(c) \in DOMAIN r /\ s[c] = r[at(c)]
  BY RemoveAtShift
<1>3. /\ IsSeq(t) /\ Len(t) = Len(r) - 1
      /\ \A c \in 1..(Len(r) - 1) : t[c] = cols[at(c)]
  <2>1. i \in DOMAIN cols
    BY <1>1
  <2> QED BY <1>1, <2>1, RemoveAtShift
<1>4. DOMAIN s = 1..(Len(r) - 1)
  BY <1>2, IsSeqFacts
<1> HIDE DEF at
<1>5. \A c \in DOMAIN s : at(c) \in DOMAIN r /\ s[c] = r[at(c)] /\ t[c] = cols[at(c)]
  BY <1>2, <1>3, <1>4
<1>6. \A c \in DOMAIN s : s[c] # Pad => <<s[c][1], s[c][3]>> = t[c]
  BY <1>5 DEF RowFits
<1>7. \A c, d \in DOMAIN s : t[c][1] = t[d][1] => s[c][2] = s[d][2]
  BY <1>5 DEF RowFits
<1> QED BY <1>2, <1>3, <1>6, <1>7 DEF RowFits

LEMMA FitsPadding ==
  ASSUME NEW cols, IsSeq(cols)
  PROVE  RowFits(Padding(Len(cols)), cols)
<1> PICK n : n = Len(cols)
  OBVIOUS
<1>1. n \in Nat
  BY IsSeqFacts
<1> PICK row : row = Padding(n)
  OBVIOUS
<1>2. Len(row) = n
  BY <1>1, PaddingRow
<1>3. \A c \in DOMAIN row : row[c] = Pad
  BY DEF Padding
<1> QED BY <1>2, <1>3 DEF RowFits

-------------------------------------------------------------------------------
(* The columns of the files and of the joined table.                         *)

LEMMA ColumnsOfFacts ==
  ASSUME NEW f \in File
  PROVE  /\ IsSeq(ColumnsOf(f)) /\ Len(ColumnsOf(f)) = Width(f)
         /\ DOMAIN ColumnsOf(f) = 1..Width(f)
         /\ \A c \in 1..Width(f) : ColumnsOf(f)[c] = <<f, c>>
<1> PICK cols : cols = ColumnsOf(f)
  OBVIOUS
<1>1. cols = [c \in 1..Width(f) |-> <<f, c>>]
  BY DEF ColumnsOf
<1>2. IsSeq(cols) /\ Len(cols) = Width(f)
  <2>1. cols = [c \in 1..Width(f) |-> cols[c]]
    BY <1>1
  <2> QED BY <2>1, WidthFacts, IsSeqFunction
<1> QED BY <1>1, <1>2

LEMMA LineFits ==
  ASSUME NEW f \in File, NEW l
  PROVE  RowFits(Line(f, l), ColumnsOf(f))
<1>1. Len(Line(f, l)) = Len(ColumnsOf(f)) /\ DOMAIN Line(f, l) = 1..Width(f)
  BY LineFacts, ColumnsOfFacts DEF Line
<1>2. \A c \in 1..Width(f) : Line(f, l)[c] = <<f, l, c>> /\ ColumnsOf(f)[c] = <<f, c>>
  BY ColumnsOfFacts DEF Line
<1> QED BY <1>1, <1>2 DEF RowFits

\* Whatever line a reader is left on.
LEMMA ReaderFits ==
  ASSUME NEW f \in File, NEW src, src.kind = "reader", src.file = f
  PROVE  Fits(RunRows(src), ColumnsOf(f))
<1> PICK rows : rows = RunRows(src)
  OBVIOUS
<1>1. \A i \in DOMAIN rows : rows[i] = Line(f, src.pos + i)
  BY DEF RunRows
<1> QED BY <1>1, LineFits DEF Fits

LEMMA BodyFits ==
  ASSUME NEW f \in File
  PROVE  Fits(BodyRows(f), ColumnsOf(f))
<1> PICK src : src = Reader(f, Body)
  OBVIOUS
<1>1. src.kind = "reader" /\ src.file = f /\ BodyRows(f) = RunRows(src)
  BY DEF Reader, BodyRows
<1> QED BY <1>1, ReaderFits

\* A right join takes the files, and the key columns with them, from the last.
LEMMA NthFacts ==
  /\ \A i \in 1..N : Nth(i) = IF args.kind = "right" THEN (N - i) + 1 ELSE i
  /\ \A i \in 1..N : Nth(i) \in File
  /\ \A i, j \in 1..N : Nth(i) = Nth(j) => i = j
<1>1. N \in Nat \ {0} /\ File = 1..N
  BY TablesAssumption, LenProperties, EmptySeq DEF File, N
<1> DEFINE t == [g \in File |-> Reader(g, 0)]
<1>2. \A g \in 1..N : t[g].file = g
  BY <1>1 DEF Reader
<1>3. CASE args.kind = "right"
  <2>1. t = [g \in 1..N |-> t[g]]
    BY <1>1
  <2> HIDE DEF t
  <2>2. Len(t) = N
    BY <1>1, <2>1, IsSeqFunction
  <2>3. Sources = [i \in 1..N |-> t[(N - i) + 1]]
    BY <1>3, <2>2 DEF Sources, Ordered, Reverse, t
  <2>4. \A i \in 1..N : (N - i) + 1 \in 1..N /\ Nth(i) = (N - i) + 1
    <3> TAKE i \in 1..N
    <3>1. (N - i) + 1 \in 1..N
      BY <1>1
    <3>2. Sources[i] = t[(N - i) + 1]
      BY <2>3
    <3> QED BY <1>2, <3>1, <3>2 DEF Nth
  <2>5. \A i, j \in 1..N : (N - i) + 1 = (N - j) + 1 => i = j
    BY <1>1
  <2> QED BY <1>1, <1>3, <2>4, <2>5
<1>4. CASE args.kind # "right"
  <2>1. Sources = t
    BY <1>4 DEF Sources, Ordered
  <2> HIDE DEF t
  <2>2. \A i \in 1..N : Nth(i) = i
    BY <1>2, <2>1 DEF Nth
  <2> QED BY <1>1, <1>4, <2>2
<1> QED BY <1>3, <1>4

LEMMA JoinColumnsFacts ==
  ASSUME ValidArgs(args), ~IsUnion
  PROVE  \A i \in 1..N : JoinColumns[i] = args.columns[Nth(i)]
<1>1. Len(args.columns) = N /\ N \in Nat
  BY SourcesFacts DEF ValidArgs, IsUnion
<1>2. CASE args.kind = "right"
  <2>1. JoinColumns = [i \in 1..N |-> args.columns[(N - i) + 1]]
    BY <1>1, <1>2 DEF JoinColumns, Ordered, Reverse
  <2> QED BY <1>2, <2>1, NthFacts
<1>3. CASE args.kind # "right"
  BY <1>3, NthFacts DEF JoinColumns, Ordered
<1> QED BY <1>2, <1>3

\* Every key column is a column of its file.
KeysIn == ~IsUnion => \A i \in 1..N : JoinColumns[i] \in 1..Width(Nth(i))

\* What a file adds to the joined table: columns of its own.
LEMMA AddedFacts ==
  ASSUME KeysIn, NEW i \in 1..N
  PROVE  /\ IsSeq(Added(i))
         /\ Len(Added(i)) = Width(Nth(i)) - (IF i = 1 \/ KeepsKey THEN 0 ELSE 1)
         /\ \A c \in DOMAIN Added(i) : \E d \in 1..Width(Nth(i)) : Added(i)[c] = <<Nth(i), d>>
<1> PICK f : f = Nth(i)
  OBVIOUS
<1> PICK cols : cols = ColumnsOf(f)
  OBVIOUS
<1>1. f \in File
  BY NthFacts
<1>2. /\ IsSeq(cols) /\ Len(cols) = Width(f) /\ DOMAIN cols = 1..Width(f) /\ Width(f) \in Nat
      /\ \A c \in 1..Width(f) : cols[c] = <<f, c>>
  BY <1>1, ColumnsOfFacts, WidthFacts
<1>3. CASE i = 1 \/ KeepsKey
  <2>1. Added(i) = cols
    BY <1>3 DEF Added
  <2>2. Width(f) - 0 = Width(f)
    BY <1>2
  <2> QED BY <1>2, <1>3, <2>1, <2>2
<1>4. CASE ~(i = 1 \/ KeepsKey)
  <2> PICK k : k = JoinColumns[i]
    OBVIOUS
  <2> PICK s : s = RemoveAt(cols, k)
    OBVIOUS
  <2>1. Added(i) = s
    BY <1>4 DEF Added
  <2>2. k \in 1..Width(f)
    BY <1>4 DEF KeysIn, KeepsKey
  <2>3. /\ IsSeq(s) /\ Len(s) = Width(f) - 1
        /\ \A c \in 1..(Width(f) - 1) : /\ (IF c < k THEN c ELSE c + 1) \in DOMAIN cols
                                        /\ s[c] = cols[IF c < k THEN c ELSE c + 1]
    <3>1. k \in DOMAIN cols /\ IsSeq(cols)
      BY <1>2, <2>2
    <3>2. /\ IsSeq(s) /\ Len(s) = Len(cols) - 1
          /\ \A c \in 1..(Len(cols) - 1) : /\ (IF c < k THEN c ELSE c + 1) \in DOMAIN cols
                                          /\ s[c] = cols[IF c < k THEN c ELSE c + 1]
      BY <3>1, RemoveAtShift
    <3> QED BY <1>2, <3>2
  <2>4. DOMAIN s = 1..(Width(f) - 1)
    BY <2>3, IsSeqFacts
  <2>5. ASSUME NEW c \in DOMAIN s
        PROVE  \E d \in 1..Width(f) : s[c] = <<f, d>>
    <3>1. PICK d \in DOMAIN cols : s[c] = cols[d]
      BY <2>3, <2>4
    <3> QED BY <1>2, <3>1
  <2>6. Added(i) = s /\ f = Nth(i)
    BY <2>1
  <2> QED BY <1>4, <2>3, <2>5, <2>6
<1> QED BY <1>3, <1>4

LEMMA FirstColumns ==
  JoinedColumns(1) = ColumnsOf(Nth(1))
<1> PICK s : s = [i \in 1..1 |-> Added(i)]
  OBVIOUS
<1>1. s = [i \in 1..1 |-> s[i]] /\ s[1] = Added(1)
  OBVIOUS
<1>2. Len(s) = 1
  BY <1>1, IsSeqFunction
<1>3. FlattenSeq(s) = s[1]
  BY <1>2, FlattenOne
<1> QED BY <1>1, <1>3 DEF JoinedColumns, Added

LEMMA MoreColumns ==
  ASSUME NEW j \in Nat \ {0}
  PROVE  JoinedColumns(j + 1) = JoinedColumns(j) \o Added(j + 1)
<1> DEFINE s == [i \in 1..j |-> Added(i)]
           t == [i \in 1..(j + 1) |-> Added(i)]
<1>1. s = [i \in 1..j |-> s[i]] /\ t = [i \in 1..(j + 1) |-> t[i]]
  OBVIOUS
<1>2. \A i \in 1..j : t[i] = s[i]
  OBVIOUS
<1>3. t[j + 1] = Added(j + 1)
  OBVIOUS
<1>4. JoinedColumns(j) = FlattenSeq(s) /\ JoinedColumns(j + 1) = FlattenSeq(t)
  BY DEF JoinedColumns
<1> HIDE DEF s, t
<1>5. Len(s) = j /\ Len(t) = j + 1
  BY <1>1, IsSeqFunction
<1>6. FlattenSeq(t) = FlattenSeq(s) \o t[j + 1]
  BY <1>2, <1>5, FlattenMore
<1> QED BY <1>3, <1>4, <1>6

\* The columns joined so far are columns of the files joined so far, those of the
\* first file in front.
LEMMA JoinedColumnsFacts ==
  ASSUME KeysIn, NEW j \in 1..N
  PROVE  /\ IsSeq(JoinedColumns(j))
         /\ \A c \in DOMAIN JoinedColumns(j) :
              \E i \in 1..j : \E d \in 1..Width(Nth(i)) : JoinedColumns(j)[c] = <<Nth(i), d>>
         /\ \A c \in 1..Width(Nth(1)) :
              c \in DOMAIN JoinedColumns(j) /\ JoinedColumns(j)[c] = <<Nth(1), c>>
<1> DEFINE Own(cols, m) == \A c \in DOMAIN cols :
                             \E i \in 1..m : \E d \in 1..Width(Nth(i)) : cols[c] = <<Nth(i), d>>
           InFront(cols) == \A c \in 1..Width(Nth(1)) : c \in DOMAIN cols /\ cols[c] = <<Nth(1), c>>
           Good(cols, m) == IsSeq(cols) /\ Own(cols, m) /\ InFront(cols)
           S == {m \in Nat : m \in 1..N => Good(JoinedColumns(m), m)}
<1>1. N \in Nat \ {0}
  BY SourcesFacts
<1>2. 0 \in S
  OBVIOUS
<1>3. ASSUME NEW m \in Nat, m \in S PROVE m + 1 \in S
  <2> SUFFICES ASSUME m + 1 \in 1..N PROVE Good(JoinedColumns(m + 1), m + 1)
    OBVIOUS
  <2> PICK cols : cols = JoinedColumns(m + 1)
    OBVIOUS
  <2>1. CASE m = 0
    <3>1. cols = ColumnsOf(Nth(1))
      BY <2>1, FirstColumns
    <3>2. Nth(1) \in File
      BY <1>1, NthFacts
    <3>3. 1 \in 1..(m + 1)
      BY <2>1
    <3>4. IsSeq(cols) /\ InFront(cols)
      BY <3>1, <3>2, ColumnsOfFacts
    <3>5. Own(cols, m + 1)
      BY <3>1, <3>2, <3>3, ColumnsOfFacts
    <3> QED BY <3>4, <3>5
  <2>2. CASE m # 0
    <3> DEFINE before == JoinedColumns(m)
               added == Added(m + 1)
    <3>1. m \in 1..N
      BY <1>1, <2>2
    <3>2. IsSeq(before) /\ Own(before, m) /\ InFront(before)
      BY <1>3, <3>1
    <3>3. /\ IsSeq(added)
          /\ \A c \in DOMAIN added : \E d \in 1..Width(Nth(m + 1)) : added[c] = <<Nth(m + 1), d>>
      BY AddedFacts
    <3>4. cols = before \o added
      BY <2>2, MoreColumns
    <3> HIDE DEF before, added
    <3>5. /\ IsSeq(cols)
          /\ \A c \in DOMAIN before : c \in DOMAIN cols /\ cols[c] = before[c]
          /\ \A c \in DOMAIN cols : \/ c \in DOMAIN before /\ cols[c] = before[c]
                                    \/ c - Len(before) \in DOMAIN added /\ cols[c] = added[c - Len(before)]
      <4>1. Joins(before \o added, before, added)
        BY <3>2, <3>3, ConcatJoins
      <4>2. Joins(cols, before, added)
        BY <3>4, <4>1
      <4> QED BY <4>2 DEF Joins
    <3>7. InFront(cols)
      BY <3>2, <3>5
    <3>8. Own(cols, m + 1)
      <4> SUFFICES ASSUME NEW c \in DOMAIN cols
                   PROVE  \E i \in 1..(m + 1) : \E d \in 1..Width(Nth(i)) : cols[c] = <<Nth(i), d>>
        OBVIOUS
      <4>1. CASE c \in DOMAIN before /\ cols[c] = before[c]
        <5>1. PICK i \in 1..m : \E d \in 1..Width(Nth(i)) : before[c] = <<Nth(i), d>>
          BY <3>2, <4>1
        <5>2. i \in 1..(m + 1)
          OBVIOUS
        <5> QED BY <4>1, <5>1, <5>2
      <4>2. CASE c - Len(before) \in DOMAIN added /\ cols[c] = added[c - Len(before)]
        <5>1. m + 1 \in 1..(m + 1)
          OBVIOUS
        <5> QED BY <3>3, <4>2, <5>1
      <4> QED BY <3>5, <4>1, <4>2
    <3> QED BY <3>5, <3>7, <3>8
  <2> QED BY <2>1, <2>2
<1> HIDE DEF S
<1>4. j \in S
  BY <1>2, <1>3, Induction
<1> QED BY <1>4 DEF S

LEMMA NewColumns ==
  ASSUME KeysIn, NEW j \in 1..N, j + 1 \in 1..N
  PROVE  /\ IsSeq(JoinedColumns(j)) /\ IsSeq(Added(j + 1))
         /\ JoinedColumns(j + 1) = JoinedColumns(j) \o Added(j + 1)
         /\ \A c \in DOMAIN JoinedColumns(j), d \in DOMAIN Added(j + 1) :
              JoinedColumns(j)[c][1] # Added(j + 1)[d][1]
<1>0. j \in Nat \ {0} /\ N \in Nat
  BY SourcesFacts
<1>1. IsSeq(JoinedColumns(j)) /\ IsSeq(Added(j + 1))
  BY JoinedColumnsFacts, AddedFacts
<1>2. JoinedColumns(j + 1) = JoinedColumns(j) \o Added(j + 1)
  BY <1>0, MoreColumns
<1>3. ASSUME NEW c \in DOMAIN JoinedColumns(j), NEW d \in DOMAIN Added(j + 1)
      PROVE  JoinedColumns(j)[c][1] # Added(j + 1)[d][1]
  <2>1. PICK i \in 1..j : \E e \in 1..Width(Nth(i)) : JoinedColumns(j)[c] = <<Nth(i), e>>
    BY JoinedColumnsFacts
  <2>2. \E e \in 1..Width(Nth(j + 1)) : Added(j + 1)[d] = <<Nth(j + 1), e>>
    BY AddedFacts
  <2>3. JoinedColumns(j)[c][1] = Nth(i) /\ Added(j + 1)[d][1] = Nth(j + 1)
    BY <2>1, <2>2
  <2>4. i \in 1..N /\ i # j + 1
    BY <1>0
  <2>5. Nth(i) # Nth(j + 1)
    BY <2>4, NthFacts
  <2> QED BY <2>3, <2>5
<1> QED BY <1>1, <1>2, <1>3

\* A row of the next file, without its key if the join drops it, put after a row
\* joined so far.
LEMMA AddFits ==
  ASSUME KeysIn, NEW j \in 1..N, j + 1 \in 1..N,
         NEW l, IsSeq(l), RowFits(l, JoinedColumns(j)),
         NEW p, IsSeq(p), RowFits(p, Added(j + 1))
  PROVE  RowFits(l \o p, JoinedColumns(j + 1))
<1> DEFINE cols == JoinedColumns(j)
           more == Added(j + 1)
<1>1. /\ IsSeq(cols) /\ IsSeq(more) /\ JoinedColumns(j + 1) = cols \o more
      /\ \A c \in DOMAIN cols, d \in DOMAIN more : cols[c][1] # more[d][1]
  BY NewColumns
<1>2. RowFits(l, cols) /\ RowFits(p, more)
  OBVIOUS
<1> HIDE DEF cols, more
<1>3. RowFits(l \o p, cols \o more)
  BY <1>1, <1>2, FitsConcat
<1> QED BY <1>1, <1>3

LEMMA GlueFits ==
  ASSUME KeysIn, ~IsUnion, NEW j \in 1..N, j + 1 \in 1..N, c_ids[2] = JoinColumns[j + 1],
         NEW l, IsSeq(l), RowFits(l, JoinedColumns(j)),
         NEW r, IsSeq(r), RowFits(r, ColumnsOf(Nth(j + 1)))
  PROVE  RowFits(Glue(l, r), JoinedColumns(j + 1))
<1>0. j + 1 # 1 /\ Nth(j + 1) \in File
  BY NthFacts
<1>1. CASE IsOuter
  <2>1. Added(j + 1) = ColumnsOf(Nth(j + 1)) /\ Glue(l, r) = l \o r
    BY <1>1 DEF Added, KeepsKey, Glue
  <2> QED BY <2>1, AddFits
<1>2. CASE ~IsOuter
  <2> DEFINE cols == ColumnsOf(Nth(j + 1))
             k == JoinColumns[j + 1]
             p == RemoveAt(r, k)
  <2>1. Added(j + 1) = RemoveAt(cols, k) /\ Glue(l, r) = l \o p
    BY <1>0, <1>2 DEF Added, KeepsKey, Glue
  <2>2. IsSeq(cols) /\ DOMAIN cols = 1..Width(Nth(j + 1))
    BY <1>0, ColumnsOfFacts
  <2>3. k \in 1..Width(Nth(j + 1)) /\ RowFits(r, cols)
    BY DEF KeysIn
  <2> HIDE DEF cols, k
  <2>4. k \in DOMAIN r
    BY <2>2, <2>3, IsSeqFacts DEF RowFits
  <2>5. RowFits(p, RemoveAt(cols, k)) /\ IsSeq(p)
    BY <2>2, <2>3, <2>4, FitsRemove, RemoveAtShift
  <2> HIDE DEF p
  <2>6. RowFits(p, Added(j + 1))
    BY <2>1, <2>5
  <2> QED BY <2>1, <2>5, <2>6, AddFits
<1> QED BY <1>1, <1>2

LEMMA PadRightFits ==
  ASSUME KeysIn, ~IsUnion, NEW j \in 1..N, j + 1 \in 1..N,
         Len(ts_n_blanks[2].types) = Width(Nth(j + 1)),
         NEW l, IsSeq(l), RowFits(l, JoinedColumns(j))
  PROVE  RowFits(PadRight(l), JoinedColumns(j + 1))
<1> DEFINE n == Len(ts_n_blanks[2].types) - (IF IsOuter THEN 0 ELSE 1)
           more == Added(j + 1)
           p == Padding(n)
<1>1. IsSeq(more) /\ Len(more) = n
  <2>1. j + 1 # 1
    OBVIOUS
  <2> QED BY <2>1, AddedFacts DEF KeepsKey
<1>2. PadRight(l) = l \o p
  BY DEF PadRight
<1> HIDE DEF n, more
<1>3. n \in Nat
  BY <1>1, IsSeqFacts
<1>4. RowFits(p, more) /\ IsSeq(p)
  BY <1>1, <1>3, FitsPadding, PaddingRow
<1> HIDE DEF p
<1>5. RowFits(p, Added(j + 1))
  BY <1>4 DEF more
<1> QED BY <1>2, <1>4, <1>5, AddFits

LEMMA PadLeftFits ==
  ASSUME KeysIn, IsOuter, NEW j \in 1..N, j + 1 \in 1..N,
         Len(ts_n_blanks[1].types) = Len(JoinedColumns(j)),
         NEW r, IsSeq(r), RowFits(r, ColumnsOf(Nth(j + 1)))
  PROVE  RowFits(PadLeft(r), JoinedColumns(j + 1))
<1> DEFINE cols == JoinedColumns(j)
           l == Padding(Len(cols))
<1>1. Added(j + 1) = ColumnsOf(Nth(j + 1)) /\ PadLeft(r) = l \o r
  BY DEF Added, KeepsKey, PadLeft
<1>2. IsSeq(cols)
  BY JoinedColumnsFacts
<1> HIDE DEF cols
<1>3. Len(cols) \in Nat
  BY <1>2, IsSeqFacts
<1>4. RowFits(l, cols) /\ IsSeq(l)
  BY <1>2, <1>3, FitsPadding, PaddingRow
<1> HIDE DEF l
<1>5. RowFits(l, JoinedColumns(j))
  BY <1>4 DEF cols
<1> QED BY <1>1, <1>4, <1>5, AddFits

-------------------------------------------------------------------------------
(* Headers.                                                                  *)

LEMMA NameFacts ==
  ASSUME NEW f \in File
  PROVE  /\ IsSeq(Names[f]) /\ Len(Names[f]) = Width(f) /\ DOMAIN Names[f] = 1..Width(f)
         /\ \A c \in 1..Width(f) : IsSeq(Names[f][c]) /\ IsPrefix(Names[f][c], Names[f][c])
<1>1. Names[f] \in Seq(Seq(STRING))
  <2>1. f \in 1..Len(Names)
    BY TablesAssumption, LenProperties DEF File
  <2> QED BY <2>1, TablesAssumption, ElementOfSeq
<1>2. /\ IsSeq(Names[f]) /\ Len(Names[f]) = Width(f) /\ DOMAIN Names[f] = 1..Width(f)
  BY <1>1, SeqIsSeq DEF Width
<1>3. ASSUME NEW c \in 1..Width(f)
      PROVE  IsSeq(Names[f][c]) /\ IsPrefix(Names[f][c], Names[f][c])
  <2>1. Names[f][c] \in Seq(STRING)
    BY <1>1, <1>2, ElementOfSeq
  <2>2. IsSeq(Names[f][c]) /\ Len(Names[f][c]) \in Nat
    BY <2>1, SeqIsSeq
  <2> QED BY <2>2 DEF IsPrefix
<1> QED BY <1>2, <1>3

LEMMA FileHeaderFits ==
  ASSUME NEW f \in File
  PROVE  HeaderFits(Names[f], ColumnsOf(f))
<1>1. \A c \in DOMAIN ColumnsOf(f) :
        IsPrefix(Names[ColumnsOf(f)[c][1]][ColumnsOf(f)[c][2]], Names[f][c])
  <2> TAKE c \in DOMAIN ColumnsOf(f)
  <2>1. c \in 1..Width(f) /\ ColumnsOf(f)[c] = <<f, c>>
    BY ColumnsOfFacts
  <2> QED BY <2>1, NameFacts
<1> QED BY <1>1, NameFacts, ColumnsOfFacts DEF HeaderFits

LEMMA SameSequence ==
  ASSUME NEW s, IsSeq(s), NEW t, IsSeq(t), Len(s) = Len(t), \A i \in DOMAIN s : s[i] = t[i]
  PROVE  s = t
<1>1. /\ Len(s) \in Nat /\ DOMAIN s = 1..Len(s) /\ DOMAIN t = 1..Len(t)
  BY IsSeqFacts
<1> DEFINE S == {s[i] : i \in DOMAIN s}
<1>2. (\A i \in DOMAIN s : s[i] \in S) /\ (\A i \in DOMAIN t : t[i] \in S)
  BY <1>1
<1> HIDE DEF S
<1>3. s \in Seq(S) /\ t \in Seq(S)
  BY <1>2, IsSeqIn
<1> QED BY <1>1, <1>3, SeqEqual

LEMMA LongerPrefix ==
  ASSUME NEW name, IsSeq(name), NEW more, IsSeq(more)
  PROVE  IsPrefix(name, name \o more)
<1> DEFINE t == name \o more
           n == Len(name)
<1>1. IsSeq(t) /\ Len(t) = n + Len(more) /\ \A i \in 1..n : t[i] = name[i]
  BY IsSeqConcat
<1> HIDE DEF t
<1>2. n \in Nat /\ Len(more) \in Nat /\ n \in 0..Len(t) /\ n \in 0..Len(name) /\ n <= Len(t)
  BY <1>1, IsSeqFacts
<1> HIDE DEF n
<1>3. /\ IsSeq(SubSeq(name, 1, n)) /\ Len(SubSeq(name, 1, n)) = n
      /\ \A i \in 1..n : SubSeq(name, 1, n)[i] = name[i]
  BY <1>2, IsSeqPrefix
<1>4. /\ IsSeq(SubSeq(t, 1, n)) /\ Len(SubSeq(t, 1, n)) = n
      /\ \A i \in 1..n : SubSeq(t, 1, n)[i] = t[i]
  BY <1>1, <1>2, IsSeqPrefix
<1> DEFINE a == SubSeq(name, 1, n)
           b == SubSeq(t, 1, n)
<1>5. IsSeq(a) /\ IsSeq(b) /\ Len(a) = Len(b) /\ \A i \in DOMAIN a : a[i] = b[i]
  <2>1. DOMAIN a = 1..n
    BY <1>3, IsSeqFacts
  <2> QED BY <1>1, <1>3, <1>4, <2>1
<1> HIDE DEF a, b
<1>6. a = b
  BY <1>5, SameSequence
<1> QED BY <1>2, <1>6 DEF IsPrefix, a, b, t, n

-------------------------------------------------------------------------------
(* The number in a name: different numbers have different digits.             *)

Writing(number, f) ==
  f = [n \in 0..number |-> IF n < 10 THEN <<Digit(n)>> ELSE Append(f[n \div 10], Digit(n % 10))]

LEMMA WithoutLastDigit ==
  ASSUME NEW n \in Nat, n >= 10
  PROVE  /\ n \div 10 \in 1..(n - 1) /\ n % 10 \in 0..9
         /\ n = (n \div 10) * 10 + (n % 10)
<1>1. n \div 10 \in Int /\ n % 10 \in 0..9
  OBVIOUS
<1>2. n = (n \div 10) * 10 + (n % 10)
  BY Z3
<1>3. n \div 10 > 0 /\ n \div 10 < n
  BY <1>1, <1>2
<1> QED BY <1>1, <1>2, <1>3

LEMMA WritingExists ==
  ASSUME NEW number \in Nat
  PROVE  \E f : Writing(number, f)
<1> DEFINE S == {m \in Nat : \E f : Writing(m, f)}
<1>1. 0 \in S
  <2>1. Writing(0, [n \in 0..0 |-> <<Digit(n)>>])
    BY DEF Writing
  <2> QED BY <2>1
<1>2. ASSUME NEW m \in Nat, m \in S PROVE m + 1 \in S
  <2>1. PICK f : Writing(m, f)
    BY <1>2
  <2> DEFINE x == IF m + 1 < 10 THEN <<Digit(m + 1)>>
                  ELSE Append(f[(m + 1) \div 10], Digit((m + 1) % 10))
             g == [n \in 0..(m + 1) |-> IF n = m + 1 THEN x ELSE f[n]]
  <2>2. ASSUME NEW n \in 0..(m + 1)
        PROVE  g[n] = IF n < 10 THEN <<Digit(n)>> ELSE Append(g[n \div 10], Digit(n % 10))
    <3>1. n >= 10 => n \div 10 \in 0..(m + 1) /\ n \div 10 # m + 1 /\ n \div 10 < n
      BY WithoutLastDigit
    <3>2. n >= 10 => g[n \div 10] = f[n \div 10]
      BY <3>1
    <3>3. CASE n = m + 1
      <4>1. g[n] = x
        BY <3>3
      <4> HIDE DEF g
      <4> QED BY <3>2, <3>3, <4>1
    <3>4. CASE n # m + 1
      <4>1. n \in 0..m
        BY <3>4
      <4>2. g[n] = f[n]
        BY <3>4, <4>1
      <4> HIDE DEF g
      <4>3. f[n] = IF n < 10 THEN <<Digit(n)>> ELSE Append(f[n \div 10], Digit(n % 10))
        BY <2>1, <4>1 DEF Writing
      <4> QED BY <3>2, <4>2, <4>3
    <3> QED BY <3>3, <3>4
  <2>3. g = [n \in 0..(m + 1) |-> g[n]]
    OBVIOUS
  <2> HIDE DEF g
  <2>4. Writing(m + 1, g)
    BY <2>2, <2>3 DEF Writing
  <2> QED BY <2>4
<1> HIDE DEF S
<1>3. number \in S
  BY <1>1, <1>2, Induction
<1> QED BY <1>3 DEF S

\* The digits written on the way to a number do not depend on it.
LEMMA WritingAgrees ==
  ASSUME NEW a \in Nat, NEW f, Writing(a, f), NEW b \in Nat, NEW g, Writing(b, g)
  PROVE  \A n \in Nat : n <= a /\ n <= b => f[n] = g[n]
<1> DEFINE S == {m \in Nat : \A n \in 0..m : n <= a /\ n <= b => f[n] = g[n]}
<1>1. ASSUME NEW n \in Nat, n <= a, n <= b, \A k \in 0..(n - 1) : f[k] = g[k]
      PROVE  f[n] = g[n]
  <2>0. n \in 0..a /\ n \in 0..b
    BY <1>1
  <2>1. f[n] = IF n < 10 THEN <<Digit(n)>> ELSE Append(f[n \div 10], Digit(n % 10))
    BY <2>0 DEF Writing
  <2>2. g[n] = IF n < 10 THEN <<Digit(n)>> ELSE Append(g[n \div 10], Digit(n % 10))
    BY <2>0 DEF Writing
  <2>3. n >= 10 => f[n \div 10] = g[n \div 10]
    BY <1>1, WithoutLastDigit
  <2> QED BY <2>1, <2>2, <2>3
<1>2. 0 \in S
  <2>1. f[0] = g[0]
    BY <1>1
  <2> QED BY <2>1
<1>3. ASSUME NEW m \in Nat, m \in S PROVE m + 1 \in S
  <2> SUFFICES ASSUME NEW n \in 0..(m + 1), n <= a, n <= b PROVE f[n] = g[n]
    OBVIOUS
  <2>1. CASE n \in 0..m
    BY <1>3, <2>1
  <2>2. CASE n = m + 1
    <3>1. \A k \in 0..(n - 1) : f[k] = g[k]
      BY <1>3, <2>2
    <3> QED BY <1>1, <3>1
  <2> QED BY <2>1, <2>2
<1>4. \A m \in Nat : m \in S
  <2> HIDE DEF S
  <2> QED BY <1>2, <1>3, Induction
<1> QED BY <1>4

LEMMA DecimalWritten ==
  ASSUME NEW n \in Nat
  PROVE  \E f : Writing(n, f) /\ Decimal(n) = f[n]
<1>1. \E f : f = [m \in 0..n |-> IF m < 10 THEN <<Digit(m)>> ELSE Append(f[m \div 10], Digit(m % 10))]
  BY WritingExists DEF Writing
<1> DEFINE h == CHOOSE f : f = [m \in 0..n |->
                   IF m < 10 THEN <<Digit(m)>> ELSE Append(f[m \div 10], Digit(m % 10))]
<1>2. h = [m \in 0..n |-> IF m < 10 THEN <<Digit(m)>> ELSE Append(h[m \div 10], Digit(m % 10))]
  BY <1>1
<1>3. Decimal(n) = h[n]
  BY DEF Decimal
<1> HIDE DEF h
<1> QED BY <1>2, <1>3 DEF Writing

LEMMA DecimalIs ==
  ASSUME NEW n \in Nat
  PROVE  Decimal(n) = IF n < 10 THEN <<Digit(n)>> ELSE Append(Decimal(n \div 10), Digit(n % 10))
<1>1. PICK f : Writing(n, f) /\ Decimal(n) = f[n]
  BY DecimalWritten
<1>2. f[n] = IF n < 10 THEN <<Digit(n)>> ELSE Append(f[n \div 10], Digit(n % 10))
  <2>1. n \in 0..n
    OBVIOUS
  <2> QED BY <1>1, <2>1 DEF Writing
<1>3. n >= 10 => f[n \div 10] = Decimal(n \div 10)
  <2> SUFFICES ASSUME n >= 10 PROVE f[n \div 10] = Decimal(n \div 10)
    OBVIOUS
  <2> PICK q : q = n \div 10
    OBVIOUS
  <2>1. q \in Nat /\ q <= n
    BY WithoutLastDigit
  <2>2. PICK g : Writing(q, g) /\ Decimal(q) = g[q]
    BY <2>1, DecimalWritten
  <2>3. f[q] = g[q]
    BY <1>1, <2>1, <2>2, WritingAgrees
  <2> QED BY <2>2, <2>3
<1> QED BY <1>1, <1>2, <1>3

LEMMA DigitsDiffer ==
  ASSUME NEW a \in 0..9, NEW b \in 0..9, Digit(a) = Digit(b)
  PROVE  a = b
<1>1. /\ a = 0 \/ a = 1 \/ a = 2 \/ a = 3 \/ a = 4 \/ a = 5 \/ a = 6 \/ a = 7 \/ a = 8 \/ a = 9
      /\ b = 0 \/ b = 1 \/ b = 2 \/ b = 3 \/ b = 4 \/ b = 5 \/ b = 6 \/ b = 7 \/ b = 8 \/ b = 9
  OBVIOUS
<1> QED BY <1>1 DEF Digit

LEMMA AppendCancel ==
  ASSUME NEW s, IsSeq(s), NEW t, IsSeq(t), NEW x, NEW y, Append(s, x) = Append(t, y)
  PROVE  s = t /\ x = y
<1> PICK u : u = Append(s, x)
  OBVIOUS
<1>1. Len(u) = Len(s) + 1 /\ u[Len(s) + 1] = x /\ \A i \in 1..Len(s) : u[i] = s[i]
  BY AppendedAny
<1>2. Len(u) = Len(t) + 1 /\ u[Len(t) + 1] = y /\ \A i \in 1..Len(t) : u[i] = t[i]
  BY AppendedAny
<1>3. Len(s) \in Nat /\ Len(t) \in Nat
  BY IsSeqFacts
<1>4. Len(s) = Len(t)
  BY <1>1, <1>2, <1>3
<1> QED BY <1>1, <1>2, <1>4, IsSeqSame

LEMMA DecimalIsSeq ==
  ASSUME NEW n \in Nat
  PROVE  IsSeq(Decimal(n)) /\ Len(Decimal(n)) > 0
<1> DEFINE S == {m \in Nat : \A k \in 0..m : IsSeq(Decimal(k)) /\ Len(Decimal(k)) > 0}
<1>1. ASSUME NEW k \in Nat, \A j \in 0..(k - 1) : IsSeq(Decimal(j)) /\ Len(Decimal(j)) > 0
      PROVE  IsSeq(Decimal(k)) /\ Len(Decimal(k)) > 0
  <2>1. CASE k < 10
    BY <2>1, DecimalIs, SingletonIsSeq
  <2>2. CASE k >= 10
    <3> PICK q, d : q = Decimal(k \div 10) /\ d = Decimal(k)
      OBVIOUS
    <3>1. IsSeq(q) /\ Len(q) > 0
      BY <1>1, <2>2, WithoutLastDigit
    <3>2. d = Append(q, Digit(k % 10))
      BY <2>2, DecimalIs
    <3>3. IsSeq(d) /\ Len(d) = Len(q) + 1 /\ Len(q) \in Nat
      BY <3>1, <3>2, AppendedAny, IsSeqFacts
    <3> QED BY <3>1, <3>3
  <2> QED BY <2>1, <2>2
<1>2. 0 \in S
  BY <1>1
<1>3. ASSUME NEW m \in Nat, m \in S PROVE m + 1 \in S
  <2> SUFFICES ASSUME NEW k \in 0..(m + 1) PROVE IsSeq(Decimal(k)) /\ Len(Decimal(k)) > 0
    OBVIOUS
  <2>1. \A j \in 0..m : IsSeq(Decimal(j)) /\ Len(Decimal(j)) > 0
    BY <1>3
  <2>2. k \in 0..m \/ k = m + 1
    OBVIOUS
  <2> QED BY <1>1, <2>1, <2>2
<1>4. n \in S
  <2> HIDE DEF S
  <2> QED BY <1>2, <1>3, Induction
<1> QED BY <1>4

\* A number can be read from its digits.
LEMMA DecimalsDiffer ==
  ASSUME NEW a \in Nat, NEW b \in Nat, Decimal(a) = Decimal(b)
  PROVE  a = b
<1> DEFINE Read(k) == \A j \in Nat : Decimal(k) = Decimal(j) => k = j
           S == {m \in Nat : \A k \in 0..m : Read(k)}
<1>0. ASSUME NEW k \in Nat, NEW j \in Nat, k < 10, j >= 10, Decimal(k) = Decimal(j) PROVE FALSE
  <2> PICK q, d : q = Decimal(j \div 10) /\ d = Decimal(j)
    OBVIOUS
  <2>0. j \div 10 \in Nat
    BY <1>0, WithoutLastDigit
  <2>1. IsSeq(q) /\ Len(q) > 0
    BY <2>0, DecimalIsSeq
  <2>2. d = Append(q, Digit(j % 10))
    BY <1>0, DecimalIs
  <2>3. Len(d) = Len(q) + 1 /\ Len(q) \in Nat
    BY <2>1, <2>2, AppendedAny, IsSeqFacts
  <2>4. d = <<Digit(k)>>
    BY <1>0, DecimalIs
  <2>5. Len(d) = 1
    BY <2>4, SingletonIsSeq
  <2> QED BY <2>1, <2>3, <2>5
<1>1. ASSUME NEW k \in Nat, \A j \in 0..(k - 1) : Read(j) PROVE Read(k)
  <2> SUFFICES ASSUME NEW j \in Nat, Decimal(k) = Decimal(j) PROVE k = j
    OBVIOUS
  <2>1. CASE k < 10 /\ j < 10
    <3> PICK s, t : s = <<Digit(k)>> /\ t = <<Digit(j)>>
      OBVIOUS
    <3>1. s = t
      BY <2>1, DecimalIs
    <3>2. s[1] = Digit(k) /\ t[1] = Digit(j)
      BY SingletonIsSeq
    <3>3. Digit(k) = Digit(j)
      BY <3>1, <3>2
    <3> QED BY <2>1, <3>3, DigitsDiffer
  <2>2. CASE k >= 10 /\ j >= 10
    <3> PICK p, q, x, y : /\ p = Decimal(k \div 10) /\ q = Decimal(j \div 10)
                          /\ x = Digit(k % 10) /\ y = Digit(j % 10)
      OBVIOUS
    <3>0. Decimal(k) = Append(p, x) /\ Decimal(j) = Append(q, y)
      <4>1. k \in Nat /\ j \in Nat /\ ~(k < 10) /\ ~(j < 10)
        BY <2>2
      <4>2. Decimal(k) = Append(Decimal(k \div 10), Digit(k % 10))
        BY <4>1, DecimalIs
      <4>3. Decimal(j) = Append(Decimal(j \div 10), Digit(j % 10))
        BY <4>1, DecimalIs
      <4> QED BY <4>2, <4>3
    <3>1. Append(p, x) = Append(q, y)
      BY <3>0
    <3>2. k \div 10 \in 0..(k - 1) /\ k \div 10 \in Nat /\ j \div 10 \in Nat
      BY <2>2, WithoutLastDigit
    <3>3. IsSeq(p) /\ IsSeq(q)
      BY <3>2, DecimalIsSeq
    <3>4. p = q /\ x = y
      BY <3>1, <3>3, AppendCancel
    <3>5. k \div 10 = j \div 10
      BY <1>1, <3>2, <3>4
    <3>6. k % 10 = j % 10
      BY <2>2, <3>4, DigitsDiffer, WithoutLastDigit
    <3> QED BY <2>2, <3>5, <3>6, WithoutLastDigit
  <2> QED BY <1>0, <2>1, <2>2
<1>2. 0 \in S
  <2>1. Read(0)
    <3> HIDE DEF Read
    <3> QED BY <1>1
  <2> HIDE DEF Read
  <2> QED BY <2>1
<1>3. ASSUME NEW m \in Nat, m \in S PROVE m + 1 \in S
  <2> HIDE DEF Read
  <2> SUFFICES ASSUME NEW k \in 0..(m + 1) PROVE Read(k)
    OBVIOUS
  <2>1. \A j \in 0..m : Read(j)
    BY <1>3
  <2>2. k \in 0..m \/ k = m + 1
    OBVIOUS
  <2> QED BY <1>1, <2>1, <2>2
<1>4. a \in S
  <2> HIDE DEF S
  <2> QED BY <1>2, <1>3, Induction
<1>5. Read(a)
  <2> HIDE DEF Read
  <2> QED BY <1>4
<1> QED BY <1>5

-------------------------------------------------------------------------------
(* A new name is not one the header has.                                      *)

LEMMA AttemptsDiffer ==
  ASSUME NEW name, IsSeq(name), NEW j \in Nat, NEW k \in Nat, Attempt(name, j) = Attempt(name, k)
  PROVE  j = k
<1> DEFINE More(n) == IF n = 1 THEN <<>> ELSE <<"_">> \o Decimal(n)
<1>a. PICK s : s = Append(name, "2")
  OBVIOUS
<1>b. PICK u : u = <<"_">>
  OBVIOUS
<1>1. IsSeq(s) /\ IsSeq(u) /\ Len(u) = 1
  BY <1>a, <1>b, AppendedAny, SingletonIsSeq
<1>2. \A n \in Nat : n # 1 => IsSeq(More(n)) /\ Len(More(n)) > 0 /\ More(n) = u \o Decimal(n)
  <2> TAKE n \in Nat
  <2> HAVE n # 1
  <2>a. PICK d : d = Decimal(n)
    OBVIOUS
  <2>b. PICK t : t = u \o d
    OBVIOUS
  <2>1. IsSeq(d) /\ Len(d) \in Nat /\ Len(d) > 0
    BY <2>a, DecimalIsSeq, IsSeqFacts
  <2>2. TwoJoined(t, u, d)
    BY <1>1, <2>b, <2>1, TwoJoinedFacts
  <2>3. IsSeq(t) /\ Len(t) = 1 + Len(d)
    BY <1>1, <2>2 DEF TwoJoined
  <2>4. Len(t) > 0
    BY <2>1, <2>3
  <2>5. More(n) = t /\ t = u \o Decimal(n)
    BY <1>b, <2>a, <2>b
  <2> HIDE DEF More
  <2> QED BY <2>3, <2>4, <2>5
<1>3. More(1) = <<>> /\ IsSeq(More(1)) /\ Len(More(1)) = 0
  BY IsSeqEmpty
<1>4. \A n \in Nat : IsSeq(More(n))
  BY <1>2, <1>3
<1>5. Attempt(name, j) = s \o More(j) /\ Attempt(name, k) = s \o More(k)
  BY <1>a DEF Attempt
<1> HIDE DEF More
<1>6. More(j) = More(k)
  BY <1>1, <1>4, <1>5, ConcatCancel
<1>7. CASE j # 1 /\ k # 1
  <2> PICK d, e : d = Decimal(j) /\ e = Decimal(k)
    OBVIOUS
  <2>1. u \o d = u \o e
    BY <1>2, <1>6, <1>7
  <2>2. IsSeq(d) /\ IsSeq(e)
    BY DecimalIsSeq
  <2>3. d = e
    BY <1>1, <2>1, <2>2, ConcatCancel
  <2> QED BY <2>3, DecimalsDiffer
<1>8. CASE j = 1 \/ k = 1
  <2>a. PICK m : m = More(j)
    OBVIOUS
  <2>1. Len(m) = 0
    <3>1. m = More(1)
      BY <1>6, <1>8, <2>a
    <3> QED BY <1>3, <3>1
  <2>2. ASSUME NEW n \in Nat, n # 1, m = More(n) PROVE FALSE
    <3>1. Len(More(n)) > 0
      BY <1>2, <2>2
    <3> QED BY <2>1, <2>2, <3>1
  <2>3. m = More(j) /\ m = More(k)
    BY <1>6, <2>a
  <2>4. j = 1 /\ k = 1
    BY <2>2, <2>3
  <2> QED BY <2>4
<1> QED BY <1>7, <1>8

LEMMA MangledIsNew ==
  ASSUME NEW name, IsSeq(name), NEW header, IsSeq(header)
  PROVE  /\ ~Occurs(Mangled(name, header), header)
         /\ \E k \in Nat : Mangled(name, header) = Attempt(name, k)
<1> PICK n : n = Len(header)
  OBVIOUS
<1>1. n \in Nat /\ DOMAIN header = 1..n
  BY IsSeqFacts
<1> DEFINE free(k) == ~Occurs(Attempt(name, k), header)
<1>2. \E k \in 1..(n + 1) : free(k)
  <2> SUFFICES ASSUME \A k \in 1..(n + 1) : ~free(k) PROVE FALSE
    OBVIOUS
  <2> DEFINE f == [k \in 1..(n + 1) |-> CHOOSE i \in 1..n : header[i] = Attempt(name, k)]
  <2>1. \A k \in 1..(n + 1) : f[k] \in 1..n /\ header[f[k]] = Attempt(name, k)
    <3> TAKE k \in 1..(n + 1)
    <3>1. \E i \in 1..n : header[i] = Attempt(name, k)
      BY <1>1 DEF Occurs
    <3> QED BY <3>1
  <2>2. f \in [1..(n + 1) -> 1..n]
    BY <2>1
  <2>3. \A j, k \in 1..(n + 1) : f[j] = f[k] => j = k
    <3> TAKE j, k \in 1..(n + 1)
    <3> HAVE f[j] = f[k]
    <3>1. Attempt(name, j) = Attempt(name, k)
      BY <2>1
    <3> QED BY <1>1, <3>1, AttemptsDiffer
  <2> HIDE DEF f
  <2>4. /\ IsFiniteSet(1..(n + 1)) /\ IsFiniteSet(1..n)
        /\ Cardinality(1..(n + 1)) = n + 1 /\ Cardinality(1..n) = n
    <3>1. /\ IsFiniteSet(1..(n + 1))
          /\ Cardinality(1..(n + 1)) = IF 1 > n + 1 THEN 0 ELSE (n + 1) - 1 + 1
      <4>1. 1 \in Int /\ n + 1 \in Int
        BY <1>1
      <4> QED BY <4>1, FS_Interval
    <3>2. IsFiniteSet(1..n) /\ Cardinality(1..n) = IF 1 > n THEN 0 ELSE n - 1 + 1
      <4>1. 1 \in Int /\ n \in Int
        BY <1>1
      <4> QED BY <4>1, FS_Interval
    <3> QED BY <1>1, <3>1, <3>2
  <2>5. \E j, k \in 1..(n + 1) : j # k /\ f[j] = f[k]
    BY <1>1, <2>2, <2>4, FS_PigeonHole
  <2> QED BY <2>3, <2>5
<1>3. \E k \in 1..(n + 1) : free(k) /\ \A j \in 1..(k - 1) : ~free(j)
  <2> DEFINE S == {k \in 1..(n + 1) : free(k)}
  <2>1. S \in SUBSET Nat /\ S # {}
    BY <1>1, <1>2
  <2>2. PICK k \in S : \A m \in S : k <= m
    <3> HIDE DEF S
    <3> QED BY <2>1, Least
  <2>3. ASSUME NEW j \in 1..(k - 1) PROVE ~free(j)
    <3>1. j \in 1..(n + 1) /\ ~(k <= j)
      BY <1>1, <2>2
    <3> QED BY <2>2, <3>1
  <2> QED BY <2>2, <2>3
<1> DEFINE first == CHOOSE k \in 1..(Len(header) + 1) : free(k) /\ \A j \in 1..(k - 1) : ~free(j)
<1>4. Mangled(name, header) = Attempt(name, first)
  BY DEF Mangled
<1>5. first \in 1..(n + 1) /\ free(first)
  BY <1>3
<1>6. first \in Nat
  BY <1>1, <1>5
<1> HIDE DEF first
<1> QED BY <1>4, <1>5, <1>6

\* However often it is tried to rename it, a name keeps what it began with.
LEMMA MangledPrefix ==
  ASSUME NEW name, IsSeq(name), NEW header, IsSeq(header)
  PROVE  IsPrefix(name, Mangled(name, header))
<1>1. ASSUME NEW k \in Nat PROVE IsPrefix(name, Attempt(name, k))
  <2>a. PICK u, w : u = <<"2">> /\ w = <<"_">>
    OBVIOUS
  <2>b. PICK m : m = IF k = 1 THEN <<>> ELSE w \o Decimal(k)
    OBVIOUS
  <2>1. IsSeq(u) /\ IsSeq(w)
    BY <2>a, SingletonIsSeq
  <2>2. Append(name, "2") = name \o u
    <3> DEFINE S == {name[i] : i \in DOMAIN name} \cup {"2"}
    <3>1. \A i \in DOMAIN name : name[i] \in S
      OBVIOUS
    <3>2. "2" \in S
      OBVIOUS
    <3> HIDE DEF S
    <3>3. name \in Seq(S)
      BY <3>1, IsSeqIn
    <3>4. Append(name, "2") = name \o <<"2">>
      BY <3>2, <3>3, AppendIsConcat
    <3> QED BY <2>a, <3>4
  <2>3. IsSeq(m)
    <3>1. k # 1 => IsSeq(w \o Decimal(k))
      BY <2>1, DecimalIsSeq, IsSeqConcat
    <3> QED BY <2>b, <3>1, IsSeqEmpty
  <2>c. PICK more : more = u \o m
    OBVIOUS
  <2>d. PICK longer : longer = name \o u
    OBVIOUS
  <2>4. Attempt(name, k) = longer \o m
    BY <2>a, <2>b, <2>d, <2>2 DEF Attempt
  <2>5. longer \o m = name \o more
    BY <2>1, <2>3, <2>c, <2>d, Regrouped
  <2>6. IsSeq(more)
    BY <2>1, <2>3, <2>c, IsSeqConcat
  <2> QED BY <2>4, <2>5, <2>6, LongerPrefix
<1> QED BY <1>1, MangledIsNew

\* A header with a name more: the names it had, and one that begins with the new one.
LEMMA AppendNameFacts ==
  ASSUME NEW header, IsSeq(header), NEW name, IsSeq(name)
  PROVE  /\ IsSeq(AppendName(header, name)) /\ Len(AppendName(header, name)) = Len(header) + 1
         /\ \A c \in DOMAIN header : AppendName(header, name)[c] = header[c]
         /\ IsPrefix(name, AppendName(header, name)[Len(header) + 1])
<1> DEFINE x == IF Clash(name, header) THEN Mangled(name, header) ELSE name
<1>1. IsPrefix(name, x)
  <2>1. IsPrefix(name, name)
    BY IsSeqFacts DEF IsPrefix
  <2> QED BY <2>1, MangledPrefix
<1>2. AppendName(header, name) = Append(header, x)
  BY DEF AppendName
<1> HIDE DEF x
<1>3. IsSeq(Append(header, x)) /\ Len(Append(header, x)) = Len(header) + 1
  BY IsSeqAppend
<1>4. /\ \A c \in DOMAIN header : Append(header, x)[c] = header[c]
      /\ Append(header, x)[Len(header) + 1] = x
  <2> DEFINE S == {header[i] : i \in DOMAIN header} \cup {x}
  <2>1. \A i \in DOMAIN header : header[i] \in S
    OBVIOUS
  <2>2. x \in S
    OBVIOUS
  <2> HIDE DEF S
  <2>3. header \in Seq(S)
    BY <2>1, IsSeqIn
  <2> QED BY <2>2, <2>3, IsSeqFacts, AppendProperties
<1> QED BY <1>1, <1>2, <1>3, <1>4

\* AppendHeader is a recursive function of the names of the second header.
Growing(left, right, n, f) ==
  f = [m \in 0..n |-> IF m = 0 THEN left ELSE AppendName(f[m - 1], right[m])]

LEMMA GrowingExists ==
  ASSUME NEW left, NEW right, NEW n \in Nat
  PROVE  \E f : Growing(left, right, n, f)
<1> DEFINE S == {m \in Nat : \E f : Growing(left, right, m, f)}
<1>1. 0 \in S
  <2>1. Growing(left, right, 0, [m \in 0..0 |-> left])
    BY DEF Growing
  <2> QED BY <2>1
<1>2. ASSUME NEW m \in Nat, m \in S PROVE m + 1 \in S
  <2>1. PICK f : Growing(left, right, m, f)
    BY <1>2
  <2> DEFINE x == AppendName(f[m], right[m + 1])
             g == [k \in 0..(m + 1) |-> IF k = m + 1 THEN x ELSE f[k]]
  <2>2. ASSUME NEW k \in 0..(m + 1)
        PROVE  g[k] = IF k = 0 THEN left ELSE AppendName(g[k - 1], right[k])
    <3>1. CASE k = m + 1
      <4>1. k # 0 /\ k - 1 = m /\ m \in 0..(m + 1) /\ m # m + 1
        BY <3>1
      <4>2. g[m] = f[m] /\ g[k] = x
        BY <3>1, <4>1
      <4> HIDE DEF g
      <4> QED BY <3>1, <4>1, <4>2
    <3>2. CASE k # m + 1
      <4>1. k \in 0..m
        BY <3>2
      <4>2. f[k] = IF k = 0 THEN left ELSE AppendName(f[k - 1], right[k])
        BY <2>1, <4>1 DEF Growing
      <4>3. k # 0 => k - 1 \in 0..(m + 1) /\ k - 1 # m + 1
        BY <4>1
      <4>4. g[k] = f[k] /\ (k # 0 => g[k - 1] = f[k - 1])
        BY <3>2, <4>1, <4>3
      <4> HIDE DEF g
      <4> QED BY <4>2, <4>4
    <3> QED BY <3>1, <3>2
  <2>3. g = [k \in 0..(m + 1) |-> g[k]]
    OBVIOUS
  <2> HIDE DEF g
  <2>4. Growing(left, right, m + 1, g)
    BY <2>2, <2>3 DEF Growing
  <2> QED BY <2>4
<1> HIDE DEF S
<1>3. n \in S
  BY <1>1, <1>2, Induction
<1> QED BY <1>3 DEF S

LEMMA AppendHeaderDefined ==
  ASSUME NEW left, NEW right, Len(right) \in Nat
  PROVE  \E f : Growing(left, right, Len(right), f) /\ AppendHeader(left, right) = f[Len(right)]
<1>1. \E f : f = [m \in 0..Len(right) |-> IF m = 0 THEN left ELSE AppendName(f[m - 1], right[m])]
  <2>1. \E f : Growing(left, right, Len(right), f)
    BY GrowingExists
  <2> QED BY <2>1 DEF Growing
<1> DEFINE h == CHOOSE f : f = [m \in 0..Len(right) |->
                                  IF m = 0 THEN left ELSE AppendName(f[m - 1], right[m])]
<1>2. h = [m \in 0..Len(right) |-> IF m = 0 THEN left ELSE AppendName(h[m - 1], right[m])]
  BY <1>1
<1>3. AppendHeader(left, right) = h[Len(right)]
  BY DEF AppendHeader
<1> HIDE DEF h
<1> QED BY <1>2, <1>3 DEF Growing

\* The first header with the first n names of the second.
Grown(h, left, right, n) ==
  /\ IsSeq(h) /\ Len(h) = Len(left) + n
  /\ \A c \in 1..Len(left) : h[c] = left[c]
  /\ \A c \in 1..n : IsPrefix(right[c], h[Len(left) + c])

LEMMA GrownMore ==
  ASSUME NEW left, IsSeq(left), NEW right, NEW n \in Nat, IsSeq(right[n + 1]),
         NEW h, Grown(h, left, right, n)
  PROVE  Grown(AppendName(h, right[n + 1]), left, right, n + 1)
<1> DEFINE k == Len(left)
           g == AppendName(h, right[n + 1])
<1>1. k \in Nat
  BY IsSeqFacts
<1>2. /\ IsSeq(h) /\ Len(h) = k + n
      /\ \A c \in 1..k : h[c] = left[c]
      /\ \A c \in 1..n : IsPrefix(right[c], h[k + c])
  BY DEF Grown
<1>3. /\ IsSeq(g) /\ Len(g) = Len(h) + 1 /\ \A c \in DOMAIN h : g[c] = h[c]
      /\ IsPrefix(right[n + 1], g[Len(h) + 1])
  BY <1>2, AppendNameFacts
<1> HIDE DEF k, g
<1>4. DOMAIN h = 1..(k + n)
  BY <1>2, IsSeqFacts
<1>5. Len(g) = k + (n + 1) /\ Len(h) + 1 = k + (n + 1)
  BY <1>1, <1>2, <1>3
<1>6. \A c \in 1..k : g[c] = left[c]
  BY <1>1, <1>2, <1>3, <1>4
<1>7. \A c \in 1..(n + 1) : IsPrefix(right[c], g[k + c])
  <2> TAKE c \in 1..(n + 1)
  <2>1. CASE c = n + 1
    BY <1>3, <1>5, <2>1
  <2>2. CASE c # n + 1
    <3>1. c \in 1..n /\ k + c \in DOMAIN h
      BY <1>1, <1>4, <2>2
    <3> QED BY <1>2, <1>3, <3>1
  <2> QED BY <2>1, <2>2
<1>8. Grown(g, left, right, n + 1)
  BY <1>3, <1>5, <1>6, <1>7 DEF Grown, k
<1> QED BY <1>8 DEF g

LEMMA AppendHeaderFacts ==
  ASSUME NEW left, IsSeq(left), NEW right, IsSeq(right),
         \A c \in DOMAIN right : IsSeq(right[c])
  PROVE  Grown(AppendHeader(left, right), left, right, Len(right))
<1> DEFINE n == Len(right)
<1>1. n \in Nat /\ DOMAIN right = 1..n
  BY IsSeqFacts
<1>2. PICK f : Growing(left, right, n, f) /\ AppendHeader(left, right) = f[n]
  BY <1>1, AppendHeaderDefined
<1> HIDE DEF n
<1>3. \A m \in 0..n : f[m] = IF m = 0 THEN left ELSE AppendName(f[m - 1], right[m])
  BY <1>2 DEF Growing
<1> DEFINE S == {m \in Nat : m \in 0..n => Grown(f[m], left, right, m)}
<1>4. 0 \in S
  <2>1. f[0] = left
    BY <1>1, <1>3
  <2>2. Len(left) + 0 = Len(left)
    BY IsSeqFacts
  <2> QED BY <2>1, <2>2 DEF Grown
<1>5. ASSUME NEW m \in Nat, m \in S PROVE m + 1 \in S
  <2> SUFFICES ASSUME m + 1 \in 0..n PROVE Grown(f[m + 1], left, right, m + 1)
    OBVIOUS
  <2>1. m \in 0..n /\ m + 1 \in 1..n /\ m + 1 # 0 /\ (m + 1) - 1 = m
    BY <1>1
  <2>2. f[m + 1] = AppendName(f[m], right[m + 1])
    BY <1>3, <2>1
  <2>3. Grown(f[m], left, right, m) /\ IsSeq(right[m + 1])
    BY <1>1, <1>5, <2>1
  <2> QED BY <2>2, <2>3, GrownMore
<1> HIDE DEF S
<1>6. n \in S
  BY <1>1, <1>4, <1>5, Induction
<1>7. Grown(f[n], left, right, n)
  BY <1>1, <1>6 DEF S
<1> QED BY <1>2, <1>7 DEF n

\* The header of two tables has the columns of the one and the columns of the other.
LEMMA HeaderConcatFits ==
  ASSUME NEW left, NEW lcols, IsSeq(lcols), HeaderFits(left, lcols),
         NEW right, NEW rcols, IsSeq(rcols), HeaderFits(right, rcols),
         \A c \in DOMAIN right : IsSeq(right[c]) /\ right[c] = Names[rcols[c][1]][rcols[c][2]]
  PROVE  HeaderFits(AppendHeader(left, right), lcols \o rcols)
<1> DEFINE h == AppendHeader(left, right)
           cols == lcols \o rcols
           n == Len(left)
           k == Len(right)
<1>1. /\ IsSeq(left) /\ n = Len(lcols) /\ n \in Nat /\ DOMAIN lcols = 1..n
      /\ IsSeq(right) /\ k = Len(rcols) /\ k \in Nat /\ DOMAIN rcols = 1..k /\ DOMAIN right = 1..k
      /\ \A c \in DOMAIN lcols : IsPrefix(Names[lcols[c][1]][lcols[c][2]], left[c])
  BY IsSeqFacts DEF HeaderFits
<1>2. Grown(h, left, right, k)
  BY <1>1, AppendHeaderFacts
<1>3. Joins(cols, lcols, rcols)
  BY ConcatJoins
<1> HIDE DEF h, cols, n, k
<1>4. /\ IsSeq(h) /\ Len(h) = n + k
      /\ \A c \in 1..n : h[c] = left[c]
      /\ \A c \in 1..k : IsPrefix(right[c], h[n + c])
  BY <1>2 DEF Grown, n
<1>5. /\ IsSeq(cols) /\ Len(cols) = n + k
      /\ \A c \in DOMAIN cols : \/ c \in DOMAIN lcols /\ cols[c] = lcols[c]
                                \/ c - Len(lcols) \in DOMAIN rcols /\ cols[c] = rcols[c - Len(lcols)]
  BY <1>1, <1>3 DEF Joins
<1>6. DOMAIN cols = 1..(n + k)
  BY <1>5, IsSeqFacts
<1>7. ASSUME NEW c \in DOMAIN cols
      PROVE  IsPrefix(Names[cols[c][1]][cols[c][2]], h[c])
  <2>1. CASE c \in DOMAIN lcols /\ cols[c] = lcols[c]
    BY <1>1, <1>4, <2>1
  <2>2. CASE c - Len(lcols) \in DOMAIN rcols /\ cols[c] = rcols[c - Len(lcols)]
    <3>1. c - n \in 1..k /\ cols[c] = rcols[c - n] /\ n + (c - n) = c
      BY <1>1, <1>6, <2>2
    <3>2. IsPrefix(right[c - n], h[n + (c - n)]) /\ c - n \in DOMAIN right
      BY <1>1, <1>4, <3>1
    <3> QED BY <3>1, <3>2
  <2> QED BY <1>5, <2>1, <2>2
<1>8. HeaderFits(h, cols)
  BY <1>4, <1>5, <1>7 DEF HeaderFits
<1> QED BY <1>8 DEF h, cols

\* An element of the second of two sequences, removed before or after they are joined.
LEMMA RemoveFromSecond ==
  ASSUME NEW a, IsSeq(a), NEW b, IsSeq(b), NEW k \in DOMAIN b
  PROVE  RemoveAt(a \o b, Len(a) + k) = a \o RemoveAt(b, k)
<1> DEFINE s == a \o b
           r == RemoveAt(b, k)
           t == a \o r
           n == Len(a)
           m == Len(b)
           u == RemoveAt(s, n + k)
<1>1. n \in Nat /\ m \in Nat /\ DOMAIN a = 1..n /\ DOMAIN b = 1..m /\ k \in 1..m
  BY IsSeqFacts
<1>2. /\ IsSeq(s) /\ Len(s) = n + m
      /\ \A c \in 1..n : s[c] = a[c]
      /\ \A c \in 1..m : s[n + c] = b[c]
  BY IsSeqConcat
<1>3. /\ IsSeq(r) /\ Len(r) = m - 1
      /\ \A c \in 1..(m - 1) : r[c] = b[IF c < k THEN c ELSE c + 1]
  BY RemoveAtShift
<1> HIDE DEF s, r
<1>4. /\ IsSeq(t) /\ Len(t) = n + (m - 1)
      /\ \A c \in 1..n : t[c] = a[c]
      /\ \A c \in 1..(m - 1) : t[n + c] = r[c]
  <2>1. Joins(t, a, r)
    BY <1>3, ConcatJoins
  <2>2. DOMAIN r = 1..(m - 1)
    BY <1>3, IsSeqFacts
  <2> HIDE DEF t, n, m
  <2>3. n = Len(a)
    BY DEF n
  <2> QED BY <1>1, <1>3, <2>1, <2>2, <2>3 DEF Joins
<1> HIDE DEF t, n, m
<1>5. n + k \in DOMAIN s
  <2>1. DOMAIN s = 1..(n + m)
    BY <1>2, IsSeqFacts
  <2> QED BY <1>1, <2>1
<1>6. /\ IsSeq(u) /\ Len(u) = (n + m) - 1
      /\ \A c \in 1..((n + m) - 1) : u[c] = s[IF c < n + k THEN c ELSE c + 1]
  <2>1. /\ IsSeq(u) /\ Len(u) = Len(s) - 1
        /\ \A c \in 1..(Len(s) - 1) : u[c] = s[IF c < n + k THEN c ELSE c + 1]
    BY <1>2, <1>5, RemoveAtShift
  <2> QED BY <1>2, <2>1
<1> HIDE DEF u
<1>7. ASSUME NEW c \in 1..((n + m) - 1) PROVE u[c] = t[c]
  <2>1. CASE c \in 1..n
    <3>1. c < n + k
      BY <1>1, <2>1
    <3> QED BY <1>2, <1>4, <1>6, <2>1, <3>1
  <2>2. CASE c \notin 1..n
    <3>1. c - n \in 1..(m - 1) /\ n + (c - n) = c /\ n + ((c - n) + 1) = c + 1
          /\ c - n \in 1..m /\ (c - n) + 1 \in 1..m /\ (c < n + k <=> c - n < k)
      BY <1>1, <2>2
    <3>2. t[c] = b[IF c - n < k THEN c - n ELSE (c - n) + 1]
      <4>1. t[n + (c - n)] = r[c - n] /\ r[c - n] = b[IF c - n < k THEN c - n ELSE (c - n) + 1]
        BY <1>3, <1>4, <3>1
      <4> QED BY <3>1, <4>1
    <3>3. CASE c < n + k
      <4>1. u[c] = s[n + (c - n)]
        BY <1>6, <3>1, <3>3
      <4>2. s[n + (c - n)] = b[c - n]
        BY <1>2, <3>1
      <4> QED BY <3>1, <3>2, <3>3, <4>1, <4>2
    <3>4. CASE ~(c < n + k)
      <4>1. u[c] = s[n + ((c - n) + 1)]
        BY <1>6, <3>1, <3>4
      <4>2. s[n + ((c - n) + 1)] = b[(c - n) + 1]
        BY <1>2, <3>1
      <4> QED BY <3>1, <3>2, <3>4, <4>1, <4>2
    <3> QED BY <3>3, <3>4
  <2> QED BY <2>1, <2>2
<1>8. DOMAIN u = 1..((n + m) - 1) /\ Len(u) = Len(t)
  <2>1. DOMAIN u = 1..((n + m) - 1)
    BY <1>6, IsSeqFacts
  <2>2. (n + m) - 1 = n + (m - 1)
    BY <1>1
  <2> QED BY <1>4, <1>6, <2>1, <2>2
<1>9. u = t
  BY <1>4, <1>6, <1>7, <1>8, SameSequence
<1> QED BY <1>9 DEF u, t, s, r, n

LEMMA HeaderRemoveFits ==
  ASSUME NEW h, NEW cols, IsSeq(cols), HeaderFits(h, cols), NEW i \in DOMAIN cols
  PROVE  HeaderFits(RemoveAt(h, i), RemoveAt(cols, i))
<1> DEFINE s == RemoveAt(h, i)
           t == RemoveAt(cols, i)
           n == Len(cols) - 1
           at(c) == IF c < i THEN c ELSE c + 1
<1>1. /\ IsSeq(h) /\ Len(h) = Len(cols) /\ DOMAIN h = DOMAIN cols /\ i \in DOMAIN h
      /\ \A c \in DOMAIN cols : IsPrefix(Names[cols[c][1]][cols[c][2]], h[c])
  BY IsSeqFacts DEF HeaderFits
<1>2. /\ IsSeq(s) /\ Len(s) = n
      /\ \A c \in 1..n : s[c] = h[at(c)]
  BY <1>1, RemoveAtShift
<1>3. /\ IsSeq(t) /\ Len(t) = n
      /\ \A c \in 1..n : at(c) \in DOMAIN cols /\ t[c] = cols[at(c)]
  BY RemoveAtShift
<1> HIDE DEF s, t, n, at
<1>4. DOMAIN t = 1..n
  BY <1>3, IsSeqFacts
<1>5. \A c \in DOMAIN t : IsPrefix(Names[t[c][1]][t[c][2]], s[c])
  BY <1>1, <1>2, <1>3, <1>4
<1>6. HeaderFits(s, t)
  BY <1>2, <1>3, <1>5 DEF HeaderFits
<1> QED BY <1>6 DEF s, t

-------------------------------------------------------------------------------
(* The tables of a join in progress.                                         *)

LEMMA InShape ==
  ASSUME JoinInv, RowInv, ShapeInv, pc \in JoiningPcs \/ (pc = "loop" /\ Len(deq) > 1)
  PROVE  /\ KeysIn
         /\ Fits(LeftRows, JoinedColumns(Joined))
         /\ Fits(RunRows(deq[1]), JoinedColumns(Joined))
         /\ Fits(RightRows, ColumnsOf(Nth(Joined + 1)))
         /\ Fits(RunRows(deq[2]), ColumnsOf(Nth(Joined + 1)))
         /\ HeaderFits(headers[1], JoinedColumns(Joined))
         /\ HeaderFits(headers[2], ColumnsOf(Nth(Joined + 1)))
         /\ Len(ts_n_blanks[1].types) = Len(JoinedColumns(Joined))
         /\ Len(ts_n_blanks[2].types) = Width(Nth(Joined + 1))
         /\ ~IsUnion => c_ids[1] = JoinColumns[1] /\ c_ids[2] = JoinColumns[Joined + 1]
<1>1. /\ 1 \in DOMAIN deq /\ 2 \in DOMAIN deq /\ Joined \in 1..N /\ Joined + 1 \in 1..N
      /\ deq[2].kind = "reader" /\ deq[2].file = Nth(Joined + 1) /\ deq[2].file \in File
  BY InProgress
<1>2. /\ Len(headers) = Len(deq) /\ DOMAIN headers = 1..Len(deq) /\ DOMAIN deq = 1..Len(deq)
      /\ ~IsUnion => DOMAIN c_ids = 1..Len(deq)
  <2>1. Len(headers) = Len(deq)
    BY DEF JoinInv, Lockstep, Filled, JoiningPcs
  <2> QED BY <2>1, Sizes
<1>3. KeysIn
  BY DEF ShapeInv, KeyPlaces, KeysIn, Filled, JoiningPcs
<1>4. ~IsUnion => c_ids[1] = JoinColumns[1] /\ c_ids[2] = JoinColumns[Joined + 1]
  <2>1. Joined + 2 - 1 = Joined + 1
    BY <1>1
  <2> QED BY <1>1, <1>2, <2>1 DEF ShapeInv, KeyPlaces
<1>5. Fits(RightRows, ColumnsOf(Nth(Joined + 1)))
  BY <1>1, BodyFits DEF RightRows
<1>6. Fits(RunRows(deq[2]), ColumnsOf(Nth(Joined + 1)))
  BY <1>1, ReaderFits
<1>7. /\ headers[2] = Names[Nth(Joined + 1)]
      /\ Len(ts_n_blanks[2].types) = Width(Nth(Joined + 1))
  BY <1>1, <1>2 DEF RowInv, TablesFit
<1>8. HeaderFits(headers[2], ColumnsOf(Nth(Joined + 1)))
  BY <1>1, <1>7, FileHeaderFits
<1>9. CASE deq[1].kind = "fake"
  <2>1. LeftRows = deq[1].rows /\ RunRows(deq[1]) = deq[1].rows
    BY <1>9 DEF LeftRows, RunRows
  <2> QED BY <1>3, <1>4, <1>5, <1>6, <1>7, <1>8, <1>9, <2>1 DEF ShapeInv, JoinedFits
<1>10. CASE deq[1].kind = "reader"
  <2>1. Joined = 1 /\ deq[1].file = Nth(1) /\ deq[1].file \in File
    <3>1. Joined = 1 /\ deq[1].file \in File
      BY <1>1, <1>10 DEF RowInv, SourcesOK, JoinInv, TypeOK, DeqOK
    <3>2. deq[1].file = Nth(Joined + 1 - 1) /\ Joined + 1 - 1 = 1
      BY <1>1, <1>10, <3>1 DEF RowInv, SourcesOK
    <3> QED BY <3>1, <3>2
  <2>2. JoinedColumns(Joined) = ColumnsOf(Nth(1))
    BY <2>1, FirstColumns
  <2>3. LeftRows = BodyRows(deq[1].file)
    BY <1>10 DEF LeftRows
  <2>4. Fits(LeftRows, ColumnsOf(Nth(1))) /\ Fits(RunRows(deq[1]), ColumnsOf(Nth(1)))
    BY <1>10, <2>1, <2>3, BodyFits, ReaderFits
  <2>5. /\ headers[1] = Names[Nth(1)] /\ Len(ts_n_blanks[1].types) = Width(Nth(1))
    BY <1>1, <1>2, <1>10, <2>1 DEF RowInv, TablesFit
  <2>6. HeaderFits(headers[1], ColumnsOf(Nth(1)))
    BY <2>1, <2>5, FileHeaderFits
  <2>7. Len(ts_n_blanks[1].types) = Len(ColumnsOf(Nth(1)))
    BY <2>1, <2>5, ColumnsOfFacts
  <2> QED BY <1>3, <1>4, <1>5, <1>6, <1>7, <1>8, <2>2, <2>4, <2>6, <2>7
<1>11. deq[1].kind \in {"reader", "fake"}
  BY <1>1 DEF JoinInv, TypeOK, DeqOK
<1> QED BY <1>9, <1>10, <1>11

\* The header and the types of the joined table.
LEMMA ResultTables ==
  ASSUME JoinInv, RowInv, ShapeInv, pc = "cleanup"
  PROVE  /\ HeaderFits(ConcatHeaders, JoinedColumns(Joined + 1))
         /\ Len(ConcatTypes.types) = Len(JoinedColumns(Joined + 1))
         /\ Len(ConcatTypes.types) \in Nat
<1>1. /\ Joined \in 1..N /\ Joined + 1 \in 1..N /\ Nth(Joined + 1) \in File
      /\ deq[2].file = Nth(Joined + 1) /\ deq[2].kind = "reader" /\ 2 \in DOMAIN deq
  BY InProgress DEF JoiningPcs
<1>2. /\ KeysIn
      /\ HeaderFits(headers[1], JoinedColumns(Joined))
      /\ HeaderFits(headers[2], ColumnsOf(Nth(Joined + 1)))
      /\ Len(ts_n_blanks[1].types) = Len(JoinedColumns(Joined))
      /\ Len(ts_n_blanks[2].types) = Width(Nth(Joined + 1))
      /\ ~IsUnion => c_ids[2] = JoinColumns[Joined + 1]
  BY InShape DEF JoiningPcs
<1> DEFINE f == Nth(Joined + 1)
           lcols == JoinedColumns(Joined)
           rcols == ColumnsOf(f)
           left == headers[1]
           right == headers[2]
           all == AppendHeader(left, right)
<1>3. /\ IsSeq(lcols) /\ IsSeq(Added(Joined + 1))
      /\ JoinedColumns(Joined + 1) = lcols \o Added(Joined + 1)
  BY <1>1, <1>2, NewColumns
<1>4. /\ IsSeq(rcols) /\ DOMAIN rcols = 1..Width(f) /\ \A c \in 1..Width(f) : rcols[c] = <<f, c>>
  BY <1>1, ColumnsOfFacts
<1>5. HeaderFits(all, lcols \o rcols)
  <2>1. \A c \in DOMAIN right : IsSeq(right[c]) /\ right[c] = Names[rcols[c][1]][rcols[c][2]]
    <3>1. right = Names[f]
      <4>1. 2 \in DOMAIN headers
        <5>1. Len(headers) = Len(deq)
          BY DEF JoinInv, Lockstep, Filled
        <5> QED BY <1>1, <5>1, Sizes
      <4> QED BY <1>1, <4>1 DEF RowInv, TablesFit
    <3>2. DOMAIN right = 1..Width(f) /\ \A c \in 1..Width(f) : IsSeq(right[c])
      BY <1>1, <3>1, NameFacts
    <3> HIDE DEF right, rcols, f
    <3> QED BY <1>4, <3>1, <3>2
  <2>2. HeaderFits(left, lcols) /\ HeaderFits(right, rcols)
    BY <1>2
  <2> HIDE DEF left, right, lcols, rcols
  <2> QED BY <1>3, <1>4, <2>1, <2>2, HeaderConcatFits
<1>6. Len(left) = Len(lcols) /\ Joined + 1 # 1
  BY <1>1, <1>2 DEF HeaderFits
<1>7. HeaderFits(ConcatHeaders, JoinedColumns(Joined + 1))
  <2>1. CASE KeepsKey
    <3>1. ConcatHeaders = all /\ Added(Joined + 1) = rcols
      BY <2>1 DEF ConcatHeaders, Added
    <3> QED BY <1>3, <1>5, <3>1
  <2>2. CASE ~KeepsKey
    <3> DEFINE k == JoinColumns[Joined + 1]
    <3>1. c_ids[2] = k /\ k \in 1..Width(f)
      BY <1>1, <1>2, <2>2 DEF KeepsKey, KeysIn
    <3>2. ConcatHeaders = RemoveAt(all, Len(lcols) + k) /\ Added(Joined + 1) = RemoveAt(rcols, k)
      BY <1>6, <2>2, <3>1 DEF ConcatHeaders, Added
    <3> HIDE DEF k, all, lcols, rcols, f
    <3>3. RemoveAt(lcols \o rcols, Len(lcols) + k) = lcols \o RemoveAt(rcols, k)
      <4>1. IsSeq(lcols) /\ IsSeq(rcols) /\ k \in DOMAIN rcols
        BY <1>3, <1>4, <3>1
      <4> QED BY <4>1, RemoveFromSecond, Zenon
    <3>4. IsSeq(lcols \o rcols) /\ Len(lcols) + k \in DOMAIN (lcols \o rcols)
      <4>1. Joins(lcols \o rcols, lcols, rcols)
        BY <1>3, <1>4, ConcatJoins
      <4> QED BY <1>4, <3>1, <4>1 DEF Joins
    <3>5. HeaderFits(RemoveAt(all, Len(lcols) + k), RemoveAt(lcols \o rcols, Len(lcols) + k))
      BY <1>5, <3>4, HeaderRemoveFits
    <3> QED BY <1>3, <3>2, <3>3, <3>5
  <2> QED BY <2>1, <2>2
<1>8. Len(ConcatTypes.types) = Len(JoinedColumns(Joined + 1)) /\ Len(ConcatTypes.types) \in Nat
  <2> DEFINE s == ts_n_blanks[1].types
             t == ts_n_blanks[2].types
  <2>1. s \in Seq(ColumnType) /\ t \in Seq(ColumnType)
    <3>1. Len(headers) = Len(deq) /\ Len(deq) > 1
      BY DEF JoinInv, Lockstep, Filled, Phases, JoiningPcs
    <3>2. ts_n_blanks[1] \in TableTypes /\ ts_n_blanks[2] \in TableTypes
      BY <3>1, ElementOfSeq, Sizes DEF JoinInv, TypeOK, TablesOK
    <3> QED BY <3>2 DEF TableTypes
  <2>2. KeepsKey \/ c_ids[2] \in 1..Len(t)
    BY InProgress DEF JoiningPcs, KeepsKey
  <2>3. ConcatTypes.types = Concat(s, t)
    BY DEF ConcatTypes
  <2>4. Len(s) = Len(lcols) /\ Len(t) = Width(f)
    BY <1>2
  <2>5. Len(Added(Joined + 1)) = Width(f) - (IF KeepsKey THEN 0 ELSE 1)
    BY <1>1, <1>2, <1>6, AddedFacts
  <2> HIDE DEF s, t
  <2>6. /\ Len(Concat(s, t)) = Len(s) + Len(t) - (IF KeepsKey THEN 0 ELSE 1)
        /\ Len(Concat(s, t)) \in Nat
    BY <2>1, <2>2, ConcatTyped
  <2>7. Len(JoinedColumns(Joined + 1)) = Len(lcols) + Len(Added(Joined + 1))
    <3> HIDE DEF lcols
    <3>1. Joins(lcols \o Added(Joined + 1), lcols, Added(Joined + 1))
      BY <1>3, ConcatJoins
    <3> QED BY <1>3, <3>1 DEF Joins
  <2>8. Len(lcols) \in Nat /\ Width(f) \in Nat
    BY <1>1, <1>3, IsSeqFacts, WidthFacts
  <2> QED BY <2>3, <2>4, <2>5, <2>6, <2>7, <2>8
<1> QED BY <1>7, <1>8

-------------------------------------------------------------------------------
(* The steps.                                                                *)

\* The columns of the joined table depend on the command line alone.
LEMMA SameColumns ==
  ASSUME args' = args, NEW k, Joined' = k
  PROVE  /\ JoinedColumns(Joined)' = JoinedColumns(k)
         /\ JoinedColumns(Joined + 1)' = JoinedColumns(k + 1)
         /\ JoinColumns' = JoinColumns /\ Sources' = Sources /\ IsUnion' = IsUnion
<1>1. JoinColumns' = JoinColumns /\ Sources' = Sources /\ IsUnion' = IsUnion
  BY DEF JoinColumns, Sources, Ordered, IsUnion
<1>2. JoinedColumns(Joined)' = JoinedColumns(k)
  BY <1>1 DEF JoinedColumns, Added, KeepsKey, IsOuter, Nth, ColumnsOf, Width
<1>3. JoinedColumns(Joined + 1)' = JoinedColumns(k + 1)
  BY <1>1 DEF JoinedColumns, Added, KeepsKey, IsOuter, Nth, ColumnsOf, Width
<1> QED BY <1>1, <1>2, <1>3

\* A step that joins nothing.
LEMMA ShapeStays ==
  ASSUME JoinInv, RowInv, ShapeInv,
         args' = args, keys' = keys, headers' = headers, c_ids' = c_ids,
         Len(ts_n_blanks'[1].types) = Len(ts_n_blanks[1].types),
         \/ deq' = deq
         \/ \E i \in DOMAIN deq : /\ deq[i].kind = "reader"
                                  /\ \E p \in 0..Body : deq' = At(i, p),
         Filled' => Filled, ResultFits'
  PROVE  ShapeInv'
<1>1. /\ 1 \in DOMAIN deq /\ Joined' = Joined
      /\ deq'[1].kind = deq[1].kind /\ (deq[1].kind = "fake" => deq'[1] = deq[1])
      /\ deq[1].kind \in {"reader", "fake"}
  BY SourcesMove DEF JoinInv, TypeOK, DeqOK
<1> PICK k : k = Joined
  OBVIOUS
<1>2. /\ JoinedColumns(Joined)' = JoinedColumns(k)
      /\ JoinColumns' = JoinColumns /\ Sources' = Sources /\ IsUnion' = IsUnion
  BY <1>1, SameColumns
<1>3. ValidArgs(args)'
  BY DEF ShapeInv, ValidArgs, N
<1>4. KeyPlaces'
  <2>1. \A i \in DOMAIN c_ids' : c_ids'[i] = JoinColumns'[IF i = 1 THEN 1 ELSE Joined' + i - 1]
    BY <1>1, <1>2 DEF ShapeInv, KeyPlaces
  <2>2. ~IsUnion' => \A i \in 1..(IF Filled' THEN N ELSE Len(headers')) :
                       JoinColumns'[i] \in 1..Width(Sources'[i].file)
    <3>1. ASSUME ~IsUnion, NEW i \in 1..(IF Filled' THEN N ELSE Len(headers))
          PROVE  JoinColumns[i] \in 1..Width(Nth(i))
      <4>1. i \in 1..(IF Filled THEN N ELSE Len(headers))
        <5>1. N \in Nat /\ Len(headers) \in Nat /\ Len(headers) <= N
          <6>1. Len(deq) \in Nat /\ Len(headers) \in Nat /\ N \in Nat /\ Len(headers) <= Len(deq)
            BY Sizes, SourcesFacts DEF JoinInv, Lockstep
          <6>2. Len(deq) <= N
            <7>1. Joined \in 1..N /\ Joined = N - Len(deq) + 1
              BY DEF RowInv, SourcesOK, Joined
            <7> QED BY <6>1, <7>1
          <6> QED BY <6>1, <6>2
        <5> QED BY <5>1
      <4> QED BY <3>1, <4>1 DEF ShapeInv, KeyPlaces
    <3> QED BY <1>2, <3>1 DEF Nth
  <2> QED BY <2>1, <2>2 DEF KeyPlaces, Nth, Width, N
<1>5. JoinedFits'
  <2> SUFFICES ASSUME deq'[1].kind = "fake"
               PROVE  /\ Fits(deq'[1].rows, JoinedColumns(k))
                      /\ HeaderFits(headers'[1], JoinedColumns(k))
                      /\ Len(ts_n_blanks'[1].types) = Len(JoinedColumns(k))
    BY <1>2 DEF JoinedFits, Fits, HeaderFits, RowFits
  <2> QED BY <1>1 DEF ShapeInv, JoinedFits
<1> QED BY <1>3, <1>4, <1>5 DEF ShapeInv

\* What the result holds has the columns of the next table.
LEMMA ResultFitsKept ==
  ASSUME args' = args, Joined' = Joined, NEW rows, impl' = rows,
         Fits(rows, JoinedColumns(Joined + 1))
  PROVE  ResultFits'
<1> PICK k : k = Joined
  OBVIOUS
<1>1. JoinedColumns(Joined + 1)' = JoinedColumns(k + 1)
  BY SameColumns
<1>2. Fits(rows, JoinedColumns(k + 1))
  OBVIOUS
<1>3. Fits(impl, JoinedColumns(Joined + 1))'
  BY <1>1, <1>2 DEF Fits, RowFits
<1> QED BY <1>3 DEF ResultFits

LEMMA ShapeAdded ==
  ASSUME JoinInv, RowInv, ShapeInv,
         args' = args, keys' = keys, deq' = deq, headers' = headers, c_ids' = c_ids,
         ts_n_blanks' = ts_n_blanks, Filled' => Filled,
         NEW rows, impl' = rows, Fits(rows, JoinedColumns(Joined + 1))
  PROVE  ShapeInv'
<1>1. Joined' = Joined
  BY DEF Joined, N
<1>2. ResultFits'
  BY <1>1, ResultFitsKept
<1> QED BY <1>2, ShapeStays

\* Steps that open the tables and match their rows.
LEMMA OpenShape ==
  ASSUME JoinInv, RowInv, ShapeInv, HashRight \/ OpenLeft \/ HashLeft
  PROVE  ShapeInv'
<1>1. /\ pc \in {"hash_right", "open_left", "hash_left"} /\ pc \in JoiningPcs
      /\ args' = args /\ keys' = keys /\ headers' = headers /\ c_ids' = c_ids
      /\ ts_n_blanks' = ts_n_blanks /\ impl' = impl
      /\ pc' \in {"second", "no_body_2", "cleanup"} => pc = "hash_left"
      /\ pc' # "hash_left"
      /\ deq' = deq \/ deq' = At(2, IF IsOuter THEN Header ELSE 0) \/ deq' = At(2, 0)
         \/ (deq' = At(1, 0) /\ deq[1].kind # "fake")
  BY DEF HashRight, OpenLeft, HashLeft, Untouched, Tables, JoiningPcs
<1>2. /\ 1 \in DOMAIN deq /\ 2 \in DOMAIN deq /\ deq[2].kind = "reader"
      /\ deq[1].kind \in {"reader", "fake"}
  BY <1>1, InProgress DEF JoinInv, TypeOK, DeqOK
<1>3. \/ deq' = deq
      \/ \E i \in DOMAIN deq : deq[i].kind = "reader" /\ \E p \in 0..Body : deq' = At(i, p)
  <2>1. (IF IsOuter THEN Header ELSE 0) \in 0..Body /\ 0 \in 0..Body
    BY BodyFacts
  <2> QED BY <1>1, <1>2, <2>1
<1>4. Joined' = Joined
  BY <1>1, <1>3, SourcesMove
<1>5. ResultFits'
  <2>1. CASE pc = "hash_left"
    <3> PICK rows : rows = impl
      OBVIOUS
    <3>1. Fits(rows, JoinedColumns(Joined + 1))
      BY <2>1 DEF ShapeInv, ResultFits
    <3> QED BY <1>1, <1>4, <3>1, ResultFitsKept
  <2>2. CASE pc # "hash_left"
    BY <1>1, <2>2 DEF ResultFits
  <2> QED BY <2>1, <2>2
<1>6. Filled' => Filled
  BY <1>1 DEF Filled
<1> QED BY <1>1, <1>3, <1>5, <1>6, ShapeStays

LEMMA WorkShape ==
  ASSUME JoinInv, RowInv, ShapeInv, NEW i \in todo, WorkFirst(i) \/ WorkSecond(i)
  PROVE  ShapeInv'
<1>1. /\ pc \in {"first", "second"}
      /\ args' = args /\ keys' = keys /\ headers' = headers /\ c_ids' = c_ids
      /\ ts_n_blanks' = ts_n_blanks /\ impl' = impl /\ deq' = deq /\ pc' \in {pc, "terminated"}
  BY DEF WorkFirst, WorkSecond, Work, Untouched, Tables
<1>2. Joined' = Joined
  BY <1>1 DEF Joined, N
<1>3. ResultFits'
  <2>1. CASE pc = "second"
    <3> PICK rows : rows = impl
      OBVIOUS
    <3>1. Fits(rows, JoinedColumns(Joined + 1))
      BY <2>1 DEF ShapeInv, ResultFits
    <3> QED BY <1>1, <1>2, <3>1, ResultFitsKept
  <2>2. CASE pc = "first"
    BY <1>1, <2>2 DEF ResultFits
  <2> QED BY <1>1, <2>1, <2>2
<1>4. Filled' => Filled
  BY <1>1 DEF Filled
<1> QED BY <1>1, <1>3, <1>4, ShapeStays

\* The steps that end join(), and no step at all.
LEMMA EndShape ==
  ASSUME JoinInv, RowInv, ShapeInv,
         FillRejected \/ UnionOfEmpty \/ PrintResults \/ Finished \/ UNCHANGED vars
  PROVE  ShapeInv'
<1>1. /\ args' = args /\ keys' = keys /\ deq' = deq /\ headers' = headers /\ c_ids' = c_ids
      /\ ts_n_blanks' = ts_n_blanks /\ impl' = impl
      /\ \/ pc' \in {"rejected", "undefined", "failed", "done"} /\ (pc' # "rejected" => pc = "loop")
         \/ pc' = pc
  BY DEF FillRejected, UnionOfEmpty, PrintResults, Finished, vars, Untouched, Tables, NoWork
<1>2. Joined' = Joined
  BY <1>1 DEF Joined, N
<1>3. ResultFits'
  <2>1. CASE pc' = pc /\ pc \in {"hash_left", "second", "no_body_2", "cleanup"}
    <3> PICK rows : rows = impl
      OBVIOUS
    <3>1. Fits(rows, JoinedColumns(Joined + 1))
      BY <2>1 DEF ShapeInv, ResultFits
    <3> QED BY <1>1, <1>2, <3>1, ResultFitsKept
  <2>2. CASE pc' \notin {"hash_left", "second", "no_body_2", "cleanup"}
    BY <2>2 DEF ResultFits
  <2> QED BY <1>1, <2>1, <2>2
<1>4. Filled' => Filled
  BY <1>1 DEF Filled
<1> QED BY <1>1, <1>3, <1>4, ShapeStays

\* Steps that make new rows.
LEMMA FitsFlattened ==
  ASSUME NEW slots, IsSeq(slots), \A i \in DOMAIN slots : RowsOK(slots[i]),
         NEW cols, \A i \in DOMAIN slots : Fits(slots[i], cols)
  PROVE  Fits(FlattenSeq(slots), cols)
<1> PICK rows : rows = FlattenSeq(slots)
  OBVIOUS
<1>1. Len(slots) \in Nat /\ DOMAIN slots = 1..Len(slots)
  BY IsSeqFacts
<1>2. Gathered(rows, slots, Len(slots))
  BY FlattenFacts DEF RowsOK
<1>3. \A m \in DOMAIN rows : \E i \in DOMAIN slots : \E k \in DOMAIN slots[i] : rows[m] = slots[i][k]
  BY <1>1, <1>2 DEF Gathered
<1> QED BY <1>3 DEF Fits

LEMMA FitsBoth ==
  ASSUME NEW s, IsSeq(s), NEW t, IsSeq(t), NEW cols, Fits(s, cols), Fits(t, cols)
  PROVE  Fits(s \o t, cols)
<1>1. Joins(s \o t, s, t)
  BY ConcatJoins
<1> PICK r : r = s \o t
  OBVIOUS
<1>2. \A c \in DOMAIN r : \/ c \in DOMAIN s /\ r[c] = s[c]
                          \/ c - Len(s) \in DOMAIN t /\ r[c] = t[c - Len(s)]
  BY <1>1 DEF Joins
<1> QED BY <1>2 DEF Fits

LEMMA LeftRowFits ==
  ASSUME JoinInv, RowInv, ShapeInv, pc = "first",
         NEW l, IsSeq(l), RowFits(l, JoinedColumns(Joined))
  PROVE  Fits(LeftRow(l), JoinedColumns(Joined + 1))
<1>1. /\ pc \in JoiningPcs /\ pc \in KeyedPcs /\ Joined \in 1..N /\ Joined + 1 \in 1..N
      /\ RowsOK(RightRows)
  BY InProgress DEF JoiningPcs, KeyedPcs
<1>2. /\ ~IsUnion /\ hash.rows = RightRows
  BY <1>1 DEF RowInv, Keyed, Opened, NewHash
<1>3. /\ KeysIn /\ Fits(RightRows, ColumnsOf(Nth(Joined + 1)))
      /\ Len(ts_n_blanks[2].types) = Width(Nth(Joined + 1))
      /\ c_ids[2] = JoinColumns[Joined + 1]
  BY <1>1, <1>2, InShape
<1> DEFINE cols == JoinedColumns(Joined + 1)
<1> PICK found : found = Find(hash, l[c_ids[1]])
  OBVIOUS
<1>4. \A k \in DOMAIN found : \E j \in DOMAIN RightRows : found[k] = RightRows[j]
  BY <1>1, <1>2, FindFacts
<1>5. \A k \in DOMAIN found : RowFits(Glue(l, found[k]), cols)
  <2> SUFFICES ASSUME NEW k \in DOMAIN found PROVE RowFits(Glue(l, found[k]), cols)
    OBVIOUS
  <2> PICK r : r = found[k]
    OBVIOUS
  <2>1. IsSeq(r) /\ RowFits(r, ColumnsOf(Nth(Joined + 1)))
    BY <1>1, <1>3, <1>4 DEF RowsOK, Fits
  <2>2. RowFits(Glue(l, r), cols)
    BY <1>1, <1>2, <1>3, <2>1, GlueFits
  <2> QED BY <2>2
<1>6. RowFits(PadRight(l), cols)
  BY <1>1, <1>2, <1>3, PadRightFits
<1>7. LeftRow(l) = IF found = <<>> THEN IF args.kind = "inner" THEN <<>> ELSE <<PadRight(l)>>
                   ELSE [i \in DOMAIN found |-> Glue(l, found[i])]
  BY DEF LeftRow
<1> HIDE DEF cols
<1>8. CASE found = <<>> /\ args.kind = "inner"
  BY <1>7, <1>8 DEF Fits
<1>9. CASE found = <<>> /\ args.kind # "inner"
  <2> PICK p : p = PadRight(l)
    OBVIOUS
  <2>1. LeftRow(l) = <<p>> /\ RowFits(p, cols)
    BY <1>6, <1>7, <1>9
  <2>2. Fits(<<p>>, cols)
    BY <2>1 DEF Fits
  <2> QED BY <2>1, <2>2 DEF cols
<1>10. CASE found # <<>>
  <2>1. /\ DOMAIN LeftRow(l) = DOMAIN found
        /\ \A i \in DOMAIN found : LeftRow(l)[i] = Glue(l, found[i])
    BY <1>7, <1>10
  <2> QED BY <1>5, <2>1 DEF Fits, cols
<1> QED BY <1>8, <1>9, <1>10

LEMMA RightRowFits ==
  ASSUME JoinInv, RowInv, ShapeInv, pc = "second",
         NEW r, IsSeq(r), RowFits(r, ColumnsOf(Nth(Joined + 1)))
  PROVE  Fits(RightRow(r), JoinedColumns(Joined + 1))
<1>1. pc \in JoiningPcs /\ Joined \in 1..N /\ Joined + 1 \in 1..N
  BY InProgress DEF JoiningPcs
<1>2. IsOuter /\ KeysIn /\ Len(ts_n_blanks[1].types) = Len(JoinedColumns(Joined))
  BY <1>1, InShape DEF RowInv, Keyed
<1> PICK p : p = PadLeft(r)
  OBVIOUS
<1> DEFINE cols == JoinedColumns(Joined + 1)
<1>3. RowFits(p, cols)
  BY <1>1, <1>2, PadLeftFits
<1> HIDE DEF cols
<1>4. Fits(<<>>, cols) /\ Fits(<<p>>, cols)
  BY <1>3 DEF Fits
<1>5. RightRow(r) = <<>> \/ RightRow(r) = <<p>>
  BY DEF RightRow
<1> QED BY <1>4, <1>5 DEF cols

LEMMA MergeFirstShape == JoinInv /\ RowInv /\ ShapeInv /\ SlotsFollowRows /\ MergeFirst => ShapeInv'
<1> SUFFICES ASSUME JoinInv, RowInv, ShapeInv, SlotsFollowRows, MergeFirst PROVE ShapeInv'
  OBVIOUS
<1>1. /\ pc = "first" /\ pc \in JoiningPcs /\ pc \in KeyedPcs /\ todo = {}
      /\ args' = args /\ keys' = keys /\ deq' = deq /\ headers' = headers /\ c_ids' = c_ids
      /\ ts_n_blanks' = ts_n_blanks
      /\ impl' = impl \o FlattenSeq(join_vec)
  BY DEF MergeFirst, Untouched, Tables, JoiningPcs, KeyedPcs, Merged
<1>2. impl = <<>> /\ table = LeftRows
  BY <1>1 DEF RowInv, Keyed, Opened
<1>3. RowsOK(LeftRows) /\ Fits(LeftRows, JoinedColumns(Joined))
  BY <1>1, InProgress, InShape DEF Kept
<1> PICK slots : slots = join_vec
  OBVIOUS
<1>4. slots = [i \in DOMAIN LeftRows |-> LeftRow(LeftRows[i])]
  BY <1>1, <1>2 DEF SlotsFollowRows, RowResult
<1>5. IsSeq(slots) /\ DOMAIN slots = DOMAIN LeftRows
  <2>1. Len(LeftRows) \in Nat /\ DOMAIN LeftRows = 1..Len(LeftRows)
    BY <1>3, IsSeqFacts DEF RowsOK
  <2>2. slots = [i \in 1..Len(LeftRows) |-> slots[i]]
    BY <1>4, <2>1
  <2> QED BY <1>4, <2>1, <2>2, IsSeqFunction
<1>6. \A i \in DOMAIN slots : /\ IsSeq(LeftRows[i]) /\ RowFits(LeftRows[i], JoinedColumns(Joined))
                              /\ slots[i] = LeftRow(LeftRows[i])
  BY <1>3, <1>4 DEF RowsOK, Fits
<1> DEFINE cols == JoinedColumns(Joined + 1)
<1>7. \A i \in DOMAIN slots : RowsOK(slots[i]) /\ Fits(slots[i], cols)
  BY <1>1, <1>6, LeftRowFacts, LeftRowFits
<1> PICK rows : rows = FlattenSeq(slots)
  OBVIOUS
<1> HIDE DEF cols
<1>8. RowsOK(rows) /\ Fits(rows, cols)
  <2>1. \A i \in DOMAIN slots : RowsOK(slots[i])
    BY <1>7
  <2>2. RowsOK(rows)
    BY <1>5, <2>1, MergedRows
  <2>3. Fits(rows, cols)
    BY <1>5, <1>7, FitsFlattened
  <2> QED BY <2>2, <2>3
<1>9. impl' = rows
  <2>1. rows \in Seq({rows[i] : i \in DOMAIN rows})
    BY <1>8 DEF RowsOK, IsSeq
  <2>2. <<>> \o rows = rows
    BY <2>1, ConcatEmptySeq
  <2> QED BY <1>1, <1>2, <2>2
<1>10. Filled
  BY <1>1 DEF Filled
<1>11. Fits(rows, JoinedColumns(Joined + 1))
  BY <1>8 DEF cols
<1> QED BY <1>1, <1>9, <1>10, <1>11, ShapeAdded

LEMMA MergeSecondShape ==
  JoinInv /\ RowInv /\ ShapeInv /\ SlotsFollowRows /\ MergeSecond => ShapeInv'
<1> SUFFICES ASSUME JoinInv, RowInv, ShapeInv, SlotsFollowRows, MergeSecond PROVE ShapeInv'
  OBVIOUS
<1>1. /\ pc = "second" /\ pc \in JoiningPcs /\ pc \in KeyedPcs /\ todo = {}
      /\ args' = args /\ keys' = keys /\ deq' = deq /\ headers' = headers /\ c_ids' = c_ids
      /\ ts_n_blanks' = ts_n_blanks
      /\ impl' = impl \o FlattenSeq(join_vec)
  BY DEF MergeSecond, Untouched, Tables, JoiningPcs, KeyedPcs, Merged
<1> DEFINE cols == JoinedColumns(Joined + 1)
<1>2. table = RightRows /\ IsSeq(impl) /\ Fits(impl, cols)
  BY <1>1 DEF RowInv, Opened, FirstPassDone, PassedOnce, RowsOK, ShapeInv, ResultFits
<1>3. RowsOK(RightRows) /\ Fits(RightRows, ColumnsOf(Nth(Joined + 1)))
  BY <1>1, InProgress, InShape
<1> PICK slots : slots = join_vec
  OBVIOUS
<1>4. slots = [i \in DOMAIN RightRows |-> RightRow(RightRows[i])]
  BY <1>1, <1>2 DEF SlotsFollowRows, RowResult
<1>5. IsSeq(slots) /\ DOMAIN slots = DOMAIN RightRows
  <2>1. Len(RightRows) \in Nat /\ DOMAIN RightRows = 1..Len(RightRows)
    BY <1>3, IsSeqFacts DEF RowsOK
  <2>2. slots = [i \in 1..Len(RightRows) |-> slots[i]]
    BY <1>4, <2>1
  <2> QED BY <1>4, <2>1, <2>2, IsSeqFunction
<1>6. \A i \in DOMAIN slots : /\ IsSeq(RightRows[i])
                              /\ RowFits(RightRows[i], ColumnsOf(Nth(Joined + 1)))
                              /\ slots[i] = RightRow(RightRows[i])
  BY <1>3, <1>4 DEF RowsOK, Fits
<1>7. \A i \in DOMAIN slots : RowsOK(slots[i]) /\ Fits(slots[i], cols)
  BY <1>1, <1>6, RightRowFacts, RightRowFits
<1> PICK rows : rows = FlattenSeq(slots)
  OBVIOUS
<1> PICK before : before = impl
  OBVIOUS
<1> HIDE DEF cols
<1>8. RowsOK(rows) /\ Fits(rows, cols)
  <2>1. \A i \in DOMAIN slots : RowsOK(slots[i])
    BY <1>7
  <2>2. RowsOK(rows)
    BY <1>5, <2>1, MergedRows
  <2>3. Fits(rows, cols)
    BY <1>5, <1>7, FitsFlattened
  <2> QED BY <2>2, <2>3
<1>9. Fits(before \o rows, cols)
  BY <1>2, <1>8, FitsBoth DEF RowsOK
<1>10. Filled
  BY <1>1 DEF Filled
<1>11. Fits(before \o rows, JoinedColumns(Joined + 1)) /\ impl' = before \o rows
  BY <1>1, <1>9 DEF cols
<1> QED BY <1>1, <1>10, <1>11, ShapeAdded

\* Rows padded on the right, or on the left.
LEMMA RightPadded ==
  ASSUME JoinInv, RowInv, ShapeInv, pc \in {"no_body", "disjoint"}, NEW rows,
         rows = [i \in DOMAIN RunRows(deq[1]) |-> PadRight(RunRows(deq[1])[i])]
  PROVE  Fits(rows, JoinedColumns(Joined + 1))
<1>1. pc \in JoiningPcs /\ Joined \in 1..N /\ Joined + 1 \in 1..N /\ ~IsUnion
  BY InProgress DEF JoiningPcs, RowInv, Keyed, KeyedPcs
<1> PICK source : source = RunRows(deq[1])
  OBVIOUS
<1>2. /\ RowsOK(source) /\ KeysIn /\ Fits(source, JoinedColumns(Joined))
      /\ Len(ts_n_blanks[2].types) = Width(Nth(Joined + 1))
  BY <1>1, InProgress, InShape
<1>3. DOMAIN rows = DOMAIN source /\ \A i \in DOMAIN source : rows[i] = PadRight(source[i])
  OBVIOUS
<1> DEFINE cols == JoinedColumns(Joined + 1)
<1>4. \A i \in DOMAIN source : RowFits(PadRight(source[i]), cols)
  BY <1>1, <1>2, PadRightFits DEF RowsOK, Fits
<1> HIDE DEF cols
<1>5. Fits(rows, cols)
  BY <1>3, <1>4 DEF Fits
<1> QED BY <1>5 DEF cols

LEMMA LeftPadded ==
  ASSUME JoinInv, RowInv, ShapeInv, pc \in {"no_body_2", "disjoint"}, IsOuter, NEW rows,
         rows = [i \in DOMAIN RunRows(deq[2]) |-> PadLeft(RunRows(deq[2])[i])]
  PROVE  Fits(rows, JoinedColumns(Joined + 1))
<1>1. pc \in JoiningPcs /\ Joined \in 1..N /\ Joined + 1 \in 1..N
  BY InProgress DEF JoiningPcs
<1> PICK source : source = RunRows(deq[2])
  OBVIOUS
<1>2. /\ RowsOK(source) /\ KeysIn /\ Fits(source, ColumnsOf(Nth(Joined + 1)))
      /\ Len(ts_n_blanks[1].types) = Len(JoinedColumns(Joined))
  BY <1>1, InProgress, InShape
<1>3. DOMAIN rows = DOMAIN source /\ \A i \in DOMAIN source : rows[i] = PadLeft(source[i])
  OBVIOUS
<1> DEFINE cols == JoinedColumns(Joined + 1)
<1>4. \A i \in DOMAIN source : RowFits(PadLeft(source[i]), cols)
  BY <1>1, <1>2, PadLeftFits DEF RowsOK, Fits
<1> HIDE DEF cols
<1>5. Fits(rows, cols)
  BY <1>3, <1>4 DEF Fits
<1> QED BY <1>5 DEF cols

LEMMA NoBodyShape == JoinInv /\ RowInv /\ ShapeInv /\ NoBody => ShapeInv'
<1> SUFFICES ASSUME JoinInv, RowInv, ShapeInv, NoBody PROVE ShapeInv'
  OBVIOUS
<1>1. /\ pc = "no_body" /\ pc \in KeyedPcs /\ Filled
      /\ args' = args /\ keys' = keys /\ deq' = deq /\ headers' = headers /\ c_ids' = c_ids
      /\ ts_n_blanks' = ts_n_blanks
  BY DEF NoBody, Untouched, Tables, KeyedPcs, Filled
<1> PICK rows : rows = impl'
  OBVIOUS
<1>2. Fits(rows, JoinedColumns(Joined + 1))
  <2>1. CASE args.kind = "inner"
    <3>1. rows = <<>>
      BY <1>1, <2>1 DEF NoBody, RowInv, Keyed
    <3> QED BY <3>1 DEF Fits
  <2>2. CASE args.kind # "inner"
    <3>1. rows = [i \in DOMAIN RunRows(deq[1]) |-> PadRight(RunRows(deq[1])[i])]
      BY <2>2 DEF NoBody
    <3> QED BY <1>1, <3>1, RightPadded
  <2> QED BY <2>1, <2>2
<1> QED BY <1>1, <1>2, ShapeAdded

LEMMA NoBodySecondShape == JoinInv /\ RowInv /\ ShapeInv /\ NoBodySecond => ShapeInv'
<1> SUFFICES ASSUME JoinInv, RowInv, ShapeInv, NoBodySecond PROVE ShapeInv'
  OBVIOUS
<1> DEFINE padded == [i \in DOMAIN RunRows(deq[2]) |-> PadLeft(RunRows(deq[2])[i])]
<1>1. /\ pc = "no_body_2" /\ pc \in KeyedPcs /\ Filled
      /\ args' = args /\ keys' = keys /\ deq' = deq /\ headers' = headers /\ c_ids' = c_ids
      /\ ts_n_blanks' = ts_n_blanks /\ impl' = impl \o padded
  BY DEF NoBodySecond, Untouched, Tables, KeyedPcs, Filled
<1> PICK once : once = impl
  OBVIOUS
<1> PICK rest : rest = padded
  OBVIOUS
<1>2. IsOuter /\ RowsOK(once) /\ Fits(once, JoinedColumns(Joined + 1))
  BY <1>1 DEF RowInv, Keyed, FirstPassDone, PassedOnce, ShapeInv, ResultFits
<1>3. RowsOK(rest) /\ Fits(rest, JoinedColumns(Joined + 1))
  BY <1>1, <1>2, PaddedRight, LeftPadded
<1>4. impl' = once \o rest
  BY <1>1
<1> HIDE DEF padded
<1>5. Fits(once \o rest, JoinedColumns(Joined + 1))
  BY <1>2, <1>3, FitsBoth DEF RowsOK
<1> QED BY <1>1, <1>4, <1>5, ShapeAdded

LEMMA DisjointShape == JoinInv /\ RowInv /\ ShapeInv /\ Disjoint => ShapeInv'
<1> SUFFICES ASSUME JoinInv, RowInv, ShapeInv, Disjoint PROVE ShapeInv'
  OBVIOUS
<1> DEFINE left == [i \in DOMAIN RunRows(deq[1]) |-> PadRight(RunRows(deq[1])[i])]
           right == [i \in DOMAIN RunRows(deq[2]) |-> PadLeft(RunRows(deq[2])[i])]
<1>1. /\ pc = "disjoint" /\ Filled
      /\ args' = args /\ keys' = keys /\ deq' = deq /\ headers' = headers /\ c_ids' = c_ids
      /\ ts_n_blanks' = ts_n_blanks
  BY DEF Disjoint, Untouched, Tables, Filled
<1> PICK l : l = left
  OBVIOUS
<1> PICK r : r = right
  OBVIOUS
<1>2. impl' = CASE args.kind = "inner" -> <<>> [] IsOuter -> l \o r [] OTHER -> l
  BY DEF Disjoint
<1>3. RowsOK(l) /\ Fits(l, JoinedColumns(Joined + 1))
  BY <1>1, PaddedLeft, RightPadded
<1>4. RowsOK(r) /\ (IsOuter => Fits(r, JoinedColumns(Joined + 1)))
  BY <1>1, PaddedRight, LeftPadded
<1> HIDE DEF left, right
<1> PICK rows : rows = impl'
  OBVIOUS
<1>5. Fits(rows, JoinedColumns(Joined + 1))
  <2>1. CASE args.kind = "inner"
    <3>1. rows = <<>>
      BY <1>2, <2>1 DEF IsOuter
    <3> QED BY <3>1 DEF Fits
  <2>2. CASE IsOuter
    <3>1. rows = l \o r
      BY <1>2, <2>2 DEF IsOuter
    <3>2. Fits(l \o r, JoinedColumns(Joined + 1))
      BY <1>3, <1>4, <2>2, FitsBoth DEF RowsOK
    <3> QED BY <3>1, <3>2
  <2>3. CASE args.kind # "inner" /\ ~IsOuter
    BY <1>2, <1>3, <2>3
  <2> QED BY <2>1, <2>2, <2>3
<1> QED BY <1>1, <1>5, ShapeAdded

LEMMA UnionShape == JoinInv /\ RowInv /\ ShapeInv /\ Union => ShapeInv'
<1> SUFFICES ASSUME JoinInv, RowInv, ShapeInv, Union PROVE ShapeInv'
  OBVIOUS
<1>1. /\ pc = "loop" /\ Len(deq) > 1 /\ IsUnion /\ ~EmptyFake /\ Filled
      /\ args' = args /\ keys' = keys /\ deq' = deq /\ headers' = headers /\ c_ids' = c_ids
      /\ ts_n_blanks' = ts_n_blanks
  BY DEF Union, Untouched, Tables, Filled
<1> PICK l : l = RunRows(deq[1])
  OBVIOUS
<1> PICK r : r = RunRows(deq[2])
  OBVIOUS
<1> PICK w1 : w1 = SourceWidth(1)
  OBVIOUS
<1> PICK w2 : w2 = SourceWidth(2)
  OBVIOUS
<1> DEFINE n == IF Len(l) > Len(r) THEN Len(l) ELSE Len(r)
           a(i) == IF i \in DOMAIN l THEN l[i] ELSE Padding(w1)
           b(i) == IF i \in DOMAIN r THEN r[i] ELSE Padding(w2)
           lcols == JoinedColumns(Joined)
           rcols == Added(Joined + 1)
<1> PICK rows : rows = impl'
  OBVIOUS
<1>2. DOMAIN rows = 1..n /\ \A i \in 1..n : rows[i] = a(i) \o b(i)
  BY DEF Union
<1>3. /\ RowsOK(l) /\ RowsOK(r) /\ Joined \in 1..N /\ Joined + 1 \in 1..N /\ Joined + 1 # 1
      /\ deq[2].kind = "reader" /\ deq[1].kind \in {"reader", "fake"}
      /\ Nth(Joined + 1) \in File
  <2>1. deq[1].kind \in {"reader", "fake"}
    BY <1>1, InProgress DEF JoinInv, TypeOK, DeqOK
  <2> QED BY <1>1, <2>1, InProgress
<1>4. rcols = ColumnsOf(Nth(Joined + 1))
  BY <1>1, <1>3 DEF Added, KeepsKey
<1>5. /\ KeysIn /\ Fits(l, lcols) /\ Fits(r, rcols)
      /\ HeaderFits(headers[1], lcols) /\ HeaderFits(headers[2], rcols)
  BY <1>1, <1>4, InShape
<1>6. IsSeq(lcols) /\ IsSeq(rcols)
  BY <1>3, <1>5, NewColumns
<1>7. Len(l) \in Nat /\ DOMAIN l = 1..Len(l)
  BY <1>3, IsSeqFacts DEF RowsOK
<1> HIDE DEF lcols, rcols
<1>8. w1 = Len(lcols)
  <2>1. CASE deq[1].kind = "fake"
    <3>1. l = deq[1].rows /\ l # <<>> /\ w1 = Len(l[1])
      BY <1>1, <2>1 DEF RunRows, EmptyFake, SourceWidth
    <3>2. 1 \in DOMAIN l
      <4>1. Len(l) # 0
        BY <1>3, <3>1, EmptySeq DEF RowsOK, IsSeq
      <4> QED BY <1>7, <4>1
    <3> QED BY <1>5, <3>1, <3>2 DEF Fits, RowFits
  <2>2. CASE deq[1].kind = "reader"
    <3>1. w1 = Len(headers[1])
      BY <2>2 DEF SourceWidth
    <3> QED BY <1>5, <3>1 DEF HeaderFits
  <2> QED BY <1>3, <2>1, <2>2
<1>9. w2 = Len(rcols)
  BY <1>3, <1>5 DEF SourceWidth, HeaderFits
<1>10. Len(lcols) \in Nat /\ Len(rcols) \in Nat
  BY <1>6, IsSeqFacts
<1>11. \A i \in 1..n : /\ IsSeq(a(i)) /\ RowFits(a(i), lcols)
                       /\ IsSeq(b(i)) /\ RowFits(b(i), rcols)
  <2>1. IsSeq(Padding(w1)) /\ RowFits(Padding(w1), lcols)
    BY <1>6, <1>8, <1>10, PaddingRow, FitsPadding
  <2>2. IsSeq(Padding(w2)) /\ RowFits(Padding(w2), rcols)
    BY <1>6, <1>9, <1>10, PaddingRow, FitsPadding
  <2> QED BY <1>3, <1>5, <2>1, <2>2 DEF RowsOK, Fits
<1> HIDE DEF n, a, b
<1>12. \A i \in 1..n : RowFits(a(i) \o b(i), JoinedColumns(Joined + 1))
  BY <1>3, <1>5, <1>11, AddFits DEF lcols, rcols
<1>13. Fits(rows, JoinedColumns(Joined + 1))
  <2> DEFINE cols == JoinedColumns(Joined + 1)
  <2>1. \A i \in 1..n : RowFits(a(i) \o b(i), cols)
    BY <1>12
  <2> HIDE DEF cols
  <2>2. \A i \in DOMAIN rows : RowFits(rows[i], cols)
    BY <1>2, <2>1
  <2> QED BY <2>2 DEF Fits, cols
<1> QED BY <1>1, <1>13, ShapeAdded

\* Steps that change the tables.
LEMMA KeysCompared ==
  ASSUME JoinInv, RowInv, CanCompare
  PROVE  /\ \A i \in {1, 2} :
              /\ Len(ts_n_blanks'[i].types) = Len(ts_n_blanks[i].types)
              /\ ts_n_blanks'[i].blanks = ts_n_blanks[i].blanks
              /\ ts_n_blanks'[i].types[c_ids[i]] \in {KeyTypeOf(i), "text"}
         /\ \A i \in DOMAIN ts_n_blanks : i \notin {1, 2} => ts_n_blanks'[i] = ts_n_blanks[i]
         /\ IF ~SameTypes /\ BothBlank THEN ts_n_blanks'[1].types[c_ids[1]] = "text"
            ELSE ts_n_blanks' = ts_n_blanks
<1>1. /\ pc = "loop" /\ Len(deq) > 1 /\ ~IsUnion
      /\ ts_n_blanks' = IF ~SameTypes /\ BothBlank
                          THEN [ts_n_blanks EXCEPT ![1] = SetKeyToText(1), ![2] = SetKeyToText(2)]
                          ELSE ts_n_blanks
  BY DEF CanCompare
<1>2. CASE ~(~SameTypes /\ BothBlank)
  BY <1>1, <1>2 DEF KeyTypeOf
<1>3. CASE ~SameTypes /\ BothBlank
  <2>1. 1 \in DOMAIN ts_n_blanks /\ 2 \in DOMAIN ts_n_blanks
    BY <1>1, Sizes DEF JoinInv, Lockstep, Filled
  <2>2. \A i \in {1, 2} : ts_n_blanks[i].types \in Seq(ColumnType)
    <3>1. ts_n_blanks[1] \in TableTypes /\ ts_n_blanks[2] \in TableTypes
      BY <2>1, ElementOfSeq, Sizes DEF JoinInv, TypeOK, TablesOK
    <3> QED BY <3>1 DEF TableTypes
  <2>3. c_ids[1] \in 1..Len(ts_n_blanks[1].types) /\ c_ids[2] \in 1..Len(ts_n_blanks[2].types)
    BY <1>1, InProgress
  <2>4. ASSUME NEW t \in Seq(ColumnType), NEW c \in 1..Len(t)
        PROVE  Len([t EXCEPT ![c] = "text"]) = Len(t) /\ [t EXCEPT ![c] = "text"][c] = "text"
    <3>1. "text" \in ColumnType
      BY DEF ColumnType
    <3> QED BY <3>1, ExceptSeq
  <2>5. ASSUME NEW i \in {1, 2}
        PROVE  /\ Len(SetKeyToText(i).types) = Len(ts_n_blanks[i].types)
               /\ SetKeyToText(i).blanks = ts_n_blanks[i].blanks
               /\ SetKeyToText(i).types[c_ids[i]] = "text"
    <3> PICK t : t = ts_n_blanks[i].types
      OBVIOUS
    <3> PICK c : c = c_ids[i]
      OBVIOUS
    <3>1. /\ SetKeyToText(i).types = [t EXCEPT ![c] = "text"]
          /\ SetKeyToText(i).blanks = ts_n_blanks[i].blanks
      BY DEF SetKeyToText
    <3>2. t \in Seq(ColumnType) /\ c \in 1..Len(t)
      BY <2>2, <2>3
    <3>3. Len([t EXCEPT ![c] = "text"]) = Len(t) /\ [t EXCEPT ![c] = "text"][c] = "text"
      BY <2>4, <3>2
    <3> QED BY <3>1, <3>3
  <2> DEFINE s1 == SetKeyToText(1)
             s2 == SetKeyToText(2)
  <2>6. ts_n_blanks' = [ts_n_blanks EXCEPT ![1] = s1, ![2] = s2]
    BY <1>1, <1>3
  <2>7. /\ Len(s1.types) = Len(ts_n_blanks[1].types) /\ s1.blanks = ts_n_blanks[1].blanks
        /\ s1.types[c_ids[1]] = "text"
        /\ Len(s2.types) = Len(ts_n_blanks[2].types) /\ s2.blanks = ts_n_blanks[2].blanks
        /\ s2.types[c_ids[2]] = "text"
    BY <2>5
  <2> HIDE DEF s1, s2
  <2>8. /\ ts_n_blanks'[1] = s1 /\ ts_n_blanks'[2] = s2
        /\ \A i \in DOMAIN ts_n_blanks : i \notin {1, 2} => ts_n_blanks'[i] = ts_n_blanks[i]
    BY <2>1, <2>6
  <2> QED BY <1>3, <2>7, <2>8
<1> QED BY <1>1, <1>2, <1>3

LEMMA CanCompareShape == JoinInv /\ RowInv /\ ShapeInv /\ CanCompare => ShapeInv'
<1> SUFFICES ASSUME JoinInv, RowInv, ShapeInv, CanCompare PROVE ShapeInv'
  OBVIOUS
<1>1. /\ pc = "loop" /\ pc' \in {"hash_right", "disjoint"} /\ Filled
      /\ args' = args /\ keys' = keys /\ deq' = deq /\ headers' = headers /\ c_ids' = c_ids
  BY DEF CanCompare, Untouched, Filled
<1>2. Len(ts_n_blanks'[1].types) = Len(ts_n_blanks[1].types)
  BY KeysCompared
<1>3. ResultFits'
  BY <1>1 DEF ResultFits
<1> QED BY <1>1, <1>2, <1>3, ShapeStays

LEMMA FillShape == JoinInv /\ RowInv /\ ShapeInv /\ Fill => ShapeInv'
<1> SUFFICES ASSUME JoinInv, RowInv, ShapeInv, Fill PROVE ShapeInv'
  OBVIOUS
<1> DEFINE f == deq[Next0].file
           k == JoinColumns[Next0]
<1>1. /\ pc = "fill" /\ pc' = (IF Next0 = N THEN "loop" ELSE "fill")
      /\ args' = args /\ keys' = keys
      /\ ~IsUnion => k \in 1..Width(f)
      /\ deq' = At(Next0, Body)
      /\ headers' = Append(headers, Names[f])
      /\ c_ids' = IF IsUnion THEN c_ids ELSE Append(c_ids, k)
  BY DEF Fill, Untouched
<1>2. /\ Len(headers) \in Nat /\ IsSeq(headers) /\ Len(deq) = N /\ N \in Nat
      /\ Next0 = Len(headers) + 1 /\ Next0 \in DOMAIN deq /\ DOMAIN deq = 1..N
      /\ IsUnion => c_ids = <<>>
      /\ ~IsUnion => Len(c_ids) = Len(headers)
      /\ c_ids \in Seq(Nat)
  <2>1. /\ Len(headers) \in Nat /\ Len(deq) \in Nat /\ DOMAIN deq = 1..Len(deq)
    BY Sizes
  <2>2. Len(headers) < Len(deq) /\ Len(deq) = N
    BY <1>1 DEF JoinInv, Lockstep, Filled
  <2>3. IsSeq(headers) /\ c_ids \in Seq(Nat)
    BY DEF JoinInv, TypeOK, TablesOK
  <2> QED BY <2>1, <2>2, <2>3 DEF Next0, JoinInv, Lockstep
<1>3. deq[1].kind = "reader" /\ deq[Next0].kind = "reader"
  <2>1. deq[1].kind = "reader"
    BY <1>1 DEF JoinInv, Phases
  <2> QED BY <1>2, <2>1 DEF JoinInv, TypeOK, DeqOK
<1>4. Joined = 1 /\ f = Nth(Next0) /\ f \in File
  <2>1. Joined = 1
    BY <1>2 DEF Joined
  <2>2. Joined + Next0 - 1 = Next0
    BY <1>2, <2>1
  <2> QED BY <1>2, <1>3, <2>1, <2>2 DEF RowInv, SourcesOK, JoinInv, TypeOK, DeqOK
<1>5. \E i \in DOMAIN deq : deq[i].kind = "reader" /\ \E p \in 0..Body : deq' = At(i, p)
  <2>1. Body \in 0..Body
    BY BodyFacts
  <2> QED BY <1>1, <1>2, <1>3, <2>1
<1>6. Joined' = 1 /\ deq'[1].kind = "reader"
  BY <1>1, <1>2, <1>3, <1>4, <1>5, SourcesMove
<1>7. JoinColumns' = JoinColumns /\ Sources' = Sources /\ IsUnion' = IsUnion
  BY <1>1 DEF JoinColumns, Sources, Ordered, IsUnion
<1> HIDE DEF f, k
<1>8. Len(headers') = Next0
  BY <1>1, <1>2, IsSeqAppend
<1>9. \A i \in DOMAIN c_ids' : c_ids'[i] = JoinColumns[i]
  <2>1. CASE IsUnion
    BY <1>1, <1>2, <2>1
  <2>2. CASE ~IsUnion
    <3>1. k \in Nat /\ c_ids' = Append(c_ids, k) /\ Len(c_ids) + 1 = Next0
      BY <1>1, <1>2, <2>2, <1>4, WidthFacts
    <3>2. /\ DOMAIN c_ids' = 1..Next0 /\ c_ids'[Next0] = k
          /\ \A i \in 1..Len(c_ids) : c_ids'[i] = c_ids[i]
      BY <1>2, <3>1, AppendProperties, LenProperties
    <3>3. \A i \in 1..Len(c_ids) : c_ids[i] = JoinColumns[i]
      <4> TAKE i \in 1..Len(c_ids)
      <4>1. i \in DOMAIN c_ids /\ (IF i = 1 THEN 1 ELSE Joined + i - 1) = i
        BY <1>2, <1>4, LenProperties
      <4> QED BY <4>1 DEF ShapeInv, KeyPlaces
    <3>4. \A i \in 1..Next0 : i = Next0 \/ i \in 1..Len(c_ids)
      BY <1>2, <3>1
    <3> QED BY <3>2, <3>3, <3>4 DEF k
  <2> QED BY <2>1, <2>2
<1>10. ~IsUnion => \A i \in 1..(IF Filled' THEN N ELSE Len(headers')) :
                     JoinColumns[i] \in 1..Width(Nth(i))
  <2> SUFFICES ASSUME ~IsUnion, NEW i \in 1..(IF Filled' THEN N ELSE Len(headers'))
               PROVE  JoinColumns[i] \in 1..Width(Nth(i))
    OBVIOUS
  <2>1. i \in 1..Next0
    BY <1>1, <1>8 DEF Filled
  <2>2. CASE i = Next0
    BY <1>1, <1>4, <2>2 DEF k
  <2>3. CASE i # Next0
    <3>1. i \in 1..Len(headers)
      BY <1>2, <2>1, <2>3
    <3> QED BY <1>1, <3>1 DEF ShapeInv, KeyPlaces, Filled
  <2> QED BY <2>2, <2>3
<1>11. KeyPlaces'
  <2>1. \A i \in DOMAIN c_ids' : c_ids'[i] = JoinColumns'[IF i = 1 THEN 1 ELSE Joined' + i - 1]
    <3> TAKE i \in DOMAIN c_ids'
    <3>1. i \in Nat
      <4>1. CASE IsUnion
        BY <1>1, <1>2, <4>1
      <4>2. CASE ~IsUnion
        <5>1. c_ids' \in Seq(Nat)
          BY <1>1, <1>2, <1>4, <4>2, WidthFacts, AppendProperties
        <5> QED BY <5>1, LenProperties
      <4> QED BY <4>1, <4>2
    <3>2. (IF i = 1 THEN 1 ELSE Joined' + i - 1) = i
      BY <1>6, <3>1
    <3> QED BY <1>7, <1>9, <3>2
  <2> QED BY <1>7, <1>10, <2>1 DEF KeyPlaces, Nth, Width, N
<1>12. JoinedFits' /\ ResultFits'
  BY <1>1, <1>6 DEF JoinedFits, ResultFits
<1>13. ValidArgs(args)'
  BY <1>1 DEF ShapeInv, ValidArgs, N
<1> QED BY <1>11, <1>12, <1>13 DEF ShapeInv

\* The two tables in front become one.
Replaces(t, s, x) == t = DropSecond([s EXCEPT ![1] = x])

LEMMA TwoTablesBecomeOne ==
  ASSUME JoinInv, RowInv, Cleanup, pc' = "loop"
  PROVE  /\ Len(deq) > 1 /\ DOMAIN deq = 1..Len(deq) /\ Len(deq) \in Nat
         /\ Len(deq') = Len(deq) - 1 /\ DOMAIN deq' = 1..(Len(deq) - 1)
         /\ deq'[1] = Fake(impl) /\ \A i \in 2..(Len(deq) - 1) : deq'[i] = deq[i + 1]
         /\ Joined' = Joined + 1
         /\ headers'[1] = ConcatHeaders
         /\ ts_n_blanks'[1] = (IF MustRecalculate THEN Typify(impl, Len(ConcatTypes.types))
                               ELSE ConcatTypes)
         /\ \A i \in 2..(Len(deq) - 1) : ts_n_blanks'[i] = ts_n_blanks[i + 1]
         /\ IsUnion => c_ids' = c_ids
         /\ ~IsUnion => /\ DOMAIN c_ids' = 1..(Len(deq) - 1) /\ c_ids'[1] = c_ids[1]
                        /\ \A i \in 2..(Len(deq) - 1) : i + 1 \in DOMAIN c_ids /\ c_ids'[i] = c_ids[i + 1]
<1>1. PICK header, types :
        /\ header = ConcatHeaders
        /\ types = (IF MustRecalculate THEN Typify(impl, Len(ConcatTypes.types)) ELSE ConcatTypes)
        /\ pc = "cleanup"
        /\ deq' = <<Fake(impl)>> \o SubSeq(deq, 3, Len(deq))
        /\ headers' = DropSecond([headers EXCEPT ![1] = header])
        /\ ts_n_blanks' = DropSecond([ts_n_blanks EXCEPT ![1] = types])
        /\ c_ids' = IF IsUnion THEN c_ids ELSE DropSecond(c_ids)
  BY DEF Cleanup
<1> PICK fake : fake = Fake(impl)
  OBVIOUS
<1>2. /\ Len(deq) > 1 /\ Len(deq) \in Nat /\ DOMAIN deq = 1..Len(deq) /\ IsSeq(deq)
      /\ Len(headers) = Len(deq) /\ IsSeq(headers)
      /\ Len(ts_n_blanks) = Len(deq) /\ IsSeq(ts_n_blanks)
      /\ ~IsUnion => IsSeq(c_ids) /\ Len(c_ids) = Len(deq)
  <2>1. Len(deq) > 1 /\ Len(headers) = Len(deq)
    BY <1>1 DEF JoinInv, Phases, Lockstep, Filled, JoiningPcs
  <2>2. IsSeq(deq) /\ IsSeq(headers) /\ ts_n_blanks \in Seq(TableTypes) /\ c_ids \in Seq(Nat)
    BY DEF JoinInv, TypeOK, DeqOK, TablesOK
  <2>3. IsSeq(ts_n_blanks) /\ IsSeq(c_ids)
    BY <2>2, SeqIsSeq
  <2> QED BY <2>1, <2>2, <2>3, Sizes
<1>3. /\ IsSeq(deq') /\ Len(deq') = Len(deq) - 1 /\ deq'[1] = fake
      /\ \A i \in 2..(Len(deq) - 1) : deq'[i] = deq[i + 1]
      /\ DOMAIN deq' = 1..(Len(deq) - 1)
  <2>1. deq' = <<fake>> \o SubSeq(deq, 3, Len(deq))
    BY <1>1
  <2>2. /\ IsSeq(deq') /\ Len(deq') = Len(deq) - 1 /\ deq'[1] = fake
        /\ \A i \in 2..(Len(deq) - 1) : deq'[i] = deq[i + 1]
    BY <1>2, <2>1, TwoBecomeOne
  <2> QED BY <2>2, IsSeqFacts
<1>4. ASSUME NEW s, IsSeq(s), Len(s) = Len(deq), NEW x, NEW t, Replaces(t, s, x)
      PROVE  t[1] = x /\ \A i \in 2..(Len(deq) - 1) : t[i] = s[i + 1]
  <2>1. 1 \in DOMAIN s /\ Len(s) > 1
    BY <1>2, <1>4, IsSeqFacts
  <2>2. PICK r : /\ t = DropSecond(r) /\ IsSeq(r) /\ Len(r) = Len(s) /\ r[1] = x
                 /\ \A i \in DOMAIN s : i # 1 => r[i] = s[i]
    <3> PICK e : e = [s EXCEPT ![1] = x]
      OBVIOUS
    <3>1. /\ IsSeq(e) /\ Len(e) = Len(s) /\ e[1] = x
          /\ \A i \in DOMAIN s : i # 1 => e[i] = s[i]
      BY <1>4, <2>1, IsSeqExcept
    <3> QED BY <1>4, <3>1 DEF Replaces
  <2>3. /\ IsSeq(DropSecond(r)) /\ Len(DropSecond(r)) = Len(s) - 1
        /\ \A i \in 2..(Len(s) - 1) : DropSecond(r)[i] = s[i + 1]
    BY <1>4, <2>1, <2>2, HeadReplaced
  <2>4. DropSecond(r)[1] = r[1]
    BY <1>4, <2>1, <2>2, DropSecondFacts
  <2> QED BY <1>4, <2>2, <2>3, <2>4
<1>5. headers'[1] = header
  <2>1. Replaces(headers', headers, header)
    BY <1>1 DEF Replaces
  <2> QED BY <1>2, <1>4, <2>1
<1>6. ts_n_blanks'[1] = types /\ \A i \in 2..(Len(deq) - 1) : ts_n_blanks'[i] = ts_n_blanks[i + 1]
  <2>1. Replaces(ts_n_blanks', ts_n_blanks, types)
    BY <1>1 DEF Replaces
  <2> QED BY <1>2, <1>4, <2>1
<1>7. ASSUME ~IsUnion
      PROVE  /\ DOMAIN c_ids' = 1..(Len(deq) - 1) /\ c_ids'[1] = c_ids[1]
             /\ \A i \in 2..(Len(deq) - 1) : i + 1 \in DOMAIN c_ids /\ c_ids'[i] = c_ids[i + 1]
  <2> PICK s : s = c_ids
    OBVIOUS
  <2> PICK t : t = c_ids'
    OBVIOUS
  <2>1. t = DropSecond(s) /\ IsSeq(s) /\ Len(s) > 1 /\ Len(s) = Len(deq)
    BY <1>1, <1>2, <1>7
  <2>2. /\ IsSeq(t) /\ Len(t) = Len(s) - 1 /\ t[1] = s[1]
        /\ \A i \in 2..Len(t) : i + 1 \in DOMAIN s /\ t[i] = s[i + 1]
    BY <2>1, DropSecondFacts
  <2> QED BY <2>1, <2>2, IsSeqFacts
<1>8. Joined' = Joined + 1
  <2>1. N \in Nat /\ Joined = N - Len(deq) + 1 /\ Joined' = N - (Len(deq) - 1) + 1
    BY <1>3, SourcesFacts DEF Joined, N
  <2> QED BY <1>2, <2>1
<1> QED BY <1>1, <1>2, <1>3, <1>5, <1>6, <1>7, <1>8

LEMMA CleanupShape == JoinInv /\ RowInv /\ ShapeInv /\ Cleanup => ShapeInv'
<1> SUFFICES ASSUME JoinInv, RowInv, ShapeInv, Cleanup PROVE ShapeInv'
  OBVIOUS
<1>1. /\ pc = "cleanup" /\ args' = args /\ keys' = keys /\ impl' = impl
      /\ pc' \in {"failed", "loop"}
      /\ pc' = "failed" => deq' = deq /\ headers' = headers /\ c_ids' = c_ids
                           /\ ts_n_blanks' = ts_n_blanks
  BY DEF Cleanup, Untouched
<1>2. ResultFits'
  BY <1>1 DEF ResultFits
<1>3. CASE pc' = "failed"
  <2>1. Filled
    BY <1>1 DEF Filled
  <2> QED BY <1>1, <1>2, <1>3, <2>1, ShapeStays
<1>4. CASE pc' = "loop"
  <2> PICK k : k = Joined + 1
    OBVIOUS
  <2>1. /\ Len(deq) \in Nat /\ Joined' = k /\ deq'[1] = Fake(impl) /\ headers'[1] = ConcatHeaders
        /\ ts_n_blanks'[1] = (IF MustRecalculate THEN Typify(impl, Len(ConcatTypes.types))
                              ELSE ConcatTypes)
        /\ IsUnion => c_ids' = c_ids
        /\ ~IsUnion => /\ DOMAIN c_ids' = 1..(Len(deq) - 1) /\ c_ids'[1] = c_ids[1]
                       /\ 1 \in DOMAIN c_ids
                       /\ \A i \in 2..(Len(deq) - 1) : i + 1 \in DOMAIN c_ids /\ c_ids'[i] = c_ids[i + 1]
    <3>1. ~IsUnion => 1 \in DOMAIN c_ids
      <4>1. Len(deq) > 1 /\ Len(deq) \in Nat
        BY <1>4, TwoTablesBecomeOne
      <4>2. ~IsUnion => Len(c_ids) = Len(deq)
        BY <1>1 DEF JoinInv, Lockstep, Filled
      <4> QED BY <4>1, <4>2, Sizes
    <3> QED BY <1>4, <3>1, TwoTablesBecomeOne
  <2>2. /\ JoinedColumns(Joined)' = JoinedColumns(k)
        /\ JoinColumns' = JoinColumns /\ Sources' = Sources /\ IsUnion' = IsUnion
    BY <1>1, <2>1, SameColumns
  <2>3. Joined \in Nat
    BY <1>1, InProgress DEF JoiningPcs
  <2>4. KeyPlaces'
    <3>1. \A i \in DOMAIN c_ids' : c_ids'[i] = JoinColumns'[IF i = 1 THEN 1 ELSE Joined' + i - 1]
      <4>1. CASE IsUnion
        <5>1. c_ids' = <<>>
          BY <2>1, <4>1 DEF JoinInv, Lockstep
        <5> QED BY <5>1
      <4>2. CASE ~IsUnion
        <5> TAKE i \in DOMAIN c_ids'
        <5>1. CASE i = 1
          BY <2>1, <2>2, <4>2, <5>1 DEF ShapeInv, KeyPlaces
        <5>2. CASE i # 1
          <6>1. i \in 2..(Len(deq) - 1) /\ i + 1 # 1
            BY <2>1, <4>2, <5>2
          <6>2. Joined' + i - 1 = Joined + (i + 1) - 1
            BY <2>1, <2>3, <6>1
          <6> QED BY <2>1, <2>2, <4>2, <5>2, <6>1, <6>2 DEF ShapeInv, KeyPlaces
        <5> QED BY <5>1, <5>2
      <4> QED BY <4>1, <4>2
    <3>2. ~IsUnion => \A i \in 1..N : JoinColumns[i] \in 1..Width(Nth(i))
      BY <1>1 DEF ShapeInv, KeyPlaces, Filled
    <3>3. Filled'
      BY <1>4 DEF Filled
    <3> QED BY <2>2, <3>1, <3>2, <3>3 DEF KeyPlaces, Nth, Width, N
  <2>5. JoinedFits'
    <3> PICK rows : rows = impl
      OBVIOUS
    <3>1. deq'[1].rows = rows
      BY <2>1 DEF Fake
    <3>2. Fits(rows, JoinedColumns(k))
      BY <1>1 DEF ShapeInv, ResultFits
    <3>3. HeaderFits(headers'[1], JoinedColumns(k))
      BY <1>1, <2>1, ResultTables
    <3>4. Len(ts_n_blanks'[1].types) = Len(JoinedColumns(k))
      BY <1>1, <2>1, ResultTables, TypifyTyped
    <3> QED BY <2>2, <3>1, <3>2, <3>3, <3>4 DEF JoinedFits, Fits, HeaderFits, RowFits
  <2>6. ValidArgs(args)'
    BY <1>1 DEF ShapeInv, ValidArgs, N
  <2> QED BY <1>2, <2>4, <2>5, <2>6 DEF ShapeInv
<1> QED BY <1>1, <1>3, <1>4

-------------------------------------------------------------------------------
(* The shape of the tables is an invariant.                                  *)

LEMMA ShapeInvInit == Init => ShapeInv
<1> SUFFICES ASSUME Init PROVE ShapeInv
  OBVIOUS
<1>1. ValidArgs(args) /\ pc = "fill" /\ headers = <<>> /\ c_ids = <<>> /\ deq = Sources
  BY DEF Init
<1>2. KeyPlaces
  BY <1>1 DEF KeyPlaces, Filled
<1>3. deq[1].kind = "reader"
  <2>1. 1 \in DOMAIN Sources
    BY SourcesFacts, IsSeqFacts
  <2> QED BY <1>1, <2>1, SourcesFacts
<1>4. JoinedFits /\ ResultFits
  BY <1>1, <1>3 DEF JoinedFits, ResultFits
<1> QED BY <1>1, <1>2, <1>4 DEF ShapeInv

LEMMA ShapeInvStep ==
  JoinInv /\ RowInv /\ SlotsFollowRows /\ ShapeInv /\ [Next]_vars => ShapeInv'
<1> SUFFICES ASSUME JoinInv, RowInv, SlotsFollowRows, ShapeInv, [Next]_vars PROVE ShapeInv'
  OBVIOUS
<1>1. CASE Fill
  BY <1>1, FillShape
<1>2. CASE CanCompare
  BY <1>2, CanCompareShape
<1>3. CASE HashRight \/ OpenLeft \/ HashLeft
  BY <1>3, OpenShape
<1>4. CASE \E i \in todo : WorkFirst(i) \/ WorkSecond(i)
  BY <1>4, WorkShape
<1>5. CASE MergeFirst \/ MergeSecond
  BY <1>5, MergeFirstShape, MergeSecondShape
<1>6. CASE NoBody \/ NoBodySecond
  BY <1>6, NoBodyShape, NoBodySecondShape
<1>7. CASE Disjoint \/ Union
  BY <1>7, DisjointShape, UnionShape
<1>8. CASE Cleanup
  BY <1>8, CleanupShape
<1>9. CASE FillRejected \/ UnionOfEmpty \/ PrintResults \/ Finished \/ UNCHANGED vars
  BY <1>9, EndShape
<1> QED BY <1>1, <1>2, <1>3, <1>4, <1>5, <1>6, <1>7, <1>8, <1>9 DEF Next

LEMMA ShapeInvHolds == Spec => []ShapeInv
BY JoinInvHolds, RowInvHolds, SlotsHold, ShapeInvInit, ShapeInvStep, PTL DEF Spec

LEMMA ShapeAligned ==
  ASSUME JoinInv, RowInv, ShapeInv
  PROVE  Aligned
<1> SUFFICES ASSUME AtLoop
             PROVE  /\ \A i \in DOMAIN RunRows(deq[1]) :
                         RowFits(RunRows(deq[1])[i], JoinedColumns(Joined))
                    /\ HeaderFits(headers[1], JoinedColumns(Joined))
                    /\ Len(ts_n_blanks[1].types) = Len(JoinedColumns(Joined))
                    /\ Len(ts_n_blanks[1].blanks) = Len(JoinedColumns(Joined))
                    /\ ~IsUnion => JoinedColumns(Joined)[c_ids[1]] = <<Nth(1), args.columns[Nth(1)]>>
  BY DEF Aligned, HeaderFits
<1>1. /\ 1 \in DOMAIN deq /\ DOMAIN deq = 1..Len(deq) /\ Filled
      /\ 1 \in DOMAIN headers /\ 1 \in DOMAIN ts_n_blanks /\ (~IsUnion => 1 \in DOMAIN c_ids)
  <2>1. Filled
    BY DEF AtLoop, Filled
  <2>2. Len(headers) = Len(deq)
    BY <2>1 DEF JoinInv, Lockstep
  <2>3. 1 \in DOMAIN deq /\ DOMAIN deq = 1..Len(deq) /\ Len(deq) \in Nat \ {0}
    <3>1. DOMAIN deq = 1..Len(deq) /\ Len(deq) \in Nat \ {0}
      BY Sizes
    <3>2. 1 \in 1..Len(deq)
      BY <3>1
    <3> QED BY <3>1, <3>2
  <2>4. DOMAIN headers = DOMAIN deq /\ DOMAIN ts_n_blanks = DOMAIN deq
    BY <2>2, <2>3, Sizes
  <2>5. ~IsUnion => DOMAIN c_ids = DOMAIN deq
    BY <2>2, <2>3, Sizes
  <2> QED BY <2>1, <2>3, <2>4, <2>5
<1>2. /\ deq[1].kind \in {"reader", "fake"} /\ Joined \in 1..N /\ N \in Nat
      /\ deq[1].kind = "reader" => Joined = 1 /\ deq[1].file = Nth(1) /\ deq[1].file \in File
  <2>1. /\ deq[1].kind \in {"reader", "fake"} /\ (deq[1].kind = "reader" => deq[1].file \in File)
    BY <1>1 DEF JoinInv, TypeOK, DeqOK
  <2>2. deq[1].kind = "reader" => Joined = 1 /\ deq[1].file = Nth(Joined + 1 - 1)
    BY <1>1 DEF RowInv, SourcesOK
  <2>3. Joined \in 1..N /\ N \in Nat
    BY SourcesFacts DEF RowInv, SourcesOK
  <2> QED BY <2>1, <2>2, <2>3
<1>3. /\ \A i \in DOMAIN RunRows(deq[1]) : RowFits(RunRows(deq[1])[i], JoinedColumns(Joined))
      /\ HeaderFits(headers[1], JoinedColumns(Joined))
      /\ Len(ts_n_blanks[1].types) = Len(JoinedColumns(Joined))
  <2>1. CASE deq[1].kind = "fake"
    <3>1. RunRows(deq[1]) = deq[1].rows
      BY <2>1 DEF RunRows
    <3> QED BY <2>1, <3>1 DEF ShapeInv, JoinedFits, Fits
  <2>2. CASE deq[1].kind = "reader"
    <3>1. JoinedColumns(Joined) = ColumnsOf(Nth(1))
      BY <1>2, <2>2, FirstColumns
    <3>2. Fits(RunRows(deq[1]), ColumnsOf(Nth(1)))
      BY <1>2, <2>2, ReaderFits
    <3>3. headers[1] = Names[Nth(1)] /\ Len(ts_n_blanks[1].types) = Width(Nth(1))
      BY <1>1, <1>2, <2>2 DEF RowInv, TablesFit
    <3>4. HeaderFits(headers[1], ColumnsOf(Nth(1)))
      BY <1>2, <2>2, <3>3, FileHeaderFits
    <3>5. Len(ts_n_blanks[1].types) = Len(ColumnsOf(Nth(1)))
      BY <1>2, <2>2, <3>3, ColumnsOfFacts
    <3> QED BY <3>1, <3>2, <3>4, <3>5 DEF Fits
  <2> QED BY <1>2, <2>1, <2>2
<1>4. Len(ts_n_blanks[1].blanks) = Len(JoinedColumns(Joined))
  BY <1>1, <1>3 DEF JoinInv, TypeOK, TablesOK
<1>5. ASSUME ~IsUnion PROVE JoinedColumns(Joined)[c_ids[1]] = <<Nth(1), args.columns[Nth(1)]>>
  <2>1. KeysIn
    BY <1>1 DEF ShapeInv, KeyPlaces, KeysIn
  <2>2. c_ids[1] = JoinColumns[1]
    BY <1>1, <1>5 DEF ShapeInv, KeyPlaces
  <2>3. 1 \in 1..N
    BY <1>2
  <2>4. JoinColumns[1] \in 1..Width(Nth(1)) /\ JoinColumns[1] = args.columns[Nth(1)]
    BY <1>5, <2>1, <2>3, JoinColumnsFacts DEF ShapeInv, KeysIn
  <2> QED BY <1>2, <2>1, <2>2, <2>4, JoinedColumnsFacts
<1> QED BY <1>3, <1>4, <1>5

\* However many tables have been joined and whatever the order of the workers,
\* header, types, blanks and rows of the joined table go together, its key column
\* is the first file's, and its rows hold whole rows of the files.
THEOREM AlignedHolds == Spec => []Aligned
BY JoinInvHolds, RowInvHolds, ShapeInvHolds, ShapeAligned, PTL

-------------------------------------------------------------------------------
(* No name twice.                                                            *)

\* A new name is not one the header has, and a blank one may be there again.
LEMMA FreshDiffers ==
  ASSUME NEW header, IsSeq(header), Distinct(header), NEW x, x = <<>> \/ ~Occurs(x, header)
  PROVE  Distinct(Append(header, x))
<1>n. PICK n : n = Len(header)
  OBVIOUS
<1>a. PICK t : t = Append(header, x)
  OBVIOUS
<1>1. n \in Nat /\ DOMAIN header = 1..n
  BY <1>n, IsSeqFacts
<1>2. IsSeq(t) /\ Len(t) = Len(header) + 1
  BY <1>a, AppendedAny
<1>3. t[Len(header) + 1] = x /\ \A i \in 1..Len(header) : t[i] = header[i]
  BY <1>a, AppendedAny
<1>4. t[n + 1] = x /\ \A i \in 1..n : t[i] = header[i]
  BY <1>n, <1>3
<1>5. DOMAIN t = 1..(n + 1)
  BY <1>n, <1>2, IsSeqFacts
<1>6. ASSUME NEW i \in DOMAIN t, NEW j \in DOMAIN t, t[i] = t[j], t[i] # <<>>
      PROVE  i = j
  <2>1. (i \in 1..n \/ i = n + 1) /\ (j \in 1..n \/ j = n + 1)
    BY <1>1, <1>5
  <2>2. CASE i \in 1..n /\ j \in 1..n
    <3>1. header[i] = header[j] /\ header[i] # <<>>
      BY <1>4, <1>6, <2>2
    <3> QED BY <1>1, <2>2, <3>1 DEF Distinct
  <2>3. x = <<>> \/ \A k \in 1..n : t[k] # x
    BY <1>1, <1>4 DEF Occurs
  <2>4. CASE i = n + 1 /\ j \in 1..n
    BY <1>4, <1>6, <2>3, <2>4
  <2>5. CASE i \in 1..n /\ j = n + 1
    BY <1>4, <1>6, <2>3, <2>5
  <2> QED BY <2>1, <2>2, <2>4, <2>5
<1>7. Distinct(t)
  BY <1>6 DEF Distinct
<1> QED BY <1>7, <1>a

LEMMA AppendedDiffers ==
  ASSUME NEW header, IsSeq(header), Distinct(header), NEW name, IsSeq(name)
  PROVE  Distinct(AppendName(header, name))
<1>1. CASE Clash(name, header)
  BY <1>1, MangledIsNew, FreshDiffers DEF AppendName
<1>2. CASE ~Clash(name, header)
  <2>1. name = <<>> \/ ~Occurs(name, header)
    BY <1>2 DEF Clash
  <2> QED BY <1>2, <2>1, FreshDiffers DEF AppendName
<1> QED BY <1>1, <1>2

LEMMA HeadersDiffer ==
  ASSUME NEW left, IsSeq(left), Distinct(left), NEW right, IsSeq(right),
         \A c \in DOMAIN right : IsSeq(right[c])
  PROVE  Distinct(AppendHeader(left, right)) /\ IsSeq(AppendHeader(left, right))
<1> DEFINE n == Len(right)
<1>1. n \in Nat /\ DOMAIN right = 1..n
  BY IsSeqFacts
<1>2. PICK f : Growing(left, right, n, f) /\ AppendHeader(left, right) = f[n]
  BY <1>1, AppendHeaderDefined
<1> HIDE DEF n
<1>3. \A m \in 0..n : f[m] = IF m = 0 THEN left ELSE AppendName(f[m - 1], right[m])
  BY <1>2 DEF Growing
<1> DEFINE S == {m \in Nat : m \in 0..n => IsSeq(f[m]) /\ Distinct(f[m])}
<1>4. 0 \in S
  <2>1. f[0] = left
    BY <1>1, <1>3
  <2> QED BY <2>1
<1>5. ASSUME NEW m \in Nat, m \in S PROVE m + 1 \in S
  <2> SUFFICES ASSUME m + 1 \in 0..n PROVE IsSeq(f[m + 1]) /\ Distinct(f[m + 1])
    OBVIOUS
  <2>1. m \in 0..n /\ m + 1 \in 1..n /\ m + 1 # 0 /\ (m + 1) - 1 = m
    BY <1>1
  <2>2. f[m + 1] = AppendName(f[m], right[m + 1])
    BY <1>3, <2>1
  <2>3. IsSeq(f[m]) /\ Distinct(f[m]) /\ IsSeq(right[m + 1])
    BY <1>1, <1>5, <2>1
  <2> QED BY <2>2, <2>3, AppendNameFacts, AppendedDiffers
<1> HIDE DEF S
<1>6. n \in S
  BY <1>1, <1>4, <1>5, Induction
<1> QED BY <1>1, <1>2, <1>6 DEF S

\* Nor has a header without one of its columns a name twice.
LEMMA StillDiffers ==
  ASSUME NEW s, IsSeq(s), Distinct(s), NEW i \in DOMAIN s
  PROVE  Distinct(RemoveAt(s, i))
<1>a. PICK t : t = RemoveAt(s, i)
  OBVIOUS
<1>1. Len(s) \in Nat /\ DOMAIN s = 1..Len(s)
  BY IsSeqFacts
<1> DEFINE place(c) == IF c < i THEN c ELSE c + 1
<1>2. /\ IsSeq(t) /\ Len(t) = Len(s) - 1
      /\ \A c \in 1..(Len(s) - 1) : place(c) \in DOMAIN s /\ t[c] = s[place(c)]
  BY <1>a, RemoveAtShift
<1>3. DOMAIN t = 1..(Len(s) - 1)
  BY <1>2, IsSeqFacts
<1>4. ASSUME NEW c \in DOMAIN t, NEW d \in DOMAIN t, t[c] = t[d], t[c] # <<>>
      PROVE  c = d
  <2>1. place(c) = place(d)
    <3> HIDE DEF place
    <3> QED BY <1>2, <1>3, <1>4 DEF Distinct
  <2> QED BY <1>1, <1>3, <2>1
<1>5. Distinct(t)
  BY <1>4 DEF Distinct
<1> QED BY <1>5, <1>a

NamesDiffer == 1 \in DOMAIN headers /\ Distinct(Names[Nth(1)]) => Distinct(headers[1])

LEMMA ConcatHeadersDiffer ==
  ASSUME JoinInv, RowInv, ShapeInv, pc = "cleanup", Distinct(headers[1])
  PROVE  Distinct(ConcatHeaders)
<1>1. /\ Joined \in 1..N /\ Joined + 1 \in 1..N /\ Nth(Joined + 1) \in File
      /\ deq[2].file = Nth(Joined + 1) /\ deq[2].kind = "reader" /\ 2 \in DOMAIN deq
  BY InProgress DEF JoiningPcs
<1> PICK left, right, f, k :
      left = headers[1] /\ right = headers[2] /\ f = Nth(Joined + 1) /\ k = c_ids[2]
  OBVIOUS
<1>2. /\ KeysIn /\ HeaderFits(left, JoinedColumns(Joined))
      /\ ~IsUnion => k = JoinColumns[Joined + 1]
  BY InShape DEF JoiningPcs
<1>3. right = Names[f]
  <2>1. 2 \in DOMAIN headers
    <3>1. Len(headers) = Len(deq)
      BY DEF JoinInv, Lockstep, Filled
    <3> QED BY <1>1, <3>1, Sizes
  <2> QED BY <1>1, <2>1 DEF RowInv, TablesFit
<1>4. /\ IsSeq(right) /\ Len(right) = Width(f) /\ DOMAIN right = 1..Width(f)
      /\ \A c \in DOMAIN right : IsSeq(right[c])
  BY <1>1, <1>3, NameFacts
<1>5. IsSeq(left) /\ Len(left) \in Nat /\ Distinct(left)
  BY <1>2, IsSeqFacts DEF HeaderFits
<1>a. PICK all : all = AppendHeader(left, right)
  OBVIOUS
<1>6. IsSeq(all) /\ Distinct(all) /\ Len(all) = Len(left) + Len(right)
  <2>1. Grown(all, left, right, Len(right))
    BY <1>4, <1>5, <1>a, AppendHeaderFacts
  <2> QED BY <1>4, <1>5, <1>a, <2>1, HeadersDiffer DEF Grown
<1>7. CASE KeepsKey
  BY <1>6, <1>7, <1>a DEF ConcatHeaders
<1>8. CASE ~KeepsKey
  <2>1. k \in 1..Width(f) /\ Width(f) \in Nat
    BY <1>1, <1>2, <1>8, WidthFacts DEF KeepsKey, KeysIn
  <2>2. Len(left) + k \in DOMAIN all
    BY <1>4, <1>5, <1>6, <2>1, IsSeqFacts
  <2>3. ConcatHeaders = RemoveAt(all, Len(left) + k)
    BY <1>8, <1>a DEF ConcatHeaders
  <2> QED BY <1>6, <2>2, <2>3, StillDiffers
<1> QED BY <1>7, <1>8

LEMMA HeadersStay ==
  ASSUME [Next]_vars
  PROVE  args' = args /\ (headers' = headers \/ Fill \/ (Cleanup /\ pc' = "loop"))
<1>1. CASE Fill \/ Cleanup
  BY <1>1 DEF Fill, Cleanup, Untouched
<1>2. CASE FillRejected \/ UnionOfEmpty \/ PrintResults \/ Finished \/ UNCHANGED vars
  BY <1>2 DEF FillRejected, UnionOfEmpty, PrintResults, Finished, vars, Untouched, Tables
<1>3. CASE CanCompare \/ Disjoint \/ Union
  BY <1>3 DEF CanCompare, Disjoint, Union, Untouched, Tables
<1>4. CASE HashRight \/ OpenLeft \/ HashLeft
  BY <1>4 DEF HashRight, OpenLeft, HashLeft, Untouched, Tables
<1>5. CASE (\E i \in todo : WorkFirst(i)) \/ (\E i \in todo : WorkSecond(i))
  BY <1>5 DEF WorkFirst, WorkSecond, Work, Untouched, Tables
<1>6. CASE MergeFirst \/ MergeSecond \/ NoBody \/ NoBodySecond
  BY <1>6 DEF MergeFirst, MergeSecond, NoBody, NoBodySecond, Untouched, Tables
<1> QED BY <1>1, <1>2, <1>3, <1>4, <1>5, <1>6 DEF Next

LEMMA NamesDifferStep ==
  JoinInv /\ RowInv /\ ShapeInv /\ NamesDiffer /\ [Next]_vars => NamesDiffer'
<1> SUFFICES ASSUME JoinInv, RowInv, ShapeInv, NamesDiffer, [Next]_vars PROVE NamesDiffer'
  OBVIOUS
<1>1. args' = args
  BY HeadersStay
<1>2. Nth(1)' = Nth(1)
  BY <1>1 DEF Nth, Sources, Ordered
<1>3. CASE Fill
  <2> PICK f : f = deq[Next0].file
    OBVIOUS
  <2>1. /\ pc = "fill" /\ headers' = Append(headers, Names[f])
        /\ Len(headers) \in Nat /\ IsSeq(headers) /\ Len(deq) = N /\ N \in Nat
        /\ Next0 = Len(headers) + 1 /\ Next0 \in DOMAIN deq
    <3>1. /\ Len(headers) \in Nat /\ Len(deq) \in Nat /\ DOMAIN deq = 1..Len(deq)
      BY Sizes
    <3>2. pc = "fill" /\ headers' = Append(headers, Names[f])
      BY <1>3 DEF Fill
    <3>3. Len(headers) < Len(deq) /\ Len(deq) = N
      BY <3>2 DEF JoinInv, Lockstep, Filled
    <3>4. IsSeq(headers)
      BY DEF JoinInv, TypeOK, TablesOK
    <3> QED BY <3>1, <3>2, <3>3, <3>4 DEF Next0
  <2>2. /\ \A i \in 1..Len(headers) : headers'[i] = headers[i]
        /\ headers'[Len(headers) + 1] = Names[f]
    BY <2>1, AppendedAny
  <2>3. CASE Len(headers) = 0
    <3>1. Len(headers) = 0 /\ Next0 = 1
      BY <2>1, <2>3
    <3>2. Joined = 1
      BY <2>1 DEF Joined
    <3>3. deq[1].kind = "reader" /\ 1 \in DOMAIN deq
      BY <2>1, <3>1 DEF JoinInv, Phases
    <3>4. f = Nth(Joined + 1 - 1) /\ Joined + 1 - 1 = 1
      BY <3>1, <3>2, <3>3 DEF RowInv, SourcesOK
    <3>5. headers'[1] = Names[Nth(1)]
      BY <2>2, <3>1, <3>4
    <3> QED BY <1>2, <3>5 DEF NamesDiffer
  <2>4. CASE Len(headers) # 0
    <3>1. 1 \in 1..Len(headers) /\ 1 \in DOMAIN headers
      BY <2>1, <2>4, IsSeqFacts
    <3> QED BY <1>2, <2>2, <3>1 DEF NamesDiffer
  <2> QED BY <2>3, <2>4
<1>4. CASE Cleanup /\ pc' = "loop"
  <2>1. /\ headers'[1] = ConcatHeaders /\ pc = "cleanup" /\ Len(deq) > 1 /\ Len(deq) \in Nat
    BY <1>4, TwoTablesBecomeOne DEF Cleanup
  <2>2. Len(headers) = Len(deq) /\ DOMAIN headers = 1..Len(headers)
    BY <2>1, Sizes DEF JoinInv, Lockstep, Filled
  <2>3. 1 \in DOMAIN headers
    BY <2>1, <2>2
  <2> QED BY <1>2, <2>1, <2>3, ConcatHeadersDiffer DEF NamesDiffer
<1>5. CASE ~Fill /\ ~(Cleanup /\ pc' = "loop")
  <2>1. headers' = headers
    BY <1>5, HeadersStay
  <2> QED BY <1>2, <2>1 DEF NamesDiffer
<1> QED BY <1>3, <1>4, <1>5

\* A name that is there already is changed, as often as it takes, so if the first file
\* has no name twice, nor has what is joined, however many files and names there are
\* (concat_headers).
THEOREM HeaderStaysDistinct == Spec => []HeaderDistinct
<1>1. Init => NamesDiffer
  <2> SUFFICES ASSUME Init PROVE NamesDiffer
    OBVIOUS
  <2>1. headers = <<>>
    BY DEF Init
  <2> QED BY <2>1, IsSeqEmpty, IsSeqFacts DEF NamesDiffer
<1>2. JoinInv /\ NamesDiffer => HeaderDistinct
  <2> SUFFICES ASSUME JoinInv, NamesDiffer, Filled PROVE 1 \in DOMAIN headers
    BY DEF HeaderDistinct, NamesDiffer
  <2>1. Len(headers) = Len(deq)
    BY DEF JoinInv, Lockstep
  <2>2. DOMAIN headers = 1..Len(headers) /\ Len(deq) \in Nat \ {0}
    BY Sizes
  <2> QED BY <2>1, <2>2
<1> QED BY <1>1, <1>2, NamesDifferStep, JoinInvHolds, RowInvHolds, ShapeInvHolds, PTL DEF Spec

-------------------------------------------------------------------------------
(* What is said of the key columns.                                          *)

\* typify() says of a column what its cells hold.
LEMMA TypifyTold ==
  ASSUME NEW rows, NEW n \in Nat, NEW c \in 1..n
  PROVE  ColumnTold(Typify(rows, n).types[c], Typify(rows, n).blanks[c], c, rows)
<1>1. /\ Typify(rows, n).types[c] = TypeOf(Column(rows, c))
      /\ Typify(rows, n).blanks[c] = HasBlanks(Column(rows, c))
  BY DEF Typify
<1> DEFINE vals == Column(rows, c)
<1>2. \A j \in DOMAIN rows : Value(rows[j][c]) \in vals
  BY DEF Column
<1> HIDE DEF vals
<1>3. ASSUME NEW v \in vals
      PROVE  Told(TypeOf(vals), HasBlanks(vals), v)
  BY DEF Told, TypeOf, HasBlanks
<1>4. ColumnTold(TypeOf(vals), HasBlanks(vals), c, rows)
  BY <1>2, <1>3 DEF ColumnTold
<1> QED BY <1>1, <1>4 DEF vals

LEMMA FileTypesTold ==
  ASSUME KeysOK, NEW f \in File, NEW c \in 1..Width(f)
  PROVE  /\ ColumnTold(FileTypes(f).types[c], FileTypes(f).blanks[c], c, BodyRows(f))
         /\ keys[f] = <<>> => FileTypes(f).types[c] # "number"
<1>1. CASE keys[f] = <<>>
  <2>1. BodyRows(f) = <<>>
    BY <1>1, BodyRowsFacts
  <2>2. FileTypes(f).types[c] = "bool"
    BY <1>1 DEF FileTypes, NoBodyTypes
  <2> QED BY <2>1, <2>2 DEF ColumnTold
<1>2. CASE keys[f] # <<>>
  <2>1. FileTypes(f) = Typify(BodyRows(f), Width(f))
    BY <1>2 DEF FileTypes
  <2> QED BY <1>2, <2>1, WidthFacts, TypifyTold
<1> QED BY <1>1, <1>2

\* What is said of a column does not depend on the state.
LEMMA ToldKept ==
  ASSUME args' = args, keys' = keys, NEW i, NEW rows,
         NEW type, NEW blanks, NEW c, ColumnTold(type, blanks, c, rows),
         c_ids'[i] = c, ts_n_blanks'[i].types[c] = type, ts_n_blanks'[i].blanks[c] = blanks
  PROVE  /\ SourceRows(i)' = rows => KeyTold(i, SourceRows(i))'
         /\ impl' = rows => KeyTold(1, impl)' \/ i # 1
         /\ RunRows(deq[1])' = rows => KeyTold(1, RunRows(deq[1]))' \/ i # 1
<1>1. \A j \in DOMAIN rows : Told(type, blanks, Value(rows[j][c]))'
  BY DEF ColumnTold, Told, Absent, Value
<1>2. SourceRows(i)' = rows => KeyTold(i, SourceRows(i))'
  BY <1>1 DEF KeyTold, ColumnTold, KeyTypeOf, KeyBlanks, Told, Absent, Value
<1>3. impl' = rows => KeyTold(1, impl)' \/ i # 1
  BY <1>1 DEF KeyTold, ColumnTold, KeyTypeOf, KeyBlanks, Told, Absent, Value
<1>4. RunRows(deq[1])' = rows => KeyTold(1, RunRows(deq[1]))' \/ i # 1
  BY <1>1 DEF KeyTold, ColumnTold, KeyTypeOf, KeyBlanks, Told, Absent, Value
<1> QED BY <1>2, <1>3, <1>4

\* A key that is told is hashed without an exception.
LEMMA NeverThrows ==
  ASSUME SameTypes, NEW rows, NEW i \in {1, 2}, NEW k \in {1, 2}, NEW v,
         Told(KeyTypeOf(i), KeyBlanks(i), v)
  PROVE  ~Throws(NewHash(rows, k), v)
<1> PICK h : h = NewHash(rows, k)
  OBVIOUS
<1>1. h.type = KeyTypeOf(k) /\ h.blanks = (KeyBlanks(1) \/ KeyBlanks(2))
  BY DEF NewHash
<1>2. CASE args.no_inference
  BY <1>2 DEF Throws, AsText
<1>3. CASE ~args.no_inference
  <2>1. KeyTypeOf(i) = KeyTypeOf(k)
    BY <1>3 DEF SameTypes
  <2>2. SUFFICES ASSUME h.type = "number", v \notin Numerals PROVE NullAware(h) /\ v \in Nulls
    BY DEF Throws
  <2>3. Absent(v)
    BY <1>1, <2>1, <2>2 DEF Told
  <2> QED BY <1>1, <2>3 DEF Told, Absent, NullAware
<1> QED BY <1>2, <1>3

\* The keys of the two tables in front.
LEMMA KeysInFront ==
  ASSUME JoinInv, RowInv, KeysTold, pc \in JoiningPcs \/ (pc = "loop" /\ Len(deq) > 1), ~IsUnion
  PROVE  /\ KeyTold(1, LeftRows) /\ KeyTold(2, RightRows)
         /\ deq[1].kind = "reader" /\ keys[deq[1].file] = <<>> => KeyTypeOf(1) # "number"
         /\ 1 \in DOMAIN c_ids /\ 2 \in DOMAIN c_ids
<1>1. Len(deq) > 1 /\ Len(headers) = Len(deq)
  BY DEF JoinInv, Phases, Lockstep, Filled, JoiningPcs
<1>2. DOMAIN c_ids = 1..Len(deq) /\ Len(deq) \in Nat
  BY <1>1, Sizes
<1>3. 1 \in DOMAIN c_ids /\ 2 \in DOMAIN c_ids
  BY <1>1, <1>2
<1>4. /\ KeyTold(1, SourceRows(1)) /\ KeyTold(2, SourceRows(2))
      /\ deq[1].kind = "reader" /\ keys[deq[1].file] = <<>> => KeyTypeOf(1) # "number"
  BY <1>1, <1>3 DEF KeysTold
<1>5. SourceRows(1) = LeftRows /\ SourceRows(2) = RightRows
  BY InProgress DEF SourceRows, LeftRows, RightRows
<1> QED BY <1>3, <1>4, <1>5

LEMMA KeysStay ==
  ASSUME JoinInv, RowInv, KeysTold, args' = args, keys' = keys, c_ids' = c_ids,
         \A i \in DOMAIN c_ids :
           /\ ts_n_blanks'[i].types[c_ids[i]] \in {KeyTypeOf(i), "text"}
           /\ ts_n_blanks'[i].blanks[c_ids[i]] = KeyBlanks(i),
         \/ deq' = deq
         \/ \E i \in DOMAIN deq : /\ deq[i].kind = "reader"
                                  /\ \E p \in 0..Body : deq' = At(i, p)
  PROVE  KeysTold'
<1>1. /\ Len(deq') = Len(deq)
      /\ \A i \in DOMAIN deq : /\ deq'[i].kind = deq[i].kind
                               /\ deq[i].kind = "reader" => deq'[i].file = deq[i].file
                               /\ deq[i].kind = "fake" => deq'[i] = deq[i]
                               /\ deq[i].kind \in {"reader", "fake"}
  BY SourcesMove DEF JoinInv, TypeOK, DeqOK
<1>2. \A i \in DOMAIN c_ids : i \in DOMAIN deq
  <2>1. CASE IsUnion
    BY <2>1 DEF JoinInv, Lockstep
  <2>2. CASE ~IsUnion
    <3>1. Len(headers) <= Len(deq) /\ Len(headers) \in Nat /\ Len(deq) \in Nat
      BY Sizes DEF JoinInv, Lockstep
    <3>2. DOMAIN c_ids = 1..Len(headers) /\ DOMAIN deq = 1..Len(deq)
      BY <2>2, Sizes
    <3> QED BY <3>1, <3>2
  <2> QED BY <2>1, <2>2
<1> SUFFICES ASSUME NEW i \in DOMAIN c_ids, Len(deq) > 1 \/ i > 1
             PROVE  /\ KeyTold(i, SourceRows(i))'
                    /\ deq'[i].kind = "reader" /\ keys[deq'[i].file] = <<>> =>
                         ts_n_blanks'[i].types[c_ids[i]] # "number"
  BY <1>1 DEF KeysTold, KeyTypeOf
<1>3. /\ KeyTold(i, SourceRows(i))
      /\ deq[i].kind = "reader" /\ keys[deq[i].file] = <<>> => KeyTypeOf(i) # "number"
  BY DEF KeysTold
<1> PICK rows : rows = SourceRows(i)
  OBVIOUS
<1>4. SourceRows(i)' = rows
  <2>1. CASE deq[i].kind = "fake"
    BY <1>1, <1>2, <2>1 DEF SourceRows
  <2>2. CASE deq[i].kind = "reader"
    <3>1. BodyRows(deq[i].file)' = BodyRows(deq[i].file)
      BY <1>1, <1>2, <2>2 DEF BodyRows, RunRows, Reader, NLines, Line, Width
    <3> QED BY <1>1, <1>2, <2>2, <3>1 DEF SourceRows
  <2> QED BY <1>1, <1>2, <2>1, <2>2
<1> PICK type : type = ts_n_blanks'[i].types[c_ids[i]]
  OBVIOUS
<1>5. ColumnTold(type, KeyBlanks(i), c_ids[i], rows)
  BY <1>3 DEF KeyTold, ColumnTold, Told
<1>6. KeyTold(i, SourceRows(i))'
  BY <1>4, <1>5, ToldKept
<1> QED BY <1>1, <1>2, <1>3, <1>6

\* Steps that look at the keys.
LEMMA FillKeys == JoinInv /\ RowInv /\ ShapeInv /\ KeyInv /\ Fill => KeyInv'
<1> SUFFICES ASSUME JoinInv, RowInv, ShapeInv, KeyInv, Fill PROVE KeyInv'
  OBVIOUS
<1> DEFINE f == deq[Next0].file
           k == JoinColumns[Next0]
<1>1. /\ pc = "fill" /\ pc' \in {"loop", "fill"}
      /\ args' = args /\ keys' = keys
      /\ ~IsUnion => k \in 1..Width(f)
      /\ deq' = At(Next0, Body)
      /\ ts_n_blanks' = Append(ts_n_blanks, FileTypes(f))
      /\ c_ids' = IF IsUnion THEN c_ids ELSE Append(c_ids, k)
  BY DEF Fill, Untouched
<1>2. /\ Len(headers) \in Nat /\ Len(ts_n_blanks) = Len(headers) /\ IsSeq(ts_n_blanks)
      /\ Next0 = Len(headers) + 1 /\ Next0 \in DOMAIN deq /\ DOMAIN deq = 1..Len(deq)
      /\ Len(deq) \in Nat
      /\ IsUnion => c_ids = <<>>
      /\ ~IsUnion => Len(c_ids) = Len(headers)
      /\ c_ids \in Seq(Nat)
      /\ KeysOK /\ IsSeq(deq)
      /\ headers = <<>> => Next0 = 1
  <2>1. /\ Len(headers) \in Nat /\ Len(deq) \in Nat /\ DOMAIN deq = 1..Len(deq)
        /\ Len(ts_n_blanks) = Len(headers)
    BY Sizes
  <2>2. Len(headers) < Len(deq)
    BY <1>1 DEF JoinInv, Lockstep, Filled
  <2>3. ts_n_blanks \in Seq(TableTypes) /\ c_ids \in Seq(Nat) /\ IsSeq(deq)
    BY DEF JoinInv, TypeOK, TablesOK, DeqOK
  <2>4. KeysOK
    <3>1. \A g \in File : keys[g] \in Seq(KeyValue)
      BY InputsAssumption DEF RowInv, Chosen
    <3> QED BY <3>1, LenProperties DEF KeysOK
  <2>5. headers = <<>> => Len(headers) = 0
    OBVIOUS
  <2> QED BY <2>1, <2>2, <2>3, <2>4, <2>5, SeqIsSeq DEF Next0, JoinInv, Lockstep
<1>3. deq[Next0].kind = "reader" /\ deq[1].kind = "reader" /\ f \in File
  <2>1. deq[1].kind = "reader"
    BY <1>1 DEF JoinInv, Phases
  <2> QED BY <1>2, <2>1 DEF JoinInv, TypeOK, DeqOK
<1>4. /\ \A i \in DOMAIN deq : i # Next0 => deq'[i] = deq[i]
      /\ deq'[Next0] = Reader(f, Body) /\ Len(deq') = Len(deq)
  <2> PICK s : s = deq
    OBVIOUS
  <2> PICK x : x = Reader(f, Body)
    OBVIOUS
  <2> PICK n : n = Next0
    OBVIOUS
  <2>1. deq' = [s EXCEPT ![n] = x] /\ IsSeq(s) /\ n \in DOMAIN s
    BY <1>1, <1>2 DEF At
  <2>2. /\ Len([s EXCEPT ![n] = x]) = Len(s)
        /\ \A j \in DOMAIN s : [s EXCEPT ![n] = x][j] = IF j = n THEN x ELSE s[j]
    BY <2>1, IsSeqExcept
  <2> QED BY <2>1, <2>2
<1> PICK g : g = f
  OBVIOUS
<1>5. BodyRows(g)' = BodyRows(g)
  BY <1>1 DEF BodyRows, RunRows, Reader, NLines, Line, Width
<1>6. ASSUME NEW i \in DOMAIN c_ids', Len(deq) > 1 \/ i > 1
      PROVE  /\ KeyTold(i, SourceRows(i))'
             /\ deq'[i].kind = "reader" /\ keys[deq'[i].file] = <<>> =>
                  ts_n_blanks'[i].types[c_ids'[i]] # "number"
  <2> PICK t : t = ts_n_blanks
    OBVIOUS
  <2> PICK types : types = FileTypes(f)
    OBVIOUS
  <2> PICK c : c = c_ids
    OBVIOUS
  <2>1. ~IsUnion /\ c_ids' = Append(c, k) /\ c \in Seq(Nat) /\ Len(c) = Len(headers)
    BY <1>1, <1>2, <1>6
  <2>2. k \in 1..Width(f) /\ k \in Nat
    BY <1>1, <1>3, <2>1, WidthFacts
  <2>3. /\ DOMAIN c_ids' = 1..Next0 /\ c_ids'[Next0] = k
        /\ \A j \in 1..Len(headers) : c_ids'[j] = c[j]
    BY <1>2, <2>1, <2>2, AppendProperties, LenProperties
  <2>4. /\ ts_n_blanks'[Next0] = types
        /\ \A j \in 1..Len(headers) : ts_n_blanks'[j] = t[j]
    <3>1. t \in Seq(TableTypes) /\ types \in TableTypes
      BY <1>3, FileTypesTyped DEF JoinInv, TypeOK, TablesOK
    <3>2. ts_n_blanks' = Append(t, types) /\ Len(t) = Len(headers)
      BY <1>1, <1>2
    <3> QED BY <1>2, <3>1, <3>2, AppendProperties
  <2>5. CASE i = Next0
    <3>1. /\ ColumnTold(types.types[k], types.blanks[k], k, BodyRows(f))
          /\ keys[f] = <<>> => types.types[k] # "number"
      BY <1>2, <1>3, <2>2, FileTypesTold
    <3> PICK rows : rows = BodyRows(g)
      OBVIOUS
    <3>2. deq'[i].kind = "reader" /\ deq'[i].file = g
      BY <1>4, <2>5 DEF Reader
    <3>3. SourceRows(i)' = rows
      BY <1>5, <3>2 DEF SourceRows
    <3> PICK col : col = k
      OBVIOUS
    <3>4. c_ids'[i] = col /\ ts_n_blanks'[i] = types
      BY <2>3, <2>4, <2>5
    <3>5. ColumnTold(types.types[col], types.blanks[col], col, rows)
      BY <3>1
    <3>6. KeyTold(i, SourceRows(i))'
      BY <1>1, <3>3, <3>4, <3>5, ToldKept
    <3> QED BY <3>1, <3>2, <3>4, <3>6
  <2>6. CASE i # Next0
    <3>1. i \in 1..Len(headers) /\ i \in DOMAIN c_ids /\ i \in DOMAIN deq
      <4>1. i \in 1..Len(headers)
        BY <1>2, <2>3, <2>6
      <4>2. DOMAIN c = 1..Len(headers)
        BY <2>1, LenProperties
      <4>3. Len(headers) <= Len(deq)
        BY <1>2
      <4> QED BY <1>2, <4>1, <4>2, <4>3
    <3>2. /\ KeyTold(i, SourceRows(i))
          /\ deq[i].kind = "reader" /\ keys[deq[i].file] = <<>> => KeyTypeOf(i) # "number"
      BY <1>6, <3>1 DEF KeyInv, KeysTold
    <3>3. deq'[i] = deq[i] /\ deq[i].kind \in {"reader", "fake"}
      BY <1>4, <2>6, <3>1 DEF JoinInv, TypeOK, DeqOK
    <3> PICK rows : rows = SourceRows(i)
      OBVIOUS
    <3>4. SourceRows(i)' = rows
      <4>1. CASE deq[i].kind = "fake"
        BY <3>3, <4>1 DEF SourceRows
      <4>2. CASE deq[i].kind = "reader"
        <5>1. BodyRows(deq[i].file)' = BodyRows(deq[i].file)
          BY <1>1, <3>3 DEF BodyRows, RunRows, Reader, NLines, Line, Width
        <5> QED BY <3>3, <4>2, <5>1 DEF SourceRows
      <4> QED BY <3>3, <4>1, <4>2
    <3> PICK col : col = c_ids[i]
      OBVIOUS
    <3>5. c_ids'[i] = col /\ ts_n_blanks'[i] = ts_n_blanks[i]
      BY <2>3, <2>4, <3>1
    <3>6. ColumnTold(KeyTypeOf(i), KeyBlanks(i), col, rows)
      BY <3>2 DEF KeyTold
    <3>7. KeyTypeOf(i) = ts_n_blanks[i].types[col] /\ KeyBlanks(i) = ts_n_blanks[i].blanks[col]
      BY DEF KeyTypeOf, KeyBlanks
    <3>8. KeyTold(i, SourceRows(i))'
      BY <1>1, <3>4, <3>5, <3>6, <3>7, ToldKept
    <3> QED BY <1>1, <3>2, <3>3, <3>5, <3>7, <3>8
  <2> QED BY <2>5, <2>6
<1>7. KeysTold'
  BY <1>1, <1>4, <1>6 DEF KeysTold, KeyTypeOf
<1>8. OnBody'
  <2>1. deq'[1].pos = Body
    <3>1. CASE Next0 = 1
      BY <1>4, <3>1 DEF Reader
    <3>2. CASE Next0 # 1
      <4>1. headers # <<>> /\ 1 \in DOMAIN deq /\ deq'[1] = deq[1]
        BY <1>2, <1>4, <3>2
      <4> QED BY <1>1, <1>3, <4>1 DEF KeyInv, OnBody
    <3> QED BY <3>1, <3>2
  <2> QED BY <1>1, <2>1 DEF OnBody
<1> QED BY <1>1, <1>7, <1>8 DEF KeyInv, ResultTold, Unadded

LEMMA CanCompareKeys == JoinInv /\ RowInv /\ KeyInv /\ CanCompare => KeyInv'
<1> SUFFICES ASSUME JoinInv, RowInv, KeyInv, CanCompare PROVE KeyInv'
  OBVIOUS
<1>1. /\ pc = "loop" /\ pc' \in {"hash_right", "disjoint"}
      /\ args' = args /\ keys' = keys /\ deq' = deq /\ headers' = headers /\ c_ids' = c_ids
      /\ ~IsUnion /\ Filled
  BY DEF CanCompare, Untouched, Filled
<1>2. \A i \in DOMAIN c_ids :
        /\ ts_n_blanks'[i].types[c_ids[i]] \in {KeyTypeOf(i), "text"}
        /\ ts_n_blanks'[i].blanks[c_ids[i]] = KeyBlanks(i)
  <2> TAKE i \in DOMAIN c_ids
  <2>1. i \in DOMAIN ts_n_blanks
    <3>1. DOMAIN c_ids = DOMAIN ts_n_blanks
      BY <1>1, Sizes
    <3> QED BY <3>1
  <2>2. CASE i \in {1, 2}
    BY <2>2, KeysCompared DEF KeyBlanks
  <2>3. CASE i \notin {1, 2}
    <3>1. ts_n_blanks'[i] = ts_n_blanks[i]
      BY <2>1, <2>3, KeysCompared
    <3> QED BY <3>1 DEF KeyTypeOf, KeyBlanks
  <2> QED BY <2>2, <2>3
<1>3. KeysTold'
  BY <1>1, <1>2, KeysStay DEF KeyInv
<1>4. OnBody'
  BY <1>1 DEF KeyInv, OnBody
<1> QED BY <1>1, <1>3, <1>4 DEF KeyInv, ResultTold, Unadded

\* The first source as it is read.
LEMMA ReadsBody ==
  ASSUME JoinInv, RowInv, KeyInv, pc \in {"loop", "hash_right", "open_left", "disjoint"}, Len(deq) > 1
  PROVE  RunRows(deq[1]) = LeftRows
<1>1. deq[1].kind \in {"reader", "fake"} /\ headers # <<>>
  <2>1. Len(headers) = Len(deq)
    BY DEF JoinInv, Lockstep, Filled
  <2>2. DOMAIN deq = 1..Len(deq) /\ Len(deq) \in Nat
    BY Sizes
  <2> QED BY <2>1, <2>2 DEF JoinInv, TypeOK, DeqOK
<1>2. CASE deq[1].kind = "fake"
  BY <1>2 DEF RunRows, LeftRows
<1>3. CASE deq[1].kind = "reader"
  <2>1. deq[1].pos = Body
    BY <1>1, <1>3 DEF KeyInv, OnBody
  <2> QED BY <1>3, <2>1 DEF RunRows, LeftRows, BodyRows, Reader
<1> QED BY <1>1, <1>2, <1>3

LEMMA Hashable ==
  ASSUME SameTypes, NEW rows, NEW i \in {1, 2}, KeyTold(i, rows)
  PROVE  ~Unhashable(NewHash(rows, i))
<1> PICK h : h = NewHash(rows, i)
  OBVIOUS
<1>1. h.rows = rows /\ h.col = c_ids[i]
  BY DEF NewHash
<1>2. \A j \in DOMAIN rows : ~Throws(h, Value(rows[j][c_ids[i]]))
  BY NeverThrows DEF KeyTold, ColumnTold
<1> QED BY <1>1, <1>2 DEF Unhashable

LEMMA ToldStays ==
  ASSUME args' = args, keys' = keys, c_ids' = c_ids, ts_n_blanks' = ts_n_blanks,
         NEW rows, KeyTold(1, rows)
  PROVE  /\ impl' = rows => KeyTold(1, impl)'
         /\ RunRows(deq[1])' = rows => KeyTold(1, RunRows(deq[1]))'
<1> PICK c : c = c_ids[1]
  OBVIOUS
<1> PICK type : type = ts_n_blanks[1].types[c]
  OBVIOUS
<1> PICK blanks : blanks = ts_n_blanks[1].blanks[c]
  OBVIOUS
<1>1. ColumnTold(type, blanks, c, rows)
  BY DEF KeyTold, KeyTypeOf, KeyBlanks
<1> QED BY <1>1, ToldKept

LEMMA KeysSame ==
  ASSUME JoinInv, RowInv, KeysTold, args' = args, keys' = keys, c_ids' = c_ids,
         ts_n_blanks' = ts_n_blanks,
         \/ deq' = deq
         \/ \E i \in DOMAIN deq : /\ deq[i].kind = "reader"
                                  /\ \E p \in 0..Body : deq' = At(i, p)
  PROVE  KeysTold'
<1>1. \A i \in DOMAIN c_ids :
        /\ ts_n_blanks'[i].types[c_ids[i]] \in {KeyTypeOf(i), "text"}
        /\ ts_n_blanks'[i].blanks[c_ids[i]] = KeyBlanks(i)
  BY DEF KeyTypeOf, KeyBlanks
<1> QED BY <1>1, KeysStay

\* The second reader is moved, the first stays where it is.
LEMMA SecondMoves ==
  ASSUME JoinInv, RowInv, pc \in JoiningPcs, NEW p \in 0..Body, deq' = At(2, p), keys' = keys
  PROVE  /\ deq'[1] = deq[1] /\ RunRows(deq[1])' = RunRows(deq[1])
         /\ \E i \in DOMAIN deq : deq[i].kind = "reader" /\ \E q \in 0..Body : deq' = At(i, q)
<1>1. 1 \in DOMAIN deq /\ 2 \in DOMAIN deq /\ deq[2].kind = "reader"
  BY InProgress
<1>2. deq'[1] = deq[1]
  BY <1>1 DEF At
<1>3. RunRows(deq[1])' = RunRows(deq[1])
  BY <1>2 DEF RunRows, NLines, Line, Width
<1> QED BY <1>1, <1>2, <1>3

LEMMA HashRightKeys == JoinInv /\ RowInv /\ KeyInv /\ HashRight => KeyInv'
<1> SUFFICES ASSUME JoinInv, RowInv, KeyInv, HashRight PROVE KeyInv'
  OBVIOUS
<1>1. /\ pc = "hash_right" /\ pc \in JoiningPcs /\ pc \in KeyedPcs /\ Len(deq) > 1
      /\ args' = args /\ keys' = keys /\ headers' = headers /\ c_ids' = c_ids
      /\ ts_n_blanks' = ts_n_blanks
      /\ deq' = At(2, IF IsOuter THEN Header ELSE 0)
  BY DEF HashRight, Untouched, Tables, JoiningPcs, KeyedPcs, JoinInv, Phases
<1>2. ~IsUnion /\ SameTypes
  BY <1>1 DEF RowInv, Keyed
<1>3. KeyTold(1, LeftRows) /\ KeyTold(2, RightRows) /\ KeysTold
  BY <1>1, <1>2, KeysInFront DEF KeyInv
<1>4. ~Unhashable(NewHash(RightRows, 2))
  BY <1>2, <1>3, Hashable
<1>5. pc' \in {"no_body", "open_left"}
  BY <1>4 DEF HashRight, RightRows
<1>6. (IF IsOuter THEN Header ELSE 0) \in 0..Body
  BY BodyFacts
<1>7. deq'[1] = deq[1] /\ RunRows(deq[1])' = RunRows(deq[1]) /\ KeysTold'
  BY <1>1, <1>3, <1>6, SecondMoves, KeysSame
<1>8. RunRows(deq[1]) = LeftRows
  BY <1>1, ReadsBody
<1>9. KeyTold(1, RunRows(deq[1]))'
  <2> PICK rows : rows = LeftRows
    OBVIOUS
  <2>1. KeyTold(1, rows) /\ RunRows(deq[1])' = rows
    BY <1>3, <1>7, <1>8
  <2> QED BY <1>1, <2>1, ToldStays
<1>10. OnBody'
  BY <1>1, <1>7, <1>9 DEF KeyInv, OnBody
<1> QED BY <1>5, <1>7, <1>10 DEF KeyInv, ResultTold, Unadded

LEMMA OpenLeftKeys == JoinInv /\ RowInv /\ ShapeInv /\ KeyInv /\ OpenLeft => KeyInv'
<1> SUFFICES ASSUME JoinInv, RowInv, ShapeInv, KeyInv, OpenLeft PROVE KeyInv'
  OBVIOUS
<1>1. /\ pc = "open_left" /\ pc \in JoiningPcs /\ pc \in KeyedPcs /\ Len(deq) > 1
      /\ args' = args /\ keys' = keys /\ headers' = headers /\ c_ids' = c_ids
      /\ ts_n_blanks' = ts_n_blanks
      /\ pc' \in {"first", "no_body"}
      /\ deq' = deq \/ (deq[1].kind # "fake" /\ deq' = At(1, 0))
      /\ pc' = "no_body" => keys[deq[1].file] = <<>> /\ deq' = At(1, 0) /\ deq[1].kind # "fake"
  BY DEF OpenLeft, Untouched, Tables, JoiningPcs, KeyedPcs, JoinInv, Phases
<1>2. ~IsUnion
  BY <1>1 DEF RowInv, Keyed
<1>3. /\ 1 \in DOMAIN deq /\ deq[1].kind \in {"reader", "fake"}
      /\ deq[1].kind = "reader" => deq[1].file \in File
  BY <1>1, InProgress DEF JoinInv, TypeOK, DeqOK
<1>4. KeysTold'
  <2>1. 0 \in 0..Body
    BY BodyFacts
  <2> QED BY <1>1, <1>3, <2>1, KeysSame DEF KeyInv
<1>5. ASSUME pc' = "no_body" PROVE KeyTold(1, RunRows(deq[1]))'
  <2> PICK f : f = deq[1].file
    OBVIOUS
  <2> PICK c : c = c_ids[1]
    OBVIOUS
  <2>1. /\ f \in File /\ keys[f] = <<>> /\ deq[1].kind = "reader" /\ KeyTypeOf(1) # "number"
        /\ deq' = At(1, 0)
    BY <1>1, <1>2, <1>3, <1>5, KeysInFront DEF KeyInv
  <2> PICK rows : rows = RunRows(Reader(f, 0))
    OBVIOUS
  <2>2. rows = [i \in 1..NLines(f) |-> Line(f, 0 + i)]
    <3>1. NLines(f) \in Int
      BY <2>1, BodyFacts DEF NLines
    <3> QED BY <3>1 DEF RunRows, Reader
  <2>3. NLines(f) = Body /\ Body \in Nat
    BY <2>1, BodyFacts DEF NLines
  <2>4. c \in 1..Width(f)
    <3>1. c \in 1..Len(ts_n_blanks[1].types)
      BY <1>1, <1>2, InProgress
    <3>2. Len(ts_n_blanks[1].types) = Width(f)
      <4>1. 1 \in DOMAIN headers
        <5>1. Len(headers) = Len(deq) /\ DOMAIN headers = 1..Len(headers) /\ Len(deq) \in Nat
          BY <1>1, Sizes DEF JoinInv, Lockstep, Filled
        <5> QED BY <1>1, <5>1
      <4> QED BY <2>1, <4>1 DEF RowInv, TablesFit
    <3> QED BY <3>1, <3>2
  <2>5. \A j \in DOMAIN rows : Value(rows[j][c]) = Heading
    <3> TAKE j \in DOMAIN rows
    <3>1. j \in 1..Body /\ rows[j][c] = <<f, 0 + j, c>>
      <4>1. j \in 1..Body /\ rows[j] = Line(f, 0 + j)
        BY <2>2, <2>3
      <4>2. Line(f, 0 + j)[c] = <<f, 0 + j, c>>
        BY <2>4 DEF Line
      <4> QED BY <4>1, <4>2
    <3>2. rows[j][c] # Pad /\ rows[j][c][2] <= Body
      <4>1. f # 0 /\ 0 + j = j
        BY <2>1, <3>1, WidthFacts
      <4> QED BY <3>1, <4>1 DEF Pad
    <3> QED BY <3>2 DEF Value
  <2>6. Heading \notin Nulls
    BY TablesAssumption
  <2>7. KeyTold(1, rows)
    BY <2>1, <2>5, <2>6 DEF KeyTold, ColumnTold, Told, Absent
  <2>8. RunRows(deq[1])' = rows
    <3>1. deq'[1] = Reader(f, 0)
      BY <1>3, <2>1 DEF At
    <3> QED BY <1>1, <3>1 DEF RunRows, NLines, Line, Width
  <2> QED BY <1>1, <2>7, <2>8, ToldStays
<1>6. OnBody'
  BY <1>1, <1>5 DEF OnBody
<1> QED BY <1>1, <1>4, <1>6 DEF KeyInv, ResultTold, Unadded

\* Steps that match rows.
LEMMA WorkKeys ==
  ASSUME JoinInv, RowInv, KeyInv, NEW i \in todo, WorkFirst(i) \/ WorkSecond(i)
  PROVE  KeyInv'
<1>1. /\ pc \in {"first", "second"} /\ pc \in JoiningPcs /\ pc \in KeyedPcs
      /\ args' = args /\ keys' = keys /\ deq' = deq /\ headers' = headers /\ c_ids' = c_ids
      /\ ts_n_blanks' = ts_n_blanks /\ impl' = impl /\ hash' = hash /\ table' = table
      /\ pc' # pc => \E c \in {1, 2} : /\ Throws(hash, Value(table[i][c_ids[c]]))
                                       /\ c = 1 <=> pc = "first"
      /\ pc' = pc => todo' = todo \ {i}
      /\ pc = "first" => recalculate' = recalculate
      /\ pc = "second" =>
           recalculate' = (recalculate \/ (pc' = pc /\ RightRow(table[i]) # <<>>))
  BY DEF WorkFirst, WorkSecond, Work, Store, Untouched, Tables, JoiningPcs, KeyedPcs
<1>2. ~IsUnion /\ SameTypes
  BY <1>1 DEF RowInv, Keyed
<1>3. i \in DOMAIN table
  BY DEF JoinInv, TypeOK, WorkOK
<1>4. KeyTold(1, LeftRows) /\ KeyTold(2, RightRows) /\ KeysTold
  BY <1>1, <1>2, KeysInFront DEF KeyInv
<1>5. pc' = pc
  <2>1. CASE pc = "first"
    <3>1. hash = NewHash(RightRows, 2) /\ table = LeftRows
      BY <2>1 DEF RowInv, Opened
    <3>2. ~Throws(hash, Value(table[i][c_ids[1]]))
      BY <1>2, <1>3, <1>4, <3>1, NeverThrows DEF KeyTold, ColumnTold
    <3> QED BY <1>1, <2>1, <3>2
  <2>2. CASE pc = "second"
    <3>1. hash = NewHash(LeftRows, 1) /\ table = RightRows
      BY <2>2 DEF RowInv, Opened
    <3>2. ~Throws(hash, Value(table[i][c_ids[2]]))
      BY <1>2, <1>3, <1>4, <3>1, NeverThrows DEF KeyTold, ColumnTold
    <3> QED BY <1>1, <2>2, <3>2
  <2> QED BY <1>1, <2>1, <2>2
<1>6. KeysTold'
  BY <1>1, <1>4, KeysSame
<1>7. OnBody'
  BY <1>1, <1>5 DEF OnBody
<1>8. ResultTold'
  <2> SUFFICES ASSUME pc = "second" PROVE (IsOuter' /\ recalculate') \/ KeyTold(1, impl)'
    BY <1>1, <1>5 DEF ResultTold
  <2>1. (IsOuter /\ recalculate) \/ KeyTold(1, impl)
    BY <1>1, <1>2 DEF KeyInv, ResultTold
  <2>2. CASE IsOuter /\ recalculate
    BY <1>1, <2>2 DEF IsOuter
  <2>3. CASE KeyTold(1, impl)
    <3> PICK rows : rows = impl
      OBVIOUS
    <3>1. KeyTold(1, rows) /\ impl' = rows
      BY <1>1, <2>3
    <3> QED BY <1>1, <3>1, ToldStays
  <2> QED BY <2>1, <2>2, <2>3
<1>9. Unadded'
  <2> SUFFICES ASSUME pc = "second", ~recalculate', NEW j \in DOMAIN table \ todo'
               PROVE  RightRow(table[j])' = <<>>
    BY <1>1, <1>5 DEF Unadded
  <2>1. ~recalculate /\ RightRow(table[i]) = <<>>
    BY <1>1, <1>5
  <2>2. RightRow(table[j])' = RightRow(table[j])
    BY <1>1, RowResultStable
  <2>3. CASE j = i
    BY <2>1, <2>2, <2>3
  <2>4. CASE j # i
    <3>1. j \in DOMAIN table \ todo
      BY <1>1, <1>5, <2>4
    <3> QED BY <2>1, <2>2, <3>1 DEF KeyInv, Unadded
  <2> QED BY <2>3, <2>4
<1> QED BY <1>1, <1>5, <1>6, <1>7, <1>8, <1>9 DEF KeyInv

LEMMA HashLeftKeys == JoinInv /\ RowInv /\ KeyInv /\ HashLeft => KeyInv'
<1> SUFFICES ASSUME JoinInv, RowInv, KeyInv, HashLeft PROVE KeyInv'
  OBVIOUS
<1>1. /\ pc = "hash_left" /\ pc \in JoiningPcs /\ pc \in KeyedPcs
      /\ args' = args /\ keys' = keys /\ headers' = headers /\ c_ids' = c_ids
      /\ ts_n_blanks' = ts_n_blanks /\ impl' = impl /\ recalculate' = recalculate
      /\ deq' = deq \/ deq' = At(2, 0)
      /\ pc' = "second" => todo' = DOMAIN table'
  BY DEF HashLeft, StartWork, Untouched, Tables, JoiningPcs, KeyedPcs
<1>2. ~IsUnion /\ SameTypes
  BY <1>1 DEF RowInv, Keyed
<1>3. KeyTold(1, LeftRows) /\ KeysTold
  BY <1>1, <1>2, KeysInFront DEF KeyInv
<1>4. ~Unhashable(NewHash(LeftRows, 1))
  BY <1>2, <1>3, Hashable
<1>5. pc' \in {"failed", "no_body_2", "second"}
  BY <1>4 DEF HashLeft, LeftRows
<1>6. KeysTold'
  <2>1. 0 \in 0..Body
    BY BodyFacts
  <2> QED BY <1>1, <1>3, <2>1, SecondMoves, KeysSame
<1>7. ResultTold'
  <2>1. (IsOuter /\ recalculate) \/ KeyTold(1, impl)
    BY <1>1, <1>2 DEF KeyInv, ResultTold
  <2>2. CASE IsOuter /\ recalculate
    BY <1>1, <2>2 DEF IsOuter, ResultTold
  <2>3. CASE KeyTold(1, impl)
    <3> PICK rows : rows = impl
      OBVIOUS
    <3>1. KeyTold(1, rows) /\ impl' = rows
      BY <1>1, <2>3
    <3> QED BY <1>1, <3>1, ToldStays DEF ResultTold
  <2> QED BY <2>1, <2>2, <2>3
<1>8. Unadded' /\ OnBody'
  BY <1>1, <1>5 DEF Unadded, OnBody
<1> QED BY <1>5, <1>6, <1>7, <1>8 DEF KeyInv

\* A row of the result begins with the row it was made of, key and all.
LEMMA GlueKey ==
  ASSUME NEW l, IsSeq(l), NEW c \in DOMAIN l, NEW r, IsSeq(r), IsOuter \/ c_ids[2] \in DOMAIN r
  PROVE  Glue(l, r)[c] = l[c]
<1>1. Len(l) \in Nat /\ DOMAIN l = 1..Len(l)
  BY IsSeqFacts
<1>2. CASE IsOuter
  <2>1. Glue(l, r) = l \o r
    BY <1>2 DEF Glue
  <2> QED BY <1>1, <2>1, IsSeqConcat
<1>3. CASE ~IsOuter
  <2> PICK p : p = RemoveAt(r, c_ids[2])
    OBVIOUS
  <2>1. Glue(l, r) = l \o p /\ IsSeq(p)
    BY <1>3, RemoveAtRow DEF Glue
  <2> QED BY <1>1, <2>1, IsSeqConcat
<1> QED BY <1>2, <1>3

LEMMA PadRightKey ==
  ASSUME Len(ts_n_blanks[2].types) \in Nat, IsOuter \/ Len(ts_n_blanks[2].types) # 0,
         NEW l, IsSeq(l), NEW c \in DOMAIN l
  PROVE  PadRight(l)[c] = l[c]
<1> DEFINE n == Len(ts_n_blanks[2].types) - (IF IsOuter THEN 0 ELSE 1)
<1>1. Len(l) \in Nat /\ DOMAIN l = 1..Len(l) /\ n \in Nat
  BY IsSeqFacts
<1> PICK p : p = Padding(n)
  OBVIOUS
<1>2. PadRight(l) = l \o p
  BY DEF PadRight
<1>3. IsSeq(p)
  BY <1>1, PaddingRow
<1> QED BY <1>1, <1>2, <1>3, IsSeqConcat

LEMMA KeyColumn ==
  ASSUME JoinInv, RowInv, ShapeInv, pc \in JoiningPcs, ~IsUnion,
         NEW rows, RowsOK(rows), Fits(rows, JoinedColumns(Joined)), NEW i \in DOMAIN rows
  PROVE  c_ids[1] \in DOMAIN rows[i] /\ IsSeq(rows[i])
<1>1. Len(rows[i]) = Len(JoinedColumns(Joined)) /\ IsSeq(rows[i])
  BY DEF Fits, RowFits, RowsOK
<1>2. c_ids[1] \in 1..Len(JoinedColumns(Joined))
  BY InProgress, InShape
<1> QED BY <1>1, <1>2, IsSeqFacts

LEMMA LeftRowTold ==
  ASSUME JoinInv, RowInv, ShapeInv, pc = "first", NEW l, IsSeq(l), c_ids[1] \in DOMAIN l,
         Told(KeyTypeOf(1), KeyBlanks(1), Value(l[c_ids[1]]))
  PROVE  KeyTold(1, LeftRow(l))
<1>1. pc \in JoiningPcs /\ ~IsUnion /\ hash.rows = RightRows
  BY DEF RowInv, Opened, Keyed, KeyedPcs, NewHash, JoiningPcs
<1>2. /\ RowsOK(RightRows)
      /\ \A j \in DOMAIN RightRows : Len(RightRows[j]) = Len(ts_n_blanks[2].types)
      /\ c_ids[2] \in 1..Len(ts_n_blanks[2].types) /\ Len(ts_n_blanks[2].types) \in Nat
  BY <1>1, InProgress
<1> PICK found : found = Find(hash, l[c_ids[1]])
  OBVIOUS
<1>3. \A k \in DOMAIN found : \E j \in DOMAIN RightRows : found[k] = RightRows[j]
  BY <1>1, <1>2, FindFacts
<1>4. \A k \in DOMAIN found : IsSeq(found[k]) /\ c_ids[2] \in DOMAIN found[k]
  <2>1. \A j \in DOMAIN RightRows : IsSeq(RightRows[j]) /\ c_ids[2] \in DOMAIN RightRows[j]
    BY <1>2, IsSeqFacts DEF RowsOK
  <2> QED BY <1>3, <2>1
<1> PICK c : c = c_ids[1]
  OBVIOUS
<1>5. \A k \in DOMAIN found : Glue(l, found[k])[c] = l[c]
  BY <1>4, GlueKey
<1>6. PadRight(l)[c] = l[c]
  BY <1>2, PadRightKey
<1>7. \A k \in DOMAIN LeftRow(l) : LeftRow(l)[k][c] = l[c]
  <2>1. CASE found = <<>>
    <3> PICK p : p = PadRight(l)
      OBVIOUS
    <3>1. LeftRow(l) = <<>> \/ LeftRow(l) = <<p>>
      BY <2>1 DEF LeftRow
    <3> QED BY <1>6, <3>1
  <2>2. CASE found # <<>>
    <3>1. LeftRow(l) = [i \in DOMAIN found |-> Glue(l, found[i])]
      BY <2>2 DEF LeftRow
    <3> QED BY <1>5, <3>1
  <2> QED BY <2>1, <2>2
<1> QED BY <1>7 DEF KeyTold, ColumnTold

LEMMA RightPaddedTold ==
  ASSUME JoinInv, RowInv, ShapeInv, pc \in {"no_body", "disjoint"}, KeyTold(1, RunRows(deq[1])),
         NEW rows, rows = [i \in DOMAIN RunRows(deq[1]) |-> PadRight(RunRows(deq[1])[i])]
  PROVE  KeyTold(1, rows)
<1>1. pc \in JoiningPcs /\ ~IsUnion
  BY DEF JoiningPcs, RowInv, Keyed, KeyedPcs
<1> PICK source : source = RunRows(deq[1])
  OBVIOUS
<1>2. /\ RowsOK(source) /\ Fits(source, JoinedColumns(Joined)) /\ KeyTold(1, source)
      /\ Len(ts_n_blanks[2].types) \in Nat /\ Len(ts_n_blanks[2].types) # 0
  BY <1>1, InProgress, InShape
<1>3. DOMAIN rows = DOMAIN source /\ \A i \in DOMAIN source : rows[i] = PadRight(source[i])
  OBVIOUS
<1> PICK c : c = c_ids[1]
  OBVIOUS
<1>4. \A i \in DOMAIN source : PadRight(source[i])[c] = source[i][c]
  BY <1>1, <1>2, KeyColumn, PadRightKey
<1> QED BY <1>2, <1>3, <1>4 DEF KeyTold, ColumnTold

\* What is left to be shown of a step that makes new rows.
LEMMA KeysAdded ==
  ASSUME JoinInv, RowInv, KeyInv, args' = args, keys' = keys, deq' = deq, c_ids' = c_ids,
         ts_n_blanks' = ts_n_blanks, pc' \in {"cleanup", "hash_left"},
         NEW rows, impl' = rows, ~IsUnion => (IsOuter /\ recalculate') \/ KeyTold(1, rows)
  PROVE  KeyInv'
<1>1. KeysTold'
  BY KeysSame DEF KeyInv
<1>2. IsUnion' = IsUnion /\ IsOuter' = IsOuter
  BY DEF IsUnion, IsOuter
<1>3. ResultTold'
  <2>1. KeyTold(1, rows) => KeyTold(1, impl)'
    BY ToldStays
  <2> QED BY <1>2, <2>1 DEF ResultTold
<1>4. OnBody' /\ Unadded'
  BY DEF OnBody, Unadded
<1> QED BY <1>1, <1>3, <1>4 DEF KeyInv

LEMMA MergeFirstKeys ==
  JoinInv /\ RowInv /\ ShapeInv /\ KeyInv /\ SlotsFollowRows /\ MergeFirst => KeyInv'
<1> SUFFICES ASSUME JoinInv, RowInv, ShapeInv, KeyInv, SlotsFollowRows, MergeFirst PROVE KeyInv'
  OBVIOUS
<1>1. /\ pc = "first" /\ pc \in JoiningPcs /\ pc \in KeyedPcs /\ todo = {}
      /\ args' = args /\ keys' = keys /\ deq' = deq /\ c_ids' = c_ids
      /\ ts_n_blanks' = ts_n_blanks /\ pc' \in {"cleanup", "hash_left"}
      /\ impl' = impl \o FlattenSeq(join_vec)
  BY DEF MergeFirst, Untouched, Tables, JoiningPcs, KeyedPcs, Merged
<1>2. impl = <<>> /\ table = LeftRows /\ ~IsUnion
  BY <1>1 DEF RowInv, Keyed, Opened
<1>3. RowsOK(LeftRows) /\ Fits(LeftRows, JoinedColumns(Joined)) /\ KeyTold(1, LeftRows)
  BY <1>1, <1>2, InProgress, InShape, KeysInFront DEF Kept, KeyInv
<1> PICK slots : slots = join_vec
  OBVIOUS
<1>4. slots = [i \in DOMAIN LeftRows |-> LeftRow(LeftRows[i])]
  BY <1>1, <1>2 DEF SlotsFollowRows, RowResult
<1>5. IsSeq(slots) /\ DOMAIN slots = DOMAIN LeftRows
  <2>1. Len(LeftRows) \in Nat /\ DOMAIN LeftRows = 1..Len(LeftRows)
    BY <1>3, IsSeqFacts DEF RowsOK
  <2>2. slots = [i \in 1..Len(LeftRows) |-> slots[i]]
    BY <1>4, <2>1
  <2> QED BY <1>4, <2>1, <2>2, IsSeqFunction
<1>6. \A i \in DOMAIN slots : RowsOK(slots[i]) /\ KeyTold(1, slots[i])
  <2> SUFFICES ASSUME NEW i \in DOMAIN slots PROVE RowsOK(slots[i]) /\ KeyTold(1, slots[i])
    OBVIOUS
  <2> PICK l : l = LeftRows[i]
    OBVIOUS
  <2>1. slots[i] = LeftRow(l) /\ IsSeq(l) /\ c_ids[1] \in DOMAIN l
    BY <1>1, <1>2, <1>3, <1>4, <1>5, KeyColumn
  <2>2. Told(KeyTypeOf(1), KeyBlanks(1), Value(l[c_ids[1]]))
    BY <1>3, <1>5 DEF KeyTold, ColumnTold
  <2>3. RowsOK(LeftRow(l)) /\ KeyTold(1, LeftRow(l))
    BY <1>1, <2>1, <2>2, LeftRowFacts, LeftRowTold
  <2> QED BY <2>1, <2>3
<1> PICK rows : rows = FlattenSeq(slots)
  OBVIOUS
<1>7. IsSeq(rows) /\ \A m \in DOMAIN rows : \E i \in DOMAIN slots : \E k \in DOMAIN slots[i] :
                       rows[m] = slots[i][k]
  <2>1. Gathered(rows, slots, Len(slots))
    BY <1>5, <1>6, FlattenFacts DEF RowsOK
  <2>2. DOMAIN slots = 1..Len(slots)
    BY <1>5, IsSeqFacts
  <2> QED BY <2>1, <2>2 DEF Gathered
<1>8. KeyTold(1, rows)
  BY <1>6, <1>7 DEF KeyTold, ColumnTold
<1>9. impl' = rows
  <2>1. rows \in Seq({rows[i] : i \in DOMAIN rows})
    BY <1>7 DEF IsSeq
  <2>2. <<>> \o rows = rows
    BY <2>1, ConcatEmptySeq
  <2> QED BY <1>1, <1>2, <2>2
<1> QED BY <1>1, <1>8, <1>9, KeysAdded

LEMMA NoBodyKeys == JoinInv /\ RowInv /\ ShapeInv /\ KeyInv /\ NoBody => KeyInv'
<1> SUFFICES ASSUME JoinInv, RowInv, ShapeInv, KeyInv, NoBody PROVE KeyInv'
  OBVIOUS
<1>1. /\ pc = "no_body" /\ pc \in KeyedPcs
      /\ args' = args /\ keys' = keys /\ deq' = deq /\ c_ids' = c_ids
      /\ ts_n_blanks' = ts_n_blanks /\ pc' \in {"cleanup", "hash_left"}
  BY DEF NoBody, Untouched, Tables, KeyedPcs
<1> PICK rows : rows = impl'
  OBVIOUS
<1>2. KeyTold(1, rows)
  <2>1. CASE args.kind = "inner"
    <3>1. rows = <<>>
      BY <1>1, <2>1 DEF NoBody, RowInv, Keyed
    <3> QED BY <3>1 DEF KeyTold, ColumnTold
  <2>2. CASE args.kind # "inner"
    <3>1. rows = [i \in DOMAIN RunRows(deq[1]) |-> PadRight(RunRows(deq[1])[i])]
      BY <2>2 DEF NoBody
    <3>2. KeyTold(1, RunRows(deq[1]))
      BY <1>1 DEF KeyInv, OnBody
    <3> QED BY <1>1, <3>1, <3>2, RightPaddedTold
  <2> QED BY <2>1, <2>2
<1> QED BY <1>1, <1>2, KeysAdded

LEMMA NothingMore ==
  ASSUME NEW rows, IsSeq(rows), KeyTold(1, rows), NEW none, IsSeq(none), DOMAIN none = {}
  PROVE  KeyTold(1, rows \o none)
<1> PICK all : all = rows \o none
  OBVIOUS
<1>1. Joins(all, rows, none)
  BY ConcatJoins
<1>2. \A j \in DOMAIN all : j \in DOMAIN rows /\ all[j] = rows[j]
  BY <1>1 DEF Joins
<1> QED BY <1>2 DEF KeyTold, ColumnTold

LEMMA MergeSecondKeys ==
  JoinInv /\ RowInv /\ KeyInv /\ SlotsFollowRows /\ MergeSecond => KeyInv'
<1> SUFFICES ASSUME JoinInv, RowInv, KeyInv, SlotsFollowRows, MergeSecond PROVE KeyInv'
  OBVIOUS
<1>1. /\ pc = "second" /\ pc \in JoiningPcs /\ pc \in KeyedPcs /\ todo = {}
      /\ args' = args /\ keys' = keys /\ deq' = deq /\ c_ids' = c_ids
      /\ ts_n_blanks' = ts_n_blanks /\ pc' \in {"cleanup", "hash_left"}
      /\ recalculate' = recalculate
      /\ impl' = impl \o FlattenSeq(join_vec)
  BY DEF MergeSecond, Untouched, Tables, JoiningPcs, KeyedPcs, Merged
<1>2. ~IsUnion /\ IsSeq(impl) /\ table = RightRows
  BY <1>1 DEF RowInv, Keyed, Opened, FirstPassDone, PassedOnce, RowsOK
<1>3. (IsOuter /\ recalculate) \/ KeyTold(1, impl)
  BY <1>1, <1>2 DEF KeyInv, ResultTold
<1> PICK slots : slots = join_vec
  OBVIOUS
<1>4. slots = [i \in DOMAIN RightRows |-> RightRow(RightRows[i])]
  BY <1>1, <1>2 DEF SlotsFollowRows, RowResult
<1> PICK rows : rows = impl'
  OBVIOUS
<1>5. CASE recalculate
  <2>1. IsOuter
    BY <1>1 DEF RowInv, Keyed
  <2> QED BY <1>1, <1>5, <2>1, KeysAdded
<1>6. CASE ~recalculate
  <2>1. \A i \in DOMAIN RightRows : RightRow(RightRows[i]) = <<>>
    BY <1>1, <1>2, <1>6 DEF KeyInv, Unadded
  <2>2. IsSeq(slots) /\ DOMAIN slots = DOMAIN RightRows /\ \A i \in DOMAIN slots : slots[i] = <<>>
    <3>1. Len(RightRows) \in Nat /\ DOMAIN RightRows = 1..Len(RightRows)
      BY <1>1, InProgress, IsSeqFacts DEF RowsOK
    <3>2. slots = [i \in 1..Len(RightRows) |-> slots[i]]
      BY <1>4, <3>1
    <3> QED BY <1>4, <2>1, <3>1, <3>2, IsSeqFunction
  <2> PICK none : none = FlattenSeq(slots)
    OBVIOUS
  <2>3. IsSeq(none) /\ DOMAIN none = {}
    <3>1. \A i \in DOMAIN slots : IsSeq(slots[i]) /\ DOMAIN slots[i] = {}
      BY <2>2, IsSeqEmpty
    <3>2. Gathered(none, slots, Len(slots)) /\ DOMAIN slots = 1..Len(slots)
      BY <2>2, <3>1, FlattenFacts, IsSeqFacts
    <3>3. IsSeq(none)
      BY <3>2 DEF Gathered
    <3>4. \A m \in DOMAIN none : \E i \in 1..Len(slots) : \E k \in DOMAIN slots[i] : TRUE
      BY <3>2 DEF Gathered
    <3> QED BY <3>1, <3>2, <3>3, <3>4
  <2>4. KeyTold(1, rows)
    <3>1. rows = impl \o none
      BY <1>1
    <3> QED BY <1>2, <1>3, <1>6, <2>3, <3>1, NothingMore
  <2> QED BY <1>1, <2>4, KeysAdded
<1> QED BY <1>5, <1>6

LEMMA NoBodySecondKeys == JoinInv /\ RowInv /\ KeyInv /\ NoBodySecond => KeyInv'
<1> SUFFICES ASSUME JoinInv, RowInv, KeyInv, NoBodySecond PROVE KeyInv'
  OBVIOUS
<1> DEFINE padded == [i \in DOMAIN RunRows(deq[2]) |-> PadLeft(RunRows(deq[2])[i])]
<1>1. /\ pc = "no_body_2" /\ pc \in KeyedPcs
      /\ args' = args /\ keys' = keys /\ deq' = deq /\ c_ids' = c_ids
      /\ ts_n_blanks' = ts_n_blanks /\ pc' \in {"cleanup", "hash_left"}
      /\ impl' = impl \o padded
      /\ recalculate' = (recalculate \/ RunRows(deq[2]) # <<>>)
  BY DEF NoBodySecond, Untouched, Tables, KeyedPcs
<1>2. IsOuter /\ ~IsUnion /\ IsSeq(impl)
  BY <1>1 DEF RowInv, Keyed, FirstPassDone, PassedOnce, RowsOK
<1>3. (IsOuter /\ recalculate) \/ KeyTold(1, impl)
  BY <1>1, <1>2 DEF KeyInv, ResultTold
<1> PICK rows : rows = impl'
  OBVIOUS
<1>4. CASE recalculate'
  BY <1>1, <1>2, <1>4, KeysAdded
<1>5. CASE ~recalculate'
  <2> PICK none : none = padded
    OBVIOUS
  <2>1. RunRows(deq[2]) = <<>> /\ ~recalculate
    BY <1>1, <1>5
  <2>2. DOMAIN none = {}
    BY <2>1
  <2>3. IsSeq(none)
    BY <1>1, PaddedRight DEF RowsOK
  <2>4. KeyTold(1, rows)
    <3>1. rows = impl \o none
      BY <1>1
    <3> HIDE DEF padded
    <3> QED BY <1>2, <1>3, <2>1, <2>2, <2>3, <3>1, NothingMore
  <2> QED BY <1>1, <2>4, KeysAdded
<1> QED BY <1>4, <1>5

LEMMA DisjointKeys == JoinInv /\ RowInv /\ ShapeInv /\ KeyInv /\ Disjoint => KeyInv'
<1> SUFFICES ASSUME JoinInv, RowInv, ShapeInv, KeyInv, Disjoint PROVE KeyInv'
  OBVIOUS
<1>1. /\ pc = "disjoint" /\ pc \in JoiningPcs /\ Len(deq) > 1
      /\ args' = args /\ keys' = keys /\ deq' = deq /\ c_ids' = c_ids
      /\ ts_n_blanks' = ts_n_blanks /\ pc' \in {"cleanup", "hash_left"}
      /\ recalculate' = IsOuter
  BY DEF Disjoint, Untouched, Tables, JoiningPcs, JoinInv, Phases
<1> PICK rows : rows = impl'
  OBVIOUS
<1>2. ~IsOuter => KeyTold(1, rows)
  <2> HAVE ~IsOuter
  <2>1. CASE args.kind = "inner"
    <3>1. rows = <<>>
      BY <2>1 DEF Disjoint
    <3> QED BY <3>1 DEF KeyTold, ColumnTold
  <2>2. CASE args.kind # "inner"
    <3>1. rows = [i \in DOMAIN RunRows(deq[1]) |-> PadRight(RunRows(deq[1])[i])]
      BY <2>2 DEF Disjoint
    <3>2. KeyTold(1, RunRows(deq[1]))
      <4>1. ~IsUnion
        BY <1>1 DEF RowInv, Keyed
      <4> QED BY <1>1, <4>1, ReadsBody, KeysInFront DEF KeyInv
    <3> QED BY <1>1, <3>1, <3>2, RightPaddedTold
  <2> QED BY <2>1, <2>2
<1> QED BY <1>1, <1>2, KeysAdded

LEMMA UnionKeys == JoinInv /\ RowInv /\ KeyInv /\ Union => KeyInv'
<1> SUFFICES ASSUME JoinInv, RowInv, KeyInv, Union PROVE KeyInv'
  OBVIOUS
<1>1. /\ IsUnion
      /\ args' = args /\ keys' = keys /\ deq' = deq /\ c_ids' = c_ids
      /\ ts_n_blanks' = ts_n_blanks /\ pc' \in {"cleanup", "hash_left"}
  BY DEF Union, Untouched, Tables
<1> PICK rows : rows = impl'
  OBVIOUS
<1> QED BY <1>1, KeysAdded

LEMMA EndKeys ==
  /\ JoinInv /\ RowInv /\ KeyInv
  /\ FillRejected \/ UnionOfEmpty \/ PrintResults \/ Finished \/ UNCHANGED vars
  => KeyInv'
<1> SUFFICES ASSUME JoinInv, RowInv, KeyInv,
                    FillRejected \/ UnionOfEmpty \/ PrintResults \/ Finished \/ UNCHANGED vars
             PROVE  KeyInv'
  OBVIOUS
<1>1. CASE UNCHANGED vars
  <2>1. /\ args' = args /\ keys' = keys /\ pc' = pc /\ deq' = deq /\ headers' = headers
        /\ ts_n_blanks' = ts_n_blanks /\ c_ids' = c_ids /\ impl' = impl /\ hash' = hash
        /\ table' = table /\ join_vec' = join_vec /\ todo' = todo /\ recalculate' = recalculate
    BY <1>1 DEF vars
  <2>2. KeysTold'
    BY <2>1, KeysSame DEF KeyInv
  <2>3. KeyTold(1, RunRows(deq[1]))' = KeyTold(1, RunRows(deq[1]))
    BY <2>1 DEF KeyTold, ColumnTold, KeyTypeOf, KeyBlanks, Told, Absent, Value, RunRows, NLines,
                Line, Width
  <2>4. KeyTold(1, impl)' = KeyTold(1, impl)
    BY <2>1 DEF KeyTold, ColumnTold, KeyTypeOf, KeyBlanks, Told, Absent, Value
  <2>5. \A i \in DOMAIN table : RightRow(table[i])' = RightRow(table[i])
    BY <2>1, RowResultStable
  <2>6. OnBody'
    BY <2>1, <2>3 DEF KeyInv, OnBody
  <2>7. ResultTold'
    BY <2>1, <2>4 DEF KeyInv, ResultTold, IsUnion, IsOuter
  <2>8. Unadded'
    BY <2>1, <2>5 DEF KeyInv, Unadded
  <2> QED BY <2>1, <2>2, <2>6, <2>7, <2>8 DEF KeyInv
<1>2. CASE ~UNCHANGED vars
  <2>1. /\ args' = args /\ keys' = keys /\ deq' = deq /\ c_ids' = c_ids
        /\ ts_n_blanks' = ts_n_blanks
        /\ pc' \in {"rejected", "undefined", "failed", "done"}
    BY <1>2 DEF FillRejected, UnionOfEmpty, PrintResults, Finished, Untouched, Tables
  <2>2. KeysTold'
    BY <2>1, KeysSame DEF KeyInv
  <2> QED BY <2>1, <2>2 DEF KeyInv, OnBody, ResultTold, Unadded
<1> QED BY <1>1, <1>2

\* The types of the joined table begin with those of the left one.
LEMMA ConcatFront ==
  ASSUME NEW s, IsSeq(s), NEW t, IsSeq(t), KeepsKey \/ c_ids[2] \in DOMAIN t, NEW c \in DOMAIN s
  PROVE  Concat(s, t)[c] = s[c]
<1>1. CASE KeepsKey
  <2>1. Concat(s, t) = s \o t
    BY <1>1 DEF Concat
  <2> PICK r : r = s \o t
    OBVIOUS
  <2>2. Joins(r, s, t)
    BY ConcatJoins
  <2> QED BY <2>1, <2>2 DEF Joins
<1>2. CASE ~KeepsKey
  <2> PICK p : p = RemoveAt(t, c_ids[2])
    OBVIOUS
  <2>1. Concat(s, t) = s \o p /\ IsSeq(p)
    BY <1>2, RemoveAtRow DEF Concat
  <2> PICK r : r = s \o p
    OBVIOUS
  <2>2. Joins(r, s, p)
    BY <2>1, ConcatJoins
  <2> QED BY <2>1, <2>2 DEF Joins
<1> QED BY <1>1, <1>2

\* What is said of the key column of the joined table, if it will be looked at.
LEMMA ResultKeyTold ==
  ASSUME JoinInv, RowInv, KeyInv, pc = "cleanup", ~IsUnion, Len(deq) > 2,
         NEW types, types = (IF MustRecalculate THEN Typify(impl, Len(ConcatTypes.types))
                             ELSE ConcatTypes)
  PROVE  ColumnTold(types.types[c_ids[1]], types.blanks[c_ids[1]], c_ids[1], impl)
<1> DEFINE s == ts_n_blanks[1].types
           t == ts_n_blanks[2].types
           sb == ts_n_blanks[1].blanks
           tb == ts_n_blanks[2].blanks
<1> PICK c : c = c_ids[1]
  OBVIOUS
<1>1. /\ s \in Seq(ColumnType) /\ t \in Seq(ColumnType) /\ sb \in Seq(BOOLEAN) /\ tb \in Seq(BOOLEAN)
      /\ Len(sb) = Len(s) /\ Len(tb) = Len(t)
  <2>1. Len(headers) = Len(deq) /\ Len(deq) \in Nat
    BY Sizes DEF JoinInv, Lockstep, Filled
  <2>2. 1 \in DOMAIN ts_n_blanks /\ 2 \in DOMAIN ts_n_blanks
    BY <2>1, Sizes
  <2>3. ts_n_blanks[1] \in TableTypes /\ ts_n_blanks[2] \in TableTypes
    BY <2>1, ElementOfSeq, Sizes DEF JoinInv, TypeOK, TablesOK
  <2> QED BY <2>2, <2>3 DEF TableTypes, JoinInv, TypeOK, TablesOK
<1>2. c \in 1..Len(s) /\ c_ids[2] \in 1..Len(t)
  BY InProgress DEF JoiningPcs
<1>3. ConcatTypes.types = Concat(s, t) /\ ConcatTypes.blanks = Concat(sb, tb)
  BY DEF ConcatTypes
<1> HIDE DEF s, t, sb, tb
<1>4. Len(s) \in Nat /\ Len(t) \in Nat /\ DOMAIN s = 1..Len(s) /\ DOMAIN t = 1..Len(t)
      /\ DOMAIN sb = 1..Len(s) /\ DOMAIN tb = 1..Len(t)
  BY <1>1, LenProperties
<1>5. IsSeq(s) /\ IsSeq(t) /\ IsSeq(sb) /\ IsSeq(tb)
  BY <1>1, SeqIsSeq
<1>6. CASE MustRecalculate
  <2> PICK w : w = Len(ConcatTypes.types)
    OBVIOUS
  <2>1. w \in Nat /\ Len(s) <= w
    BY <1>1, <1>2, <1>3, ConcatTyped
  <2>2. c \in 1..w
    BY <1>2, <1>4, <2>1
  <2>3. types = Typify(impl, w)
    BY <1>6
  <2> QED BY <2>1, <2>2, <2>3, TypifyTold
<1>7. CASE ~MustRecalculate
  <2>1. KeyTold(1, impl)
    <3>1. (IsOuter /\ recalculate) \/ KeyTold(1, impl)
      BY DEF KeyInv, ResultTold
    <3> QED BY <1>7, <3>1 DEF MustRecalculate
  <2>2. Concat(s, t)[c] = s[c]
    BY <1>2, <1>4, <1>5, ConcatFront
  <2>3. Concat(sb, tb)[c] = sb[c]
    BY <1>2, <1>4, <1>5, ConcatFront
  <2>4. types = ConcatTypes
    BY <1>7
  <2>5. KeyTypeOf(1) = s[c] /\ KeyBlanks(1) = sb[c]
    BY DEF KeyTypeOf, KeyBlanks, s, sb
  <2> QED BY <1>3, <2>1, <2>2, <2>3, <2>4, <2>5 DEF KeyTold
<1> QED BY <1>6, <1>7

LEMMA CleanupKeys == JoinInv /\ RowInv /\ KeyInv /\ Cleanup => KeyInv'
<1> SUFFICES ASSUME JoinInv, RowInv, KeyInv, Cleanup PROVE KeyInv'
  OBVIOUS
<1>1. /\ pc = "cleanup" /\ args' = args /\ keys' = keys /\ impl' = impl
      /\ pc' \in {"failed", "loop"}
      /\ pc' = "failed" => deq' = deq /\ c_ids' = c_ids /\ ts_n_blanks' = ts_n_blanks
  BY DEF Cleanup, Untouched
<1>2. CASE pc' = "failed"
  <2>1. KeysTold'
    BY <1>1, <1>2, KeysSame DEF KeyInv
  <2> QED BY <1>2, <2>1 DEF KeyInv, OnBody, ResultTold, Unadded
<1>3. CASE pc' = "loop"
  <2>1. /\ Len(deq) > 1 /\ Len(deq) \in Nat /\ Len(deq') = Len(deq) - 1
        /\ deq'[1] = Fake(impl) /\ \A i \in 2..(Len(deq) - 1) : deq'[i] = deq[i + 1]
    BY <1>3, TwoTablesBecomeOne
  <2>2. IsUnion => c_ids' = <<>>
    BY <1>3, TwoTablesBecomeOne DEF JoinInv, Lockstep
  <2> SUFFICES ASSUME NEW i \in DOMAIN c_ids', Len(deq') > 1 \/ i > 1
               PROVE  /\ KeyTold(i, SourceRows(i))'
                      /\ deq'[i].kind = "reader" /\ keys[deq'[i].file] = <<>> =>
                           ts_n_blanks'[i].types[c_ids'[i]] # "number"
    <3>1. OnBody' /\ ResultTold' /\ Unadded'
      BY <1>3, <2>1 DEF OnBody, ResultTold, Unadded, Fake
    <3> QED BY <1>1, <1>3, <3>1 DEF KeyInv, KeysTold, KeyTypeOf
  <2>3. ~IsUnion
    BY <2>2
  <2>4. /\ DOMAIN c_ids' = 1..(Len(deq) - 1) /\ c_ids'[1] = c_ids[1]
        /\ \A j \in 2..(Len(deq) - 1) : j + 1 \in DOMAIN c_ids /\ c_ids'[j] = c_ids[j + 1]
    BY <1>3, <2>3, TwoTablesBecomeOne
  <2>5. CASE i = 1
    <3> PICK types : types = (IF MustRecalculate THEN Typify(impl, Len(ConcatTypes.types))
                              ELSE ConcatTypes)
      OBVIOUS
    <3> PICK c : c = c_ids[1]
      OBVIOUS
    <3> PICK rows : rows = impl
      OBVIOUS
    <3>1. Len(deq) > 2
      BY <2>1, <2>5
    <3>2. ColumnTold(types.types[c], types.blanks[c], c, rows)
      BY <1>1, <2>3, <3>1, ResultKeyTold
    <3>3. ts_n_blanks'[1] = types
      BY <1>3, TwoTablesBecomeOne
    <3>4. SourceRows(1)' = rows /\ deq'[1].kind = "fake"
      BY <2>1 DEF SourceRows, Fake
    <3>5. KeyTold(1, SourceRows(1))'
      BY <1>1, <2>4, <3>2, <3>3, <3>4, ToldKept
    <3> QED BY <2>5, <3>4, <3>5
  <2>6. CASE i # 1
    <3> PICK j : j = i + 1
      OBVIOUS
    <3>1. i \in 2..(Len(deq) - 1) /\ j > 1
      BY <2>1, <2>4, <2>6
    <3>2. /\ j \in DOMAIN c_ids /\ c_ids'[i] = c_ids[j] /\ deq'[i] = deq[j]
          /\ ts_n_blanks'[i] = ts_n_blanks[j]
      BY <1>3, <2>1, <2>4, <3>1, TwoTablesBecomeOne
    <3>3. /\ KeyTold(j, SourceRows(j))
          /\ deq[j].kind = "reader" /\ keys[deq[j].file] = <<>> => KeyTypeOf(j) # "number"
      BY <3>1, <3>2 DEF KeyInv, KeysTold
    <3> PICK rows : rows = SourceRows(j)
      OBVIOUS
    <3> PICK c : c = c_ids[j]
      OBVIOUS
    <3>4. SourceRows(i)' = rows
      <4> PICK g : g = deq[j].file
        OBVIOUS
      <4>1. BodyRows(g)' = BodyRows(g)
        BY <1>1 DEF BodyRows, RunRows, Reader, NLines, Line, Width
      <4> QED BY <3>2, <4>1 DEF SourceRows
    <3>5. ColumnTold(KeyTypeOf(j), KeyBlanks(j), c, rows)
      BY <3>3 DEF KeyTold
    <3>6. KeyTypeOf(j) = ts_n_blanks[j].types[c] /\ KeyBlanks(j) = ts_n_blanks[j].blanks[c]
      BY DEF KeyTypeOf, KeyBlanks
    <3>7. KeyTold(i, SourceRows(i))'
      BY <1>1, <3>2, <3>4, <3>5, <3>6, ToldKept
    <3> QED BY <1>1, <3>2, <3>3, <3>6, <3>7
  <2> QED BY <2>5, <2>6
<1> QED BY <1>1, <1>2, <1>3

-------------------------------------------------------------------------------
(* What is said of the keys is an invariant.                                 *)

LEMMA KeyInvInit == Init => KeyInv
<1> SUFFICES ASSUME Init PROVE KeyInv
  OBVIOUS
<1>1. pc = "fill" /\ headers = <<>> /\ c_ids = <<>>
  BY DEF Init
<1> QED BY <1>1 DEF KeyInv, KeysTold, OnBody, ResultTold, Unadded

LEMMA KeyInvStep ==
  JoinInv /\ RowInv /\ ShapeInv /\ SlotsFollowRows /\ KeyInv /\ [Next]_vars => KeyInv'
<1> SUFFICES ASSUME JoinInv, RowInv, ShapeInv, SlotsFollowRows, KeyInv, [Next]_vars PROVE KeyInv'
  OBVIOUS
<1>1. CASE Fill
  BY <1>1, FillKeys
<1>2. CASE CanCompare
  BY <1>2, CanCompareKeys
<1>3. CASE HashRight \/ OpenLeft \/ HashLeft
  BY <1>3, HashRightKeys, OpenLeftKeys, HashLeftKeys
<1>4. CASE \E i \in todo : WorkFirst(i) \/ WorkSecond(i)
  BY <1>4, WorkKeys
<1>5. CASE MergeFirst \/ MergeSecond
  BY <1>5, MergeFirstKeys, MergeSecondKeys
<1>6. CASE NoBody \/ NoBodySecond
  BY <1>6, NoBodyKeys, NoBodySecondKeys
<1>7. CASE Disjoint \/ Union
  BY <1>7, DisjointKeys, UnionKeys
<1>8. CASE Cleanup
  BY <1>8, CleanupKeys
<1>9. CASE FillRejected \/ UnionOfEmpty \/ PrintResults \/ Finished \/ UNCHANGED vars
  BY <1>9, EndKeys
<1> QED BY <1>1, <1>2, <1>3, <1>4, <1>5, <1>6, <1>7, <1>8, <1>9 DEF Next

LEMMA KeyInvHolds == Spec => []KeyInv
BY JoinInvHolds, RowInvHolds, SlotsHold, ShapeInvHolds, KeyInvInit, KeyInvStep, PTL DEF Spec

LEMMA KeysHold ==
  ASSUME JoinInv, RowInv, KeyInv
  PROVE  KeyFlagsHold
<1> SUFFICES ASSUME pc = "loop", Len(deq) > 1, ~IsUnion, NEW i \in DOMAIN RunRows(deq[1])
             PROVE  Told(KeyTypeOf(1), KeyBlanks(1), Value(RunRows(deq[1])[i][c_ids[1]]))
  BY DEF KeyInv, KeyFlagsHold, Told
<1>1. KeyTold(1, LeftRows)
  BY KeysInFront DEF KeyInv
<1>2. RunRows(deq[1]) = LeftRows
  BY ReadsBody
<1> QED BY <1>1, <1>2 DEF KeyTold, ColumnTold

\* However many tables have been joined, what is said of the key column is true of
\* the key cells before the next join looks at it, so that no worker ever hashes a
\* null or a word as a number: the process is never terminated.
THEOREM KeyFlagsAlwaysHold == Spec => []KeyFlagsHold
BY JoinInvHolds, RowInvHolds, KeyInvHolds, KeysHold, PTL
===============================================================================
