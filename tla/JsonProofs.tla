------------------------------- MODULE JsonProofs -------------------------------
(***************************************************************************)
(* Proofs about csvJson, for every header, every row and every command     *)
(* line: the box of the coordinates, the keys, the shape of what is        *)
(* composed and the rows it holds; and about the converter of ndjson of    *)
(* In2csv, for any objects.                                                *)
(***************************************************************************)
EXTENDS Json, In2csv, ToolProofs

-------------------------------------------------------------------------------
(* csvJson: the rows, the box and the keys.                                   *)

JsonSource ==
  /\ cmd.names \in Seq(STRING)
  /\ cmd.cells \in Seq(Seq(Texts)) /\ \A k \in DOMAIN cmd.cells : Len(cmd.cells[k]) = Len(cmd.cells[1])
  /\ cmd.names # <<>> /\ cmd.cells # <<>> => Len(cmd.cells) = Len(cmd.names)

LEMMA JsonSourceFacts ==
  ASSUME JsonSource
  PROVE  /\ JsonLast \in Nat /\ JsonRows = 1..JsonLast
         /\ Len(cmd.names) \in Nat /\ JsonColumns = 1..Len(cmd.names)
<1>1. Len(cmd.names) \in Nat /\ JsonColumns = 1..Len(cmd.names)
  BY DEF JsonSource, JsonColumns
<1>2. CASE cmd.cells = <<>>
  <2>1. JsonRows = {} /\ JsonLast = 0
    BY <1>2, FS_EmptySet DEF JsonRows, JsonLast
  <2> QED BY <1>1, <2>1
<1>3. CASE cmd.cells # <<>>
  <2>1. cmd.cells[1] \in Seq(Texts)
    <3>1. Len(cmd.cells) \in Nat /\ DOMAIN cmd.cells = 1..Len(cmd.cells) /\ Len(cmd.cells) # 0
      BY <1>3 DEF JsonSource
    <3>2. 1 \in DOMAIN cmd.cells
      BY <3>1
    <3> QED BY <3>2, ElementOfSeq DEF JsonSource
  <2> PICK n : n = Len(cmd.cells[1])
    OBVIOUS
  <2>2. n \in Nat /\ JsonRows = 1..n
    BY <1>3, <2>1 DEF JsonRows
  <2>3. JsonLast = n
    <3>1. Cardinality(1..n) = n
      <4>1. 1 \in Int /\ n \in Int /\ (IF 1 > n THEN 0 ELSE n - 1 + 1) = n
        BY <2>2
      <4> QED BY <4>1, FS_Interval
    <3> QED BY <2>2, <3>1 DEF JsonLast
  <2> QED BY <1>1, <2>2, <2>3
<1> QED BY <1>2, <1>3

\* The bounds of a coordinate after n rows: each is the coordinate of one of them.
CoordinateOf(r, k) == NumberOf[Cell(r, LatLon[k])]
BoundsOf(bounds, k, n) ==
  /\ n = 0 => bounds = <<>>
  /\ n > 0 => \E q, r \in 1..n :
                /\ bounds = <<CoordinateOf(q, k), CoordinateOf(r, k)>>
                /\ \A i \in 1..n : /\ CoordinateOf(i, k) \in Int
                                   /\ CoordinateOf(q, k) <= CoordinateOf(i, k)
                                   /\ CoordinateOf(i, k) <= CoordinateOf(r, k)
Boxed(n) == BoundsOf(bbox.lat, 1, n) /\ BoundsOf(bbox.lon, 2, n)

LEMMA NumberFacts == \A text \in Numbers : NumberOf[text] \in Int
BY DEF NumberOf, Numbers

LEMMA BoundsStretched ==
  ASSUME NEW n \in Nat, NEW k, NEW bounds, BoundsOf(bounds, k, n), CoordinateOf(n + 1, k) \in Int
  PROVE  BoundsOf(Stretched(bounds, CoordinateOf(n + 1, k)), k, n + 1)
<1> PICK x : x = CoordinateOf(n + 1, k)
  OBVIOUS
<1> PICK s : s = Stretched(bounds, x)
  OBVIOUS
<1>1. n + 1 > 0 /\ n + 1 # 0 /\ n + 1 \in 1..(n + 1) /\ \A i \in 1..(n + 1) : i \in 1..n \/ i = n + 1
  OBVIOUS
<1>2. \A i \in 1..n : i \in 1..(n + 1)
  OBVIOUS
<1>3. CASE n = 0
  <2>1. bounds = <<>>
    BY <1>3 DEF BoundsOf
  <2>2. s = <<x, x>>
    BY <2>1 DEF Stretched
  <2>3. \A i \in 1..(n + 1) : CoordinateOf(i, k) = x
    BY <1>1, <1>3
  <2>4. /\ s = <<CoordinateOf(n + 1, k), CoordinateOf(n + 1, k)>>
        /\ \A i \in 1..(n + 1) : /\ CoordinateOf(i, k) \in Int
                                 /\ CoordinateOf(n + 1, k) <= CoordinateOf(i, k)
                                 /\ CoordinateOf(i, k) <= CoordinateOf(n + 1, k)
    BY <2>2, <2>3
  <2> QED BY <1>1, <2>4 DEF BoundsOf
<1>4. CASE n # 0
  <2>1. n > 0
    BY <1>4
  <2>2. PICK q, r \in 1..n :
          /\ bounds = <<CoordinateOf(q, k), CoordinateOf(r, k)>>
          /\ \A i \in 1..n : /\ CoordinateOf(i, k) \in Int
                             /\ CoordinateOf(q, k) <= CoordinateOf(i, k)
                             /\ CoordinateOf(i, k) <= CoordinateOf(r, k)
    BY <2>1 DEF BoundsOf
  <2>3. PICK a, b : a = CoordinateOf(q, k) /\ b = CoordinateOf(r, k)
    OBVIOUS
  <2>4. a \in Int /\ b \in Int /\ x \in Int /\ bounds = <<a, b>>
    BY <2>2, <2>3
  <2>5. s = <<IF x <= a THEN x ELSE a, IF x >= b THEN x ELSE b>>
    BY <2>4 DEF Stretched
  <2>6. \E y \in 1..(n + 1) : CoordinateOf(y, k) = IF x <= a THEN x ELSE a
    BY <1>1, <1>2, <2>3
  <2>7. \E z \in 1..(n + 1) : CoordinateOf(z, k) = IF x >= b THEN x ELSE b
    BY <1>1, <1>2, <2>3
  <2>8. PICK y \in 1..(n + 1), z \in 1..(n + 1) :
          /\ CoordinateOf(y, k) = IF x <= a THEN x ELSE a
          /\ CoordinateOf(z, k) = IF x >= b THEN x ELSE b
    BY <2>6, <2>7
  <2>9. ASSUME NEW i \in 1..(n + 1)
        PROVE  /\ CoordinateOf(i, k) \in Int
               /\ CoordinateOf(y, k) <= CoordinateOf(i, k)
               /\ CoordinateOf(i, k) <= CoordinateOf(z, k)
    <3>1. i \in 1..n => CoordinateOf(i, k) \in Int /\ a <= CoordinateOf(i, k) /\ CoordinateOf(i, k) <= b
      BY <2>2, <2>3
    <3>2. i = n + 1 => CoordinateOf(i, k) = x
      OBVIOUS
    <3> PICK c : c = CoordinateOf(i, k)
      OBVIOUS
    <3>3. c = x \/ (c \in Int /\ a <= c /\ c <= b)
      BY <1>1, <3>1, <3>2
    <3> QED BY <2>4, <2>8, <3>3
  <2> QED BY <1>1, <2>5, <2>8, <2>9 DEF BoundsOf
<1> QED BY <1>3, <1>4

LEMMA BoundsExtreme ==
  ASSUME NEW n \in Nat, n > 0, NEW k, NEW bounds, BoundsOf(bounds, k, n)
  PROVE  LET places == {CoordinateOf(r, k) : r \in 1..n}
         IN  bounds = <<Min(places), Max(places)>>
<1>1. PICK q, r \in 1..n :
        /\ bounds = <<CoordinateOf(q, k), CoordinateOf(r, k)>>
        /\ \A i \in 1..n : /\ CoordinateOf(i, k) \in Int
                           /\ CoordinateOf(q, k) <= CoordinateOf(i, k)
                           /\ CoordinateOf(i, k) <= CoordinateOf(r, k)
  BY DEF BoundsOf
<1>2. PICK places : places = {CoordinateOf(i, k) : i \in 1..n}
  OBVIOUS
<1>3. PICK a, b : a = CoordinateOf(q, k) /\ b = CoordinateOf(r, k)
  OBVIOUS
<1>4. /\ a \in places /\ b \in places /\ places \subseteq Int
      /\ \A x \in places : a <= x /\ x <= b
  BY <1>1, <1>2, <1>3
<1>5. \A x \in places : (\A y \in places : x <= y) => x = a
  BY <1>4
<1>6. \A x \in places : (\A y \in places : x >= y) => x = b
  BY <1>4
<1>7. Min(places) = a
  BY <1>4, <1>5 DEF Min
<1>8. \A y \in places : b >= y
  BY <1>4
<1>9. Max(places) = b
  BY <1>4, <1>6, <1>8 DEF Max
<1> QED BY <1>1, <1>2, <1>3, <1>7, <1>9

\* What is a token of a concatenation is a token of one of its parts.
\* Every token is one of two sequences.
FromEither(t, a, b) ==
  \A j \in DOMAIN t : (\E i \in DOMAIN a : t[j] = a[i]) \/ (\E i \in DOMAIN b : t[j] = b[i])

LEMMA FromEitherConcat ==
  ASSUME NEW a, IsSeq(a), NEW b, IsSeq(b)
  PROVE  IsSeq(a \o b) /\ FromEither(a \o b, a, b)
<1>t. PICK t : t = a \o b
  OBVIOUS
<1>1. /\ IsSeq(t) /\ Len(t) = Len(a) + Len(b)
      /\ \A i \in 1..Len(a) : t[i] = a[i]
      /\ \A i \in 1..Len(b) : t[Len(a) + i] = b[i]
  BY <1>t, IsSeqConcat
<1>2. /\ Len(a) \in Nat /\ Len(b) \in Nat /\ DOMAIN a = 1..Len(a) /\ DOMAIN b = 1..Len(b)
      /\ DOMAIN t = 1..Len(t)
  BY <1>1, IsSeqFacts
<1>3. ASSUME NEW j \in DOMAIN t
      PROVE  (\E i \in DOMAIN a : t[j] = a[i]) \/ (\E i \in DOMAIN b : t[j] = b[i])
  <2>1. CASE j <= Len(a)
    <3>1. j \in 1..Len(a)
      BY <1>1, <1>2, <1>3, <2>1
    <3> QED BY <1>1, <1>2, <3>1
  <2>2. CASE ~(j <= Len(a))
    <3>1. PICK i : i = j - Len(a)
      OBVIOUS
    <3>2. i \in 1..Len(b) /\ j = Len(a) + i
      BY <1>1, <1>2, <1>3, <2>2, <3>1
    <3> QED BY <1>1, <1>2, <3>2
  <2> QED BY <2>1, <2>2
<1>4. FromEither(t, a, b)
  BY <1>3 DEF FromEither
<1> QED BY <1>1, <1>4, <1>t

\* Every object or array opened among the tokens is the one of row r under what the key shows.
OpensOnly(s, r, shows) ==
  IsSeq(s) /\ \A j \in DOMAIN s : s[j].kind = "open" => s[j].row = r /\ s[j].label = shows

LEMMA OpensConcat ==
  ASSUME NEW a, NEW b, NEW r, NEW shows, OpensOnly(a, r, shows), OpensOnly(b, r, shows)
  PROVE  OpensOnly(a \o b, r, shows)
<1>g. PICK t : t = a \o b
  OBVIOUS
<1>1. IsSeq(t) /\ FromEither(t, a, b)
  BY <1>g, FromEitherConcat DEF OpensOnly
<1>2. OpensOnly(t, r, shows)
  BY <1>1 DEF OpensOnly, FromEither
<1> QED BY <1>g, <1>2

LEMMA TokenOpens ==
  ASSUME NEW r, NEW shows
  PROVE  /\ OpensOnly(<<>>, r, shows) /\ OpensOnly(Comma, r, shows) /\ OpensOnly(Newline, r, shows)
         /\ OpensOnly(Closing, r, shows) /\ OpensOnly(Opening(r, shows), r, shows)
         /\ \A q, l, null : OpensOnly(Member(q, l, null), r, shows)
<1>1. ASSUME NEW t, t.kind = "open" => t.row = r /\ t.label = shows
      PROVE  OpensOnly(<<t>>, r, shows)
  BY <1>1, SingletonIsSeq DEF OpensOnly
<1>2. OpensOnly(<<>>, r, shows)
  BY IsSeqEmpty DEF OpensOnly
<1> QED BY <1>1, <1>2 DEF Comma, Newline, Closing, Opening, Member, Token

\* Members with commas between them.
Separated(members) ==
  [k \in DOMAIN members |-> (IF k = 1 THEN <<>> ELSE Comma) \o members[k]]

LEMMA SeparatedFacts ==
  ASSUME NEW members, IsSeq(members), \A k \in DOMAIN members : IsSeq(members[k])
  PROVE  /\ IsSeq(Separated(members)) /\ Len(Separated(members)) = Len(members)
         /\ DOMAIN Separated(members) = DOMAIN members
         /\ \A k \in DOMAIN members : IsSeq(Separated(members)[k])
         /\ Joined(members) = FlattenSeq(Separated(members))
<1> PICK s : s = Separated(members)
  OBVIOUS
<1>1. Len(members) \in Nat /\ DOMAIN members = 1..Len(members)
  BY IsSeqFacts
<1>2. s = [k \in 1..Len(members) |-> s[k]]
  BY <1>1 DEF Separated
<1>3. IsSeq(s) /\ Len(s) = Len(members)
  BY <1>1, <1>2, IsSeqFunction
<1>4. DOMAIN s = DOMAIN members
  BY <1>1, <1>2
<1>5. ASSUME NEW k \in DOMAIN members PROVE IsSeq(s[k])
  <2>1. s[k] = (IF k = 1 THEN <<>> ELSE Comma) \o members[k]
    BY DEF Separated
  <2>2. IsSeq(IF k = 1 THEN <<>> ELSE Comma)
    BY IsSeqEmpty, SingletonIsSeq DEF Comma
  <2>3. IsSeq(members[k])
    OBVIOUS
  <2> QED BY <2>1, <2>2, <2>3, IsSeqConcat
<1>6. Joined(members) = FlattenSeq(s)
  BY DEF Joined, Separated
<1> QED BY <1>3, <1>4, <1>5, <1>6

LEMMA JoinedOpens ==
  ASSUME NEW r, NEW shows, NEW members, IsSeq(members),
         \A k \in DOMAIN members : OpensOnly(members[k], r, shows)
  PROVE  OpensOnly(Joined(members), r, shows)
<1> PICK s : s = Separated(members)
  OBVIOUS
<1>g. PICK t : t = Joined(members)
  OBVIOUS
<1>1. \A k \in DOMAIN members : IsSeq(members[k])
  BY DEF OpensOnly
<1>2. /\ IsSeq(s) /\ Len(s) = Len(members) /\ DOMAIN s = DOMAIN members
      /\ \A k \in DOMAIN s : IsSeq(s[k])
      /\ Joined(members) = FlattenSeq(s)
  BY <1>1, SeparatedFacts
<1>3. Gathered(t, s, Len(s)) /\ DOMAIN s = 1..Len(s)
  BY <1>2, <1>g, FlattenFacts, IsSeqFacts
<1>4. ASSUME NEW k \in DOMAIN s PROVE OpensOnly(s[k], r, shows)
  <2>1. s[k] = (IF k = 1 THEN <<>> ELSE Comma) \o members[k]
    BY <1>2 DEF Separated
  <2>2. OpensOnly(IF k = 1 THEN <<>> ELSE Comma, r, shows)
    BY TokenOpens
  <2>3. OpensOnly(members[k], r, shows)
    BY <1>2
  <2> QED BY <2>1, <2>2, <2>3, OpensConcat
<1>5. ASSUME NEW j \in DOMAIN t, t[j].kind = "open" PROVE t[j].row = r /\ t[j].label = shows
  <2>1. PICK i \in 1..Len(s) : \E k \in DOMAIN s[i] : t[j] = s[i][k]
    BY <1>3 DEF Gathered
  <2>2. PICK k \in DOMAIN s[i] : t[j] = s[i][k]
    BY <2>1
  <2> QED BY <1>3, <1>4, <1>5, <2>2 DEF OpensOnly
<1> QED BY <1>3, <1>5, <1>g DEF OpensOnly, Gathered

LEMMA ObjectOpens ==
  ASSUME JsonSource, NEW r
  PROVE  OpensOnly(Object(r), r, IF key_idx = 0 THEN "" ELSE KeyShown(Cell(r, key_idx)))
<1> PICK shows : shows = IF key_idx = 0 THEN "" ELSE KeyShown(Cell(r, key_idx))
  OBVIOUS
<1> PICK members : members = [c \in JsonColumns |-> MemberOf(r, c)]
  OBVIOUS
<1>1. IsSeq(members) /\ \A k \in DOMAIN members : members[k] = MemberOf(r, k)
  <2>1. JsonColumns = 1..Len(cmd.names) /\ Len(cmd.names) \in Nat
    BY JsonSourceFacts
  <2>2. members = [k \in 1..Len(cmd.names) |-> members[k]]
    BY <2>1
  <2> QED BY <2>1, <2>2, IsSeqFunction
<1>2. OpensOnly(Joined(members), r, shows)
  BY <1>1, TokenOpens, JoinedOpens DEF MemberOf
<1>3. Object(r) = Opening(r, shows) \o Joined(members) \o Closing
  BY DEF Object
<1>4. OpensOnly(Opening(r, shows) \o Joined(members), r, shows)
  BY <1>2, TokenOpens, OpensConcat
<1> QED BY <1>3, <1>4, TokenOpens, OpensConcat

-------------------------------------------------------------------------------
(* csvJson: pieces of JSON.                                                   *)

Opens(s, n) == {k \in 1..n : s[k].kind = "open"}
Closes(s, n) == {k \in 1..n : s[k].kind = "close"}
\* What is open after the first n tokens.
Depth(s, n) == Cardinality(Opens(s, n)) - Cardinality(Closes(s, n))
Weight(kind) == IF kind = "open" THEN 1 ELSE IF kind = "close" THEN -1 ELSE 0

LEMMA PlacesCounted ==
  ASSUME NEW S, NEW n \in Nat
  PROVE  /\ IsFiniteSet(S \cap (1..n)) /\ Cardinality(S \cap (1..n)) \in Nat
         /\ n = 0 => Cardinality(S \cap (1..n)) = 0
         /\ Cardinality(S \cap (1..(n + 1)))
              = Cardinality(S \cap (1..n)) + IF n + 1 \in S THEN 1 ELSE 0
<1> PICK T : T = S \cap (1..n)
  OBVIOUS
<1>1. IsFiniteSet(1..n)
  BY FS_Interval
<1>2. T \subseteq 1..n
  OBVIOUS
<1>3. IsFiniteSet(T) /\ Cardinality(T) \in Nat
  BY <1>1, <1>2, FS_Subset, FS_CardinalityType
<1>4. n = 0 => Cardinality(T) = 0
  <2>1. n = 0 => T = {}
    OBVIOUS
  <2> QED BY <2>1, FS_EmptySet
<1>5. CASE n + 1 \in S
  <2>1. S \cap (1..(n + 1)) = T \cup {n + 1} /\ n + 1 \notin T
    BY <1>5
  <2>2. Cardinality(T \cup {n + 1}) = Cardinality(T) + 1
    BY <1>3, <2>1, FS_AddElement
  <2> QED BY <1>3, <1>4, <1>5, <2>1, <2>2
<1>6. CASE n + 1 \notin S
  <2>1. S \cap (1..(n + 1)) = T
    BY <1>6
  <2>2. Cardinality(T) = Cardinality(T) + IF n + 1 \in S THEN 1 ELSE 0
    BY <1>3, <1>6
  <2> QED BY <1>3, <1>4, <2>1, <2>2
<1> QED BY <1>5, <1>6

LEMMA DepthFacts ==
  ASSUME NEW s, NEW n \in Nat
  PROVE  /\ Cardinality(Opens(s, n)) \in Nat /\ Cardinality(Closes(s, n)) \in Nat
         /\ Depth(s, n) \in Int /\ Depth(s, 0) = 0
         /\ Depth(s, n + 1) = Depth(s, n) + Weight(s[n + 1].kind)
<1> PICK O : O = {k \in Nat : s[k].kind = "open"}
  OBVIOUS
<1> PICK C : C = {k \in Nat : s[k].kind = "close"}
  OBVIOUS
<1>1. \A m \in Nat : Opens(s, m) = O \cap (1..m) /\ Closes(s, m) = C \cap (1..m)
  BY DEF Opens, Closes
<1>2. ASSUME NEW S, NEW m \in Nat
      PROVE  /\ Cardinality(S \cap (1..m)) \in Nat
             /\ m = 0 => Cardinality(S \cap (1..m)) = 0
             /\ Cardinality(S \cap (1..(m + 1)))
                  = Cardinality(S \cap (1..m)) + IF m + 1 \in S THEN 1 ELSE 0
  BY PlacesCounted
<1>3. \A m \in Nat : /\ Cardinality(Opens(s, m)) \in Nat /\ Cardinality(Closes(s, m)) \in Nat
                     /\ m = 0 => Cardinality(Opens(s, m)) = 0 /\ Cardinality(Closes(s, m)) = 0
  <2> TAKE m \in Nat
  <2>1. /\ Cardinality(O \cap (1..m)) \in Nat
        /\ m = 0 => Cardinality(O \cap (1..m)) = 0
    BY <1>2
  <2>2. /\ Cardinality(C \cap (1..m)) \in Nat
        /\ m = 0 => Cardinality(C \cap (1..m)) = 0
    BY <1>2
  <2> QED BY <1>1, <2>1, <2>2
<1>4. Cardinality(Opens(s, 0)) = 0 /\ Cardinality(Closes(s, 0)) = 0
  BY <1>3
<1>5. /\ Cardinality(Opens(s, n + 1)) = Cardinality(Opens(s, n)) + IF n + 1 \in O THEN 1 ELSE 0
      /\ Cardinality(Closes(s, n + 1)) = Cardinality(Closes(s, n)) + IF n + 1 \in C THEN 1 ELSE 0
  <2>1. Cardinality(O \cap (1..(n + 1)))
          = Cardinality(O \cap (1..n)) + IF n + 1 \in O THEN 1 ELSE 0
    BY <1>2
  <2>2. Cardinality(C \cap (1..(n + 1)))
          = Cardinality(C \cap (1..n)) + IF n + 1 \in C THEN 1 ELSE 0
    BY <1>2
  <2>3. n + 1 \in Nat
    OBVIOUS
  <2> QED BY <1>1, <2>1, <2>2, <2>3
<1>6. (n + 1 \in O <=> s[n + 1].kind = "open") /\ (n + 1 \in C <=> s[n + 1].kind = "close")
  OBVIOUS
<1>7. Depth(s, n + 1) = Depth(s, n) + Weight(s[n + 1].kind)
  <2> PICK o, c : o = Cardinality(Opens(s, n)) /\ c = Cardinality(Closes(s, n))
    OBVIOUS
  <2> PICK kind : kind = s[n + 1].kind
    OBVIOUS
  <2>1. o \in Nat /\ c \in Nat
    BY <1>3
  <2>2. /\ Cardinality(Opens(s, n + 1)) = o + IF kind = "open" THEN 1 ELSE 0
        /\ Cardinality(Closes(s, n + 1)) = c + IF kind = "close" THEN 1 ELSE 0
    BY <1>5, <1>6
  <2> QED BY <2>1, <2>2 DEF Depth, Weight
<1>8. Depth(s, n) \in Int /\ Depth(s, 0) = 0
  BY <1>3, <1>4 DEF Depth
<1> QED BY <1>3, <1>7, <1>8

LEMMA DepthSame ==
  ASSUME NEW s, NEW t, NEW n \in Nat, \A k \in 1..n : s[k].kind = t[k].kind
  PROVE  Depth(s, n) = Depth(t, n)
BY DEF Depth, Opens, Closes

LEMMA DepthConcat ==
  ASSUME NEW a, IsSeq(a), NEW b, IsSeq(b), NEW t, TwoJoined(t, a, b)
  PROVE  /\ \A k \in 0..Len(a) : Depth(t, k) = Depth(a, k)
         /\ \A m \in 0..Len(b) : Depth(t, Len(a) + m) = Depth(a, Len(a)) + Depth(b, m)
<1>1. Len(a) \in Nat /\ Len(b) \in Nat
  BY IsSeqFacts
<1>2. ASSUME NEW k \in 0..Len(a) PROVE Depth(t, k) = Depth(a, k)
  <2>1. k \in Nat /\ \A i \in 1..k : i \in 1..Len(a)
    BY <1>1
  <2>2. \A i \in 1..k : t[i].kind = a[i].kind
    BY <2>1 DEF TwoJoined
  <2> QED BY <2>1, <2>2, DepthSame
<1> DEFINE S == {m \in Nat : m \in 0..Len(b) => Depth(t, Len(a) + m) = Depth(a, Len(a)) + Depth(b, m)}
<1>3. 0 \in S
  <2>1. Depth(t, Len(a)) = Depth(a, Len(a))
    BY <1>1, <1>2
  <2>2. Depth(a, Len(a)) \in Int
    BY <1>1, DepthFacts
  <2>3. Depth(b, 0) = 0
    BY DepthFacts
  <2> QED BY <1>1, <2>1, <2>2, <2>3
<1>4. ASSUME NEW m \in Nat, m \in S PROVE m + 1 \in S
  <2> SUFFICES ASSUME m + 1 \in 0..Len(b)
               PROVE  Depth(t, Len(a) + (m + 1)) = Depth(a, Len(a)) + Depth(b, m + 1)
    OBVIOUS
  <2>1. m \in 0..Len(b) /\ m + 1 \in 1..Len(b) /\ Len(a) + m \in Nat /\ Len(a) + (m + 1) = (Len(a) + m) + 1
    BY <1>1
  <2>2. Depth(t, Len(a) + m) = Depth(a, Len(a)) + Depth(b, m)
    BY <1>4, <2>1
  <2>3. t[(Len(a) + m) + 1] = b[m + 1]
    BY <2>1 DEF TwoJoined
  <2>4. Depth(t, (Len(a) + m) + 1) = Depth(t, Len(a) + m) + Weight(b[m + 1].kind)
    <3> PICK i : i = Len(a) + m
      OBVIOUS
    <3>1. Depth(t, i + 1) = Depth(t, i) + Weight(t[i + 1].kind)
      BY <2>1, DepthFacts
    <3> QED BY <2>3, <3>1
  <2>5. Depth(b, m + 1) = Depth(b, m) + Weight(b[m + 1].kind)
    BY DepthFacts
  <2>6. Depth(a, Len(a)) \in Int /\ Depth(b, m) \in Int /\ Weight(b[m + 1].kind) \in Int
    BY <1>1, DepthFacts DEF Weight
  <2> QED BY <2>1, <2>2, <2>4, <2>5, <2>6
<1> HIDE DEF S
<1>5. Nat \subseteq S
  BY <1>3, <1>4, Induction
<1> QED BY <1>1, <1>2, <1>5 DEF S

\* Tokens that may follow one another as they do.
Paired(s) == \A k \in 1..(Len(s) - 1) : <<s[k].kind, s[k + 1].kind>> \in Follow

\* A piece begins and ends with tokens of these kinds, leaves this much more open than
\* there was, and never less than low.
Piece(s, low, left, first, last) ==
  /\ IsSeq(s) /\ Len(s) > 0 /\ Paired(s)
  /\ s[1].kind \in first /\ s[Len(s)].kind \in last
  /\ Depth(s, Len(s)) = left
  /\ \A k \in 1..Len(s) : Depth(s, k) >= low /\ s[k].kind # "newline"

LEMMA PairedConcat ==
  ASSUME NEW a, IsSeq(a), Len(a) > 0, Paired(a), NEW b, IsSeq(b), Len(b) > 0, Paired(b),
         <<a[Len(a)].kind, b[1].kind>> \in Follow, NEW t, TwoJoined(t, a, b)
  PROVE  Paired(t) /\ t[1] = a[1] /\ t[Len(t)] = b[Len(b)] /\ Len(t) > 0
<1>1. Len(a) \in Nat /\ Len(b) \in Nat
  BY IsSeqFacts
<1>2. /\ Len(t) = Len(a) + Len(b)
      /\ \A i \in 1..Len(a) : t[i] = a[i]
      /\ \A i \in 1..Len(b) : t[Len(a) + i] = b[i]
  BY DEF TwoJoined
<1>3. 1 \in 1..Len(a) /\ Len(a) \in 1..Len(a) /\ 1 \in 1..Len(b) /\ Len(b) \in 1..Len(b)
  BY <1>1
<1>4. ASSUME NEW k \in 1..(Len(t) - 1) PROVE <<t[k].kind, t[k + 1].kind>> \in Follow
  <2>1. CASE k < Len(a)
    <3>1. k \in 1..Len(a) /\ k + 1 \in 1..Len(a) /\ k \in 1..(Len(a) - 1)
      BY <1>1, <1>2, <2>1
    <3>2. <<a[k].kind, a[k + 1].kind>> \in Follow
      BY <3>1 DEF Paired
    <3> QED BY <1>2, <3>1, <3>2
  <2>2. CASE k = Len(a)
    <3>1. t[k] = a[Len(a)] /\ t[k + 1] = b[1]
      BY <1>2, <1>3, <2>2
    <3> QED BY <3>1
  <2>3. CASE k > Len(a)
    <3>1. PICK i : i = k - Len(a)
      OBVIOUS
    <3>2. i \in 1..Len(b) /\ i + 1 \in 1..Len(b) /\ i \in 1..(Len(b) - 1) /\ k = Len(a) + i /\ k + 1 = Len(a) + (i + 1)
      BY <1>1, <1>2, <2>3, <3>1
    <3>3. t[k] = b[i] /\ t[k + 1] = b[i + 1]
      BY <1>2, <3>2
    <3>4. <<b[i].kind, b[i + 1].kind>> \in Follow
      BY <3>2 DEF Paired
    <3> QED BY <3>3, <3>4
  <2> QED BY <1>1, <1>2, <2>1, <2>2, <2>3
<1>5. Len(t) > 0 /\ t[1] = a[1] /\ t[Len(t)] = b[Len(b)]
  BY <1>1, <1>2, <1>3
<1> QED BY <1>4, <1>5 DEF Paired

\* What is left open, and how little, when one piece follows another.
Levels(la, ea, lb, eb, low, left) ==
  /\ la \in Int /\ ea \in Int /\ lb \in Int /\ eb \in Int /\ low \in Int
  /\ low <= la /\ low <= ea + lb /\ left = ea + eb
Meet(last, first) == \A x \in last, y \in first : <<x, y>> \in Follow

LEMMA PieceConcat ==
  ASSUME NEW a, NEW la, NEW ea, NEW fa, NEW za, Piece(a, la, ea, fa, za),
         NEW b, NEW lb, NEW eb, NEW fb, NEW zb, Piece(b, lb, eb, fb, zb),
         Meet(za, fb), NEW low, NEW left, Levels(la, ea, lb, eb, low, left)
  PROVE  Piece(a \o b, low, left, fa, zb)
<1>0. /\ la \in Int /\ ea \in Int /\ lb \in Int /\ eb \in Int /\ low \in Int
      /\ low <= la /\ low <= ea + lb /\ left = ea + eb
  BY DEF Levels
<1>1. /\ IsSeq(a) /\ Len(a) > 0 /\ Paired(a) /\ a[1].kind \in fa /\ a[Len(a)].kind \in za
      /\ Depth(a, Len(a)) = ea /\ \A k \in 1..Len(a) : Depth(a, k) >= la /\ a[k].kind # "newline"
  BY DEF Piece
<1>2. /\ IsSeq(b) /\ Len(b) > 0 /\ Paired(b) /\ b[1].kind \in fb /\ b[Len(b)].kind \in zb
      /\ Depth(b, Len(b)) = eb /\ \A k \in 1..Len(b) : Depth(b, k) >= lb /\ b[k].kind # "newline"
  BY DEF Piece
<1>t. PICK t : t = a \o b
  OBVIOUS
<1>3. TwoJoined(t, a, b)
  BY <1>1, <1>2, <1>t, TwoJoinedFacts
<1>4. Len(a) \in Nat /\ Len(b) \in Nat
  BY <1>1, <1>2, IsSeqFacts
<1>5. <<a[Len(a)].kind, b[1].kind>> \in Follow
  BY <1>1, <1>2 DEF Meet
<1>6. Paired(t) /\ t[1] = a[1] /\ t[Len(t)] = b[Len(b)] /\ Len(t) > 0
  BY <1>1, <1>2, <1>3, <1>5, PairedConcat
<1>7. /\ \A k \in 0..Len(a) : Depth(t, k) = Depth(a, k)
      /\ \A m \in 0..Len(b) : Depth(t, Len(a) + m) = ea + Depth(b, m)
  BY <1>1, <1>2, <1>3, DepthConcat
<1>8. /\ IsSeq(t) /\ Len(t) = Len(a) + Len(b)
      /\ \A i \in 1..Len(a) : t[i] = a[i]
      /\ \A i \in 1..Len(b) : t[Len(a) + i] = b[i]
  BY <1>3 DEF TwoJoined
<1>9. Depth(t, Len(t)) = left
  <2>1. Len(b) \in 0..Len(b)
    BY <1>4
  <2> QED BY <1>0, <1>2, <1>7, <1>8, <2>1
<1>10. ASSUME NEW k \in 1..Len(t) PROVE Depth(t, k) >= low /\ t[k].kind # "newline"
  <2>1. CASE k <= Len(a)
    <3>1. k \in 1..Len(a) /\ k \in 0..Len(a) /\ k \in Nat
      BY <1>4, <1>8, <2>1
    <3>2. Depth(a, k) >= la /\ Depth(a, k) \in Int /\ a[k].kind # "newline"
      BY <1>1, <3>1, DepthFacts
    <3> QED BY <1>0, <1>7, <1>8, <3>1, <3>2
  <2>2. CASE ~(k <= Len(a))
    <3>1. PICK m : m = k - Len(a)
      OBVIOUS
    <3>2. m \in 1..Len(b) /\ m \in 0..Len(b) /\ m \in Nat /\ k = Len(a) + m
      BY <1>4, <1>8, <2>2, <3>1
    <3>3. Depth(b, m) >= lb /\ Depth(b, m) \in Int /\ b[m].kind # "newline"
      BY <1>2, <3>2, DepthFacts
    <3>4. Depth(t, k) = ea + Depth(b, m) /\ t[k] = b[m]
      BY <1>7, <1>8, <3>2
    <3> QED BY <1>0, <3>3, <3>4
  <2> QED BY <2>1, <2>2
<1>11. Piece(t, low, left, fa, zb)
  BY <1>1, <1>2, <1>6, <1>8, <1>9, <1>10 DEF Piece
<1> QED BY <1>11, <1>t

LEMMA PieceOfToken ==
  ASSUME NEW t, t.kind # "newline"
  PROVE  Piece(<<t>>, Weight(t.kind), Weight(t.kind), {t.kind}, {t.kind})
<1> PICK s : s = <<t>>
  OBVIOUS
<1>1. IsSeq(s) /\ Len(s) = 1 /\ s[1] = t
  BY SingletonIsSeq
<1>2. Depth(s, 1) = Weight(t.kind)
  <2>1. Depth(s, 0 + 1) = Depth(s, 0) + Weight(s[0 + 1].kind) /\ Depth(s, 0) = 0
    BY DepthFacts
  <2>2. Weight(t.kind) \in Int
    BY DEF Weight
  <2> QED BY <1>1, <2>1, <2>2
<1>3. Weight(t.kind) >= Weight(t.kind)
  BY DEF Weight
<1>4. Paired(s) /\ \A k \in 1..Len(s) : k = 1
  BY <1>1 DEF Paired
<1> QED BY <1>1, <1>2, <1>3, <1>4 DEF Piece

LEMMA PieceWider ==
  ASSUME NEW s, NEW low, NEW left, NEW first, NEW last, Piece(s, low, left, first, last),
         NEW f, first \subseteq f, NEW z, last \subseteq z
  PROVE  Piece(s, low, left, f, z)
BY DEF Piece

LEMMA TokenPieces ==
  /\ \A r, shows : Piece(Opening(r, shows), 1, 1, {"open"}, {"open"})
  /\ \A r, shows, null : Piece(Member(r, shows, null), 0, 0, {"value"}, {"value"})
  /\ Piece(Comma, 0, 0, {"comma"}, {"comma"})
  /\ Piece(Closing, -1, -1, {"close"}, {"close"})
<1>1. \A kind, row, shows, null : Token(kind, row, shows, null).kind = kind
  BY DEF Token
<1>2. ASSUME NEW kind, kind # "newline", NEW row, NEW shows, NEW null
      PROVE  Piece(<<Token(kind, row, shows, null)>>, Weight(kind), Weight(kind), {kind}, {kind})
  <2> PICK t : t = Token(kind, row, shows, null)
    OBVIOUS
  <2>1. t.kind = kind
    BY <1>1
  <2>2. Piece(<<t>>, Weight(t.kind), Weight(t.kind), {t.kind}, {t.kind})
    BY <1>2, <2>1, PieceOfToken
  <2> QED BY <2>1, <2>2
<1>3. Weight("open") = 1 /\ Weight("value") = 0 /\ Weight("comma") = 0 /\ Weight("close") = -1
  BY DEF Weight
<1> QED BY <1>2, <1>3 DEF Opening, Member, Comma, Closing

\* A value of JSON, or several with commas between them.
Starts == {"open", "value"}
Stops == {"close", "value"}
Value(s) == Piece(s, 0, 0, Starts, Stops)

LEMMA FollowFacts ==
  /\ \A x \in {"open", "comma"} : \A y \in Starts : <<x, y>> \in Follow
  /\ \A x \in Stops : <<x, "comma">> \in Follow /\ <<x, "close">> \in Follow
  /\ <<"open", "close">> \in Follow
  /\ <<"close", "newline">> \in Follow /\ <<"newline", "open">> \in Follow
BY DEF Follow, Starts, Stops

LEMMA MemberIsValue == \A r, shows, null : Value(Member(r, shows, null))
BY TokenPieces, PieceWider DEF Value, Starts, Stops

LEMMA Small ==
  /\ 0 \in Int /\ 1 \in Int /\ 2 \in Int
  /\ 0 <= 0 /\ 0 <= 1 /\ 0 <= 2 /\ 1 <= 1 /\ 1 <= 2 /\ 2 <= 2
  /\ 1 = 0 + 1 /\ 2 = 1 + 1 /\ 0 = 1 - 1 /\ 1 = 2 - 1
OBVIOUS

\* A value after what is still open, and a comma after a value.
LEMMA ValueAfter ==
  ASSUME NEW a, NEW low \in Int, NEW d \in Int, low <= d, NEW first, NEW last,
         Piece(a, low, d, first, last), last \subseteq {"open", "comma"}, NEW b, Value(b)
  PROVE  Piece(a \o b, low, d, first, Stops)
<1>1. Piece(b, 0, 0, Starts, Stops)
  BY DEF Value
<1>2. Meet(last, Starts)
  BY FollowFacts DEF Meet, Starts
<1>3. Levels(low, d, 0, 0, low, d)
  BY DEF Levels
<1> QED BY <1>1, <1>2, <1>3, PieceConcat

LEMMA CommaAfter ==
  ASSUME NEW a, NEW low \in Int, NEW d \in Int, low <= d, NEW first, NEW last,
         Piece(a, low, d, first, last), last \subseteq Stops
  PROVE  Piece(a \o Comma, low, d, first, {"comma"})
<1>1. Piece(Comma, 0, 0, {"comma"}, {"comma"})
  BY TokenPieces
<1>2. Meet(last, {"comma"})
  BY FollowFacts DEF Meet, Starts
<1>3. Levels(low, d, 0, 0, low, d)
  BY DEF Levels
<1> QED BY <1>1, <1>2, <1>3, PieceConcat

LEMMA OpeningAfter ==
  ASSUME NEW a, NEW low \in Int, NEW d \in Int, low <= d, NEW first, NEW last,
         Piece(a, low, d, first, last), last \subseteq {"open", "comma"}, NEW r, NEW shows,
         NEW e, e = d + 1
  PROVE  Piece(a \o Opening(r, shows), low, e, first, {"open"})
<1>1. Piece(Opening(r, shows), 1, 1, {"open"}, {"open"})
  BY TokenPieces
<1>2. Meet(last, {"open"})
  BY FollowFacts DEF Meet, Starts
<1>3. Levels(low, d, 1, 1, low, e)
  BY DEF Levels
<1> QED BY <1>1, <1>2, <1>3, PieceConcat

LEMMA ClosingAfter ==
  ASSUME NEW a, NEW low \in Int, NEW d \in Int, low <= d, NEW first, NEW last,
         Piece(a, low, d, first, last), last \subseteq {"open"} \cup Stops,
         NEW bottom \in Int, bottom <= low, NEW e, e = d - 1, bottom <= e
  PROVE  Piece(a \o Closing, bottom, e, first, {"close"})
<1>1. Piece(Closing, -1, -1, {"close"}, {"close"})
  BY TokenPieces
<1>2. Meet(last, {"close"})
  BY FollowFacts DEF Meet, Starts
<1>3. Levels(low, d, -1, -1, bottom, e)
  BY DEF Levels
<1> QED BY <1>1, <1>2, <1>3, PieceConcat

LEMMA Enclosed ==
  ASSUME NEW a, a = <<>> \/ Value(a), NEW r, NEW shows
  PROVE  /\ Piece(Opening(r, shows) \o a \o Closing, 0, 0, {"open"}, {"close"})
         /\ Value(Opening(r, shows) \o a \o Closing)
<1>1. Piece(Opening(r, shows), 1, 1, {"open"}, {"open"})
  BY TokenPieces
<1>2. Piece(Opening(r, shows) \o a, 1, 1, {"open"}, {"open"} \cup Stops)
  <2>1. CASE a = <<>>
    <3>1. Opening(r, shows) \o a = Opening(r, shows)
      BY <1>1, <2>1, ConcatEmpty DEF Piece
    <3> QED BY <1>1, <3>1, PieceWider
  <2>2. CASE Value(a)
    <3>1. Piece(Opening(r, shows) \o a, 1, 1, {"open"}, Stops)
      BY <1>1, <2>2, ValueAfter
    <3> QED BY <3>1, PieceWider
  <2> QED BY <2>1, <2>2
<1>3. Piece((Opening(r, shows) \o a) \o Closing, 0, 0, {"open"}, {"close"})
  BY <1>2, Small, ClosingAfter
<1>4. Value((Opening(r, shows) \o a) \o Closing)
  BY <1>3, PieceWider DEF Value, Starts, Stops
<1> QED BY <1>3, <1>4

\* Values with commas between them.
LEMMA JoinedValue ==
  ASSUME NEW members, IsSeq(members), \A k \in DOMAIN members : Value(members[k])
  PROVE  IF Len(members) = 0 THEN Joined(members) = <<>> ELSE Value(Joined(members))
<1> PICK s : s = Separated(members)
  OBVIOUS
<1>1. Len(members) \in Nat /\ DOMAIN members = 1..Len(members)
  BY IsSeqFacts
<1>2. /\ IsSeq(s) /\ Len(s) = Len(members) /\ Joined(members) = FlattenSeq(s)
  <2>1. \A k \in DOMAIN members : IsSeq(members[k])
    BY DEF Value, Piece
  <2> QED BY <2>1, SeparatedFacts
<1>3. CASE Len(members) = 0
  <2>1. FlattenSeq(s) = s /\ s = <<>>
    BY <1>2, <1>3, IsSeqEmpty DEF FlattenSeq, IsSeq
  <2> QED BY <1>2, <1>3, <2>1
<1>4. CASE Len(members) # 0
  <2>1. PICK f : Flattening(s, Len(s), f) /\ FlattenSeq(s) = f[Len(s)]
    BY <1>1, <1>2, <1>4, FlattenDefined
  <2>2. \A i \in 1..Len(s) : f[i] = IF i = 1 THEN s[i] ELSE f[i - 1] \o s[i]
    BY <2>1 DEF Flattening
  <2>3. \A k \in 1..Len(s) : s[k] = (IF k = 1 THEN <<>> ELSE Comma) \o members[k]
    BY <1>1, <1>2 DEF Separated
  <2> DEFINE S == {m \in Nat : m \in 1..Len(s) => Value(f[m])}
  <2>4. 0 \in S
    OBVIOUS
  <2>5. ASSUME NEW m \in Nat, m \in S PROVE m + 1 \in S
    <3> SUFFICES ASSUME m + 1 \in 1..Len(s) PROVE Value(f[m + 1])
      OBVIOUS
    <3>1. Value(members[m + 1])
      BY <1>1, <1>2
    <3>2. CASE m = 0
      <4>1. f[1] = <<>> \o members[1]
        <5>1. 1 \in 1..Len(s)
          BY <3>2
        <5>2. f[1] = s[1] /\ s[1] = <<>> \o members[1]
          BY <2>2, <2>3, <5>1
        <5> QED BY <5>2
      <4>2. <<>> \o members[1] = members[1]
        BY <3>1, <3>2, ConcatEmpty DEF Value, Piece
      <4> QED BY <3>1, <3>2, <4>1, <4>2
    <3>3. CASE m # 0
      <4>1. m \in 1..Len(s) /\ m + 1 # 1 /\ (m + 1) - 1 = m
        BY <1>1, <1>2, <3>3
      <4>2. f[m + 1] = f[m] \o s[m + 1] /\ s[m + 1] = Comma \o members[m + 1]
        BY <2>2, <2>3, <4>1
      <4>3. Piece(f[m], 0, 0, Starts, Stops)
        BY <2>5, <4>1 DEF Value
      <4>4. Piece(f[m] \o Comma, 0, 0, Starts, {"comma"})
        BY <4>3, CommaAfter
      <4>5. Piece((f[m] \o Comma) \o members[m + 1], 0, 0, Starts, Stops)
        BY <3>1, <4>4, ValueAfter
      <4>6. (f[m] \o Comma) \o members[m + 1] = f[m] \o (Comma \o members[m + 1])
        <5>1. IsSeq(f[m]) /\ IsSeq(members[m + 1]) /\ IsSeq(Comma)
          BY <3>1, <4>3, TokenPieces DEF Value, Piece
        <5>2. PICK x, y, z : x = f[m] /\ y = Comma /\ z = members[m + 1]
          OBVIOUS
        <5>3. (x \o y) \o z = x \o (y \o z)
          <6>1. IsSeq(x) /\ IsSeq(y) /\ IsSeq(z)
            BY <5>1, <5>2
          <6> QED BY <6>1, ConcatMore
        <5> QED BY <5>2, <5>3
      <4> QED BY <4>2, <4>5, <4>6 DEF Value
    <3> QED BY <3>2, <3>3
  <2> HIDE DEF S
  <2>6. Len(s) \in S
    BY <1>1, <1>2, <2>4, <2>5, Induction
  <2> QED BY <1>1, <1>2, <1>4, <2>1, <2>6 DEF S
<1> QED BY <1>3, <1>4

LEMMA JoinedColumns ==
  ASSUME NEW r, NEW cs, IsSeq(cs)
  PROVE  LET joined == Joined([k \in DOMAIN cs |-> MemberOf(r, cs[k])])
         IN  joined = <<>> \/ Value(joined)
<1> PICK members : members = [k \in DOMAIN cs |-> MemberOf(r, cs[k])]
  OBVIOUS
<1>1. IsSeq(members) /\ Len(members) \in Nat
  <2>1. DOMAIN cs = 1..Len(cs) /\ Len(cs) \in Nat
    BY IsSeqFacts
  <2>2. members = [k \in 1..Len(cs) |-> members[k]]
    BY <2>1
  <2> QED BY <2>1, <2>2, IsSeqFunction
<1>2. \A k \in DOMAIN members : Value(members[k])
  BY MemberIsValue DEF MemberOf
<1> QED BY <1>1, <1>2, JoinedValue

\* The columns shown, in their order.
LEMMA ColumnsAreSeqs ==
  ASSUME JsonSource, NEW r
  PROVE  IsSeq([c \in JsonColumns |-> c]) /\ IsSeq(PropertyColumns(r))
<1>1. Len(cmd.names) \in Nat /\ JsonColumns = 1..Len(cmd.names)
  BY JsonSourceFacts
<1>2. IsSeq([c \in JsonColumns |-> c])
  <2> PICK cs : cs = [c \in JsonColumns |-> c]
    OBVIOUS
  <2>1. cs = [c \in 1..Len(cmd.names) |-> cs[c]]
    BY <1>1
  <2>2. IsSeq(cs)
    BY <1>1, <2>1, IsSeqFunction
  <2> QED BY <2>2
<1>3. IsSeq(PropertyColumns(r))
  <2> PICK parts : parts = [c \in JsonColumns |-> IF Special(c) \/ Cell(r, c) = Null THEN <<>> ELSE <<c>>]
    OBVIOUS
  <2>1. parts = [c \in 1..Len(cmd.names) |-> parts[c]]
    BY <1>1
  <2>2. IsSeq(parts) /\ Len(parts) = Len(cmd.names)
    BY <1>1, <2>1, IsSeqFunction
  <2>3. \A c \in DOMAIN parts : IsSeq(parts[c])
    <3>1. \A c \in DOMAIN parts : parts[c] = <<>> \/ parts[c] = <<c>>
      OBVIOUS
    <3> QED BY <3>1, IsSeqEmpty, SingletonIsSeq
  <2>4. Gathered(FlattenSeq(parts), parts, Len(parts))
    BY <2>2, <2>3, FlattenFacts
  <2> QED BY <2>4 DEF Gathered, PropertyColumns
<1> QED BY <1>2, <1>3

LEMMA ObjectPiece ==
  ASSUME JsonSource, NEW r
  PROVE  Piece(Object(r), 0, 0, {"open"}, {"close"})
<1>c. PICK cs : cs = [c \in JsonColumns |-> c]
  OBVIOUS
<1>1. IsSeq(cs) /\ DOMAIN cs = JsonColumns /\ \A c \in JsonColumns : cs[c] = c
  BY <1>c, ColumnsAreSeqs
<1>2. [c \in JsonColumns |-> MemberOf(r, c)] = [k \in DOMAIN cs |-> MemberOf(r, cs[k])]
  BY <1>1
<1>j. PICK joined : joined = Joined([k \in DOMAIN cs |-> MemberOf(r, cs[k])])
  OBVIOUS
<1>3. joined = <<>> \/ Value(joined)
  BY <1>1, <1>j, JoinedColumns
<1>l. PICK shows : shows = IF key_idx = 0 THEN "" ELSE KeyShown(Cell(r, key_idx))
  OBVIOUS
<1>4. Piece(Opening(r, shows) \o joined \o Closing, 0, 0, {"open"}, {"close"})
  BY <1>3, Enclosed
<1>5. Object(r) = Opening(r, shows) \o joined \o Closing
  BY <1>2, <1>j, <1>l DEF Object
<1> QED BY <1>4, <1>5

LEMMA PropertiesPiece ==
  ASSUME JsonSource, NEW r
  PROVE  Value(Properties(r))
BY ColumnsAreSeqs, JoinedColumns, Enclosed DEF Properties

LEMMA GeometryPiece ==
  ASSUME NEW r
  PROVE  Value(Geometry(r))
<1>m. PICK type, longitude, latitude :
        /\ type = Member(r, "type", FALSE)
        /\ longitude = Member(r, "longitude", FALSE) /\ latitude = Member(r, "latitude", FALSE)
  OBVIOUS
<1>1. Value(type) /\ Value(longitude) /\ Value(latitude)
  BY <1>m, MemberIsValue
<1>a. PICK a : a = Opening(r, "geometry") \o type \o Comma \o Opening(r, "coordinates")
  OBVIOUS
<1>2. Piece(a, 1, 2, {"open"}, {"open"})
  <2>1. Piece(Opening(r, "geometry"), 1, 1, {"open"}, {"open"})
    BY TokenPieces
  <2>2. Piece(Opening(r, "geometry") \o type, 1, 1, {"open"}, Stops)
    BY <1>1, <2>1, Small, ValueAfter
  <2>3. Piece(Opening(r, "geometry") \o type \o Comma, 1, 1, {"open"}, {"comma"})
    BY <2>2, Small, CommaAfter
  <2>4. Piece(Opening(r, "geometry") \o type \o Comma \o Opening(r, "coordinates"), 1, 2, {"open"}, {"open"})
    BY <2>3, Small, OpeningAfter
  <2> QED BY <1>a, <2>4
<1>b. PICK b : b = a \o longitude \o Comma \o latitude
  OBVIOUS
<1>3. Piece(b, 1, 2, {"open"}, Stops)
  <2>1. Piece(a \o longitude, 1, 2, {"open"}, Stops)
    BY <1>1, <1>2, Small, ValueAfter
  <2>2. Piece(a \o longitude \o Comma, 1, 2, {"open"}, {"comma"})
    BY <2>1, Small, CommaAfter
  <2>3. Piece(a \o longitude \o Comma \o latitude, 1, 2, {"open"}, Stops)
    BY <1>1, <2>2, Small, ValueAfter
  <2> QED BY <1>b, <2>3
<1>4. Value(b \o Closing \o Closing)
  <2>1. Piece(b \o Closing, 1, 1, {"open"}, {"close"})
    BY <1>3, Small, ClosingAfter
  <2>2. Piece(b \o Closing \o Closing, 0, 0, {"open"}, {"close"})
    BY <2>1, Small, ClosingAfter DEF Stops
  <2> QED BY <2>2, PieceWider DEF Value, Starts, Stops
<1> QED BY <1>a, <1>b, <1>m, <1>4, MemberIsValue DEF Geometry

\* The tokens of a feature, without the line end that may be before it.
FeatureBody(r) ==
  Opening(r, "") \o Member(r, "type", FALSE) \o Comma \o Properties(r) \o Comma
    \o Id(r) \o Geometry(r) \o Closing

LEMMA FeaturePiece ==
  ASSUME JsonSource, NEW r
  PROVE  Piece(FeatureBody(r), 0, 0, {"open"}, {"close"})
<1>p. PICK type, properties, geometry :
        type = Member(r, "type", FALSE) /\ properties = Properties(r) /\ geometry = Geometry(r)
  OBVIOUS
<1>1. Value(type) /\ Value(properties) /\ Value(geometry)
  BY <1>p, MemberIsValue, PropertiesPiece, GeometryPiece
<1>a. PICK a : a = Opening(r, "") \o type \o Comma \o properties \o Comma
  OBVIOUS
<1>2. Piece(a, 1, 1, {"open"}, {"comma"})
  <2>1. Piece(Opening(r, ""), 1, 1, {"open"}, {"open"})
    BY TokenPieces
  <2>2. Piece(Opening(r, "") \o type, 1, 1, {"open"}, Stops)
    BY <1>1, <2>1, Small, ValueAfter
  <2>3. Piece(Opening(r, "") \o type \o Comma, 1, 1, {"open"}, {"comma"})
    BY <2>2, Small, CommaAfter
  <2>4. Piece(Opening(r, "") \o type \o Comma \o properties, 1, 1, {"open"}, Stops)
    BY <1>1, <2>3, Small, ValueAfter
  <2>5. Piece(Opening(r, "") \o type \o Comma \o properties \o Comma, 1, 1, {"open"}, {"comma"})
    BY <2>4, Small, CommaAfter
  <2> QED BY <1>a, <2>5
<1>i. PICK id : id = Id(r)
  OBVIOUS
<1>3. Piece(a \o id, 1, 1, {"open"}, {"comma"})
  <2>1. CASE id = <<>>
    <3>1. a \o id = a
      BY <1>2, <2>1, ConcatEmpty DEF Piece
    <3> QED BY <1>2, <3>1
  <2>2. CASE id # <<>>
    <3>n. PICK null : id = Member(r, "id", null) \o Comma
      BY <1>i, <2>2 DEF Id
    <3>m. PICK m : m = Member(r, "id", null)
      OBVIOUS
    <3>1. Value(m)
      BY <3>m, MemberIsValue
    <3>2. Piece(a \o m, 1, 1, {"open"}, Stops)
      BY <1>2, <3>1, Small, ValueAfter
    <3>3. Piece((a \o m) \o Comma, 1, 1, {"open"}, {"comma"})
      BY <3>2, Small, CommaAfter
    <3>4. (a \o m) \o Comma = a \o (m \o Comma)
      <4>1. IsSeq(a) /\ IsSeq(m) /\ IsSeq(Comma)
        BY <1>2, <3>1, TokenPieces DEF Piece, Value
      <4> QED BY <4>1, ConcatMore
    <3>5. Piece(a \o (m \o Comma), 1, 1, {"open"}, {"comma"})
      BY <3>3, <3>4
    <3> QED BY <3>n, <3>m, <3>5
  <2> QED BY <2>1, <2>2
<1>4. Piece(a \o id \o geometry, 1, 1, {"open"}, Stops)
  BY <1>1, <1>3, Small, ValueAfter
<1>5. Piece(a \o id \o geometry \o Closing, 0, 0, {"open"}, {"close"})
  BY <1>4, Small, ClosingAfter
<1>6. FeatureBody(r) = a \o id \o geometry \o Closing
  BY <1>p, <1>a, <1>i DEF FeatureBody
<1> QED BY <1>5, <1>6

\* What comes before the rows.
LEMMA BeforePiece ==
  ASSUME ~cmd.stream
  PROVE  Piece(Before, 1, IF Geojson THEN 2 ELSE 1, {"open"}, {"open"})
<1>1. CASE ~Geojson
  BY <1>1, TokenPieces DEF Before
<1>2. CASE Geojson
  <2>m. PICK type, a : type = Member(0, "type", FALSE) /\ a = Opening(0, "") \o type \o Comma
    OBVIOUS
  <2>1. Piece(a, 1, 1, {"open"}, {"comma"})
    <3>1. Piece(Opening(0, ""), 1, 1, {"open"}, {"open"})
      BY TokenPieces
    <3>2. Value(type)
      BY <2>m, MemberIsValue
    <3>3. Piece(Opening(0, "") \o type, 1, 1, {"open"}, Stops)
      BY <3>1, <3>2, Small, ValueAfter
    <3>4. Piece(Opening(0, "") \o type \o Comma, 1, 1, {"open"}, {"comma"})
      BY <3>3, Small, CommaAfter
    <3> QED BY <2>m, <3>4
  <2>b. PICK box : box = Opening(0, "bbox") \o Joined([k \in 1..4 |-> Member(0, "", FALSE)]) \o Closing
    OBVIOUS
  <2>2. Value(box)
    <3>j. PICK members : members = [k \in 1..4 |-> Member(0, "", FALSE)]
      OBVIOUS
    <3>1. IsSeq(members) /\ Len(members) \in Nat
      <4>1. 4 \in Nat /\ members = [k \in 1..4 |-> members[k]]
        BY <3>j
      <4>2. IsSeq(members) /\ Len(members) = 4
        BY <4>1, IsSeqFunction
      <4> QED BY <4>2
    <3>2. \A k \in DOMAIN members : Value(members[k])
      BY <3>j, MemberIsValue
    <3>3. Joined(members) = <<>> \/ Value(Joined(members))
      BY <3>1, <3>2, JoinedValue
    <3>c. PICK joined : joined = Joined(members)
      OBVIOUS
    <3>4. Value(Opening(0, "bbox") \o joined \o Closing)
      BY <3>3, <3>c, Enclosed
    <3> QED BY <2>b, <3>c, <3>j, <3>4
  <2>o. PICK f : f = IF cmd.no_bbox THEN <<>> ELSE box \o Comma
    OBVIOUS
  <2>3. Piece(a \o f, 1, 1, {"open"}, {"comma"})
    <3>1. CASE cmd.no_bbox
      <4>1. a \o f = a
        BY <2>1, <2>o, <3>1, ConcatEmpty DEF Piece
      <4> QED BY <2>1, <4>1
    <3>2. CASE ~cmd.no_bbox
      <4>1. Piece(a \o box, 1, 1, {"open"}, Stops)
        BY <2>1, <2>2, Small, ValueAfter
      <4>2. Piece((a \o box) \o Comma, 1, 1, {"open"}, {"comma"})
        BY <4>1, Small, CommaAfter
      <4>a. IsSeq(a)
        BY <2>1 DEF Piece
      <4>b. IsSeq(box)
        BY <2>2 DEF Piece, Value
      <4>c. IsSeq(Comma)
        BY TokenPieces DEF Piece
      <4>3. (a \o box) \o Comma = a \o (box \o Comma)
        BY ONLY <4>a, <4>b, <4>c, ConcatMore
      <4>4. Piece(a \o (box \o Comma), 1, 1, {"open"}, {"comma"})
        BY <4>2, <4>3
      <4> QED BY <2>o, <3>2, <4>4
    <3> QED BY <3>1, <3>2
  <2>4. Piece(a \o f \o Opening(0, "features"), 1, 2, {"open"}, {"open"})
    BY <2>3, Small, OpeningAfter
  <2>5. Before = a \o f \o Opening(0, "features")
    BY <1>2, <2>m, <2>b, <2>o DEF Before
  <2> QED BY <1>2, <2>4, <2>5
<1> QED BY <1>1, <1>2

\* What comes after the rows: all but its last token closes the features.
Crs ==
  IF Given(cmd.crs)
  THEN Comma \o Opening(0, "crs") \o Member(0, "type", FALSE) \o Comma
         \o Opening(0, "properties") \o Member(0, "name", FALSE) \o Closing \o Closing
  ELSE <<>>

LEMMA CrsPiece == Crs = <<>> \/ Piece(Crs, 0, 0, {"comma"}, {"close"})
<1> SUFFICES ASSUME Given(cmd.crs) PROVE Piece(Crs, 0, 0, {"comma"}, {"close"})
  BY DEF Crs
<1>m. PICK type, name : type = Member(0, "type", FALSE) /\ name = Member(0, "name", FALSE)
  OBVIOUS
<1>1. Value(type) /\ Value(name)
  BY <1>m, MemberIsValue
<1>a. PICK a : a = Comma \o Opening(0, "crs") \o type \o Comma \o Opening(0, "properties")
  OBVIOUS
<1>2. Piece(a, 0, 2, {"comma"}, {"open"})
  <2>1. Piece(Comma, 0, 0, {"comma"}, {"comma"})
    BY TokenPieces
  <2>2. Piece(Comma \o Opening(0, "crs"), 0, 1, {"comma"}, {"open"})
    BY <2>1, Small, OpeningAfter
  <2>3. Piece(Comma \o Opening(0, "crs") \o type, 0, 1, {"comma"}, Stops)
    BY <1>1, <2>2, Small, ValueAfter
  <2>4. Piece(Comma \o Opening(0, "crs") \o type \o Comma, 0, 1, {"comma"}, {"comma"})
    BY <2>3, Small, CommaAfter
  <2>5. Piece(Comma \o Opening(0, "crs") \o type \o Comma \o Opening(0, "properties"),
              0, 2, {"comma"}, {"open"})
    BY <2>4, Small, OpeningAfter
  <2> QED BY <1>a, <2>5
<1>3. Piece(a \o name, 0, 2, {"comma"}, Stops)
  BY <1>1, <1>2, Small, ValueAfter
<1>4. Piece(a \o name \o Closing, 0, 1, {"comma"}, {"close"})
  BY <1>3, Small, ClosingAfter
<1>5. Piece(a \o name \o Closing \o Closing, 0, 0, {"comma"}, {"close"})
  BY <1>4, Small, ClosingAfter DEF Stops
<1>6. Crs = a \o name \o Closing \o Closing
  BY <1>m, <1>a DEF Crs
<1> QED BY <1>5, <1>6

LEMMA TokenSeqs == IsSeq(Comma) /\ IsSeq(Newline) /\ IsSeq(Closing) /\ IsSeq(<<>>)
BY SingletonIsSeq, IsSeqEmpty DEF Comma, Newline, Closing

\* All that is composed are sequences of tokens.
LEMMA TokensOfRow ==
  ASSUME JsonSource, NEW r
  PROVE  /\ IsSeq(Object(r)) /\ IsSeq(FeatureBody(r)) /\ IsSeq(Feature(r)) /\ IsSeq(Between(r))
         /\ Feature(r) = (IF cmd.stream /\ cmd.indent THEN Newline ELSE <<>>) \o FeatureBody(r)
<1>1. IsSeq(Object(r)) /\ IsSeq(FeatureBody(r))
  BY ObjectPiece, FeaturePiece DEF Piece
<1>2. Feature(r) = (IF cmd.stream /\ cmd.indent THEN Newline ELSE <<>>) \o FeatureBody(r)
  BY DEF Feature, FeatureBody
<1>3. IsSeq(IF cmd.stream /\ cmd.indent THEN Newline ELSE <<>>)
  BY TokenSeqs
<1>4. IsSeq(Feature(r))
  <2> PICK a : a = IF cmd.stream /\ cmd.indent THEN Newline ELSE <<>>
    OBVIOUS
  <2>1. IsSeq(a \o FeatureBody(r))
    BY <1>1, <1>3, IsSeqConcat
  <2> QED BY <1>2, <2>1
<1>5. IsSeq(Between(r))
  BY TokenSeqs DEF Between
<1> QED BY <1>1, <1>2, <1>4, <1>5

LEMMA TokensAround == IsSeq(Before) /\ IsSeq(After)
<1>1. IsSeq(Before)
  <2>1. ~cmd.stream => IsSeq(Before)
    BY BeforePiece DEF Piece
  <2>2. cmd.stream => IsSeq(Before)
    BY IsSeqEmpty DEF Before
  <2> QED BY <2>1, <2>2
<1>2. IsSeq(After)
  <2>1. IsSeq(Crs)
    BY CrsPiece, IsSeqEmpty DEF Piece
  <2>2. IsSeq(Closing \o Crs \o Closing)
    BY <2>1, TokenSeqs, IsSeqConcat
  <2>3. After = IF cmd.stream THEN (IF Geojson THEN <<>> ELSE Newline)
                ELSE IF ~Geojson THEN Closing ELSE Closing \o Crs \o Closing
    BY DEF After, Crs
  <2>4. CASE ~cmd.stream /\ Geojson
    BY <2>2, <2>3, <2>4
  <2>5. CASE cmd.stream \/ ~Geojson
    BY <2>3, <2>5, TokenSeqs
  <2> QED BY <2>4, <2>5
<1> QED BY <1>1, <1>2

-------------------------------------------------------------------------------
(* csvJson: the invariant.                                                    *)

\* Keys of the rows passed, all different.
KeysDiffer(n) == \A q, r \in 1..n : q # r => Cell(q, key_idx) # Cell(r, key_idx)
KeysSeen(n) ==
  /\ dups = {Cell(r, key_idx) : r \in 1..n} \ {Null}
  /\ nulls \in Nat /\ (nulls > 0 <=> \E r \in 1..n : Cell(r, key_idx) = Null)
  /\ KeysDiffer(n)
\* Keys composed: each of its row.
KeysShown(s, n) ==
  \A j \in DOMAIN s : s[j].kind = "open" =>
    s[j].row = 0 \/ (s[j].row \in 1..n /\ s[j].label = KeyShown(Cell(s[j].row, key_idx)))

-------------------------------------------------------------------------------
(* csvJson: the inductive invariant of the passes.                            *)

JsonStopped == {"failed", "undefined"}
JsonComposed == {"opening", "composing", "done"}
JsonInv ==
  cmd.tool = "json" =>
    /\ JsonSource /\ IsSeq(held) /\ json_row \in 0..JsonLast
    /\ at \in {"start", "checking", "bounding"} \cup JsonStopped \cup JsonComposed
    /\ at = "start" => json_row = 0 /\ key_idx = 0 /\ bbox = NoBound /\ dups = {} /\ nulls = 0
    /\ at \notin {"start"} \cup JsonStopped => JsonLast > 0 /\ (key_idx # 0 => ~Geojson)
    /\ at # "done" => out = <<>>
    /\ at \in {"start", "checking", "bounding", "opening"} => held = <<>>
    /\ at = "checking" => key_idx # 0 /\ KeysSeen(json_row)
    /\ at = "bounding" => key_idx = 0 /\ Boxed(json_row)
    /\ at = "opening" => json_row = 0
    /\ at \in JsonComposed =>
         /\ Geojson /\ ~cmd.no_bbox /\ ~cmd.stream => Boxed(JsonLast)
         /\ key_idx # 0 => KeysDiffer(JsonLast)
    /\ at = "composing" /\ key_idx # 0 => KeysShown(held, json_row)
    /\ at = "done" => held = <<>> /\ IsSeq(out) /\ (key_idx # 0 => KeysShown(out, JsonLast))

LEMMA JsonInitially == ToolInit /\ JsonInit => JsonInv
<1> SUFFICES ASSUME ToolInit, JsonInit, cmd.tool = "json" PROVE JsonInv
  BY DEF JsonInv
<1>1. JsonSource
  BY JsonAssumption DEF ToolInit, JsonSource
<1>2. 0 \in 0..JsonLast
  BY <1>1, JsonSourceFacts
<1> QED BY <1>1, <1>2, IsSeqEmpty DEF JsonInv, ToolInit, JsonInit, JsonComposed, JsonStopped

\* What stays the same as long as the command line and the key do.
LEMMA SameJson ==
  ASSUME cmd' = cmd
  PROVE  /\ JsonLast' = JsonLast /\ JsonRows' = JsonRows /\ JsonSource' = JsonSource
         /\ Geojson' = Geojson /\ LatLon' = LatLon
         /\ \A r, c : Cell(r, c)' = Cell(r, c)
         /\ \A r, k : CoordinateOf(r, k)' = CoordinateOf(r, k)
<1>1. JsonRows' = JsonRows /\ JsonSource' = JsonSource /\ Geojson' = Geojson
  BY DEF JsonRows, JsonSource, Geojson
<1>2. \A r, c : Cell(r, c)' = Cell(r, c)
  BY DEF Cell
<1>3. LatLon' = LatLon
  BY DEF LatLon, NamedColumn
<1>4. JsonLast' = JsonLast
  BY <1>1 DEF JsonLast
<1>5. \A r, k : CoordinateOf(r, k)' = CoordinateOf(r, k)
  BY <1>2, <1>3 DEF CoordinateOf, Cell
<1> QED BY <1>1, <1>2, <1>3, <1>4, <1>5

LEMMA SameKeys ==
  ASSUME cmd' = cmd, key_idx' = key_idx
  PROVE  /\ \A n : KeysDiffer(n)' = KeysDiffer(n)
         /\ \A s, n : KeysShown(s, n)' = KeysShown(s, n)
         /\ dups' = dups /\ nulls' = nulls => \A n : KeysSeen(n)' = KeysSeen(n)
         /\ bbox' = bbox => \A n : Boxed(n)' = Boxed(n)
<1>1. \A n : KeysDiffer(n)' = KeysDiffer(n)
  BY DEF KeysDiffer, Cell
<1>2. \A s, n : KeysShown(s, n)' = KeysShown(s, n)
  BY DEF KeysShown, KeyShown, UserNull, Cell
<1>3. ASSUME dups' = dups, nulls' = nulls, NEW n PROVE KeysSeen(n)' = KeysSeen(n)
  BY <1>3 DEF KeysSeen, KeysDiffer, Cell
<1>4. ASSUME bbox' = bbox, NEW n PROVE Boxed(n)' = Boxed(n)
  BY <1>4 DEF Boxed, BoundsOf, CoordinateOf, Cell, LatLon, NamedColumn
<1> QED BY <1>1, <1>2, <1>3, <1>4

LEMMA KeptForAll ==
  ASSUME cmd' = cmd, key_idx' = key_idx, bbox' = bbox
  PROVE  /\ Boxed(JsonLast) => Boxed(JsonLast)'
         /\ KeysDiffer(JsonLast) => KeysDiffer(JsonLast)'
<1>n. PICK n : n = JsonLast
  OBVIOUS
<1>1. JsonLast' = n
  BY <1>n, SameJson
<1>2. Boxed(n)' = Boxed(n) /\ KeysDiffer(n)' = KeysDiffer(n)
  BY SameKeys
<1>3. Boxed(n)' => Boxed(JsonLast)'
  BY <1>1 DEF Boxed, BoundsOf
<1>4. KeysDiffer(n)' => KeysDiffer(JsonLast)'
  BY <1>1 DEF KeysDiffer
<1> QED BY <1>n, <1>2, <1>3, <1>4

LEMMA KeyCheckedKeeps ==
  ASSUME NEW n \in Nat, KeysSeen(n), n = json_row, CheckKey
  PROVE  KeysSeen(n + 1)'
<1> PICK key : key = Cell(n + 1, key_idx)
  OBVIOUS
<1>1. /\ KeyCell = key /\ cmd' = cmd /\ key_idx' = key_idx
      /\ ~(IF key = Null THEN nulls > 0 ELSE key \in dups)
      /\ dups' = IF key = Null THEN dups ELSE dups \cup {key}
      /\ nulls' = IF key = Null THEN nulls + 1 ELSE nulls
  BY DEF CheckKey, KeyCell, Repeated
<1>2. /\ dups = {Cell(r, key_idx) : r \in 1..n} \ {Null}
      /\ nulls \in Nat /\ (nulls > 0 <=> \E r \in 1..n : Cell(r, key_idx) = Null)
      /\ KeysDiffer(n)
  BY DEF KeysSeen
<1>3. n + 1 \in 1..(n + 1) /\ 1..n \subseteq 1..(n + 1) /\ \A i \in 1..(n + 1) : i \in 1..n \/ i = n + 1
  OBVIOUS
<1>4. \A r \in 1..n : Cell(r, key_idx) # key
  BY <1>1, <1>2
<1>5. KeysDiffer(n + 1)
  BY <1>2, <1>3, <1>4 DEF KeysDiffer
<1>6. dups' = {Cell(r, key_idx) : r \in 1..(n + 1)} \ {Null}
  <2>1. {Cell(r, key_idx) : r \in 1..(n + 1)} = {Cell(r, key_idx) : r \in 1..n} \cup {key}
    BY <1>3
  <2> QED BY <1>1, <1>2, <2>1
<1>7. nulls' \in Nat /\ (nulls' > 0 <=> \E r \in 1..(n + 1) : Cell(r, key_idx) = Null)
  <2>1. CASE key = Null
    BY <1>1, <1>2, <1>3, <2>1
  <2>2. CASE key # Null
    BY <1>1, <1>2, <1>3, <2>2
  <2> QED BY <2>1, <2>2
<1>8. \A r \in 1..(n + 1) : Cell(r, key_idx)' = Cell(r, key_idx)
  BY <1>1 DEF Cell
<1>9. KeysDiffer(n + 1)'
  BY <1>5, <1>8 DEF KeysDiffer
<1>10. dups' = {Cell(r, key_idx)' : r \in 1..(n + 1)} \ {Null}
  BY <1>6, <1>8
<1> QED BY <1>7, <1>8, <1>9, <1>10 DEF KeysSeen

LEMMA BoundKeeps ==
  ASSUME NEW n \in Nat, Boxed(n), n = json_row, Bound
  PROVE  Boxed(n + 1)'
<1>1. /\ cmd' = cmd /\ Numeric(n + 1)
      /\ bbox' = [lat |-> Stretched(bbox.lat, CoordinateOf(n + 1, 1)),
                  lon |-> Stretched(bbox.lon, CoordinateOf(n + 1, 2))]
  BY DEF Bound, Coordinate, CoordinateOf
<1>2. \A k \in {1, 2} : CoordinateOf(n + 1, k) \in Int
  BY <1>1, NumberFacts DEF Numeric, CoordinateOf
<1>3. BoundsOf(bbox'.lat, 1, n + 1) /\ BoundsOf(bbox'.lon, 2, n + 1)
  <2>1. BoundsOf(bbox.lat, 1, n) /\ BoundsOf(bbox.lon, 2, n)
    BY DEF Boxed
  <2>2. CoordinateOf(n + 1, 1) \in Int /\ CoordinateOf(n + 1, 2) \in Int
    BY <1>2
  <2>3. BoundsOf(Stretched(bbox.lat, CoordinateOf(n + 1, 1)), 1, n + 1)
    BY <2>1, <2>2, BoundsStretched
  <2>4. BoundsOf(Stretched(bbox.lon, CoordinateOf(n + 1, 2)), 2, n + 1)
    BY <2>1, <2>2, BoundsStretched
  <2> QED BY <1>1, <2>3, <2>4
<1>4. \A r, k : CoordinateOf(r, k)' = CoordinateOf(r, k)
  BY <1>1, SameJson
<1>b. PICK lat, lon : lat = bbox'.lat /\ lon = bbox'.lon
  OBVIOUS
<1>5. BoundsOf(bbox.lat, 1, n + 1)'
  <2>1. BoundsOf(lat, 1, n + 1)
    BY ONLY <1>3, <1>b
  <2>2. BoundsOf(lat, 1, n + 1)'
    BY ONLY <1>4, <2>1 DEF BoundsOf
  <2> QED BY ONLY <1>b, <2>2
<1>6. BoundsOf(bbox.lon, 2, n + 1)'
  <2>1. BoundsOf(lon, 2, n + 1)
    BY ONLY <1>3, <1>b
  <2>2. BoundsOf(lon, 2, n + 1)'
    BY ONLY <1>4, <2>1 DEF BoundsOf
  <2> QED BY ONLY <1>b, <2>2
<1> QED BY <1>5, <1>6 DEF Boxed

LEMMA KeysShownMore ==
  ASSUME NEW n \in Nat, NEW s, IsSeq(s), KeysShown(s, n), NEW p, NEW r, NEW shows,
         OpensOnly(p, r, shows),
         r = 0 \/ (r = n + 1 /\ shows = KeyShown(Cell(r, key_idx)))
  PROVE  IsSeq(s \o p) /\ KeysShown(s \o p, n + 1)
<1>1. IsSeq(p)
  BY DEF OpensOnly
<1>2. IsSeq(s \o p) /\ FromEither(s \o p, s, p)
  BY <1>1, FromEitherConcat
<1>g. PICK t : t = s \o p
  OBVIOUS
<1>3. FromEither(t, s, p)
  BY <1>2, <1>g
<1>4. n + 1 \in 1..(n + 1) /\ \A i \in 1..n : i \in 1..(n + 1)
  OBVIOUS
<1>5. ASSUME NEW j \in DOMAIN t, t[j].kind = "open"
      PROVE  t[j].row = 0 \/ (t[j].row \in 1..(n + 1) /\ t[j].label = KeyShown(Cell(t[j].row, key_idx)))
  <2>1. ASSUME NEW i \in DOMAIN s, t[j] = s[i]
        PROVE  s[i].row = 0 \/ (s[i].row \in 1..(n + 1) /\ s[i].label = KeyShown(Cell(s[i].row, key_idx)))
    BY <1>4, <1>5, <2>1 DEF KeysShown
  <2>2. ASSUME NEW i \in DOMAIN p, t[j] = p[i]
        PROVE  p[i].row = 0 \/ (p[i].row \in 1..(n + 1) /\ p[i].label = KeyShown(Cell(p[i].row, key_idx)))
    BY <1>4, <1>5, <2>2 DEF OpensOnly
  <2>3. (\E i \in DOMAIN s : t[j] = s[i]) \/ (\E i \in DOMAIN p : t[j] = p[i])
    BY <1>3 DEF FromEither
  <2> QED BY <2>1, <2>2, <2>3
<1>6. KeysShown(t, n + 1)
  BY <1>5 DEF KeysShown
<1> QED BY <1>2, <1>6, <1>g

LEMMA KeysShownEnd ==
  ASSUME NEW n, NEW s, IsSeq(s), KeysShown(s, n), NEW p, OpensOnly(p, 0, "")
  PROVE  KeysShown(s \o p, n)
<1>1. IsSeq(p)
  BY DEF OpensOnly
<1>g. PICK t : t = s \o p
  OBVIOUS
<1>3. FromEither(t, s, p)
  BY <1>1, <1>g, FromEitherConcat
<1>5. ASSUME NEW j \in DOMAIN t, t[j].kind = "open"
      PROVE  t[j].row = 0 \/ (t[j].row \in 1..n /\ t[j].label = KeyShown(Cell(t[j].row, key_idx)))
  <2>1. ASSUME NEW i \in DOMAIN s, t[j] = s[i]
        PROVE  s[i].row = 0 \/ (s[i].row \in 1..n /\ s[i].label = KeyShown(Cell(s[i].row, key_idx)))
    BY <1>5, <2>1 DEF KeysShown
  <2>2. ASSUME NEW i \in DOMAIN p, t[j] = p[i]
        PROVE  p[i].row = 0
    BY <1>5, <2>2 DEF OpensOnly
  <2>3. (\E i \in DOMAIN s : t[j] = s[i]) \/ (\E i \in DOMAIN p : t[j] = p[i])
    BY <1>3 DEF FromEither
  <2> QED BY <2>1, <2>2, <2>3
<1>6. KeysShown(t, n)
  BY <1>5 DEF KeysShown
<1> QED BY <1>6, <1>g

LEMMA KeysAround ==
  ASSUME ~Geojson
  PROVE  OpensOnly(Before, 0, "") /\ OpensOnly(After, 0, "")
BY TokenOpens DEF Before, After

\* The tokens of a row, and what is between it and the next.
RowTokens(r) == (IF Geojson THEN Feature(r) ELSE Object(r)) \o Between(r)

LEMMA RowTokensFacts ==
  ASSUME JsonSource, NEW r
  PROVE  /\ IsSeq(RowTokens(r))
         /\ ~Geojson /\ key_idx # 0 => OpensOnly(RowTokens(r), r, KeyShown(Cell(r, key_idx)))
<1>1. IsSeq(IF Geojson THEN Feature(r) ELSE Object(r)) /\ IsSeq(Between(r))
  BY TokensOfRow
<1>2. IsSeq(RowTokens(r))
  BY <1>1, IsSeqConcat DEF RowTokens
<1>3. ASSUME ~Geojson, key_idx # 0 PROVE OpensOnly(RowTokens(r), r, KeyShown(Cell(r, key_idx)))
  <2> PICK shows : shows = KeyShown(Cell(r, key_idx))
    OBVIOUS
  <2>1. OpensOnly(Object(r), r, shows)
    BY <1>3, ObjectOpens
  <2>2. OpensOnly(Between(r), r, shows)
    BY TokenOpens DEF Between
  <2>3. OpensOnly(Object(r) \o Between(r), r, shows)
    BY <2>1, <2>2, OpensConcat
  <2> QED BY <1>3, <2>3 DEF RowTokens
<1> QED BY <1>2, <1>3

LEMMA ObjectKeeps ==
  ASSUME JsonSource, IsSeq(held), json_row \in 0..JsonLast, JsonObject,
         key_idx # 0 => ~Geojson /\ KeysShown(held, json_row)
  PROVE  /\ IsSeq(held') /\ held' = held \o RowTokens(json_row + 1) /\ out' = out
         /\ json_row' = json_row + 1 /\ json_row' \in 0..JsonLast /\ json_row < JsonLast
         /\ cmd' = cmd /\ at' = at /\ at = "composing" /\ key_idx' = key_idx /\ bbox' = bbox
         /\ key_idx # 0 => KeysShown(held', json_row + 1)
<1>1. /\ json_row' = json_row + 1 /\ json_row < JsonLast /\ at = "composing"
      /\ cmd' = cmd /\ at' = at /\ key_idx' = key_idx /\ bbox' = bbox /\ out' = out
      /\ held' = held \o ((IF Geojson THEN Feature(json_row') ELSE Object(json_row')) \o Between(json_row'))
  BY DEF JsonObject, RowOf, Compose
<1>2. held' = held \o RowTokens(json_row + 1)
  BY <1>1 DEF RowTokens
<1>3. JsonLast \in Nat /\ json_row \in Nat /\ json_row' \in 0..JsonLast
  BY <1>1, JsonSourceFacts
<1>4. IsSeq(RowTokens(json_row + 1))
  BY RowTokensFacts
<1>5. IsSeq(held')
  BY <1>2, <1>4, IsSeqConcat
<1>6. ASSUME key_idx # 0 PROVE KeysShown(held', json_row + 1)
  <2>1. OpensOnly(RowTokens(json_row + 1), json_row + 1, KeyShown(Cell(json_row + 1, key_idx)))
    BY <1>6, RowTokensFacts
  <2>2. KeysShown(held \o RowTokens(json_row + 1), json_row + 1)
    BY <1>3, <1>6, <2>1, KeysShownMore
  <2> QED BY <1>2, <2>2
<1> QED BY <1>1, <1>2, <1>3, <1>5, <1>6

LEMMA JsonStarts ==
  ASSUME JsonStart, JsonSource, json_row = 0, key_idx = 0, bbox = NoBound, dups = {}, nulls = 0
  PROVE  /\ cmd' = cmd /\ json_row' = 0 /\ bbox' = NoBound /\ dups' = {} /\ nulls' = 0
         /\ out' = out /\ held' = held
         /\ \/ at' = "failed" /\ key_idx' = 0
            \/ /\ JsonLast > 0 /\ (key_idx' # 0 => ~Geojson)
               /\ at' = IF key_idx' # 0 THEN "checking"
                        ELSE IF Geojson /\ ~cmd.no_bbox /\ ~cmd.stream THEN "bounding" ELSE "opening"
<1>1. /\ cmd' = cmd /\ json_row' = 0 /\ bbox' = NoBound /\ dups' = {} /\ nulls' = 0
      /\ out' = out /\ held' = held
  BY DEF JsonStart, Quiet, Goto
<1>2. \/ at' = "failed" /\ key_idx' = 0
      \/ /\ JsonRows # {} /\ (key_idx' # 0 => ~Geojson)
         /\ at' = IF key_idx' # 0 THEN "checking"
                  ELSE IF Geojson /\ ~cmd.no_bbox /\ ~cmd.stream THEN "bounding" ELSE "opening"
  BY DEF JsonStart, Goto
<1>3. JsonRows # {} => JsonLast > 0
  BY JsonSourceFacts
<1> QED BY <1>1, <1>2, <1>3

LEMMA JsonStep == JsonInv /\ [JsonNext]_<<toolVars, jsonVars>> => JsonInv'
<1> SUFFICES ASSUME JsonInv, [JsonNext]_<<toolVars, jsonVars>> PROVE JsonInv'
  OBVIOUS
<1>1. cmd' = cmd
  BY DEF toolVars, JsonNext, JsonStart, CheckKey, KeyRefused, KeysChecked, Bound, Boundless, Bounded,
         JsonOpen, JsonObject, JsonNoNumber, JsonClose, PassTo, Goto
<1> SUFFICES ASSUME cmd.tool = "json" PROVE JsonInv'
  BY <1>1 DEF JsonInv
<1>2. /\ JsonSource /\ IsSeq(held) /\ json_row \in 0..JsonLast
      /\ at \in {"start", "checking", "bounding"} \cup JsonStopped \cup JsonComposed
      /\ at = "start" => json_row = 0 /\ key_idx = 0 /\ bbox = NoBound /\ dups = {} /\ nulls = 0
      /\ at \notin {"start"} \cup JsonStopped => JsonLast > 0 /\ (key_idx # 0 => ~Geojson)
      /\ at # "done" => out = <<>>
      /\ at \in {"start", "checking", "bounding", "opening"} => held = <<>>
      /\ at = "checking" => key_idx # 0 /\ KeysSeen(json_row)
      /\ at = "bounding" => key_idx = 0 /\ Boxed(json_row)
      /\ at = "opening" => json_row = 0
      /\ at \in JsonComposed =>
           /\ Geojson /\ ~cmd.no_bbox /\ ~cmd.stream => Boxed(JsonLast)
           /\ key_idx # 0 => KeysDiffer(JsonLast)
      /\ at = "composing" /\ key_idx # 0 => KeysShown(held, json_row)
      /\ at = "done" => held = <<>> /\ IsSeq(out) /\ (key_idx # 0 => KeysShown(out, JsonLast))
  BY DEF JsonInv
<1>3. /\ JsonSource' /\ JsonLast' = JsonLast /\ Geojson' = Geojson
      /\ JsonLast \in Nat /\ json_row \in Nat /\ 0 \in 0..JsonLast
  BY <1>1, <1>2, SameJson, JsonSourceFacts
<1>4. ASSUME at' \in JsonStopped, out' = out, held' = held, json_row' = json_row, at # "done" PROVE JsonInv'
  BY <1>1, <1>2, <1>3, <1>4 DEF JsonInv, JsonStopped, JsonComposed
<1>5. CASE JsonStart
  <2>1. at = "start" /\ out = <<>> /\ held = <<>>
    BY <1>2, <1>5 DEF JsonStart
  <2>2. /\ json_row' = 0 /\ bbox' = NoBound /\ dups' = {} /\ nulls' = 0 /\ out' = out /\ held' = held
        /\ \/ at' = "failed" /\ key_idx' = 0
           \/ /\ JsonLast > 0 /\ (key_idx' # 0 => ~Geojson)
              /\ at' = IF key_idx' # 0 THEN "checking"
                       ELSE IF Geojson /\ ~cmd.no_bbox /\ ~cmd.stream THEN "bounding" ELSE "opening"
    BY <1>2, <1>5, <2>1, JsonStarts
  <2>3. CASE at' = "failed"
    BY <1>2, <1>4, <2>1, <2>2, <2>3 DEF JsonStopped
  <2>4. CASE at' # "failed"
    <3>1. KeysSeen(0)'
      BY <2>2 DEF KeysSeen, KeysDiffer
    <3>2. Boxed(0)'
      BY <2>2 DEF Boxed, BoundsOf, NoBound
    <3>3. /\ JsonLast > 0 /\ (key_idx' # 0 => ~Geojson)
          /\ at' = IF key_idx' # 0 THEN "checking"
                   ELSE IF Geojson /\ ~cmd.no_bbox /\ ~cmd.stream THEN "bounding" ELSE "opening"
      BY <2>2, <2>4
    <3>4. CASE at' = "checking"
      BY <1>1, <1>2, <1>3, <2>1, <2>2, <3>1, <3>3, <3>4 DEF JsonInv, JsonStopped, JsonComposed
    <3>5. CASE at' = "bounding"
      BY <1>1, <1>2, <1>3, <2>1, <2>2, <3>2, <3>3, <3>5 DEF JsonInv, JsonStopped, JsonComposed
    <3>6. CASE at' = "opening"
      <4>1. key_idx' = 0 /\ ~(Geojson /\ ~cmd.no_bbox /\ ~cmd.stream)
        BY <3>3, <3>6
      <4> QED BY <1>1, <1>2, <1>3, <2>1, <2>2, <3>3, <3>6, <4>1 DEF JsonInv, JsonStopped, JsonComposed
    <3> QED BY <3>3, <3>4, <3>5, <3>6
  <2> QED BY <2>3, <2>4
<1>6. CASE CheckKey
  <2>1. /\ at = "checking" /\ json_row < JsonLast /\ json_row' = json_row + 1 /\ at' = at
        /\ key_idx' = key_idx /\ out' = out /\ held' = held
    BY <1>6 DEF CheckKey, RowOf, Quiet
  <2>n. PICK n : n = json_row
    OBVIOUS
  <2>2. KeysSeen(n + 1)'
    BY <1>2, <1>3, <1>6, <2>1, <2>n, KeyCheckedKeeps
  <2>3. KeysSeen(json_row)'
    BY <2>1, <2>2, <2>n DEF KeysSeen, KeysDiffer
  <2>4. json_row' \in 0..JsonLast
    BY <1>3, <2>1
  <2> QED BY <1>1, <1>2, <1>3, <2>1, <2>3, <2>4 DEF JsonInv, JsonStopped, JsonComposed
<1>7. CASE KeyRefused \/ Boundless \/ JsonNoNumber
  BY <1>2, <1>4, <1>7 DEF KeyRefused, Boundless, JsonNoNumber, RowOf, Goto, Quiet, JsonStopped, jsonVars
<1>8. CASE KeysChecked
  <2>1. /\ at = "checking" /\ json_row = JsonLast /\ at' = "opening" /\ json_row' = 0
        /\ key_idx' = key_idx /\ dups' = dups /\ nulls' = nulls /\ bbox' = bbox
        /\ out' = out /\ held' = held
    BY <1>8 DEF KeysChecked, PassTo, Goto, Quiet
  <2>2. KeysDiffer(JsonLast)'
    BY <1>1, <1>2, <2>1, <1>3, SameKeys DEF KeysSeen, KeysDiffer
  <2>3. key_idx' # 0 /\ ~Geojson /\ JsonLast > 0 /\ out' = <<>> /\ held' = <<>>
    BY <1>2, <2>1 DEF JsonStopped
  <2> QED BY <1>1, <1>2, <1>3, <2>1, <2>2, <2>3 DEF JsonInv, JsonStopped, JsonComposed
<1>9. CASE Bound
  <2>1. /\ at = "bounding" /\ json_row < JsonLast /\ json_row' = json_row + 1 /\ at' = at
        /\ key_idx' = key_idx /\ out' = out /\ held' = held
    BY <1>9 DEF Bound, RowOf, Quiet
  <2>n. PICK n : n = json_row
    OBVIOUS
  <2>2. Boxed(n + 1)'
    BY <1>2, <1>3, <1>9, <2>1, <2>n, BoundKeeps
  <2>3. Boxed(json_row)'
    BY <2>1, <2>2, <2>n DEF Boxed, BoundsOf
  <2>4. json_row' \in 0..JsonLast
    BY <1>3, <2>1
  <2> QED BY <1>1, <1>2, <1>3, <2>1, <2>3, <2>4 DEF JsonInv, JsonStopped, JsonComposed
<1>10. CASE Bounded
  <2>1. /\ at = "bounding" /\ json_row = JsonLast /\ at' = "opening" /\ json_row' = 0
        /\ key_idx' = key_idx /\ dups' = dups /\ nulls' = nulls /\ bbox' = bbox
        /\ out' = out /\ held' = held
    BY <1>10 DEF Bounded, PassTo, Goto, Quiet
  <2>2. Boxed(JsonLast)'
    BY <1>1, <1>2, <1>3, <2>1, SameKeys DEF Boxed, BoundsOf
  <2>3. key_idx' = 0 /\ JsonLast > 0 /\ out' = <<>> /\ held' = <<>>
    BY <1>2, <2>1 DEF JsonStopped
  <2> QED BY <1>1, <1>2, <1>3, <2>1, <2>2, <2>3 DEF JsonInv, JsonStopped, JsonComposed
<1>11. CASE UNCHANGED <<toolVars, jsonVars>>
  <2>1. /\ at' = at /\ out' = out /\ held' = held /\ key_idx' = key_idx /\ dups' = dups
        /\ nulls' = nulls /\ json_row' = json_row /\ bbox' = bbox
    BY <1>11 DEF toolVars, jsonVars
  <2>2. /\ KeysSeen(json_row) => KeysSeen(json_row)'
        /\ KeysDiffer(JsonLast) => KeysDiffer(JsonLast)'
        /\ Boxed(json_row) => Boxed(json_row)'
        /\ Boxed(JsonLast) => Boxed(JsonLast)'
        /\ KeysShown(held, json_row) => KeysShown(held, json_row)'
        /\ KeysShown(out, JsonLast) => KeysShown(out, JsonLast)'
    <3>n. PICK n, last, h, o : n = json_row /\ last = JsonLast /\ h = held /\ o = out
      OBVIOUS
    <3>1. /\ KeysSeen(n)' = KeysSeen(n) /\ Boxed(n)' = Boxed(n)
          /\ KeysShown(h, n)' = KeysShown(h, n) /\ KeysShown(o, last)' = KeysShown(o, last)
      BY <1>1, <2>1, SameKeys
    <3>2. KeysSeen(n)' => KeysSeen(json_row)'
      BY <2>1, <3>n DEF KeysSeen, KeysDiffer
    <3>3. Boxed(n)' => Boxed(json_row)'
      BY <2>1, <3>n DEF Boxed, BoundsOf
    <3>4. KeysShown(h, n)' => KeysShown(held, json_row)'
      BY <2>1, <3>n DEF KeysShown
    <3>5. KeysShown(o, last)' => KeysShown(out, JsonLast)'
      BY <1>3, <2>1, <3>n DEF KeysShown
    <3>6. (Boxed(JsonLast) => Boxed(JsonLast)') /\ (KeysDiffer(JsonLast) => KeysDiffer(JsonLast)')
      BY <1>1, <2>1, KeptForAll
    <3> QED BY <3>n, <3>1, <3>2, <3>3, <3>4, <3>5, <3>6
  <2> QED BY <1>1, <1>2, <1>3, <2>1, <2>2 DEF JsonInv
<1>12. CASE JsonOpen
  <2>1. /\ at = "opening" /\ at' = "composing" /\ held' = held \o Before /\ out' = out
        /\ key_idx' = key_idx /\ bbox' = bbox /\ json_row' = json_row
    BY <1>12 DEF JsonOpen, Goto, Compose, jsonVars
  <2>2. held = <<>> /\ out = <<>> /\ json_row = 0 /\ JsonLast > 0 /\ (key_idx # 0 => ~Geojson)
    BY <1>2, <2>1 DEF JsonStopped
  <2>3. held' = Before /\ IsSeq(held')
    BY <2>1, <2>2, TokensAround, ConcatEmpty
  <2>4. key_idx # 0 => KeysShown(Before, 0)
    BY <2>2, KeysAround DEF KeysShown, OpensOnly
  <2>5. key_idx # 0 => KeysShown(held, json_row)'
    <3>1. held' = Before /\ json_row' = 0
      BY <2>1, <2>2, <2>3
    <3>t. PICK t : t = Before
      OBVIOUS
    <3>2. KeysShown(t, 0)' = KeysShown(t, 0)
      BY <1>1, <2>1, SameKeys
    <3>3. KeysShown(t, 0)' => KeysShown(held, json_row)'
      BY <3>1, <3>t DEF KeysShown
    <3> QED BY <2>4, <3>2, <3>3, <3>t
  <2>6. /\ Geojson /\ ~cmd.no_bbox /\ ~cmd.stream => Boxed(JsonLast)'
        /\ key_idx # 0 => KeysDiffer(JsonLast)'
    BY <1>1, <1>2, <2>1, KeptForAll DEF JsonComposed
  <2> QED BY <1>1, <1>2, <1>3, <2>1, <2>2, <2>3, <2>5, <2>6 DEF JsonInv, JsonStopped, JsonComposed
<1>13. CASE JsonObject
  <2>1. /\ IsSeq(held') /\ out' = out /\ json_row' = json_row + 1 /\ json_row' \in 0..JsonLast
        /\ at' = at /\ at = "composing" /\ key_idx' = key_idx /\ bbox' = bbox
        /\ key_idx # 0 => KeysShown(held', json_row + 1)
    <3>1. at = "composing"
      BY <1>13 DEF JsonObject, RowOf
    <3>2. key_idx # 0 => ~Geojson /\ KeysShown(held, json_row)
      BY <1>2, <3>1 DEF JsonStopped
    <3> QED BY <1>2, <1>13, <3>2, ObjectKeeps
  <2>5. key_idx # 0 => KeysShown(held, json_row)'
    <3>t. PICK t, n : t = held' /\ n = json_row + 1
      OBVIOUS
    <3>2. KeysShown(t, n)' = KeysShown(t, n)
      BY <1>1, <2>1, SameKeys
    <3>3. KeysShown(t, n)' => KeysShown(held, json_row)'
      BY <2>1, <3>t DEF KeysShown
    <3> QED BY <2>1, <3>2, <3>3, <3>t
  <2>6. /\ Geojson /\ ~cmd.no_bbox /\ ~cmd.stream => Boxed(JsonLast)'
        /\ key_idx # 0 => KeysDiffer(JsonLast)'
    BY <1>1, <1>2, <2>1, KeptForAll DEF JsonComposed
  <2> QED BY <1>1, <1>2, <1>3, <2>1, <2>5, <2>6 DEF JsonInv, JsonStopped, JsonComposed
<1>14. CASE JsonClose
  <2>1. /\ at = "composing" /\ json_row = JsonLast /\ at' = "done" /\ held' = <<>>
        /\ out' = out \o held \o After /\ key_idx' = key_idx /\ bbox' = bbox /\ json_row' = json_row
    BY <1>14 DEF JsonClose, Goto, jsonVars
  <2>2. out = <<>> /\ JsonLast > 0 /\ (key_idx # 0 => ~Geojson /\ KeysShown(held, JsonLast))
    BY <1>2, <2>1 DEF JsonStopped
  <2>3. out' = held \o After /\ IsSeq(out')
    <3>1. out \o held = held
      BY <1>2, <2>2, ConcatEmpty
    <3>2. IsSeq(held \o After)
      BY <1>2, TokensAround, IsSeqConcat
    <3> QED BY <2>1, <3>1, <3>2
  <2>4. key_idx # 0 => KeysShown(held \o After, JsonLast)
    <3> SUFFICES ASSUME key_idx # 0 PROVE KeysShown(held \o After, JsonLast)
      OBVIOUS
    <3>1. OpensOnly(After, 0, "")
      BY <2>2, KeysAround
    <3> QED BY <1>2, <2>2, <3>1, KeysShownEnd
  <2>5. key_idx # 0 => KeysShown(out, JsonLast)'
    <3>t. PICK t, n : t = held \o After /\ n = JsonLast
      OBVIOUS
    <3>2. KeysShown(t, n)' = KeysShown(t, n)
      BY <1>1, <2>1, SameKeys
    <3>3. KeysShown(t, n)' => KeysShown(out, JsonLast)'
      BY <1>3, <2>3, <3>t DEF KeysShown
    <3> QED BY <2>4, <3>2, <3>3, <3>t
  <2>6. /\ Geojson /\ ~cmd.no_bbox /\ ~cmd.stream => Boxed(JsonLast)'
        /\ key_idx # 0 => KeysDiffer(JsonLast)'
    BY <1>1, <1>2, <2>1, KeptForAll DEF JsonComposed
  <2>7. IsSeq(held') /\ json_row' \in 0..JsonLast
    BY <1>2, <2>1, IsSeqEmpty
  <2>8. JsonLast' > 0 /\ JsonLast' = JsonLast
    BY <1>3, <2>2
  <2> QED BY <1>1, <1>2, <1>3, <2>1, <2>2, <2>3, <2>5, <2>6, <2>7, <2>8 DEF JsonInv, JsonStopped, JsonComposed
<1> QED BY <1>5, <1>6, <1>7, <1>8, <1>9, <1>10, <1>11, <1>12, <1>13, <1>14 DEF JsonNext

LEMMA JsonInvariant == JsonSpec => []JsonInv
<1>1. ToolInit /\ JsonInit => JsonInv
  BY JsonInitially
<1>2. JsonInv /\ [JsonNext]_<<toolVars, jsonVars>> => JsonInv'
  BY JsonStep
<1> QED BY <1>1, <1>2, PTL DEF JsonSpec

\* The box of the collection is the least that holds every place printed, for any number
\* of places: what update_min_max has after the first pass.
THEOREM JsonBoxExact == JsonSpec => []JsonBox
<1>1. JsonInv => JsonBox
  <2> SUFFICES ASSUME JsonInv, cmd.tool = "json", at = "done", Geojson, ~cmd.no_bbox, ~cmd.stream
               PROVE  LET places(k) == {NumberOf[Cell(r, LatLon[k])] : r \in JsonRows}
                      IN  /\ bbox.lat = <<Min(places(1)), Max(places(1))>>
                          /\ bbox.lon = <<Min(places(2)), Max(places(2))>>
    BY DEF JsonBox
  <2>1. JsonSource /\ JsonLast > 0 /\ Boxed(JsonLast)
    BY DEF JsonInv, JsonComposed, JsonStopped
  <2>2. JsonLast \in Nat /\ JsonRows = 1..JsonLast
    BY <2>1, JsonSourceFacts
  <2> DEFINE shown(k) == {CoordinateOf(r, k) : r \in 1..JsonLast}
  <2>3. bbox.lat = <<Min(shown(1)), Max(shown(1))>>
    BY <2>1, <2>2, BoundsExtreme DEF Boxed
  <2>4. bbox.lon = <<Min(shown(2)), Max(shown(2))>>
    BY <2>1, <2>2, BoundsExtreme DEF Boxed
  <2> QED BY <2>2, <2>3, <2>4 DEF CoordinateOf
<1> QED BY <1>1, JsonInvariant, PTL

\* Different keys are shown differently when nothing but a blank is null.
LEMMA KeyShownDiffers ==
  ASSUME cmd.null_values = {}, NEW a \in Texts, NEW b \in Texts, a # b
  PROVE  KeyShown(a) # KeyShown(b)
<1>1. \A text \in Texts : text # "None"
  BY DEF Texts, Null, Words, BooleanWords, Numbers, Deltas, Dates, Datetimes
<1>2. ~UserNull(a) /\ ~UserNull(b)
  BY DEF UserNull
<1> QED BY <1>1, <1>2 DEF KeyShown

LEMMA CellsAreTexts ==
  ASSUME JsonSource, NEW r \in JsonRows, NEW c \in JsonColumns
  PROVE  Cell(r, c) \in Texts
<1>1. cmd.cells # <<>>
  BY DEF JsonRows
<1>2. /\ cmd.names \in Seq(STRING) /\ cmd.cells \in Seq(Seq(Texts))
      /\ c \in DOMAIN cmd.names /\ r \in DOMAIN cmd.cells[1]
      /\ \A k \in DOMAIN cmd.cells : Len(cmd.cells[k]) = Len(cmd.cells[1])
  BY <1>1 DEF JsonSource, JsonRows, JsonColumns
<1>3. cmd.names # <<>>
  BY <1>2
<1>4. Len(cmd.cells) = Len(cmd.names)
  BY <1>1, <1>3 DEF JsonSource
<1>5. c \in DOMAIN cmd.cells /\ 1 \in DOMAIN cmd.cells
  BY <1>1, <1>2, <1>4
<1>6. cmd.cells[c] \in Seq(Texts) /\ cmd.cells[1] \in Seq(Texts) /\ Len(cmd.cells[c]) = Len(cmd.cells[1])
  BY <1>2, <1>5, ElementOfSeq
<1>7. r \in DOMAIN cmd.cells[c]
  BY <1>2, <1>6
<1> QED BY <1>6, <1>7 DEF Cell

LEMMA NamedIsColumn ==
  ASSUME JsonSource, NEW name
  PROVE  NamedColumn(name) \in {0} \cup JsonColumns
<1> DEFINE cs == {c \in DOMAIN cmd.names : cmd.names[c] = name}
<1>1. CASE cs = {}
  BY <1>1 DEF NamedColumn, FirstNamed, NoColumn
<1>2. CASE cs # {}
  <2>1. cs \subseteq Nat
    BY DEF JsonSource
  <2>2. \E c \in cs : \A d \in cs : c <= d
    BY <1>2, <2>1, Least
  <2>3. NamedColumn(name) = CHOOSE c \in cs : \A d \in cs : c <= d
    BY <1>2 DEF NamedColumn, FirstNamed
  <2> HIDE DEF cs
  <2>4. NamedColumn(name) \in cs
    BY <2>2, <2>3
  <2> QED BY <2>4 DEF cs, JsonColumns
<1> QED BY <1>1, <1>2

\* The column of the keys is one of the header's, if there is one.
KeyIsColumn == cmd.tool = "json" => JsonSource /\ key_idx \in {0} \cup JsonColumns

LEMMA KeyColumn == JsonSpec => []KeyIsColumn
<1>1. ToolInit /\ JsonInit => KeyIsColumn
  BY JsonAssumption DEF ToolInit, JsonInit, KeyIsColumn, JsonSource
<1>2. KeyIsColumn /\ [JsonNext]_<<toolVars, jsonVars>> => KeyIsColumn'
  <2> SUFFICES ASSUME KeyIsColumn, [JsonNext]_<<toolVars, jsonVars>>, cmd'.tool = "json"
               PROVE  (JsonSource /\ key_idx \in {0} \cup JsonColumns)'
    BY DEF KeyIsColumn
  <2>1. cmd' = cmd
    BY DEF toolVars, JsonNext, JsonStart, CheckKey, KeyRefused, KeysChecked, Bound, Boundless, Bounded,
           JsonOpen, JsonObject, JsonNoNumber, JsonClose, PassTo, Goto
  <2>2. JsonSource /\ key_idx \in {0} \cup JsonColumns
    BY <2>1 DEF KeyIsColumn
  <2>3. JsonSource' = JsonSource /\ JsonColumns' = JsonColumns
    BY <2>1 DEF JsonSource, JsonColumns
  <2>4. key_idx' \in {0} \cup JsonColumns
    <3>1. CASE JsonStart
      <4>1. NamedColumn(cmd.key) \in {0} \cup JsonColumns
        BY <2>2, NamedIsColumn
      <4> QED BY <2>2, <3>1, <4>1 DEF JsonStart
    <3>2. CASE ~JsonStart
      <4>1. key_idx' = key_idx
        BY <3>2 DEF JsonNext, CheckKey, KeyRefused, KeysChecked, Bound, Boundless, Bounded,
           JsonOpen, JsonObject, JsonNoNumber, JsonClose, jsonVars
      <4> QED BY <2>2, <4>1
    <3> QED BY <3>1, <3>2
  <2> QED BY <2>2, <2>3, <2>4
<1> QED BY <1>1, <1>2, PTL DEF JsonSpec

\* No two keys of the object are alike, for any number of rows: what check_dup_func_impl
\* has seen when it lets the rows through, and what print_key_func then shows.
THEOREM JsonKeysDiffer == JsonSpec => []JsonKeysUnique
<1>1. JsonInv /\ KeyIsColumn => JsonKeysUnique
  <2> SUFFICES ASSUME JsonInv, KeyIsColumn, cmd.tool = "json", at = "done", key_idx # 0,
                      cmd.null_values = {}, NEW q \in JsonRows, NEW r \in JsonRows, q # r,
                      NEW j \in DOMAIN out, NEW k \in DOMAIN out,
                      out[j].kind = "open", out[j].row = q, out[k].kind = "open", out[k].row = r
               PROVE  out[j].label # out[k].label
    BY DEF JsonKeysUnique
  <2>1. JsonSource /\ KeysDiffer(JsonLast) /\ KeysShown(out, JsonLast)
    BY DEF JsonInv, JsonComposed
  <2>2. JsonRows = 1..JsonLast /\ JsonLast \in Nat
    BY <2>1, JsonSourceFacts
  <2>3. q # 0 /\ r # 0
    BY <2>2
  <2>4. out[j].label = KeyShown(Cell(q, key_idx)) /\ out[k].label = KeyShown(Cell(r, key_idx))
    BY <2>1, <2>3 DEF KeysShown
  <2>5. Cell(q, key_idx) # Cell(r, key_idx)
    BY <2>1, <2>2 DEF KeysDiffer
  <2>6. key_idx \in JsonColumns
    BY DEF KeyIsColumn
  <2>7. Cell(q, key_idx) \in Texts /\ Cell(r, key_idx) \in Texts
    BY <2>1, <2>6, CellsAreTexts
  <2> QED BY <2>4, <2>5, <2>7, KeyShownDiffers
<1> QED BY <1>1, JsonInvariant, KeyColumn, PTL

-------------------------------------------------------------------------------
(* csvJson: the shape of what is composed.                                    *)

\* Values and line ends, with nothing left open at a line end or at the end.
Lines(s, first, last) ==
  /\ IsSeq(s) /\ Len(s) > 0 /\ Paired(s)
  /\ s[1].kind \in first /\ s[Len(s)].kind \in last
  /\ Depth(s, Len(s)) = 0
  /\ \A k \in 1..Len(s) : Depth(s, k) >= 0 /\ (s[k].kind = "newline" => Depth(s, k) = 0)

LEMMA PieceIsLines ==
  ASSUME NEW s, NEW first, NEW last, Piece(s, 0, 0, first, last)
  PROVE  Lines(s, first, last)
BY DEF Piece, Lines

LEMMA NewlineIsLines == Lines(Newline, {"newline"}, {"newline"})
<1> PICK s : s = Newline
  OBVIOUS
<1>1. IsSeq(s) /\ Len(s) = 1 /\ s[1].kind = "newline"
  BY SingletonIsSeq DEF Newline, Token
<1>2. Depth(s, 1) = 0
  <2>1. Depth(s, 0 + 1) = Depth(s, 0) + Weight(s[0 + 1].kind) /\ Depth(s, 0) = 0
    BY DepthFacts
  <2>2. Weight("newline") = 0
    BY DEF Weight
  <2> QED BY <1>1, <2>1, <2>2
<1>3. Paired(s) /\ \A k \in 1..Len(s) : k = 1
  BY <1>1 DEF Paired
<1>4. Lines(s, {"newline"}, {"newline"})
  BY <1>1, <1>2, <1>3 DEF Lines
<1> QED BY <1>4

LEMMA LinesConcat ==
  ASSUME NEW a, NEW fa, NEW za, Lines(a, fa, za), NEW b, NEW fb, NEW zb, Lines(b, fb, zb),
         Meet(za, fb)
  PROVE  Lines(a \o b, fa, zb)
<1>1. /\ IsSeq(a) /\ Len(a) > 0 /\ Paired(a) /\ a[1].kind \in fa /\ a[Len(a)].kind \in za
      /\ Depth(a, Len(a)) = 0
      /\ \A k \in 1..Len(a) : Depth(a, k) >= 0 /\ (a[k].kind = "newline" => Depth(a, k) = 0)
  BY DEF Lines
<1>2. /\ IsSeq(b) /\ Len(b) > 0 /\ Paired(b) /\ b[1].kind \in fb /\ b[Len(b)].kind \in zb
      /\ Depth(b, Len(b)) = 0
      /\ \A k \in 1..Len(b) : Depth(b, k) >= 0 /\ (b[k].kind = "newline" => Depth(b, k) = 0)
  BY DEF Lines
<1>t. PICK t : t = a \o b
  OBVIOUS
<1>3. TwoJoined(t, a, b)
  BY <1>1, <1>2, <1>t, TwoJoinedFacts
<1>4. Len(a) \in Nat /\ Len(b) \in Nat
  BY <1>1, <1>2, IsSeqFacts
<1>5. <<a[Len(a)].kind, b[1].kind>> \in Follow
  BY <1>1, <1>2 DEF Meet
<1>6. Paired(t) /\ t[1] = a[1] /\ t[Len(t)] = b[Len(b)] /\ Len(t) > 0
  BY <1>1, <1>2, <1>3, <1>5, PairedConcat
<1>7. /\ \A k \in 0..Len(a) : Depth(t, k) = Depth(a, k)
      /\ \A m \in 0..Len(b) : Depth(t, Len(a) + m) = 0 + Depth(b, m)
  BY <1>1, <1>2, <1>3, DepthConcat
<1>8. /\ IsSeq(t) /\ Len(t) = Len(a) + Len(b)
      /\ \A i \in 1..Len(a) : t[i] = a[i]
      /\ \A i \in 1..Len(b) : t[Len(a) + i] = b[i]
  BY <1>3 DEF TwoJoined
<1>9. Depth(t, Len(t)) = 0
  <2>1. Len(b) \in 0..Len(b)
    BY <1>4
  <2> QED BY <1>2, <1>7, <1>8, <2>1
<1>10. ASSUME NEW k \in 1..Len(t)
       PROVE  Depth(t, k) >= 0 /\ (t[k].kind = "newline" => Depth(t, k) = 0)
  <2>1. CASE k <= Len(a)
    <3>1. k \in 1..Len(a) /\ k \in 0..Len(a) /\ k \in Nat
      BY <1>4, <1>8, <2>1
    <3> QED BY <1>1, <1>7, <1>8, <3>1
  <2>2. CASE ~(k <= Len(a))
    <3>1. PICK m : m = k - Len(a)
      OBVIOUS
    <3>2. m \in 1..Len(b) /\ m \in 0..Len(b) /\ m \in Nat /\ k = Len(a) + m
      BY <1>4, <1>8, <2>2, <3>1
    <3>3. Depth(b, m) >= 0 /\ Depth(b, m) \in Int /\ (b[m].kind = "newline" => Depth(b, m) = 0)
      BY <1>2, <3>2, DepthFacts
    <3>4. Depth(t, k) = 0 + Depth(b, m) /\ t[k] = b[m]
      BY <1>7, <1>8, <3>2
    <3> QED BY <3>3, <3>4
  <2> QED BY <2>1, <2>2
<1>11. Lines(t, fa, zb)
  BY <1>1, <1>2, <1>6, <1>8, <1>9, <1>10 DEF Lines
<1> QED BY <1>11, <1>t

\* A value that is closed by its last token and no earlier one.
Whole(s) ==
  /\ IsSeq(s) /\ Len(s) > 0 /\ Paired(s) /\ Depth(s, Len(s)) = 0
  /\ \A k \in 1..Len(s) : /\ Depth(s, k) >= 0 /\ s[k].kind # "newline"
                          /\ Depth(s, k) = 0 => k = Len(s)

LEMMA ClosedWhole ==
  ASSUME NEW a, NEW first, NEW last, Piece(a, 1, 1, first, last), last \subseteq {"open"} \cup Stops
  PROVE  Whole(a \o Closing)
<1>t. PICK t : t = a \o Closing
  OBVIOUS
<1>1. Piece(t, 0, 0, first, {"close"})
  BY <1>t, Small, ClosingAfter
<1>2. IsSeq(a) /\ \A k \in 1..Len(a) : Depth(a, k) >= 1
  BY DEF Piece
<1>3. IsSeq(Closing) /\ Len(Closing) = 1
  BY SingletonIsSeq DEF Closing
<1>4. TwoJoined(t, a, Closing)
  BY <1>t, <1>2, <1>3, TwoJoinedFacts
<1>5. Len(t) = Len(a) + 1 /\ Len(a) \in Nat /\ \A k \in 0..Len(a) : Depth(t, k) = Depth(a, k)
  <2>1. Len(t) = Len(a) + 1
    BY <1>3, <1>4 DEF TwoJoined
  <2>2. \A k \in 0..Len(a) : Depth(t, k) = Depth(a, k)
    BY <1>2, <1>3, <1>4, DepthConcat
  <2> QED BY <1>2, <2>1, <2>2, IsSeqFacts
<1>6. ASSUME NEW k \in 1..Len(t), Depth(t, k) = 0 PROVE k = Len(t)
  <2> SUFFICES ASSUME k # Len(t) PROVE FALSE
    OBVIOUS
  <2>1. k \in 1..Len(a) /\ k \in 0..Len(a)
    BY <1>5
  <2> QED BY <1>2, <1>5, <1>6, <2>1
<1>7. Whole(t)
  BY <1>1, <1>6 DEF Piece, Whole
<1> QED BY <1>t, <1>7

\* How the tokens of the rows begin, and how those of row r end.
RowFirst == IF cmd.stream /\ Geojson /\ cmd.indent THEN {"newline"} ELSE {"open"}
RowLast(r) ==
  IF cmd.stream /\ Geojson THEN (IF cmd.indent THEN {"close"} ELSE {"newline"})
  ELSE IF r = JsonLast THEN {"close"}
  ELSE IF cmd.stream THEN {"newline"} ELSE {"comma"}

LEMMA RowShape ==
  ASSUME JsonSource, NEW r
  PROVE  /\ cmd.stream => Lines(RowTokens(r), RowFirst, RowLast(r))
         /\ ~cmd.stream => Piece(RowTokens(r), 0, 0, RowFirst, RowLast(r))
<1>n. PICK newline, comma, object, body, last :
        /\ newline = Newline /\ comma = Comma /\ object = Object(r) /\ body = FeatureBody(r)
        /\ last = RowLast(r)
  OBVIOUS
<1>1. Piece(object, 0, 0, {"open"}, {"close"}) /\ Piece(body, 0, 0, {"open"}, {"close"})
  BY <1>n, ObjectPiece, FeaturePiece
<1>2. /\ Lines(object, {"open"}, {"close"}) /\ Lines(body, {"open"}, {"close"})
      /\ Lines(newline, {"newline"}, {"newline"})
  BY <1>1, <1>n, PieceIsLines, NewlineIsLines
<1>3. IsSeq(object) /\ IsSeq(body) /\ IsSeq(newline)
  BY <1>2 DEF Lines
<1>4. Meet({"close"}, {"newline"}) /\ Meet({"newline"}, {"open"})
  BY FollowFacts DEF Meet
<1>f. Feature(r) = (IF cmd.stream /\ cmd.indent THEN newline ELSE <<>>) \o body
  BY <1>n, TokensOfRow
<1>5. ASSUME ~cmd.stream PROVE Piece(RowTokens(r), 0, 0, {"open"}, last)
  <2>1. Feature(r) = body
    BY <1>3, <1>5, <1>f, ConcatEmpty
  <2>p. PICK piece : piece = IF Geojson THEN Feature(r) ELSE Object(r)
    OBVIOUS
  <2>2. Piece(piece, 0, 0, {"open"}, {"close"})
    BY <1>1, <1>n, <2>1, <2>p
  <2>3. CASE r = JsonLast
    <3>1. RowTokens(r) = piece \o <<>> /\ last = {"close"}
      BY <1>5, <1>n, <2>3, <2>p DEF RowTokens, Between, RowLast
    <3>2. piece \o <<>> = piece
      BY <2>2, ConcatEmpty DEF Piece
    <3> QED BY <2>2, <3>1, <3>2
  <2>4. CASE r # JsonLast
    <3>1. RowTokens(r) = piece \o Comma /\ last = {"comma"}
      BY <1>5, <1>n, <2>4, <2>p DEF RowTokens, Between, RowLast
    <3>2. Piece(piece \o Comma, 0, 0, {"open"}, {"comma"})
      BY <2>2, Small, CommaAfter DEF Stops
    <3> QED BY <3>1, <3>2
  <2> QED BY <2>3, <2>4
<1>6. ASSUME cmd.stream, Geojson PROVE Lines(RowTokens(r), RowFirst, last)
  <2>1. CASE cmd.indent
    <3>1. RowTokens(r) = (newline \o body) \o <<>> /\ RowFirst = {"newline"} /\ last = {"close"}
      BY <1>6, <1>n, <1>f, <2>1 DEF RowTokens, Between, RowFirst, RowLast
    <3>2. IsSeq(newline \o body)
      BY <1>3, IsSeqConcat
    <3>3. (newline \o body) \o <<>> = newline \o body
      BY <3>2, ConcatEmpty
    <3>4. Lines(newline \o body, {"newline"}, {"close"})
      BY <1>2, <1>4, LinesConcat
    <3> QED BY <3>1, <3>3, <3>4
  <2>2. CASE ~cmd.indent
    <3>1. /\ RowTokens(r) = (<<>> \o body) \o newline /\ RowFirst = {"open"} /\ last = {"newline"}
      BY <1>6, <1>n, <1>f, <2>2 DEF RowTokens, Between, RowFirst, RowLast
    <3>2. <<>> \o body = body
      BY <1>3, ConcatEmpty
    <3>3. Lines(body \o newline, {"open"}, {"newline"})
      BY <1>2, <1>4, LinesConcat
    <3> QED BY <3>1, <3>2, <3>3
  <2> QED BY <2>1, <2>2
<1>7. ASSUME cmd.stream, ~Geojson PROVE Lines(RowTokens(r), RowFirst, last)
  <2>1. CASE r = JsonLast
    <3>1. RowTokens(r) = object \o <<>> /\ RowFirst = {"open"} /\ last = {"close"}
      BY <1>7, <1>n, <2>1 DEF RowTokens, Between, RowFirst, RowLast
    <3>2. object \o <<>> = object
      BY <1>3, ConcatEmpty
    <3> QED BY <1>2, <3>1, <3>2
  <2>2. CASE r # JsonLast
    <3>1. RowTokens(r) = object \o newline /\ RowFirst = {"open"} /\ last = {"newline"}
      BY <1>7, <1>n, <2>2 DEF RowTokens, Between, RowFirst, RowLast
    <3>2. Lines(object \o newline, {"open"}, {"newline"})
      BY <1>2, <1>4, LinesConcat
    <3> QED BY <3>1, <3>2
  <2> QED BY <2>1, <2>2
<1> QED BY <1>5, <1>6, <1>7, <1>n DEF RowFirst

\* What is composed when n rows are done: lines, or what the rows are enclosed in.
Begun(s, n) ==
  IF cmd.stream
  THEN IF n = 0 THEN s = <<>> ELSE Lines(s, RowFirst, RowLast(n))
  ELSE Piece(s, 1, IF Geojson THEN 2 ELSE 1, {"open"}, IF n = 0 THEN {"open"} ELSE RowLast(n))

LEMMA BegunEmpty == Begun(Before, 0)
<1>1. CASE cmd.stream
  BY <1>1 DEF Before, Begun
<1>2. CASE ~cmd.stream
  BY <1>2, BeforePiece DEF Begun
<1> QED BY <1>1, <1>2

LEMMA BegunMore ==
  ASSUME JsonSource, NEW s, NEW n \in Nat, n < JsonLast, Begun(s, n)
  PROVE  Begun(s \o RowTokens(n + 1), n + 1)
<1>r. PICK row, first, last, next :
        row = RowTokens(n + 1) /\ first = RowFirst /\ last = RowLast(n) /\ next = RowLast(n + 1)
  OBVIOUS
<1>1. JsonLast \in Nat /\ n # JsonLast /\ n + 1 # 0
  BY JsonSourceFacts
<1>2. CASE cmd.stream
  <2>1. Lines(row, first, next)
    BY <1>r, <1>2, RowShape
  <2>2. Lines(s \o row, first, next)
    <3>1. CASE n = 0
      <4>1. s = <<>> /\ IsSeq(row)
        BY <1>2, <2>1, <3>1 DEF Begun, Lines
      <4>2. s \o row = row
        BY <4>1, ConcatEmpty
      <4> QED BY <2>1, <4>2
    <3>2. CASE n # 0
      <4>1. Lines(s, first, last)
        BY <1>r, <1>2, <3>2 DEF Begun
      <4>2. Meet(last, first)
        BY <1>1, <1>2, <1>r, FollowFacts DEF Meet, RowLast, RowFirst
      <4> QED BY <2>1, <4>1, <4>2, LinesConcat
    <3> QED BY <3>1, <3>2
  <2> QED BY <1>r, <1>1, <1>2, <2>2 DEF Begun
<1>3. CASE ~cmd.stream
  <2>d. PICK d : d = IF Geojson THEN 2 ELSE 1
    OBVIOUS
  <2>1. Piece(row, 0, 0, {"open"}, next)
    BY <1>r, <1>3, RowShape DEF RowFirst
  <2>z. PICK z : z = IF n = 0 THEN {"open"} ELSE last
    OBVIOUS
  <2>2. Piece(s, 1, d, {"open"}, z)
    BY <1>r, <1>3, <2>d, <2>z DEF Begun
  <2>3. z = {"open"} \/ z = {"comma"}
    BY <1>r, <1>1, <1>3, <2>z DEF RowLast
  <2>4. Meet(z, {"open"})
    BY <2>3, FollowFacts DEF Meet, Starts
  <2>5. Levels(1, d, 0, 0, 1, d)
    BY <2>d DEF Levels
  <2>6. Piece(s \o row, 1, d, {"open"}, next)
    BY <2>1, <2>2, <2>4, <2>5, PieceConcat
  <2> QED BY <1>r, <1>1, <1>3, <2>d, <2>6 DEF Begun
<1> QED BY <1>2, <1>3

\* What is printed in the end.
Complete(s) == IF cmd.stream THEN \E first, last : Lines(s, first, last) ELSE Whole(s)

LEMMA BegunEnds ==
  ASSUME JsonSource, NEW s, JsonLast > 0, Begun(s, JsonLast)
  PROVE  Complete(s \o After)
<1>r. PICK first, last : first = RowFirst /\ last = RowLast(JsonLast)
  OBVIOUS
<1>1. JsonLast # 0
  BY JsonSourceFacts
<1>2. ASSUME cmd.stream PROVE \E f, z : Lines(s \o After, f, z)
  <2>1. Lines(s, first, last)
    BY <1>r, <1>1, <1>2 DEF Begun
  <2>2. CASE Geojson
    <3>1. After = <<>> /\ s \o <<>> = s
      BY <1>2, <2>1, <2>2, ConcatEmpty DEF After, Lines
    <3> QED BY <2>1, <3>1
  <2>3. CASE ~Geojson
    <3>1. After = Newline /\ last = {"close"}
      BY <1>r, <1>2, <2>3 DEF After, RowLast
    <3>2. Meet({"close"}, {"newline"})
      BY FollowFacts DEF Meet
    <3>n. PICK newline : newline = Newline
      OBVIOUS
    <3>3. Lines(newline, {"newline"}, {"newline"})
      BY <3>n, NewlineIsLines
    <3>4. Lines(s \o newline, first, {"newline"})
      BY <2>1, <3>1, <3>2, <3>3, LinesConcat
    <3> QED BY <3>1, <3>4, <3>n
  <2> QED BY <2>2, <2>3
<1>3. ASSUME ~cmd.stream PROVE Whole(s \o After)
  <2>1. last = {"close"}
    BY <1>r, <1>3 DEF RowLast
  <2>2. CASE ~Geojson
    <3>1. Piece(s, 1, 1, {"open"}, {"close"}) /\ After = Closing
      BY <1>r, <1>1, <1>3, <2>1, <2>2 DEF Begun, After
    <3> QED BY <3>1, ClosedWhole DEF Stops
  <2>3. CASE Geojson
    <3>c. PICK closing, crs : closing = Closing /\ crs = Crs
      OBVIOUS
    <3>1. Piece(s, 1, 2, {"open"}, {"close"})
      BY <1>r, <1>1, <1>3, <2>1, <2>3 DEF Begun
    <3>2. After = closing \o crs \o closing
      BY <1>3, <2>3, <3>c DEF After, Crs
    <3>3. Piece(s \o closing, 1, 1, {"open"}, {"close"})
      BY <3>1, <3>c, Small, ClosingAfter DEF Stops
    <3>4. Piece((s \o closing) \o crs, 1, 1, {"open"}, {"close"})
      <4>1. CASE crs = <<>>
        <5>1. (s \o closing) \o crs = s \o closing
          BY <3>3, <4>1, ConcatEmpty DEF Piece
        <5> QED BY <3>3, <5>1
      <4>2. CASE Piece(crs, 0, 0, {"comma"}, {"close"})
        <5>1. Meet({"close"}, {"comma"})
          BY FollowFacts DEF Meet, Stops
        <5>2. Levels(1, 1, 0, 0, 1, 1)
          BY DEF Levels
        <5> QED BY <3>3, <4>2, <5>1, <5>2, PieceConcat
      <4> QED BY <3>c, <4>1, <4>2, CrsPiece
    <3>5. Whole(((s \o closing) \o crs) \o closing)
      BY <3>4, <3>c, ClosedWhole DEF Stops
    <3>6. s \o (closing \o crs \o closing) = ((s \o closing) \o crs) \o closing
      <4>1. IsSeq(s) /\ IsSeq(closing) /\ IsSeq(crs)
        BY <3>1, <3>c, TokenSeqs, CrsPiece DEF Piece
      <4>2. IsSeq(closing \o crs)
        BY <4>1, IsSeqConcat
      <4>c. PICK c : c = closing \o crs
        OBVIOUS
      <4>a. IsSeq(s)
        BY ONLY <4>1
      <4>b. IsSeq(closing)
        BY ONLY <4>1
      <4>d. IsSeq(crs)
        BY ONLY <4>1
      <4>e. IsSeq(c)
        BY ONLY <4>2, <4>c
      <4>3. (s \o c) \o closing = s \o (c \o closing)
        BY ONLY <4>a, <4>b, <4>e, ConcatMore
      <4>4. (s \o closing) \o crs = s \o (closing \o crs)
        BY ONLY <4>a, <4>b, <4>d, ConcatMore
      <4> QED BY ONLY <4>c, <4>3, <4>4
    <3> QED BY <3>2, <3>5, <3>6
  <2> QED BY <2>2, <2>3
<1> QED BY <1>2, <1>3 DEF Complete

-------------------------------------------------------------------------------
(* csvJson: what is composed is well formed.                                  *)
JsonShape ==
  cmd.tool = "json" =>
    /\ JsonSource
    /\ at = "composing" => Begun(held, json_row)
    /\ at \in JsonStopped => held = <<>> \/ \E n : Begun(held, n)
    /\ at = "done" => Complete(out)

LEMMA SameShape ==
  ASSUME cmd' = cmd
  PROVE  /\ \A s, n : Begun(s, n)' = Begun(s, n)
         /\ \A s : Complete(s)' = Complete(s)
         /\ JsonSource' = JsonSource
<1>1. JsonLast' = JsonLast /\ JsonSource' = JsonSource /\ Geojson' = Geojson
  BY SameJson DEF Geojson, Given
<1>2. RowFirst' = RowFirst /\ \A n : RowLast(n)' = RowLast(n)
  BY <1>1 DEF RowFirst, RowLast
<1>3. \A s, n : Begun(s, n)' = Begun(s, n)
  BY <1>1, <1>2 DEF Begun
<1>4. \A s : Complete(s)' = Complete(s)
  BY DEF Complete
<1> QED BY <1>1, <1>3, <1>4

LEMMA JsonShapeStep ==
  JsonInv /\ JsonShape /\ [JsonNext]_<<toolVars, jsonVars>> => JsonShape'
<1> SUFFICES ASSUME JsonInv, JsonShape, [JsonNext]_<<toolVars, jsonVars>>, cmd'.tool = "json"
             PROVE  (/\ JsonSource
                     /\ at = "composing" => Begun(held, json_row)
                     /\ at \in JsonStopped => held = <<>> \/ \E n : Begun(held, n)
                     /\ at = "done" => Complete(out))'
  BY DEF JsonShape
<1>1. cmd' = cmd
  BY DEF toolVars, JsonNext, JsonStart, CheckKey, KeyRefused, KeysChecked, Bound, Boundless, Bounded,
         JsonOpen, JsonObject, JsonNoNumber, JsonClose, PassTo, Goto
<1>2. /\ JsonSource /\ JsonSource'
      /\ at = "composing" => Begun(held, json_row)
      /\ at \in JsonStopped => held = <<>> \/ \E n : Begun(held, n)
      /\ at = "done" => Complete(out)
  BY <1>1, SameShape DEF JsonShape
<1>3. /\ json_row \in 0..JsonLast /\ IsSeq(held)
      /\ at # "done" => out = <<>>
      /\ at \in {"start", "checking", "bounding", "opening"} => held = <<>>
      /\ at \notin {"start"} \cup JsonStopped => JsonLast > 0
      /\ at = "opening" => json_row = 0
  BY <1>1 DEF JsonInv
<1>n. PICK h, o, n : h = held' /\ o = out' /\ n = json_row'
  OBVIOUS
<1>4. /\ Begun(h, n) => Begun(held, json_row)'
      /\ (\E m : Begun(h, m)) => (\E m : Begun(held, m))'
      /\ Complete(o) => Complete(out)'
  <2>1. Begun(h, n)' => Begun(held, json_row)'
    <3>1. (h = held)' /\ (n = json_row)'
      BY <1>n
    <3> QED BY <3>1 DEF Begun
  <2>2. ASSUME NEW m, Begun(h, m) PROVE (\E i : Begun(held, i))'
    <3>1. Begun(h, m)'
      BY <1>1, <2>2, SameShape
    <3>2. (h = held)'
      BY <1>n
    <3>3. Begun(held, m)'
      BY <3>1, <3>2 DEF Begun
    <3> QED BY <3>3
  <2>3. Complete(o)' => Complete(out)'
    <3>1. (o = out)'
      BY <1>n
    <3> QED BY <3>1 DEF Complete
  <2> QED BY <1>1, <2>1, <2>2, <2>3, SameShape
<1>5. CASE JsonStart \/ CheckKey \/ KeyRefused \/ KeysChecked \/ Bound \/ Boundless \/ Bounded
  <2>1. at \in {"start", "checking", "bounding"} /\ held' = held /\ at' \notin {"composing", "done"}
    BY <1>5 DEF JsonStart, CheckKey, KeyRefused, KeysChecked, Bound, Boundless, Bounded, RowOf, PassTo,
                Goto, Quiet
  <2>2. held' = <<>>
    BY <1>3, <2>1
  <2> QED BY <1>2, <2>1, <2>2
<1>6. CASE JsonOpen
  <2>1. at' = "composing" /\ h = Before /\ n = 0
    <3>1. at = "opening" /\ at' = "composing" /\ held' = held \o Before /\ json_row' = json_row
      BY <1>6 DEF JsonOpen, Goto, Compose, jsonVars
    <3>2. <<>> \o Before = Before
      BY TokensAround, ConcatEmpty
    <3> QED BY <1>3, <1>n, <3>1, <3>2
  <2>2. Begun(h, n)
    BY <2>1, BegunEmpty
  <2> QED BY <1>2, <1>4, <2>1, <2>2 DEF JsonStopped
<1>7. CASE JsonObject
  <2>1. /\ at = "composing" /\ at' = "composing" /\ h = held \o RowTokens(json_row + 1)
        /\ n = json_row + 1 /\ json_row < JsonLast
    BY <1>7, <1>n DEF JsonObject, RowOf, Compose, RowTokens
  <2>2. json_row \in Nat
    BY <1>3
  <2>3. Begun(h, n)
    BY <1>2, <2>1, <2>2, BegunMore
  <2> QED BY <1>2, <1>4, <2>1, <2>3 DEF JsonStopped
<1>8. CASE JsonNoNumber
  <2>1. at = "composing" /\ at' = "failed" /\ h = held
    BY <1>8, <1>n DEF JsonNoNumber, RowOf, Goto, Quiet
  <2>2. \E m : Begun(h, m)
    BY <1>2, <2>1
  <2> QED BY <1>2, <1>4, <2>1, <2>2
<1>9. CASE JsonClose
  <2>1. /\ at = "composing" /\ json_row = JsonLast /\ at' = "done" /\ o = out \o held \o After
    BY <1>9, <1>n DEF JsonClose, Goto
  <2>2. out = <<>> /\ JsonLast > 0
    BY <1>3, <2>1 DEF JsonStopped
  <2>3. o = held \o After
    <3>1. <<>> \o held = held
      BY <1>3, ConcatEmpty
    <3> QED BY <2>1, <2>2, <3>1
  <2>4. Complete(o)
    BY <1>2, <2>1, <2>2, <2>3, BegunEnds
  <2> QED BY <1>2, <1>4, <2>1, <2>4 DEF JsonStopped
<1>10. CASE UNCHANGED <<toolVars, jsonVars>>
  <2>1. at' = at /\ h = held /\ o = out /\ n = json_row
    BY <1>10, <1>n DEF toolVars, jsonVars
  <2>2. held' = <<>> <=> held = <<>>
    BY <1>10 DEF toolVars
  <2> QED BY <1>2, <1>4, <2>1, <2>2
<1> QED BY <1>5, <1>6, <1>7, <1>8, <1>9, <1>10 DEF JsonNext

LEMMA JsonShapeInvariant == JsonSpec => []JsonShape
<1>1. ToolInit /\ JsonInit => JsonShape
  BY JsonAssumption DEF ToolInit, JsonShape, JsonSource, JsonStopped
<1>2. JsonInv /\ JsonShape /\ [JsonNext]_<<toolVars, jsonVars>> => JsonShape'
  BY JsonShapeStep
<1> QED BY <1>1, <1>2, JsonInvariant, PTL DEF JsonSpec

\* What the property says of the tokens, by how deep they are.
WellFormed(s) ==
  /\ IsSeq(s) /\ Paired(s)
  /\ \A k \in 1..Len(s) : /\ Depth(s, k) >= 0
                          /\ s[k].kind = "newline" => Depth(s, k) = 0
                          /\ ~cmd.stream /\ Depth(s, k) = 0 => k = Len(s)

LEMMA BegunWell ==
  ASSUME NEW s, s = <<>> \/ \E n : Begun(s, n)
  PROVE  WellFormed(s)
<1>1. CASE s = <<>>
  BY <1>1, IsSeqEmpty DEF WellFormed, Paired
<1>2. CASE \E n : Begun(s, n) /\ s # <<>>
  <2> PICK n : Begun(s, n) /\ s # <<>>
    BY <1>2
  <2>1. CASE cmd.stream
    <3>1. Lines(s, RowFirst, RowLast(n))
      BY <2>1 DEF Begun
    <3> QED BY <2>1, <3>1 DEF Lines, WellFormed
  <2>2. CASE ~cmd.stream
    <3>1. /\ IsSeq(s) /\ Paired(s)
          /\ \A k \in 1..Len(s) : Depth(s, k) >= 1 /\ s[k].kind # "newline"
      BY <2>2 DEF Begun, Piece
    <3>2. \A k \in 1..Len(s) : Depth(s, k) \in Int
      BY <3>1, DepthFacts
    <3> QED BY <3>1, <3>2 DEF WellFormed
  <2> QED BY <2>1, <2>2
<1> QED BY <1>1, <1>2

LEMMA CompleteWell ==
  ASSUME NEW s, Complete(s)
  PROVE  WellFormed(s) /\ s # <<>> /\ Depth(s, Len(s)) = 0
<1>1. CASE cmd.stream
  <2> PICK first, last : Lines(s, first, last)
    BY <1>1 DEF Complete
  <2> QED BY <1>1, IsSeqEmpty DEF Lines, WellFormed
<1>2. CASE ~cmd.stream
  <2>1. Whole(s)
    BY <1>2 DEF Complete
  <2> QED BY <1>2, <2>1, IsSeqEmpty DEF Whole, WellFormed
<1> QED BY <1>1, <1>2

\* What the printers of json() and geojson() have composed is at every step the beginning
\* of one value, or of a stream of values, for any header, any rows and any options, and
\* the static oss is printed when it is whole or not at all.
THEOREM JsonComposesWell == JsonSpec => []JsonWellFormed
<1>1. JsonInv /\ JsonShape => JsonWellFormed
  <2> SUFFICES ASSUME JsonInv, JsonShape, cmd.tool = "json" PROVE JsonWellFormed
    BY DEF JsonWellFormed
  <2>1. /\ at \in {"start", "checking", "bounding"} \cup JsonStopped \cup JsonComposed
        /\ IsSeq(held)
        /\ at # "done" => out = <<>>
        /\ at \in {"start", "checking", "bounding", "opening"} => held = <<>>
        /\ at = "done" => held = <<>> /\ IsSeq(out)
    BY DEF JsonInv
  <2>2. /\ at = "composing" => Begun(held, json_row)
        /\ at \in JsonStopped => held = <<>> \/ \E n : Begun(held, n)
        /\ at = "done" => Complete(out)
    BY DEF JsonShape
  <2>s. PICK s : s = Output
    OBVIOUS
  <2>3. WellFormed(s)
    <3>1. CASE at = "done"
      <4>1. s = out
        BY <2>1, <2>s, <3>1, ConcatEmpty DEF Output
      <4> QED BY <2>2, <3>1, <4>1, CompleteWell
    <3>2. CASE at # "done"
      <4>1. s = held
        BY <2>1, <2>s, <3>2, ConcatEmpty DEF Output
      <4>2. held = <<>> \/ \E n : Begun(held, n)
        BY <2>1, <2>2, <3>2 DEF JsonComposed
      <4> QED BY <4>1, <4>2, BegunWell
    <3> QED BY <3>1, <3>2
  <2>4. \A k \in Nat : /\ Cardinality(Opens(s, k)) \in Nat /\ Cardinality(Closes(s, k)) \in Nat
                       /\ Opened(k) = Cardinality(Opens(s, k))
                       /\ Closed(k) = Cardinality(Closes(s, k))
    <3>1. \A k : Opened(k) = Cardinality(Opens(s, k)) /\ Closed(k) = Cardinality(Closes(s, k))
      BY <2>s DEF Opened, Closed, Opens, Closes
    <3> QED BY <3>1, DepthFacts
  <2>5. IsSeq(s) /\ DOMAIN s = 1..Len(s) /\ Len(s) \in Nat
    BY <2>3, IsSeqFacts DEF WellFormed
  <2>6. \A k \in 1..Len(s) : /\ Opened(k) >= Closed(k)
                             /\ s[k].kind = "newline" => Opened(k) = Closed(k)
                             /\ ~cmd.stream /\ Opened(k) = Closed(k) => k = Len(s)
    <3> SUFFICES ASSUME NEW k \in 1..Len(s)
                 PROVE  /\ Opened(k) >= Closed(k)
                        /\ s[k].kind = "newline" => Opened(k) = Closed(k)
                        /\ ~cmd.stream /\ Opened(k) = Closed(k) => k = Len(s)
      OBVIOUS
    <3>1. k \in Nat
      BY <2>5
    <3>o. PICK o, c : o = Cardinality(Opens(s, k)) /\ c = Cardinality(Closes(s, k))
      OBVIOUS
    <3>2. Opened(k) = o /\ Closed(k) = c /\ o \in Nat /\ c \in Nat
      BY <2>4, <3>1, <3>o
    <3>3. Depth(s, k) = o - c
      BY <3>o DEF Depth
    <3>4. /\ Depth(s, k) >= 0
          /\ s[k].kind = "newline" => Depth(s, k) = 0
          /\ ~cmd.stream /\ Depth(s, k) = 0 => k = Len(s)
      BY <2>3 DEF WellFormed
    <3>5. o - c >= 0 => o >= c
      BY <3>2
    <3>6. o - c = 0 <=> o = c
      BY <3>2
    <3> QED BY <3>2, <3>3, <3>4, <3>5, <3>6
  <2>7. \A k \in 1..(Len(s) - 1) : <<s[k].kind, s[k + 1].kind>> \in Follow
    BY <2>3 DEF WellFormed, Paired
  <2>8. IF at = "done" THEN out # <<>> /\ Opened(Len(out)) = Closed(Len(out)) ELSE out = <<>>
    <3>1. CASE at = "done"
      <4>1. s = out
        BY <2>1, <2>s, <3>1, ConcatEmpty DEF Output
      <4>2. out # <<>> /\ Depth(s, Len(s)) = 0
        BY <2>2, <3>1, <4>1, CompleteWell
      <4>n. PICK n : n = Len(s)
        OBVIOUS
      <4>3. n \in Nat
        BY <2>5, <4>n
      <4>4. Opened(n) - Closed(n) = 0 /\ Opened(n) \in Nat /\ Closed(n) \in Nat
        BY <2>4, <4>2, <4>3, <4>n DEF Depth
      <4>5. Opened(n) = Closed(n)
        BY <4>4
      <4> QED BY <3>1, <4>1, <4>2, <4>5, <4>n
    <3>2. CASE at # "done"
      BY <2>1, <3>2
    <3> QED BY <3>1, <3>2
  <2> QED BY <2>s, <2>5, <2>6, <2>7, <2>8 DEF JsonWellFormed
<1> QED BY <1>1, JsonInvariant, JsonShapeInvariant, PTL

-------------------------------------------------------------------------------
(* csvJson: the names of the values.                                          *)

\* What a token adds to the names.
LabelOf(t, r) == IF t.kind = "value" /\ t.row = r THEN <<t.label>> ELSE <<>>
LabelSeqs(tokens, r) == [k \in DOMAIN tokens |-> LabelOf(tokens[k], r)]

LEMMA LabelSeqsFacts ==
  ASSUME NEW tokens, IsSeq(tokens), NEW r
  PROVE  /\ Labels(tokens, r) = FlattenSeq(LabelSeqs(tokens, r))
         /\ IsSeq(LabelSeqs(tokens, r)) /\ Len(LabelSeqs(tokens, r)) = Len(tokens)
         /\ DOMAIN LabelSeqs(tokens, r) = DOMAIN tokens
         /\ \A k \in DOMAIN tokens : LabelSeqs(tokens, r)[k] = LabelOf(tokens[k], r)
         /\ \A k \in DOMAIN tokens : IsSeq(LabelSeqs(tokens, r)[k])
         /\ IsSeq(Labels(tokens, r))
<1>s. PICK s : s = LabelSeqs(tokens, r)
  OBVIOUS
<1>1. Labels(tokens, r) = FlattenSeq(s)
  BY <1>s DEF Labels, LabelSeqs, LabelOf
<1>2. DOMAIN tokens = 1..Len(tokens) /\ Len(tokens) \in Nat
  BY IsSeqFacts
<1>3. s = [k \in 1..Len(tokens) |-> s[k]] /\ DOMAIN s = DOMAIN tokens
  BY <1>2, <1>s DEF LabelSeqs
<1>4. IsSeq(s) /\ Len(s) = Len(tokens)
  BY <1>2, <1>3, IsSeqFunction
<1>5. \A k \in DOMAIN tokens : s[k] = LabelOf(tokens[k], r)
  BY <1>s DEF LabelSeqs
<1>6. \A t : IsSeq(LabelOf(t, r))
  BY IsSeqEmpty, SingletonIsSeq DEF LabelOf
<1>7. \A k \in DOMAIN tokens : IsSeq(s[k])
  BY <1>5, <1>6
<1>8. IsSeq(FlattenSeq(s))
  BY <1>3, <1>4, <1>7, FlattenIsSeq
<1> QED BY <1>1, <1>3, <1>4, <1>5, <1>7, <1>8, <1>s

LEMMA LabelsConcat ==
  ASSUME NEW a, IsSeq(a), NEW b, IsSeq(b), NEW r
  PROVE  Labels(a \o b, r) = Labels(a, r) \o Labels(b, r)
<1>t. PICK t : t = a \o b
  OBVIOUS
<1>1. TwoJoined(t, a, b)
  BY <1>t, TwoJoinedFacts
<1>2. IsSeq(t) /\ Len(t) = Len(a) + Len(b)
      /\ (\A i \in 1..Len(a) : t[i] = a[i]) /\ (\A i \in 1..Len(b) : t[Len(a) + i] = b[i])
  BY <1>1 DEF TwoJoined
<1>s. PICK x, y, z : x = LabelSeqs(a, r) /\ y = LabelSeqs(b, r) /\ z = LabelSeqs(t, r)
  OBVIOUS
<1>3. /\ Labels(a, r) = FlattenSeq(x) /\ IsSeq(x) /\ Len(x) = Len(a) /\ DOMAIN x = DOMAIN a
      /\ \A k \in DOMAIN a : x[k] = LabelOf(a[k], r)
      /\ \A k \in DOMAIN a : IsSeq(x[k])
  BY <1>s, LabelSeqsFacts
<1>4. /\ Labels(b, r) = FlattenSeq(y) /\ IsSeq(y) /\ Len(y) = Len(b) /\ DOMAIN y = DOMAIN b
      /\ \A k \in DOMAIN b : y[k] = LabelOf(b[k], r)
      /\ \A k \in DOMAIN b : IsSeq(y[k])
  BY <1>s, LabelSeqsFacts
<1>5. /\ Labels(t, r) = FlattenSeq(z) /\ IsSeq(z) /\ Len(z) = Len(t)
      /\ \A k \in DOMAIN t : z[k] = LabelOf(t[k], r)
  BY <1>2, <1>s, LabelSeqsFacts
<1>6. /\ Len(a) \in Nat /\ Len(b) \in Nat /\ DOMAIN a = 1..Len(a) /\ DOMAIN b = 1..Len(b)
      /\ DOMAIN t = 1..Len(t)
  BY <1>2, IsSeqFacts
<1>7. \A i \in 1..Len(a) : z[i] = x[i]
  <2> TAKE i \in 1..Len(a)
  <2>1. i \in DOMAIN t /\ i \in DOMAIN a
    BY <1>2, <1>6
  <2> QED BY <1>2, <1>3, <1>5, <2>1
<1>8. \A i \in 1..Len(b) : z[Len(a) + i] = y[i]
  <2> TAKE i \in 1..Len(b)
  <2>1. Len(a) + i \in DOMAIN t /\ i \in DOMAIN b
    BY <1>2, <1>6
  <2> QED BY <1>2, <1>4, <1>5, <2>1
<1>9. TwoJoined(z, x, y)
  BY <1>2, <1>3, <1>4, <1>5, <1>7, <1>8 DEF TwoJoined
<1>10. FlattenSeq(z) = FlattenSeq(x) \o FlattenSeq(y)
  BY <1>3, <1>4, <1>9, FlattenConcat
<1> QED BY <1>3, <1>4, <1>5, <1>10, <1>t

LEMMA LabelsOfToken ==
  ASSUME NEW t, NEW r
  PROVE  Labels(<<t>>, r) = LabelOf(t, r)
<1>s. PICK s, x : s = <<t>> /\ x = LabelSeqs(s, r)
  OBVIOUS
<1>1. IsSeq(s) /\ Len(s) = 1 /\ DOMAIN s = {1} /\ s[1] = t
  BY <1>s, SingletonIsSeq
<1>2. Labels(s, r) = FlattenSeq(x) /\ Len(x) = 1 /\ \A k \in DOMAIN s : x[k] = LabelOf(s[k], r)
  BY <1>1, <1>s, LabelSeqsFacts
<1>3. FlattenSeq(x) = x[1]
  BY <1>2, FlattenOne
<1> QED BY <1>1, <1>2, <1>3, <1>s

\* The rows the tokens are of: 0 is what is of no row.
RowsIn(s, S) == IsSeq(s) /\ \A k \in DOMAIN s : s[k].row \in S

LEMMA RowsConcat ==
  ASSUME NEW a, NEW b, NEW S, RowsIn(a, S), RowsIn(b, S)
  PROVE  RowsIn(a \o b, S)
<1>g. PICK t : t = a \o b
  OBVIOUS
<1>1. IsSeq(t) /\ FromEither(t, a, b)
  BY <1>g, FromEitherConcat DEF RowsIn
<1>2. RowsIn(t, S)
  BY <1>1 DEF RowsIn, FromEither
<1> QED BY <1>g, <1>2

LEMMA RowsWider ==
  ASSUME NEW s, NEW S, RowsIn(s, S), NEW T, S \subseteq T
  PROVE  RowsIn(s, T)
BY DEF RowsIn

LEMMA RowsOfFlat ==
  ASSUME NEW ss, IsSeq(ss), NEW S, \A k \in DOMAIN ss : RowsIn(ss[k], S)
  PROVE  RowsIn(FlattenSeq(ss), S)
<1>t. PICK t : t = FlattenSeq(ss)
  OBVIOUS
<1>1. DOMAIN ss = 1..Len(ss) /\ \A k \in DOMAIN ss : IsSeq(ss[k])
  BY IsSeqFacts DEF RowsIn
<1>2. Gathered(t, ss, Len(ss))
  BY <1>1, <1>t, FlattenFacts
<1>3. ASSUME NEW j \in DOMAIN t PROVE t[j].row \in S
  <2>1. PICK i \in 1..Len(ss) : \E k \in DOMAIN ss[i] : t[j] = ss[i][k]
    BY <1>2 DEF Gathered
  <2>2. PICK k \in DOMAIN ss[i] : t[j] = ss[i][k]
    BY <2>1
  <2> QED BY <1>1, <2>2 DEF RowsIn
<1> QED BY <1>2, <1>3, <1>t DEF RowsIn, Gathered

LEMMA TokenRows ==
  /\ RowsIn(<<>>, {0}) /\ RowsIn(Comma, {0}) /\ RowsIn(Newline, {0}) /\ RowsIn(Closing, {0})
  /\ \A r, shows : RowsIn(Opening(r, shows), {r})
  /\ \A r, shows, null : RowsIn(Member(r, shows, null), {r})
<1>1. ASSUME NEW t, NEW S, t.row \in S PROVE RowsIn(<<t>>, S)
  <2> PICK s : s = <<t>>
    OBVIOUS
  <2>1. IsSeq(s) /\ DOMAIN s = {1} /\ s[1] = t
    BY SingletonIsSeq
  <2>2. RowsIn(s, S)
    BY <1>1, <2>1 DEF RowsIn
  <2> QED BY <2>2
<1>2. \A kind, row, shows, null : Token(kind, row, shows, null).row = row
  BY DEF Token
<1>3. RowsIn(<<>>, {0})
  BY IsSeqEmpty DEF RowsIn
<1>4. ASSUME NEW kind, NEW row, NEW shows, NEW null PROVE RowsIn(<<Token(kind, row, shows, null)>>, {row})
  <2>t. PICK t : t = Token(kind, row, shows, null)
    OBVIOUS
  <2>1. t.row \in {row}
    BY <1>2, <2>t
  <2>2. RowsIn(<<t>>, {row})
    BY <1>1, <2>1
  <2> QED BY <2>2, <2>t
<1> QED BY <1>3, <1>4 DEF Comma, Newline, Closing, Opening, Member

\* No value of row r, no name.
LEMMA NoLabels ==
  ASSUME NEW s, NEW S, RowsIn(s, S), NEW r, r \notin S
  PROVE  Labels(s, r) = <<>>
<1>x. PICK x, t : x = LabelSeqs(s, r) /\ t = Labels(s, r)
  OBVIOUS
<1>1. /\ t = FlattenSeq(x) /\ IsSeq(x) /\ Len(x) = Len(s) /\ DOMAIN x = DOMAIN s
      /\ \A k \in DOMAIN s : x[k] = LabelOf(s[k], r)
      /\ \A k \in DOMAIN s : IsSeq(x[k])
      /\ IsSeq(t)
  BY <1>x, LabelSeqsFacts DEF RowsIn
<1>2. \A k \in DOMAIN x : x[k] = <<>>
  BY <1>1 DEF RowsIn, LabelOf
<1>3. Gathered(t, x, Len(x))
  BY <1>1, FlattenFacts
<1>4. DOMAIN x = 1..Len(x)
  BY <1>1, IsSeqFacts
<1>5. DOMAIN t = {}
  <2> SUFFICES ASSUME NEW j \in DOMAIN t PROVE FALSE
    OBVIOUS
  <2>1. PICK i \in 1..Len(x) : \E k \in DOMAIN x[i] : t[j] = x[i][k]
    BY <1>3 DEF Gathered
  <2>2. x[i] = <<>>
    BY <1>2, <1>4
  <2>3. DOMAIN x[i] = {}
    BY <2>2, IsSeqEmpty, IsSeqFacts
  <2> QED BY <2>1, <2>3
<1>6. Len(t) = 0
  <2>1. Len(t) \in Nat /\ DOMAIN t = 1..Len(t)
    BY <1>1, IsSeqFacts
  <2> QED BY <1>5, <2>1
<1>7. t = <<>>
  BY <1>1, <1>6, IsSeqEmpty, IsSeqSame
<1> QED BY <1>7, <1>x

LEMMA LabelsOfTokens ==
  ASSUME NEW r
  PROVE  /\ \A q, shows : Labels(Opening(q, shows), r) = <<>>
         /\ \A shows, null : Labels(Member(r, shows, null), r) = <<shows>>
         /\ Labels(Comma, r) = <<>> /\ Labels(Closing, r) = <<>> /\ Labels(Newline, r) = <<>>
         /\ Labels(<<>>, r) = <<>>
<1>1. ASSUME NEW kind, kind # "value", NEW row, NEW shows, NEW null
      PROVE  Labels(<<Token(kind, row, shows, null)>>, r) = <<>>
  <2>t. PICK t : t = Token(kind, row, shows, null)
    OBVIOUS
  <2>1. t.kind # "value"
    BY <1>1, <2>t DEF Token
  <2>2. Labels(<<t>>, r) = <<>>
    BY <2>1, LabelsOfToken DEF LabelOf
  <2> QED BY <2>2, <2>t
<1>2. ASSUME NEW shows, NEW null PROVE Labels(<<Token("value", r, shows, null)>>, r) = <<shows>>
  <2>t. PICK t : t = Token("value", r, shows, null)
    OBVIOUS
  <2>1. t.kind = "value" /\ t.row = r /\ t.label = shows
    BY <2>t DEF Token
  <2>2. Labels(<<t>>, r) = <<shows>>
    BY <2>1, LabelsOfToken DEF LabelOf
  <2> QED BY <2>2, <2>t
<1>3. Labels(<<>>, r) = <<>>
  <2>1. \A k \in DOMAIN <<>> : FALSE
    BY IsSeqEmpty, IsSeqFacts
  <2>2. RowsIn(<<>>, {})
    BY <2>1, IsSeqEmpty DEF RowsIn
  <2> QED BY <2>2, NoLabels
<1>4. /\ \A q, shows : Labels(Opening(q, shows), r) = <<>>
      /\ Labels(Comma, r) = <<>> /\ Labels(Closing, r) = <<>> /\ Labels(Newline, r) = <<>>
  BY <1>1 DEF Opening, Comma, Closing, Newline
<1>5. \A shows, null : Labels(Member(r, shows, null), r) = <<shows>>
  BY <1>2 DEF Member
<1> QED BY <1>3, <1>4, <1>5

\* What has no names beside what has.
LEMMA LabelsBeside ==
  ASSUME NEW a, IsSeq(a), NEW b, IsSeq(b), NEW r
  PROVE  /\ IsSeq(a \o b) /\ IsSeq(Labels(a, r))
         /\ Labels(b, r) = <<>> => Labels(a \o b, r) = Labels(a, r)
         /\ Labels(a, r) = <<>> => Labels(a \o b, r) = Labels(b, r)
<1>l. PICK x, y : x = Labels(a, r) /\ y = Labels(b, r)
  OBVIOUS
<1>1. IsSeq(x) /\ IsSeq(y)
  BY <1>l, LabelSeqsFacts
<1>2. Labels(a \o b, r) = x \o y
  <2>1. Labels(a \o b, r) = Labels(a, r) \o Labels(b, r)
    BY LabelsConcat
  <2> QED BY <1>l, <2>1
<1>3. x \o <<>> = x /\ <<>> \o y = y
  BY <1>1, ConcatEmpty
<1>4. IsSeq(a \o b)
  BY IsSeqConcat
<1> QED BY <1>l, <1>1, <1>2, <1>3, <1>4

LEMMA LabelsFlatten ==
  ASSUME NEW ss, IsSeq(ss), \A k \in DOMAIN ss : IsSeq(ss[k]), NEW r,
         NEW ls, IsSeq(ls), Len(ls) = Len(ss), \A k \in DOMAIN ss : ls[k] = Labels(ss[k], r)
  PROVE  Labels(FlattenSeq(ss), r) = FlattenSeq(ls)
<1>1. Len(ss) \in Nat /\ DOMAIN ss = 1..Len(ss) /\ DOMAIN ls = 1..Len(ss)
  BY IsSeqFacts
<1>2. \A k \in DOMAIN ls : IsSeq(ls[k])
  BY <1>1, LabelSeqsFacts
<1> DEFINE First(s, n) == FlattenSeq(SubSeq(s, 1, n))
<1>3. \A n \in 0..Len(ss) : /\ IsSeq(First(ss, n))
                            /\ n = 0 => First(ss, n) = <<>>
                            /\ n < Len(ss) => First(ss, n + 1) = First(ss, n) \o ss[n + 1]
  BY FlattenFirst
<1>4. \A n \in 0..Len(ss) : /\ IsSeq(First(ls, n))
                            /\ n = 0 => First(ls, n) = <<>>
                            /\ n < Len(ss) => First(ls, n + 1) = First(ls, n) \o ls[n + 1]
  BY <1>1, <1>2, FlattenFirst
<1>5. First(ss, Len(ss)) = FlattenSeq(ss) /\ First(ls, Len(ss)) = FlattenSeq(ls)
  BY WholeIsSubSeq
<1> HIDE DEF First
<1> DEFINE S == {n \in Nat : n <= Len(ss) => Labels(First(ss, n), r) = First(ls, n)}
<1>6. 0 \in S
  <2>1. First(ss, 0) = <<>> /\ First(ls, 0) = <<>>
    BY <1>1, <1>3, <1>4
  <2> QED BY <2>1, LabelsOfTokens
<1>7. ASSUME NEW n \in Nat, n \in S PROVE n + 1 \in S
  <2> SUFFICES ASSUME n + 1 <= Len(ss) PROVE Labels(First(ss, n + 1), r) = First(ls, n + 1)
    OBVIOUS
  <2>1. n \in 0..Len(ss) /\ n < Len(ss) /\ n <= Len(ss) /\ n + 1 \in DOMAIN ss
    BY <1>1
  <2>2. First(ss, n + 1) = First(ss, n) \o ss[n + 1] /\ IsSeq(First(ss, n)) /\ IsSeq(ss[n + 1])
    BY <1>3, <2>1
  <2>3. First(ls, n + 1) = First(ls, n) \o ls[n + 1] /\ ls[n + 1] = Labels(ss[n + 1], r)
    BY <1>4, <2>1
  <2>4. Labels(First(ss, n), r) = First(ls, n)
    BY <1>7, <2>1
  <2>p. PICK x, y : x = First(ss, n) /\ y = ss[n + 1]
    OBVIOUS
  <2>5. Labels(x \o y, r) = Labels(x, r) \o Labels(y, r)
    <3>1. IsSeq(x) /\ IsSeq(y)
      BY <2>2, <2>p
    <3> QED BY <3>1, LabelsConcat
  <2> QED BY <2>2, <2>3, <2>4, <2>5, <2>p
<1> HIDE DEF S
<1>8. Len(ss) \in S
  BY <1>1, <1>6, <1>7, Induction
<1> QED BY <1>1, <1>5, <1>8 DEF S

\* The names of members joined.
LEMMA LabelsJoined ==
  ASSUME NEW members, IsSeq(members), \A k \in DOMAIN members : IsSeq(members[k]), NEW r,
         NEW ls, IsSeq(ls), Len(ls) = Len(members),
         \A k \in DOMAIN members : ls[k] = Labels(members[k], r)
  PROVE  IsSeq(Joined(members)) /\ Labels(Joined(members), r) = FlattenSeq(ls)
<1>s. PICK s : s = Separated(members)
  OBVIOUS
<1>1. /\ IsSeq(s) /\ Len(s) = Len(members) /\ DOMAIN s = DOMAIN members
      /\ \A k \in DOMAIN members : IsSeq(s[k])
      /\ Joined(members) = FlattenSeq(s)
  BY <1>s, SeparatedFacts
<1>2. ASSUME NEW k \in DOMAIN members PROVE ls[k] = Labels(s[k], r)
  <2>p. PICK p, m : p = (IF k = 1 THEN <<>> ELSE Comma) /\ m = members[k]
    OBVIOUS
  <2>1. s[k] = p \o m
    BY <1>s, <2>p DEF Separated
  <2>2. IsSeq(p) /\ IsSeq(m) /\ Labels(p, r) = <<>>
    BY <2>p, TokenSeqs, LabelsOfTokens
  <2>3. Labels(p \o m, r) = Labels(m, r)
    BY <2>2, LabelsBeside
  <2> QED BY <2>1, <2>3, <2>p
<1>3. Labels(FlattenSeq(s), r) = FlattenSeq(ls)
  BY <1>1, <1>2, LabelsFlatten
<1>4. IsSeq(FlattenSeq(s))
  BY <1>1, FlattenIsSeq
<1> QED BY <1>1, <1>3, <1>4

\* The names of columns, one after the other.
NamedSeqs(columns) == [k \in DOMAIN columns |-> <<cmd.names[columns[k]]>>]
Named(columns) == FlattenSeq(NamedSeqs(columns))

LEMMA NamedFacts ==
  ASSUME NEW s, IsSeq(s)
  PROVE  /\ IsSeq(NamedSeqs(s)) /\ Len(NamedSeqs(s)) = Len(s) /\ DOMAIN NamedSeqs(s) = DOMAIN s
         /\ \A k \in DOMAIN s : NamedSeqs(s)[k] = <<cmd.names[s[k]]>>
         /\ \A k \in DOMAIN s : IsSeq(NamedSeqs(s)[k])
         /\ IsSeq(Named(s))
<1>x. PICK x : x = NamedSeqs(s)
  OBVIOUS
<1>1. DOMAIN s = 1..Len(s) /\ Len(s) \in Nat
  BY IsSeqFacts
<1>2. x = [k \in 1..Len(s) |-> x[k]] /\ DOMAIN x = DOMAIN s
  BY <1>1, <1>x DEF NamedSeqs
<1>3. IsSeq(x) /\ Len(x) = Len(s)
  BY <1>1, <1>2, IsSeqFunction
<1>4. \A k \in DOMAIN s : x[k] = <<cmd.names[s[k]]>>
  BY <1>x DEF NamedSeqs
<1>5. \A k \in DOMAIN s : IsSeq(x[k])
  BY <1>4, SingletonIsSeq
<1>6. IsSeq(FlattenSeq(x))
  BY <1>2, <1>3, <1>5, FlattenIsSeq
<1> QED BY <1>2, <1>3, <1>4, <1>5, <1>6, <1>x DEF Named

LEMMA NamedConcat ==
  ASSUME NEW a, IsSeq(a), NEW b, IsSeq(b)
  PROVE  Named(a \o b) = Named(a) \o Named(b)
<1>t. PICK t : t = a \o b
  OBVIOUS
<1>1. IsSeq(t) /\ Len(t) = Len(a) + Len(b)
      /\ (\A i \in 1..Len(a) : t[i] = a[i]) /\ (\A i \in 1..Len(b) : t[Len(a) + i] = b[i])
  BY <1>t, IsSeqConcat
<1>s. PICK x, y, z : x = NamedSeqs(a) /\ y = NamedSeqs(b) /\ z = NamedSeqs(t)
  OBVIOUS
<1>2. /\ IsSeq(x) /\ Len(x) = Len(a) /\ DOMAIN x = DOMAIN a
      /\ \A k \in DOMAIN a : x[k] = <<cmd.names[a[k]]>>
      /\ \A k \in DOMAIN a : IsSeq(x[k])
  BY <1>s, NamedFacts
<1>3. /\ IsSeq(y) /\ Len(y) = Len(b) /\ DOMAIN y = DOMAIN b
      /\ \A k \in DOMAIN b : y[k] = <<cmd.names[b[k]]>>
      /\ \A k \in DOMAIN b : IsSeq(y[k])
  BY <1>s, NamedFacts
<1>4. /\ IsSeq(z) /\ Len(z) = Len(t)
      /\ \A k \in DOMAIN t : z[k] = <<cmd.names[t[k]]>>
  BY <1>1, <1>s, NamedFacts
<1>5. /\ Len(a) \in Nat /\ Len(b) \in Nat /\ DOMAIN a = 1..Len(a) /\ DOMAIN b = 1..Len(b)
      /\ DOMAIN t = 1..Len(t)
  BY <1>1, IsSeqFacts
<1>6. \A i \in 1..Len(a) : z[i] = x[i]
  <2> TAKE i \in 1..Len(a)
  <2>1. i \in DOMAIN t /\ i \in DOMAIN a
    BY <1>1, <1>5
  <2> QED BY <1>1, <1>2, <1>4, <2>1
<1>7. \A i \in 1..Len(b) : z[Len(a) + i] = y[i]
  <2> TAKE i \in 1..Len(b)
  <2>1. Len(a) + i \in DOMAIN t /\ i \in DOMAIN b
    BY <1>1, <1>5
  <2> QED BY <1>1, <1>3, <1>4, <2>1
<1>8. TwoJoined(z, x, y)
  BY <1>1, <1>2, <1>3, <1>4, <1>6, <1>7 DEF TwoJoined
<1>9. FlattenSeq(z) = FlattenSeq(x) \o FlattenSeq(y)
  BY <1>2, <1>3, <1>8, FlattenConcat
<1> QED BY <1>9, <1>s, <1>t DEF Named

LEMMA NamedFew ==
  /\ Named(<<>>) = <<>>
  /\ \A c : Named(<<c>>) = <<cmd.names[c]>>
<1>1. Named(<<>>) = <<>>
  <2>x. PICK x : x = NamedSeqs(<<>>)
    OBVIOUS
  <2>1. IsSeq(x) /\ Len(x) = 0
    BY <2>x, IsSeqEmpty, NamedFacts
  <2>2. x = <<>>
    BY <2>1, IsSeqEmpty, IsSeqSame
  <2>3. FlattenSeq(<<>>) = <<>>
    BY IsSeqEmpty DEF FlattenSeq
  <2> QED BY <2>2, <2>3, <2>x DEF Named
<1>2. ASSUME NEW c PROVE Named(<<c>>) = <<cmd.names[c]>>
  <2>s. PICK s, x : s = <<c>> /\ x = NamedSeqs(s)
    OBVIOUS
  <2>1. IsSeq(s) /\ Len(s) = 1 /\ DOMAIN s = {1} /\ s[1] = c
    BY <2>s, SingletonIsSeq
  <2>2. Len(x) = 1 /\ \A k \in DOMAIN s : x[k] = <<cmd.names[s[k]]>>
    BY <2>1, <2>s, NamedFacts
  <2>3. FlattenSeq(x) = x[1]
    BY <2>2, FlattenOne
  <2>4. x[1] = <<cmd.names[c]>>
    BY <2>1, <2>2
  <2> QED BY <2>3, <2>4, <2>s DEF Named
<1> QED BY <1>1, <1>2

LEMMA NamedFlatten ==
  ASSUME NEW ss, IsSeq(ss), \A k \in DOMAIN ss : IsSeq(ss[k]),
         NEW ls, IsSeq(ls), Len(ls) = Len(ss), \A k \in DOMAIN ss : ls[k] = Named(ss[k])
  PROVE  Named(FlattenSeq(ss)) = FlattenSeq(ls)
<1>1. Len(ss) \in Nat /\ DOMAIN ss = 1..Len(ss) /\ DOMAIN ls = 1..Len(ss)
  BY IsSeqFacts
<1>2. \A k \in DOMAIN ls : IsSeq(ls[k])
  BY <1>1, NamedFacts
<1> DEFINE First(s, n) == FlattenSeq(SubSeq(s, 1, n))
<1>3. \A n \in 0..Len(ss) : /\ IsSeq(First(ss, n))
                            /\ n = 0 => First(ss, n) = <<>>
                            /\ n < Len(ss) => First(ss, n + 1) = First(ss, n) \o ss[n + 1]
  BY FlattenFirst
<1>4. \A n \in 0..Len(ss) : /\ IsSeq(First(ls, n))
                            /\ n = 0 => First(ls, n) = <<>>
                            /\ n < Len(ss) => First(ls, n + 1) = First(ls, n) \o ls[n + 1]
  BY <1>1, <1>2, FlattenFirst
<1>5. First(ss, Len(ss)) = FlattenSeq(ss) /\ First(ls, Len(ss)) = FlattenSeq(ls)
  BY WholeIsSubSeq
<1> HIDE DEF First
<1> DEFINE S == {n \in Nat : n <= Len(ss) => Named(First(ss, n)) = First(ls, n)}
<1>6. 0 \in S
  <2>1. First(ss, 0) = <<>> /\ First(ls, 0) = <<>>
    BY <1>1, <1>3, <1>4
  <2> QED BY <2>1, NamedFew
<1>7. ASSUME NEW n \in Nat, n \in S PROVE n + 1 \in S
  <2> SUFFICES ASSUME n + 1 <= Len(ss) PROVE Named(First(ss, n + 1)) = First(ls, n + 1)
    OBVIOUS
  <2>1. n \in 0..Len(ss) /\ n < Len(ss) /\ n <= Len(ss) /\ n + 1 \in DOMAIN ss
    BY <1>1
  <2>2. First(ss, n + 1) = First(ss, n) \o ss[n + 1] /\ IsSeq(First(ss, n)) /\ IsSeq(ss[n + 1])
    BY <1>3, <2>1
  <2>3. First(ls, n + 1) = First(ls, n) \o ls[n + 1] /\ ls[n + 1] = Named(ss[n + 1])
    BY <1>4, <2>1
  <2>4. Named(First(ss, n)) = First(ls, n)
    BY <1>7, <2>1
  <2>p. PICK x, y : x = First(ss, n) /\ y = ss[n + 1]
    OBVIOUS
  <2>5. Named(x \o y) = Named(x) \o Named(y)
    <3>1. IsSeq(x) /\ IsSeq(y)
      BY <2>2, <2>p
    <3> QED BY <3>1, NamedConcat
  <2> QED BY <2>2, <2>3, <2>4, <2>5, <2>p
<1> HIDE DEF S
<1>8. Len(ss) \in S
  BY <1>1, <1>6, <1>7, Induction
<1> QED BY <1>1, <1>5, <1>8 DEF S

\* The columns the object of a row is to show.
ColumnNames(r) ==
  FlattenSeq([c \in JsonColumns |->
    IF Geojson /\ (Special(c) \/ Cell(r, c) = Null) THEN <<>> ELSE <<cmd.names[c]>>])

LEMMA LabelsOfColumns ==
  ASSUME JsonSource, NEW r, NEW columns, IsSeq(columns)
  PROVE  LET joined == Joined([k \in DOMAIN columns |-> MemberOf(r, columns[k])])
         IN  IsSeq(joined) /\ Labels(joined, r) = Named(columns)
<1>m. PICK members, ls, joined :
        /\ members = [k \in DOMAIN columns |-> MemberOf(r, columns[k])]
        /\ ls = NamedSeqs(columns) /\ joined = Joined(members)
  OBVIOUS
<1>1. DOMAIN columns = 1..Len(columns) /\ Len(columns) \in Nat
  BY IsSeqFacts
<1>2. IsSeq(members) /\ Len(members) = Len(columns) /\ DOMAIN members = DOMAIN columns
  <2>1. members = [k \in 1..Len(columns) |-> members[k]]
    BY <1>1, <1>m
  <2> QED BY <1>1, <1>m, <2>1, IsSeqFunction
<1>3. /\ IsSeq(ls) /\ Len(ls) = Len(columns)
      /\ \A k \in DOMAIN columns : ls[k] = <<cmd.names[columns[k]]>>
  BY <1>m, NamedFacts
<1>4. \A k \in DOMAIN members : members[k] = MemberOf(r, columns[k])
  BY <1>m
<1>5. ASSUME NEW c PROVE IsSeq(MemberOf(r, c)) /\ Labels(MemberOf(r, c), r) = <<cmd.names[c]>>
  <2>1. IsSeq(MemberOf(r, c))
    BY SingletonIsSeq DEF MemberOf, Member
  <2>2. Labels(MemberOf(r, c), r) = <<cmd.names[c]>>
    BY LabelsOfTokens DEF MemberOf
  <2> QED BY <2>1, <2>2
<1>6. \A k \in DOMAIN members : IsSeq(members[k]) /\ ls[k] = Labels(members[k], r)
  BY <1>2, <1>3, <1>4, <1>5
<1>7. IsSeq(joined) /\ Labels(joined, r) = FlattenSeq(ls)
  <2>1. IsSeq(members) /\ IsSeq(ls) /\ Len(ls) = Len(members)
    BY ONLY <1>2, <1>3
  <2>2. IsSeq(Joined(members)) /\ Labels(Joined(members), r) = FlattenSeq(ls)
    BY ONLY <1>6, <2>1, LabelsJoined
  <2>3. joined = Joined(members)
    BY ONLY <1>m
  <2> QED BY ONLY <2>2, <2>3
<1> QED BY <1>7, <1>m DEF Named

LEMMA ObjectLabels ==
  ASSUME JsonSource, ~Geojson, NEW r
  PROVE  Labels(Object(r), r) = ColumnNames(r)
<1>c. PICK cs : cs = [c \in JsonColumns |-> c]
  OBVIOUS
<1>1. IsSeq(cs) /\ DOMAIN cs = JsonColumns /\ \A c \in JsonColumns : cs[c] = c
  BY <1>c, ColumnsAreSeqs
<1>2. [c \in JsonColumns |-> MemberOf(r, c)] = [k \in DOMAIN cs |-> MemberOf(r, cs[k])]
  BY <1>1
<1>j. PICK joined : joined = Joined([k \in DOMAIN cs |-> MemberOf(r, cs[k])])
  OBVIOUS
<1>3. IsSeq(joined) /\ Labels(joined, r) = Named(cs)
  BY <1>1, <1>j, LabelsOfColumns
<1>4. Named(cs) = ColumnNames(r)
  <2>1. NamedSeqs(cs) = [c \in JsonColumns |-> <<cmd.names[c]>>]
    BY <1>1 DEF NamedSeqs
  <2>2. [c \in JsonColumns |->
           IF Geojson /\ (Special(c) \/ Cell(r, c) = Null) THEN <<>> ELSE <<cmd.names[c]>>]
          = [c \in JsonColumns |-> <<cmd.names[c]>>]
    OBVIOUS
  <2> QED BY <2>1, <2>2 DEF Named, ColumnNames
<1>l. PICK opening : opening = Opening(r, IF key_idx = 0 THEN "" ELSE KeyShown(Cell(r, key_idx)))
  OBVIOUS
<1>5. IsSeq(opening) /\ Labels(opening, r) = <<>> /\ IsSeq(Closing) /\ Labels(Closing, r) = <<>>
  BY <1>l, LabelsOfTokens, TokenSeqs, SingletonIsSeq DEF Opening
<1>6. Labels(opening \o joined, r) = Labels(joined, r) /\ IsSeq(opening \o joined)
  BY <1>3, <1>5, LabelsBeside
<1>7. Labels((opening \o joined) \o Closing, r) = Labels(opening \o joined, r)
  BY <1>5, <1>6, LabelsBeside
<1>8. Object(r) = opening \o joined \o Closing
  BY <1>2, <1>j, <1>l DEF Object
<1> QED BY <1>3, <1>4, <1>6, <1>7, <1>8

LEMMA PropertiesLabels ==
  ASSUME JsonSource, Geojson, NEW r
  PROVE  IsSeq(Properties(r)) /\ Labels(Properties(r), r) = ColumnNames(r)
<1>c. PICK columns, kept, shown :
        /\ columns = PropertyColumns(r)
        /\ kept = [c \in JsonColumns |-> IF Special(c) \/ Cell(r, c) = Null THEN <<>> ELSE <<c>>]
        /\ shown = [c \in JsonColumns |->
                      IF Special(c) \/ Cell(r, c) = Null THEN <<>> ELSE <<cmd.names[c]>>]
  OBVIOUS
<1>1. Len(cmd.names) \in Nat /\ JsonColumns = 1..Len(cmd.names)
  BY JsonSourceFacts
<1>2. /\ IsSeq(kept) /\ Len(kept) = Len(cmd.names) /\ DOMAIN kept = JsonColumns
      /\ IsSeq(shown) /\ Len(shown) = Len(cmd.names)
  <2>1. kept = [c \in 1..Len(cmd.names) |-> kept[c]] /\ DOMAIN kept = JsonColumns
    BY <1>1, <1>c
  <2>2. shown = [c \in 1..Len(cmd.names) |-> shown[c]]
    BY <1>1, <1>c
  <2> QED BY <1>1, <2>1, <2>2, IsSeqFunction
<1>3. columns = FlattenSeq(kept)
  BY <1>c DEF PropertyColumns
<1>4. \A c \in DOMAIN kept : IsSeq(kept[c]) /\ shown[c] = Named(kept[c])
  <2>1. \A c \in DOMAIN kept : \/ kept[c] = <<>> /\ shown[c] = <<>>
                               \/ kept[c] = <<c>> /\ shown[c] = <<cmd.names[c]>>
    BY <1>2, <1>c
  <2> QED BY <2>1, NamedFew, IsSeqEmpty, SingletonIsSeq
<1>5. Named(columns) = FlattenSeq(shown)
  BY <1>2, <1>3, <1>4, NamedFlatten
<1>6. FlattenSeq(shown) = ColumnNames(r)
  BY <1>c DEF ColumnNames
<1>7. IsSeq(columns)
  BY <1>c, ColumnsAreSeqs
<1>j. PICK joined, opening :
        /\ joined = Joined([k \in DOMAIN columns |-> MemberOf(r, columns[k])])
        /\ opening = Opening(r, "properties")
  OBVIOUS
<1>8. IsSeq(joined) /\ Labels(joined, r) = Named(columns)
  BY <1>7, <1>j, LabelsOfColumns
<1>9. IsSeq(opening) /\ Labels(opening, r) = <<>> /\ IsSeq(Closing) /\ Labels(Closing, r) = <<>>
  BY <1>j, LabelsOfTokens, TokenSeqs, SingletonIsSeq DEF Opening
<1>10. Labels(opening \o joined, r) = Labels(joined, r) /\ IsSeq(opening \o joined)
  BY <1>8, <1>9, LabelsBeside
<1>11. Labels((opening \o joined) \o Closing, r) = Labels(opening \o joined, r)
       /\ IsSeq((opening \o joined) \o Closing)
  BY <1>9, <1>10, LabelsBeside
<1>12. Properties(r) = opening \o joined \o Closing
  BY <1>c, <1>j DEF Properties
<1> QED BY <1>5, <1>6, <1>8, <1>10, <1>11, <1>12

\* The names of the place and of the id.
PlaceNames(r) == IF cmd.stream /\ ~Numeric(r) THEN <<"geometry">> ELSE <<"type", "longitude", "latitude">>
IdNames(r) == IF Given(cmd.key) /\ Cell(r, NamedColumn(cmd.key)) # Null THEN <<"id">> ELSE <<>>

LEMMA ThreeNames == \A a, b, c : (<<a>> \o <<b>>) \o <<c>> = <<a, b, c>>
<1> SUFFICES ASSUME NEW a, NEW b, NEW c PROVE (<<a>> \o <<b>>) \o <<c>> = <<a, b, c>>
  OBVIOUS
<1>p. PICK x, y, z, t : x = <<a>> /\ y = <<b>> /\ z = <<c>> /\ t = <<a, b, c>>
  OBVIOUS
<1>1. /\ IsSeq(x) /\ Len(x) = 1 /\ x[1] = a
      /\ IsSeq(y) /\ Len(y) = 1 /\ y[1] = b
      /\ IsSeq(z) /\ Len(z) = 1 /\ z[1] = c
  BY <1>p, SingletonIsSeq
<1>2. IsSeq(t) /\ Len(t) = 3 /\ t[1] = a /\ t[2] = b /\ t[3] = c
  <2>1. t \in Seq({a, b, c}) /\ Len(t) = 3 /\ t[1] = a /\ t[2] = b /\ t[3] = c
    BY <1>p
  <2> QED BY <2>1, SeqIsSeq
<1>u. PICK u, v : u = x \o y /\ v = u \o z
  OBVIOUS
<1>3. IsSeq(u) /\ Len(u) = 2 /\ u[1] = a /\ u[2] = b
  <2>1. IsSeq(u) /\ Len(u) = Len(x) + Len(y)
        /\ (\A i \in 1..Len(x) : u[i] = x[i]) /\ (\A i \in 1..Len(y) : u[Len(x) + i] = y[i])
    <3>1. IsSeq(x) /\ IsSeq(y)
      BY <1>1
    <3>2. TwoJoined(u, x, y)
      BY <3>1, <1>u, TwoJoinedFacts
    <3> QED BY <3>2 DEF TwoJoined
  <2>2. 1 \in 1..1 /\ 1 + 1 = 2
    OBVIOUS
  <2> QED BY <1>1, <2>1, <2>2
<1>4. IsSeq(v) /\ Len(v) = 3 /\ v[1] = a /\ v[2] = b /\ v[3] = c
  <2>1. IsSeq(v) /\ Len(v) = Len(u) + Len(z)
        /\ (\A i \in 1..Len(u) : v[i] = u[i]) /\ (\A i \in 1..Len(z) : v[Len(u) + i] = z[i])
    BY <1>1, <1>3, <1>u, IsSeqConcat
  <2>2. 1 \in 1..2 /\ 2 \in 1..2 /\ 1 \in 1..1 /\ 2 + 1 = 3
    OBVIOUS
  <2> QED BY <1>1, <1>3, <2>1, <2>2
<1>5. \A i \in 1..Len(v) : v[i] = t[i]
  <2>1. \A i \in 1..3 : i = 1 \/ i = 2 \/ i = 3
    OBVIOUS
  <2> QED BY <1>2, <1>4, <2>1
<1>6. v = t
  BY <1>2, <1>4, <1>5, IsSeqSame
<1> QED BY <1>6, <1>p, <1>u

\* The names of a sequence of tokens, in one word.
NamesAre(s, r, names) == IsSeq(s) /\ IsSeq(names) /\ Labels(s, r) = names

LEMMA NamesConcat ==
  ASSUME NEW a, NEW b, NEW r, NEW x, NEW y, NamesAre(a, r, x), NamesAre(b, r, y)
  PROVE  NamesAre(a \o b, r, x \o y)
<1>1. IsSeq(a) /\ IsSeq(b)
  BY DEF NamesAre
<1>2. Labels(a \o b, r) = Labels(a, r) \o Labels(b, r)
  BY <1>1, LabelsConcat
<1>3. IsSeq(a \o b)
  BY <1>1, IsSeqConcat
<1>4. IsSeq(x) /\ IsSeq(y)
  BY DEF NamesAre
<1>5. IsSeq(x \o y)
  BY <1>4, IsSeqConcat
<1>6. Labels(a \o b, r) = x \o y
  BY <1>2 DEF NamesAre
<1> QED BY <1>3, <1>5, <1>6 DEF NamesAre

\* What has no names after what has, or before it.
LEMMA NamesKept ==
  ASSUME NEW a, NEW b, NEW r, NEW x
  PROVE  /\ NamesAre(a, r, x) /\ NamesAre(b, r, <<>>) => NamesAre(a \o b, r, x)
         /\ NamesAre(a, r, <<>>) /\ NamesAre(b, r, x) => NamesAre(a \o b, r, x)
<1>1. ASSUME NamesAre(a, r, x), NamesAre(b, r, <<>>) PROVE NamesAre(a \o b, r, x)
  <2>1. NamesAre(a \o b, r, x \o <<>>)
    BY <1>1, NamesConcat
  <2>2. x \o <<>> = x
    BY <1>1, ConcatEmpty DEF NamesAre
  <2> QED BY <2>1, <2>2
<1>2. ASSUME NamesAre(a, r, <<>>), NamesAre(b, r, x) PROVE NamesAre(a \o b, r, x)
  <2>1. NamesAre(a \o b, r, <<>> \o x)
    BY <1>2, NamesConcat
  <2>2. <<>> \o x = x
    BY <1>2, ConcatEmpty DEF NamesAre
  <2> QED BY <2>1, <2>2
<1> QED BY <1>1, <1>2

LEMMA NamesOfTokens ==
  ASSUME NEW r
  PROVE  /\ NamesAre(Comma, r, <<>>) /\ NamesAre(Closing, r, <<>>) /\ NamesAre(Newline, r, <<>>)
         /\ NamesAre(<<>>, r, <<>>)
         /\ \A q, shows : NamesAre(Opening(q, shows), r, <<>>)
         /\ \A shows, null : NamesAre(Member(r, shows, null), r, <<shows>>)
<1>1. /\ NamesAre(Comma, r, <<>>) /\ NamesAre(Closing, r, <<>>) /\ NamesAre(Newline, r, <<>>)
      /\ NamesAre(<<>>, r, <<>>)
  BY LabelsOfTokens, TokenSeqs DEF NamesAre
<1>2. \A q, shows : NamesAre(Opening(q, shows), r, <<>>)
  <2>1. \A q, shows : IsSeq(Opening(q, shows))
    BY SingletonIsSeq DEF Opening
  <2> QED BY <2>1, LabelsOfTokens, IsSeqEmpty DEF NamesAre
<1>3. \A shows, null : NamesAre(Member(r, shows, null), r, <<shows>>)
  <2>1. \A shows, null : IsSeq(Member(r, shows, null)) /\ IsSeq(<<shows>>)
    BY SingletonIsSeq DEF Member
  <2> QED BY <2>1, LabelsOfTokens DEF NamesAre
<1> QED BY <1>1, <1>2, <1>3

LEMMA GeometryNames ==
  ASSUME NEW r
  PROVE  NamesAre(Geometry(r), r, PlaceNames(r))
<1>1. CASE cmd.stream /\ ~Numeric(r)
  <2>1. Geometry(r) = Member(r, "geometry", TRUE) /\ PlaceNames(r) = <<"geometry">>
    BY <1>1 DEF Geometry, PlaceNames
  <2> QED BY <2>1, NamesOfTokens
<1>2. CASE ~(cmd.stream /\ ~Numeric(r))
  <2>a. PICK a : a = Opening(r, "geometry") \o Member(r, "type", FALSE)
    OBVIOUS
  <2>1. NamesAre(a, r, <<"type">>)
    BY <2>a, NamesOfTokens, NamesKept
  <2>b. PICK b : b = (a \o Comma) \o Opening(r, "coordinates")
    OBVIOUS
  <2>2. NamesAre(b, r, <<"type">>)
    BY <2>1, <2>b, NamesOfTokens, NamesKept
  <2>c. PICK c, x : c = b \o Member(r, "longitude", FALSE) /\ x = <<"type">> \o <<"longitude">>
    OBVIOUS
  <2>3. NamesAre(c, r, x)
    BY <2>2, <2>c, NamesOfTokens, NamesConcat
  <2>4. NamesAre(c \o Comma, r, x)
    BY <2>3, NamesOfTokens, NamesKept
  <2>d. PICK d, y : d = (c \o Comma) \o Member(r, "latitude", FALSE) /\ y = x \o <<"latitude">>
    OBVIOUS
  <2>5. NamesAre(d, r, y)
    BY <2>4, <2>d, NamesOfTokens, NamesConcat
  <2>6. NamesAre(d \o Closing, r, y)
    BY <2>5, NamesOfTokens, NamesKept
  <2>7. NamesAre((d \o Closing) \o Closing, r, y)
    BY <2>6, NamesOfTokens, NamesKept
  <2>8. Geometry(r) = (d \o Closing) \o Closing
    BY <1>2, <2>a, <2>b, <2>c, <2>d DEF Geometry
  <2>9. y = PlaceNames(r)
    <3>1. (<<"type">> \o <<"longitude">>) \o <<"latitude">> = <<"type", "longitude", "latitude">>
      BY ThreeNames
    <3> QED BY <1>2, <2>c, <2>d, <3>1 DEF PlaceNames
  <2> QED BY <2>7, <2>8, <2>9
<1> QED BY <1>1, <1>2

LEMMA IdHasNames ==
  ASSUME NEW r
  PROVE  NamesAre(Id(r), r, IdNames(r))
<1>1. CASE Given(cmd.key) /\ Cell(r, NamedColumn(cmd.key)) # Null
  <2>1. PICK null : Id(r) = Member(r, "id", null) \o Comma /\ IdNames(r) = <<"id">>
    BY <1>1 DEF Id, IdNames
  <2>2. NamesAre(Member(r, "id", null) \o Comma, r, <<"id">>)
    BY NamesOfTokens, NamesKept
  <2> QED BY <2>1, <2>2
<1>2. CASE ~(Given(cmd.key) /\ Cell(r, NamedColumn(cmd.key)) # Null)
  <2>1. Id(r) = <<>> /\ IdNames(r) = <<>>
    BY <1>2 DEF Id, IdNames
  <2> QED BY <2>1, NamesOfTokens
<1> QED BY <1>1, <1>2

LEMMA FeatureNames ==
  ASSUME JsonSource, Geojson, NEW r
  PROVE  NamesAre(Feature(r), r, <<"type">> \o ColumnNames(r) \o IdNames(r) \o PlaceNames(r))
<1>p. PICK properties, id, geometry, columns, ids, place :
        /\ properties = Properties(r) /\ id = Id(r) /\ geometry = Geometry(r)
        /\ columns = ColumnNames(r) /\ ids = IdNames(r) /\ place = PlaceNames(r)
  OBVIOUS
<1>1. /\ NamesAre(properties, r, columns) /\ NamesAre(id, r, ids) /\ NamesAre(geometry, r, place)
  <2>1. IsSeq(properties) /\ Labels(properties, r) = columns
    BY <1>p, PropertiesLabels
  <2>2. IsSeq(columns)
    BY <2>1, LabelSeqsFacts
  <2>3. NamesAre(properties, r, columns)
    BY <2>1, <2>2 DEF NamesAre
  <2> QED BY <1>p, <2>3, IdHasNames, GeometryNames
<1>a. PICK a : a = (Opening(r, "") \o Member(r, "type", FALSE)) \o Comma
  OBVIOUS
<1>2. NamesAre(a, r, <<"type">>)
  <2>1. NamesAre(Opening(r, "") \o Member(r, "type", FALSE), r, <<"type">>)
    BY NamesOfTokens, NamesKept
  <2> QED BY <1>a, <2>1, NamesOfTokens, NamesKept
<1>b. PICK b, x : b = a \o properties /\ x = <<"type">> \o columns
  OBVIOUS
<1>3. NamesAre(b, r, x)
  BY <1>1, <1>2, <1>b, NamesConcat
<1>4. NamesAre(b \o Comma, r, x)
  BY <1>3, NamesOfTokens, NamesKept
<1>c. PICK c, y : c = (b \o Comma) \o id /\ y = x \o ids
  OBVIOUS
<1>5. NamesAre(c, r, y)
  BY <1>1, <1>4, <1>c, NamesConcat
<1>d. PICK d, z : d = c \o geometry /\ z = y \o place
  OBVIOUS
<1>6. NamesAre(d, r, z)
  BY <1>1, <1>5, <1>d, NamesConcat
<1>7. NamesAre(d \o Closing, r, z)
  BY <1>6, NamesOfTokens, NamesKept
<1>8. FeatureBody(r) = d \o Closing
  BY <1>p, <1>a, <1>b, <1>c, <1>d DEF FeatureBody
<1>9. NamesAre(Feature(r), r, z)
  <2>i. PICK newline, body : newline = (IF cmd.stream /\ cmd.indent THEN Newline ELSE <<>>)
                             /\ body = FeatureBody(r)
    OBVIOUS
  <2>1. Feature(r) = newline \o body
    BY <2>i, TokensOfRow
  <2>2. NamesAre(newline, r, <<>>)
    BY <2>i, NamesOfTokens
  <2>3. NamesAre(body, r, z)
    BY <1>7, <1>8, <2>i
  <2>4. NamesAre(newline \o body, r, z)
    BY <2>2, <2>3, NamesKept
  <2> QED BY <2>1, <2>4
<1>10. z = <<"type">> \o ColumnNames(r) \o IdNames(r) \o PlaceNames(r)
  BY <1>p, <1>b, <1>c, <1>d
<1> QED BY <1>9, <1>10

LEMMA ObjectNames ==
  ASSUME JsonSource, ~Geojson, NEW r
  PROVE  NamesAre(Object(r), r, ColumnNames(r))
<1>1. IsSeq(Object(r))
  BY TokensOfRow
<1>2. Labels(Object(r), r) = ColumnNames(r)
  BY ObjectLabels
<1> QED BY <1>1, <1>2, LabelSeqsFacts DEF NamesAre

\* The names the object or the feature of a row is to have.
RowNames(r) ==
  IF Geojson THEN <<"type">> \o ColumnNames(r) \o IdNames(r) \o PlaceNames(r) ELSE ColumnNames(r)

LEMMA RowTokensNames ==
  ASSUME JsonSource, NEW r
  PROVE  NamesAre(RowTokens(r), r, RowNames(r))
<1>p. PICK row, between, names :
        /\ row = (IF Geojson THEN Feature(r) ELSE Object(r)) /\ between = Between(r)
        /\ names = RowNames(r)
  OBVIOUS
<1>1. NamesAre(row, r, names)
  BY <1>p, FeatureNames, ObjectNames DEF RowNames
<1>2. NamesAre(between, r, <<>>)
  BY <1>p, NamesOfTokens DEF Between
<1>3. NamesAre(row \o between, r, names)
  BY <1>1, <1>2, NamesKept
<1> QED BY <1>3, <1>p DEF RowTokens

\* The rows of the tokens of a row.
LEMMA TokenRowsOf ==
  ASSUME NEW r
  PROVE  /\ RowsIn(<<>>, {0, r}) /\ RowsIn(Comma, {0, r}) /\ RowsIn(Newline, {0, r})
         /\ RowsIn(Closing, {0, r})
         /\ \A shows : RowsIn(Opening(r, shows), {0, r})
         /\ \A shows, null : RowsIn(Member(r, shows, null), {0, r})
<1>1. {0} \subseteq {0, r} /\ {r} \subseteq {0, r}
  OBVIOUS
<1>2. /\ RowsIn(<<>>, {0, r}) /\ RowsIn(Comma, {0, r}) /\ RowsIn(Newline, {0, r})
      /\ RowsIn(Closing, {0, r})
  <2>1. /\ RowsIn(<<>>, {0}) /\ RowsIn(Comma, {0}) /\ RowsIn(Newline, {0})
        /\ RowsIn(Closing, {0})
    BY ONLY TokenRows
  <2> QED BY ONLY <1>1, <2>1, RowsWider
<1>3. ASSUME NEW shows PROVE RowsIn(Opening(r, shows), {0, r})
  <2>1. RowsIn(Opening(r, shows), {r})
    BY ONLY TokenRows
  <2> QED BY ONLY <1>1, <2>1, RowsWider
<1>4. ASSUME NEW shows, NEW null PROVE RowsIn(Member(r, shows, null), {0, r})
  <2>1. RowsIn(Member(r, shows, null), {r})
    BY ONLY TokenRows
  <2> QED BY ONLY <1>1, <2>1, RowsWider
<1> QED BY ONLY <1>2, <1>3, <1>4

LEMMA RowsOfJoined ==
  ASSUME NEW r, NEW columns, IsSeq(columns)
  PROVE  RowsIn(Joined([k \in DOMAIN columns |-> MemberOf(r, columns[k])]), {0, r})
<1>m. PICK members : members = [k \in DOMAIN columns |-> MemberOf(r, columns[k])]
  OBVIOUS
<1>1. DOMAIN columns = 1..Len(columns) /\ Len(columns) \in Nat
  BY IsSeqFacts
<1>2. IsSeq(members) /\ DOMAIN members = DOMAIN columns
  <2>1. members = [k \in 1..Len(columns) |-> members[k]]
    BY <1>1, <1>m
  <2> QED BY <1>1, <1>m, <2>1, IsSeqFunction
<1>3. \A k \in DOMAIN members : RowsIn(members[k], {0, r})
  BY <1>m, TokenRowsOf DEF MemberOf
<1>s. PICK s : s = Separated(members)
  OBVIOUS
<1>4. IsSeq(s) /\ DOMAIN s = DOMAIN members /\ Joined(members) = FlattenSeq(s)
  <2>1. \A k \in DOMAIN members : IsSeq(members[k])
    BY <1>3 DEF RowsIn
  <2> QED BY <1>2, <1>s, <2>1, SeparatedFacts
<1>5. \A k \in DOMAIN s : RowsIn(s[k], {0, r})
  <2> TAKE k \in DOMAIN s
  <2>1. s[k] = (IF k = 1 THEN <<>> ELSE Comma) \o members[k]
    BY <1>4, <1>s DEF Separated
  <2>2. RowsIn(IF k = 1 THEN <<>> ELSE Comma, {0, r}) /\ RowsIn(members[k], {0, r})
    BY <1>3, <1>4, TokenRowsOf
  <2> QED BY <2>1, <2>2, RowsConcat
<1>6. RowsIn(FlattenSeq(s), {0, r})
  BY <1>4, <1>5, RowsOfFlat
<1> QED BY <1>4, <1>6, <1>m

LEMMA ObjectRows ==
  ASSUME JsonSource, NEW r
  PROVE  RowsIn(Object(r), {0, r})
<1>c. PICK cs : cs = [c \in JsonColumns |-> c]
  OBVIOUS
<1>1. IsSeq(cs) /\ DOMAIN cs = JsonColumns /\ \A c \in JsonColumns : cs[c] = c
  BY <1>c, ColumnsAreSeqs
<1>2. [c \in JsonColumns |-> MemberOf(r, c)] = [k \in DOMAIN cs |-> MemberOf(r, cs[k])]
  BY <1>1
<1>j. PICK joined, opening :
        /\ joined = Joined([k \in DOMAIN cs |-> MemberOf(r, cs[k])])
        /\ opening = Opening(r, IF key_idx = 0 THEN "" ELSE KeyShown(Cell(r, key_idx)))
  OBVIOUS
<1>3. RowsIn(joined, {0, r}) /\ RowsIn(opening, {0, r})
  BY <1>1, <1>j, RowsOfJoined, TokenRowsOf
<1>4. RowsIn(opening \o joined, {0, r})
  BY <1>3, RowsConcat
<1>5. RowsIn((opening \o joined) \o Closing, {0, r})
  BY <1>4, TokenRowsOf, RowsConcat
<1>6. Object(r) = opening \o joined \o Closing
  BY <1>2, <1>j DEF Object
<1> QED BY <1>5, <1>6

LEMMA FeatureRows ==
  ASSUME JsonSource, NEW r
  PROVE  RowsIn(Feature(r), {0, r})
<1>p. PICK properties, id, geometry : properties = Properties(r) /\ id = Id(r) /\ geometry = Geometry(r)
  OBVIOUS
<1>1. RowsIn(properties, {0, r})
  <2>j. PICK joined : joined = Joined([k \in DOMAIN PropertyColumns(r) |-> MemberOf(r, PropertyColumns(r)[k])])
    OBVIOUS
  <2>1. RowsIn(joined, {0, r})
    BY <2>j, ColumnsAreSeqs, RowsOfJoined
  <2>2. RowsIn(Opening(r, "properties") \o joined, {0, r})
    BY <2>1, TokenRowsOf, RowsConcat
  <2>3. RowsIn((Opening(r, "properties") \o joined) \o Closing, {0, r})
    BY <2>2, TokenRowsOf, RowsConcat
  <2> QED BY <1>p, <2>j, <2>3 DEF Properties
<1>2. RowsIn(id, {0, r})
  BY <1>p, TokenRowsOf, RowsConcat DEF Id
<1>3. RowsIn(geometry, {0, r})
  BY <1>p, TokenRowsOf, RowsConcat DEF Geometry
<1>4. RowsIn(FeatureBody(r), {0, r})
  <2>a. PICK a : a = (Opening(r, "") \o Member(r, "type", FALSE)) \o Comma
    OBVIOUS
  <2>1. RowsIn(a, {0, r})
    BY <2>a, TokenRowsOf, RowsConcat
  <2>2. RowsIn((a \o properties) \o Comma, {0, r})
    BY <1>1, <2>1, TokenRowsOf, RowsConcat
  <2>3. RowsIn((((a \o properties) \o Comma) \o id) \o geometry, {0, r})
    BY <1>2, <1>3, <2>2, RowsConcat
  <2>4. RowsIn(((((a \o properties) \o Comma) \o id) \o geometry) \o Closing, {0, r})
    BY <2>3, TokenRowsOf, RowsConcat
  <2> QED BY <1>p, <2>a, <2>4 DEF FeatureBody
<1>5. Feature(r) = (IF cmd.stream /\ cmd.indent THEN Newline ELSE <<>>) \o FeatureBody(r)
  BY TokensOfRow
<1>6. RowsIn(IF cmd.stream /\ cmd.indent THEN Newline ELSE <<>>, {0, r})
  BY TokenRowsOf
<1> QED BY <1>4, <1>5, <1>6, RowsConcat

LEMMA RowTokensRows ==
  ASSUME JsonSource, NEW r
  PROVE  RowsIn(RowTokens(r), {0, r})
<1>1. RowsIn(IF Geojson THEN Feature(r) ELSE Object(r), {0, r})
  BY ObjectRows, FeatureRows
<1>2. RowsIn(Between(r), {0, r})
  BY TokenRowsOf DEF Between
<1> QED BY <1>1, <1>2, RowsConcat DEF RowTokens

LEMMA RowsAround == RowsIn(Before, {0}) /\ RowsIn(After, {0})
<1>1. /\ RowsIn(<<>>, {0}) /\ RowsIn(Comma, {0}) /\ RowsIn(Newline, {0}) /\ RowsIn(Closing, {0})
      /\ \A shows : RowsIn(Opening(0, shows), {0})
      /\ \A shows, null : RowsIn(Member(0, shows, null), {0})
  BY TokenRows
<1>2. RowsIn(Joined([k \in 1..4 |-> Member(0, "", FALSE)]), {0})
  <2>m. PICK members, s : members = [k \in 1..4 |-> Member(0, "", FALSE)] /\ s = Separated(members)
    OBVIOUS
  <2>1. IsSeq(members) /\ DOMAIN members = 1..4
    <3>1. members = [k \in 1..4 |-> members[k]]
      BY <2>m
    <3> QED BY <2>m, <3>1, IsSeqFunction
  <2>2. ASSUME NEW k \in DOMAIN members PROVE RowsIn(members[k], {0}) /\ IsSeq(members[k])
    <3>1. members[k] = Member(0, "", FALSE)
      BY <2>1, <2>m
    <3>2. RowsIn(members[k], {0})
      BY ONLY <1>1, <3>1
    <3> QED BY ONLY <3>2 DEF RowsIn
  <2>3. IsSeq(s) /\ DOMAIN s = DOMAIN members /\ Joined(members) = FlattenSeq(s)
    <3>1. IsSeq(members) /\ \A k \in DOMAIN members : IsSeq(members[k])
      BY ONLY <2>1, <2>2
    <3>2. /\ IsSeq(Separated(members)) /\ DOMAIN Separated(members) = DOMAIN members
          /\ Joined(members) = FlattenSeq(Separated(members))
      BY ONLY <3>1, SeparatedFacts
    <3>3. s = Separated(members)
      BY ONLY <2>m
    <3> QED BY ONLY <3>2, <3>3
  <2>4. \A k \in DOMAIN s : RowsIn(s[k], {0})
    <3> TAKE k \in DOMAIN s
    <3>1. s[k] = (IF k = 1 THEN <<>> ELSE Comma) \o members[k]
      BY <2>3, <2>m DEF Separated
    <3>2. RowsIn(IF k = 1 THEN <<>> ELSE Comma, {0}) /\ RowsIn(members[k], {0})
      BY <1>1, <2>2, <2>3
    <3> QED BY <3>1, <3>2, RowsConcat
  <2>5. RowsIn(FlattenSeq(s), {0})
    BY <2>3, <2>4, RowsOfFlat
  <2> QED BY <2>3, <2>5, <2>m
<1>3. RowsIn(Before, {0})
  <2>j. PICK joined : joined = Joined([k \in 1..4 |-> Member(0, "", FALSE)])
    OBVIOUS
  <2>b. PICK box : box = (IF cmd.no_bbox THEN <<>> ELSE Opening(0, "bbox") \o joined \o Closing \o Comma)
    OBVIOUS
  <2>1. RowsIn((Opening(0, "bbox") \o joined) \o Closing, {0})
    BY <1>1, <1>2, <2>j, RowsConcat
  <2>2. RowsIn(((Opening(0, "bbox") \o joined) \o Closing) \o Comma, {0})
    BY <1>1, <2>1, RowsConcat
  <2>3. RowsIn(box, {0})
    BY <1>1, <2>2, <2>b
  <2>4. RowsIn((Opening(0, "") \o Member(0, "type", FALSE)) \o Comma, {0})
    BY <1>1, RowsConcat
  <2>5. RowsIn((((Opening(0, "") \o Member(0, "type", FALSE)) \o Comma) \o box) \o Opening(0, "features"), {0})
    BY <1>1, <2>3, <2>4, RowsConcat
  <2>6. Before = IF cmd.stream THEN <<>> ELSE IF ~Geojson THEN Opening(0, "")
                 ELSE (((Opening(0, "") \o Member(0, "type", FALSE)) \o Comma) \o box) \o Opening(0, "features")
    BY <2>j, <2>b DEF Before
  <2> QED BY <1>1, <2>5, <2>6
<1>4. RowsIn(After, {0})
  <2>1. RowsIn(Crs, {0})
    <3>a. PICK a : a = ((Comma \o Opening(0, "crs")) \o Member(0, "type", FALSE)) \o Comma
      OBVIOUS
    <3>1. RowsIn(a, {0})
      BY <1>1, <3>a, RowsConcat
    <3>b. PICK b : b = (a \o Opening(0, "properties")) \o Member(0, "name", FALSE)
      OBVIOUS
    <3>2. RowsIn(b, {0})
      BY <1>1, <3>1, <3>b, RowsConcat
    <3>3. RowsIn((b \o Closing) \o Closing, {0})
      BY <1>1, <3>2, RowsConcat
    <3>4. Crs = IF Given(cmd.crs) THEN (b \o Closing) \o Closing ELSE <<>>
      BY <3>a, <3>b DEF Crs
    <3> QED BY <1>1, <3>3, <3>4
  <2>2. RowsIn((Closing \o Crs) \o Closing, {0})
    BY <1>1, <2>1, RowsConcat
  <2>3. After = IF cmd.stream THEN (IF Geojson THEN <<>> ELSE Newline)
                ELSE IF ~Geojson THEN Closing ELSE (Closing \o Crs) \o Closing
    BY DEF After, Crs
  <2> QED BY <1>1, <2>2, <2>3
<1> QED BY <1>3, <1>4

\* The tokens of a row are before those of a later one.
InOrder(s) == \A j, k \in DOMAIN s : s[j].row # 0 /\ s[j].row < s[k].row => j < k

LEMMA OrderConcat ==
  ASSUME NEW n \in Nat, NEW s, RowsIn(s, 0..n), InOrder(s),
         NEW m \in Nat, m = 0 \/ m = n + 1, NEW p, RowsIn(p, {0, m})
  PROVE  InOrder(s \o p)
<1>t. PICK t : t = s \o p
  OBVIOUS
<1>1. IsSeq(s) /\ IsSeq(p)
  BY DEF RowsIn
<1>2. TwoJoined(t, s, p)
  BY <1>1, <1>t, TwoJoinedFacts
<1>3. /\ IsSeq(t) /\ Len(t) = Len(s) + Len(p)
      /\ (\A i \in 1..Len(s) : t[i] = s[i]) /\ (\A i \in 1..Len(p) : t[Len(s) + i] = p[i])
  BY <1>2 DEF TwoJoined
<1>4. /\ Len(s) \in Nat /\ Len(p) \in Nat /\ DOMAIN s = 1..Len(s) /\ DOMAIN p = 1..Len(p)
      /\ DOMAIN t = 1..Len(t)
  BY <1>1, <1>3, IsSeqFacts
<1>5. ASSUME NEW j \in DOMAIN t
      PROVE  \/ j \in DOMAIN s /\ t[j] = s[j] /\ t[j].row \in 0..n
             \/ j > Len(s) /\ t[j].row \in {0, m}
  <2>1. CASE j <= Len(s)
    <3>1. j \in DOMAIN s
      BY <1>3, <1>4, <2>1
    <3>2. t[j] = s[j] /\ s[j].row \in 0..n
      BY <1>3, <1>4, <3>1 DEF RowsIn
    <3> QED BY <3>1, <3>2
  <2>2. CASE ~(j <= Len(s))
    <3>1. PICK i : i = j - Len(s)
      OBVIOUS
    <3>2. i \in DOMAIN p /\ j = Len(s) + i /\ j > Len(s)
      BY <1>3, <1>4, <2>2, <3>1
    <3>3. t[j] = p[i] /\ p[i].row \in {0, m}
      BY <1>3, <1>4, <3>2 DEF RowsIn
    <3> QED BY <3>2, <3>3
  <2> QED BY <2>1, <2>2
<1>6. ASSUME NEW j \in DOMAIN t, NEW k \in DOMAIN t, t[j].row # 0, t[j].row < t[k].row
      PROVE  j < k
  <2>r. PICK x, y : x = t[j].row /\ y = t[k].row
    OBVIOUS
  <2>0. j \in Nat /\ k \in Nat /\ x # 0 /\ x < y
    BY <1>4, <1>6, <2>r
  <2>1. CASE j \in DOMAIN s /\ t[j] = s[j] /\ k \in DOMAIN s /\ t[k] = s[k]
    BY <1>6, <2>1 DEF InOrder
  <2>2. CASE j \in DOMAIN s /\ k > Len(s)
    <3>1. j <= Len(s)
      BY <1>4, <2>2
    <3> QED BY <1>4, <2>0, <2>2, <3>1
  <2>3. CASE x \in {0, m} /\ y \in {0, m}
    BY <2>0, <2>3
  <2>4. CASE x \in {0, m} /\ y \in 0..n
    BY <2>0, <2>4
  <2> QED BY <1>5, <2>1, <2>2, <2>3, <2>4, <2>r
<1>7. InOrder(t)
  BY <1>6 DEF InOrder
<1> QED BY <1>7, <1>t

\* The rows composed so far: n of them.
RowsDone(s, n) ==
  RowsIn(s, 0..n) /\ InOrder(s) /\ \A r \in 1..n : NamesAre(s, r, RowNames(r))

LEMMA RowsStart == RowsDone(Before, 0)
<1>1. RowsIn(Before, {0})
  BY RowsAround
<1>2. RowsIn(Before, 0..0)
  BY <1>1, RowsWider
<1>3. InOrder(Before)
  BY <1>1 DEF RowsIn, InOrder
<1> QED BY <1>2, <1>3 DEF RowsDone

LEMMA RowsMore ==
  ASSUME JsonSource, NEW n \in Nat, NEW s, RowsDone(s, n)
  PROVE  RowsDone(s \o RowTokens(n + 1), n + 1)
<1>p. PICK p, m : p = RowTokens(n + 1) /\ m = n + 1
  OBVIOUS
<1>0. m \in Nat /\ m \in 1..m /\ 0..n \subseteq 0..m /\ {0, m} \subseteq 0..m
      /\ \A r \in 1..m : r \in 1..n \/ r = m
  BY <1>p
<1>1. RowsIn(p, {0, m}) /\ NamesAre(p, m, RowNames(m))
  BY <1>p, RowTokensRows, RowTokensNames
<1>2. RowsIn(s, 0..n) /\ InOrder(s) /\ \A r \in 1..n : NamesAre(s, r, RowNames(r))
  BY DEF RowsDone
<1>3. InOrder(s \o p)
  BY <1>0, <1>1, <1>2, <1>p, OrderConcat
<1>4. RowsIn(s \o p, 0..m)
  <2>1. RowsIn(s, 0..m) /\ RowsIn(p, 0..m)
    BY <1>0, <1>1, <1>2, RowsWider
  <2> QED BY <2>1, RowsConcat
<1>5. ASSUME NEW r \in 1..m PROVE NamesAre(s \o p, r, RowNames(r))
  <2>1. CASE r \in 1..n
    <3>1. r \notin {0, m}
      BY <1>p, <2>1
    <3>2. NamesAre(p, r, <<>>)
      <4>1. Labels(p, r) = <<>>
        BY <1>1, <3>1, NoLabels
      <4> QED BY <1>1, <4>1, IsSeqEmpty DEF NamesAre
    <3>3. NamesAre(s, r, RowNames(r))
      BY <1>2, <2>1
    <3> QED BY <3>2, <3>3, NamesKept
  <2>2. CASE r = m
    <3>1. r \notin 0..n
      BY <1>p, <2>2
    <3>2. NamesAre(s, r, <<>>)
      <4>1. Labels(s, r) = <<>>
        BY <1>2, <3>1, NoLabels
      <4>2. IsSeq(s)
        BY <1>2 DEF RowsIn
      <4> QED BY <4>1, <4>2, IsSeqEmpty DEF NamesAre
    <3>3. NamesAre(p, r, RowNames(r))
      BY <1>1, <2>2
    <3> QED BY <3>2, <3>3, NamesKept
  <2> QED BY <1>0, <2>1, <2>2
<1> QED BY <1>3, <1>4, <1>5, <1>p DEF RowsDone

LEMMA RowsEnd ==
  ASSUME NEW n \in Nat, NEW s, RowsDone(s, n)
  PROVE  RowsDone(s \o After, n)
<1>1. RowsIn(After, {0}) /\ RowsIn(After, {0, 0})
  BY RowsAround
<1>2. RowsIn(s, 0..n) /\ InOrder(s) /\ \A r \in 1..n : NamesAre(s, r, RowNames(r))
  BY DEF RowsDone
<1>3. InOrder(s \o After)
  BY <1>1, <1>2, OrderConcat
<1>4. RowsIn(s \o After, 0..n)
  <2>1. {0} \subseteq 0..n
    OBVIOUS
  <2>2. RowsIn(After, 0..n)
    BY <1>1, <2>1, RowsWider
  <2> QED BY <1>2, <2>2, RowsConcat
<1>5. ASSUME NEW r \in 1..n PROVE NamesAre(s \o After, r, RowNames(r))
  <2>1. r \notin {0}
    OBVIOUS
  <2>2. NamesAre(After, r, <<>>)
    <3>1. Labels(After, r) = <<>>
      BY <1>1, <2>1, NoLabels
    <3> QED BY <1>1, <3>1, IsSeqEmpty DEF NamesAre, RowsIn
  <2> QED BY <1>2, <2>2, NamesKept
<1> QED BY <1>3, <1>4, <1>5 DEF RowsDone

-------------------------------------------------------------------------------
(* csvJson: every row is one object.                                          *)
JsonRowsInv ==
  cmd.tool = "json" =>
    /\ JsonSource
    /\ at = "composing" => RowsDone(held, json_row)
    /\ at = "done" => RowsDone(out, JsonLast)

LEMMA SameNames ==
  ASSUME cmd' = cmd
  PROVE  /\ \A s, n : RowsDone(s, n)' = RowsDone(s, n)
         /\ JsonSource' = JsonSource /\ JsonLast' = JsonLast
<1>1. JsonSource' = JsonSource /\ JsonLast' = JsonLast
  BY SameJson
<1>2. \A r : ColumnNames(r)' = ColumnNames(r)
  BY DEF ColumnNames, JsonColumns, Geojson, Given, Special, LatLon, NamedColumn, Cell
<1>3. \A r : IdNames(r)' = IdNames(r) /\ PlaceNames(r)' = PlaceNames(r)
  BY DEF IdNames, PlaceNames, Given, Cell, NamedColumn, Numeric, LatLon
<1>4. Geojson' = Geojson
  BY DEF Geojson, Given
<1>5. \A r : RowNames(r)' = RowNames(r)
  BY <1>2, <1>3, <1>4 DEF RowNames
<1>6. \A s, n : RowsDone(s, n)' = RowsDone(s, n)
  BY <1>5 DEF RowsDone
<1> QED BY <1>1, <1>6

LEMMA JsonRowsStep ==
  JsonInv /\ JsonRowsInv /\ [JsonNext]_<<toolVars, jsonVars>> => JsonRowsInv'
<1> SUFFICES ASSUME JsonInv, JsonRowsInv, [JsonNext]_<<toolVars, jsonVars>>, cmd'.tool = "json"
             PROVE  (/\ JsonSource
                     /\ at = "composing" => RowsDone(held, json_row)
                     /\ at = "done" => RowsDone(out, JsonLast))'
  BY DEF JsonRowsInv
<1>1. cmd' = cmd
  BY DEF toolVars, JsonNext, JsonStart, CheckKey, KeyRefused, KeysChecked, Bound, Boundless, Bounded,
         JsonOpen, JsonObject, JsonNoNumber, JsonClose, PassTo, Goto
<1>2. /\ JsonSource /\ JsonSource' /\ JsonLast' = JsonLast
      /\ at = "composing" => RowsDone(held, json_row)
      /\ at = "done" => RowsDone(out, JsonLast)
  BY <1>1, SameNames DEF JsonRowsInv
<1>3. /\ json_row \in 0..JsonLast /\ IsSeq(held)
      /\ at # "done" => out = <<>>
      /\ at \in {"start", "checking", "bounding", "opening"} => held = <<>>
      /\ at = "opening" => json_row = 0
  BY <1>1 DEF JsonInv
<1>n. PICK h, o, n, last : h = held' /\ o = out' /\ n = json_row' /\ last = JsonLast
  OBVIOUS
<1>4. /\ RowsDone(h, n) => RowsDone(held, json_row)'
      /\ RowsDone(o, last) => RowsDone(out, JsonLast)'
  <2>1. RowsDone(h, n)' => RowsDone(held, json_row)'
    <3>1. (h = held)' /\ (n = json_row)'
      BY <1>n
    <3> QED BY <3>1 DEF RowsDone
  <2>2. RowsDone(o, last)' => RowsDone(out, JsonLast)'
    <3>1. (o = out)' /\ (last = JsonLast)'
      BY <1>2, <1>n
    <3> QED BY <3>1 DEF RowsDone
  <2> QED BY <1>1, <2>1, <2>2, SameNames
<1>5. CASE JsonStart \/ CheckKey \/ KeyRefused \/ KeysChecked \/ Bound \/ Boundless \/ Bounded \/ JsonNoNumber
  <2>1. at \in {"start", "checking", "bounding", "composing"} /\ at' \notin {"composing", "done"}
    BY <1>5 DEF JsonStart, CheckKey, KeyRefused, KeysChecked, Bound, Boundless, Bounded, JsonNoNumber,
                RowOf, PassTo, Goto, Quiet
  <2> QED BY <1>2, <2>1
<1>6. CASE JsonOpen
  <2>1. at' = "composing" /\ h = Before /\ n = 0
    <3>1. at = "opening" /\ at' = "composing" /\ held' = held \o Before /\ json_row' = json_row
      BY <1>6 DEF JsonOpen, Goto, Compose, jsonVars
    <3>2. <<>> \o Before = Before
      BY TokensAround, ConcatEmpty
    <3> QED BY <1>3, <1>n, <3>1, <3>2
  <2>2. RowsDone(h, n)
    BY <2>1, RowsStart
  <2> QED BY <1>2, <1>4, <2>1, <2>2
<1>7. CASE JsonObject
  <2>1. /\ at = "composing" /\ at' = "composing" /\ h = held \o RowTokens(json_row + 1)
        /\ n = json_row + 1
    BY <1>7, <1>n DEF JsonObject, RowOf, Compose, RowTokens
  <2>2. json_row \in Nat
    BY <1>3
  <2>3. RowsDone(h, n)
    BY <1>2, <2>1, <2>2, RowsMore
  <2> QED BY <1>2, <1>4, <2>1, <2>3
<1>8. CASE JsonClose
  <2>1. /\ at = "composing" /\ json_row = JsonLast /\ at' = "done" /\ o = out \o held \o After
    BY <1>8, <1>n DEF JsonClose, Goto
  <2>2. o = held \o After
    <3>1. out = <<>> /\ <<>> \o held = held
      BY <1>3, <2>1, ConcatEmpty
    <3> QED BY <2>1, <3>1
  <2>3. RowsDone(o, last)
    <3>1. json_row \in Nat /\ RowsDone(held, json_row)
      BY <1>2, <1>3, <2>1
    <3> QED BY <1>n, <2>1, <2>2, <3>1, RowsEnd
  <2> QED BY <1>2, <1>4, <2>1, <2>3
<1>9. CASE UNCHANGED <<toolVars, jsonVars>>
  <2>1. at' = at /\ h = held /\ o = out /\ n = json_row
    BY <1>9, <1>n DEF toolVars, jsonVars
  <2> QED BY <1>2, <1>4, <1>n, <2>1
<1> QED BY <1>5, <1>6, <1>7, <1>8, <1>9 DEF JsonNext

LEMMA JsonRowsInvariant == JsonSpec => []JsonRowsInv
<1>1. ToolInit /\ JsonInit => JsonRowsInv
  BY JsonAssumption DEF ToolInit, JsonRowsInv, JsonSource
<1>2. JsonInv /\ JsonRowsInv /\ [JsonNext]_<<toolVars, jsonVars>> => JsonRowsInv'
  BY JsonRowsStep
<1> QED BY <1>1, <1>2, JsonInvariant, PTL DEF JsonSpec

\* Every row is one object, in order, for any header, any rows and any options: with the
\* columns of print_func, or as a feature with its properties, its id and its coordinates.
THEOREM JsonShowsRows == JsonSpec => []JsonRowsComplete
<1>1. JsonRowsInv => JsonRowsComplete
  <2> SUFFICES ASSUME JsonRowsInv, cmd.tool = "json", at = "done" PROVE JsonRowsComplete
    BY DEF JsonRowsComplete
  <2>1. JsonSource /\ RowsDone(out, JsonLast)
    BY DEF JsonRowsInv
  <2>2. JsonLast \in Nat /\ JsonRows = 1..JsonLast
    BY <2>1, JsonSourceFacts
  <2>3. ASSUME NEW r \in JsonRows
        PROVE  /\ Labels(out, r) = RowNames(r)
               /\ \A q \in JsonRows : \A j, k \in DOMAIN out :
                    out[j].row = r /\ out[k].row = q /\ r < q => j < k
    <3>1. Labels(out, r) = RowNames(r)
      BY <2>1, <2>2, <2>3 DEF RowsDone, NamesAre
    <3>2. r # 0
      BY <2>2
    <3>3. InOrder(out)
      BY <2>1 DEF RowsDone
    <3>4. \A q \in JsonRows : \A j, k \in DOMAIN out :
            out[j].row = r /\ out[k].row = q /\ r < q => j < k
      BY <3>2, <3>3 DEF InOrder
    <3> QED BY <3>1, <3>4
  <2> DEFINE elsewhere(c) ==
               \/ \E option \in {cmd.lat, cmd.lon} : c = NamedColumn(option)
               \/ \E option \in {cmd.type, cmd.key} : Given(option) /\ c = NamedColumn(option)
             columns(r) == FlattenSeq([c \in JsonColumns |->
               IF Geojson /\ (elsewhere(c) \/ Cell(r, c) = Null) THEN <<>> ELSE <<cmd.names[c]>>])
  <2>4. \A c : Special(c) <=> elsewhere(c)
    <3>1. Range(LatLon) = {NamedColumn(cmd.lat), NamedColumn(cmd.lon)}
      BY DEF LatLon, Range
    <3>2. {NamedColumn(name) : name \in {cmd.key, cmd.type} \ {""}}
            = {c \in {NamedColumn(cmd.key), NamedColumn(cmd.type)} :
                 \E option \in {cmd.type, cmd.key} : Given(option) /\ c = NamedColumn(option)}
      BY DEF Given
    <3> QED BY <3>1, <3>2 DEF Special
  <2>5. \A r : columns(r) = ColumnNames(r)
    <3> TAKE r
    <3>1. [c \in JsonColumns |->
             IF Geojson /\ (elsewhere(c) \/ Cell(r, c) = Null) THEN <<>> ELSE <<cmd.names[c]>>]
            = [c \in JsonColumns |->
                 IF Geojson /\ (Special(c) \/ Cell(r, c) = Null) THEN <<>> ELSE <<cmd.names[c]>>]
      <4> HIDE DEF elsewhere
      <4> QED BY <2>4
    <3> QED BY <3>1 DEF ColumnNames
  <2>6. \A r \in JsonRows : Labels(out, r) =
          IF Geojson THEN <<"type">> \o columns(r) \o IdNames(r) \o PlaceNames(r) ELSE columns(r)
    <3> HIDE DEF columns
    <3> QED BY <2>3, <2>5 DEF RowNames
  <2> QED BY <2>3, <2>6 DEF JsonRowsComplete, IdNames, PlaceNames
<1> QED BY <1>1, JsonRowsInvariant, PTL

-------------------------------------------------------------------------------
(* In2csv: the columns of objects.                                            *)

NdjsonSource ==
  /\ cmd.objects \in Seq([keys : Seq(STRING), values : Seq(STRING)])
  /\ \A r \in DOMAIN cmd.objects : \A j, k \in DOMAIN cmd.objects[r].keys :
       j # k => cmd.objects[r].keys[j] # cmd.objects[r].keys[k]

KeysOf(r) == Range(cmd.objects[r].keys)
HasFirst(r, key) ==
  r \in DOMAIN cmd.objects /\ key \in KeysOf(r) /\ \A q \in 1..(r - 1) : key \notin KeysOf(q)
FirstObject(key) == CHOOSE r \in DOMAIN cmd.objects :
  key \in KeysOf(r) /\ \A q \in 1..(r - 1) : key \notin KeysOf(q)
ValueAt(r, key) ==
  IF key \in KeysOf(r)
  THEN Converted(cmd.objects[r].values[PlaceIn(cmd.objects[r], key)]) ELSE ""

LEMMA NdjsonSourceFacts ==
  ASSUME NdjsonSource
  PROVE  /\ Len(cmd.objects) \in Nat /\ DOMAIN cmd.objects = 1..Len(cmd.objects)
         /\ \A r \in 1..Len(cmd.objects) :
              /\ IsSeq(cmd.objects[r].keys)
              /\ \A j, k \in DOMAIN cmd.objects[r].keys :
                   j # k => cmd.objects[r].keys[j] # cmd.objects[r].keys[k]
<1>1. cmd.objects \in Seq([keys : Seq(STRING), values : Seq(STRING)])
  BY DEF NdjsonSource
<1>2. Len(cmd.objects) \in Nat /\ DOMAIN cmd.objects = 1..Len(cmd.objects)
  BY <1>1, SeqIsSeq
<1>3. ASSUME NEW r \in 1..Len(cmd.objects) PROVE IsSeq(cmd.objects[r].keys)
  <2>1. cmd.objects[r] \in [keys : Seq(STRING), values : Seq(STRING)]
    BY <1>1, <1>2, ElementOfSeq
  <2>2. cmd.objects[r].keys \in Seq(STRING)
    BY <2>1
  <2> QED BY <2>2, SeqIsSeq
<1> QED BY <1>2, <1>3 DEF NdjsonSource

\* Only one object can be the first with a key.
LEMMA FirstObjectIs ==
  ASSUME NdjsonSource, NEW r, NEW key, HasFirst(r, key)
  PROVE  FirstObject(key) = r
<1>1. DOMAIN cmd.objects = 1..Len(cmd.objects) /\ Len(cmd.objects) \in Nat
  BY NdjsonSourceFacts
<1>2. HasFirst(FirstObject(key), key)
  BY DEF HasFirst, FirstObject
<1>3. ASSUME NEW a, NEW b, HasFirst(a, key), HasFirst(b, key), a < b PROVE FALSE
  <2>1. a \in 1..(b - 1)
    BY <1>1, <1>3 DEF HasFirst
  <2> QED BY <1>3, <2>1 DEF HasFirst
<1>4. r \in Int /\ FirstObject(key) \in Int
  BY <1>1, <1>2 DEF HasFirst
<1>5. ~(r < FirstObject(key)) /\ ~(FirstObject(key) < r)
  BY <1>2, <1>3
<1> QED BY <1>4, <1>5

\* An object that has a key is not before the first that has.
LEMMA FirstObjectEarly ==
  ASSUME NdjsonSource, NEW r \in 1..Len(cmd.objects), NEW key \in KeysOf(r)
  PROVE  FirstObject(key) \in 1..r
<1>1. DOMAIN cmd.objects = 1..Len(cmd.objects) /\ Len(cmd.objects) \in Nat
  BY NdjsonSourceFacts
<1> DEFINE S == {q \in 1..Len(cmd.objects) : key \in KeysOf(q)}
<1>2. S \in SUBSET Nat /\ r \in S
  BY <1>1
<1>3. PICK n \in S : \A m \in S : n <= m
  <2> HIDE DEF S
  <2> QED BY <1>2, Least
<1>4. HasFirst(n, key)
  <2>1. ASSUME NEW q \in 1..(n - 1) PROVE key \notin KeysOf(q)
    BY <1>1, <1>3, <2>1
  <2> QED BY <1>1, <1>3, <2>1 DEF HasFirst
<1>5. FirstObject(key) = n
  BY <1>4, FirstObjectIs
<1> QED BY <1>1, <1>2, <1>3, <1>5

\* What is left of different elements without those of a set are different elements.
LEMMA LeftOut ==
  ASSUME NEW s, IsSeq(s), \A j, k \in DOMAIN s : j # k => s[j] # s[k], NEW X,
         NEW f, f = Without(s, X)
  PROVE  /\ IsSeq(f) /\ Range(f) = Range(s) \ X
         /\ \A j, k \in DOMAIN f : j # k => f[j] # f[k]
<1>1. /\ IsSeq(f)
      /\ \A k \in DOMAIN f : f[k] \notin X /\ \E i \in DOMAIN s : f[k] = s[i]
      /\ \A i \in DOMAIN s : s[i] \notin X => \E k \in DOMAIN f : f[k] = s[i]
  BY WithoutFacts
<1>2. Range(f) = Range(s) \ X
  BY <1>1 DEF Range
<1> DEFINE parts == [k \in DOMAIN s |-> IF s[k] \in X THEN <<>> ELSE <<s[k]>>]
           flat(n) == FlattenSeq(SubSeq(parts, 1, n))
           good(n) == /\ IsSeq(flat(n))
                      /\ \A k \in DOMAIN flat(n) : \E i \in 1..n : flat(n)[k] = s[i]
                      /\ \A j, k \in DOMAIN flat(n) : j # k => flat(n)[j] # flat(n)[k]
           S == {n \in Nat : n <= Len(s) => good(n)}
<1>3. Len(s) \in Nat /\ DOMAIN s = 1..Len(s)
  BY IsSeqFacts
<1>4. \A i \in DOMAIN s : parts[i] = <<>> \/ parts[i] = <<s[i]>>
  OBVIOUS
<1>5. IsSeq(parts) /\ Len(parts) = Len(s) /\ DOMAIN parts = 1..Len(s)
  <2>1. IsSeq(parts) /\ Len(parts) = Len(s)
    BY <1>3, IsSeqFunction
  <2> QED BY <1>3, <2>1
<1>6. \A x : IsSeq(<<x>>) /\ Len(<<x>>) = 1
  <2>1. \A x : <<x>> \in Seq({x}) /\ Len(<<x>>) = 1
    OBVIOUS
  <2> QED BY <2>1, SeqIsSeq
<1>7. f = FlattenSeq(parts)
  BY DEF Without
<1> HIDE DEF parts
<1>8. \A i \in DOMAIN parts : IsSeq(parts[i])
  BY <1>3, <1>4, <1>5, <1>6, IsSeqEmpty
<1>9. flat(0) = <<>>
  <2>1. 0 \in 0..Len(parts)
    BY <1>3, <1>5
  <2> QED BY <1>5, <1>8, <2>1, FlattenFirst
<1>10. ASSUME NEW n \in Nat, n < Len(s)
       PROVE  IsSeq(flat(n)) /\ flat(n + 1) = flat(n) \o parts[n + 1]
  <2>1. n \in 0..Len(parts) /\ n < Len(parts)
    BY <1>3, <1>5, <1>10
  <2> QED BY <1>5, <1>8, <2>1, FlattenFirst
<1> HIDE DEF flat
<1>11. 0 \in S
  <2>1. IsSeq(<<>>) /\ DOMAIN <<>> = {}
    BY IsSeqEmpty
  <2> QED BY <1>9, <2>1
<1>12. ASSUME NEW n \in Nat, n \in S PROVE n + 1 \in S
  <2> SUFFICES ASSUME n + 1 <= Len(s) PROVE good(n + 1)
    OBVIOUS
  <2> PICK a, b : a = flat(n) /\ b = flat(n + 1)
    OBVIOUS
  <2>1. good(n) /\ n < Len(s) /\ n + 1 \in DOMAIN s
    BY <1>3, <1>12
  <2>2. /\ IsSeq(a) /\ b = a \o parts[n + 1]
        /\ \A k \in DOMAIN a : \E i \in 1..n : a[k] = s[i]
        /\ \A j, k \in DOMAIN a : j # k => a[j] # a[k]
    BY <1>10, <2>1
  <2>3. CASE parts[n + 1] = <<>>
    <3>1. b = a
      BY <2>2, <2>3, ConcatEmpty
    <3> QED BY <2>2, <3>1
  <2>4. CASE parts[n + 1] = <<s[n + 1]>>
    <3> PICK x : x = s[n + 1]
      OBVIOUS
    <3> PICK last : last = <<x>>
      OBVIOUS
    <3>1. IsSeq(last) /\ Len(last) = 1 /\ last[1] = x
      BY <1>6
    <3>2. b = a \o last
      BY <2>2, <2>4
    <3>a. /\ IsSeq(b) /\ Len(b) = Len(a) + Len(last)
          /\ \A i \in 1..Len(a) : b[i] = a[i]
          /\ \A i \in 1..Len(last) : b[Len(a) + i] = last[i]
      <4>1. IsSeq(a) /\ IsSeq(last)
        BY <2>2, <3>1
      <4>2. /\ IsSeq(a \o last) /\ Len(a \o last) = Len(a) + Len(last)
            /\ \A i \in 1..Len(a) : (a \o last)[i] = a[i]
            /\ \A i \in 1..Len(last) : (a \o last)[Len(a) + i] = last[i]
        BY <4>1, IsSeqConcat
      <4> QED BY <3>2, <4>2
    <3>b. Len(a) \in Nat /\ DOMAIN a = 1..Len(a) /\ DOMAIN b = 1..Len(b)
      BY <2>2, <3>a, IsSeqFacts
    <3>3. /\ Len(a) \in Nat /\ DOMAIN a = 1..Len(a)
          /\ IsSeq(b) /\ Len(b) = Len(a) + 1 /\ DOMAIN b = 1..(Len(a) + 1)
          /\ \A i \in 1..Len(a) : b[i] = a[i]
          /\ b[Len(a) + 1] = x
      BY <3>1, <3>a, <3>b
    <3>4. \A k \in DOMAIN a : a[k] # x
      <4> TAKE k \in DOMAIN a
      <4>1. PICK i \in 1..n : a[k] = s[i]
        BY <2>2
      <4>2. i \in DOMAIN s /\ i # n + 1
        BY <1>3, <2>1
      <4> QED BY <2>1, <4>1, <4>2
    <3>5. \A k \in DOMAIN b : \E i \in 1..(n + 1) : b[k] = s[i]
      <4> TAKE k \in DOMAIN b
      <4>1. CASE k = Len(a) + 1
        BY <3>3, <4>1
      <4>2. CASE k \in 1..Len(a)
        BY <2>2, <3>3, <4>2
      <4> QED BY <3>3, <4>1, <4>2
    <3>6. \A j, k \in DOMAIN b : j # k => b[j] # b[k]
      <4> TAKE j, k \in DOMAIN b
      <4> SUFFICES ASSUME j # k PROVE b[j] # b[k]
        OBVIOUS
      <4>1. CASE j = Len(a) + 1
        <5>1. k \in DOMAIN a
          BY <3>3, <4>1
        <5> QED BY <3>3, <3>4, <4>1, <5>1
      <4>2. CASE k = Len(a) + 1
        <5>1. j \in DOMAIN a
          BY <3>3, <4>2
        <5> QED BY <3>3, <3>4, <4>2, <5>1
      <4>3. CASE j \in DOMAIN a /\ k \in DOMAIN a
        BY <2>2, <3>3, <4>3
      <4> QED BY <3>3, <4>1, <4>2, <4>3
    <3> QED BY <3>3, <3>5, <3>6
  <2> QED BY <1>4, <2>1, <2>3, <2>4
<1>13. Nat \subseteq S
  <2> HIDE DEF S
  <2> QED BY <1>11, <1>12, Induction
<1>14. good(Len(s))
  BY <1>3, <1>13
<1>15. flat(Len(s)) = f
  BY <1>5, <1>7, WholeIsSubSeq DEF flat
<1> QED BY <1>1, <1>2, <1>14, <1>15

-------------------------------------------------------------------------------
(* In2csv: the header and the columns after some objects.                     *)

\* The keys of the first n objects, in the order in which they were met.
HeaderFits(h, n) ==
  /\ IsSeq(h) /\ Range(h) = UNION {KeysOf(r) : r \in 1..n}
  /\ \A j, k \in DOMAIN h : j < k => h[j] # h[k] /\ FirstObject(h[j]) <= FirstObject(h[k])
\* Each column has a value for each of the first n objects.
ColumnFits(values, key, n) ==
  IsSeq(values) /\ Len(values) = n /\ \A r \in 1..n : values[r] = ValueAt(r, key)

LEMMA HeaderBegins == HeaderFits(<<>>, 0)
<1>1. IsSeq(<<>>) /\ DOMAIN <<>> = {}
  BY IsSeqEmpty
<1> QED BY <1>1 DEF HeaderFits, Range

LEMMA HeaderGrows ==
  ASSUME NdjsonSource, NEW n \in Nat, n < Len(cmd.objects), NEW h, HeaderFits(h, n),
         NEW f, f = Without(cmd.objects[n + 1].keys, Range(h)), NEW g, g = h \o f
  PROVE  HeaderFits(g, n + 1) /\ Range(g) = Range(h) \cup KeysOf(n + 1)
<1>1. Len(cmd.objects) \in Nat /\ n + 1 \in 1..Len(cmd.objects)
  BY NdjsonSourceFacts
<1>2. /\ IsSeq(f) /\ Range(f) = KeysOf(n + 1) \ Range(h)
      /\ \A j, k \in DOMAIN f : j # k => f[j] # f[k]
  <2> PICK s : s = cmd.objects[n + 1].keys
    OBVIOUS
  <2>1. IsSeq(s) /\ \A j, k \in DOMAIN s : j # k => s[j] # s[k]
    BY <1>1, NdjsonSourceFacts
  <2>2. f = Without(s, Range(h)) /\ KeysOf(n + 1) = Range(s)
    BY DEF KeysOf
  <2> QED BY <2>1, <2>2, LeftOut
<1>3. /\ IsSeq(h) /\ Range(h) = UNION {KeysOf(r) : r \in 1..n}
      /\ \A j, k \in DOMAIN h : j < k => h[j] # h[k] /\ FirstObject(h[j]) <= FirstObject(h[k])
  BY DEF HeaderFits
<1>4. /\ IsSeq(g) /\ Len(g) = Len(h) + Len(f)
      /\ \A i \in 1..Len(h) : g[i] = h[i]
      /\ \A i \in 1..Len(f) : g[Len(h) + i] = f[i]
  <2>1. /\ IsSeq(h \o f) /\ Len(h \o f) = Len(h) + Len(f)
        /\ \A i \in 1..Len(h) : (h \o f)[i] = h[i]
        /\ \A i \in 1..Len(f) : (h \o f)[Len(h) + i] = f[i]
    BY <1>2, <1>3, IsSeqConcat
  <2> QED BY <2>1
<1>5. /\ Len(h) \in Nat /\ DOMAIN h = 1..Len(h) /\ Len(f) \in Nat /\ DOMAIN f = 1..Len(f)
      /\ DOMAIN g = 1..(Len(h) + Len(f))
  BY <1>2, <1>3, <1>4, IsSeqFacts
<1>6. ASSUME NEW k \in DOMAIN g
      PROVE  \/ k \in DOMAIN h /\ g[k] = h[k]
             \/ k - Len(h) \in DOMAIN f /\ g[k] = f[k - Len(h)]
  <2>1. CASE k <= Len(h)
    BY <1>4, <1>5, <2>1
  <2>2. CASE k > Len(h)
    <3>1. k - Len(h) \in 1..Len(f) /\ k = Len(h) + (k - Len(h))
      BY <1>5, <2>2
    <3> QED BY <1>4, <1>5, <3>1
  <2> QED BY <1>5, <2>1, <2>2
<1>7. Range(g) = Range(h) \cup Range(f)
  <2>1. ASSUME NEW x \in Range(g) PROVE x \in Range(h) \cup Range(f)
    <3>1. PICK k \in DOMAIN g : x = g[k]
      BY DEF Range
    <3>2. CASE k \in DOMAIN h /\ g[k] = h[k]
      BY <3>1, <3>2 DEF Range
    <3>3. CASE k - Len(h) \in DOMAIN f /\ g[k] = f[k - Len(h)]
      BY <3>1, <3>3 DEF Range
    <3> QED BY <1>6, <3>2, <3>3
  <2>2. ASSUME NEW x \in Range(h) PROVE x \in Range(g)
    <3>1. PICK i \in DOMAIN h : x = h[i]
      BY DEF Range
    <3>2. i \in DOMAIN g /\ g[i] = h[i]
      BY <1>4, <1>5
    <3> QED BY <3>1, <3>2 DEF Range
  <2>3. ASSUME NEW x \in Range(f) PROVE x \in Range(g)
    <3>1. PICK i \in DOMAIN f : x = f[i]
      BY DEF Range
    <3>2. Len(h) + i \in DOMAIN g /\ g[Len(h) + i] = f[i]
      BY <1>4, <1>5
    <3> QED BY <3>1, <3>2 DEF Range
  <2> QED BY <2>1, <2>2, <2>3
<1>8. Range(g) = Range(h) \cup KeysOf(n + 1)
  BY <1>2, <1>7
<1>9. UNION {KeysOf(r) : r \in 1..(n + 1)} = (UNION {KeysOf(r) : r \in 1..n}) \cup KeysOf(n + 1)
  <2>1. 1..(n + 1) = 1..n \cup {n + 1}
    OBVIOUS
  <2> QED BY <2>1
<1>10. ASSUME NEW j \in DOMAIN h PROVE FirstObject(h[j]) \in 1..n
  <2>1. h[j] \in Range(h)
    BY DEF Range
  <2>2. PICK r \in 1..n : h[j] \in KeysOf(r)
    BY <1>3, <2>1
  <2>3. r \in 1..Len(cmd.objects)
    BY <1>1
  <2>4. FirstObject(h[j]) \in 1..r
    BY <2>2, <2>3, FirstObjectEarly
  <2> QED BY <2>4
<1>11. ASSUME NEW j \in DOMAIN f PROVE f[j] \notin Range(h) /\ FirstObject(f[j]) = n + 1
  <2>1. f[j] \in KeysOf(n + 1) /\ f[j] \notin Range(h)
    BY <1>2 DEF Range
  <2>2. \A q \in 1..n : f[j] \notin KeysOf(q)
    BY <1>3, <2>1
  <2>3. HasFirst(n + 1, f[j])
    <3>1. n + 1 \in DOMAIN cmd.objects /\ 1..((n + 1) - 1) = 1..n
      BY <1>1, NdjsonSourceFacts
    <3> QED BY <2>1, <2>2, <3>1 DEF HasFirst
  <2> QED BY <2>1, <2>3, FirstObjectIs
<1>12. ASSUME NEW j \in DOMAIN g, NEW k \in DOMAIN g, j < k
       PROVE  g[j] # g[k] /\ FirstObject(g[j]) <= FirstObject(g[k])
  <2>1. CASE k \in DOMAIN h /\ g[k] = h[k]
    <3>1. j \in DOMAIN h /\ g[j] = h[j]
      BY <1>4, <1>5, <1>12, <2>1
    <3> QED BY <1>3, <1>12, <2>1, <3>1
  <2>2. CASE k - Len(h) \in DOMAIN f /\ g[k] = f[k - Len(h)]
    <3>1. g[k] \notin Range(h) /\ FirstObject(g[k]) = n + 1
      BY <1>11, <2>2
    <3>2. CASE j \in DOMAIN h /\ g[j] = h[j]
      <4>1. FirstObject(g[j]) \in 1..n /\ g[j] \in Range(h)
        BY <1>10, <3>2 DEF Range
      <4> QED BY <3>1, <4>1
    <3>3. CASE j - Len(h) \in DOMAIN f /\ g[j] = f[j - Len(h)]
      <4>1. FirstObject(g[j]) = n + 1
        BY <1>11, <3>3
      <4>2. j - Len(h) # k - Len(h)
        BY <1>5, <1>12
      <4>3. g[j] # g[k]
        BY <1>2, <2>2, <3>3, <4>2
      <4> QED BY <3>1, <4>1, <4>3
    <3> QED BY <1>6, <3>2, <3>3
  <2> QED BY <1>6, <2>1, <2>2
<1> QED BY <1>3, <1>4, <1>8, <1>9, <1>12 DEF HeaderFits

\* A value more, or a blank.
LEMMA ColumnGrows ==
  ASSUME NEW n \in Nat, NEW values, NEW key, ColumnFits(values, key, n), NEW v,
         v = ValueAt(n + 1, key)
  PROVE  ColumnFits(Append(values, v), key, n + 1)
<1> PICK t : t = Append(values, v)
  OBVIOUS
<1>1. IsSeq(values) /\ Len(values) = n /\ \A r \in 1..n : values[r] = ValueAt(r, key)
  BY DEF ColumnFits
<1>2. IsSeq(t) /\ Len(t) = n + 1
  BY <1>1, AppendedAny
<1>3. t[n + 1] = v /\ \A r \in 1..n : t[r] = values[r]
  BY <1>1, AppendedAny
<1>4. \A r \in 1..(n + 1) : r \in 1..n \/ r = n + 1
  OBVIOUS
<1> QED BY <1>1, <1>2, <1>3, <1>4 DEF ColumnFits

-------------------------------------------------------------------------------
(* In2csv: the inductive invariant.                                           *)

\* The first n rows are printed.
ObjectsShown(n) ==
  /\ IsSeq(out) /\ Len(out) = n + 1 /\ out[1] = result_header
  /\ \A r \in 1..n : out[r + 1] = [k \in DOMAIN result_header |-> ValueAt(r, result_header[k])]
\* The first n objects are read.
ObjectsRead(n) ==
  HeaderFits(result_header, n) /\ \A key \in Range(result_header) : ColumnFits(csv_map[key], key, n)

NdjsonInv ==
  cmd.tool = "in2csv" =>
    /\ NdjsonSource /\ at \in {"start", "failed", "reading", "printing", "done"}
    /\ at = "start" => total_rows = 0 /\ result_header = <<>> /\ printed = 0
    /\ at \in {"reading", "printing", "done"} =>
         total_rows \in 0..Len(cmd.objects) /\ ObjectsRead(total_rows)
    /\ at = "reading" => printed = 0
    /\ at \in {"printing", "done"} =>
         total_rows = Len(cmd.objects) /\ printed \in 0..total_rows /\ ObjectsShown(printed)
    /\ at = "done" => printed = total_rows

LEMMA SameObjects ==
  ASSUME cmd' = cmd
  PROVE  /\ NdjsonSource' <=> NdjsonSource
         /\ \A r, key : ValueAt(r, key)' = ValueAt(r, key)
         /\ \A h, n : HeaderFits(h, n)' <=> HeaderFits(h, n)
         /\ \A values, key, n : ColumnFits(values, key, n)' <=> ColumnFits(values, key, n)
<1>1. NdjsonSource' <=> NdjsonSource
  BY DEF NdjsonSource
<1>2. \A r : KeysOf(r)' = KeysOf(r)
  BY DEF KeysOf
<1>3. \A r, key : ValueAt(r, key)' = ValueAt(r, key)
  BY DEF KeysOf, ValueAt, PlaceIn, Converted
<1>4. \A key : FirstObject(key)' = FirstObject(key)
  BY <1>2 DEF FirstObject
<1>5. \A h, n : HeaderFits(h, n)' <=> HeaderFits(h, n)
  BY <1>2, <1>4 DEF HeaderFits
<1>6. \A values, key, n : ColumnFits(values, key, n)' <=> ColumnFits(values, key, n)
  BY <1>3 DEF ColumnFits
<1> QED BY <1>1, <1>3, <1>5, <1>6

\* A value for the column of a key, whether the object has it or not.
LEMMA ColumnFilled ==
  ASSUME NdjsonSource, NEW n \in Nat, n < Len(cmd.objects), NEW h, HeaderFits(h, n), NEW values, NEW key,
         key \in Range(h) => ColumnFits(values, key, n), key \notin Range(h) => values = <<>>
  PROVE  /\ key \in KeysOf(n + 1) =>
              ColumnFits(Append(Aligned(values, n), ValueAt(n + 1, key)), key, n + 1)
         /\ key \in Range(h) \ KeysOf(n + 1) =>
              Len(values) # n + 1 /\ ColumnFits(Append(values, ""), key, n + 1)
<1>1. CASE key \in Range(h)
  <2>1. ColumnFits(values, key, n) /\ IsSeq(values) /\ Len(values) = n
    BY <1>1 DEF ColumnFits
  <2>2. Aligned(values, n) = values
    <3> PICK m : m = n - Len(values)
      OBVIOUS
    <3>1. m = 0 /\ m \in Nat
      BY <2>1
    <3>p. PICK blanks : blanks = [k \in 1..m |-> ""]
      OBVIOUS
    <3>2. blanks = [k \in 1..m |-> blanks[k]]
      BY <3>p
    <3>3. IsSeq(blanks) /\ Len(blanks) = m
      BY <3>1, <3>2, IsSeqFunction
    <3>4. blanks = <<>>
      <4>1. IsSeq(<<>>) /\ Len(<<>>) = 0
        BY IsSeqEmpty
      <4>2. Len(blanks) = Len(<<>>) /\ \A i \in 1..Len(blanks) : blanks[i] = <<>>[i]
        BY <3>1, <3>3, <4>1
      <4> QED BY <3>3, <4>1, <4>2, IsSeqSame
    <3>5. values \o <<>> = values
      BY <2>1, ConcatEmpty
    <3> QED BY <3>4, <3>5, <3>p DEF Aligned
  <2>3. ColumnFits(Append(values, ValueAt(n + 1, key)), key, n + 1)
    BY <2>1, ColumnGrows
  <2>4. key \notin KeysOf(n + 1) => ValueAt(n + 1, key) = ""
    BY DEF ValueAt
  <2>5. Len(values) # n + 1
    BY <2>1
  <2> QED BY <2>2, <2>3, <2>4, <2>5
<1>2. CASE key \notin Range(h)
  <2>p. PICK blanks : blanks = [k \in 1..n |-> ""]
    OBVIOUS
  <2>1. IsSeq(blanks) /\ Len(blanks) = n
    <3>1. blanks = [k \in 1..n |-> blanks[k]]
      BY <2>p
    <3> QED BY <3>1, IsSeqFunction
  <2>2. Aligned(values, n) = blanks
    <3>a. values = <<>>
      BY <1>2
    <3>b. Len(values) = 0
      BY <3>a, IsSeqEmpty
    <3>1. values = <<>> /\ n - Len(values) = n
      BY <3>a, <3>b
    <3>2. <<>> \o blanks = blanks
      BY <2>1, ConcatEmpty
    <3> QED BY <2>p, <3>1, <3>2 DEF Aligned
  <2>3. ASSUME NEW r \in 1..n PROVE ValueAt(r, key) = ""
    <3>1. Range(h) = UNION {KeysOf(q) : q \in 1..n}
      BY DEF HeaderFits
    <3>2. key \notin KeysOf(r)
      BY <1>2, <3>1
    <3> QED BY <3>2 DEF ValueAt
  <2>4. ColumnFits(blanks, key, n)
    <3>1. \A r \in 1..n : blanks[r] = ""
      BY <2>p
    <3> QED BY <2>1, <2>3, <3>1 DEF ColumnFits
  <2>5. ColumnFits(Append(blanks, ValueAt(n + 1, key)), key, n + 1)
    BY <2>4, ColumnGrows
  <2> QED BY <1>2, <2>2, <2>5
<1> QED BY <1>1, <1>2

LEMMA ReadObjectReads ==
  ASSUME NdjsonSource, ReadObject, total_rows \in 0..Len(cmd.objects), ObjectsRead(total_rows)
  PROVE  ObjectsRead(total_rows)' /\ total_rows' = total_rows + 1 /\ total_rows' \in 0..Len(cmd.objects)
<1> PICK n, h : n = total_rows /\ h = result_header
  OBVIOUS
<1>1. /\ Len(cmd.objects) \in Nat /\ DOMAIN cmd.objects = 1..Len(cmd.objects)
      /\ n \in Nat /\ n < Len(cmd.objects)
  <2>1. total_rows < Len(cmd.objects)
    BY DEF ReadObject
  <2> QED BY <2>1, NdjsonSourceFacts
<1>2. HeaderFits(h, n) /\ \A key \in Range(h) : ColumnFits(csv_map[key], key, n)
  BY DEF ObjectsRead
<1> PICK object : object = cmd.objects[n + 1]
  OBVIOUS
<1>3. KeysOf(n + 1) = Range(object.keys)
  BY DEF KeysOf
<1>4. cmd' = cmd /\ total_rows' = n + 1
  BY DEF ReadObject
<1>5. result_header' = h \o Without(object.keys, Range(h))
  BY DEF ReadObject, NewKeys, Without
<1>6. HeaderFits(result_header', n + 1) /\ Range(result_header') = Range(h) \cup KeysOf(n + 1)
  BY <1>1, <1>2, <1>5, HeaderGrows
<1>7. ASSUME NEW key \in Range(result_header')
      PROVE  ColumnFits(csv_map'[key], key, n + 1)
  <2> PICK values : values = ValuesOf(key)
    OBVIOUS
  <2>1. /\ key \in Range(h) => ColumnFits(values, key, n)
        /\ key \notin Range(h) => values = <<>>
    BY <1>2 DEF ValuesOf
  <2>2. /\ key \in KeysOf(n + 1) =>
             ColumnFits(Append(Aligned(values, n), ValueAt(n + 1, key)), key, n + 1)
        /\ key \in Range(h) \ KeysOf(n + 1) =>
             Len(values) # n + 1 /\ ColumnFits(Append(values, ""), key, n + 1)
    BY <1>1, <1>2, <2>1, ColumnFilled
  <2>3. csv_map'[key] =
          IF key \in KeysOf(n + 1) THEN Append(Aligned(values, n), ValueAt(n + 1, key))
          ELSE IF Len(values) # n + 1 THEN Append(values, "") ELSE values
    <3>1. csv_map'[key] =
            IF key \in Range(object.keys)
            THEN Append(Aligned(values, n), Converted(object.values[PlaceIn(object, key)]))
            ELSE IF Len(values) # n + 1 THEN Append(values, "") ELSE values
      BY DEF ReadObject
    <3> QED BY <1>3, <3>1 DEF ValueAt
  <2> QED BY <1>6, <2>2, <2>3
<1>8. ObjectsRead(total_rows)'
  <2>1. /\ HeaderFits(result_header, total_rows)' <=> HeaderFits(result_header', n + 1)
        /\ \A key : ColumnFits(csv_map[key], key, total_rows)' <=> ColumnFits(csv_map'[key], key, n + 1)
    <3>1. /\ \A r : KeysOf(r)' = KeysOf(r)
          /\ \A key : FirstObject(key)' = FirstObject(key)
          /\ \A r, key : ValueAt(r, key)' = ValueAt(r, key)
      BY <1>4 DEF KeysOf, FirstObject, ValueAt, PlaceIn, Converted
    <3> QED BY <1>4, <3>1 DEF HeaderFits, ColumnFits
  <2> QED BY <1>6, <1>7, <2>1 DEF ObjectsRead
<1> QED BY <1>1, <1>4, <1>8

LEMMA NdjsonStep == NdjsonInv /\ [In2csvNext]_<<toolVars, in2csvVars>> => NdjsonInv'
<1> SUFFICES ASSUME NdjsonInv, [In2csvNext]_<<toolVars, in2csvVars>>, cmd'.tool = "in2csv"
             PROVE  NdjsonInv'
  BY DEF NdjsonInv
<1>1. cmd' = cmd
  BY DEF toolVars, In2csvNext, In2csvStart, ReadObject, ReadNothing, PrintHeader, PrintRow, In2csvEnd, Goto
<1>2. /\ NdjsonSource /\ at \in {"start", "failed", "reading", "printing", "done"}
      /\ at = "start" => total_rows = 0 /\ result_header = <<>> /\ printed = 0
      /\ at \in {"reading", "printing", "done"} =>
           total_rows \in 0..Len(cmd.objects) /\ ObjectsRead(total_rows)
      /\ at = "reading" => printed = 0
      /\ at \in {"printing", "done"} =>
           total_rows = Len(cmd.objects) /\ printed \in 0..total_rows /\ ObjectsShown(printed)
      /\ at = "done" => printed = total_rows
  BY <1>1 DEF NdjsonInv
<1>3. NdjsonSource'
  BY <1>1, <1>2, SameObjects
<1>4. Len(cmd.objects) \in Nat
  BY <1>2, NdjsonSourceFacts
<1>5. ASSUME UNCHANGED in2csvVars PROVE ObjectsRead(total_rows)' <=> ObjectsRead(total_rows)
  <2>1. result_header' = result_header /\ csv_map' = csv_map /\ total_rows' = total_rows
    BY <1>5 DEF in2csvVars
  <2>2. HeaderFits(result_header, total_rows)' <=> HeaderFits(result_header, total_rows)
    <3>1. /\ \A r : KeysOf(r)' = KeysOf(r)
          /\ \A key : FirstObject(key)' = FirstObject(key)
      BY <1>1 DEF KeysOf, FirstObject
    <3> QED BY <2>1, <3>1 DEF HeaderFits
  <2>3. \A key : ColumnFits(csv_map[key], key, total_rows)' <=> ColumnFits(csv_map[key], key, total_rows)
    <3>1. \A r, key : ValueAt(r, key)' = ValueAt(r, key)
      BY <1>1 DEF KeysOf, ValueAt, PlaceIn, Converted
    <3> QED BY <2>1, <3>1 DEF ColumnFits
  <2> QED BY <2>1, <2>2, <2>3 DEF ObjectsRead
<1>6. ASSUME UNCHANGED <<result_header, out, printed>> PROVE ObjectsShown(printed)' <=> ObjectsShown(printed)
  <2>1. \A r, key : ValueAt(r, key)' = ValueAt(r, key)
    BY <1>1, SameObjects
  <2> QED BY <1>6, <2>1 DEF ObjectsShown
<1>7. CASE In2csvStart
  <2>1. /\ at = "start" /\ at' \in {"failed", "reading"} /\ UNCHANGED in2csvVars
        /\ total_rows' = 0 /\ printed' = 0
    BY <1>2, <1>7 DEF In2csvStart, Goto, in2csvVars
  <2>2. ObjectsRead(0)
    BY <1>2, <2>1, HeaderBegins DEF ObjectsRead, Range
  <2>3. ObjectsRead(total_rows)'
    BY <1>2, <1>5, <2>1, <2>2
  <2> QED BY <1>1, <1>3, <1>4, <2>1, <2>3 DEF NdjsonInv
<1>8. CASE ReadObject
  <2>1. at = "reading" /\ at' = at /\ printed' = printed
    BY <1>8 DEF ReadObject
  <2>2. ObjectsRead(total_rows)' /\ total_rows' \in 0..Len(cmd.objects)
    BY <1>2, <1>8, <2>1, ReadObjectReads
  <2> QED BY <1>1, <1>2, <1>3, <2>1, <2>2 DEF NdjsonInv
<1>9. CASE PrintHeader
  <2>1. /\ at = "reading" /\ at' = "printing" /\ total_rows = Len(cmd.objects)
        /\ UNCHANGED in2csvVars /\ out' = <<result_header>>
    BY <1>9 DEF PrintHeader, Goto, in2csvVars
  <2>2. printed' = 0 /\ total_rows' = total_rows /\ result_header' = result_header
    BY <1>2, <2>1 DEF in2csvVars
  <2>3. ObjectsShown(printed)'
    <3> PICK t : t = <<result_header>>
      OBVIOUS
    <3>1. t \in Seq({result_header}) /\ Len(t) = 1 /\ t[1] = result_header
      OBVIOUS
    <3>2. IsSeq(t)
      BY <3>1, SeqIsSeq
    <3> QED BY <2>1, <2>2, <3>1, <3>2 DEF ObjectsShown
  <2>4. ObjectsRead(total_rows)'
    BY <1>2, <1>5, <2>1
  <2> QED BY <1>1, <1>2, <1>3, <1>4, <2>1, <2>2, <2>3, <2>4 DEF NdjsonInv
<1>10. CASE PrintRow
  <2>p. PICK n, row : n = printed /\ row = [k \in DOMAIN result_header |-> csv_map[result_header[k]][n + 1]]
    OBVIOUS
  <2>1. /\ at = "printing" /\ at' = at /\ printed < total_rows /\ printed' = n + 1
        /\ out' = Append(out, row)
        /\ UNCHANGED <<csv_map, result_header, total_rows>>
    BY <1>10, <2>p DEF PrintRow
  <2>2. /\ total_rows = Len(cmd.objects) /\ n \in 0..total_rows /\ n + 1 \in 1..total_rows
        /\ IsSeq(out) /\ Len(out) = n + 1 /\ out[1] = result_header
        /\ \A r \in 1..n : out[r + 1] = [k \in DOMAIN result_header |-> ValueAt(r, result_header[k])]
    BY <1>2, <1>4, <2>1, <2>p DEF ObjectsShown
  <2>3. row = [k \in DOMAIN result_header |-> ValueAt(n + 1, result_header[k])]
    <3>1. ASSUME NEW k \in DOMAIN result_header
          PROVE  csv_map[result_header[k]][n + 1] = ValueAt(n + 1, result_header[k])
      <4>1. result_header[k] \in Range(result_header)
        BY DEF Range
      <4>2. ColumnFits(csv_map[result_header[k]], result_header[k], total_rows)
        BY <1>2, <2>1, <4>1 DEF ObjectsRead
      <4> QED BY <2>2, <4>2 DEF ColumnFits
    <3> QED BY <2>p, <3>1
  <2>4. /\ IsSeq(out') /\ Len(out') = (n + 1) + 1
        /\ out'[(n + 1) + 1] = row
        /\ \A i \in 1..(n + 1) : out'[i] = out[i]
    <3>p. PICK old, new : old = out /\ new = out'
      OBVIOUS
    <3>1. IsSeq(old) /\ new = Append(old, row) /\ Len(old) = n + 1
      BY <2>1, <2>2, <3>p
    <3>a. IsSeq(old) /\ new = Append(old, row)
      BY <3>1
    <3>c. IsSeq(new)
      BY <3>a, AppendedAny
    <3>d. Len(new) = Len(old) + 1
      BY <3>a, AppendedAny
    <3>e. new[Len(old) + 1] = row
      BY <3>a, AppendedAny
    <3>f. \A i \in 1..Len(old) : new[i] = old[i]
      BY <3>a, AppendedAny
    <3>2. /\ IsSeq(new) /\ Len(new) = Len(old) + 1 /\ new[Len(old) + 1] = row
          /\ \A i \in 1..Len(old) : new[i] = old[i]
      BY <3>c, <3>d, <3>e, <3>f
    <3> QED BY <3>p, <3>1, <3>2
  <2>5. ObjectsShown(printed)'
    <3>1. \A r, key : ValueAt(r, key)' = ValueAt(r, key)
      BY <1>1, SameObjects
    <3>2. ASSUME NEW r \in 1..(n + 1)
          PROVE  out'[r + 1] = [k \in DOMAIN result_header |-> ValueAt(r, result_header[k])]
      <4>1. CASE r = n + 1
        BY <2>3, <2>4, <4>1
      <4>2. CASE r \in 1..n
        <5>1. r + 1 \in 1..(n + 1)
          BY <2>2, <4>2
        <5> QED BY <2>2, <2>4, <4>2, <5>1
      <4> QED BY <2>2, <4>1, <4>2
    <3>3. out'[1] = result_header
      BY <2>2, <2>4
    <3> QED BY <2>1, <2>4, <3>1, <3>2, <3>3 DEF ObjectsShown
  <2>6. ObjectsRead(total_rows)'
    <3>1. HeaderFits(result_header, total_rows)' <=> HeaderFits(result_header, total_rows)
      <4>1. /\ \A r : KeysOf(r)' = KeysOf(r)
            /\ \A key : FirstObject(key)' = FirstObject(key)
        BY <1>1 DEF KeysOf, FirstObject
      <4> QED BY <2>1, <4>1 DEF HeaderFits
    <3>2. \A key : ColumnFits(csv_map[key], key, total_rows)' <=> ColumnFits(csv_map[key], key, total_rows)
      <4>1. \A r, key : ValueAt(r, key)' = ValueAt(r, key)
        BY <1>1, SameObjects
      <4> QED BY <2>1, <4>1 DEF ColumnFits
    <3> QED BY <1>2, <2>1, <3>1, <3>2 DEF ObjectsRead
  <2> QED BY <1>1, <1>2, <1>3, <2>1, <2>2, <2>5, <2>6 DEF NdjsonInv
<1>11. CASE In2csvEnd
  <2>1. /\ at = "printing" /\ at' = "done" /\ printed = total_rows
        /\ UNCHANGED in2csvVars /\ out' = out
    BY <1>11 DEF In2csvEnd, Goto, Quiet
  <2>2. ObjectsRead(total_rows)' /\ ObjectsShown(printed)' /\ printed' = printed /\ total_rows' = total_rows
    BY <1>2, <1>5, <1>6, <2>1 DEF in2csvVars
  <2> QED BY <1>1, <1>2, <1>3, <2>1, <2>2 DEF NdjsonInv
<1>12. CASE UNCHANGED <<toolVars, in2csvVars>>
  <2>1. at' = at /\ out' = out /\ UNCHANGED in2csvVars
    BY <1>12 DEF toolVars
  <2>2. (ObjectsRead(total_rows)' <=> ObjectsRead(total_rows)) /\ (ObjectsShown(printed)' <=> ObjectsShown(printed))
        /\ printed' = printed /\ total_rows' = total_rows /\ result_header' = result_header
    BY <1>5, <1>6, <2>1 DEF in2csvVars
  <2> QED BY <1>1, <1>2, <1>3, <2>1, <2>2 DEF NdjsonInv
<1>13. CASE ReadNothing
  <2>1. at' = "failed"
    BY <1>13 DEF ReadNothing, Goto
  <2> QED BY <1>3, <2>1 DEF NdjsonInv
<1> QED BY <1>7, <1>8, <1>9, <1>10, <1>11, <1>12, <1>13 DEF In2csvNext

LEMMA NdjsonInvariant == In2csvSpec => []NdjsonInv
<1>1. ToolInit /\ In2csvInit => NdjsonInv
  BY In2csvAssumption DEF ToolInit, In2csvInit, NdjsonInv, NdjsonSource
<1>2. NdjsonInv /\ [In2csvNext]_<<toolVars, in2csvVars>> => NdjsonInv'
  BY NdjsonStep
<1> QED BY <1>1, <1>2, PTL DEF In2csvSpec

\* The table of any objects has a column for every key, in the order in which the objects
\* had them, and a row for every object with its values under its keys and blanks under
\* the others, although columns are added while rows are read (update_result_header,
\* fill_func, csv_map).
THEOREM NdjsonTabulates == In2csvSpec => []NdjsonTable
<1>1. NdjsonInv => NdjsonTable
  <2> SUFFICES ASSUME NdjsonInv, cmd.tool = "in2csv", at = "done" PROVE NdjsonTable
    BY DEF NdjsonTable
  <2> PICK n : n = Len(cmd.objects)
    OBVIOUS
  <2>1. /\ NdjsonSource /\ HeaderFits(result_header, n) /\ ObjectsShown(n)
        /\ n \in Nat /\ DOMAIN cmd.objects = 1..n
    BY NdjsonSourceFacts DEF NdjsonInv, ObjectsRead
  <2>2. Len(out) = n + 1 /\ out[1] = result_header
    BY <2>1 DEF ObjectsShown
  <2>3. Range(out[1]) = UNION {Range(cmd.objects[r].keys) : r \in DOMAIN cmd.objects}
    BY <2>1, <2>2 DEF HeaderFits, KeysOf
  <2>4. \A j, k \in DOMAIN out[1] : j < k =>
          out[1][j] # out[1][k] /\ FirstObject(out[1][j]) <= FirstObject(out[1][k])
    BY <2>1, <2>2 DEF HeaderFits
  <2>5. \A r \in DOMAIN cmd.objects : out[r + 1] = [k \in DOMAIN out[1] |-> ValueAt(r, out[1][k])]
    BY <2>1, <2>2 DEF ObjectsShown
  <2> QED BY <2>2, <2>3, <2>4, <2>5 DEF NdjsonTable, FirstObject, KeysOf, ValueAt
<1> QED BY <1>1, NdjsonInvariant, PTL
===============================================================================
