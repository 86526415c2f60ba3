------------------------------ MODULE AnySequence ------------------------------
(***************************************************************************)
(* Facts about sequences whose elements are anything: rows, effects,       *)
(* sources; and the principle of induction by which facts about recursive  *)
(* definitions are proved.                                                 *)
(***************************************************************************)
EXTENDS IsSequence, SequenceTheorems, WellFoundedInduction, TLAPS

-------------------------------------------------------------------------------
(* Sequences of anything.                                                    *)

LEMMA SeqIsSeq ==
  ASSUME NEW S, NEW s \in Seq(S)
  PROVE  /\ IsSeq(s)
         /\ Len(s) \in Nat /\ DOMAIN s = 1..Len(s)
<1>1. Len(s) \in Nat /\ DOMAIN s = 1..Len(s) /\ s \in [1..Len(s) -> S]
  BY LenProperties
<1>2. s \in [1..Len(s) -> {s[i] : i \in DOMAIN s}]
  BY <1>1
<1>3. s \in Seq({s[i] : i \in DOMAIN s})
  BY <1>1, <1>2, SeqDef
<1> QED BY <1>1, <1>3 DEF IsSeq

\* The length is the only number the domain counts up to.
LEMMA LenOfDomain ==
  ASSUME NEW S, NEW s \in Seq(S), NEW n \in Nat, DOMAIN s = 1..n
  PROVE  Len(s) = n
<1>1. Len(s) \in Nat /\ 1..Len(s) = 1..n
  BY SeqIsSeq
<1>2. CASE Len(s) < n
  <2>1. n \in 1..n /\ n \notin 1..Len(s)
    BY <1>1, <1>2
  <2> QED BY <1>1, <2>1
<1>3. CASE n < Len(s)
  <2>1. Len(s) \in 1..Len(s) /\ Len(s) \notin 1..n
    BY <1>1, <1>3
  <2> QED BY <1>1, <2>1
<1> QED BY <1>1, <1>2, <1>3

LEMMA IsSeqFacts ==
  ASSUME NEW s, IsSeq(s)
  PROVE  Len(s) \in Nat /\ DOMAIN s = 1..Len(s)
BY SeqIsSeq DEF IsSeq

LEMMA IsSeqIn ==
  ASSUME NEW s, IsSeq(s), NEW S, \A i \in DOMAIN s : s[i] \in S
  PROVE  s \in Seq(S)
<1>1. {s[i] : i \in DOMAIN s} \subseteq S
  OBVIOUS
<1> QED BY <1>1, SeqMonotonic DEF IsSeq

LEMMA IsSeqAppend ==
  ASSUME NEW s, IsSeq(s), NEW x
  PROVE  /\ IsSeq(Append(s, x)) /\ Len(Append(s, x)) = Len(s) + 1
<1> DEFINE S == {s[i] : i \in DOMAIN s} \cup {x}
<1>1. s \in Seq(S)
  <2>1. \A i \in DOMAIN s : s[i] \in S
    OBVIOUS
  <2> HIDE DEF S
  <2> QED BY <2>1, IsSeqIn
<1> HIDE DEF S
<1>2. x \in S
  BY DEF S
<1>3. Append(s, x) \in Seq(S) /\ Len(Append(s, x)) = Len(s) + 1
  BY <1>1, <1>2
<1> QED BY <1>3, SeqIsSeq

LEMMA IsSeqExcept ==
  ASSUME NEW s, IsSeq(s), NEW i \in DOMAIN s, NEW x
  PROVE  /\ IsSeq([s EXCEPT ![i] = x])
         /\ Len([s EXCEPT ![i] = x]) = Len(s)
         /\ \A j \in DOMAIN s : [s EXCEPT ![i] = x][j] = IF j = i THEN x ELSE s[j]
<1> DEFINE S == {s[j] : j \in DOMAIN s} \cup {x}
           t == [s EXCEPT ![i] = x]
<1>1. Len(s) \in Nat /\ DOMAIN s = 1..Len(s)
  BY IsSeqFacts
<1>2. s \in Seq(S)
  <2>1. \A j \in DOMAIN s : s[j] \in S
    OBVIOUS
  <2> HIDE DEF S
  <2> QED BY <2>1, IsSeqIn
<1>3. x \in S
  OBVIOUS
<1> HIDE DEF S
<1>4. /\ t \in Seq(S) /\ Len(t) = Len(s)
      /\ \A j \in DOMAIN s : t[j] = IF j = i THEN x ELSE s[j]
  BY <1>1, <1>2, <1>3, ExceptSeq
<1> HIDE DEF t
<1>5. IsSeq(t)
  BY <1>4, SeqIsSeq
<1> QED BY <1>4, <1>5 DEF t

LEMMA IsSeqEmpty == IsSeq(<<>>) /\ Len(<<>>) = 0
BY DEF IsSeq

\* A function on 1..n is a sequence.
LEMMA IsSeqFunction ==
  ASSUME NEW n \in Nat, NEW f, f = [i \in 1..n |-> f[i]]
  PROVE  IsSeq(f) /\ Len(f) = n
<1> DEFINE S == {f[i] : i \in 1..n}
<1>1. f \in [1..n -> S]
  OBVIOUS
<1>2. f \in Seq(S) /\ DOMAIN f = 1..n
  <2>1. DOMAIN f = 1..n
    BY <1>1
  <2> HIDE DEF S
  <2> QED BY <1>1, <2>1, SeqDef
<1> HIDE DEF S
<1> QED BY <1>2, SeqIsSeq, LenOfDomain

LEMMA IsSeqConcat ==
  ASSUME NEW s, IsSeq(s), NEW t, IsSeq(t)
  PROVE  /\ IsSeq(s \o t) /\ Len(s \o t) = Len(s) + Len(t)
         /\ \A i \in 1..Len(s) : (s \o t)[i] = s[i]
         /\ \A i \in 1..Len(t) : (s \o t)[Len(s) + i] = t[i]
<1> DEFINE S == {s[i] : i \in DOMAIN s} \cup {t[i] : i \in DOMAIN t}
           r == s \o t
<1>1. /\ Len(s) \in Nat /\ DOMAIN s = 1..Len(s)
      /\ Len(t) \in Nat /\ DOMAIN t = 1..Len(t)
  BY IsSeqFacts
<1>2. (\A i \in DOMAIN s : s[i] \in S) /\ (\A i \in DOMAIN t : t[i] \in S)
  OBVIOUS
<1> HIDE DEF S
<1>3. s \in Seq(S) /\ t \in Seq(S)
  BY <1>2, IsSeqIn
<1>4. /\ r \in Seq(S) /\ Len(r) = Len(s) + Len(t)
      /\ \A i \in 1..(Len(s) + Len(t)) :
           r[i] = IF i <= Len(s) THEN s[i] ELSE t[i - Len(s)]
  BY <1>3, ConcatProperties
<1> HIDE DEF r
<1>5. IsSeq(r)
  BY <1>4, SeqIsSeq
<1>6. \A i \in 1..Len(s) : r[i] = s[i]
  BY <1>1, <1>4
<1>7. \A i \in 1..Len(t) : r[Len(s) + i] = t[i]
  <2> TAKE i \in 1..Len(t)
  <2>1. /\ Len(s) + i \in 1..(Len(s) + Len(t)) /\ ~(Len(s) + i <= Len(s))
        /\ (Len(s) + i) - Len(s) = i
    BY <1>1
  <2> QED BY <1>4, <2>1
<1> QED BY <1>4, <1>5, <1>6, <1>7 DEF r

LEMMA IsSeqPrefix ==
  ASSUME NEW s, IsSeq(s), NEW n \in 0..Len(s)
  PROVE  /\ IsSeq(SubSeq(s, 1, n)) /\ Len(SubSeq(s, 1, n)) = n
         /\ \A i \in 1..n : SubSeq(s, 1, n)[i] = s[i]
<1> DEFINE S == {s[i] : i \in DOMAIN s}
           t == SubSeq(s, 1, n)
<1>1. /\ Len(s) \in Nat /\ DOMAIN s = 1..Len(s) /\ n \in Nat /\ n <= Len(s)
  BY IsSeqFacts
<1>2. \A i \in 1..n : s[i] \in S
  BY <1>1
<1>3. s \in Seq(S)
  BY DEF IsSeq
<1> HIDE DEF S
<1>4. t \in Seq(S) /\ Len(t) = n /\ \A i \in 1..n : t[i] = s[i]
  BY <1>1, <1>2, <1>3, SubSeqProperties
<1> HIDE DEF t
<1> QED BY <1>4, SeqIsSeq DEF t

-------------------------------------------------------------------------------
(* Induction.  The theorems of the library take the statement to be proved   *)
(* as an operator, which no backend instantiates; here it is a set, the      *)
(* numbers for which the statement holds.                                    *)

LEMMA Induction ==
  ASSUME NEW S, 0 \in S, \A n \in Nat : n \in S => n + 1 \in S
  PROVE  Nat \subseteq S
<1> DEFINE T == Nat \ S
           R == {ss \in Nat \X Nat : ss[1] < ss[2]}
<1> SUFFICES ASSUME T # {} PROVE FALSE
  OBVIOUS
<1>1. T \subseteq Nat
  OBVIOUS
<1>2. IsWellFoundedOn(R, Nat)
  BY NatLessThanWellFounded DEF OpToRel
<1>3. \A x, y \in Nat : x < y => <<x, y>> \in R
  OBVIOUS
<1> HIDE DEF T, R
<1>4. PICK n \in T : \A m \in T : ~(<<m, n>> \in R)
  BY <1>1, <1>2, WFMin
<1>5. n # 0 /\ n \in Nat
  BY <1>4 DEF T
<1>6. n - 1 \in Nat /\ n - 1 < n /\ (n - 1) + 1 = n
  BY <1>5
<1>7. n - 1 \in S
  BY <1>3, <1>4, <1>5, <1>6 DEF T
<1> QED BY <1>4, <1>6, <1>7 DEF T

\* Numbers have a least one among them.
LEMMA Least ==
  ASSUME NEW S \in SUBSET Nat, S # {}
  PROVE  \E n \in S : \A m \in S : n <= m
<1> DEFINE T == {n \in Nat : \A m \in S : n <= m}
<1> SUFFICES ASSUME \A n \in S : n \notin T PROVE FALSE
  OBVIOUS
<1>1. 0 \in T
  OBVIOUS
<1>2. ASSUME NEW n \in Nat, n \in T PROVE n + 1 \in T
  <2>1. n \notin S
    BY <1>2
  <2>2. \A m \in S : n <= m /\ m # n
    BY <1>2, <2>1
  <2> QED BY <2>2
<1> HIDE DEF T
<1>3. Nat \subseteq T
  BY <1>1, <1>2, Induction
<1> QED BY <1>3

-------------------------------------------------------------------------------
(* FlattenSeq, which is a recursive function of the places of a sequence of  *)
(* sequences.                                                                *)

Flattening(seqs, n, f) ==
  f = [i \in 1..n |-> IF i = 1 THEN seqs[i] ELSE f[i - 1] \o seqs[i]]

\* One place more.
LEMMA FlatteningStep ==
  ASSUME NEW seqs, NEW n \in Nat, NEW f, Flattening(seqs, n, f)
  PROVE  \E g : Flattening(seqs, n + 1, g)
<1> DEFINE g == [i \in 1..(n + 1) |->
                   IF i = n + 1 THEN (IF n = 0 THEN seqs[1] ELSE f[n] \o seqs[n + 1]) ELSE f[i]]
<1>1. ASSUME NEW i \in 1..(n + 1)
      PROVE  g[i] = IF i = 1 THEN seqs[i] ELSE g[i - 1] \o seqs[i]
  <2>1. CASE i = n + 1 /\ n = 0
    BY <2>1
  <2>2. CASE i = n + 1 /\ n # 0
    <3>1. i # 1 /\ i - 1 = n /\ n \in 1..(n + 1) /\ n # n + 1
      BY <2>2
    <3>2. g[n] = f[n] /\ g[i] = f[n] \o seqs[n + 1]
      BY <2>2, <3>1
    <3> HIDE DEF g
    <3> QED BY <2>2, <3>1, <3>2
  <2>3. CASE i # n + 1
    <3>1. i \in 1..n
      BY <2>3
    <3>2. f[i] = IF i = 1 THEN seqs[i] ELSE f[i - 1] \o seqs[i]
      BY <3>1 DEF Flattening
    <3>3. i # 1 => i - 1 \in 1..(n + 1) /\ i - 1 # n + 1
      BY <3>1
    <3>4. g[i] = f[i] /\ (i # 1 => g[i - 1] = f[i - 1])
      BY <3>1, <3>3
    <3> HIDE DEF g
    <3> QED BY <3>2, <3>4
  <2> QED BY <2>1, <2>2, <2>3
<1>2. g = [i \in 1..(n + 1) |-> g[i]]
  OBVIOUS
<1> HIDE DEF g
<1>3. g = [i \in 1..(n + 1) |-> IF i = 1 THEN seqs[i] ELSE g[i - 1] \o seqs[i]]
  BY <1>1, <1>2
<1> QED BY <1>3 DEF Flattening

LEMMA FlatteningExists ==
  ASSUME NEW seqs, NEW n \in Nat
  PROVE  \E f : Flattening(seqs, n, f)
<1> DEFINE S == {m \in Nat : \E f : Flattening(seqs, m, f)}
<1>1. 0 \in S
  <2>1. Flattening(seqs, 0, [i \in 1..0 |-> i])
    BY DEF Flattening
  <2> QED BY <2>1
<1>2. \A m \in Nat : m \in S => m + 1 \in S
  BY FlatteningStep
<1> HIDE DEF S
<1>3. n \in S
  BY <1>1, <1>2, Induction
<1> QED BY <1>3 DEF S

LEMMA FlattenDefined ==
  ASSUME NEW seqs, Len(seqs) \in Nat \ {0}
  PROVE  \E f : Flattening(seqs, Len(seqs), f) /\ FlattenSeq(seqs) = f[Len(seqs)]
<1>1. \E f : f = [i \in 1..Len(seqs) |-> IF i = 1 THEN seqs[i] ELSE f[i - 1] \o seqs[i]]
  BY FlatteningExists DEF Flattening
<1> DEFINE h == CHOOSE f : f = [i \in 1..Len(seqs) |->
                                  IF i = 1 THEN seqs[i] ELSE f[i - 1] \o seqs[i]]
<1>2. h = [i \in 1..Len(seqs) |-> IF i = 1 THEN seqs[i] ELSE h[i - 1] \o seqs[i]]
  BY <1>1
<1>3. FlattenSeq(seqs) = h[Len(seqs)]
  BY DEF FlattenSeq
<1> HIDE DEF h
<1> QED BY <1>2, <1>3 DEF Flattening

\* The elements of s are those of the first n sequences.
Gathered(s, seqs, n) ==
  /\ IsSeq(s)
  /\ \A i \in 1..n : \A k \in DOMAIN seqs[i] : \E m \in DOMAIN s : s[m] = seqs[i][k]
  /\ \A m \in DOMAIN s : \E i \in 1..n : \E k \in DOMAIN seqs[i] : s[m] = seqs[i][k]

LEMMA GatheredStep ==
  ASSUME NEW seqs, NEW n \in Nat, NEW s, Gathered(s, seqs, n), IsSeq(seqs[n + 1])
  PROVE  Gathered(s \o seqs[n + 1], seqs, n + 1)
<1> PICK t : t = seqs[n + 1]
  OBVIOUS
<1> PICK r : r = s \o t
  OBVIOUS
<1>1. /\ Len(s) \in Nat /\ DOMAIN s = 1..Len(s)
      /\ Len(t) \in Nat /\ DOMAIN t = 1..Len(t)
  BY IsSeqFacts DEF Gathered
<1>2. /\ IsSeq(r) /\ Len(r) = Len(s) + Len(t)
      /\ \A i \in 1..Len(s) : r[i] = s[i]
      /\ \A i \in 1..Len(t) : r[Len(s) + i] = t[i]
  BY IsSeqConcat DEF Gathered
<1>3. DOMAIN r = 1..(Len(s) + Len(t))
  BY <1>2, IsSeqFacts
<1>4. \A i \in 1..(n + 1) : i \in 1..n \/ i = n + 1
  OBVIOUS
<1>5. (\A i \in 1..Len(s) : i \in DOMAIN r) /\ (\A i \in 1..Len(t) : Len(s) + i \in DOMAIN r)
  BY <1>1, <1>3
<1>6. \A i \in 1..(n + 1) : \A k \in DOMAIN seqs[i] : \E m \in DOMAIN r : r[m] = seqs[i][k]
  <2> TAKE i \in 1..(n + 1)
  <2> TAKE k \in DOMAIN seqs[i]
  <2>1. CASE i \in 1..n
    <3>1. PICK m \in DOMAIN s : s[m] = seqs[i][k]
      BY <2>1 DEF Gathered
    <3> QED BY <1>1, <1>2, <1>5, <3>1
  <2>2. CASE i = n + 1
    BY <1>1, <1>2, <1>5, <2>2
  <2> QED BY <1>4, <2>1, <2>2
<1>7. \A m \in DOMAIN r : \E i \in 1..(n + 1) : \E k \in DOMAIN seqs[i] : r[m] = seqs[i][k]
  <2> TAKE m \in DOMAIN r
  <2>1. CASE m <= Len(s)
    <3>1. m \in DOMAIN s /\ r[m] = s[m]
      BY <1>1, <1>2, <1>3, <2>1
    <3>2. PICK i \in 1..n : \E k \in DOMAIN seqs[i] : s[m] = seqs[i][k]
      BY <3>1 DEF Gathered
    <3>3. i \in 1..(n + 1)
      BY <3>2
    <3> QED BY <3>1, <3>2, <3>3
  <2>2. CASE ~(m <= Len(s))
    <3>1. m - Len(s) \in 1..Len(t) /\ Len(s) + (m - Len(s)) = m
      BY <1>1, <1>3, <2>2
    <3>2. m - Len(s) \in DOMAIN t /\ r[m] = t[m - Len(s)]
      BY <1>1, <1>2, <3>1
    <3>3. n + 1 \in 1..(n + 1)
      OBVIOUS
    <3> QED BY <3>2, <3>3
  <2> QED BY <2>1, <2>2
<1> QED BY <1>2, <1>6, <1>7 DEF Gathered

\* FlattenSeq has the elements of all the sequences, and no others.
LEMMA FlattenFacts ==
  ASSUME NEW seqs, IsSeq(seqs), \A i \in DOMAIN seqs : IsSeq(seqs[i])
  PROVE  Gathered(FlattenSeq(seqs), seqs, Len(seqs))
<1>1. Len(seqs) \in Nat /\ DOMAIN seqs = 1..Len(seqs)
  BY IsSeqFacts
<1>2. CASE Len(seqs) = 0
  <2>1. FlattenSeq(seqs) = seqs /\ DOMAIN seqs = {}
    BY <1>1, <1>2 DEF FlattenSeq
  <2> QED BY <1>2, <2>1 DEF Gathered
<1>3. CASE Len(seqs) # 0
  <2>1. PICK f : Flattening(seqs, Len(seqs), f) /\ FlattenSeq(seqs) = f[Len(seqs)]
    BY <1>1, <1>3, FlattenDefined
  <2>2. \A i \in 1..Len(seqs) : f[i] = IF i = 1 THEN seqs[i] ELSE f[i - 1] \o seqs[i]
    BY <2>1 DEF Flattening
  <2> DEFINE S == {m \in Nat : m \in 1..Len(seqs) => Gathered(f[m], seqs, m)}
  <2>3. 0 \in S
    OBVIOUS
  <2>4. ASSUME NEW m \in Nat, m \in S PROVE m + 1 \in S
    <3> SUFFICES ASSUME m + 1 \in 1..Len(seqs) PROVE Gathered(f[m + 1], seqs, m + 1)
      OBVIOUS
    <3>1. IsSeq(seqs[m + 1])
      BY <1>1
    <3>2. CASE m = 0
      <4>1. f[1] = seqs[1] /\ IsSeq(seqs[1])
        BY <2>2, <3>1, <3>2
      <4>2. Gathered(seqs[1], seqs, 1)
        BY <4>1 DEF Gathered
      <4> QED BY <3>2, <4>1, <4>2
    <3>3. CASE m # 0
      <4>1. m \in 1..Len(seqs) /\ m + 1 # 1 /\ (m + 1) - 1 = m
        BY <1>1, <3>3
      <4>2. f[m + 1] = f[m] \o seqs[m + 1]
        BY <2>2, <4>1
      <4>3. Gathered(f[m], seqs, m)
        BY <2>4, <4>1
      <4> QED BY <3>1, <4>2, <4>3, GatheredStep
    <3> QED BY <3>2, <3>3
  <2> HIDE DEF S
  <2>5. Len(seqs) \in S
    BY <1>1, <2>3, <2>4, Induction
  <2> QED BY <1>1, <1>3, <2>1, <2>5 DEF S
<1> QED BY <1>2, <1>3

\* One sequence more at the end.
LEMMA FlattenOne ==
  ASSUME NEW s, Len(s) = 1
  PROVE  FlattenSeq(s) = s[1]
<1>1. Len(s) \in Nat \ {0}
  OBVIOUS
<1>2. PICK f : Flattening(s, Len(s), f) /\ FlattenSeq(s) = f[Len(s)]
  BY <1>1, FlattenDefined
<1> QED BY <1>2 DEF Flattening

LEMMA FlattenMore ==
  ASSUME NEW n \in Nat \ {0}, NEW s, Len(s) = n, NEW t, Len(t) = n + 1,
         \A i \in 1..n : t[i] = s[i]
  PROVE  FlattenSeq(t) = FlattenSeq(s) \o t[n + 1]
<1>1. PICK f : Flattening(s, n, f) /\ FlattenSeq(s) = f[n]
  <2>1. PICK f : Flattening(s, Len(s), f) /\ FlattenSeq(s) = f[Len(s)]
    BY FlattenDefined
  <2> QED BY <2>1
<1>2. PICK g : Flattening(t, n + 1, g) /\ FlattenSeq(t) = g[n + 1]
  <2>1. PICK g : Flattening(t, Len(t), g) /\ FlattenSeq(t) = g[Len(t)]
    <3>1. Len(t) \in Nat \ {0}
      OBVIOUS
    <3> QED BY <3>1, FlattenDefined
  <2> QED BY <2>1
<1>3. \A i \in 1..n : f[i] = IF i = 1 THEN s[i] ELSE f[i - 1] \o s[i]
  BY <1>1 DEF Flattening
<1>4. \A i \in 1..(n + 1) : g[i] = IF i = 1 THEN t[i] ELSE g[i - 1] \o t[i]
  BY <1>2 DEF Flattening
<1> DEFINE S == {m \in Nat : m \in 1..n => g[m] = f[m]}
<1>5. 0 \in S
  OBVIOUS
<1>6. ASSUME NEW m \in Nat, m \in S PROVE m + 1 \in S
  <2> SUFFICES ASSUME m + 1 \in 1..n PROVE g[m + 1] = f[m + 1]
    OBVIOUS
  <2>1. m + 1 \in 1..(n + 1) /\ t[m + 1] = s[m + 1]
    OBVIOUS
  <2>2. CASE m = 0
    BY <1>3, <1>4, <2>1, <2>2
  <2>3. CASE m # 0
    <3>1. m \in 1..n /\ m + 1 # 1 /\ (m + 1) - 1 = m
      BY <2>3
    <3>2. g[m] = f[m]
      BY <1>6, <3>1
    <3>3. g[m + 1] = g[m] \o t[m + 1]
      BY <1>4, <2>1, <3>1
    <3>4. f[m + 1] = f[m] \o s[m + 1]
      BY <1>3, <3>1
    <3> QED BY <2>1, <3>2, <3>3, <3>4
  <2> QED BY <2>2, <2>3
<1> HIDE DEF S
<1>7. n \in S
  BY <1>5, <1>6, Induction
<1>8. g[n] = f[n]
  BY <1>7 DEF S
<1>9. n + 1 \in 1..(n + 1) /\ n + 1 # 1 /\ (n + 1) - 1 = n
  OBVIOUS
<1>10. g[n + 1] = g[n] \o t[n + 1]
  BY <1>4, <1>9
<1> QED BY <1>1, <1>2, <1>8, <1>10

-------------------------------------------------------------------------------
(* Prefixes, parts and concatenations.                                       *)

LEMMA IsSeqSame ==
  ASSUME NEW s, IsSeq(s), NEW t, IsSeq(t), Len(s) = Len(t), \A i \in 1..Len(s) : s[i] = t[i]
  PROVE  s = t
<1>1. Len(s) \in Nat /\ DOMAIN s = 1..Len(s) /\ DOMAIN t = 1..Len(s)
  BY IsSeqFacts
<1>2. s = [i \in 1..Len(s) |-> s[i]] /\ t = [i \in 1..Len(s) |-> t[i]]
  BY <1>1, SeqDef DEF IsSeq
<1> QED BY <1>2

\* A stretch of a sequence.
LEMMA IsSeqSub ==
  ASSUME NEW s, IsSeq(s), NEW m \in 1..(Len(s) + 1), NEW n \in (m - 1)..Len(s)
  PROVE  /\ IsSeq(SubSeq(s, m, n)) /\ Len(SubSeq(s, m, n)) = n - m + 1
         /\ \A i \in 1..(n - m + 1) : SubSeq(s, m, n)[i] = s[m + i - 1]
<1> DEFINE S == {s[i] : i \in DOMAIN s}
           t == SubSeq(s, m, n)
<1>1. Len(s) \in Nat /\ DOMAIN s = 1..Len(s) /\ m \in Int /\ n \in Int /\ m - 1 <= n
      /\ n <= Len(s) /\ 1 <= m
  BY IsSeqFacts
<1>2. \A i \in m..n : s[i] \in S
  <2> TAKE i \in m..n
  <2>1. i \in 1..Len(s)
    BY <1>1
  <2> QED BY <1>1, <2>1
<1> HIDE DEF S
<1>3. /\ t \in Seq(S) /\ Len(t) = IF m <= n THEN n - m + 1 ELSE 0
      /\ \A i \in 1..(n - m + 1) : t[i] = s[m + i - 1]
  BY <1>1, <1>2, SubSeqProperties
<1> HIDE DEF t
<1>4. Len(t) = n - m + 1
  BY <1>1, <1>3
<1>5. IsSeq(t)
  BY <1>3, SeqIsSeq
<1> QED BY <1>3, <1>4, <1>5 DEF t

LEMMA ConcatEmpty ==
  ASSUME NEW s, IsSeq(s)
  PROVE  s \o <<>> = s /\ <<>> \o s = s
BY ConcatEmptySeq DEF IsSeq

LEMMA ConcatMore ==
  ASSUME NEW s, IsSeq(s), NEW t, IsSeq(t), NEW u, IsSeq(u)
  PROVE  (s \o t) \o u = s \o (t \o u)
<1> DEFINE S == {s[i] : i \in DOMAIN s} \cup {t[i] : i \in DOMAIN t} \cup {u[i] : i \in DOMAIN u}
<1>1. /\ \A i \in DOMAIN s : s[i] \in S
      /\ \A i \in DOMAIN t : t[i] \in S
      /\ \A i \in DOMAIN u : u[i] \in S
  OBVIOUS
<1> HIDE DEF S
<1>2. s \in Seq(S) /\ t \in Seq(S) /\ u \in Seq(S)
  BY <1>1, IsSeqIn
<1> QED BY <1>2, ConcatAssociative

\* What comes first in a sequence.
LEMMA PrefixFacts ==
  ASSUME NEW s, IsSeq(s), NEW t, IsSeq(t)
  PROVE  IsPrefix(s, t) <=> Len(s) <= Len(t) /\ \A i \in 1..Len(s) : s[i] = t[i]
<1> DEFINE a == SubSeq(s, 1, Len(s))
           b == SubSeq(t, 1, Len(s))
<1>1. Len(s) \in Nat /\ Len(t) \in Nat
  BY IsSeqFacts
<1>2. IsSeq(a) /\ Len(a) = Len(s) /\ \A i \in 1..Len(s) : a[i] = s[i]
  <2>1. Len(s) \in 0..Len(s)
    BY <1>1
  <2> QED BY <2>1, IsSeqPrefix
<1>3. ASSUME Len(s) <= Len(t)
      PROVE  IsSeq(b) /\ Len(b) = Len(s) /\ \A i \in 1..Len(s) : b[i] = t[i]
  <2>1. Len(s) \in 0..Len(t)
    BY <1>1, <1>3
  <2> QED BY <2>1, IsSeqPrefix
<1>4. IsPrefix(s, t) <=> Len(s) <= Len(t) /\ a = b
  BY DEF IsPrefix
<1> HIDE DEF a, b
<1>5. ASSUME Len(s) <= Len(t), a = b
      PROVE  \A i \in 1..Len(s) : s[i] = t[i]
  <2> TAKE i \in 1..Len(s)
  <2>1. a[i] = s[i] /\ b[i] = t[i]
    BY <1>2, <1>3, <1>5
  <2> QED BY <1>5, <2>1
<1>6. ASSUME Len(s) <= Len(t), \A i \in 1..Len(s) : s[i] = t[i]
      PROVE  a = b
  <2>1. IsSeq(a) /\ IsSeq(b) /\ Len(a) = Len(b)
    BY <1>2, <1>3, <1>6
  <2>2. \A i \in 1..Len(a) : a[i] = b[i]
    BY <1>2, <1>3, <1>6
  <2> QED BY <2>1, <2>2, IsSeqSame
<1> QED BY <1>4, <1>5, <1>6

LEMMA PrefixConcat ==
  ASSUME NEW s, IsSeq(s), NEW t, IsSeq(t)
  PROVE  IsPrefix(s, s \o t)
<1> PICK r : r = s \o t
  OBVIOUS
<1>1. Len(s) \in Nat /\ Len(t) \in Nat
  BY IsSeqFacts
<1>2. IsSeq(r) /\ Len(r) = Len(s) + Len(t) /\ \A i \in 1..Len(s) : r[i] = s[i]
  BY IsSeqConcat
<1>3. Len(s) <= Len(r)
  BY <1>1, <1>2
<1> QED BY <1>2, <1>3, PrefixFacts

LEMMA PrefixThrough ==
  ASSUME NEW s, IsSeq(s), NEW t, IsSeq(t), NEW u, IsSeq(u), IsPrefix(s, t), IsPrefix(t, u)
  PROVE  IsPrefix(s, u)
<1>1. Len(s) \in Nat /\ Len(t) \in Nat /\ Len(u) \in Nat
  BY IsSeqFacts
<1>2. /\ Len(s) <= Len(t) /\ \A i \in 1..Len(s) : s[i] = t[i]
      /\ Len(t) <= Len(u) /\ \A i \in 1..Len(t) : t[i] = u[i]
  BY PrefixFacts
<1>3. \A i \in 1..Len(s) : i \in 1..Len(t)
  BY <1>1, <1>2
<1>4. Len(s) <= Len(u) /\ \A i \in 1..Len(s) : s[i] = u[i]
  BY <1>1, <1>2, <1>3
<1> QED BY <1>4, PrefixFacts

\* Between two of the sequences that come first in a third is a stretch of it.
LEMMA PrefixGrows ==
  ASSUME NEW s, IsSeq(s), NEW t, IsSeq(t), NEW u, IsSeq(u), IsPrefix(s, t), IsPrefix(t, u)
  PROVE  t = s \o SubSeq(u, Len(s) + 1, Len(t)) /\ Len(t) \in Len(s)..Len(u)
<1> DEFINE k == Len(s)
           m == Len(t)
           w == SubSeq(u, k + 1, m)
<1>1. k \in Nat /\ m \in Nat /\ Len(u) \in Nat
  BY IsSeqFacts
<1>2. /\ k <= m /\ \A i \in 1..k : s[i] = t[i]
      /\ m <= Len(u) /\ \A i \in 1..m : t[i] = u[i]
  BY PrefixFacts
<1>3. k + 1 \in 1..(Len(u) + 1) /\ m \in ((k + 1) - 1)..Len(u) /\ m - (k + 1) + 1 = m - k
  BY <1>1, <1>2
<1>4. /\ IsSeq(w) /\ Len(w) = m - (k + 1) + 1
      /\ \A i \in 1..(m - (k + 1) + 1) : w[i] = u[(k + 1) + i - 1]
  BY <1>3, IsSeqSub
<1> HIDE DEF w
<1>5. /\ IsSeq(s \o w) /\ Len(s \o w) = k + Len(w)
      /\ \A i \in 1..k : (s \o w)[i] = s[i]
      /\ \A i \in 1..Len(w) : (s \o w)[k + i] = w[i]
  BY <1>4, IsSeqConcat
<1>6. Len(w) = m - k /\ Len(s \o w) = m
  BY <1>1, <1>3, <1>4, <1>5
<1>7. \A i \in 1..m : t[i] = (s \o w)[i]
  <2> TAKE i \in 1..m
  <2>1. CASE i <= k
    BY <1>1, <1>2, <1>5, <2>1
  <2>2. CASE ~(i <= k)
    <3>1. i - k \in 1..(m - k) /\ k + (i - k) = i /\ (k + 1) + (i - k) - 1 = i
      BY <1>1, <2>2
    <3>2. (s \o w)[i] = w[i - k]
      BY <1>5, <1>6, <3>1
    <3>3. w[i - k] = u[i]
      BY <1>3, <1>4, <3>1
    <3> QED BY <1>2, <3>2, <3>3
  <2> QED BY <2>1, <2>2
<1>8. t = s \o w
  BY <1>5, <1>6, <1>7, IsSeqSame
<1>9. m \in k..Len(u)
  BY <1>1, <1>2
<1> QED BY <1>8, <1>9 DEF w

LEMMA PrefixOfItself ==
  ASSUME NEW s, IsSeq(s)
  PROVE  IsPrefix(s, s)
<1>1. Len(s) \in Nat
  BY IsSeqFacts
<1> QED BY <1>1, PrefixFacts

\* The first of what follows, after what comes before it.
LEMMA PrefixAfter ==
  ASSUME NEW a, IsSeq(a), NEW s, IsSeq(s), NEW t, IsSeq(t), IsPrefix(s, t)
  PROVE  IsPrefix(a \o s, a \o t)
<1>1. /\ Len(a) \in Nat /\ Len(s) \in Nat /\ Len(t) \in Nat
      /\ Len(s) <= Len(t) /\ \A i \in 1..Len(s) : s[i] = t[i]
  BY IsSeqFacts, PrefixFacts
<1> PICK p : p = a \o s
  OBVIOUS
<1> PICK q : q = a \o t
  OBVIOUS
<1>2. /\ IsSeq(p) /\ Len(p) = Len(a) + Len(s)
      /\ \A i \in 1..Len(a) : p[i] = a[i]
      /\ \A i \in 1..Len(s) : p[Len(a) + i] = s[i]
  BY IsSeqConcat
<1>3. /\ IsSeq(q) /\ Len(q) = Len(a) + Len(t)
      /\ \A i \in 1..Len(a) : q[i] = a[i]
      /\ \A i \in 1..Len(t) : q[Len(a) + i] = t[i]
  BY IsSeqConcat
<1>4. ASSUME NEW i \in 1..Len(p)
      PROVE  p[i] = q[i]
  <2>1. CASE i <= Len(a)
    <3>1. i \in 1..Len(a)
      BY <1>1, <1>2, <2>1
    <3> QED BY <1>2, <1>3, <3>1
  <2>2. CASE ~(i <= Len(a))
    <3>1. i - Len(a) \in 1..Len(s) /\ i - Len(a) \in 1..Len(t) /\ Len(a) + (i - Len(a)) = i
      BY <1>1, <1>2, <2>2
    <3>2. p[i] = s[i - Len(a)] /\ q[i] = t[i - Len(a)]
      BY <1>2, <1>3, <3>1
    <3> QED BY <1>1, <3>1, <3>2
  <2> QED BY <2>1, <2>2
<1>5. Len(p) <= Len(q)
  BY <1>1, <1>2, <1>3
<1> QED BY <1>2, <1>3, <1>4, <1>5, PrefixFacts

\* FlattenSeq of one sequence more, whatever is before it.
LEMMA FlattenStep ==
  ASSUME NEW n \in Nat, NEW s, IsSeq(s), Len(s) = n, NEW t, IsSeq(t), Len(t) = n + 1,
         \A i \in 1..n : t[i] = s[i], IsSeq(t[n + 1])
  PROVE  FlattenSeq(t) = FlattenSeq(s) \o t[n + 1]
<1>1. CASE n = 0
  <2>1. s = <<>>
    BY <1>1, IsSeqEmpty, IsSeqSame
  <2>2. FlattenSeq(s) = <<>>
    BY <2>1 DEF FlattenSeq
  <2>3. FlattenSeq(t) = t[n + 1]
    BY <1>1, FlattenOne
  <2> QED BY <2>2, <2>3, ConcatEmpty
<1>2. CASE n # 0
  BY <1>2, FlattenMore
<1> QED BY <1>1, <1>2

LEMMA FlattenIsSeq ==
  ASSUME NEW s, IsSeq(s), \A i \in DOMAIN s : IsSeq(s[i])
  PROVE  IsSeq(FlattenSeq(s))
BY FlattenFacts DEF Gathered

LEMMA ConcatCancel ==
  ASSUME NEW a, IsSeq(a), NEW s, IsSeq(s), NEW t, IsSeq(t), a \o s = a \o t
  PROVE  s = t
<1>1. Len(a) \in Nat /\ Len(s) \in Nat /\ Len(t) \in Nat
  BY IsSeqFacts
<1>2. Len(a \o s) = Len(a) + Len(s) /\ \A i \in 1..Len(s) : (a \o s)[Len(a) + i] = s[i]
  BY IsSeqConcat
<1>3. Len(a \o t) = Len(a) + Len(t) /\ \A i \in 1..Len(t) : (a \o t)[Len(a) + i] = t[i]
  BY IsSeqConcat
<1>4. Len(s) = Len(t)
  BY <1>1, <1>2, <1>3
<1>5. \A i \in 1..Len(s) : s[i] = t[i]
  BY <1>2, <1>3, <1>4
<1> QED BY <1>4, <1>5, IsSeqSame

LEMMA SubSeqJoin ==
  ASSUME NEW s, IsSeq(s), NEW m \in 0..Len(s), NEW n \in m..Len(s)
  PROVE  SubSeq(s, 1, m) \o SubSeq(s, m + 1, n) = SubSeq(s, 1, n)
<1>1. Len(s) \in Nat /\ m \in Nat /\ n \in Nat /\ m <= n /\ n <= Len(s)
  BY IsSeqFacts
<1>2. \A i \in 1..(Len(s) + 1) : \A j \in (i - 1)..Len(s) :
        /\ IsSeq(SubSeq(s, i, j)) /\ Len(SubSeq(s, i, j)) = j - i + 1
        /\ \A k \in 1..(j - i + 1) : SubSeq(s, i, j)[k] = s[i + k - 1]
  BY IsSeqSub
<1> PICK a : a = SubSeq(s, 1, m)
  OBVIOUS
<1> PICK b : b = SubSeq(s, m + 1, n)
  OBVIOUS
<1> PICK c : c = SubSeq(s, 1, n)
  OBVIOUS
<1>3. IsSeq(a) /\ Len(a) = m /\ \A k \in 1..m : a[k] = s[k]
  <2>1. 1 \in 1..(Len(s) + 1) /\ m \in (1 - 1)..Len(s) /\ m - 1 + 1 = m
    BY <1>1
  <2>2. \A k \in 1..m : 1 + k - 1 = k
    OBVIOUS
  <2> QED BY <1>2, <2>1, <2>2
<1>4. IsSeq(b) /\ Len(b) = n - m /\ \A k \in 1..(n - m) : b[k] = s[m + k]
  <2>1. m + 1 \in 1..(Len(s) + 1) /\ n \in ((m + 1) - 1)..Len(s) /\ n - (m + 1) + 1 = n - m
    BY <1>1
  <2>2. \A k \in 1..(n - m) : (m + 1) + k - 1 = m + k
    BY <1>1
  <2> QED BY <1>2, <2>1, <2>2
<1>5. IsSeq(c) /\ Len(c) = n /\ \A k \in 1..n : c[k] = s[k]
  <2>1. 1 \in 1..(Len(s) + 1) /\ n \in (1 - 1)..Len(s) /\ n - 1 + 1 = n
    BY <1>1
  <2>2. \A k \in 1..n : 1 + k - 1 = k
    OBVIOUS
  <2> QED BY <1>2, <2>1, <2>2
<1> PICK d : d = a \o b
  OBVIOUS
<1>6. /\ IsSeq(d) /\ Len(d) = n
      /\ \A k \in 1..m : d[k] = a[k]
      /\ \A k \in 1..(n - m) : d[m + k] = b[k]
  <2>1. /\ IsSeq(d) /\ Len(d) = Len(a) + Len(b)
        /\ \A k \in 1..Len(a) : d[k] = a[k]
        /\ \A k \in 1..Len(b) : d[Len(a) + k] = b[k]
    BY <1>3, <1>4, IsSeqConcat
  <2>2. m + (n - m) = n
    BY <1>1
  <2> QED BY <1>3, <1>4, <2>1, <2>2
<1>7. ASSUME NEW k \in 1..n
      PROVE  d[k] = c[k]
  <2>1. CASE k <= m
    <3>1. k \in 1..m
      BY <1>1, <2>1
    <3> QED BY <1>3, <1>5, <1>6, <3>1
  <2>2. CASE ~(k <= m)
    <3>1. k - m \in 1..(n - m) /\ m + (k - m) = k
      BY <1>1, <2>2
    <3>2. d[m + (k - m)] = b[k - m] /\ b[k - m] = s[m + (k - m)]
      BY <1>4, <1>6, <3>1
    <3> QED BY <1>5, <3>1, <3>2
  <2> QED BY <2>1, <2>2
<1> QED BY <1>5, <1>6, <1>7, IsSeqSame

\* FlattenSeq of the first n sequences.
LEMMA FlattenFirst ==
  ASSUME NEW seqs, IsSeq(seqs), \A i \in DOMAIN seqs : IsSeq(seqs[i]), NEW n \in 0..Len(seqs)
  PROVE  /\ IsSeq(FlattenSeq(SubSeq(seqs, 1, n)))
         /\ n = 0 => FlattenSeq(SubSeq(seqs, 1, n)) = <<>>
         /\ n < Len(seqs) => FlattenSeq(SubSeq(seqs, 1, n + 1)) =
                               FlattenSeq(SubSeq(seqs, 1, n)) \o seqs[n + 1]
<1>1. Len(seqs) \in Nat /\ DOMAIN seqs = 1..Len(seqs) /\ n \in Nat
  BY IsSeqFacts
<1> PICK s : s = SubSeq(seqs, 1, n)
  OBVIOUS
<1>2. IsSeq(s) /\ Len(s) = n /\ \A i \in 1..n : s[i] = seqs[i]
  BY IsSeqPrefix
<1>3. DOMAIN s = 1..n
  BY <1>2, IsSeqFacts
<1>4. IsSeq(FlattenSeq(s))
  <2>1. \A i \in DOMAIN s : IsSeq(s[i])
    BY <1>1, <1>2, <1>3
  <2> QED BY <1>2, <2>1, FlattenIsSeq
<1>5. ASSUME n = 0 PROVE FlattenSeq(s) = <<>>
  BY <1>2, <1>5 DEF FlattenSeq
<1>6. ASSUME n < Len(seqs)
      PROVE  FlattenSeq(SubSeq(seqs, 1, n + 1)) = FlattenSeq(s) \o seqs[n + 1]
  <2> PICK t : t = SubSeq(seqs, 1, n + 1)
    OBVIOUS
  <2>1. n + 1 \in 0..Len(seqs) /\ n + 1 \in 1..(n + 1) /\ n + 1 \in DOMAIN seqs
    BY <1>1, <1>6
  <2>2. IsSeq(t) /\ Len(t) = n + 1 /\ \A i \in 1..(n + 1) : t[i] = seqs[i]
    BY <2>1, IsSeqPrefix
  <2>3. \A i \in 1..n : t[i] = s[i]
    <3> TAKE i \in 1..n
    <3>1. i \in 1..(n + 1)
      BY <1>1
    <3> QED BY <1>2, <2>2, <3>1
  <2>4. t[n + 1] = seqs[n + 1] /\ IsSeq(t[n + 1])
    BY <2>1, <2>2
  <2>5. FlattenSeq(t) = FlattenSeq(s) \o t[n + 1]
    BY <1>1, <1>2, <2>2, <2>3, <2>4, FlattenStep
  <2> QED BY <2>4, <2>5
<1>7. n = 0 => s = <<>>
  BY <1>2, IsSeqEmpty, IsSeqSame
<1>8. n = 0 => FlattenSeq(s) = <<>>
  BY <1>7, IsSeqEmpty DEF FlattenSeq
<1> QED BY <1>4, <1>6, <1>8

LEMMA FlattenGrows ==
  ASSUME NEW seqs, IsSeq(seqs), \A i \in DOMAIN seqs : IsSeq(seqs[i]),
         NEW n \in 0..Len(seqs), NEW m \in 0..Len(seqs), n <= m
  PROVE  IsPrefix(FlattenSeq(SubSeq(seqs, 1, n)), FlattenSeq(SubSeq(seqs, 1, m)))
<1> DEFINE Flat(k) == FlattenSeq(SubSeq(seqs, 1, k))
           S == {k \in Nat : n + k \in 0..Len(seqs) => IsPrefix(Flat(n), Flat(n + k))}
<1>1. Len(seqs) \in Nat /\ DOMAIN seqs = 1..Len(seqs) /\ n \in Nat /\ m \in Nat
  BY IsSeqFacts
<1>2. ASSUME NEW k \in 0..Len(seqs)
      PROVE  IsSeq(Flat(k)) /\ (k < Len(seqs) => Flat(k + 1) = Flat(k) \o seqs[k + 1])
  BY FlattenFirst
<1> HIDE DEF Flat
<1>3. 0 \in S
  <2>1. IsPrefix(Flat(n), Flat(n))
    BY <1>2, PrefixOfItself
  <2>2. n + 0 = n
    BY <1>1
  <2> QED BY <2>1, <2>2
<1>4. ASSUME NEW k \in Nat, k \in S PROVE k + 1 \in S
  <2> SUFFICES ASSUME n + (k + 1) \in 0..Len(seqs)
               PROVE  IsPrefix(Flat(n), Flat(n + (k + 1)))
    OBVIOUS
  <2>1. /\ n + k \in 0..Len(seqs) /\ n + k < Len(seqs) /\ (n + k) + 1 = n + (k + 1)
        /\ (n + k) + 1 \in DOMAIN seqs
    BY <1>1
  <2>2. IsPrefix(Flat(n), Flat(n + k))
    BY <1>4, <2>1
  <2>3. Flat(n + (k + 1)) = Flat(n + k) \o seqs[(n + k) + 1]
    BY <1>2, <2>1
  <2>4. IsSeq(Flat(n)) /\ IsSeq(Flat(n + k)) /\ IsSeq(seqs[(n + k) + 1])
    BY <1>2, <2>1
  <2> PICK a : a = Flat(n)
    OBVIOUS
  <2> PICK b : b = Flat(n + k)
    OBVIOUS
  <2> PICK c : c = b \o seqs[(n + k) + 1]
    OBVIOUS
  <2>5. IsPrefix(b, c) /\ IsSeq(c)
    BY <2>4, PrefixConcat, IsSeqConcat
  <2>6. IsPrefix(a, c)
    BY <2>2, <2>4, <2>5, PrefixThrough
  <2> QED BY <2>3, <2>6
<1> HIDE DEF S
<1>5. m - n \in S
  <2>1. m - n \in Nat
    BY <1>1
  <2> QED BY <1>3, <1>4, <2>1, Induction
<1>6. n + (m - n) = m
  BY <1>1
<1>7. IsPrefix(Flat(n), Flat(m))
  BY <1>5, <1>6 DEF S
<1> QED BY <1>7 DEF Flat

LEMMA WholeIsSubSeq ==
  ASSUME NEW s, IsSeq(s)
  PROVE  SubSeq(s, 1, Len(s)) = s
<1>1. Len(s) \in 0..Len(s)
  BY IsSeqFacts
<1>2. IsSeq(SubSeq(s, 1, Len(s))) /\ Len(SubSeq(s, 1, Len(s))) = Len(s)
      /\ \A i \in 1..Len(s) : SubSeq(s, 1, Len(s))[i] = s[i]
  BY <1>1, IsSeqPrefix
<1> QED BY <1>2, IsSeqSame

\* Groups of one size, one after the other.
InGroups(seqs, u) == \A i \in DOMAIN seqs : IsSeq(seqs[i]) /\ Len(seqs[i]) = u
Grouped(flat, seqs, u) ==
  /\ IsSeq(flat) /\ Len(flat) = u * Len(seqs)
  /\ \A i \in DOMAIN seqs : \A j \in 1..u : flat[u * (i - 1) + j] = seqs[i][j]

LEMMA FlattenGroups ==
  ASSUME NEW u \in {1, 4}, NEW seqs, IsSeq(seqs), InGroups(seqs, u)
  PROVE  Grouped(FlattenSeq(seqs), seqs, u)
<1>0. \A i \in DOMAIN seqs : IsSeq(seqs[i]) /\ Len(seqs[i]) = u
  BY DEF InGroups
<1> DEFINE Flat(k) == FlattenSeq(SubSeq(seqs, 1, k))
           GroupedTo(k) == /\ Len(Flat(k)) = u * k
                           /\ \A i \in 1..k : \A j \in 1..u : Flat(k)[u * (i - 1) + j] = seqs[i][j]
           S == {k \in Nat : k \in 0..Len(seqs) => GroupedTo(k)}
<1>1. Len(seqs) \in Nat /\ DOMAIN seqs = 1..Len(seqs) /\ u \in Nat
  BY IsSeqFacts
<1>2. ASSUME NEW k \in 0..Len(seqs)
      PROVE  /\ IsSeq(Flat(k)) /\ (k = 0 => Flat(k) = <<>>)
             /\ (k < Len(seqs) => Flat(k + 1) = Flat(k) \o seqs[k + 1])
  BY <1>0, FlattenFirst
<1> HIDE DEF Flat
<1>3. 0 \in S
  <2>1. Len(Flat(0)) = 0 /\ u * 0 = 0
    BY <1>1, <1>2, IsSeqEmpty
  <2> QED BY <2>1
<1>4. ASSUME NEW k \in Nat, k \in S PROVE k + 1 \in S
  <2> SUFFICES ASSUME k + 1 \in 0..Len(seqs) PROVE GroupedTo(k + 1)
    OBVIOUS
  <2>1. k \in 0..Len(seqs) /\ k < Len(seqs) /\ k + 1 \in DOMAIN seqs
    BY <1>1
  <2>2. IsSeq(seqs[k + 1]) /\ Len(seqs[k + 1]) = u
    BY <1>0, <2>1
  <2> PICK a : a = Flat(k)
    OBVIOUS
  <2> PICK g : g = seqs[k + 1]
    OBVIOUS
  <2> PICK b : b = Flat(k + 1)
    OBVIOUS
  <2>3. IsSeq(a) /\ b = a \o g
    BY <1>2, <2>1
  <2>4. Len(a) = u * k /\ \A i \in 1..k : \A j \in 1..u : a[u * (i - 1) + j] = seqs[i][j]
    BY <1>4, <2>1
  <2>5. /\ Len(b) = Len(a) + u
        /\ \A i \in 1..Len(a) : b[i] = a[i]
        /\ \A i \in 1..u : b[Len(a) + i] = g[i]
    BY <2>2, <2>3, IsSeqConcat
  <2>6. u * (k + 1) = u * k + u
    BY <1>1
  <2>7. ASSUME NEW i \in 1..(k + 1), NEW j \in 1..u
        PROVE  b[u * (i - 1) + j] = seqs[i][j]
    <3>1. CASE i = k + 1
      <4>1. u * (i - 1) = Len(a)
        BY <2>4, <3>1
      <4> QED BY <2>5, <3>1, <4>1
    <3>2. CASE i # k + 1
      <4>1. i \in 1..k
        BY <3>2
      <4>2. u * (i - 1) + j \in 1..(u * k)
        <5>1. CASE u = 1
          BY <4>1, <5>1
        <5>2. CASE u = 4
          BY <4>1, <5>2
        <5> QED BY <5>1, <5>2
      <4> QED BY <2>4, <2>5, <4>1, <4>2
    <3> QED BY <3>1, <3>2
  <2>8. Len(b) = u * (k + 1)
    BY <2>4, <2>5, <2>6
  <2> QED BY <2>7, <2>8
<1> HIDE DEF S
<1>5. Len(seqs) \in S
  BY <1>1, <1>3, <1>4, Induction
<1>6. GroupedTo(Len(seqs)) /\ Len(seqs) \in 0..Len(seqs)
  BY <1>1, <1>5 DEF S
<1>7. Flat(Len(seqs)) = FlattenSeq(seqs)
  BY WholeIsSubSeq DEF Flat
<1> QED BY <1>1, <1>2, <1>6, <1>7 DEF Grouped

\* The elements of one of several sequences, in all of them put together.
LEMMA FlattenAt ==
  ASSUME NEW seqs, IsSeq(seqs), \A i \in DOMAIN seqs : IsSeq(seqs[i]),
         NEW n \in DOMAIN seqs, NEW k \in DOMAIN seqs[n],
         NEW before, before = Len(FlattenSeq(SubSeq(seqs, 1, n - 1)))
  PROVE  /\ before \in Nat /\ before + k \in DOMAIN FlattenSeq(seqs)
         /\ FlattenSeq(seqs)[before + k] = seqs[n][k]
<1> DEFINE Flat(m) == FlattenSeq(SubSeq(seqs, 1, m))
<1>1. /\ Len(seqs) \in Nat /\ DOMAIN seqs = 1..Len(seqs)
      /\ n \in 1..Len(seqs) /\ n - 1 \in 0..Len(seqs) /\ n \in 0..Len(seqs) /\ n - 1 < Len(seqs)
      /\ (n - 1) + 1 = n /\ Len(seqs) \in 0..Len(seqs) /\ n <= Len(seqs)
  BY IsSeqFacts
<1>2. IsSeq(seqs[n]) /\ Len(seqs[n]) \in Nat /\ k \in 1..Len(seqs[n])
  BY IsSeqFacts
<1>3. IsSeq(Flat(n - 1)) /\ Flat(n) = Flat(n - 1) \o seqs[n]
  <2>1. \A m \in 0..Len(seqs) :
          IsSeq(Flat(m)) /\ (m < Len(seqs) => Flat(m + 1) = Flat(m) \o seqs[m + 1])
    BY FlattenFirst
  <2> HIDE DEF Flat
  <2> QED BY <1>1, <2>1
<1>4. IsSeq(Flat(Len(seqs))) /\ IsPrefix(Flat(n), Flat(Len(seqs)))
  BY <1>1, FlattenFirst, FlattenGrows
<1>5. FlattenSeq(seqs) = Flat(Len(seqs)) /\ before = Len(Flat(n - 1))
  BY WholeIsSubSeq
<1> HIDE DEF Flat
<1>6. /\ IsSeq(Flat(n)) /\ Len(Flat(n)) = before + Len(seqs[n]) /\ before \in Nat
      /\ Flat(n)[before + k] = seqs[n][k]
  <2> PICK a : a = Flat(n - 1)
    OBVIOUS
  <2> PICK b : b = seqs[n]
    OBVIOUS
  <2>1. /\ IsSeq(a \o b) /\ Len(a \o b) = Len(a) + Len(b)
        /\ \A i \in 1..Len(b) : (a \o b)[Len(a) + i] = b[i]
    BY <1>2, <1>3, IsSeqConcat
  <2>2. Len(a) \in Nat
    BY <1>3, IsSeqFacts
  <2> QED BY <1>2, <1>3, <1>5, <2>1, <2>2
<1>7. Len(Flat(n)) <= Len(Flat(Len(seqs))) /\ \A i \in 1..Len(Flat(n)) : Flat(n)[i] = Flat(Len(seqs))[i]
  BY <1>4, <1>6, PrefixFacts
<1>8. DOMAIN Flat(Len(seqs)) = 1..Len(Flat(Len(seqs))) /\ Len(Flat(Len(seqs))) \in Nat
  BY <1>4, IsSeqFacts
<1>9. before + k \in 1..Len(Flat(n)) /\ before + k \in 1..Len(Flat(Len(seqs)))
  BY <1>2, <1>6, <1>7, <1>8
<1> QED BY <1>5, <1>6, <1>7, <1>8, <1>9

-------------------------------------------------------------------------------
(* Sequences put together.                                                   *)

LEMMA SingletonIsSeq == \A t : IsSeq(<<t>>) /\ Len(<<t>>) = 1 /\ DOMAIN <<t>> = {1} /\ <<t>>[1] = t
<1> TAKE t
<1>1. <<t>> \in Seq({t}) /\ Len(<<t>>) = 1 /\ DOMAIN <<t>> = {1} /\ <<t>>[1] = t
  OBVIOUS
<1>2. IsSeq(<<t>>)
  BY <1>1, SeqIsSeq
<1> QED BY <1>1, <1>2

LEMMA AppendedAny ==
  ASSUME NEW s, IsSeq(s), NEW x, NEW t, t = Append(s, x)
  PROVE  /\ IsSeq(t) /\ Len(t) = Len(s) + 1 /\ t[Len(s) + 1] = x
         /\ \A i \in 1..Len(s) : t[i] = s[i]
<1> DEFINE S == {s[i] : i \in DOMAIN s}
<1>1. s \in Seq(S)
  BY DEF IsSeq
<1> HIDE DEF S
<1>2. s \in Seq(S \cup {x}) /\ x \in S \cup {x}
  BY <1>1, SeqMonotonic
<1>3. Len(s) \in Nat
  BY IsSeqFacts
<1>4. t[Len(s) + 1] = x /\ \A i \in 1..Len(s) : t[i] = s[i]
  BY <1>2, <1>3, AppendProperties
<1> QED BY <1>4, IsSeqAppend

\* What a sequence with one element more is, in one word.
OneAppended(t, s, x) ==
  /\ IsSeq(t) /\ Len(t) = Len(s) + 1 /\ t[Len(s) + 1] = x
  /\ \A i \in 1..Len(s) : t[i] = s[i]

LEMMA OneAppendedFacts ==
  ASSUME NEW s, IsSeq(s), NEW x
  PROVE  OneAppended(Append(s, x), s, x)
<1> PICK t : t = Append(s, x)
  OBVIOUS
<1>1. IsSeq(t) /\ Len(t) = Len(s) + 1 /\ t[Len(s) + 1] = x
  BY AppendedAny
<1>2. \A i \in 1..Len(s) : t[i] = s[i]
  BY AppendedAny
<1> QED BY <1>1, <1>2 DEF OneAppended

\* What a concatenation is, in one word.
TwoJoined(t, a, b) ==
  /\ IsSeq(t) /\ Len(t) = Len(a) + Len(b)
  /\ \A i \in 1..Len(a) : t[i] = a[i]
  /\ \A i \in 1..Len(b) : t[Len(a) + i] = b[i]

LEMMA TwoJoinedFacts ==
  ASSUME NEW a, IsSeq(a), NEW b, IsSeq(b)
  PROVE  TwoJoined(a \o b, a, b)
BY IsSeqConcat DEF TwoJoined

LEMMA Regrouped ==
  ASSUME NEW x, IsSeq(x), NEW y, IsSeq(y), NEW z, IsSeq(z), NEW xy, xy = x \o y, NEW yz, yz = y \o z
  PROVE  xy \o z = x \o yz
BY ConcatMore

\* Of two sequences of sequences, one after the other.
LEMMA FlattenConcat ==
  ASSUME NEW a, IsSeq(a), \A i \in DOMAIN a : IsSeq(a[i]),
         NEW b, IsSeq(b), \A i \in DOMAIN b : IsSeq(b[i]), NEW t, TwoJoined(t, a, b)
  PROVE  FlattenSeq(t) = FlattenSeq(a) \o FlattenSeq(b)
<1>1. /\ Len(a) \in Nat /\ Len(b) \in Nat /\ DOMAIN a = 1..Len(a) /\ DOMAIN b = 1..Len(b)
      /\ IsSeq(t) /\ Len(t) = Len(a) + Len(b) /\ DOMAIN t = 1..Len(t)
      /\ \A i \in 1..Len(a) : t[i] = a[i]
      /\ \A i \in 1..Len(b) : t[Len(a) + i] = b[i]
  BY IsSeqFacts DEF TwoJoined
<1>2. ASSUME NEW i \in DOMAIN t PROVE IsSeq(t[i])
  <2>1. CASE i <= Len(a)
    <3>1. i \in 1..Len(a)
      BY <1>1, <2>1
    <3> QED BY <1>1, <3>1
  <2>2. CASE ~(i <= Len(a))
    <3>1. PICK j : j = i - Len(a)
      OBVIOUS
    <3>2. j \in 1..Len(b) /\ i = Len(a) + j
      BY <1>1, <2>2, <3>1
    <3> QED BY <1>1, <3>2
  <2> QED BY <2>1, <2>2
<1> DEFINE First(s, n) == FlattenSeq(SubSeq(s, 1, n))
<1>3. \A n \in 0..Len(t) : n < Len(t) => First(t, n + 1) = First(t, n) \o t[n + 1]
  BY <1>1, <1>2, FlattenFirst
<1>4. \A n \in 0..Len(b) : /\ IsSeq(First(b, n))
                           /\ n = 0 => First(b, n) = <<>>
                           /\ n < Len(b) => First(b, n + 1) = First(b, n) \o b[n + 1]
  BY <1>1, FlattenFirst
<1>5. First(t, Len(a)) = FlattenSeq(a) /\ IsSeq(FlattenSeq(a))
  <2>s. PICK s : s = SubSeq(t, 1, Len(a))
    OBVIOUS
  <2>1. IsSeq(s) /\ Len(s) = Len(a) /\ \A i \in 1..Len(a) : s[i] = t[i]
    <3>1. Len(a) \in 0..Len(t)
      BY <1>1
    <3> QED BY <1>1, <2>s, <3>1, IsSeqPrefix
  <2>2. s = a
    BY <1>1, <2>1, IsSeqSame
  <2> QED BY <2>s, <2>2, FlattenIsSeq
<1>6. First(t, Len(t)) = FlattenSeq(t) /\ First(b, Len(b)) = FlattenSeq(b)
  BY <1>1, WholeIsSubSeq
<1> HIDE DEF First
<1> DEFINE S == {m \in Nat : m <= Len(b) => First(t, Len(a) + m) = FlattenSeq(a) \o First(b, m)}
<1>7. 0 \in S
  <2>1. First(b, 0) = <<>> /\ Len(a) + 0 = Len(a)
    BY <1>1, <1>4
  <2>2. FlattenSeq(a) \o <<>> = FlattenSeq(a)
    BY <1>5, ConcatEmpty
  <2> QED BY <1>5, <2>1, <2>2
<1>8. ASSUME NEW m \in Nat, m \in S PROVE m + 1 \in S
  <2> SUFFICES ASSUME m + 1 <= Len(b) PROVE First(t, Len(a) + (m + 1)) = FlattenSeq(a) \o First(b, m + 1)
    OBVIOUS
  <2>n. PICK n : n = Len(a) + m
    OBVIOUS
  <2>1. /\ n \in 0..Len(t) /\ n < Len(t) /\ Len(a) + (m + 1) = n + 1
        /\ m \in 0..Len(b) /\ m < Len(b) /\ m <= Len(b) /\ m + 1 \in 1..Len(b)
    BY <1>1, <2>n
  <2>2. First(t, n + 1) = First(t, n) \o t[n + 1] /\ t[n + 1] = b[m + 1]
    BY <1>1, <1>3, <2>1
  <2>3. First(b, m + 1) = First(b, m) \o b[m + 1] /\ IsSeq(First(b, m)) /\ IsSeq(b[m + 1])
    BY <1>1, <1>4, <2>1
  <2>4. First(t, n) = FlattenSeq(a) \o First(b, m)
    BY <1>8, <2>1, <2>n
  <2>5. First(t, n) \o b[m + 1] = FlattenSeq(a) \o First(b, m + 1)
    <3>1. PICK x, y, z, xy, yz :
            /\ x = FlattenSeq(a) /\ y = First(b, m) /\ z = b[m + 1]
            /\ xy = First(t, n) /\ yz = First(b, m + 1)
      OBVIOUS
    <3>2. IsSeq(x)
      BY <1>5, <3>1
    <3>3. IsSeq(y)
      BY <2>3, <3>1
    <3>4. IsSeq(z)
      BY <2>3, <3>1
    <3>5. xy = x \o y
      BY <2>4, <3>1
    <3>6. yz = y \o z
      BY <2>3, <3>1
    <3>7. xy \o z = x \o yz
      BY <3>2, <3>3, <3>4, <3>5, <3>6, Regrouped
    <3> QED BY <3>1, <3>7
  <2> QED BY <2>1, <2>2, <2>5
<1> HIDE DEF S
<1>9. Len(b) \in S
  BY <1>1, <1>7, <1>8, Induction
<1> QED BY <1>1, <1>6, <1>9 DEF S
===============================================================================
