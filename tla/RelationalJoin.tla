---------------------------- MODULE RelationalJoin ----------------------------
(***************************************************************************)
(* What csvJoin promises: the files are merged from the first to the last  *)
(* (from the last to the first for a right join) by a sequence of          *)
(* relational joins.  Each join is the nested loop over the rows of the    *)
(* table joined so far and the rows of the next file, in file order.       *)
(* Nothing is said here of readers and their positions, hash tables,       *)
(* worker threads, the two passes of an outer join, or cached flags.       *)
(***************************************************************************)
EXTENDS CsvTables

VARIABLES
  acc,      \* the rows joined so far
  joined,   \* how many files they are made of
  key       \* type and nullability of the key column of acc

absvars == <<args, keys, acc, joined, key>>

N == Len(Names)
Nth(i) == IF args.kind = "right" THEN N + 1 - i ELSE i
KeyCol(f) == args.columns[f]
IsOuter == args.kind = "outer"
KeepsLeft == args.kind \in {"left", "right", "outer"}

KeyInfo(types, c) == [type |-> types.types[c], nulls |-> types.blanks[c]]

\* How wide the first i tables are side by side, with no column left out.
TotalWidth(i) == Len(FlattenSeq([j \in 1..i |-> Names[Nth(j)]]))

\* Keys of different types compare only if both may be null, and then as texts.
Comparable(k0, k1) == \/ args.no_inference
                      \/ k0.type = k1.type
                      \/ k0.nulls /\ k1.nulls

SameKey(type, a, b) ==
  LET u == Value(a)  v == Value(b) IN
  IF Absent(u) \/ Absent(v) THEN Absent(u) /\ Absent(v)
  ELSE IF type = "number" THEN NumberOf[u] = NumberOf[v]
  ELSE u = v

\* Without --outer the key column of the right table is left out of the result.
Glue(l, r, c1) == IF IsOuter THEN l \o r ELSE l \o RemoveAt(r, c1)
PadRight(l, n) == l \o Padding(IF IsOuter THEN n ELSE n - 1)
PadLeft(r, n) == Padding(n) \o r

\* The rows that a row of the left table contributes, given what it matches.
Contribution(l, matches, c1, n) ==
  IF matches = <<>> THEN IF KeepsLeft THEN <<PadRight(l, n)>> ELSE <<>>
  ELSE [i \in DOMAIN matches |-> Glue(l, matches[i], c1)]

KeyType(k0, k1) == IF k0.type = k1.type THEN k0.type ELSE "text"
Same(l, r, c0, c1, k0, k1) ==
  Comparable(k0, k1) /\ SameKey(KeyType(k0, k1), l[c0], r[c1])

LeftPart(left, right, c0, c1, n, k0, k1) ==
  LET matches(l) == {j \in DOMAIN right : Same(l, right[j], c0, c1, k0, k1)} IN
  FlattenSeq([i \in DOMAIN left |->
                Contribution(left[i], RowsAt(right, matches(left[i])), c1, n)])

Unmatched(left, right, c0, c1, k0, k1) ==
  RowsAt(right, {j \in DOMAIN right :
                   \A i \in DOMAIN left : ~Same(left[i], right[j], c0, c1, k0, k1)})

AbsInit ==
  /\ args \in DOMAIN Inputs /\ keys \in Inputs[args]
  /\ joined = 1
  /\ acc = BodyRows(Nth(1))
  /\ key = IF args.columns = <<>> THEN [type |-> "text", nulls |-> FALSE]
           ELSE KeyInfo(FileTypes(Nth(1)), KeyCol(Nth(1)))

\* The first key column is turned into text as soon as the next one is found to
\* compare with it only as such; JoinNext does not need this step.
Coerce ==
  /\ args.columns # <<>> /\ joined < N /\ ~args.no_inference
  /\ LET f == Nth(joined + 1)  k1 == KeyInfo(FileTypes(f), KeyCol(f)) IN
       /\ Comparable(key, k1) /\ key.type # k1.type
       /\ key' = [key EXCEPT !.type = "text"]
  /\ UNCHANGED <<args, keys, acc, joined>>

\* The next file is joined on the key column of the first.
JoinNext ==
  /\ args.columns # <<>> /\ joined < N
  /\ LET f == Nth(joined + 1)
         right == BodyRows(f)
         c0 == KeyCol(Nth(1))
         c1 == KeyCol(f)
         k1 == KeyInfo(FileTypes(f), c1)
         rest == IF IsOuter THEN Unmatched(acc, right, c0, c1, key, k1) ELSE <<>>
         result == LeftPart(acc, right, c0, c1, Width(f), key, k1)
                     \o [i \in DOMAIN rest |-> PadLeft(rest[i], TotalWidth(joined))]
     IN /\ acc' = result
        /\ key' = IF rest # <<>> /\ (joined + 1 < N \/ args.honest)
                    THEN KeyInfo(Typify(result, TotalWidth(joined + 1)), c0)
                  ELSE IF Comparable(key, k1) /\ ~args.no_inference
                    THEN [key EXCEPT !.type = KeyType(key, k1)]
                  ELSE key
  /\ joined' = joined + 1
  /\ UNCHANGED <<args, keys>>

\* Without key columns the tables are put side by side, the shorter one padded.
SideBySide ==
  /\ args.columns = <<>> /\ joined < N
  /\ LET f == Nth(joined + 1)
         right == BodyRows(f)
         row(rows, i, w) == IF i \in DOMAIN rows THEN rows[i] ELSE Padding(w)
     IN acc' = [i \in 1..(IF Len(acc) > Len(right) THEN Len(acc) ELSE Len(right)) |->
                  row(acc, i, TotalWidth(joined)) \o row(right, i, Width(f))]
  /\ joined' = joined + 1
  /\ UNCHANGED <<args, keys, key>>

AbsNext == Coerce \/ JoinNext \/ SideBySide
AbsSpec == AbsInit /\ [][AbsNext]_absvars
===============================================================================
