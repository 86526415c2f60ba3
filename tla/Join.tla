--------------------------------- MODULE Join ---------------------------------
(***************************************************************************)
(* csvJoin: join() of csvJoin.cpp with the pieces it includes from         *)
(* include/csvjoin.  The sources wait in a deque; each turn of the loop    *)
(* joins the two in front and pushes the result back in front as a         *)
(* reader_fake.  The left rows (and, in the second pass of an outer join,  *)
(* the right rows) are matched by a parallel for_each: one WorkFirst or    *)
(* WorkSecond step is the body of the loop for one row, in any order.      *)
(***************************************************************************)
EXTENDS CsvTables, HeaderMangle

VARIABLES
  pc,           \* where join() is
  deq,          \* the sources still to be joined
  headers,      \* their headers
  ts_n_blanks,  \* the types of their columns and which columns have blanks
  c_ids,        \* the index of the key column in each, <<>> for a union join
  impl,         \* the result of the join in progress
  hash,         \* compromise_hash: the other side's rows and how keys compare
  table,        \* the rows the workers go over
  join_vec,     \* what each worker found, one slot per row of table
  todo,         \* the rows of table not yet processed
  recalculate   \* recalculate_types_blanks

vars == <<args, keys, pc, deq, headers, ts_n_blanks, c_ids, impl, hash, table,
          join_vec, todo, recalculate>>

N == Len(Names)
IsOuter == args.kind = "outer"
IsUnion == args.columns = <<>>

\* A right join is a left join of the reversed files on the reversed columns.
Ordered(s) == IF args.kind = "right" THEN Reverse(s) ELSE s
Sources == Ordered([f \in File |-> Reader(f, 0)])
JoinColumns == Ordered(args.columns)

\* "You must provide join column names when performing an outer join", "It is
\* not valid to specify both a left and a right join", and honest only if outer.
ValidArgs(a) ==
  /\ a.kind \in {"inner", "left", "right", "outer"}
  /\ a.columns = <<>> \/ Len(a.columns) = N
  /\ a.kind # "inner" => a.columns # <<>>
  /\ a.honest => a.kind = "outer"

Init ==
  /\ args \in DOMAIN Inputs /\ ValidArgs(args)
  /\ keys \in Inputs[args]
  /\ pc = "fill"
  /\ deq = Sources
  /\ headers = <<>> /\ ts_n_blanks = <<>> /\ c_ids = <<>>
  /\ impl = <<>> /\ hash = <<>> /\ table = <<>> /\ join_vec = <<>> /\ todo = {}
  /\ recalculate = FALSE

Untouched == UNCHANGED <<args, keys>>
NoWork == UNCHANGED <<hash, table, join_vec, todo>>
Tables == <<headers, ts_n_blanks, c_ids>>

\* The sources, with the reader of the i-th past its first p lines.
At(i, p) == [deq EXCEPT ![i] = Reader(deq[i].file, p)]

-------------------------------------------------------------------------------
(* auxiliary_queue_filler.h: type the next file, leave its reader on the     *)
(* first data row and remember its header and its key column.                *)

Next0 == Len(headers) + 1     \* the file being prepared

Fill ==
  /\ pc = "fill"
  /\ LET f == deq[Next0].file IN
     /\ (~IsUnion => JoinColumns[Next0] \in 1..Width(f))
     /\ deq' = At(Next0, Body)
     /\ headers' = Append(headers, Names[f])
     /\ ts_n_blanks' = Append(ts_n_blanks, FileTypes(f))
     /\ c_ids' = IF IsUnion THEN c_ids ELSE Append(c_ids, JoinColumns[Next0])
  /\ pc' = IF Next0 = N THEN "loop" ELSE "fill"
  /\ UNCHANGED <<impl, recalculate>> /\ NoWork /\ Untouched

\* ColumnIdentifierError: a message, and join() returns without any output.
FillRejected ==
  /\ pc = "fill" /\ ~IsUnion
  /\ JoinColumns[Next0] \notin 1..Width(deq[Next0].file)
  /\ pc' = "rejected"
  /\ UNCHANGED <<deq, impl, recalculate>> /\ UNCHANGED Tables /\ NoWork /\ Untouched

-------------------------------------------------------------------------------
(* can_compare.h, evaluated at the top of the loop.                          *)

KeyTypeOf(i) == ts_n_blanks[i].types[c_ids[i]]
KeyBlanks(i) == ts_n_blanks[i].blanks[c_ids[i]]
SameTypes == KeyTypeOf(1) = KeyTypeOf(2) \/ args.no_inference
BothBlank == KeyBlanks(1) /\ KeyBlanks(2)
SetKeyToText(i) ==
  LET t == ts_n_blanks[i] IN
  [types |-> [t.types EXCEPT ![c_ids[i]] = "text"], blanks |-> t.blanks]

CanCompare ==
  /\ pc = "loop" /\ Len(deq) > 1 /\ ~IsUnion
  /\ impl' = <<>> /\ recalculate' = FALSE
  /\ pc' = IF SameTypes \/ BothBlank THEN "hash_right" ELSE "disjoint"
  /\ ts_n_blanks' = IF ~SameTypes /\ BothBlank
                      THEN [ts_n_blanks EXCEPT ![1] = SetKeyToText(1), ![2] = SetKeyToText(2)]
                      ELSE ts_n_blanks
  /\ UNCHANGED <<deq, headers, c_ids>> /\ NoWork /\ Untouched

-------------------------------------------------------------------------------
(* compromise_hash and the comparison and hash functions it is built with.   *)

\* Variant: only the blanks of the hashed side are considered.
OwnBlanksHash(rows, i) ==
  [rows |-> rows, col |-> c_ids[i], type |-> KeyTypeOf(i), blanks |-> KeyBlanks(i)]

\* worst_of_blanks: a blank on either side makes the comparison null-aware.
NewHash(rows, i) ==
  [rows |-> rows, col |-> c_ids[i], type |-> KeyTypeOf(i),
   blanks |-> KeyBlanks(1) \/ KeyBlanks(2)]

AsText(h) == args.no_inference \/ (args.blanks /\ h.blanks)
NullAware(h) == h.blanks /\ ~args.blanks

\* Variant: SQL's rule, a null equals nothing.
NullEqualsNothing(h, u, v) ==
  IF NullAware(h) /\ (u \in Nulls \/ v \in Nulls) THEN FALSE
  ELSE IF ~AsText(h) /\ h.type = "number" THEN NumberOf[u] = NumberOf[v]
  ELSE u = v

KeysEqual(h, u, v) ==
  IF NullAware(h) /\ (u \in Nulls \/ v \in Nulls) THEN u \in Nulls /\ v \in Nulls
  ELSE IF ~AsText(h) /\ h.type = "number" THEN NumberOf[u] = NumberOf[v]
  ELSE u = v

\* num() throws on a cell that is not numeric, and Hash::operator() is noexcept:
\* std::terminate.
Throws(h, u) == /\ ~AsText(h) /\ h.type = "number" /\ u \notin Numerals
                /\ ~(NullAware(h) /\ u \in Nulls)

Unhashable(h) == \E i \in DOMAIN h.rows : Throws(h, Value(h.rows[i][h.col]))

Matches(h, cell) ==
  {i \in DOMAIN h.rows : KeysEqual(h, Value(h.rows[i][h.col]), Value(cell))}

\* Variant: one row per key, as in a map that is not a map of lists.
FindOne(h, cell) ==
  IF Matches(h, cell) = {} THEN <<>> ELSE <<h.rows[Min(Matches(h, cell))]>>

\* hash.find: the rows of a key, in the order they were pushed.
Find(h, cell) == RowsAt(h.rows, Matches(h, cell))

\* The hash table of the right file.  The reader is rewound when the table is
\* built; for an outer join the header (but no skipped line) is passed again.
HashRight ==
  /\ pc = "hash_right"
  /\ deq' = At(2, IF IsOuter THEN Header ELSE 0)
  /\ LET f == deq[2].file IN
     IF keys[f] = <<>> THEN pc' = "no_body" /\ UNCHANGED hash
     ELSE /\ hash' = NewHash(BodyRows(f), 2)
          /\ pc' = IF Unhashable(hash') THEN "terminated" ELSE "open_left"
  /\ UNCHANGED <<impl, recalculate, table, join_vec, todo>>
  /\ UNCHANGED Tables /\ Untouched

\* Variants: one slot too few; the last row left to nobody.
SlotMissing(rows) ==
  /\ table' = rows
  /\ join_vec' = [i \in 1..(Len(rows) - 1) |-> <<>>]
  /\ todo' = DOMAIN rows
LastRowSkipped(rows) ==
  /\ table' = rows
  /\ join_vec' = [i \in DOMAIN rows |-> <<>>]
  /\ todo' = 1..(Len(rows) - 1)

StartWork(rows) ==
  /\ table' = rows
  /\ join_vec' = [i \in DOMAIN rows |-> <<>>]
  /\ todo' = DOMAIN rows

\* compromise_table_MxN of the left source, which is left rewound, or the rows
\* of a reader_fake.
OpenLeft ==
  /\ pc = "open_left"
  /\ IF deq[1].kind = "fake"
       THEN StartWork(deq[1].rows) /\ pc' = "first" /\ UNCHANGED deq
       ELSE /\ deq' = At(1, 0)
            /\ IF keys[deq[1].file] = <<>>
                 THEN pc' = "no_body" /\ UNCHANGED <<table, join_vec, todo>>
                 ELSE StartWork(BodyRows(deq[1].file)) /\ pc' = "first"
  /\ UNCHANGED <<impl, recalculate, hash>> /\ UNCHANGED Tables /\ Untouched

-------------------------------------------------------------------------------
(* inner_join.h, left_right_join.h and the first pass of outer_join.h.       *)

Glue(l, r) == IF IsOuter THEN l \o r ELSE l \o RemoveAt(r, c_ids[2])
PadRight(l) ==
  l \o Padding(Len(ts_n_blanks[2].types) - (IF IsOuter THEN 0 ELSE 1))
PadLeft(r) == Padding(Len(ts_n_blanks[1].types)) \o r

\* Variant: a right join forgets the rows without a match.
LeftRowOnlyLeft(l) ==
  LET found == Find(hash, l[c_ids[1]]) IN
  IF found = <<>> THEN IF args.kind \in {"inner", "right"} THEN <<>> ELSE <<PadRight(l)>>
  ELSE [i \in DOMAIN found |-> Glue(l, found[i])]

LeftRow(l) ==
  LET found == Find(hash, l[c_ids[1]]) IN
  IF found = <<>> THEN IF args.kind = "inner" THEN <<>> ELSE <<PadRight(l)>>
  ELSE [i \in DOMAIN found |-> Glue(l, found[i])]

\* Variants: results put in the next free slot, in the order the workers finish;
\* a row without a result is not ticked off.
StoreAsFinished(i, result) ==
  /\ join_vec' = [join_vec EXCEPT ![Cardinality(DOMAIN table \ todo) + 1] = result]
  /\ todo' = todo \ {i}
StoreIfAny(i, result) ==
  /\ join_vec' = [join_vec EXCEPT ![i] = result]
  /\ todo' = IF result = <<>> THEN todo ELSE todo \ {i}

\* One iteration of for_each: the row's own slot gets what the row contributes.
Store(i, result) ==
  /\ join_vec' = [join_vec EXCEPT ![i] = result]
  /\ todo' = todo \ {i}
Work(i, c, result) ==
  /\ IF Throws(hash, Value(table[i][c]))
       THEN pc' = "terminated" /\ UNCHANGED <<join_vec, todo>>
       ELSE Store(i, result) /\ UNCHANGED pc
  /\ UNCHANGED <<deq, impl, hash, table>> /\ UNCHANGED Tables /\ Untouched

WorkFirst(i) ==
  /\ pc = "first" /\ i \in todo
  /\ Work(i, c_ids[1], LeftRow(table[i]))
  /\ UNCHANGED recalculate

\* Variant: a pass replaces what the pass before it found.
MergedAnew(slots) == FlattenSeq(slots)

\* impl.add of every row found, slot by slot, once for_each has returned.
Merged(slots) == impl \o FlattenSeq(slots)

MergeFirst ==
  /\ pc = "first" /\ todo = {}
  /\ impl' = Merged(join_vec)
  /\ pc' = IF IsOuter THEN "hash_left" ELSE "cleanup"
  /\ UNCHANGED <<deq, recalculate>> /\ UNCHANGED Tables /\ NoWork /\ Untouched

\* catch (no_body_exception): nothing for an inner join; otherwise every row the
\* left source still has, from wherever its reader stands, is unmatched.
NoBody ==
  /\ pc = "no_body"
  /\ impl' = IF args.kind = "inner" THEN impl
             ELSE LET rows == RunRows(deq[1]) IN [i \in DOMAIN rows |-> PadRight(rows[i])]
  /\ pc' = IF IsOuter THEN "hash_left" ELSE "cleanup"
  /\ UNCHANGED <<deq, recalculate>> /\ UNCHANGED Tables /\ NoWork /\ Untouched

-------------------------------------------------------------------------------
(* outer_join.h, second pass: the right rows that match no left row.         *)

\* A reader is built from the reader_fake, without a header; with no rows at all
\* it has no columns either and obtain_header throws.  Then compromise_table_MxN
\* of the right file.
HashLeft ==
  /\ pc = "hash_left"
  /\ LET rows == IF deq[1].kind = "fake" THEN deq[1].rows ELSE BodyRows(deq[1].file)
         right == deq[2].file
     IN
     IF rows = <<>> THEN
       /\ pc' = IF deq[1].kind = "fake" THEN "failed" ELSE "no_body_2"
       /\ UNCHANGED <<deq, hash, table, join_vec, todo>>
     ELSE IF Unhashable(NewHash(rows, 1)) THEN
       /\ pc' = "terminated"
       /\ UNCHANGED <<deq, hash, table, join_vec, todo>>
     ELSE
       /\ hash' = NewHash(rows, 1)
       /\ deq' = At(2, 0)
       /\ IF keys[right] = <<>>
            THEN pc' = "no_body_2" /\ UNCHANGED <<table, join_vec, todo>>
            ELSE StartWork(BodyRows(right)) /\ pc' = "second"
  /\ UNCHANGED <<impl, recalculate>> /\ UNCHANGED Tables /\ Untouched

RightRow(r) == IF Find(hash, r[c_ids[2]]) = <<>> THEN <<PadLeft(r)>> ELSE <<>>

\* The flag is a plain bool that several workers may set at once; all of them
\* store true.
WorkSecond(i) ==
  /\ pc = "second" /\ i \in todo
  /\ Work(i, c_ids[2], RightRow(table[i]))
  /\ recalculate' = (recalculate \/ (pc' = pc /\ RightRow(table[i]) # <<>>))

MergeSecond ==
  /\ pc = "second" /\ todo = {}
  /\ impl' = Merged(join_vec)
  /\ pc' = "cleanup"
  /\ UNCHANGED <<deq, recalculate>> /\ UNCHANGED Tables /\ NoWork /\ Untouched

NoBodySecond ==
  /\ pc = "no_body_2"
  /\ LET rows == RunRows(deq[2]) IN
     /\ impl' = impl \o [i \in DOMAIN rows |-> PadLeft(rows[i])]
     /\ recalculate' = (recalculate \/ rows # <<>>)
  /\ pc' = "cleanup"
  /\ UNCHANGED deq /\ UNCHANGED Tables /\ NoWork /\ Untouched

-------------------------------------------------------------------------------
(* Keys that cannot be compared: no left row matches any right row.          *)

Disjoint ==
  /\ pc = "disjoint"
  /\ LET l == RunRows(deq[1])  r == RunRows(deq[2])
         left == [i \in DOMAIN l |-> PadRight(l[i])]
         right == [i \in DOMAIN r |-> PadLeft(r[i])]
     IN impl' = CASE args.kind = "inner" -> <<>>
                  [] IsOuter -> left \o right
                  [] OTHER -> left
  /\ recalculate' = IsOuter
  /\ pc' = "cleanup"
  /\ UNCHANGED deq /\ UNCHANGED Tables /\ NoWork /\ Untouched

-------------------------------------------------------------------------------
(* union_join.h: the tables side by side.                                    *)

SourceWidth(i) == IF deq[i].kind = "fake" THEN Len(deq[i].rows[1]) ELSE Len(headers[i])

\* cols() of a reader_fake without rows reads the first row of an empty vector.
EmptyFake == deq[1].kind = "fake" /\ deq[1].rows = <<>>

Union ==
  /\ pc = "loop" /\ Len(deq) > 1 /\ IsUnion /\ ~EmptyFake
  /\ LET l == RunRows(deq[1])  r == RunRows(deq[2])
         row(rows, i, w) == IF i \in DOMAIN rows THEN rows[i] ELSE Padding(w)
     IN impl' = [i \in 1..(IF Len(l) > Len(r) THEN Len(l) ELSE Len(r)) |->
                   row(l, i, SourceWidth(1)) \o row(r, i, SourceWidth(2))]
  /\ pc' = "cleanup"
  /\ UNCHANGED <<deq, recalculate>> /\ UNCHANGED Tables /\ NoWork /\ Untouched

UnionOfEmpty ==
  /\ pc = "loop" /\ Len(deq) > 1 /\ IsUnion /\ EmptyFake
  /\ pc' = "undefined"
  /\ UNCHANGED <<deq, impl, recalculate>> /\ UNCHANGED Tables /\ NoWork /\ Untouched

-------------------------------------------------------------------------------
(* cycle_cleanup.h, the recalculation at the end of outer_join.h, and the    *)
(* result pushed in front of the deque.                                      *)

KeepsKey == IsOuter \/ IsUnion     \* exclude_c_column::no
Concat(s, t) == IF KeepsKey THEN s \o t ELSE s \o RemoveAt(t, c_ids[2])

\* Variant: the key column is looked for without the size the header had before.
ConcatHeadersUnshifted ==
  LET all == AppendHeader(headers[1], headers[2]) IN
  IF KeepsKey THEN all ELSE RemoveAt(all, c_ids[2])

ConcatHeaders ==
  LET all == AppendHeader(headers[1], headers[2]) IN
  IF KeepsKey THEN all ELSE RemoveAt(all, Len(headers[1]) + c_ids[2])
ConcatTypes ==
  [types  |-> Concat(ts_n_blanks[1].types, ts_n_blanks[2].types),
   blanks |-> Concat(ts_n_blanks[1].blanks, ts_n_blanks[2].blanks)]

\* Variants: the types of an outer join are only set right when they are printed;
\* the second element is not erased.
RecalculateIfHonest == IsOuter /\ recalculate /\ args.honest
NothingDropped(s) == s

MustRecalculate == IsOuter /\ recalculate /\ (args.honest \/ Len(deq) > 2)
DropSecond(s) == <<s[1]>> \o SubSeq(s, 3, Len(s))

Cleanup ==
  /\ pc = "cleanup"
  /\ IF MustRecalculate /\ impl = <<>>
       THEN pc' = "failed" /\ UNCHANGED <<deq, headers, ts_n_blanks, c_ids>>
       ELSE /\ pc' = "loop"
            /\ deq' = <<Fake(impl)>> \o SubSeq(deq, 3, Len(deq))
            /\ headers' = DropSecond([headers EXCEPT ![1] = ConcatHeaders])
            /\ ts_n_blanks' = DropSecond([ts_n_blanks EXCEPT ![1] =
                 IF MustRecalculate THEN Typify(impl, Len(ConcatTypes.types))
                 ELSE ConcatTypes])
            /\ c_ids' = IF IsUnion THEN c_ids ELSE DropSecond(c_ids)
  /\ UNCHANGED <<impl, recalculate>> /\ NoWork /\ Untouched

-------------------------------------------------------------------------------
(* printer::write of csvJoin.cpp.                                            *)

\* print_func: a null or a cell of a text column is printed as it is.  With
\* --blanks a null is an ordinary value, except after a plain outer join.
\* Variant: a null of a typed column is left to the function of its type.
AsItIsTextOnly(cell, type) ==
  \/ type = "text"
  \/ IsNull(cell) /\ IsOuter /\ ~args.honest

AsItIs(cell, type) ==
  \/ type = "text"
  \/ IsNull(cell) /\ ((IsOuter /\ ~args.honest) \/ ~args.blanks)

\* Any other cell is printed by the function of its column's type; the one for
\* numbers calls num(), and main reports its exception instead of any output.
PrintFails ==
  LET rows == RunRows(deq[1])  types == ts_n_blanks[1].types IN
  \E i \in DOMAIN rows : \E c \in DOMAIN rows[i] :
    /\ ~AsItIs(rows[i][c], types[c])
    /\ types[c] = "number" /\ Value(rows[i][c]) \notin Numerals

PrintResults ==
  /\ pc = "loop" /\ Len(deq) = 1
  /\ pc' = IF PrintFails THEN "failed" ELSE "done"
  /\ UNCHANGED <<deq, impl, recalculate>> /\ UNCHANGED Tables /\ NoWork /\ Untouched

Final == {"done", "rejected", "failed", "terminated", "undefined"}
Finished == pc \in Final /\ UNCHANGED vars

Next ==
  \/ Fill \/ FillRejected
  \/ CanCompare \/ HashRight \/ OpenLeft
  \/ (\E i \in todo : WorkFirst(i)) \/ MergeFirst \/ NoBody
  \/ HashLeft \/ (\E i \in todo : WorkSecond(i)) \/ MergeSecond \/ NoBodySecond
  \/ Disjoint \/ Union \/ UnionOfEmpty
  \/ Cleanup \/ PrintResults \/ Finished

Spec == Init /\ [][Next]_vars

\* join() runs on, and the pool runs every iteration of a parallel for_each.
FairSpec == Spec /\ WF_vars(Next)

===============================================================================
