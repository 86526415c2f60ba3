---------------------------- MODULE JoinProperties ----------------------------
(***************************************************************************)
(* What is claimed of csvJoin's join().                                    *)
(***************************************************************************)
EXTENDS Join

Nth(i) == Sources[i].file
Joined == N - Len(deq) + 1
Filled == pc \notin {"fill", "rejected"}
AtLoop == pc \in {"loop", "done"}

-------------------------------------------------------------------------------
ColumnType == {"bool", "number", "text"}

TableTypes == [types : Seq(ColumnType), blanks : Seq(BOOLEAN)]

DeqOK ==
  /\ IsSeq(deq) /\ deq # <<>>
  /\ \A i \in DOMAIN deq : /\ deq[i].kind \in {"reader", "fake"}
                           /\ i # 1 => deq[i].kind = "reader"
                           /\ deq[i].kind = "reader" => deq[i].file \in File
TablesOK ==
  /\ IsSeq(headers)
  /\ ts_n_blanks \in Seq(TableTypes)
  /\ \A i \in DOMAIN ts_n_blanks : Len(ts_n_blanks[i].blanks) = Len(ts_n_blanks[i].types)
  /\ c_ids \in Seq(Nat)
  /\ \A i \in DOMAIN c_ids : c_ids[i] \in 1..Len(ts_n_blanks[i].types)
WorkOK == todo \subseteq DOMAIN table /\ DOMAIN join_vec = DOMAIN table

JoiningPcs == {"hash_right", "open_left", "first", "no_body", "hash_left", "second",
               "no_body_2", "disjoint", "cleanup"}

\* The type invariant: a deque of readers with at most a reader_fake in front,
\* the types, blanks and key columns that go with it, each key column one of its
\* table's columns, and one slot per row for the workers.
TypeOK ==
  /\ pc \in Final \cup {"fill", "loop"} \cup JoiningPcs
  /\ recalculate \in BOOLEAN
  /\ DeqOK /\ TablesOK /\ WorkOK

\* The assertions at the end of outer_join.h, deq.size() == ts_n_blanks.size()
\* and deq.size() == c_ids.size(), for every kind of join and with the headers:
\* the four deques shrink together however the tables were joined.
Lockstep ==
  /\ Len(ts_n_blanks) = Len(headers)
  /\ IF IsUnion THEN c_ids = <<>> ELSE Len(c_ids) = Len(headers)
  /\ IF Filled THEN Len(headers) = Len(deq) ELSE Len(headers) < Len(deq) /\ Len(deq) = N

\* The inductive invariant behind both: no reader_fake yet while the files are
\* prepared, and while a join is in progress two sources for it.
Phases ==
  /\ pc = "fill" => deq[1].kind = "reader"
  /\ pc \in JoiningPcs => Len(deq) > 1
JoinInv == TypeOK /\ Lockstep /\ Phases

-------------------------------------------------------------------------------
\* The columns of the first j files as they should stand in the joined table.
ColumnsOf(f) == [c \in 1..Width(f) |-> <<f, c>>]
Added(i) == IF i = 1 \/ KeepsKey THEN ColumnsOf(Nth(i))
            ELSE RemoveAt(ColumnsOf(Nth(i)), JoinColumns[i])
JoinedColumns(j) == FlattenSeq([i \in 1..j |-> Added(i)])

RowFits(row, cols) ==
  /\ Len(row) = Len(cols)
  /\ \A c \in DOMAIN row : row[c] # Pad => <<row[c][1], row[c][3]>> = cols[c]
  /\ \A c, d \in DOMAIN row :
       cols[c][1] = cols[d][1] => row[c][2] = row[d][2]

\* After every turn of the loop the header, the types, the blanks and every row
\* have the same columns in the same order, the key column is still the first
\* file's, and a row holds whole rows of the files: never cells of two lines of
\* one file, never part of a line.
Aligned ==
  AtLoop =>
    LET cols == JoinedColumns(Joined)  rows == RunRows(deq[1]) IN
    /\ \A i \in DOMAIN rows : RowFits(rows[i], cols)
    /\ Len(headers[1]) = Len(cols)
    /\ \A c \in DOMAIN cols : IsPrefix(Names[cols[c][1]][cols[c][2]], headers[1][c])
    /\ Len(ts_n_blanks[1].types) = Len(cols) /\ Len(ts_n_blanks[1].blanks) = Len(cols)
    /\ ~IsUnion => cols[c_ids[1]] = <<Nth(1), args.columns[Nth(1)]>>

\* A file cannot be told from another by a column name used twice: if the first
\* header has no duplicates, nor has the joined one (blank names apart).
Distinct(header) == \A i, j \in DOMAIN header :
                      header[i] = header[j] /\ header[i] # <<>> => i = j
HeaderDistinct == Filled /\ Distinct(Names[Nth(1)]) => Distinct(headers[1])

-------------------------------------------------------------------------------
\* While rows are matched, whatever the order of the workers, every slot of a
\* finished row holds what a sequential loop would compute for it and no other
\* slot has been touched.
RowResult(row) == IF pc = "first" THEN LeftRow(row) ELSE RightRow(row)
SlotsFollowRows ==
  pc \in {"first", "second"} =>
    join_vec = [i \in DOMAIN table |-> IF i \in todo THEN <<>> ELSE RowResult(table[i])]

\* The rows merged into the result of a pass are those of a sequential loop over
\* the table, in the order of its rows.
Sequential == FlattenSeq([i \in DOMAIN table |-> RowResult(table[i])])
MergeIsSequential ==
  [][impl' # impl /\ pc \in {"first", "second"} => impl' = impl \o Sequential]_vars

\* The recalculation at the end of outer_join.h keeps the flags of the key column
\* true to its cells whenever another join will look at them: a null is never
\* compared or hashed as a number, which would end in std::terminate.
KeyFlagsHold ==
  /\ pc # "terminated"
  /\ pc = "loop" /\ Len(deq) > 1 /\ ~IsUnion =>
       LET rows == RunRows(deq[1]) IN
       \A i \in DOMAIN rows :
         LET v == Value(rows[i][c_ids[1]]) IN
         /\ Absent(v) => KeyBlanks(1)
         /\ KeyTypeOf(1) = "number" => v \in Numerals \/ Absent(v)

-------------------------------------------------------------------------------
\* In the final table every row of every file of an outer join has its place,
\* and so has every row of the first file of a left join (the last of a right
\* join); an inner join has no padding.
Appears(f, rows) ==
  \A l \in (Body + 1)..NLines(f) :
    \E i \in DOMAIN rows : \E c \in DOMAIN rows[i] :
      rows[i][c][1] = f /\ rows[i][c][2] = l
NothingLost ==
  pc = "done" =>
    LET rows == RunRows(deq[1]) IN
    /\ IsOuter \/ IsUnion => \A f \in File : Appears(f, rows)
    /\ args.kind \in {"left", "right"} => Appears(Nth(1), rows)
    /\ args.kind = "inner" /\ ~IsUnion =>
         \A i \in DOMAIN rows : \A c \in DOMAIN rows[i] : rows[i][c] # Pad

\* The assertion of print_func: a cell that is printed by type is not null, is
\* not in a column with blanks under --blanks, and there is type inference.
PrintAssertion ==
  (pc = "loop" /\ Len(deq) = 1 /\ (~IsOuter \/ args.honest)) =>
    LET rows == RunRows(deq[1])  t == ts_n_blanks[1] IN
    \A i \in DOMAIN rows : \A c \in DOMAIN rows[i] :
      AsItIs(rows[i][c], t.types[c]) \/
      (~IsNull(rows[i][c]) /\ ~(args.blanks /\ t.blanks[c]) /\ ~args.no_inference)

\* Every run of join() comes to an end, and with well-formed files the end is the
\* printed table: no worker throws, no number is printed from a null.
Terminates == <>(pc \in Final)
Succeeds == <>(pc = "done")

-------------------------------------------------------------------------------
(* What the documentation says and the code does not do.                     *)

\* Joining merges the rows of the tables: a header or a skipped line is no row.
OnlyDataRows ==
  AtLoop => LET rows == RunRows(deq[1]) IN
            \A i \in DOMAIN rows : \A c \in DOMAIN rows[i] :
              rows[i][c] = Pad \/ rows[i][c][2] > Body

-------------------------------------------------------------------------------
\* csvJoin implements the sequence of relational joins of RelationalJoin.
AbsAcc == IF deq[1].kind = "fake" THEN deq[1].rows ELSE BodyRows(deq[1].file)
AbsKey ==
  IF IsUnion THEN [type |-> "text", nulls |-> FALSE]
  ELSE IF c_ids = <<>>
    THEN LET t == FileTypes(Nth(1))  c == JoinColumns[1] IN
         [type |-> t.types[c], nulls |-> t.blanks[c]]
  ELSE [type |-> KeyTypeOf(1), nulls |-> KeyBlanks(1)]

Abs == INSTANCE RelationalJoin WITH acc <- AbsAcc, joined <- Joined, key <- AbsKey
Refines == Abs!AbsSpec

\* The files of which a join keeps every row have one: where one has not, the header
\* may be joined as a row (see OnlyDataRows).
KeptFilesHaveRows ==
  \/ args.kind = "inner"
  \/ args.kind \in {"left", "right"} /\ keys[Nth(1)] # <<>>
  \/ \A f \in File : keys[f] # <<>>

\* The command lines and files of which PrintAssertion holds: those without the options
\* that change how cells are read; where no row is padded, or a null that pads is still no
\* value, and no header is joined as a row; and where every column is one of text.
NoNullTyped == KeptFilesHaveRows /\ (~args.blanks \/ (args.kind = "inner" /\ ~IsUnion))
OnlyText == args.no_inference /\ \A f \in File : keys[f] # <<>>
PrintsByType == (~args.blanks /\ ~args.no_inference) \/ NoNullTyped \/ OnlyText

\* "If more than two files are provided this will be executed as a sequence of
\* left outer joins, starting at the left": each turn of the loop gives what
\* csvJoin --left gives for the table joined so far and the next file.
LeftJoin(rows, f) ==
  LET width == Len(rows[1])
      c0 == JoinColumns[1]  c1 == args.columns[f]
      k0 == Abs!KeyInfo(Typify(rows, width), c0)
      k1 == Abs!KeyInfo(FileTypes(f), c1)
  IN  Abs!LeftPart(rows, BodyRows(f), c0, c1, Width(f), k0, k1)
SequenceOfLeftJoins ==
  [][args.kind = "left" /\ pc = "cleanup" => AbsAcc' = LeftJoin(AbsAcc, deq[2].file)]_vars

===============================================================================
