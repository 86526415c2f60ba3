------------------------------ MODULE CsvTables ------------------------------
(***************************************************************************)
(* What the tools of csvsuite see of a CSV source: a reader over the lines *)
(* of a file, cells with a value class, and the types that typify() infers *)
(* for the columns of a table.                                             *)
(*                                                                         *)
(* A cell is identified by where it comes from, <<file, line, column>>, so *)
(* that a joined row says which rows it was made of; Pad is the empty      *)
(* string an unmatched row is filled with.  What a cell holds is given by  *)
(* Value.  Only key columns have contents of their own (keys); every other *)
(* data cell is a number.                                                  *)
(***************************************************************************)
EXTENDS IsSequence

CONSTANTS
  Names,       \* Names[f]: the header of file f, a sequence of column names
  Nulls,       \* spellings of null: the empty string, NA, N/A, NULL, ...
  Empty,       \* the empty string, one of Nulls
  NumberOf,    \* the number each numeral stands for; its domain is the numerals
  Words,       \* values that are neither null nor numeric
  Heading,     \* what a header cell or a skipped line holds, read as data
  Datum,       \* what a data cell outside the key column holds: a numeral
  SkipLines,   \* --skip-lines
  Header,      \* 1 if the files have a header line, 0 under --no-header-row
  Inputs       \* Inputs[a]: the key columns considered with the command line a

VARIABLES
  args,        \* the command line
  keys         \* keys[f]: the key column of the data rows of file f

File == DOMAIN Names
Numerals == DOMAIN NumberOf
KeyValue == Nulls \cup Numerals \cup Words

ASSUME TablesAssumption ==
  /\ Names \in Seq(Seq(Seq(STRING))) /\ Names # <<>>
  /\ \A f \in File : Names[f] # <<>>
  /\ Empty \in Nulls
  /\ Datum \in Numerals /\ Heading \in Words
  /\ Nulls \cap Numerals = {} /\ Nulls \cap Words = {} /\ Numerals \cap Words = {}
  /\ SkipLines \in Nat /\ Header \in {0, 1}

\* A key column has a cell, of one kind or another, in each data row of its file.
ASSUME InputsAssumption ==
  \A a \in DOMAIN Inputs : \A k \in Inputs[a] : \A f \in File : k[f] \in Seq(KeyValue)

(***************************************************************************)
(* The reader.  Its position is the number of lines already passed:        *)
(* skip_rows(0) goes back to the first line of the file, skip_lines and    *)
(* obtain_header_and_<skip_header> take it to the first data row, Body.    *)
(***************************************************************************)
Body == SkipLines + Header
NLines(f) == Body + Len(keys[f])
Width(f) == Len(Names[f])

Pad == <<0, 0, 0>>
Padding(n) == [i \in 1..n |-> Pad]
Line(f, l) == [c \in 1..Width(f) |-> <<f, l, c>>]

Reader(f, p) == [kind |-> "reader", file |-> f, pos |-> p]
Fake(rows) == [kind |-> "fake", rows |-> rows]

\* run_rows: the rows from the reader's position to the end, or the table of a
\* reader_fake.  No rows at all is the implementation_exception that every
\* caller swallows.
RunRows(src) ==
  IF src.kind = "fake" THEN src.rows
  ELSE [i \in 1..(NLines(src.file) - src.pos) |-> Line(src.file, src.pos + i)]

BodyRows(f) == RunRows(Reader(f, Body))

\* Some rows of a table, by their indices, in the order of the table.
RowsAt(rows, indices) ==
  FlattenSeq([i \in DOMAIN rows |-> IF i \in indices THEN <<rows[i]>> ELSE <<>>])

(***************************************************************************)
(* Cells, their values, and the column types.                              *)
(***************************************************************************)
Value(cell) ==
  LET f == cell[1]  l == cell[2]  c == cell[3] IN
  IF cell = Pad THEN Empty
  ELSE IF l <= Body THEN Heading
  ELSE IF args.columns # <<>> /\ c = args.columns[f] THEN keys[f][l - Body]
  ELSE Datum

IsNull(cell) == Value(cell) \in Nulls

\* typify() of one column: a null counts as absent unless --blanks is given, an
\* absent cell fits every type, and under --no-inference only text is left.
Column(rows, c) == {Value(rows[i][c]) : i \in DOMAIN rows}
Absent(v) == v \in Nulls /\ ~args.blanks
TypeOf(vals) ==
  IF args.no_inference THEN "text"
  ELSE IF \A v \in vals : Absent(v) THEN "bool"
  ELSE IF \A v \in vals : Absent(v) \/ v \in Numerals THEN "number"
  ELSE "text"
HasBlanks(vals) == \E v \in vals : Absent(v)

Typify(rows, width) ==
  [types  |-> [c \in 1..width |-> TypeOf(Column(rows, c))],
   blanks |-> [c \in 1..width |-> HasBlanks(Column(rows, c))]]

\* A file with nothing under its header: typify() throws no_body_exception and
\* csvJoin assumes boolean columns full of blanks.
NoBodyTypes(width) ==
  [types |-> [c \in 1..width |-> "bool"], blanks |-> [c \in 1..width |-> TRUE]]

FileTypes(f) ==
  IF keys[f] = <<>> THEN NoBodyTypes(Width(f)) ELSE Typify(BodyRows(f), Width(f))

===============================================================================
