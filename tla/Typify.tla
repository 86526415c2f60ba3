--------------------------------- MODULE Typify ---------------------------------
(***************************************************************************)
(* typify(): the type of every column and whether it has blanks.  One task *)
(* for each column tries the types in order until all its cells fit one.    *)
(*                                                                         *)
(* cmd.cells[c] is column c, the texts of its data cells from the first    *)
(* row down; cmd.blanks is --blanks and cmd.no_inference -I.               *)
(***************************************************************************)
EXTENDS Tool, Cells

VARIABLES
  table,         \* the cells of each column, with their caches
  trying,        \* the test the task of each column is at
  types,         \* the types found
  has_blanks     \* the blanks found

typifyVars == <<table, trying, types, has_blanks>>

\* The tests in their order; the task that passes one ends.
Tests == <<"bool", "timedelta", "datetime", "date", "number", "text">>
TaskEnded == Len(Tests) + 1

DataColumns == DOMAIN cmd.cells
DataRows == IF cmd.cells = <<>> THEN {} ELSE DOMAIN cmd.cells[1]

TypifyInit ==
  /\ table = <<>> /\ trying = <<>> /\ types = <<>> /\ has_blanks = <<>>

\* The table is filled with new cells, of all the columns or of some.
TypifyStart(columns) ==
  /\ table' = [c \in DOMAIN columns |-> [r \in DataRows |-> Fresh(columns[c][r])]]
  /\ trying' = [c \in DOMAIN columns |-> 1]
  /\ types' = [c \in DOMAIN columns |-> "unknown"]
  /\ has_blanks' = [c \in DOMAIN columns |-> FALSE]

\* Mutant: a blank whatever --blanks says.
BlankAlways(cell) == IsNull(GetValue(cell))
\* e.is_null_or_null_value() && !args.blanks
Blank(cell) == IsNull(GetValue(cell)) /\ ~cmd.blanks

\* What a test says of a cell that is no blank, and leaves in it.
Fits(test, cell) ==
  \/ test = "text"
  \/ /\ ~cmd.no_inference
     /\ CASE test = "bool" -> IsBoolean(GetValue(cell))
          [] test = "timedelta" -> cell.text \in Deltas
          [] test = "datetime" -> cell.text \in Datetimes
          [] test = "date" -> cell.text \in Dates
          [] test = "number" -> IsNum(GetValue(cell))
Tested(test, cell) ==
  LET valued == GetValue(cell) IN
  IF cmd.no_inference \/ Blank(cell) THEN valued
  ELSE CASE test = "bool" -> AfterIsBoolean(valued)
         [] test = "datetime" -> AfterDatetime(valued)
         [] test = "date" -> AfterDate(valued)
         [] OTHER -> valued

\* std::all_of stops at the first cell that does not fit.  Columns share no cell and
\* no flag, so that a test of a column is one step.
Reached(c, r) ==
  \A q \in 1..(r - 1) : Blank(table[c][q]) \/ Fits(Tests[trying[c]], table[c][q])
TryType(c) ==
  LET test == Tests[trying[c]]
      reached == {r \in DataRows : Reached(c, r)}
      fit == \A r \in DataRows : Blank(table[c][r]) \/ Fits(test, table[c][r])
  IN  /\ trying[c] # TaskEnded
      /\ table' = [table EXCEPT ![c] = [r \in DataRows |->
                     IF r \in reached THEN Tested(test, @[r]) ELSE @[r]]]
      /\ has_blanks' = [has_blanks EXCEPT ![c] = @ \/ \E r \in reached : Blank(table[c][r])]
      /\ types' = IF fit THEN [types EXCEPT ![c] = test] ELSE types
      /\ trying' = [trying EXCEPT ![c] = IF fit THEN TaskEnded ELSE @ + 1]

TryTypes == \E c \in DOMAIN trying : TryType(c)

\* task->wait(); under -I a column of nothing but blanks passed for boolean.
Typified == \A c \in DOMAIN trying : trying[c] = TaskEnded
TypifyEnd ==
  /\ Typified
  /\ types' = IF cmd.no_inference THEN [c \in DOMAIN types |-> "text"] ELSE types
  /\ UNCHANGED <<table, trying, has_blanks>>

(***************************************************************************)
(* Properties.                                                             *)
(***************************************************************************)
TypesKnown == at \notin {"start", "typifying"} /\ types # <<>>
TextsIn(c) == {table[c][r].text : r \in DataRows}

\* A column is said to have blanks exactly if one of its cells is a blank, at whatever
\* test and cell the scan of the column stopped (setup_blanks in each all_of).
BlanksKnown ==
  TypesKnown => \A c \in DOMAIN table : has_blanks[c] = (~cmd.blanks /\ Null \in TextsIn(c))

\* A column without the words of booleans has the first type that each of its texts
\* fits on its own, in whatever order the texts come and whatever the tests that went
\* before have cached (typify, typed_span).  A column with such words need not.
FirstFit(texts) ==
  LET fits(test) == \A text \in texts :
        (text = Null /\ ~cmd.blanks) \/ Fits(test, Fresh(text))
  IN  IF cmd.no_inference THEN "text"
      ELSE Tests[CHOOSE k \in DOMAIN Tests : fits(Tests[k]) /\ \A j \in 1..(k - 1) : ~fits(Tests[j])]
TypesFit ==
  TypesKnown => \A c \in DOMAIN table :
    TextsIn(c) \cap BooleanWords = {} => types[c] = FirstFit(TextsIn(c))
===============================================================================
