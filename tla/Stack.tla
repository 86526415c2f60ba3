--------------------------------- MODULE Stack ---------------------------------
(***************************************************************************)
(* csvStack: the rows of several files under one header, each file's       *)
(* columns at the place of their names, with a group value in front if     *)
(* --groups or --filenames asks for it.                                    *)
(*                                                                         *)
(* cmd.files[f] is a file, with the names of its header, its number of     *)
(* rows and whether they are ragged, after patterns are expanded;          *)
(* cmd.arguments is the number of arguments they came from; cmd.groups the *)
(* values of -g.  A data cell is <<file, row, column>>.                    *)
(***************************************************************************)
EXTENDS Tool

VARIABLES
  final_header,   \* the header of the output
  replace_vec,    \* where the columns of the files after the first go
  replace_idx,    \* where in replace_vec the present file begins
  group_idx,      \* the file, and the group, whose turn it is
  stack_row,      \* the row being composed, kept from row to row
  stacked,        \* rows of the present file already printed
  line_nums

stackVars ==
  <<final_header, replace_vec, replace_idx, group_idx, stack_row, stacked, line_nums>>

ASSUME StackAssumption ==
  \A tool \in DOMAIN Commands : \A c \in Commands[tool] : c.tool = "stack" =>
    c.files \in Seq([names : Seq(STRING), rows : Nat, ragged : BOOLEAN])

NoGroups == <<>>
EmptyCell == <<0, 0, 0>>
StackCell(f, l, c) == <<f, l, c>>
GroupCell(f) == <<0, f, 0>>

NamesOf(f) == HeaderNames(cmd.files[f].names)
groups_or_filenames == cmd.groups # NoGroups \/ cmd.filenames
GroupName == IF cmd.group_name = "" THEN "group" ELSE cmd.group_name

\* total_cols counts the distinct names of all the files (header_fields is a set).
TotalCols ==
  Cardinality(UNION {Range(NamesOf(f)) : f \in DOMAIN cmd.files})
    + (IF groups_or_filenames THEN 1 ELSE 0)

\* fill_replace_vec: a name of a later file that the header does not have yet goes to
\* the end of it; every such name stands for its first place in the header.
FirstHeader == (IF groups_or_filenames THEN <<GroupName>> ELSE <<>>) \o NamesOf(1)
LaterNames == FlattenSeq([f \in 1..(Len(cmd.files) - 1) |-> NamesOf(f + 1)])
New(k) ==
  /\ LaterNames[k] \notin Range(FirstHeader)
  /\ \A j \in 1..(k - 1) : LaterNames[j] # LaterNames[k]
FinalHeader ==
  FirstHeader \o
    FlattenSeq([k \in DOMAIN LaterNames |-> IF New(k) THEN <<LaterNames[k]>> ELSE <<>>])
FirstPlace(name, header) ==
  CHOOSE i \in DOMAIN header : header[i] = name /\ \A j \in 1..(i - 1) : header[j] # name
FillReplaceVec == [k \in DOMAIN LaterNames |-> FirstPlace(LaterNames[k], final_header')]

StackInit ==
  /\ final_header = <<>> /\ replace_vec = <<>> /\ replace_idx = 0
  /\ group_idx = 1 /\ stack_row = <<>> /\ stacked = 0 /\ line_nums = 0

\* The groups are counted against the arguments, before set_readers expands the
\* patterns among them.
StackRejects ==
  \/ cmd.groups # NoGroups /\ Len(cmd.groups) # cmd.arguments
  \/ cmd.files = <<>>
  \/ \E f \in DOMAIN cmd.files : cmd.files[f].ragged \/ cmd.files[f].names = <<>>

StackRejected ==
  /\ at = "start" /\ StackRejects
  /\ Goto("failed") /\ Quiet /\ UNCHANGED stackVars

StackStart ==
  /\ at = "start" /\ ~StackRejects
  /\ Goto("stacking")
  /\ final_header' = FinalHeader
  /\ replace_vec' = FillReplaceVec
  /\ Write(<<[n |-> 0, cells |-> final_header']>>)
  /\ UNCHANGED <<replace_idx, group_idx, stack_row, stacked, line_nums>>

RowToStack ==
  at = "stacking" /\ group_idx <= Len(cmd.files) /\ stacked < cmd.files[group_idx].rows
StackLine(cells) ==
  /\ stacked' = stacked + 1
  /\ line_nums' = IF cmd.linenumbers THEN line_nums + 1 ELSE line_nums
  /\ Write(<<[n |-> line_nums', cells |-> cells]>>)
  /\ UNCHANGED <<cmd, at, final_header, replace_vec, replace_idx, group_idx>>

\* A row of the first file: its cells as they are, then separators.
PutFirst ==
  /\ RowToStack /\ group_idx = 1
  /\ LET cells == [c \in DOMAIN NamesOf(1) |-> StackCell(1, stacked + 1, c)]
         row == (IF groups_or_filenames THEN <<GroupCell(1)>> ELSE <<>>) \o cells
     IN  StackLine(row \o [i \in 1..(IF Len(row) < TotalCols THEN TotalCols - Len(row) ELSE 0)
                             |-> EmptyCell])
  /\ UNCHANGED stack_row

\* A row of a later file: the group first, then every cell at its place, where the
\* last of several wins.
NoSuchGroup == ~cmd.filenames /\ cmd.groups # NoGroups /\ group_idx > Len(cmd.groups)
\* Mutant: the places of the second file for all that follow.
PlaceFromStart(c) == replace_vec[c]
PlaceInRow(c) == replace_vec[replace_idx + c]
Composed ==
  LET columns == DOMAIN NamesOf(group_idx) IN
  [i \in DOMAIN stack_row |->
     LET mine == {c \in columns : PlaceInRow(c) = i} IN
     IF mine # {} THEN StackCell(group_idx, stacked + 1, CHOOSE c \in mine : \A d \in mine : d <= c)
     ELSE IF groups_or_filenames /\ i = 1 THEN GroupCell(group_idx)
     ELSE stack_row[i]]
OutsideRow == \E c \in DOMAIN NamesOf(group_idx) : PlaceInRow(c) > Len(stack_row)

PutRest ==
  /\ RowToStack /\ group_idx > 1 /\ ~NoSuchGroup /\ ~OutsideRow
  /\ stack_row' = Composed
  /\ StackLine(Composed)

\* group_names or the row is indexed beyond its end.
PutOutside ==
  /\ RowToStack /\ group_idx > 1 /\ (NoSuchGroup \/ OutsideRow)
  /\ Goto("undefined") /\ Quiet /\ UNCHANGED stackVars

\* The next reader: a new row, and replace_idx past the columns of the last one.
NextReader ==
  /\ at = "stacking" /\ group_idx <= Len(cmd.files) /\ ~RowToStack
  /\ group_idx' = group_idx + 1 /\ stacked' = 0
  /\ replace_idx' = IF group_idx = 1 THEN 0 ELSE replace_idx + Len(NamesOf(group_idx))
  /\ stack_row' = [i \in 1..TotalCols |-> EmptyCell]
  /\ Quiet /\ UNCHANGED <<cmd, at, final_header, replace_vec, line_nums>>

StackEnd ==
  /\ at = "stacking" /\ group_idx > Len(cmd.files)
  /\ Goto("done") /\ Flush /\ UNCHANGED stackVars

StackNext ==
  StackRejected \/ StackStart \/ PutFirst \/ PutRest \/ PutOutside \/ NextReader \/ StackEnd

StackSpec == ToolInit /\ StackInit /\ [][StackNext]_<<toolVars, stackVars>>

(***************************************************************************)
(* Properties.                                                             *)
(***************************************************************************)
\* What csvStack is meant for: no name twice in a header, none of them that of the
\* group column, and no pattern among the arguments when groups are given.
Regular ==
  /\ \A f \in DOMAIN cmd.files : IsInjective(NamesOf(f))
  /\ groups_or_filenames => \A f \in DOMAIN cmd.files : GroupName \notin Range(NamesOf(f))
  /\ cmd.groups # NoGroups => cmd.arguments = Len(cmd.files)

\* The lines of the output before those of a file.
RowsOf(f) == [l \in 1..cmd.files[f].rows |-> <<f, l>>]
Above(f) == 1 + Len(FlattenSeq([g \in 1..(f - 1) |-> RowsOf(g)]))

\* What is printed for row l of file f.
UnderItsNames(cells, f, l) ==
  /\ Len(cells) = Len(final_header)
  /\ \A i \in DOMAIN cells :
       LET c == {d \in DOMAIN NamesOf(f) : NamesOf(f)[d] = final_header[i]} IN
       cells[i] = IF groups_or_filenames /\ i = 1 THEN GroupCell(f)
                  ELSE IF c # {} THEN StackCell(f, l, CHOOSE d \in c : TRUE)
                  ELSE EmptyCell

\* Every row of every file is printed in its turn, each cell under the name it had in
\* its file, the group value in front, nothing under the names its file does not have,
\* and nothing left over from the row or the file before (put_first, put_rest).
StackUnion ==
  cmd.tool = "stack" /\ Regular =>
    /\ at # "undefined"
    /\ at = "done" => Len(out) = Above(Len(cmd.files) + 1)
    /\ \A f \in DOMAIN cmd.files : \A l \in 1..cmd.files[f].rows :
         Above(f) + l \in DOMAIN Output => UnderItsNames(Output[Above(f) + l].cells, f, l)
===============================================================================
