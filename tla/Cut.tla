---------------------------------- MODULE Cut ----------------------------------
(***************************************************************************)
(* csvCut: some of the columns of a source, in the order asked for.        *)
(*                                                                         *)
(* cmd.names is the header (the first row under --no-header-row), cmd.data *)
(* the number of data rows, cmd.blank the places <<line, column>> that     *)
(* hold nothing, cmd.ids and cmd.excl the identifiers of -c and -C.        *)
(***************************************************************************)
EXTENDS Tool, ColumnIds

VARIABLES
  cut_ids,     \* the columns to print
  read,        \* the last line read; line 0 is the header row
  line,        \* the static counter of print_container
  label        \* the static say_ln: "line_number," is unsaid, said, or followed by a line

cutVars == <<cut_ids, read, line, label>>

ASSUME CutAssumption ==
  \A tool \in DOMAIN Commands : \A c \in Commands[tool] : c.tool = "cut" =>
    c.names \in Seq(STRING) /\ AreIds(c.ids) /\ AreIds(c.excl) /\ c.linenumbers \in BOOLEAN

\* The names generated for the columns are no line of the source.
Generated == -1
CutLine(labelled, n, l, columns) ==
  [labelled |-> labelled, n |-> n, line |-> l, columns |-> columns]

CutInit == cut_ids = <<>> /\ read = 0 /\ line = 0 /\ label = "unsaid"

CutIds == ParseColumnIdentifiers(cmd.ids, cmd.excl, HeaderNames(cmd.names), cmd.zero)

\* -n with -H, ragged rows, or no header at all.
CutRefused == (cmd.show_names /\ cmd.no_header) \/ cmd.ragged \/ cmd.names = <<>>

CutNames ==
  /\ at = "start" /\ ~CutRefused /\ cmd.show_names
  /\ Goto("done") /\ out' = Append(out, cmd.names)
  /\ UNCHANGED <<held, cut_ids, read, line, label>>

CutRejected ==
  /\ at = "start"
  /\ \/ CutRefused /\ Goto("failed")
     \/ ~CutRefused /\ ~cmd.show_names /\ ~Understood(CutIds) /\ Goto("rejected")
  /\ Quiet /\ UNCHANGED cutVars

\* run_rows will deliver the header as a row, unless there is none; then the names
\* that were generated are printed first, without a number.  No column to print is a
\* read of the first element of nothing.
CutStart ==
  /\ at = "start" /\ ~CutRefused /\ ~cmd.show_names /\ Understood(CutIds)
  /\ cut_ids' = CutIds
  /\ read' = IF cmd.no_header THEN 0 ELSE -1
  /\ line' = IF cmd.no_header THEN 1 ELSE 0
  /\ label' = IF cmd.no_header THEN "followed" ELSE "unsaid"
  /\ IF cmd.no_header /\ CutIds = <<>> THEN Goto("undefined") /\ Quiet
     ELSE /\ Goto("cutting")
          /\ Write(IF cmd.no_header THEN <<CutLine(cmd.linenumbers, 0, Generated, CutIds)>> ELSE <<>>)

\* -x: nothing in any of the columns that are printed.
\* Mutant: one empty cell is enough.
EmptyAny(l) == \E k \in DOMAIN cut_ids : <<l, cut_ids[k]>> \in cmd.blank
Empty(l) == \A k \in DOMAIN cut_ids : <<l, cut_ids[k]>> \in cmd.blank
Kept(l) == ~cmd.x \/ ~Empty(l)
RowToCut == at = "cutting" /\ read < cmd.data

CutRow ==
  /\ RowToCut /\ Kept(read + 1) /\ cut_ids # <<>>
  /\ read' = read + 1
  /\ Write(<<CutLine(cmd.linenumbers /\ label # "followed",
                     IF cmd.linenumbers THEN line ELSE 0, read', cut_ids)>>)
  /\ line' = line + 1 /\ label' = "followed"
  /\ UNCHANGED <<cmd, at, cut_ids>>

CutEmptyRow ==
  /\ RowToCut /\ ~Kept(read + 1)
  /\ read' = read + 1
  /\ label' = IF label = "unsaid" THEN "said" ELSE label
  /\ Quiet /\ UNCHANGED <<cmd, at, cut_ids, line>>

CutNothing ==
  /\ RowToCut /\ Kept(read + 1) /\ cut_ids = <<>>
  /\ Goto("undefined") /\ Quiet /\ UNCHANGED cutVars

CutEnd ==
  /\ at = "cutting" /\ ~RowToCut
  /\ Goto("done") /\ Flush /\ UNCHANGED cutVars

CutNext ==
  CutNames \/ CutRejected \/ CutStart \/ CutRow \/ CutEmptyRow \/ CutNothing \/ CutEnd

CutSpec == ToolInit /\ CutInit /\ [][CutNext]_<<toolVars, cutVars>>

(***************************************************************************)
(* Properties.                                                             *)
(***************************************************************************)
\* What is printed under a header that is kept is a table: one header, labelled if the
\* rows are numbered, the rows numbered from 1 without a gap, in the order of the
\* source, all of the same columns; and no row of the source is missing but the empty
\* ones that -x drops (print_container and its static counters, run_rows).
CutTable ==
  cmd.tool = "cut" /\ at \in {"cutting", "done"} /\ ~cmd.show_names
    /\ (cmd.no_header \/ Kept(0)) =>
      /\ \A k \in DOMAIN Output :
           /\ Output[k].columns = cut_ids
           /\ Output[k].n = IF cmd.linenumbers THEN k - 1 ELSE 0
           /\ Output[k].labelled = (cmd.linenumbers /\ k = 1)
      /\ \A j, k \in DOMAIN Output : j < k => Output[j].line < Output[k].line
      /\ \A l \in 0..read : (l > 0 \/ ~cmd.no_header) =>
           (\E k \in DOMAIN Output : Output[k].line = l)
             = ~(cmd.x /\ \A c \in Range(cut_ids) : <<l, c>> \in cmd.blank)

\* What an identifier stands for, by the help of csvCut: a number for the column of that
\* number, a name for the first column that has it, and a range, unless it is a name, for
\* the columns from one number to another, an end left out being that of the header.
IsRange(id) ==
  id.kind = "range" /\ \A d \in DOMAIN cmd.names : HeaderNames(cmd.names)[d] # id.text
Covers(id, c) ==
  LET names == HeaderNames(cmd.names)
      number == IF cmd.zero THEN c - 1 ELSE c
  IN  \/ id.kind = "number" /\ id.lo = number
      \/ id.kind # "number" /\ names[c] = id.text /\ \A d \in 1..(c - 1) : names[d] # id.text
      \/ IsRange(id) /\ (id.lo = Open \/ id.lo <= number)
                     /\ (id.hi = Open \/ number <= id.hi)

\* Unless -C has a range, the columns printed are exactly those that some identifier of -c
\* stands for, all if there is none, and no identifier of -C does, as numbers, names,
\* names that are numbers, names that occur twice and ranges go together
\* (parse_column_identifiers).
CutColumns ==
  cmd.tool = "cut" /\ at \in {"cutting", "done", "undefined"} /\ ~cmd.show_names
    /\ (\A k \in DOMAIN cmd.excl : ~IsRange(cmd.excl[k])) =>
      Range(cut_ids) =
        {c \in DOMAIN cmd.names :
           /\ cmd.ids = <<>> \/ \E k \in DOMAIN cmd.ids : Covers(cmd.ids[k], c)
           /\ \A k \in DOMAIN cmd.excl : ~Covers(cmd.excl[k], c)}

\* "A comma-separated list of column indices, names or ranges to be excluded" (the help of
\* -C, csvCut.cpp:18): no column is printed that an identifier of -C stands for, ranges
\* too.
CutExcludesRanges ==
  cmd.tool = "cut" /\ at \in {"cutting", "done"} /\ ~cmd.show_names =>
    \A k \in DOMAIN cmd.excl : \A c \in Range(cut_ids) : ~Covers(cmd.excl[k], c)
===============================================================================
