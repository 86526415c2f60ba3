--------------------------------- MODULE Clean ---------------------------------
(***************************************************************************)
(* csvClean: the rows of a source that have as many cells as the header go *)
(* to <stem>_out.csv, the others to <stem>_err.csv with a message.         *)
(*                                                                         *)
(* cmd.header is the number of columns, cmd.widths the number of cells of  *)
(* each row, cmd.long the rows with a cell above --maxfieldsize (0 is the  *)
(* header).  A reader that has nothing under the header may still report   *)
(* the end of one row without cells: a width of 0, and only then.          *)
(***************************************************************************)
EXTENDS Tool

VARIABLES
  reported,              \* rows the reader has reported
  rows,                  \* those of them that counted
  errors,                \* those of the wrong width
  good_rows, bad_rows,   \* the line numbers last printed with -l
  current_row,           \* the line the checker of field sizes believes in
  files,                 \* files.out, files.err: the lines of each file, or NoFile
  log                    \* the rows in error that a dry run named

\* The contents a reader can report: see above.
ASSUME CleanAssumption ==
  \A tool \in DOMAIN Commands : \A c \in Commands[tool] : c.tool = "clean" =>
    /\ c.header \in Nat /\ c.widths \in Seq(Nat)
    /\ 0 \in Range(c.widths) => Len(c.widths) = 1

cleanVars == <<reported, rows, errors, good_rows, bad_rows, current_row, files, log>>

\* A line of a file: what it is, its number under -l, the row named in its message,
\* and the row of the source it holds.
FileLine(kind, n, row, line) == [kind |-> kind, n |-> n, row |-> row, line |-> line]
NoFile == <<FileLine("none", 0, 0, -1)>>

\* The header of the output, which -H leaves out unless -l is given, and that of the
\* file of errors, which it does not.
OutHeader ==
  IF cmd.no_header /\ ~cmd.linenumbers THEN <<>> ELSE <<FileLine("header", 0, 0, 0)>>
ErrHeader == <<FileLine("header", 0, 0, 0)>>
CleanNumber(n) == IF cmd.linenumbers THEN n ELSE 0

\* Mutant: the line that opens the file is lost.
IntoLosesFirst(file, header, line) == IF file = NoFile THEN header ELSE Append(file, line)
\* static ofstream_holder, static header_printer: the first line opens the file.
Into(file, header, line) == (IF file = NoFile THEN header ELSE file) \o <<line>>

CleanInit ==
  /\ reported = 0 /\ rows = 0 /\ errors = 0 /\ good_rows = 0 /\ bad_rows = 0
  /\ current_row = 1
  /\ files = [out |-> NoFile, err |-> NoFile]
  /\ log = <<>>

\* Mutant: the first row is on line 1 under a header too.
FirstLineAlways == 1
\* reset_current_row: the line of the first row.
FirstLine == IF cmd.no_header THEN 1 ELSE 2

\* The header is checked before anything else.
CleanStart ==
  /\ at = "start"
  /\ IF cmd.header = 0 \/ 0 \in cmd.long
     THEN Goto("failed") /\ UNCHANGED current_row
     ELSE Goto("cleaning") /\ current_row' = FirstLine
  /\ Quiet /\ UNCHANGED <<reported, rows, errors, good_rows, bad_rows, files, log>>

\* The callbacks of run_spans for one row: its cells, then its end.
ThisRow == reported + 1
RowReported == at = "cleaning" /\ reported < Len(cmd.widths)
NoCells == rows = 0 /\ cmd.widths[ThisRow] = 0

TooLong ==
  /\ RowReported /\ ThisRow \in cmd.long
  /\ Goto("failed") /\ Quiet /\ UNCHANGED cleanVars

NoRow ==
  /\ RowReported /\ ThisRow \notin cmd.long /\ NoCells
  /\ reported' = reported + 1
  /\ Quiet /\ UNCHANGED <<cmd, at, rows, errors, good_rows, bad_rows, current_row, files, log>>

GoodRow ==
  /\ RowReported /\ ThisRow \notin cmd.long /\ ~NoCells
  /\ cmd.widths[ThisRow] = cmd.header
  /\ reported' = reported + 1 /\ rows' = rows + 1 /\ current_row' = current_row + 1
  /\ good_rows' = IF cmd.linenumbers /\ ~cmd.dry_run THEN good_rows + 1 ELSE good_rows
  /\ files' = IF cmd.dry_run THEN files ELSE
       [files EXCEPT !.out = Into(@, OutHeader, FileLine("row", CleanNumber(good_rows'), 0, ThisRow))]
  /\ Quiet /\ UNCHANGED <<cmd, at, errors, bad_rows, log>>

BadRow ==
  /\ RowReported /\ ThisRow \notin cmd.long /\ ~NoCells
  /\ cmd.widths[ThisRow] # cmd.header
  /\ reported' = reported + 1 /\ rows' = rows + 1 /\ current_row' = current_row + 1
  /\ errors' = errors + 1
  /\ bad_rows' = IF cmd.linenumbers /\ ~cmd.dry_run THEN bad_rows + 1 ELSE bad_rows
  /\ files' = IF cmd.dry_run THEN files ELSE
       [files EXCEPT !.err = Into(@, ErrHeader, FileLine("error", CleanNumber(bad_rows'), rows', ThisRow))]
  /\ log' = IF cmd.dry_run THEN Append(log, rows') ELSE log
  /\ Quiet /\ UNCHANGED <<cmd, at, good_rows>>

\* Mutant: not so if there are no rows.
AllInErrorSome == rows = errors /\ rows > 0
\* The output was never opened.
AllInError == rows = errors

\* Without a good row the output is still to have its header; then the message on
\* the number of errors, even if it is none.
CleanEnd ==
  /\ at = "cleaning" /\ reported = Len(cmd.widths)
  /\ Goto("done")
  /\ IF cmd.dry_run THEN Quiet /\ UNCHANGED files
     ELSE /\ files' = IF AllInError THEN [files EXCEPT !.out = OutHeader] ELSE files
          /\ out' = Append(out, [errors |-> errors]) /\ UNCHANGED held
  /\ UNCHANGED <<reported, rows, errors, good_rows, bad_rows, current_row, log>>

CleanNext == CleanStart \/ TooLong \/ NoRow \/ GoodRow \/ BadRow \/ CleanEnd

CleanSpec == ToolInit /\ CleanInit /\ [][CleanNext]_<<toolVars, cleanVars>>

(***************************************************************************)
(* Properties.                                                             *)
(***************************************************************************)
DataLines(file) == {k \in DOMAIN file : file[k].kind \in {"row", "error"}}
TheFiles == {files.out, files.err}

\* No line is lost (print_line in both branches): every row read so far is in one of
\* the files, with the good ones in the output only; there are no more lines than rows;
\* each file keeps the order of the source; a message bears the number of its row.
CleanNothingLost ==
  cmd.tool = "clean" /\ ~cmd.dry_run =>
    /\ \A r \in 1..rows : \E k \in DataLines(IF cmd.widths[r] = cmd.header THEN files.out ELSE files.err) :
         (IF cmd.widths[r] = cmd.header THEN files.out ELSE files.err)[k].line = r
    /\ Cardinality(DataLines(files.out)) + Cardinality(DataLines(files.err)) = rows
    /\ \A f \in TheFiles : \A j, k \in DOMAIN f : j < k => f[j].line < f[k].line
    /\ \A k \in DataLines(files.err) : files.err[k].row = files.err[k].line

\* The message about a field that is too long names the line it is on, and a dry run
\* names exactly the rows that would go to the file of errors (current_row, rows).
CleanBlames ==
  cmd.tool = "clean" =>
    /\ RowReported => current_row = ThisRow + (IF cmd.no_header THEN 0 ELSE 1)
    /\ cmd.dry_run => Range(log) = {r \in 1..rows : cmd.widths[r] # cmd.header}

\* When it is done there is an output that begins with its header, and a file of errors
\* if and only if there were any; a dry run leaves no file, however it ends.
CleanFiles ==
  cmd.tool = "clean" =>
    /\ cmd.dry_run => TheFiles = {NoFile}
    /\ at = "done" /\ ~cmd.dry_run =>
         /\ files.out # NoFile /\ IsPrefix(OutHeader, files.out)
         /\ (files.err # NoFile) = (\E r \in 1..rows : cmd.widths[r] # cmd.header)
===============================================================================
