---------------------------------- MODULE Look ----------------------------------
(***************************************************************************)
(* csvLook: the rows as a table drawn for the console, of the widest cells *)
(* and within the limits of --max-rows, --max-columns and                  *)
(* --max-column-width.                                                     *)
(*                                                                         *)
(* A cell is known by its size, the symbols it takes when it is formatted  *)
(* for the type of its column, 0 for a blank, and by the bytes of those    *)
(* symbols: cmd.sizes[r][c] and cmd.bytes[r][c], cmd.names[c] and          *)
(* cmd.name_bytes[c] for the names.  A symbol is as wide as any other.  A  *)
(* line read from standard input is a row.                                 *)
(***************************************************************************)
EXTENDS Tool

VARIABLES
  look_columns,  \* --max-columns, less the column of line numbers
  look_numbers,  \* --linenumbers, unless there are to be no columns
  max_sizes,     \* the widths of the columns
  look_row       \* rows done in the present pass

lookVars == <<look_columns, look_numbers, max_sizes, look_row>>

\* Every row has a cell for each column: typify() refuses other sources.
ASSUME LookAssumption ==
  \A tool \in DOMAIN Commands : \A c \in Commands[tool] : c.tool = "look" =>
    /\ c.names \in Seq(Nat) /\ c.sizes \in Seq(Seq(Nat))
    /\ \A r \in DOMAIN c.sizes : Len(c.sizes[r]) = Len(c.names)
    /\ \A k \in DOMAIN c.names : c.name_bytes[k] \in Nat /\ c.name_bytes[k] >= c.names[k]
    /\ \A r \in DOMAIN c.sizes : \A k \in DOMAIN c.names :
         c.bytes[r][k] \in Nat /\ c.bytes[r][k] >= c.sizes[r][k]
    /\ c.max_rows \in Nat /\ c.max_columns \in Nat /\ c.max_column_width \in Nat

LookInit == look_columns = 0 /\ look_numbers = FALSE /\ max_sizes = <<>> /\ look_row = 0

\* The ellipses, by their lengths.
micro_ellipsis_len == 1
mini_ellipsis_len == 2
native_ellipsis_len == 3
linenumbers_header_length == 12

\* special_read_standard_input stops after the rows that will be looked at and one more.
LookRows ==
  IF cmd.stdin THEN Min({Len(cmd.sizes), cmd.max_rows + 1}) ELSE Len(cmd.sizes)

\* make_required_adjustments: line numbers take one of the columns, if there are any.
Adjusted ==
  IF cmd.linenumbers /\ cmd.max_columns > 0
  THEN [columns |-> cmd.max_columns - 1, numbers |-> TRUE]
  ELSE [columns |-> cmd.max_columns, numbers |-> FALSE]

(***************************************************************************)
(* Lines.                                                                  *)
(***************************************************************************)
\* A field takes width symbols: those of a value and the dots that follow it.
Field(width, symbols, dots) == [width |-> width, symbols |-> symbols, dots |-> dots]
Dots(width) == Min({Max({width, micro_ellipsis_len}), native_ellipsis_len})

\* print_func_impl: the stream fills a field up to a width in bytes, which for a value
\* shorter than the column allows for the bytes its symbols have.
StreamWidth(size, bytes, max_size) ==
  IF size < max_size THEN max_size + bytes - size ELSE max_size

\* A value too long ends in an ellipsis; in the row after the last all are ellipses,
\* dots of one byte in the width of the value they stand for.
Printed(size, bytes, max_size) ==
  IF size <= max_size
  THEN Field(size + Max({StreamWidth(size, bytes, max_size) - bytes, 0}), size, 0)
  ELSE Field(max_size, max_size - native_ellipsis_len, native_ellipsis_len)
\* Mutant: three dots whatever the width.
EllipsisNative(size, bytes, max_size) ==
  Field(Max({StreamWidth(size, bytes, max_size), native_ellipsis_len}), 0, native_ellipsis_len)
Ellipsis(size, bytes, max_size) ==
  LET w == StreamWidth(size, bytes, max_size) IN  Field(Max({w, Dots(w)}), 0, Dots(w))
Place(size, bytes, max_size, row) ==
  IF row = cmd.max_rows THEN Ellipsis(size, bytes, max_size) ELSE Printed(size, bytes, max_size)

\* As many columns as fit, and whether there are more.
Columns == DOMAIN cmd.names
Fitting == Min({Len(cmd.names), look_columns})
Line(kind, row, number, fields) ==
  [kind |-> kind, row |-> row, more |-> Fitting # Len(cmd.names),
   fields |-> (IF look_numbers THEN <<number>> ELSE <<>>) \o SubSeq(fields, 1, Fitting)]

NumbersWidth == Min({linenumbers_header_length, cmd.max_column_width})
Header ==
  Line("header", 0,
       Printed(linenumbers_header_length, linenumbers_header_length, NumbersWidth),
       [c \in Columns |-> Printed(cmd.names[c], cmd.name_bytes[c], max_sizes[c])])
Rule ==
  Line("rule", 0, Field(NumbersWidth, 0, 0),
       [c \in Columns |-> Field(Max({max_sizes[c], 1}), 0, 0)])
\* Line numbers have one digit.
RowLine(row) ==
  Line("row", row + 1, Place(1, 1, NumbersWidth, row),
       [c \in Columns |->
          Place(cmd.sizes[row + 1][c], cmd.bytes[row + 1][c], max_sizes[c], row)])
\* Where no column or no row fits: a column of width 2 or none has two dots.
DottedLine ==
  LET dots(width) == IF width >= native_ellipsis_len THEN native_ellipsis_len
                     ELSE IF width = 1 THEN micro_ellipsis_len ELSE mini_ellipsis_len
      dotted(width) == Field(Max({width, dots(width)}), 0, dots(width))
  IN  Line("row", look_row + 1, dotted(NumbersWidth), [c \in Columns |-> dotted(max_sizes[c])])

(***************************************************************************)
(* Steps.                                                                  *)
(***************************************************************************)
LookRejected ==
  /\ at = "start" /\ cmd.max_column_width < native_ellipsis_len
  /\ Goto("rejected") /\ Quiet /\ UNCHANGED lookVars

\* Without limits of rows or columns that leave nothing, the sizes are found first.
LookStart ==
  /\ at = "start" /\ cmd.max_column_width >= native_ellipsis_len
  /\ IF LookRows = 0 THEN Goto("failed") /\ UNCHANGED <<look_columns, look_numbers, max_sizes>>
     ELSE /\ look_columns' = Adjusted.columns /\ look_numbers' = Adjusted.numbers
          /\ max_sizes' = [c \in Columns |-> Min({cmd.max_column_width, cmd.names[c]})]
          /\ Goto(IF cmd.max_rows > 0 /\ look_columns' > 0 THEN "measuring" ELSE "heading")
  /\ Quiet /\ UNCHANGED look_row

\* max_size_func, for every type.
Widened(width, size) ==
  Max({Min({Max({width, size}), cmd.max_column_width}), micro_ellipsis_len})

\* detect_max_sizes, which leaves the rows by an exception at the limit.
LookMeasure ==
  /\ at = "measuring"
  /\ max_sizes' = [c \in Columns |-> Widened(max_sizes[c], cmd.sizes[look_row + 1][c])]
  /\ IF look_row + 1 \in {cmd.max_rows, LookRows}
     THEN look_row' = 0 /\ Goto("heading")
     ELSE look_row' = look_row + 1 /\ UNCHANGED <<cmd, at>>
  /\ Quiet /\ UNCHANGED <<look_columns, look_numbers>>

LookHead ==
  /\ at = "heading"
  /\ Write(<<Header, Rule>>)
  /\ Goto(IF look_columns = 0 THEN "counting" ELSE IF cmd.max_rows = 0 THEN "dotting" ELSE "drawing")
  /\ UNCHANGED lookVars

\* Mutant: the row after the last is not drawn.
PastLimitEarly(row) == row + 1 = cmd.max_rows
PastLimit(row) == row = cmd.max_rows
LookRow ==
  /\ at = "drawing"
  /\ Write(<<RowLine(look_row)>>)
  /\ look_row' = look_row + 1
  /\ Goto(IF PastLimit(look_row) \/ look_row' = LookRows THEN "drawn" ELSE at)
  /\ UNCHANGED <<look_columns, look_numbers, max_sizes>>

\* No column fits: the rows are counted.
LookNumber ==
  /\ at = "counting" /\ look_row < Min({LookRows, cmd.max_rows})
  /\ Write(<<RowLine(look_row)>>)
  /\ look_row' = look_row + 1
  /\ UNCHANGED <<cmd, at, look_columns, look_numbers, max_sizes>>
LookNumbered ==
  /\ at = "counting" /\ look_row >= Min({LookRows, cmd.max_rows})
  /\ Write(IF LookRows > cmd.max_rows THEN <<DottedLine>> ELSE <<>>)
  /\ Goto("drawn") /\ UNCHANGED lookVars

\* No row fits.
LookDots ==
  /\ at = "dotting"
  /\ Write(<<DottedLine>>) /\ Goto("drawn") /\ UNCHANGED lookVars

LookEnd ==
  /\ at = "drawn"
  /\ Goto("done") /\ Flush /\ UNCHANGED lookVars

LookNext ==
  \/ LookRejected \/ LookStart \/ LookMeasure \/ LookHead \/ LookRow \/ LookNumber
  \/ LookNumbered \/ LookDots \/ LookEnd

LookSpec == ToolInit /\ LookInit /\ [][LookNext]_<<toolVars, lookVars>>

(***************************************************************************)
(* Properties.                                                             *)
(***************************************************************************)
\* What a field of the row of dots has too many: the bytes beyond its symbols of the cell
\* it is drawn for, if that cell is narrower than its column.
Excess(row, c) ==
  IF cmd.max_rows > 0 /\ row = cmd.max_rows + 1 /\ cmd.sizes[row][c] < max_sizes[c]
  THEN cmd.bytes[row][c] - cmd.sizes[row][c] ELSE 0

\* All lines of the table are drawn alike, as many columns of the same widths, whatever
\* was cut, left out, blank or of several bytes a symbol, and although the widths are
\* found in one pass and used in another (detect_max_sizes, print_func_impl); but for a
\* field in the row of dots, which is wider by the bytes its cell has beyond its symbols,
\* and by no more.  A column without a name has no width when no row was measured.
LookAligned ==
  cmd.tool = "look" /\ (\A c \in DOMAIN max_sizes : max_sizes[c] > 0) =>
    LET numbers == IF look_numbers THEN 1 ELSE 0
        excess(drawn, f) == IF f > numbers THEN Excess(drawn.row, f - numbers) ELSE 0
    IN  \A j, k \in DOMAIN Output :
          LET one == Output[j]
              other == Output[k]
          IN  /\ one.more = other.more /\ Len(one.fields) = Len(other.fields)
              /\ \A f \in DOMAIN one.fields :
                   one.fields[f].width - excess(one, f) = other.fields[f].width - excess(other, f)

\* The kth row of the table: the columns up to --max-columns, the line numbers being
\* one, with a cell cut only if it is longer than --max-column-width; or, past the rows
\* to show, dots.
DrawnRow(drawn, k, rows) ==
  LET fields == drawn.fields
      numbers == IF cmd.linenumbers /\ cmd.max_columns > 0 THEN 1 ELSE 0
      shown(size) == IF size <= cmd.max_column_width THEN <<size, 0>>
                     ELSE <<cmd.max_column_width - native_ellipsis_len, native_ellipsis_len>>
  IN  /\ drawn.kind = "row" /\ drawn.row = k
      /\ Len(fields) = Min({Len(cmd.names) + numbers, cmd.max_columns})
      /\ drawn.more = (Len(cmd.names) + numbers > cmd.max_columns)
      /\ \A f \in (numbers + 1)..Len(fields) :
           IF k <= rows
           THEN <<fields[f].symbols, fields[f].dots>> = shown(cmd.sizes[k][f - numbers])
           ELSE fields[f].symbols = 0 /\ fields[f].dots > 0

\* Under the header and its rule are the rows up to --max-rows, in order, with one row
\* of dots after them exactly if the source has more, read as a file or from standard
\* input; and of each the columns that are to be shown (max_rows, max_columns,
\* max_column_width, special_read_standard_input).
LookShown ==
  cmd.tool = "look" /\ at = "done" =>
    LET rows == Min({Len(cmd.sizes), cmd.max_rows})
        dotted == IF Len(cmd.sizes) > cmd.max_rows THEN 1 ELSE 0
    IN  /\ Len(out) = 2 + rows + dotted
        /\ out[1].kind = "header" /\ out[2].kind = "rule"
        /\ \A k \in 1..(rows + dotted) : DrawnRow(out[k + 2], k, rows)
================================================================================
