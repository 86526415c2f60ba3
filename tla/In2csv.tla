---------------------------------- MODULE In2csv ----------------------------------
(***************************************************************************)
(* In2csv: which converter a command line calls, and the converter of      *)
(* ndjson, a source of one JSON object per line whose objects need not     *)
(* have the same keys.  The other converters are left out.                 *)
(*                                                                         *)
(* cmd.objects is the source: an object has keys, all different, and       *)
(* values, each the text that stands for it in CSV; "" is a blank.          *)
(***************************************************************************)
EXTENDS Tool

VARIABLES
  csv_map,       \* the values of each column so far
  result_header, \* the columns in the order in which they were met
  total_rows,    \* objects read
  printed        \* rows printed

in2csvVars == <<csv_map, result_header, total_rows, printed>>

\* An object has values, each with a key of its own.
ASSUME In2csvAssumption ==
  \A tool \in DOMAIN Commands : \A c \in Commands[tool] : c.tool = "in2csv" =>
    /\ c.objects \in Seq([keys : Seq(STRING), values : Seq(STRING)])
    /\ \A r \in DOMAIN c.objects :
         LET object == c.objects[r] IN
         /\ object.keys # <<>> /\ Len(object.values) = Len(object.keys)
         /\ \A j, k \in DOMAIN object.keys : j # k => object.keys[j] # object.keys[k]

In2csvInit == csv_map = <<>> /\ result_header = <<>> /\ total_rows = 0 /\ printed = 0

(***************************************************************************)
(* The converter.                                                          *)
(***************************************************************************)
Formats == {"csv", "dbf", "fixed", "geojson", "json", "ndjson", "xls", "xlsx"}
Undetermined == "undetermined"

\* guess_format: a file without extension is of fixed width; geojson and ndjson have to
\* be asked for with --format.
GuessFormat(extension) ==
  IF extension = "" THEN "fixed"
  ELSE IF extension \in Formats \ {"geojson", "ndjson"} THEN extension ELSE Undetermined

Piped == cmd.file \in {"", "_"}
Inferred ==
  IF cmd.schema # "" THEN "fixed"
  ELSE IF cmd.key # "" \/ cmd.non_flat THEN "json"
  ELSE IF Piped THEN Undetermined ELSE GuessFormat(cmd.extension)
FileType == IF cmd.format # "" THEN cmd.format ELSE Inferred

\* cmd.missing are the names of files that do not exist.
InputRefused ==
  \/ cmd.file = "" /\ cmd.terminal /\ cmd.format = ""
  \/ FileType \notin Formats
  \/ cmd.sheet_names /\ FileType \notin {"xls", "xlsx"}
  \/ FileType = "fixed" /\ (cmd.schema = "" \/ cmd.schema \in cmd.missing)
  \/ FileType = "dbf" /\ Piped
  \/ ~Piped /\ cmd.file \in cmd.missing

(***************************************************************************)
(* ndjson.                                                                 *)
(***************************************************************************)
\* fill_func: the types are those of the one row the object makes, in which 0 and 1 are
\* booleans.
Converted(text) ==
  IF cmd.no_inference THEN text
  ELSE CASE text = "0" -> "False" [] text = "1" -> "True" [] OTHER -> text

\* Mutant: as many blanks as there are rows, whatever the column has already.
AlignedAlways(values, rows) == values \o [k \in 1..rows |-> ""]
\* align_columns: blanks for the rows that a column missed.
Aligned(values, rows) == values \o [k \in 1..(rows - Len(values)) |-> ""]

ValuesOf(column) == IF column \in Range(result_header) THEN csv_map[column] ELSE <<>>
PlaceIn(object, column) == CHOOSE k \in DOMAIN object.keys : object.keys[k] = column

\* update_result_header.
NewKeys(object) ==
  FlattenSeq([k \in DOMAIN object.keys |->
    IF object.keys[k] \in Range(result_header) THEN <<>> ELSE <<object.keys[k]>>])

\* update_result_header, then fill_func for each cell, and a blank for the columns that
\* the object has not.
ReadObject ==
  /\ at = "reading" /\ total_rows < Len(cmd.objects)
  /\ LET object == cmd.objects[total_rows + 1]
         own == Range(object.keys)
         filled(column) ==
           IF column \in own
           THEN Append(Aligned(ValuesOf(column), total_rows),
                       Converted(object.values[PlaceIn(object, column)]))
           ELSE IF Len(ValuesOf(column)) # total_rows + 1 THEN Append(ValuesOf(column), "")
           ELSE ValuesOf(column)
     IN  /\ result_header' = result_header \o NewKeys(object)
         /\ csv_map' = [column \in Range(result_header') |-> filled(column)]
  /\ total_rows' = total_rows + 1
  /\ Quiet /\ UNCHANGED <<cmd, at, printed>>

In2csvStart ==
  /\ at = "start"
  /\ IF InputRefused THEN Goto("failed") ELSE FileType = "ndjson" /\ Goto("reading")
  /\ Quiet /\ UNCHANGED in2csvVars

\* read_next throws where a source ends before its first object; a line end added to an
\* empty source, or left out (in2csv_ndjson.cpp reads the last symbol of what may be none),
\* makes no difference.
ReadNothing ==
  /\ at = "reading" /\ cmd.objects = <<>>
  /\ Goto("failed") /\ Quiet /\ UNCHANGED in2csvVars

\* Everything goes to std::cout, when the source has been read.
PrintHeader ==
  /\ at = "reading" /\ total_rows > 0 /\ total_rows = Len(cmd.objects)
  /\ Goto("printing")
  /\ out' = <<result_header>> /\ UNCHANGED <<held, csv_map, result_header, total_rows, printed>>
PrintRow ==
  /\ at = "printing" /\ printed < total_rows
  /\ printed' = printed + 1
  /\ out' = Append(out, [k \in DOMAIN result_header |-> csv_map[result_header[k]][printed']])
  /\ UNCHANGED <<cmd, at, held, csv_map, result_header, total_rows>>
In2csvEnd ==
  /\ at = "printing" /\ printed = total_rows
  /\ Goto("done") /\ Quiet /\ UNCHANGED in2csvVars

In2csvNext ==
  In2csvStart \/ ReadObject \/ ReadNothing \/ PrintHeader \/ PrintRow \/ In2csvEnd

In2csvSpec == ToolInit /\ In2csvInit /\ [][In2csvNext]_<<toolVars, in2csvVars>>

(***************************************************************************)
(* Properties.                                                             *)
(***************************************************************************)
\* Every key of every object is one column, in the order of the objects that had it
\* first, and every object one row, in order, with its values under its keys and blanks
\* everywhere else: also in the columns that later objects added (update_result_header,
\* align_columns, csv_map).
NdjsonTable ==
  cmd.tool = "in2csv" /\ at = "done" =>
    LET first(key) == CHOOSE r \in DOMAIN cmd.objects :
          /\ key \in Range(cmd.objects[r].keys)
          /\ \A q \in 1..(r - 1) : key \notin Range(cmd.objects[q].keys)
    IN  /\ Len(out) = Len(cmd.objects) + 1
        /\ Range(out[1]) = UNION {Range(cmd.objects[r].keys) : r \in DOMAIN cmd.objects}
        /\ \A j, k \in DOMAIN out[1] : j < k =>
             out[1][j] # out[1][k] /\ first(out[1][j]) <= first(out[1][k])
        /\ \A r \in DOMAIN cmd.objects :
             LET object == cmd.objects[r] IN
             out[r + 1] = [k \in DOMAIN out[1] |->
               IF out[1][k] \in Range(object.keys)
               THEN Converted(object.values[PlaceIn(object, out[1][k])]) ELSE ""]
===================================================================================
