---------------------------------- MODULE Json ----------------------------------
(***************************************************************************)
(* csvJson: the rows as objects of JSON, or as features of GeoJSON.        *)
(*                                                                         *)
(* The output is a sequence of tokens: what opens and closes an object or  *)
(* an array, the values, and what stands between them.  Layout (--indent)  *)
(* and the spelling of values are left out, except that a value may be     *)
(* null.  cmd.cells[c] is column c, of numbers, words and blanks (module    *)
(* Typify has the other types); cmd.null_values is what --null-value adds  *)
(* to the blanks.  The columns given for latitude, longitude, type and key  *)
(* are different columns, given by name.                                   *)
(***************************************************************************)
EXTENDS Tool, Cells, ColumnIds

VARIABLES
  key_idx,       \* the column of --key, or 0
  dups, nulls,   \* check_dup_func_impl: keys seen, and blank keys
  json_row,      \* rows done in the present pass
  bbox           \* the least and the greatest latitude and longitude so far

jsonVars == <<key_idx, dups, nulls, json_row, bbox>>

\* A column for each name, with a text for every row: a number, a word or a blank.
ASSUME JsonAssumption ==
  \A tool \in DOMAIN Commands : \A c \in Commands[tool] : c.tool = "json" =>
    /\ c.names \in Seq(STRING)
    /\ c.cells \in Seq(Seq(Texts)) /\ \A k \in DOMAIN c.cells : Len(c.cells[k]) = Len(c.cells[1])
    /\ \A k \in DOMAIN c.cells : Range(c.cells[k]) \subseteq {Null} \cup Words \cup Numbers
    /\ c.names # <<>> /\ c.cells # <<>> => Len(c.cells) = Len(c.names)

NoBound == [lat |-> <<>>, lon |-> <<>>]
JsonInit == key_idx = 0 /\ dups = {} /\ nulls = 0 /\ json_row = 0 /\ bbox = NoBound

JsonColumns == DOMAIN cmd.names
JsonRows == IF cmd.cells = <<>> THEN {} ELSE DOMAIN cmd.cells[1]
JsonLast == Cardinality(JsonRows)
Given(option) == option # ""
Geojson ==
  \/ \E option \in {cmd.lat, cmd.lon, cmd.type, cmd.crs} : Given(option)
  \/ cmd.geometry \/ cmd.no_bbox

\* The command lines that are refused.
JsonMisused ==
  \/ Given(cmd.lat) # Given(cmd.lon)
  \/ Given(cmd.type) /\ ~(Given(cmd.lat) /\ Given(cmd.lon))
  \/ cmd.stream /\ Given(cmd.key) /\ ~(Given(cmd.lat) /\ Given(cmd.lon))
  \/ ~Geojson /\ cmd.indent /\ cmd.stream
  \/ cmd.geometry

\* typify, for numbers and words.
UserNull(text) == text \in cmd.null_values /\ Evaluated(text) = "string"
JsonBlank(text) == ~cmd.blanks /\ (text = Null \/ UserNull(text))
JsonType(c) ==
  IF cmd.no_inference THEN "text"
  ELSE IF \A r \in JsonRows : JsonBlank(cmd.cells[c][r]) \/ cmd.cells[c][r] \in {"0", "1"}
       THEN "bool"
  ELSE IF \A r \in JsonRows : JsonBlank(cmd.cells[c][r]) \/ cmd.cells[c][r] \in Numbers
       THEN "number" ELSE "text"
JsonHasBlanks(c) == \E r \in JsonRows : JsonBlank(cmd.cells[c][r])

NamedColumn(name) == FirstNamed(name, cmd.names)
LatLon == <<NamedColumn(cmd.lat), NamedColumn(cmd.lon)>>

\* Latitude and longitude; the type of the second is looked for in the first if it is
\* no number.
JsonPlaceless ==
  \/ NoColumn \in Range(LatLon)
  \/ Given(cmd.type) /\ NamedColumn(cmd.type) = NoColumn
  \/ Given(cmd.key) /\ NamedColumn(cmd.key) = NoColumn
  \/ JsonType(LatLon[1]) \notin {"number", "text"}
  \/ JsonType(LatLon[2]) # "number" /\ JsonType(LatLon[1]) # "text"
  \/ \E k \in {1, 2} : JsonHasBlanks(LatLon[k])

(***************************************************************************)
(* Tokens.                                                                 *)
(***************************************************************************)
Token(kind, row, label, null) == [kind |-> kind, row |-> row, label |-> label, null |-> null]
Opening(row, label) == <<Token("open", row, label, FALSE)>>
Member(row, label, null) == <<Token("value", row, label, null)>>
Closing == <<Token("close", 0, "", FALSE)>>
Comma == <<Token("comma", 0, "", FALSE)>>
Newline == <<Token("newline", 0, "", FALSE)>>
Joined(members) ==
  FlattenSeq([k \in DOMAIN members |-> (IF k = 1 THEN <<>> ELSE Comma) \o members[k]])

\* print_func: a blank is null, but under -I only those of --null-value are.
ShownNull(text) == UserNull(text) \/ (~cmd.blanks /\ text = Null /\ ~cmd.no_inference)
Cell(r, c) == cmd.cells[c][r]
MemberOf(r, c) == Member(r, cmd.names[c], ShownNull(Cell(r, c)))

\* print_key_func.
KeyShown(text) == IF UserNull(text) \/ (~cmd.blanks /\ text = Null) THEN "None" ELSE text
Object(r) ==
  Opening(r, IF key_idx = 0 THEN "" ELSE KeyShown(Cell(r, key_idx)))
    \o Joined([c \in JsonColumns |-> MemberOf(r, c)]) \o Closing

\* A feature: its properties are the columns of no other use that are not null.
\* Mutant: the key is shown among the properties too.
SpecialPlace(c) == c \in Range(LatLon)
Special(c) ==
  c \in Range(LatLon) \cup {NamedColumn(name) : name \in {cmd.key, cmd.type} \ {""}}
PropertyColumns(r) ==
  FlattenSeq([c \in JsonColumns |-> IF Special(c) \/ Cell(r, c) = Null THEN <<>> ELSE <<c>>])
Properties(r) ==
  Opening(r, "properties")
    \o Joined([k \in DOMAIN PropertyColumns(r) |-> MemberOf(r, PropertyColumns(r)[k])]) \o Closing
Numeric(r) == \A k \in {1, 2} : Cell(r, LatLon[k]) \in Numbers
Geometry(r) ==
  IF cmd.stream /\ ~Numeric(r) THEN Member(r, "geometry", TRUE)
  ELSE Opening(r, "geometry") \o Member(r, "type", FALSE) \o Comma
         \o Opening(r, "coordinates") \o Member(r, "longitude", FALSE) \o Comma
         \o Member(r, "latitude", FALSE) \o Closing \o Closing
Id(r) ==
  IF Given(cmd.key) /\ Cell(r, NamedColumn(cmd.key)) # Null
  THEN Member(r, "id", ShownNull(Cell(r, NamedColumn(cmd.key)))) \o Comma ELSE <<>>
Feature(r) ==
  (IF cmd.stream /\ cmd.indent THEN Newline ELSE <<>>)
    \o (Opening(r, "") \o Member(r, "type", FALSE) \o Comma \o Properties(r) \o Comma
          \o Id(r) \o Geometry(r) \o Closing)

\* What comes before the rows and after them: [ or { unless streamed; a collection with
\* its box and its reference system.
Before ==
  IF cmd.stream THEN <<>>
  ELSE IF ~Geojson THEN Opening(0, "")
  ELSE Opening(0, "") \o Member(0, "type", FALSE) \o Comma
         \o (IF cmd.no_bbox THEN <<>>
             ELSE Opening(0, "bbox") \o Joined([k \in 1..4 |-> Member(0, "", FALSE)]) \o Closing \o Comma)
         \o Opening(0, "features")
After ==
  IF cmd.stream THEN (IF Geojson THEN <<>> ELSE Newline)
  ELSE IF ~Geojson THEN Closing
  ELSE Closing
         \o (IF Given(cmd.crs)
             THEN Comma \o Opening(0, "crs") \o Member(0, "type", FALSE) \o Comma
                    \o Opening(0, "properties") \o Member(0, "name", FALSE) \o Closing \o Closing
             ELSE <<>>)
         \o Closing
\* Mutant: a comma after the last row too.
BetweenAlways(r) == IF ~cmd.stream THEN Comma ELSE Newline
Between(r) ==
  IF ~cmd.stream THEN (IF r # JsonLast THEN Comma ELSE <<>>)
  ELSE IF Geojson THEN (IF ~cmd.indent THEN Newline ELSE <<>>)
  ELSE IF r # JsonLast THEN Newline ELSE <<>>

(***************************************************************************)
(* Steps.                                                                  *)
(***************************************************************************)
JsonStart ==
  /\ at = "start"
  /\ IF \/ JsonMisused \/ cmd.ragged \/ cmd.names = <<>> \/ JsonRows = {}
        \/ ~Geojson /\ Given(cmd.key) /\ NamedColumn(cmd.key) = NoColumn
        \/ Geojson /\ JsonPlaceless
     THEN Goto("failed") /\ UNCHANGED key_idx
     ELSE /\ key_idx' = IF ~Geojson /\ Given(cmd.key) THEN NamedColumn(cmd.key) ELSE 0
          /\ Goto(IF key_idx' # 0 THEN "checking"
                  ELSE IF Geojson /\ ~cmd.no_bbox /\ ~cmd.stream THEN "bounding" ELSE "opening")
  /\ Quiet /\ UNCHANGED <<dups, nulls, json_row, bbox>>

\* One pass over the rows follows another.
RowOf(pass) == at = pass /\ json_row < JsonLast
PassTo(pass, next) == at = pass /\ json_row = JsonLast /\ Goto(next) /\ json_row' = 0

\* check_dup_func_impl; a blank of --null-value has no number, and no value at all in
\* a column of nothing else.
KeyCell == Cell(json_row + 1, key_idx)
\* Mutant: blanks are not counted.
RepeatedValue == KeyCell # Null /\ KeyCell \in dups
Repeated == IF KeyCell = Null THEN nulls > 0 ELSE KeyCell \in dups
Valueless == KeyCell # Null /\ JsonType(key_idx) # "text" /\ KeyCell \notin Numbers
CheckKey ==
  /\ RowOf("checking") /\ ~Repeated /\ ~Valueless
  /\ dups' = IF KeyCell = Null THEN dups ELSE dups \cup {KeyCell}
  /\ nulls' = IF KeyCell = Null THEN nulls + 1 ELSE nulls
  /\ json_row' = json_row + 1
  /\ Quiet /\ UNCHANGED <<cmd, at, key_idx, bbox>>
KeyRefused ==
  /\ RowOf("checking") /\ (Repeated \/ Valueless)
  /\ Goto(IF Valueless /\ JsonType(key_idx) = "bool" THEN "undefined" ELSE "failed")
  /\ Quiet /\ UNCHANGED jsonVars
KeysChecked ==
  /\ PassTo("checking", "opening") /\ Quiet /\ UNCHANGED <<key_idx, dups, nulls, bbox>>

\* update_min_max.
\* Mutant: a new greatest value is not tried as the least.
StretchedOnce(bounds, x) ==
  IF bounds = <<>> THEN <<x + 1, x>>
  ELSE IF x >= bounds[2] THEN <<bounds[1], x>>
  ELSE <<IF x <= bounds[1] THEN x ELSE bounds[1], bounds[2]>>
Stretched(bounds, x) ==
  IF bounds = <<>> THEN <<x, x>>
  ELSE <<IF x <= bounds[1] THEN x ELSE bounds[1], IF x >= bounds[2] THEN x ELSE bounds[2]>>
Coordinate(k) == NumberOf[Cell(json_row + 1, LatLon[k])]
Bound ==
  /\ RowOf("bounding") /\ Numeric(json_row + 1)
  /\ bbox' = [lat |-> Stretched(bbox.lat, Coordinate(1)), lon |-> Stretched(bbox.lon, Coordinate(2))]
  /\ json_row' = json_row + 1
  /\ Quiet /\ UNCHANGED <<cmd, at, key_idx, dups, nulls>>
Boundless ==
  /\ RowOf("bounding") /\ ~Numeric(json_row + 1)
  /\ Goto("failed") /\ Quiet /\ UNCHANGED jsonVars
Bounded == PassTo("bounding", "opening") /\ Quiet /\ UNCHANGED <<key_idx, dups, nulls, bbox>>

\* Everything is composed, with --ASAP too, before anything is printed.
Compose(tokens) == held' = held \o tokens /\ UNCHANGED out
JsonOpen ==
  /\ at = "opening" /\ Goto("composing")
  /\ Compose(Before) /\ UNCHANGED jsonVars
JsonObject ==
  /\ RowOf("composing") /\ (Geojson /\ ~cmd.stream => Numeric(json_row + 1))
  /\ json_row' = json_row + 1
  /\ Compose((IF Geojson THEN Feature(json_row') ELSE Object(json_row')) \o Between(json_row'))
  /\ UNCHANGED <<cmd, at, key_idx, dups, nulls, bbox>>
JsonNoNumber ==
  /\ RowOf("composing") /\ Geojson /\ ~cmd.stream /\ ~Numeric(json_row + 1)
  /\ Goto("failed") /\ Quiet /\ UNCHANGED jsonVars
JsonClose ==
  /\ at = "composing" /\ json_row = JsonLast
  /\ Goto("done") /\ out' = out \o held \o After /\ held' = <<>>
  /\ UNCHANGED jsonVars

JsonNext ==
  \/ JsonStart \/ CheckKey \/ KeyRefused \/ KeysChecked \/ Bound \/ Boundless \/ Bounded
  \/ JsonOpen \/ JsonObject \/ JsonNoNumber \/ JsonClose

JsonSpec == ToolInit /\ JsonInit /\ [][JsonNext]_<<toolVars, jsonVars>>

(***************************************************************************)
(* Properties.                                                             *)
(***************************************************************************)
\* Two tokens that may follow one another in JSON, or in a stream of it.
Follow ==
  {<<"open", "open">>, <<"open", "value">>, <<"open", "close">>, <<"comma", "open">>,
   <<"comma", "value">>, <<"value", "comma">>, <<"value", "close">>, <<"close", "comma">>,
   <<"close", "close">>, <<"close", "newline">>, <<"newline", "open">>}
Opened(n) == Cardinality({k \in 1..n : Output[k].kind = "open"})
Closed(n) == Cardinality({k \in 1..n : Output[k].kind = "close"})

\* What is composed is always the beginning of one value of JSON, or of a stream of
\* values between newlines, with its commas where they belong, whatever columns,
\* rows, keys and blanks are left out; and it is printed whole or not at all (the
\* printers of json(), the static oss).
JsonWellFormed ==
  cmd.tool = "json" =>
    /\ \A k \in 1..(Len(Output) - 1) : <<Output[k].kind, Output[k + 1].kind>> \in Follow
    /\ \A k \in DOMAIN Output :
         /\ Opened(k) >= Closed(k)
         /\ Output[k].kind = "newline" => Opened(k) = Closed(k)
         /\ ~cmd.stream /\ Opened(k) = Closed(k) => k = Len(Output)
    /\ IF at = "done" THEN out # <<>> /\ Opened(Len(out)) = Closed(Len(out)) ELSE out = <<>>

\* The names of the values in the object of a row, in order.
Labels(tokens, r) ==
  FlattenSeq([k \in DOMAIN tokens |->
    IF tokens[k].kind = "value" /\ tokens[k].row = r THEN <<tokens[k].label>> ELSE <<>>])

\* Every row is one object, in order: with all its columns, or as a feature with its
\* properties, its id and its place, longitude first, no column in two of them
\* (print_func, properties_printer, key_printer, coordinates_printer).  --lat and --lon
\* that are not given are the column without a name.
JsonRowsComplete ==
  cmd.tool = "json" /\ at = "done" =>
    \A r \in JsonRows :
      LET elsewhere(c) == \/ \E option \in {cmd.lat, cmd.lon} : c = NamedColumn(option)
                          \/ \E option \in {cmd.type, cmd.key} : Given(option) /\ c = NamedColumn(option)
          columns == FlattenSeq([c \in JsonColumns |->
                       IF Geojson /\ (elsewhere(c) \/ Cell(r, c) = Null) THEN <<>> ELSE <<cmd.names[c]>>])
          id == IF Given(cmd.key) /\ Cell(r, NamedColumn(cmd.key)) # Null THEN <<"id">> ELSE <<>>
          place == IF cmd.stream /\ ~Numeric(r) THEN <<"geometry">> ELSE <<"type", "longitude", "latitude">>
      IN  /\ Labels(out, r) = IF Geojson THEN <<"type">> \o columns \o id \o place ELSE columns
          /\ \A q \in JsonRows : \A j, k \in DOMAIN out :
               out[j].row = r /\ out[k].row = q /\ r < q => j < k

\* The keys of the object are different unless --null-value made them the same: a key
\* that is there twice, or a second blank, ends the command with nothing printed
\* (check_dup_func_impl and its static dups and nulls).
JsonKeysUnique ==
  cmd.tool = "json" /\ at = "done" /\ key_idx # 0 /\ cmd.null_values = {} =>
    \A q, r \in JsonRows : q # r =>
      \A j, k \in DOMAIN out :
        out[j].kind = "open" /\ out[j].row = q /\ out[k].kind = "open" /\ out[k].row = r
          => out[j].label # out[k].label

\* The box is the least that holds every place printed (update_min_max, first pass; the
\* features, second pass).
JsonBox ==
  cmd.tool = "json" /\ at = "done" /\ Geojson /\ ~cmd.no_bbox /\ ~cmd.stream =>
    LET places(k) == {NumberOf[Cell(r, LatLon[k])] : r \in JsonRows}
    IN  /\ bbox.lat = <<Min(places(1)), Max(places(1))>>
        /\ bbox.lon = <<Min(places(2)), Max(places(2))>>
===============================================================================
