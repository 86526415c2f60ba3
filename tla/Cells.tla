--------------------------------- MODULE Cells ---------------------------------
(***************************************************************************)
(* A cell (typed_span): its text and what it has cached of itself.  The     *)
(* text is one of a few: each is a word, a boolean word, a number, a date   *)
(* and so on for the parsers of the reader, which are modelled by the texts *)
(* they accept.  A text that is a number is no date under the formats given.*)
(***************************************************************************)
EXTENDS Integers, Sequences

Null == ""
Words == {"x"}
BooleanWords == {"T", "F"}
Numbers == {"0", "1", "5", "10"}
Deltas == {"0:00:03", "0:00:07"}
Datetimes == {"2024-01-02 03:04:05"}
Dates == {"2024-01-01"} \cup Datetimes     \* a date, and whatever follows it

Texts == {Null} \cup Words \cup BooleanWords \cup Numbers \cup Deltas \cup Dates

\* strcmp of the texts, which orders dates and times of day as they should be.
TextOrder ==
  <<"", "0", "0:00:03", "0:00:07", "1", "10", "2024-01-01", "2024-01-02 03:04:05", "5", "F", "T", "x">>
Rank(text) == CHOOSE i \in DOMAIN TextOrder : TextOrder[i] = text
NumberOf == [text \in Numbers |->
  CASE text = "0" -> 0 [] text = "1" -> 1 [] text = "5" -> 5 [] text = "10" -> 10]
SecondsOf == [text \in Deltas |-> IF text = "0:00:03" THEN 3 ELSE 7]

\* A cell has a type (unknown, null, string, int8, which a boolean has too) and a
\* datetime_type (unknown, no, date, datetime).
Fresh(text) == [text |-> text, type |-> "unknown", datetime_type |-> "unknown"]

\* get_value: evaluated once.
Evaluated(text) ==
  IF text = Null THEN "null" ELSE IF text \in Numbers THEN "int8" ELSE "string"
GetValue(cell) ==
  IF cell.type = "unknown" THEN [cell EXCEPT !.type = Evaluated(cell.text)] ELSE cell

\* What is asked of a cell that has its value.  num() throws unless IsNum.
IsNull(cell) == cell.type = "null"
IsNum(cell) == cell.type = "int8"
IsBoolean(cell) ==
  \/ cell.type = "int8" /\ cell.text \in {"0", "1"} \cup BooleanWords
  \/ cell.type = "string" /\ cell.text \in BooleanWords

\* Mutant: a boolean word is left a string, and so is a number that may be a boolean.
AfterIsBooleanText(cell) == IF IsBoolean(cell) THEN [cell EXCEPT !.type = "string"] ELSE cell
\* is_boolean changes the type of the words it knows, "for better caching".
AfterIsBoolean(cell) == IF IsBoolean(cell) THEN [cell EXCEPT !.type = "int8"] ELSE cell

\* datetime(format) and date(format) with a format always parse.
AfterDatetime(cell) ==
  [cell EXCEPT !.datetime_type = IF cell.text \in Datetimes THEN "datetime" ELSE "no"]
AfterDate(cell) ==
  [cell EXCEPT !.datetime_type = IF cell.text \in Dates THEN "date" ELSE "no"]

\* date() without a format believes what is cached: the date, or else the epoch.
DateOf(cell) ==
  IF cell.datetime_type = "unknown" THEN AfterDate(cell).datetime_type = "date"
  ELSE cell.datetime_type = "date"
===============================================================================
