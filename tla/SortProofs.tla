------------------------------- MODULE SortProofs -------------------------------
(***************************************************************************)
(* Proofs about csvSort: what typify() finds by one task for each column,  *)
(* for any columns of csvSort or of csvStat; and the parallel sort, for    *)
(* any rows, any number of threads and every interleaving of their tasks.  *)
(***************************************************************************)
EXTENDS Sort, ToolProofs

-------------------------------------------------------------------------------
(* The types of the columns: a table filled with the columns given.           *)

\* The rows of every column.
InputOK == \E n \in Nat : DataRows = 1..n

\* A cell has the type of its text, or none yet; a word of booleans may pass for a number.
Cell ==
  [text : Texts, type : {"unknown", "null", "string", "int8"},
   datetime_type : {"unknown", "no", "date", "datetime"}]
CellOK(cell) ==
  /\ cell \in Cell
  /\ \/ cell.type \in {"unknown", Evaluated(cell.text)}
     \/ cell.text \in BooleanWords /\ cell.type = "int8"

Blanks(given, c) == ~cmd.blanks /\ \E r \in DataRows : given[c][r] = Null
Wordless(given, c) == \A r \in DataRows : given[c][r] \notin BooleanWords
AllFit(given, c, test) ==
  \A r \in DataRows : (given[c][r] = Null /\ ~cmd.blanks) \/ Fits(test, Fresh(given[c][r]))
FirstToFit(given, c, k) ==
  AllFit(given, c, Tests[k]) /\ \A j \in 1..(k - 1) : ~AllFit(given, c, Tests[j])

\* What the task of a column knows: blanks it has met, tests that failed.
ColumnOK(given, c) ==
  /\ table[c] = [r \in DataRows |-> table[c][r]]
  /\ \A r \in DataRows : CellOK(table[c][r]) /\ table[c][r].text = given[c][r]
  /\ trying[c] \in 1..TaskEnded
  /\ has_blanks[c] \in BOOLEAN /\ (has_blanks[c] => Blanks(given, c))
  /\ trying[c] = TaskEnded => has_blanks[c] = Blanks(given, c)
  /\ trying[c] # TaskEnded /\ Wordless(given, c) =>
       \A j \in 1..(trying[c] - 1) : ~AllFit(given, c, Tests[j])
TypeFound(given, c) ==
  Wordless(given, c) => \E k \in DOMAIN Tests : types[c] = Tests[k] /\ FirstToFit(given, c, k)

\* The table has the columns given; the tasks that have ended have found a type; all
\* have, and -I has made text of it.
FilledWith(given) ==
  /\ DOMAIN table = DOMAIN given /\ DOMAIN trying = DOMAIN given
  /\ DOMAIN types = DOMAIN given /\ DOMAIN has_blanks = DOMAIN given
  /\ \A c \in DOMAIN given : ColumnOK(given, c)
TypesFound(given) == \A c \in DOMAIN given : trying[c] = TaskEnded => TypeFound(given, c)
TypesSettled(given) ==
  \A c \in DOMAIN given : trying[c] = TaskEnded /\ (cmd.no_inference => types[c] = "text")

LEMMA TestsFacts ==
  /\ Len(Tests) = 6 /\ DOMAIN Tests = 1..6 /\ TaskEnded = 7 /\ Tests[6] = "text"
  /\ \A k \in 1..6 : Tests[k] \in {"bool", "timedelta", "datetime", "date", "number", "text"}
BY DEF Tests, TaskEnded

\* No test makes a null of a cell or a value of a null, and none changes how another
\* test finds a cell that is no word of booleans.
LEMMA CellFacts ==
  ASSUME NEW cell, CellOK(cell), NEW k \in 1..6
  PROVE  /\ Blank(cell) = (cell.text = Null /\ ~cmd.blanks)
         /\ CellOK(Tested(Tests[k], cell)) /\ Tested(Tests[k], cell).text = cell.text
         /\ cell.text \notin BooleanWords => Fits(Tests[k], cell) = Fits(Tests[k], Fresh(cell.text))
<1> PICK test \in {"bool", "timedelta", "datetime", "date", "number", "text"} : test = Tests[k]
  BY TestsFacts
<1> DEFINE v == GetValue(cell)
<1>1. cell \in Cell /\ (cell.type = "unknown" \/ cell.type = Evaluated(cell.text)
        \/ (cell.text \in BooleanWords /\ cell.type = "int8"))
  BY DEF CellOK
<1>2. /\ Evaluated(cell.text) \in {"null", "string", "int8"}
      /\ (Evaluated(cell.text) = "null") = (cell.text = Null)
      /\ cell.text \in BooleanWords => Evaluated(cell.text) = "string" /\ cell.text # Null
  BY DEF Evaluated, Null, Numbers, BooleanWords
<1>3. /\ v \in Cell /\ v.text = cell.text /\ v.datetime_type = cell.datetime_type
      /\ v.type = Evaluated(cell.text) \/ (cell.text \in BooleanWords /\ v.type = "int8")
  <2>1. CASE cell.type = "unknown"
    <3>1. v = [cell EXCEPT !.type = Evaluated(cell.text)]
      BY <2>1 DEF GetValue
    <3> QED BY <1>1, <1>2, <3>1 DEF Cell
  <2>2. CASE cell.type # "unknown"
    <3>1. v = cell
      BY <2>2 DEF GetValue
    <3> QED BY <1>1, <2>2, <3>1
  <2> QED BY <2>1, <2>2
<1> HIDE DEF v
<1>4. Blank(cell) = (cell.text = Null /\ ~cmd.blanks)
  <2>1. Blank(cell) = (v.type = "null" /\ ~cmd.blanks)
    BY DEF Blank, IsNull, v
  <2> QED BY <1>2, <1>3, <2>1
<1>5. CellOK(Tested(test, cell)) /\ Tested(test, cell).text = cell.text
  <2>1. Tested(test, cell) \in {v, AfterIsBoolean(v), AfterDatetime(v), AfterDate(v)}
    BY DEF Tested, v
  <2>2. CellOK(v) /\ v.text = cell.text
    BY <1>3 DEF CellOK
  <2>3. CellOK(AfterDatetime(v)) /\ AfterDatetime(v).text = cell.text
    BY <1>3 DEF CellOK, AfterDatetime, Cell
  <2>4. CellOK(AfterDate(v)) /\ AfterDate(v).text = cell.text
    BY <1>3 DEF CellOK, AfterDate, Cell
  <2>5. CellOK(AfterIsBoolean(v)) /\ AfterIsBoolean(v).text = cell.text
    <3>1. CASE IsBoolean(v)
      <4>1. AfterIsBoolean(v) = [v EXCEPT !.type = "int8"]
        BY <3>1 DEF AfterIsBoolean
      <4>2. cell.text \in BooleanWords \/ Evaluated(cell.text) = "int8"
        BY <1>3, <3>1 DEF IsBoolean
      <4> QED BY <1>3, <4>1, <4>2 DEF CellOK, Cell
    <3>2. CASE ~IsBoolean(v)
      BY <2>2, <3>2 DEF AfterIsBoolean
    <3> QED BY <3>1, <3>2
  <2> HIDE DEF v
  <2> QED BY <2>1, <2>2, <2>3, <2>4, <2>5
<1>6. ASSUME cell.text \notin BooleanWords
      PROVE  Fits(test, cell) = Fits(test, Fresh(cell.text))
  <2> DEFINE f == Fresh(cell.text)
             w == GetValue(f)
  <2>1. f.text = cell.text /\ w.text = cell.text /\ w.type = Evaluated(cell.text)
    BY DEF Fresh, GetValue
  <2>2. v.text = w.text /\ v.type = w.type
    BY <1>3, <1>6, <2>1
  <2>3. IsBoolean(v) = IsBoolean(w) /\ IsNum(v) = IsNum(w)
    BY <2>2 DEF IsBoolean, IsNum
  <2> HIDE DEF f, w
  <2>4. IsBoolean(GetValue(cell)) = IsBoolean(GetValue(f))
        /\ IsNum(GetValue(cell)) = IsNum(GetValue(f))
    BY <2>3 DEF v, w
  <2>5. Fits(test, cell) = Fits(test, f)
    BY <2>1, <2>4 DEF Fits
  <2> QED BY <2>5 DEF f
<1> QED BY <1>4, <1>5, <1>6

\* What is asked of the input is the same after every step.
LEMMA SameInput ==
  ASSUME UNCHANGED cmd
  PROVE  /\ DataRows' = DataRows /\ DataColumns' = DataColumns
         /\ \A g, c : Blanks(g, c)' = Blanks(g, c) /\ Wordless(g, c)' = Wordless(g, c)
         /\ \A g, c, test : AllFit(g, c, test)' = AllFit(g, c, test)
         /\ \A g, c, k : FirstToFit(g, c, k)' = FirstToFit(g, c, k)
<1>1. DataRows' = DataRows /\ DataColumns' = DataColumns
  BY DEF DataRows, DataColumns
<1>2. \A test, cell : Fits(test, cell)' = Fits(test, cell)
  BY DEF Fits
<1>3. \A g, c : Blanks(g, c)' = Blanks(g, c) /\ Wordless(g, c)' = Wordless(g, c)
  BY <1>1 DEF Blanks, Wordless
<1>4. \A g, c, test : AllFit(g, c, test)' = AllFit(g, c, test)
  <2> TAKE g, c, test
  <2>1. \A r : Fits(test, Fresh(g[c][r]))' <=> Fits(test, Fresh(g[c][r]))
    BY <1>1 DEF Fits
  <2>2. AllFit(g, c, test)' <=> AllFit(g, c, test)
    BY <1>1, <2>1 DEF AllFit
  <2> QED BY <2>2 DEF AllFit
<1>5. \A g, c, k : FirstToFit(g, c, k)' = FirstToFit(g, c, k)
  BY <1>4 DEF FirstToFit, AllFit
<1> QED BY <1>1, <1>3, <1>4, <1>5

\* One test of a column.
LEMMA ColumnTried ==
  ASSUME NEW given, FilledWith(given), TypesFound(given), InputOK, UNCHANGED cmd,
         NEW c \in DOMAIN given, TryType(c)
  PROVE  ColumnOK(given, c)' /\ (trying'[c] = TaskEnded => TypeFound(given, c)')
<1> PICK k : k = trying[c]
  OBVIOUS
<1> PICK cells : cells = table[c]
  OBVIOUS
<1> DEFINE fits(r) == Blank(cells[r]) \/ Fits(Tests[k], cells[r])
           reached == {r \in DataRows : \A q \in 1..(r - 1) : fits(q)}
           fit == \A r \in DataRows : fits(r)
<1>1. /\ ColumnOK(given, c) /\ DOMAIN table = DOMAIN given /\ DOMAIN trying = DOMAIN given
      /\ DOMAIN types = DOMAIN given /\ DOMAIN has_blanks = DOMAIN given
      /\ trying[c] = TaskEnded => TypeFound(given, c)
  BY DEF FilledWith, TypesFound
<1>2. /\ k \in 1..6 /\ TaskEnded = 7
      /\ table'[c] = [r \in DataRows |-> IF r \in reached THEN Tested(Tests[k], cells[r]) ELSE cells[r]]
      /\ has_blanks'[c] = (has_blanks[c] \/ \E r \in reached : Blank(cells[r]))
      /\ types'[c] = IF fit THEN Tests[k] ELSE types[c]
      /\ trying'[c] = IF fit THEN TaskEnded ELSE k + 1
  <2>1. trying[c] \in 1..TaskEnded /\ trying[c] # TaskEnded
    BY <1>1 DEF ColumnOK, TryType
  <2>2. reached = {r \in DataRows : Reached(c, r)}
    BY DEF Reached
  <2>3. /\ table'[c] = [r \in DataRows |-> IF r \in reached THEN Tested(Tests[k], cells[r]) ELSE cells[r]]
        /\ has_blanks'[c] = (has_blanks[c] \/ \E r \in reached : Blank(cells[r]))
    <3> HIDE DEF reached
    <3> QED BY <1>1, <2>2 DEF TryType
  <2>4. /\ types'[c] = IF fit THEN Tests[k] ELSE types[c]
        /\ trying'[c] = IF fit THEN TaskEnded ELSE k + 1
    BY <1>1 DEF TryType
  <2> QED BY <2>1, <2>3, <2>4, TestsFacts
<1>3. \A r \in DataRows : CellOK(cells[r]) /\ cells[r].text = given[c][r]
  BY <1>1 DEF ColumnOK
<1>4. \A r \in DataRows :
        /\ Blank(cells[r]) = (given[c][r] = Null /\ ~cmd.blanks)
        /\ CellOK(Tested(Tests[k], cells[r])) /\ Tested(Tests[k], cells[r]).text = given[c][r]
        /\ given[c][r] \notin BooleanWords => Fits(Tests[k], cells[r]) = Fits(Tests[k], Fresh(given[c][r]))
  BY <1>2, <1>3, CellFacts
<1>5. fit => reached = DataRows
  <2>1. \A r \in DataRows : 1..(r - 1) \subseteq DataRows
    BY DEF InputOK
  <2> QED BY <2>1
<1>6. k = 6 => fit
  BY TestsFacts DEF Fits
<1>7. Wordless(given, c) => fit = AllFit(given, c, Tests[k])
  BY <1>4 DEF Wordless, AllFit
<1> HIDE DEF fit
<1>8. \A r \in reached : r \in DataRows
  OBVIOUS
<1> HIDE DEF reached
<1>9. \A r \in DataRows : CellOK(table'[c][r]) /\ table'[c][r].text = given[c][r]
  BY <1>2, <1>3, <1>4
<1>10. table'[c] = [r \in DataRows |-> table'[c][r]]
  BY <1>2
<1>11. has_blanks[c] \in BOOLEAN /\ (has_blanks[c] => Blanks(given, c))
  BY <1>1 DEF ColumnOK
<1>12. (\E r \in reached : Blank(cells[r])) => Blanks(given, c)
  BY <1>4, <1>8 DEF Blanks
<1>13. fit => (\E r \in reached : Blank(cells[r])) = Blanks(given, c)
  BY <1>4, <1>5 DEF Blanks
<1>14. has_blanks'[c] \in BOOLEAN /\ (has_blanks'[c] => Blanks(given, c)) /\ (fit => has_blanks'[c] = Blanks(given, c))
  BY <1>2, <1>11, <1>12, <1>13
<1>15. trying'[c] \in 1..7 /\ (trying'[c] = 7 <=> fit)
  BY <1>2, <1>6
<1>16. Wordless(given, c) => \A j \in 1..(k - 1) : ~AllFit(given, c, Tests[j])
  BY <1>1, <1>2 DEF ColumnOK
<1>17. ~fit /\ Wordless(given, c) => \A j \in 1..(trying'[c] - 1) : ~AllFit(given, c, Tests[j])
  <2> SUFFICES ASSUME ~fit, Wordless(given, c), NEW j \in 1..(trying'[c] - 1) PROVE ~AllFit(given, c, Tests[j])
    OBVIOUS
  <2>1. j \in 1..(k - 1) \/ j = k
    BY <1>2
  <2> QED BY <1>7, <1>16, <2>1
<1>18. fit /\ Wordless(given, c) => FirstToFit(given, c, k) /\ types'[c] = Tests[k] /\ k \in DOMAIN Tests
  BY <1>2, <1>7, <1>16, TestsFacts DEF FirstToFit
<1>19. /\ DataRows' = DataRows
       /\ Blanks(given, c)' = Blanks(given, c) /\ Wordless(given, c)' = Wordless(given, c)
       /\ (\A test : AllFit(given, c, test)' = AllFit(given, c, test)) /\ (\A i : FirstToFit(given, c, i)' = FirstToFit(given, c, i))
  BY SameInput
<1>20. ColumnOK(given, c)'
  BY <1>2, <1>9, <1>10, <1>14, <1>15, <1>17, <1>19 DEF ColumnOK
<1>21. trying'[c] = TaskEnded => TypeFound(given, c)'
  BY <1>2, <1>15, <1>18, <1>19 DEF TypeFound
<1> QED BY <1>20, <1>21

\* What is known of a column as long as nothing is written of it.
LEMMA ColumnKept ==
  ASSUME NEW given, UNCHANGED cmd, NEW c, ColumnOK(given, c), table'[c] = table[c], trying'[c] = trying[c],
         has_blanks'[c] = has_blanks[c]
  PROVE  ColumnOK(given, c)' /\ (types'[c] = types[c] /\ TypeFound(given, c) => TypeFound(given, c)')
<1>1. /\ DataRows' = DataRows
      /\ Blanks(given, c)' = Blanks(given, c) /\ Wordless(given, c)' = Wordless(given, c)
      /\ (\A test : AllFit(given, c, test)' = AllFit(given, c, test)) /\ (\A i : FirstToFit(given, c, i)' = FirstToFit(given, c, i))
  BY SameInput
<1>2. ColumnOK(given, c)'
  BY <1>1 DEF ColumnOK
<1>3. types'[c] = types[c] /\ TypeFound(given, c) => TypeFound(given, c)'
  BY <1>1 DEF TypeFound
<1> QED BY <1>2, <1>3

\* A table newly filled; a test of one of its columns; the end of all tests.
LEMMA TableFilled ==
  ASSUME NEW given, UNCHANGED cmd, TypifyStart(given),
         \A c \in DOMAIN given : \A r \in DataRows : given[c][r] \in Texts
  PROVE  FilledWith(given)' /\ TypesFound(given)'
<1>1. /\ table' = [c \in DOMAIN given |-> [r \in DataRows |-> Fresh(given[c][r])]]
      /\ trying' = [c \in DOMAIN given |-> 1]
      /\ types' = [c \in DOMAIN given |-> "unknown"]
      /\ has_blanks' = [c \in DOMAIN given |-> FALSE]
  BY DEF TypifyStart
<1>2. /\ DataRows' = DataRows
      /\ \A g, c : Blanks(g, c)' = Blanks(g, c) /\ Wordless(g, c)' = Wordless(g, c)
  BY SameInput
<1>3. \A c \in DOMAIN given : ColumnOK(given, c)' /\ trying'[c] # TaskEnded
  <2> TAKE c \in DOMAIN given
  <2>1. \A r \in DataRows : CellOK(Fresh(given[c][r])) /\ Fresh(given[c][r]).text = given[c][r]
    BY DEF CellOK, Cell, Fresh
  <2>2. table'[c] = [r \in DataRows |-> Fresh(given[c][r])]
    BY <1>1
  <2>3. trying'[c] = 1 /\ has_blanks'[c] = FALSE /\ 1 \in 1..TaskEnded /\ 1 # TaskEnded
        /\ 1..(1 - 1) = {}
    BY <1>1, TestsFacts
  <2> QED BY <1>2, <2>1, <2>2, <2>3 DEF ColumnOK
<1>4. /\ DOMAIN table' = DOMAIN given /\ DOMAIN trying' = DOMAIN given
      /\ DOMAIN types' = DOMAIN given /\ DOMAIN has_blanks' = DOMAIN given
  BY <1>1
<1> QED BY <1>3, <1>4 DEF FilledWith, TypesFound

LEMMA TypesTried ==
  ASSUME NEW given, FilledWith(given), TypesFound(given), InputOK, UNCHANGED cmd, TryTypes
  PROVE  FilledWith(given)' /\ TypesFound(given)' /\ DOMAIN given # {}
<1>1. PICK c \in DOMAIN trying : TryType(c)
  BY DEF TryTypes
<1>2. /\ DOMAIN table = DOMAIN given /\ DOMAIN trying = DOMAIN given
      /\ DOMAIN types = DOMAIN given /\ DOMAIN has_blanks = DOMAIN given
      /\ \A d \in DOMAIN given : ColumnOK(given, d) /\ (trying[d] = TaskEnded => TypeFound(given, d))
  BY DEF FilledWith, TypesFound
<1>3. c \in DOMAIN given
  BY <1>1, <1>2
<1>4. ColumnOK(given, c)' /\ (trying'[c] = TaskEnded => TypeFound(given, c)')
  BY <1>1, <1>3, ColumnTried
<1>5. /\ DOMAIN table' = DOMAIN given /\ DOMAIN trying' = DOMAIN given
      /\ DOMAIN types' = DOMAIN given /\ DOMAIN has_blanks' = DOMAIN given
      /\ \A d \in DOMAIN given : d # c =>
           table'[d] = table[d] /\ trying'[d] = trying[d] /\ types'[d] = types[d]
             /\ has_blanks'[d] = has_blanks[d]
  BY <1>1, <1>2 DEF TryType
<1>6. \A d \in DOMAIN given : ColumnOK(given, d)' /\ (trying'[d] = TaskEnded => TypeFound(given, d)')
  <2> TAKE d \in DOMAIN given
  <2>1. CASE d = c
    BY <1>4, <2>1
  <2>2. CASE d # c
    BY <1>2, <1>5, <2>2, ColumnKept
  <2> QED BY <2>1, <2>2
<1> QED BY <1>3, <1>5, <1>6 DEF FilledWith, TypesFound

\* Every task has ended; under -I every column is of text.
LEMMA TypesEnded ==
  ASSUME NEW given, FilledWith(given), TypesFound(given), UNCHANGED cmd, TypifyEnd
  PROVE  /\ FilledWith(given)' /\ TypesSettled(given)'
         /\ ~cmd.no_inference => TypesFound(given)'
<1>1. /\ Typified /\ UNCHANGED <<table, trying, has_blanks>>
      /\ types' = IF cmd.no_inference THEN [c \in DOMAIN types |-> "text"] ELSE types
  BY DEF TypifyEnd
<1>2. /\ DOMAIN table = DOMAIN given /\ DOMAIN trying = DOMAIN given
      /\ DOMAIN types = DOMAIN given /\ DOMAIN has_blanks = DOMAIN given
      /\ \A c \in DOMAIN given : ColumnOK(given, c) /\ (trying[c] = TaskEnded => TypeFound(given, c))
  BY DEF FilledWith, TypesFound
<1>3. \A c \in DOMAIN given : trying[c] = TaskEnded
  BY <1>1, <1>2 DEF Typified
<1>4. DOMAIN types' = DOMAIN given
  BY <1>1, <1>2
<1>5. \A c \in DOMAIN given : ColumnOK(given, c)'
  BY <1>1, <1>2, ColumnKept
<1>6. ~cmd.no_inference => \A c \in DOMAIN given : TypeFound(given, c)'
  BY <1>1, <1>2, <1>3, ColumnKept
<1>7. cmd.no_inference => \A c \in DOMAIN given : types'[c] = "text"
  BY <1>1, <1>2
<1> QED BY <1>1, <1>2, <1>3, <1>4, <1>5, <1>6, <1>7 DEF FilledWith, TypesFound, TypesSettled

\* Nothing is written of the table.
LEMMA TypesKept ==
  ASSUME NEW given, FilledWith(given), UNCHANGED <<cmd, typifyVars>>
  PROVE  /\ FilledWith(given)'
         /\ TypesFound(given) => TypesFound(given)'
         /\ TypesSettled(given) => TypesSettled(given)'
<1>1. UNCHANGED <<table, trying, types, has_blanks>>
  BY DEF typifyVars
<1>2. \A c \in DOMAIN given : ColumnOK(given, c)' /\ (TypeFound(given, c) => TypeFound(given, c)')
  BY <1>1, ColumnKept DEF FilledWith
<1> QED BY <1>1, <1>2 DEF FilledWith, TypesFound, TypesSettled

\* The properties of typify(), of a column of the table.
LEMMA ColumnTold ==
  ASSUME NEW given, FilledWith(given), TypesSettled(given), ~cmd.no_inference => TypesFound(given),
         NEW c \in DOMAIN table
  PROVE  /\ has_blanks[c] = (~cmd.blanks /\ Null \in TextsIn(c))
         /\ TextsIn(c) \cap BooleanWords = {} => types[c] = FirstFit(TextsIn(c))
<1>1. /\ c \in DOMAIN given /\ ColumnOK(given, c) /\ trying[c] = TaskEnded
      /\ cmd.no_inference => types[c] = "text"
      /\ ~cmd.no_inference => TypeFound(given, c)
  BY DEF FilledWith, TypesFound, TypesSettled
<1>2. TextsIn(c) = {given[c][r] : r \in DataRows}
  BY <1>1 DEF ColumnOK, TextsIn
<1>3. has_blanks[c] = (~cmd.blanks /\ Null \in TextsIn(c))
  BY <1>1, <1>2 DEF ColumnOK, Blanks
<1>4. ASSUME TextsIn(c) \cap BooleanWords = {}
      PROVE  types[c] = FirstFit(TextsIn(c))
  <2> DEFINE fits(test) == \A text \in TextsIn(c) : (text = Null /\ ~cmd.blanks) \/ Fits(test, Fresh(text))
  <2>1. CASE cmd.no_inference
    BY <1>1, <2>1 DEF FirstFit
  <2>2. CASE ~cmd.no_inference
    <3>1. Wordless(given, c)
      BY <1>2, <1>4 DEF Wordless
    <3>2. \A test : fits(test) = AllFit(given, c, test)
      BY <1>2 DEF AllFit
    <3>3. PICK k \in DOMAIN Tests : types[c] = Tests[k] /\ FirstToFit(given, c, k)
      BY <1>1, <2>2, <3>1 DEF TypeFound
    <3> HIDE DEF fits
    <3>4. fits(Tests[k]) /\ \A j \in 1..(k - 1) : ~fits(Tests[j])
      BY <3>2, <3>3 DEF FirstToFit
    <3>5. \A l \in DOMAIN Tests : fits(Tests[l]) /\ (\A j \in 1..(l - 1) : ~fits(Tests[j])) => l = k
      BY <3>4, TestsFacts
    <3>6. (CHOOSE l \in DOMAIN Tests : fits(Tests[l]) /\ \A j \in 1..(l - 1) : ~fits(Tests[j])) = k
      BY <3>4, <3>5
    <3>7. FirstFit(TextsIn(c)) =
            Tests[CHOOSE l \in DOMAIN Tests : fits(Tests[l]) /\ \A j \in 1..(l - 1) : ~fits(Tests[j])]
      BY <2>2 DEF FirstFit, fits
    <3> QED BY <3>3, <3>6, <3>7
  <2> QED BY <2>1, <2>2
<1> QED BY <1>3, <1>4

-------------------------------------------------------------------------------
(* Tasks.                                                                     *)

Phases == {"begin", "own half", "helped", "divided", "sorting"}
Waiting == {"own half", "helped"}
Tasks ==
  [kind : {"sort", "half"}, lo : Int, hi : Int, pivot : Int, phase : Phases,
   left : Int, right : Int, by : {"pool", "caller"}]

\* A task is about some rows, and what it counted it counted among them.
TaskOK(t) ==
  /\ t \in Tasks
  /\ t.lo \in DataRows /\ t.hi \in DataRows /\ t.lo <= t.hi
  /\ t.kind = "half" => t.phase \in {"begin", "divided"} /\ t.by = "pool"
  /\ t.phase \in Waiting => Size(t) >= 4
  /\ t.phase = "divided" => t.left \in 0..Size(t)
  /\ t.phase = "helped" => t.right \in 0..(t.hi - Half(t))

QueueOK(q) ==
  /\ q \in Seq(Tasks)
  /\ \A i \in DOMAIN q : TaskOK(q[i]) /\ q[i].phase = "begin" /\ q[i].by = "pool"

\* Two tasks are about different places, or one partitions the first half of the other.
Apart(t, u) == t.hi < u.lo \/ u.hi < t.lo
HalfOf(h, t) ==
  /\ h.kind = "half" /\ t.kind = "sort" /\ t.phase \in Waiting
  /\ h.lo = t.lo /\ h.hi = Half(t)
Separate(A, q) ==
  /\ \A i, j \in DOMAIN q : i # j => Apart(q[i], q[j])
  /\ \A i \in DOMAIN q : \A a \in A : Apart(q[i], a) \/ HalfOf(q[i], a)
  /\ \A a, b \in A : a # b => Apart(a, b) \/ HalfOf(a, b) \/ HalfOf(b, a)

\* Where the tasks begin that may still make others.  A half begins where its part does.
Charged(A, q) == {t.lo : t \in {u \in A \cup Range(q) : u.phase # "sorting"}}
Charge(A, q, n) ==
  n \in Int /\ IsFiniteSet(Charged(A, q)) /\ Cardinality(Charged(A, q)) <= n

\* Every part that was submitted has a future.
Submitted(A, q, f) ==
  /\ f \in Seq(Int \X Int)
  /\ \A t \in A \cup Range(q) : t.kind = "sort" /\ t.by = "pool" => <<t.lo, t.hi>> \in Range(f)

Table(o) == o \in [DataRows -> DataRows] /\ IsInjective(o)

-------------------------------------------------------------------------------
(* What becomes of the parts when a task changes, ends, or makes another.     *)

\* A task that stays about its places, and goes on waiting for its half if it did.
LEMMA ChangedSeparate ==
  ASSUME NEW A, NEW q, Separate(A, q), NEW t \in A, NEW n,
         n.kind = t.kind, n.lo = t.lo, n.hi = t.hi, t.phase \in Waiting => n.phase \in Waiting
  PROVE  Separate((A \ {t}) \cup {n}, q)
<1>1. \A u : /\ Apart(u, t) => Apart(u, n)
             /\ Apart(t, u) => Apart(n, u)
             /\ HalfOf(u, t) => HalfOf(u, n)
             /\ HalfOf(t, u) => HalfOf(n, u)
  BY DEF Apart, HalfOf, Half, Size
<1>2. \A i \in DOMAIN q : Apart(q[i], n) \/ HalfOf(q[i], n)
  BY <1>1 DEF Separate
<1>3. \A a \in A \ {t} : Apart(a, n) \/ HalfOf(a, n) \/ HalfOf(n, a)
  BY <1>1 DEF Separate
<1>4. \A a \in A \ {t} : Apart(n, a) \/ HalfOf(n, a) \/ HalfOf(a, n)
  BY <1>3 DEF Apart
<1> QED BY <1>2, <1>3, <1>4 DEF Separate

LEMMA FewerSeparate ==
  ASSUME NEW A, NEW q, Separate(A, q), NEW B \in SUBSET A
  PROVE  Separate(B, q)
BY DEF Separate

\* The oldest task of the queue is taken up.
LEMMA TakenSeparate ==
  ASSUME NEW A, NEW q, Separate(A, q), QueueOK(q), q # <<>>
  PROVE  /\ Separate(A \cup {Head(q)}, Tail(q)) /\ QueueOK(Tail(q)) /\ TaskOK(Head(q))
         /\ (A \cup {Head(q)}) \cup Range(Tail(q)) = A \cup Range(q)
         /\ Range(Tail(q)) \subseteq Range(q) /\ Head(q) \in Range(q)
<1> DEFINE h == Head(q)  r == Tail(q)
<1>1. /\ q \in Seq(Tasks) /\ Len(q) \in Nat /\ Len(q) >= 1 /\ DOMAIN q = 1..Len(q)
      /\ h = q[1] /\ r \in Seq(Tasks) /\ Len(r) = Len(q) - 1 /\ DOMAIN r = 1..(Len(q) - 1)
      /\ \A i \in 1..(Len(q) - 1) : r[i] = q[i + 1]
  BY HeadTailProperties, LenProperties, EmptySeq DEF QueueOK
<1> HIDE DEF h, r
<1>2. \A i \in 1..(Len(q) - 1) : i + 1 \in DOMAIN q /\ i + 1 # 1
  BY <1>1
<1>3. 1 \in DOMAIN q
  BY <1>1
<1>4. QueueOK(r) /\ TaskOK(h)
  <2>1. \A j \in DOMAIN q : TaskOK(q[j]) /\ q[j].phase = "begin" /\ q[j].by = "pool"
    BY DEF QueueOK
  <2>2. TaskOK(h)
    BY <1>1, <1>3, <2>1
  <2>3. ASSUME NEW i \in DOMAIN r
        PROVE  TaskOK(r[i]) /\ r[i].phase = "begin" /\ r[i].by = "pool"
    <3>1. i \in 1..(Len(q) - 1)
      BY <1>1
    <3>2. r[i] = q[i + 1] /\ i + 1 \in DOMAIN q
      BY <3>1, <1>1, <1>2
    <3> QED BY <3>2, <2>1
  <2>4. r \in Seq(Tasks)
    BY <1>1
  <2> QED BY <2>2, <2>3, <2>4 DEF QueueOK
<1>5. Separate(A \cup {h}, r)
  <2>1. \A i, j \in DOMAIN r : i # j => Apart(r[i], r[j])
    <3> TAKE i \in DOMAIN r, j \in DOMAIN r
    <3>1. i # j => i + 1 # j + 1
      BY <1>1
    <3> QED BY <1>1, <1>2, <3>1 DEF Separate
  <2>2. \A i \in DOMAIN r : \A a \in A : Apart(r[i], a) \/ HalfOf(r[i], a)
    BY <1>1, <1>2 DEF Separate
  <2>3. \A i \in DOMAIN r : Apart(r[i], h)
    BY <1>1, <1>2, <1>3 DEF Separate
  <2>4. \A a \in A : Apart(h, a) \/ HalfOf(h, a)
    BY <1>1, <1>3 DEF Separate
  <2>5. \A a \in A : Apart(a, h) \/ HalfOf(h, a)
    BY <2>4 DEF Apart
  <2>6. \A a, b \in A : a # b => Apart(a, b) \/ HalfOf(a, b) \/ HalfOf(b, a)
    BY DEF Separate
  <2> QED BY <2>1, <2>2, <2>3, <2>4, <2>5, <2>6 DEF Separate
<1>6. Range(q) = {h} \cup Range(r)
  <2>1. \A i \in DOMAIN q : q[i] = h \/ \E j \in DOMAIN r : q[i] = r[j]
    <3> TAKE i \in DOMAIN q
    <3>1. i # 1 => i - 1 \in DOMAIN r /\ (i - 1) + 1 = i
      BY <1>1
    <3> QED BY <1>1, <3>1
  <2>2. \A j \in DOMAIN r : \E i \in DOMAIN q : r[j] = q[i]
    BY <1>1, <1>2
  <2>3. q[1] = h
    BY <1>1
  <2>4. Range(q) \subseteq {h} \cup Range(r)
    BY <2>1 DEF Range
  <2>5. Range(r) \subseteq Range(q)
    BY <2>2 DEF Range
  <2>6. h \in Range(q)
    BY <1>3, <2>3 DEF Range
  <2> QED BY <2>4, <2>5, <2>6
<1> QED BY <1>4, <1>5, <1>6 DEF h, r

\* A new task joins the queue.
LEMMA AddedSeparate ==
  ASSUME NEW A, NEW q, Separate(A, q), QueueOK(q),
         NEW x, TaskOK(x), x.phase = "begin", x.by = "pool",
         \A i \in DOMAIN q : Apart(q[i], x), \A a \in A : Apart(x, a) \/ HalfOf(x, a)
  PROVE  /\ Separate(A, Append(q, x)) /\ QueueOK(Append(q, x))
         /\ Range(Append(q, x)) = Range(q) \cup {x}
<1> DEFINE r == Append(q, x)
<1>1. x \in Tasks
  BY DEF TaskOK
<1>2. /\ q \in Seq(Tasks) /\ Len(q) \in Nat /\ DOMAIN q = 1..Len(q)
      /\ r \in Seq(Tasks) /\ DOMAIN r = 1..(Len(q) + 1)
      /\ r[Len(q) + 1] = x /\ \A i \in 1..Len(q) : r[i] = q[i]
  BY <1>1, AppendProperties, LenProperties DEF QueueOK
<1> HIDE DEF r
<1>3. \A i \in DOMAIN r : (i \in DOMAIN q /\ r[i] = q[i]) \/ (i = Len(q) + 1 /\ r[i] = x)
  BY <1>2
<1>4. QueueOK(r)
  BY <1>2, <1>3 DEF QueueOK
<1>5. \A i \in DOMAIN q : Apart(x, q[i])
  BY DEF Apart
<1>6. Separate(A, r)
  BY <1>3, <1>5 DEF Separate
<1>7. Range(r) = Range(q) \cup {x}
  <2>1. \A i \in DOMAIN q : i \in DOMAIN r /\ r[i] = q[i]
    BY <1>2
  <2>2. Len(q) + 1 \in DOMAIN r
    BY <1>2
  <2> QED BY <1>2, <1>3, <2>1, <2>2 DEF Range
<1> QED BY <1>4, <1>6, <1>7 DEF r

-------------------------------------------------------------------------------
(* What poolSTL counts.                                                       *)

\* Tasks that come and go without another place to begin at.
LEMMA ChargeKept ==
  ASSUME NEW A, NEW q, NEW n, Charge(A, q, n), NEW B, NEW r,
         \A t \in B \cup Range(r) : t.phase # "sorting" =>
           \E u \in A \cup Range(q) : u.phase # "sorting" /\ u.lo = t.lo
  PROVE  Charge(B, r, n)
<1>1. Charged(B, r) \in SUBSET Charged(A, q)
  BY DEF Charged
<1>2. IsFiniteSet(Charged(B, r)) /\ Cardinality(Charged(B, r)) <= Cardinality(Charged(A, q))
  BY <1>1, FS_Subset DEF Charge
<1>3. Cardinality(Charged(B, r)) \in Nat /\ Cardinality(Charged(A, q)) \in Nat
  BY <1>2, FS_CardinalityType DEF Charge
<1> QED BY <1>2, <1>3 DEF Charge

\* One more place to begin at, counted.
LEMMA ChargeMore ==
  ASSUME NEW A, NEW q, NEW n, Charge(A, q, n), NEW B, NEW r, NEW lo,
         Charged(B, r) \in SUBSET (Charged(A, q) \cup {lo})
  PROVE  Charge(B, r, n + 1)
<1>2. /\ IsFiniteSet(Charged(A, q) \cup {lo})
      /\ Cardinality(Charged(A, q) \cup {lo}) <= Cardinality(Charged(A, q)) + 1
      /\ Cardinality(Charged(A, q)) \in Nat
  <2>1. IsFiniteSet(Charged(A, q))
    BY DEF Charge
  <2>2. Cardinality(Charged(A, q)) \in Nat
    BY <2>1, FS_CardinalityType
  <2>3. /\ IsFiniteSet(Charged(A, q) \cup {lo})
        /\ Cardinality(Charged(A, q) \cup {lo}) =
             IF lo \in Charged(A, q) THEN Cardinality(Charged(A, q)) ELSE Cardinality(Charged(A, q)) + 1
    BY <2>1, FS_AddElement
  <2> QED BY <2>2, <2>3
<1>3. /\ IsFiniteSet(Charged(B, r))
      /\ Cardinality(Charged(B, r)) <= Cardinality(Charged(A, q) \cup {lo})
  BY <1>2, FS_Subset
<1>4. Cardinality(Charged(B, r)) \in Nat /\ Cardinality(Charged(A, q) \cup {lo}) \in Nat
  BY <1>2, <1>3, FS_CardinalityType
<1> QED BY <1>2, <1>3, <1>4 DEF Charge

\* The task that no longer makes others was the only one to begin where it does.
LEMMA ChargeLess ==
  ASSUME NEW A, NEW q, NEW n, Charge(A, q, n), NEW B, NEW r,
         NEW t \in A, t.phase # "sorting",
         \A u \in B \cup Range(r) : u.phase # "sorting" =>
           /\ u.lo # t.lo
           /\ \E v \in A \cup Range(q) : v.phase # "sorting" /\ v.lo = u.lo
  PROVE  Charge(B, r, n - 1)
<1>1. t.lo \in Charged(A, q)
  BY DEF Charged
<1>2. Charged(B, r) \in SUBSET (Charged(A, q) \ {t.lo})
  BY DEF Charged
<1>3. /\ IsFiniteSet(Charged(A, q) \ {t.lo})
      /\ Cardinality(Charged(A, q) \ {t.lo}) = Cardinality(Charged(A, q)) - 1
      /\ Cardinality(Charged(A, q)) \in Nat
  BY <1>1, FS_RemoveElement, FS_CardinalityType DEF Charge
<1>4. /\ IsFiniteSet(Charged(B, r))
      /\ Cardinality(Charged(B, r)) <= Cardinality(Charged(A, q) \ {t.lo})
  BY <1>2, <1>3, FS_Subset
<1>5. Cardinality(Charged(B, r)) \in Nat
  BY <1>4, FS_CardinalityType
<1> QED BY <1>3, <1>4, <1>5 DEF Charge

\* When the count is 0 no task can make another.
LEMMA ChargeNone ==
  ASSUME NEW A, NEW q, Charge(A, q, 0), NEW t \in A \cup Range(q)
  PROVE  t.phase = "sorting"
<1>1. Charged(A, q) = {}
  BY FS_EmptySet, FS_CardinalityType DEF Charge
<1> QED BY <1>1 DEF Charged

-------------------------------------------------------------------------------
(* The rows.                                                                  *)

\* Rows that change places.
LEMMA Exchanged ==
  ASSUME NEW o, Table(o), NEW p \in [DataRows -> DataRows], IsInjective(p)
  PROVE  Table([i \in DataRows |-> o[p[i]]])
BY DEF Table, IsInjective

LEMMA ArrangedIsTable ==
  ASSUME Table(order), NEW lo \in DataRows, NEW hi \in DataRows, lo..hi \subseteq DataRows,
         NEW o \in Arrangements(lo, hi)
  PROVE  Table(o)
<1>1. PICK p \in Bijection(lo..hi, lo..hi) :
        o = [i \in DOMAIN order |-> IF i \in lo..hi THEN order[p[i]] ELSE order[i]]
  BY DEF Arrangements
<1>2. p \in [lo..hi -> lo..hi] /\ IsInjective(p)
  BY <1>1 DEF Bijection, Injection
<1> DEFINE s == [i \in DataRows |-> IF i \in lo..hi THEN p[i] ELSE i]
<1>3. s \in [DataRows -> DataRows] /\ IsInjective(s)
  BY <1>2 DEF IsInjective
<1>4. o = [i \in DataRows |-> order[s[i]]]
  BY <1>1 DEF Table
<1> HIDE DEF s
<1> QED BY <1>3, <1>4, Exchanged

\* A count of rows among some places.
LEMMA LowsBounded ==
  ASSUME NEW lo \in Int, NEW hi \in Int, lo <= hi + 1, NEW pivot
  PROVE  Lows(lo, hi, pivot) \in 0..(hi - lo + 1)
<1>1. IsFiniteSet(lo..hi) /\ Cardinality(lo..hi) = hi - lo + 1
  BY FS_Interval
<1> DEFINE S == {i \in lo..hi : Less(order[i], pivot)}
<1>2. S \in SUBSET (lo..hi)
  OBVIOUS
<1> HIDE DEF S
<1>3. IsFiniteSet(S) /\ Cardinality(S) <= hi - lo + 1
  BY <1>1, <1>2, FS_Subset
<1>4. Cardinality(S) \in Nat
  BY <1>3, FS_CardinalityType
<1> QED BY <1>3, <1>4 DEF S, Lows

-------------------------------------------------------------------------------
(* The inductive invariant.                                                   *)

OrderOK == Table(order) \/ (order = <<>> /\ active = {} /\ queue = <<>>)
TasksOK == (\A t \in active : TaskOK(t)) /\ QueueOK(queue)
FuturesOK == Submitted(active, queue, futures)
Nobody == active = {} /\ queue = <<>>

\* What holds of the tasks where the caller is.
CallerOK ==
  /\ collected \in Nat
  /\ at \in {"start", "typifying", "sorting alone"} => Nobody
  /\ at \in {"start", "typifying", "sorting alone", "sorting"} => collected = 0
  /\ at \in {"typifying", "sorting alone"} => DataRows # {}
  /\ at = "sorting alone" => Table(order)
  /\ at = "collecting" =>
       /\ \A t \in active \cup Range(queue) : t.phase = "sorting" /\ t.by = "pool"
       /\ \A i \in 1..collected : \A t \in active : <<t.lo, t.hi>> # futures[i]
  /\ at \in {"printing", "done"} => Nobody

QuicksortOK ==
  /\ InputOK /\ OrderOK /\ TasksOK /\ Separate(active, queue)
  /\ Charge(active, queue, inflight_spawns) /\ FuturesOK
SortInv == cmd.tool = "sort" => QuicksortOK /\ CallerOK

LEMMA NobodyHolds ==
  ASSUME InputOK, NEW n \in Nat
  PROVE  Separate({}, <<>>) /\ Charge({}, <<>>, n) /\ Submitted({}, <<>>, <<>>) /\ QueueOK(<<>>)
<1>1. Range(<<>>) = {}
  BY DEF Range
<1>2. Charged({}, <<>>) = {}
  BY <1>1 DEF Charged
<1>3. Charge({}, <<>>, n)
  BY <1>2, FS_EmptySet DEF Charge
<1> QED BY <1>1, <1>3, EmptySeq DEF Separate, Submitted, QueueOK

LEMMA SortInitially == ToolInit /\ SortInit => SortInv
<1> SUFFICES ASSUME ToolInit, SortInit, cmd.tool = "sort" PROVE QuicksortOK /\ CallerOK
  BY DEF SortInv
<1>1. cmd.cells \in Seq(Seq(Texts))
  BY SortAssumption DEF ToolInit
<1>2. InputOK
  <2>1. CASE cmd.cells = <<>>
    <3>1. DataRows = 1..0
      BY <2>1 DEF DataRows
    <3> QED BY <3>1 DEF InputOK
  <2>2. CASE cmd.cells # <<>>
    <3>1. cmd.cells[1] \in Seq(Texts)
      BY <1>1, <2>2, EmptySeq, LenProperties
    <3>2. DataRows = 1..Len(cmd.cells[1]) /\ Len(cmd.cells[1]) \in Nat
      BY <2>2, <3>1, LenProperties DEF DataRows
    <3> QED BY <3>2 DEF InputOK
  <2> QED BY <2>1, <2>2
<1>3. Separate({}, <<>>) /\ Charge({}, <<>>, 0) /\ Submitted({}, <<>>, <<>>) /\ QueueOK(<<>>)
  BY <1>2, NobodyHolds
<1>4. /\ order = <<>> /\ active = {} /\ queue = <<>> /\ inflight_spawns = 0 /\ futures = <<>>
      /\ collected = 0 /\ at = "start"
  BY DEF SortInit, ToolInit
<1>5. QuicksortOK
  BY <1>2, <1>3, <1>4 DEF QuicksortOK, OrderOK, TasksOK, FuturesOK
<1>6. CallerOK
  BY <1>4 DEF CallerOK, Nobody
<1> QED BY <1>5, <1>6

-------------------------------------------------------------------------------
(* The steps of the tasks.                                                    *)

\* A task has as many places as it says, and a half of them to leave to another.
LEMMA TaskFacts ==
  ASSUME InputOK, NEW t, TaskOK(t)
  PROVE  /\ t.lo \in Int /\ t.hi \in Int /\ t.left \in Int /\ t.right \in Int
         /\ Size(t) \in Int /\ Size(t) >= 1 /\ Size(t) = t.hi - t.lo + 1
         /\ Half(t) \in Int /\ t.lo <= Half(t)
         /\ Size(t) >= 4 => Half(t) < t.hi
         /\ t.lo..t.hi \subseteq DataRows
<1>1. PICK n \in Nat : DataRows = 1..n
  BY DEF InputOK
<1>2. t.lo \in Int /\ t.hi \in Int /\ t.left \in Int /\ t.right \in Int /\ t.lo <= t.hi
  BY DEF TaskOK, Tasks
<1>3. 1 <= t.lo /\ t.hi <= n
  BY <1>1 DEF TaskOK
<1>4. Size(t) \in Int /\ Size(t) >= 1 /\ Size(t) = t.hi - t.lo + 1
  BY <1>2 DEF Size
<1>5. Size(t) \div 2 \in Int /\ 0 <= Size(t) \div 2 /\ (Size(t) >= 4 => Size(t) \div 2 < Size(t) - 1)
  BY <1>4
<1> QED BY <1>1, <1>2, <1>3, <1>4, <1>5 DEF Half

\* Only a waiting part and its half begin at one place.
LEMMA OneBegins ==
  ASSUME InputOK, TasksOK, Separate(active, queue),
         NEW t \in active, NEW u \in active \cup Range(queue), u.lo = t.lo, u # t
  PROVE  HalfOf(u, t) \/ HalfOf(t, u)
<1>1. TaskOK(t) /\ TaskOK(u)
  BY DEF TasksOK, QueueOK, Range
<1>2. ~Apart(t, u) /\ ~Apart(u, t)
  BY <1>1, TaskFacts DEF Apart, TaskOK
<1>3. CASE u \in active
  BY <1>2, <1>3 DEF Separate
<1>4. CASE u \in Range(queue)
  BY <1>2, <1>4 DEF Separate, Range
<1> QED BY <1>3, <1>4

\* A task that goes on to another phase before it sorts.
LEMMA PhaseStep ==
  ASSUME QuicksortOK, DataRows' = DataRows, NEW t \in active, NEW n, TaskOK(n),
         n.kind = t.kind, n.lo = t.lo, n.hi = t.hi, n.by = t.by,
         t.phase # "sorting", t.phase \in Waiting => n.phase \in Waiting,
         active' = (active \ {t}) \cup {n}, Table(order'),
         UNCHANGED <<queue, inflight_spawns, futures>>
  PROVE  QuicksortOK'
<1> USE DEF QuicksortOK
<1>1. Separate(active', queue')
  BY ChangedSeparate
<1>2. TasksOK'
  BY DEF TasksOK, QueueOK, TaskOK
<1>3. Charge(active', queue', inflight_spawns')
  <2>1. \A u \in active' \cup Range(queue') : u.phase # "sorting" =>
          \E v \in active \cup Range(queue) : v.phase # "sorting" /\ v.lo = u.lo
    OBVIOUS
  <2> QED BY <2>1, ChargeKept
<1>4. FuturesOK'
  <2>1. \A u \in active' \cup Range(queue') : u.kind = "sort" /\ u.by = "pool" =>
          \E v \in active \cup Range(queue) :
            v.kind = "sort" /\ v.by = "pool" /\ v.lo = u.lo /\ v.hi = u.hi
    OBVIOUS
  <2> QED BY <2>1 DEF FuturesOK, Submitted
<1>5. InputOK' /\ OrderOK'
  BY DEF InputOK, OrderOK, Table
<1> QED BY <1>1, <1>2, <1>3, <1>4, <1>5

\* A task ends.
LEMMA GoneStep ==
  ASSUME QuicksortOK, DataRows' = DataRows, NEW t \in active,
         active' = active \ {t}, Table(order'),
         UNCHANGED <<queue, inflight_spawns, futures>>
  PROVE  QuicksortOK'
<1> USE DEF QuicksortOK
<1>1. Separate(active', queue')
  BY FewerSeparate
<1>2. TasksOK'
  BY DEF TasksOK, QueueOK, TaskOK
<1>3. Charge(active', queue', inflight_spawns')
  BY ChargeKept
<1>4. FuturesOK'
  BY DEF FuturesOK, Submitted
<1>5. InputOK' /\ OrderOK'
  BY DEF InputOK, OrderOK, Table
<1> QED BY <1>1, <1>2, <1>3, <1>4, <1>5

LEMMA RunStep ==
  ASSUME QuicksortOK, UNCHANGED cmd, Run
  PROVE  QuicksortOK'
<1> USE DEF QuicksortOK
<1>1. /\ queue # <<>> /\ active' = active \cup {Head(queue)} /\ queue' = Tail(queue)
      /\ UNCHANGED <<order, inflight_spawns, futures>>
  BY DEF Run
<1>2. DataRows' = DataRows
  BY DEF DataRows
<1>3. /\ Separate(active', queue') /\ QueueOK(queue') /\ TaskOK(Head(queue))
      /\ active' \cup Range(queue') = active \cup Range(queue)
  BY <1>1, TakenSeparate DEF TasksOK
<1>4. TasksOK'
  BY <1>1, <1>2, <1>3 DEF TasksOK, QueueOK, TaskOK
<1>5. Charge(active', queue', inflight_spawns')
  BY <1>1, <1>3 DEF Charge, Charged
<1>6. FuturesOK'
  BY <1>1, <1>3 DEF FuturesOK, Submitted
<1>7. Table(order)
  BY <1>1 DEF OrderOK
<1>8. InputOK' /\ OrderOK'
  BY <1>1, <1>2, <1>7 DEF InputOK, OrderOK, Table
<1> QED BY <1>3, <1>4, <1>5, <1>6, <1>8

\* The row a part is divided by is one of its rows.
LEMMA PivotIsRow ==
  ASSUME InputOK, Table(order), NEW t, TaskOK(t)
  PROVE  PivotOf(t) \in Int
<1>1. Size(t) \in Int /\ Size(t) >= 1 /\ Size(t) = t.hi - t.lo + 1 /\ t.lo..t.hi \subseteq DataRows
      /\ t.lo \in Int /\ t.hi \in Int
  BY TaskFacts
<1>2. t.lo + Size(t) \div 2 \in t.lo..t.hi
  BY <1>1
<1>3. order[t.lo + Size(t) \div 2] \in DataRows
  BY <1>1, <1>2 DEF Table
<1> QED BY <1>3 DEF PivotOf, InputOK

\* Some places are partitioned.
LEMMA PartitionedIsTable ==
  ASSUME InputOK, Table(order), NEW lo \in DataRows, NEW hi \in DataRows, lo..hi \subseteq DataRows,
         NEW pivot, PartitionInto(lo, hi, pivot)
  PROVE  Table(order')
BY ArrangedIsTable DEF PartitionInto

\* A task in another phase, with what it has counted or noted.
SameTask(n, t, p) ==
  n \in Tasks /\ n.phase = p /\ n.kind = t.kind /\ n.lo = t.lo /\ n.hi = t.hi /\ n.by = t.by

LEMMA PartitionStep ==
  ASSUME QuicksortOK, UNCHANGED cmd, NEW t \in active, Partition(t)
  PROVE  QuicksortOK'
<1> USE DEF QuicksortOK
<1> DEFINE n == [t EXCEPT !.phase = "divided", !.left = Lows(t.lo, t.hi, PivotOf(t))]
<1>1. TaskOK(t) /\ Table(order) /\ DataRows' = DataRows
  BY DEF TasksOK, OrderOK, DataRows
<1>2. /\ t.kind = "sort" /\ t.phase = "begin"
      /\ PartitionInto(t.lo, t.hi, PivotOf(t))
      /\ active' = (active \ {t}) \cup {n}
      /\ UNCHANGED <<queue, inflight_spawns, futures>>
  BY DEF Partition, Divides, Becomes
<1>3. Lows(t.lo, t.hi, PivotOf(t)) \in 0..Size(t)
  BY <1>1, TaskFacts, LowsBounded
<1>4. SameTask(n, t, "divided") /\ n.left = Lows(t.lo, t.hi, PivotOf(t))
  <2>1. t \in Tasks /\ "divided" \in Phases /\ Lows(t.lo, t.hi, PivotOf(t)) \in Int
    BY <1>1, <1>3, TaskFacts DEF TaskOK, Phases
  <2> QED BY <2>1 DEF Tasks, SameTask
<1> HIDE DEF n
<1>5. TaskOK(n)
  BY <1>1, <1>2, <1>3, <1>4 DEF TaskOK, SameTask, Size, Waiting
<1>6. Table(order')
  BY <1>1, <1>2, TaskFacts, PartitionedIsTable DEF TaskOK
<1> QED BY <1>1, <1>2, <1>4, <1>5, <1>6, PhaseStep DEF Waiting, SameTask

LEMMA OwnHalfStep ==
  ASSUME QuicksortOK, UNCHANGED cmd, NEW t \in active, OwnHalf(t)
  PROVE  QuicksortOK'
<1> USE DEF QuicksortOK
<1> DEFINE n == [t EXCEPT !.phase = "helped", !.right = Lows(Half(t) + 1, t.hi, t.pivot)]
<1>1. TaskOK(t) /\ Table(order) /\ DataRows' = DataRows
  BY DEF TasksOK, OrderOK, DataRows
<1>2. /\ t.kind = "sort" /\ t.phase = "own half"
      /\ PartitionInto(Half(t) + 1, t.hi, t.pivot)
      /\ active' = (active \ {t}) \cup {n}
      /\ UNCHANGED <<queue, inflight_spawns, futures>>
  BY DEF OwnHalf, Becomes
<1>3. /\ Half(t) \in Int /\ t.hi \in Int /\ t.lo \in Int /\ t.lo <= Half(t) /\ Half(t) < t.hi
      /\ t.lo..t.hi \subseteq DataRows
  BY <1>1, <1>2, TaskFacts DEF TaskOK, Waiting
<1>4. Lows(Half(t) + 1, t.hi, t.pivot) \in 0..(t.hi - Half(t))
  <2>1. Lows(Half(t) + 1, t.hi, t.pivot) \in 0..(t.hi - (Half(t) + 1) + 1)
    BY <1>3, LowsBounded
  <2> QED BY <1>3, <2>1
<1>5. SameTask(n, t, "helped") /\ n.right = Lows(Half(t) + 1, t.hi, t.pivot)
  <2>1. t \in Tasks /\ "helped" \in Phases /\ Lows(Half(t) + 1, t.hi, t.pivot) \in Int
    BY <1>1, <1>3, <1>4 DEF TaskOK, Phases
  <2> QED BY <2>1 DEF Tasks, SameTask
<1> HIDE DEF n
<1>6. TaskOK(n)
  BY <1>1, <1>2, <1>4, <1>5 DEF TaskOK, SameTask, Half, Size, Waiting
<1>7. Table(order')
  <2>1. Half(t) + 1 \in DataRows /\ t.hi \in DataRows /\ (Half(t) + 1)..t.hi \subseteq DataRows
    BY <1>3
  <2> QED BY <1>1, <1>2, <2>1, PartitionedIsTable
<1> QED BY <1>1, <1>2, <1>5, <1>6, <1>7, PhaseStep DEF Waiting, SameTask

LEMMA OtherHalfStep ==
  ASSUME QuicksortOK, UNCHANGED cmd, NEW t \in active, OtherHalf(t)
  PROVE  QuicksortOK'
<1> USE DEF QuicksortOK
<1> DEFINE n == [t EXCEPT !.phase = "divided", !.left = Lows(t.lo, t.hi, t.pivot)]
<1>1. TaskOK(t) /\ Table(order) /\ DataRows' = DataRows
  BY DEF TasksOK, OrderOK, DataRows
<1>2. /\ t.kind = "half" /\ t.phase = "begin"
      /\ PartitionInto(t.lo, t.hi, t.pivot)
      /\ active' = (active \ {t}) \cup {n}
      /\ UNCHANGED <<queue, inflight_spawns, futures>>
  BY DEF OtherHalf, Becomes
<1>3. Lows(t.lo, t.hi, t.pivot) \in 0..Size(t)
  BY <1>1, TaskFacts, LowsBounded
<1>4. SameTask(n, t, "divided") /\ n.left = Lows(t.lo, t.hi, t.pivot)
  <2>1. t \in Tasks /\ "divided" \in Phases /\ Lows(t.lo, t.hi, t.pivot) \in Int
    BY <1>1, <1>3, TaskFacts DEF TaskOK, Phases
  <2> QED BY <2>1 DEF Tasks, SameTask
<1> HIDE DEF n
<1>5. TaskOK(n)
  BY <1>1, <1>2, <1>3, <1>4 DEF TaskOK, SameTask, Size, Waiting
<1>6. Table(order')
  BY <1>1, <1>2, TaskFacts, PartitionedIsTable DEF TaskOK
<1> QED BY <1>1, <1>2, <1>4, <1>5, <1>6, PhaseStep DEF Waiting, SameTask

LEMMA AskForHelpStep ==
  ASSUME QuicksortOK, UNCHANGED cmd, NEW t \in active, AskForHelp(t)
  PROVE  QuicksortOK'
<1> USE DEF QuicksortOK
<1> DEFINE n == [t EXCEPT !.phase = "own half", !.pivot = PivotOf(t)]
           x == Task("half", t.lo, Half(t), PivotOf(t))
           A == (active \ {t}) \cup {n}
<1>1. TaskOK(t) /\ Table(order) /\ DataRows' = DataRows
  BY DEF TasksOK, OrderOK, DataRows
<1>2. /\ t.kind = "sort" /\ t.phase = "begin" /\ Size(t) >= 4
      /\ active' = A /\ queue' = Append(queue, x)
      /\ UNCHANGED <<order, inflight_spawns, futures>>
  BY DEF AskForHelp, Divides, Helped, Becomes
<1>3. /\ Half(t) \in Int /\ t.hi \in Int /\ t.lo \in Int /\ t.lo <= Half(t) /\ Half(t) < t.hi
      /\ t.lo..t.hi \subseteq DataRows
  BY <1>1, <1>2, TaskFacts
<1>4. PivotOf(t) \in Int
  BY <1>1, PivotIsRow
<1>5. SameTask(n, t, "own half")
  BY <1>1, <1>4 DEF TaskOK, Tasks, SameTask, Phases
<1>6. /\ x \in Tasks /\ x.kind = "half" /\ x.phase = "begin" /\ x.by = "pool"
      /\ x.lo = t.lo /\ x.hi = Half(t)
  BY <1>3, <1>4 DEF Task, Tasks, Phases
<1> HIDE DEF n, x
<1>7. TaskOK(n)
  BY <1>1, <1>2, <1>5 DEF TaskOK, SameTask, Size, Waiting
<1>8. TaskOK(x)
  <2>1. x.lo \in DataRows /\ x.hi \in DataRows
    BY <1>3, <1>6
  <2> QED BY <1>3, <1>6, <2>1 DEF TaskOK, Waiting
<1>9. Separate(A, queue)
  BY <1>2, <1>5, ChangedSeparate DEF SameTask, Waiting
<1>10. \A i \in DOMAIN queue : Apart(queue[i], x)
  <2> TAKE i \in DOMAIN queue
  <2>1. Apart(queue[i], t)
    BY <1>2 DEF Separate, HalfOf, Waiting
  <2>2. queue[i].lo \in Int /\ queue[i].hi \in Int
    BY TaskFacts DEF TasksOK, QueueOK
  <2> QED BY <1>3, <1>6, <2>1, <2>2 DEF Apart
<1>11. \A a \in A : Apart(x, a) \/ HalfOf(x, a)
  <2>1. HalfOf(x, n)
    BY <1>2, <1>5, <1>6 DEF HalfOf, SameTask, Waiting, Half, Size
  <2>2. ASSUME NEW a \in active, a # t PROVE Apart(x, a)
    <3>1. Apart(a, t) \/ Apart(t, a)
      BY <1>2, <2>2 DEF Separate, HalfOf, Waiting
    <3>2. a.lo \in Int /\ a.hi \in Int
      BY TaskFacts DEF TasksOK
    <3> QED BY <1>3, <1>6, <3>1, <3>2 DEF Apart
  <2> QED BY <2>1, <2>2
<1>12. /\ Separate(active', queue') /\ QueueOK(queue') /\ Range(queue') = Range(queue) \cup {x}
  <2>1. QueueOK(queue)
    BY DEF TasksOK
  <2> HIDE DEF A
  <2> QED BY <1>2, <1>6, <1>8, <1>9, <1>10, <1>11, <2>1, AddedSeparate
<1>13. TasksOK'
  BY <1>1, <1>2, <1>7, <1>12 DEF TasksOK, QueueOK, TaskOK
<1>14. Charge(active', queue', inflight_spawns')
  <2>1. \A u \in active' \cup Range(queue') : u.phase # "sorting" =>
          \E v \in active \cup Range(queue) : v.phase # "sorting" /\ v.lo = u.lo
    BY <1>2, <1>5, <1>6, <1>12 DEF SameTask
  <2> QED BY <1>2, <2>1, ChargeKept
<1>15. FuturesOK'
  <2>1. \A u \in active' \cup Range(queue') : u.kind = "sort" /\ u.by = "pool" =>
          \E v \in active \cup Range(queue) :
            v.kind = "sort" /\ v.by = "pool" /\ v.lo = u.lo /\ v.hi = u.hi
    BY <1>2, <1>5, <1>6, <1>12 DEF SameTask
  <2> QED BY <1>2, <2>1 DEF FuturesOK, Submitted
<1>16. InputOK' /\ OrderOK'
  BY <1>1, <1>2 DEF InputOK, OrderOK, Table
<1> QED BY <1>12, <1>13, <1>14, <1>15, <1>16

\* A task is done with making others.
LEMMA NotifyStep ==
  ASSUME QuicksortOK, UNCHANGED cmd, NEW t \in active, Notify(t)
  PROVE  QuicksortOK'
<1> USE DEF QuicksortOK
<1> DEFINE n == [t EXCEPT !.phase = "sorting"]
<1>1. TaskOK(t) /\ Table(order) /\ DataRows' = DataRows
  BY DEF TasksOK, OrderOK, DataRows
<1>2. /\ t.kind = "sort" /\ t.phase \in {"begin", "divided"}
      /\ active' = (active \ {t}) \cup {n} /\ inflight_spawns' = inflight_spawns - 1
      /\ UNCHANGED <<order, queue, futures>>
  BY DEF Notify, Partitioned, Becomes
<1>3. SameTask(n, t, "sorting")
  BY <1>1 DEF TaskOK, Tasks, SameTask, Phases
<1> HIDE DEF n
<1>4. TaskOK(n)
  BY <1>1, <1>2, <1>3 DEF TaskOK, SameTask, Size, Waiting
<1>5. Separate(active', queue')
  BY <1>2, <1>3, ChangedSeparate DEF SameTask, Waiting
<1>6. TasksOK'
  BY <1>1, <1>2, <1>4 DEF TasksOK, QueueOK, TaskOK
<1>7. Charge(active', queue', inflight_spawns')
  <2>1. \A u \in active' \cup Range(queue') : u.phase # "sorting" =>
          u.lo # t.lo /\ \E v \in active \cup Range(queue) : v.phase # "sorting" /\ v.lo = u.lo
    <3> SUFFICES ASSUME NEW u \in active' \cup Range(queue'), u.phase # "sorting"
                 PROVE  u.lo # t.lo /\ u \in active \cup Range(queue)
      OBVIOUS
    <3>1. u # n /\ u \in active \cup Range(queue)
      BY <1>2, <1>3 DEF SameTask
    <3>2. ~HalfOf(u, t) /\ ~HalfOf(t, u)
      BY <1>2 DEF HalfOf, Waiting
    <3>3. u # t
      <4>1. t \notin Range(queue)
        <5>1. ~Apart(t, t) /\ ~HalfOf(t, t)
          BY <1>1, TaskFacts DEF Apart, HalfOf, TaskOK
        <5> QED BY <5>1 DEF Separate, Range
      <4> QED BY <1>2, <3>1, <4>1
    <3> QED BY <3>1, <3>2, <3>3, OneBegins
  <2> QED BY <1>2, <2>1, ChargeLess
<1>8. FuturesOK'
  <2>1. \A u \in active' \cup Range(queue') : u.kind = "sort" /\ u.by = "pool" =>
          \E v \in active \cup Range(queue) :
            v.kind = "sort" /\ v.by = "pool" /\ v.lo = u.lo /\ v.hi = u.hi
    BY <1>2, <1>3 DEF SameTask
  <2> QED BY <1>2, <2>1 DEF FuturesOK, Submitted
<1>9. InputOK' /\ OrderOK'
  BY <1>1, <1>2 DEF InputOK, OrderOK, Table
<1> QED BY <1>5, <1>6, <1>7, <1>8, <1>9

\* Two more at the end.
LEMMA TwoMore ==
  ASSUME NEW S, NEW s \in Seq(S), NEW a \in S, NEW b \in S
  PROVE  /\ s \o <<a, b>> = Append(Append(s, a), b)
         /\ s \o <<a, b>> \in Seq(S)
         /\ Range(s \o <<a, b>>) = Range(s) \cup {a, b}
<1> DEFINE r == s \o <<a, b>>  u == Append(Append(s, a), b)
<1>1. <<a, b>> \in Seq(S) /\ Len(<<a, b>>) = 2 /\ <<a, b>>[1] = a /\ <<a, b>>[2] = b
  OBVIOUS
<1>2. Len(s) \in Nat /\ DOMAIN s = 1..Len(s)
  BY LenProperties
<1>3. /\ r \in Seq(S) /\ Len(r) = Len(s) + 2 /\ DOMAIN r = 1..(Len(s) + 2)
      /\ \A i \in 1..Len(s) : r[i] = s[i]
      /\ r[Len(s) + 1] = a /\ r[Len(s) + 2] = b
  <2> HIDE DEF r
  <2>1. /\ r \in Seq(S) /\ Len(r) = Len(s) + 2
        /\ \A i \in 1..(Len(s) + 2) : r[i] = IF i <= Len(s) THEN s[i] ELSE <<a, b>>[i - Len(s)]
    BY <1>1, ConcatProperties DEF r
  <2>2. DOMAIN r = 1..(Len(s) + 2)
    BY <2>1, LenProperties
  <2>3. /\ Len(s) + 1 \in 1..(Len(s) + 2) /\ ~(Len(s) + 1 <= Len(s)) /\ (Len(s) + 1) - Len(s) = 1
        /\ Len(s) + 2 \in 1..(Len(s) + 2) /\ ~(Len(s) + 2 <= Len(s)) /\ (Len(s) + 2) - Len(s) = 2
    BY <1>2
  <2>4. r[Len(s) + 1] = a /\ r[Len(s) + 2] = b
    BY <1>1, <2>1, <2>3
  <2> QED BY <1>2, <2>1, <2>2, <2>4
<1>4. /\ u \in Seq(S) /\ Len(u) = Len(s) + 2
      /\ \A i \in 1..Len(s) : u[i] = s[i]
      /\ u[Len(s) + 1] = a /\ u[Len(s) + 2] = b
  BY <1>2, AppendProperties
<1> HIDE DEF r, u
<1>5. \A i \in 1..Len(r) : i \in 1..Len(s) \/ i = Len(s) + 1 \/ i = Len(s) + 2
  BY <1>2, <1>3
<1>6. \A i \in 1..Len(r) : r[i] = u[i]
  BY <1>3, <1>4, <1>5
<1>7. r = u
  BY <1>3, <1>4, <1>6, SeqEqual
<1>8. Range(r) = Range(s) \cup {a, b}
  <2>1. Range(r) \subseteq Range(s) \cup {a, b}
    BY <1>2, <1>3, <1>5 DEF Range
  <2>2. Range(s) \subseteq Range(r)
    <3>1. \A i \in DOMAIN s : i \in DOMAIN r /\ r[i] = s[i]
      BY <1>2, <1>3
    <3> QED BY <3>1 DEF Range
  <2>3. a \in Range(r) /\ b \in Range(r)
    <3>1. Len(s) + 1 \in DOMAIN r /\ Len(s) + 2 \in DOMAIN r
      BY <1>2, <1>3
    <3> QED BY <1>3, <3>1 DEF Range
  <2> QED BY <2>1, <2>2, <2>3
<1> QED BY <1>3, <1>7, <1>8 DEF r, u

\* A part that was divided becomes two.
LEMMA SpawnStep ==
  ASSUME QuicksortOK, UNCHANGED cmd, NEW t \in active, Spawn(t)
  PROVE  QuicksortOK'
<1> USE DEF QuicksortOK
<1> DEFINE left == Task("sort", t.lo, t.lo + t.left - 1, 0)
           right == Task("sort", t.lo + t.left, t.hi, 0)
           A == active \ {t}
           q == Append(queue, left)
<1>1. TaskOK(t) /\ Table(order) /\ DataRows' = DataRows /\ QueueOK(queue)
  BY DEF TasksOK, OrderOK, DataRows
<1>2. /\ t.kind = "sort" /\ t.phase = "divided" /\ t.left # 0 /\ t.left # Size(t)
      /\ inflight_spawns' = inflight_spawns + 1 /\ active' = A
      /\ queue' = queue \o <<left, right>>
      /\ futures' = futures \o <<<<left.lo, left.hi>>, <<right.lo, right.hi>>>>
      /\ UNCHANGED order
  BY DEF Spawn, Partitioned, Gone, Spawned
<1>3. /\ t.hi \in Int /\ t.lo \in Int /\ t.left \in Int /\ 0 < t.left /\ t.lo + t.left <= t.hi
      /\ t.lo..t.hi \subseteq DataRows
  <2>1. t.left \in 0..Size(t) /\ Size(t) = t.hi - t.lo + 1 /\ t.hi \in Int /\ t.lo \in Int
        /\ t.lo..t.hi \subseteq DataRows
    BY <1>1, <1>2, TaskFacts DEF TaskOK
  <2>2. t.left # 0 /\ t.left # Size(t)
    BY <1>2
  <2> QED BY <2>1, <2>2
<1>4. /\ left \in Tasks /\ left.kind = "sort" /\ left.phase = "begin" /\ left.by = "pool"
      /\ left.lo = t.lo /\ left.hi = t.lo + t.left - 1
      /\ right \in Tasks /\ right.kind = "sort" /\ right.phase = "begin" /\ right.by = "pool"
      /\ right.lo = t.lo + t.left /\ right.hi = t.hi
  BY <1>3 DEF Task, Tasks, Phases
<1> HIDE DEF left, right
<1>5. TaskOK(left) /\ TaskOK(right)
  <2>1. left.lo \in DataRows /\ left.hi \in DataRows /\ right.lo \in DataRows
        /\ right.hi \in DataRows
    BY <1>3, <1>4
  <2> QED BY <1>3, <1>4, <2>1 DEF TaskOK, Waiting
<1>6. Apart(left, right)
  BY <1>3, <1>4 DEF Apart
<1>7. ASSUME NEW u, TaskOK(u), Apart(u, t) \/ Apart(t, u)
      PROVE  Apart(u, left) /\ Apart(u, right) /\ Apart(left, u) /\ Apart(right, u)
  BY <1>3, <1>4, <1>7, TaskFacts DEF Apart
<1>8. \A i \in DOMAIN queue : TaskOK(queue[i]) /\ Apart(queue[i], t)
  BY <1>1, <1>2 DEF QueueOK, Separate, HalfOf, Waiting
<1>9. \A a \in A : TaskOK(a) /\ (Apart(a, t) \/ Apart(t, a))
  BY <1>2 DEF TasksOK, Separate, HalfOf, Waiting
<1>10. Separate(A, queue)
  BY FewerSeparate
<1>11. \A i \in DOMAIN queue : Apart(queue[i], left) /\ Apart(queue[i], right)
  BY <1>7, <1>8
<1>12. \A a \in A : Apart(left, a) /\ Apart(right, a)
  BY <1>7, <1>9
<1> HIDE DEF A
<1>13. Separate(A, q) /\ QueueOK(q) /\ Range(q) = Range(queue) \cup {left}
  BY <1>1, <1>4, <1>5, <1>10, <1>11, <1>12, AddedSeparate
<1> HIDE DEF q
<1>14. \A i \in DOMAIN q : Apart(q[i], right)
  BY <1>6, <1>11, <1>13 DEF Range
<1>15. /\ Separate(A, Append(q, right)) /\ QueueOK(Append(q, right))
       /\ Range(Append(q, right)) = Range(q) \cup {right}
  BY <1>4, <1>5, <1>12, <1>13, <1>14, AddedSeparate
<1>16. queue' = Append(q, right)
  BY <1>1, <1>2, <1>4, TwoMore DEF QueueOK, q
<1>17. Range(queue') = Range(queue) \cup {left, right}
  BY <1>13, <1>15, <1>16
<1>18. Separate(active', queue') /\ TasksOK'
  BY <1>1, <1>2, <1>9, <1>15, <1>16 DEF TasksOK, QueueOK, TaskOK
<1>19. Charge(active', queue', inflight_spawns')
  <2>1. Charged(active', queue') \in SUBSET (Charged(active, queue) \cup {right.lo})
    BY <1>2, <1>4, <1>17 DEF A, Charged
  <2>2. inflight_spawns' = inflight_spawns + 1
    BY <1>2
  <2>3. Charge(active, queue, inflight_spawns)
    OBVIOUS
  <2> HIDE DEF QuicksortOK
  <2>4. Charge(active', queue', inflight_spawns + 1)
    BY <2>1, <2>3, ChargeMore
  <2> QED BY <2>2, <2>4
<1>20. FuturesOK'
  <2> DEFINE a == <<left.lo, left.hi>>  b == <<right.lo, right.hi>>  S == Int \X Int
  <2>1. a \in S /\ b \in S /\ futures' = futures \o <<a, b>>
    BY <1>2, <1>3, <1>4
  <2>2. futures \in Seq(S)
    BY DEF FuturesOK, Submitted
  <2> HIDE DEF a, b, S
  <2>3. futures' \in Seq(S) /\ Range(futures') = Range(futures) \cup {a, b}
    BY <2>1, <2>2, TwoMore
  <2> USE DEF a, b, S
  <2> QED BY <1>2, <1>17, <2>3 DEF FuturesOK, Submitted, A
<1>21. InputOK' /\ OrderOK'
  BY <1>1, <1>2 DEF InputOK, OrderOK, Table
<1> QED BY <1>18, <1>19, <1>20, <1>21

\* Two stretches of n places, of 1..N, change places.
Swap(N, a, b, n) ==
  [i \in 1..N |-> IF i \in a..(a + n - 1) THEN b + i - a
                  ELSE IF i \in b..(b + n - 1) THEN a + i - b ELSE i]
LEMMA Swapped ==
  ASSUME NEW N \in Nat, NEW a \in Int, NEW b \in Int, NEW n \in Int,
         0 <= n, 1 <= a, a + n <= b, b + n - 1 <= N
  PROVE  Swap(N, a, b, n) \in [1..N -> 1..N] /\ IsInjective(Swap(N, a, b, n))
<1> DEFINE s == Swap(N, a, b, n)
<1>1. \A i \in 1..N : s[i] \in 1..N
  BY DEF Swap
<1>2. \A i, j \in 1..N : s[i] = s[j] => i = j
  BY DEF Swap
<1>3. s = [i \in 1..N |-> s[i]]
  BY DEF Swap
<1> HIDE DEF s
<1>4. s \in [1..N -> 1..N]
  BY <1>1, <1>3
<1> QED BY <1>2, <1>4 DEF IsInjective, s

\* The two halves of a part come together again.
LEMMA MergeStep ==
  ASSUME QuicksortOK, UNCHANGED cmd, NEW t \in active, NEW half \in active, Merge(t, half)
  PROVE  QuicksortOK'
<1> USE DEF QuicksortOK
<1> DEFINE lows == t.right
           highs == Size(half) - half.left
           n == IF highs <= lows THEN highs ELSE lows
           from == half.hi + 1 + lows - n
           to == half.lo + half.left
           x == [t EXCEPT !.phase = "divided", !.left = half.left + lows]
           A == active \ {t, half}
<1>1. TaskOK(t) /\ TaskOK(half) /\ Table(order) /\ DataRows' = DataRows
  BY DEF TasksOK, OrderOK, DataRows
<1>2. /\ t.kind = "sort" /\ t.phase = "helped"
      /\ half.kind = "half" /\ half.phase = "divided" /\ half.lo = t.lo
      /\ order' = [i \in DOMAIN order |-> order[
           IF i \in to..(to + n - 1) THEN from + i - to
           ELSE IF i \in from..(from + n - 1) THEN to + i - from ELSE i]]
      /\ active' = A \cup {x}
      /\ UNCHANGED <<queue, inflight_spawns, futures>>
  BY DEF Merge, LowsFrom
<1>3. half.hi = Half(t)
  BY <1>2, OneBegins DEF HalfOf
<1>4. /\ t.lo \in Int /\ t.hi \in Int /\ half.hi \in Int /\ t.lo <= half.hi /\ half.hi <= t.hi
      /\ t.lo..t.hi \subseteq DataRows
      /\ half.left \in 0..(half.hi - t.lo + 1) /\ lows \in 0..(t.hi - half.hi)
      /\ highs = half.hi - t.lo + 1 - half.left
  <2>1. Size(t) >= 4 /\ t.right \in 0..(t.hi - Half(t)) /\ half.left \in 0..Size(half)
    BY <1>1, <1>2 DEF TaskOK, Waiting
  <2>2. /\ t.lo \in Int /\ t.hi \in Int /\ half.hi \in Int /\ t.lo <= Half(t) /\ Half(t) < t.hi
        /\ t.lo..t.hi \subseteq DataRows /\ Size(half) = half.hi - half.lo + 1
    BY <1>1, <2>1, TaskFacts
  <2> QED BY <1>2, <1>3, <2>1, <2>2
<1>5. Table(order')
  <2>1. PICK N \in Nat : DataRows = 1..N
    BY DEF InputOK
  <2>2. 1 <= t.lo /\ t.hi <= N
    BY <1>4, <2>1
  <2>3. /\ n \in Int /\ from \in Int /\ to \in Int /\ 0 <= n
        /\ 1 <= to /\ to + n <= from /\ from + n - 1 <= N
    BY <1>2, <1>4, <2>2
  <2> DEFINE s == Swap(N, to, from, n)
  <2>4. order' = [i \in DataRows |-> order[s[i]]]
    BY <1>1, <1>2, <2>1 DEF Table, Swap
  <2> HIDE DEF n, from, to
  <2>5. s \in [1..N -> 1..N] /\ IsInjective(s)
    BY <2>3, Swapped
  <2> HIDE DEF s
  <2>6. Table([i \in DataRows |-> order[s[i]]])
    BY <1>1, <2>1, <2>5, Exchanged
  <2> QED BY <1>1, <2>4, <2>6 DEF Table
<1>6. SameTask(x, t, "divided") /\ x.left = half.left + lows
  <2>1. t \in Tasks /\ "divided" \in Phases /\ half.left + lows \in Int
    BY <1>1, <1>4 DEF TaskOK, Phases
  <2> QED BY <2>1 DEF Tasks, SameTask
<1> HIDE DEF n, from, to, x
<1>7. TaskOK(x)
  <2>1. x.left \in 0..Size(x)
    <3>1. Size(x) = t.hi - t.lo + 1
      BY <1>6 DEF SameTask, Size
    <3> QED BY <1>4, <1>6, <3>1
  <2> QED BY <1>1, <1>2, <1>6, <2>1 DEF TaskOK, SameTask, Waiting
<1>8. \A u \in A : Apart(u, t) \/ Apart(t, u)
  <2> SUFFICES ASSUME NEW u \in A, HalfOf(u, t) PROVE FALSE
    BY <1>2 DEF Separate, HalfOf
  <2>1. u # half /\ u.kind = "half" /\ u.lo = half.lo /\ half \in active \cup Range(queue)
    BY <1>2 DEF HalfOf
  <2> QED BY <1>2, <2>1, OneBegins DEF HalfOf
<1>9. \A i \in DOMAIN queue : Apart(queue[i], t)
  <2> SUFFICES ASSUME NEW i \in DOMAIN queue, HalfOf(queue[i], t) PROVE FALSE
    BY DEF Separate
  <2>1. queue[i].kind = "half" /\ queue[i].lo = half.lo /\ queue[i].phase = "begin"
    BY <1>2 DEF HalfOf, TasksOK, QueueOK
  <2>2. queue[i] # half /\ queue[i] \in active \cup Range(queue)
    BY <1>2, <2>1 DEF Range
  <2> QED BY <1>2, <2>1, <2>2, OneBegins DEF HalfOf
<1>10. \A u : (Apart(u, t) => Apart(u, x)) /\ (Apart(t, u) => Apart(x, u))
  BY <1>6 DEF SameTask, Apart
<1>11. Separate(active', queue')
  <2>1. Separate(A, queue)
    BY FewerSeparate
  <2>2. \A u \in A : (Apart(u, x) \/ Apart(x, u)) /\ (Apart(x, u) \/ Apart(u, x))
    BY <1>8, <1>10
  <2>3. \A u \in A : Apart(u, x) /\ Apart(x, u)
    BY <2>2 DEF Apart
  <2>4. \A i \in DOMAIN queue : Apart(queue[i], x)
    BY <1>9, <1>10
  <2> HIDE DEF A
  <2> QED BY <1>2, <2>1, <2>3, <2>4 DEF Separate
<1>12. TasksOK'
  BY <1>1, <1>2, <1>7 DEF TasksOK, QueueOK, TaskOK
<1>13. Charge(active', queue', inflight_spawns')
  <2>1. \A u \in active' \cup Range(queue') : u.phase # "sorting" =>
          \E v \in active \cup Range(queue) : v.phase # "sorting" /\ v.lo = u.lo
    BY <1>2, <1>6 DEF SameTask
  <2> QED BY <1>2, <2>1, ChargeKept
<1>14. FuturesOK'
  <2>1. \A u \in active' \cup Range(queue') : u.kind = "sort" /\ u.by = "pool" =>
          \E v \in active \cup Range(queue) :
            v.kind = "sort" /\ v.by = "pool" /\ v.lo = u.lo /\ v.hi = u.hi
    BY <1>2, <1>6 DEF SameTask
  <2> QED BY <1>2, <2>1 DEF FuturesOK, Submitted
<1>15. InputOK' /\ OrderOK'
  BY <1>1, <1>5 DEF InputOK, OrderOK, Table
<1> QED BY <1>11, <1>12, <1>13, <1>14, <1>15

LEMMA SortPartStep ==
  ASSUME QuicksortOK, UNCHANGED cmd, NEW t \in active, SortPart(t)
  PROVE  QuicksortOK'
<1>1. TaskOK(t) /\ Table(order) /\ InputOK /\ DataRows' = DataRows
  BY DEF QuicksortOK, TasksOK, OrderOK, DataRows
<1>2. t.lo \in DataRows /\ t.hi \in DataRows /\ t.lo..t.hi \subseteq DataRows
  BY <1>1, TaskFacts DEF TaskOK
<1>3. Table(order')
  <2>1. PICK o \in Arrangements(t.lo, t.hi) : order' = o
    BY DEF SortPart, SortInto
  <2> QED BY <1>1, <1>2, <2>1, ArrangedIsTable
<1>4. active' = active \ {t} /\ UNCHANGED <<queue, inflight_spawns, futures>>
  BY DEF SortPart, Gone
<1> QED BY <1>1, <1>3, <1>4, GoneStep

LEMMA ThrowStep ==
  ASSUME QuicksortOK, UNCHANGED cmd, NEW t \in active, Throw(t)
  PROVE  QuicksortOK'
<1>1. Table(order) /\ DataRows' = DataRows
  BY DEF QuicksortOK, OrderOK, DataRows
<1>2. active' = active \ {t} /\ UNCHANGED <<order, queue, inflight_spawns, futures>>
  BY DEF Throw, Gone
<1>3. Table(order')
  BY <1>1, <1>2 DEF Table
<1> QED BY <1>1, <1>2, <1>3, GoneStep

LEMMA QuicksortStep ==
  ASSUME QuicksortOK, UNCHANGED cmd, Quicksort
  PROVE  QuicksortOK'
<1>1. CASE Run
  BY <1>1, RunStep
<1>2. ASSUME NEW t \in active,
             \/ Partition(t) \/ AskForHelp(t) \/ OwnHalf(t) \/ OtherHalf(t) \/ Spawn(t) \/ Notify(t)
             \/ SortPart(t) \/ Throw(t) \/ \E half \in active : Merge(t, half)
      PROVE  QuicksortOK'
  <2>1. CASE Partition(t)
    BY <2>1, PartitionStep
  <2>2. CASE AskForHelp(t)
    BY <2>2, AskForHelpStep
  <2>3. CASE OwnHalf(t)
    BY <2>3, OwnHalfStep
  <2>4. CASE OtherHalf(t)
    BY <2>4, OtherHalfStep
  <2>5. CASE Spawn(t)
    BY <2>5, SpawnStep
  <2>6. CASE Notify(t)
    BY <2>6, NotifyStep
  <2>7. CASE SortPart(t)
    BY <2>7, SortPartStep
  <2>8. CASE Throw(t)
    BY <2>8, ThrowStep
  <2>9. CASE \E half \in active : Merge(t, half)
    BY <2>9, MergeStep
  <2> QED BY <1>2, <2>1, <2>2, <2>3, <2>4, <2>5, <2>6, <2>7, <2>8, <2>9
<1> QED BY <1>1, <1>2 DEF Quicksort

\* No task sorts before it is taken up.
LEMMA QueuedBegin ==
  ASSUME QueueOK(queue), \A t \in Range(queue) : t.phase = "sorting"
  PROVE  queue = <<>>
<1> SUFFICES ASSUME queue # <<>> PROVE FALSE
  OBVIOUS
<1>1. queue \in Seq(Tasks) /\ \A i \in DOMAIN queue : queue[i].phase = "begin"
  BY DEF QueueOK
<1>2. 1 \in DOMAIN queue
  BY <1>1, EmptySeq, LenProperties
<1> QED BY <1>1, <1>2 DEF Range

\* Once the wait is over the only steps are those of the tasks that sort.
LEMMA CollectingStep ==
  ASSUME QuicksortOK, CallerOK, Quicksort, at = "collecting"
  PROVE  /\ active' \subseteq active /\ UNCHANGED <<queue, futures>> /\ queue = <<>>
<1>1. \A t \in active \cup Range(queue) : t.phase = "sorting"
  BY DEF CallerOK
<1>2. queue = <<>>
  BY <1>1, QueuedBegin DEF QuicksortOK, TasksOK
<1>3. PICK t \in active :
        \/ Partition(t) \/ AskForHelp(t) \/ OwnHalf(t) \/ OtherHalf(t) \/ Spawn(t) \/ Notify(t)
        \/ SortPart(t) \/ Throw(t) \/ \E half \in active : Merge(t, half)
  BY <1>2 DEF Quicksort, Run
<1>4. t.phase = "sorting"
  BY <1>1
<1>5. SortPart(t) \/ Throw(t)
  BY <1>3, <1>4 DEF Partition, AskForHelp, OwnHalf, OtherHalf, Spawn, Notify, Merge, Divides,
                    Partitioned
<1>6. active' = active \ {t} /\ UNCHANGED <<queue, futures>>
  BY <1>5 DEF SortPart, Throw, Gone
<1> QED BY <1>2, <1>6

LEMMA SortPartsStep ==
  ASSUME QuicksortOK, CallerOK, SortParts
  PROVE  QuicksortOK' /\ CallerOK'
<1>1. /\ at \in {"sorting", "collecting"} /\ Quicksort /\ UNCHANGED cmd
      /\ at' = at /\ collected' = collected
  BY DEF SortParts
<1>2. QuicksortOK'
  BY <1>1, QuicksortStep
<1>3. CASE at = "sorting"
  <2>1. at' = "sorting" /\ collected' = 0
    BY <1>1, <1>3 DEF CallerOK
  <2> QED BY <1>2, <2>1 DEF CallerOK
<1>4. CASE at = "collecting"
  <2>1. active' \subseteq active /\ queue' = queue /\ futures' = futures
    BY <1>1, <1>4, CollectingStep
  <2>2. at' = "collecting"
    BY <1>1, <1>4
  <2>3. collected' \in Nat
    BY <1>1 DEF CallerOK
  <2>4. \A t \in active' \cup Range(queue') : t.phase = "sorting" /\ t.by = "pool"
    BY <1>4, <2>1 DEF CallerOK
  <2>5. \A i \in 1..collected' : \A t \in active' : <<t.lo, t.hi>> # futures'[i]
    BY <1>1, <1>4, <2>1 DEF CallerOK
  <2> QED BY <1>2, <2>2, <2>3, <2>4, <2>5 DEF CallerOK
<1> QED BY <1>1, <1>2, <1>3, <1>4

-------------------------------------------------------------------------------
(* The steps of the caller.                                                   *)

LEMMA QuicksortKept ==
  ASSUME QuicksortOK, UNCHANGED <<cmd, order, active, queue, inflight_spawns, futures>>
  PROVE  QuicksortOK'
<1>1. DataRows' = DataRows
  BY DEF DataRows
<1> QED BY <1>1 DEF QuicksortOK, InputOK, OrderOK, Table, TasksOK, TaskOK, QueueOK, Separate,
                    Charge, Charged, FuturesOK, Submitted

\* The rows before they are sorted.
LEMMA RowsInPlace ==
  ASSUME InputOK, DataRows # {}, NEW o, o = [i \in DataRows |-> i]
  PROVE  /\ Table(o)
         /\ 1 \in DataRows /\ Len(o) \in DataRows /\ Len(o) >= 1 /\ 1..Len(o) = DataRows
<1>1. PICK n \in Nat : DataRows = 1..n
  BY DEF InputOK
<1>2. n >= 1
  BY <1>1
<1>3. Table(o)
  BY DEF Table, IsInjective
<1>4. o \in Seq(Int) /\ DOMAIN o = 1..n
  BY <1>1
<1>5. Len(o) \in Nat /\ 1..Len(o) = 1..n
  BY <1>4, LenProperties
<1>6. Len(o) = n
  BY <1>2, <1>5
<1> QED BY <1>1, <1>2, <1>3, <1>6

LEMMA SortingStep ==
  ASSUME QuicksortOK, CallerOK, Sorting
  PROVE  QuicksortOK' /\ CallerOK'
<1>1. /\ at = "typifying" /\ cmd' = cmd /\ collected' = collected /\ order' = [i \in DataRows |-> i]
      /\ \/ at' = "sorting" /\ QuicksortStart
         \/ at' = "sorting alone" /\ UNCHANGED <<queue, active, inflight_spawns, futures>>
  BY DEF Sorting, Goto, QuicksortStart
<1>2. /\ DataRows' = DataRows /\ DataRows # {} /\ collected = 0 /\ active = {} /\ queue = <<>>
      /\ InputOK /\ TasksOK /\ FuturesOK /\ Charge(active, queue, inflight_spawns)
  BY <1>1 DEF CallerOK, Nobody, DataRows, QuicksortOK
<1>3. /\ Table(order')
      /\ 1 \in DataRows /\ Len(order') \in DataRows /\ Len(order') >= 1 /\ 1..Len(order') = DataRows
  BY <1>1, <1>2, RowsInPlace
<1>4. InputOK' /\ OrderOK'
  BY <1>2, <1>3 DEF InputOK, OrderOK, Table
<1>5. Separate({}, <<>>) /\ QueueOK(<<>>) /\ Range(<<>>) = {}
  BY <1>2, NobodyHolds DEF Range
<1>6. CASE at' = "sorting alone" /\ UNCHANGED <<queue, active, inflight_spawns, futures>>
  <2>1. TasksOK' /\ FuturesOK' /\ Charge(active', queue', inflight_spawns')
        /\ Separate(active', queue')
    BY <1>2, <1>5, <1>6 DEF TasksOK, QueueOK, TaskOK, FuturesOK, Submitted, Charge, Charged
  <2>2. Table(order)'
    BY <1>2, <1>3 DEF Table
  <2>3. CallerOK'
    BY <1>1, <1>2, <1>6, <2>2 DEF CallerOK, Nobody
  <2> QED BY <1>4, <2>1, <2>3 DEF QuicksortOK
<1>7. CASE at' = "sorting" /\ QuicksortStart
  <2> DEFINE n == Len(order')
             x == Task("sort", 1, n, 0)
             t == [x EXCEPT !.by = "caller"]
  <2>1. active' = {t} /\ inflight_spawns' = 1 /\ UNCHANGED <<queue, futures>>
    BY <1>7 DEF QuicksortStart
  <2>2. /\ t \in Tasks /\ t.kind = "sort" /\ t.lo = 1 /\ t.hi = Len(order')
        /\ t.phase = "begin" /\ t.by = "caller"
    <3>1. n \in Int
      BY <1>2, <1>3 DEF InputOK
    <3> HIDE DEF n
    <3>2. x \in Tasks /\ x.kind = "sort" /\ x.lo = 1 /\ x.hi = n /\ x.phase = "begin"
      BY <3>1 DEF Task, Tasks, Phases
    <3> HIDE DEF x
    <3> QED BY <3>2 DEF Tasks, n
  <2> HIDE DEF t
  <2>3. TaskOK(t)
    BY <1>3, <2>2 DEF TaskOK, Waiting
  <2>4. TasksOK'
    BY <1>2, <1>5, <2>1, <2>3 DEF TasksOK, QueueOK, TaskOK
  <2>5. Separate(active', queue')
    BY <1>2, <1>5, <2>1 DEF Separate
  <2>6. Charge(active', queue', inflight_spawns')
    <3>1. Charged(active', queue') = {1}
      BY <1>2, <1>5, <2>1, <2>2 DEF Charged
    <3>2. IsFiniteSet({1}) /\ Cardinality({1}) = 1
      BY FS_Singleton
    <3> QED BY <2>1, <3>1, <3>2 DEF Charge
  <2>7. FuturesOK'
    BY <1>2, <1>5, <2>1, <2>2 DEF FuturesOK, Submitted
  <2>8. CallerOK'
    BY <1>1, <1>2, <1>7 DEF CallerOK
  <2> QED BY <1>4, <2>4, <2>5, <2>6, <2>7, <2>8 DEF QuicksortOK
<1> QED BY <1>1, <1>6, <1>7

LEMMA SortAloneStep ==
  ASSUME QuicksortOK, CallerOK, SortAlone
  PROVE  QuicksortOK' /\ CallerOK'
<1>1. /\ at = "sorting alone" /\ cmd' = cmd /\ collected' = collected
      /\ UNCHANGED <<queue, active, inflight_spawns, futures>>
      /\ \/ at' = "failed" /\ order' = order
         \/ at' = "printing" /\ SortInto(1, Len(order))
  BY DEF SortAlone, Goto
<1>2. /\ Nobody /\ Table(order) /\ DataRows # {} /\ InputOK /\ DataRows' = DataRows
      /\ collected \in Nat
  BY <1>1 DEF CallerOK, QuicksortOK, DataRows
<1>3. Table(order')
  <2>1. CASE order' = order
    BY <1>2, <2>1 DEF Table
  <2>2. CASE SortInto(1, Len(order))
    <3>1. PICK n \in Nat : DataRows = 1..n
      BY <1>2 DEF InputOK
    <3>2. order \in Seq(DataRows) /\ DOMAIN order = 1..n
      BY <1>2, <3>1 DEF Table
    <3>3. Len(order) = n /\ n >= 1
      BY <1>2, <3>1, <3>2, LenProperties
    <3>4. 1 \in DataRows /\ Len(order) \in DataRows /\ 1..Len(order) \subseteq DataRows
      BY <3>1, <3>3
    <3>5. PICK o \in Arrangements(1, Len(order)) : order' = o
      BY <2>2 DEF SortInto
    <3> QED BY <1>2, <3>4, <3>5, ArrangedIsTable
  <2> QED BY <1>1, <2>1, <2>2
<1>4. QuicksortOK'
  <2>1. InputOK' /\ OrderOK'
    BY <1>2, <1>3 DEF InputOK, OrderOK, Table
  <2> QED BY <1>1, <1>2, <2>1
          DEF QuicksortOK, TasksOK, TaskOK, QueueOK, Separate, Charge, Charged, FuturesOK, Submitted
<1>5. CallerOK'
  BY <1>1, <1>2 DEF CallerOK, Nobody
<1> QED BY <1>4, <1>5

\* The wait is over: nobody can make another task.
LEMMA WaitedStep ==
  ASSUME QuicksortOK, CallerOK, Waited
  PROVE  CallerOK'
<1>1. /\ at = "sorting" /\ at' = "collecting" /\ inflight_spawns = 0
      /\ \A t \in active : t.by # "caller"
      /\ collected' = collected /\ active' = active /\ queue' = queue
  BY DEF Waited, Goto, sortVars, quicksortVars
<1>2. collected = 0
  BY <1>1 DEF CallerOK
<1>3. \A t \in active \cup Range(queue) : t.phase = "sorting"
  BY <1>1, ChargeNone DEF QuicksortOK
<1>4. \A t \in active : t.by = "pool"
  BY <1>1 DEF QuicksortOK, TasksOK, TaskOK, Tasks
<1>5. \A t \in Range(queue) : t.by = "pool"
  BY DEF QuicksortOK, TasksOK, QueueOK, Range
<1>6. \A i \in 1..collected' : FALSE
  BY <1>1, <1>2
<1>7. \A t \in active' \cup Range(queue') : t.phase = "sorting" /\ t.by = "pool"
  BY <1>1, <1>3, <1>4, <1>5
<1> QED BY <1>1, <1>2, <1>6, <1>7 DEF CallerOK

\* A part whose future was asked for has ended.
LEMMA CollectStep ==
  ASSUME QuicksortOK, CallerOK, Collect
  PROVE  CallerOK'
<1>1. /\ at = "collecting" /\ ~Pending(futures[collected + 1])
      /\ active' = active /\ queue' = queue /\ futures' = futures
      /\ \/ at' \in {"undefined", "failed"} /\ collected' = collected
         \/ at' = at /\ collected' = collected + 1
  BY DEF Collect, Abandon, Goto, quicksortVars
<1>2. /\ collected \in Nat
      /\ \A t \in active \cup Range(queue) : t.phase = "sorting" /\ t.by = "pool"
      /\ \A i \in 1..collected : \A t \in active : <<t.lo, t.hi>> # futures[i]
  BY <1>1 DEF CallerOK
<1>3. CASE at' \in {"undefined", "failed"} /\ collected' = collected
  BY <1>2, <1>3 DEF CallerOK
<1>4. CASE at' = at /\ collected' = collected + 1
  <2>1. \A t \in active : t.kind = "sort"
    BY <1>2 DEF QuicksortOK, TasksOK, TaskOK, Tasks
  <2>2. \A t \in active : <<t.lo, t.hi>> # futures[collected + 1]
    BY <1>1, <2>1 DEF Pending
  <2>3. \A i \in 1..(collected + 1) : \A t \in active : <<t.lo, t.hi>> # futures[i]
    BY <1>2, <2>2
  <2>4. collected' \in Nat
    BY <1>2, <1>4
  <2>5. \A t \in active' \cup Range(queue') : t.phase = "sorting" /\ t.by = "pool"
    BY <1>1, <1>2
  <2>6. \A i \in 1..collected' : \A t \in active' : <<t.lo, t.hi>> # futures'[i]
    BY <1>1, <1>4, <2>3
  <2>7. at' = "collecting"
    BY <1>1, <1>4
  <2> QED BY <2>4, <2>5, <2>6, <2>7 DEF CallerOK
<1> QED BY <1>1, <1>3, <1>4

\* When every future was asked for nobody is at work.
LEMMA SortedStep ==
  ASSUME QuicksortOK, CallerOK, Sorted
  PROVE  CallerOK'
<1>1. /\ at = "collecting" /\ at' = "printing" /\ collected = Len(futures)
      /\ collected' = collected /\ active' = active /\ queue' = queue
  BY DEF Sorted, Goto, sortVars, quicksortVars
<1>2. /\ collected \in Nat
      /\ \A t \in active \cup Range(queue) : t.phase = "sorting" /\ t.by = "pool"
      /\ \A i \in 1..collected : \A t \in active : <<t.lo, t.hi>> # futures[i]
  BY <1>1 DEF CallerOK
<1>3. queue = <<>>
  BY <1>2, QueuedBegin DEF QuicksortOK, TasksOK
<1>4. active = {}
  <2> SUFFICES ASSUME NEW t \in active PROVE FALSE
    OBVIOUS
  <2>1. t.kind = "sort" /\ t.by = "pool"
    BY <1>2 DEF QuicksortOK, TasksOK, TaskOK, Tasks
  <2>2. futures \in Seq(Int \X Int) /\ <<t.lo, t.hi>> \in Range(futures)
    BY <2>1 DEF QuicksortOK, FuturesOK, Submitted
  <2>3. DOMAIN futures = 1..collected
    BY <1>1, <2>2, LenProperties
  <2>4. PICK i \in 1..collected : <<t.lo, t.hi>> = futures[i]
    BY <2>2, <2>3 DEF Range
  <2> QED BY <1>2, <2>4
<1> QED BY <1>1, <1>2, <1>3, <1>4 DEF CallerOK, Nobody

\* Steps that leave the tasks alone.
LEMMA ElsewhereStep ==
  ASSUME QuicksortOK, CallerOK,
         SortNames \/ SortRejected \/ SortStart \/ SortTypes \/ SortRow \/ SortRowThrows \/ SortEnd
           \/ CallerThrows
  PROVE  QuicksortOK' /\ CallerOK'
<1>1. /\ UNCHANGED <<cmd, order, active, queue, inflight_spawns, futures>> /\ collected' = collected
      /\ \/ at' = at /\ at \in {"typifying", "printing"}
         \/ at \in {"start", "printing"} /\ at' = "done"
         \/ at' \in {"failed", "rejected", "undefined"}
         \/ at = "start" /\ at' = "typifying" /\ DataRows # {}
  <2>1. CASE SortNames
    BY <2>1 DEF SortNames, Goto, sortVars, quicksortVars
  <2>2. CASE SortRejected
    BY <2>2 DEF SortRejected, Goto, sortVars, quicksortVars
  <2>3. CASE SortStart
    BY <2>3 DEF SortStart, Goto, quicksortVars
  <2>4. CASE SortTypes
    BY <2>4 DEF SortTypes, sortVars, quicksortVars
  <2>5. CASE SortRow
    BY <2>5 DEF SortRow, RowToShow, quicksortVars
  <2>6. CASE SortRowThrows
    BY <2>6 DEF SortRowThrows, Goto, sortVars, quicksortVars
  <2>7. CASE SortEnd
    BY <2>7 DEF SortEnd, Goto, sortVars, quicksortVars
  <2>8. CASE CallerThrows
    BY <2>8 DEF CallerThrows, Abandon, Goto, sortVars, quicksortVars
  <2> QED BY <2>1, <2>2, <2>3, <2>4, <2>5, <2>6, <2>7, <2>8
<1>2. QuicksortOK'
  BY <1>1, QuicksortKept
<1>3. DataRows' = DataRows
  BY <1>1 DEF DataRows
<1>4. CallerOK'
  BY <1>1, <1>3 DEF CallerOK, Nobody
<1> QED BY <1>2, <1>4

LEMMA SortStep == SortInv /\ [SortNext]_<<toolVars, typifyVars, sortVars>> => SortInv'
<1> SUFFICES ASSUME SortInv, [SortNext]_<<toolVars, typifyVars, sortVars>>, cmd'.tool = "sort"
             PROVE  QuicksortOK' /\ CallerOK'
  BY DEF SortInv
<1>1. cmd' = cmd
  BY DEF SortNext, toolVars, SortNames, SortRejected, SortStart, SortTypes, Sorting, SortAlone,
         SortParts, CallerThrows, Abandon, Waited, Collect, Sorted, SortRow, SortRowThrows, SortEnd,
         Goto
<1>2. QuicksortOK /\ CallerOK
  BY <1>1 DEF SortInv
<1>3. CASE \/ SortNames \/ SortRejected \/ SortStart \/ SortTypes \/ SortRow \/ SortRowThrows
           \/ SortEnd \/ CallerThrows
  BY <1>2, <1>3, ElsewhereStep
<1>4. CASE Sorting
  BY <1>2, <1>4, SortingStep
<1>5. CASE SortAlone
  BY <1>2, <1>5, SortAloneStep
<1>6. CASE SortParts
  BY <1>2, <1>6, SortPartsStep
<1>7. CASE Waited \/ Collect \/ Sorted
  <2>1. UNCHANGED <<cmd, order, active, queue, inflight_spawns, futures>>
    BY <1>1, <1>7 DEF Waited, Collect, Sorted, sortVars, quicksortVars
  <2>2. QuicksortOK'
    BY <1>2, <2>1, QuicksortKept
  <2>3. CallerOK'
    BY <1>2, <1>7, WaitedStep, CollectStep, SortedStep
  <2> QED BY <2>2, <2>3
<1>8. CASE UNCHANGED <<toolVars, typifyVars, sortVars>>
  <2>1. /\ UNCHANGED <<cmd, order, active, queue, inflight_spawns, futures>>
        /\ at' = at /\ collected' = collected
    BY <1>8 DEF toolVars, sortVars, quicksortVars
  <2>2. QuicksortOK'
    BY <1>2, <2>1, QuicksortKept
  <2>3. DataRows' = DataRows
    BY <2>1 DEF DataRows
  <2>4. CallerOK'
    BY <1>2, <2>1, <2>3 DEF CallerOK, Nobody, Table
  <2> QED BY <2>2, <2>4
<1> QED BY <1>3, <1>4, <1>5, <1>6, <1>7, <1>8 DEF SortNext

-------------------------------------------------------------------------------
(* What a command line has for csvSort.                                       *)

Asked == \E tool \in DOMAIN Commands : cmd \in Commands[tool]

LEMMA AskedFacts ==
  ASSUME Asked, cmd.tool = "sort"
  PROVE  /\ cmd.names \in Seq(STRING) /\ AreIds(cmd.ids)
         /\ \A c \in DataColumns : DOMAIN cmd.cells[c] = DataRows /\ \A r \in DataRows : Text(c, r) \in Texts
         /\ cmd.names # <<>> /\ cmd.cells # <<>> => DataColumns = DOMAIN cmd.names
         /\ DataRows # {} => cmd.cells # <<>> /\ 1 \in DataColumns
<1>1. /\ cmd.names \in Seq(STRING) /\ AreIds(cmd.ids) /\ cmd.cells \in Seq(Seq(Texts))
      /\ \A c \in DOMAIN cmd.cells : Len(cmd.cells[c]) = Len(cmd.cells[1])
      /\ cmd.names # <<>> /\ cmd.cells # <<>> => Len(cmd.cells) = Len(cmd.names)
  BY SortAssumption DEF Asked
<1>2. /\ DataColumns = 1..Len(cmd.cells) /\ Len(cmd.cells) \in Nat
      /\ DOMAIN cmd.names = 1..Len(cmd.names)
      /\ cmd.cells # <<>> => 1 \in DataColumns
  BY <1>1, LenProperties, EmptySeq DEF DataColumns
<1>3. \A c \in DataColumns : cmd.cells[c] \in Seq(Texts)
  BY <1>1, <1>2, ElementOfSeq
<1>4. \A c \in DataColumns :
        DOMAIN cmd.cells[c] = 1..Len(cmd.cells[c]) /\ \A r \in DOMAIN cmd.cells[c] : cmd.cells[c][r] \in Texts
  BY <1>3, LenProperties, ElementOfSeq
<1>5. \A c \in DataColumns : DOMAIN cmd.cells[c] = DataRows
  <2> TAKE c \in DataColumns
  <2>1. cmd.cells # <<>> /\ 1 \in DataColumns
    BY <1>2, EmptySeq
  <2> QED BY <1>1, <1>2, <1>4, <2>1 DEF DataRows, DataColumns
<1>6. DataRows # {} => cmd.cells # <<>>
  BY DEF DataRows
<1> QED BY <1>1, <1>2, <1>4, <1>5, <1>6 DEF Text

-------------------------------------------------------------------------------
(* The types csvSort finds.                                                   *)

Working == {"typifying", "sorting alone", "sorting", "collecting", "printing"}
TypifyOK ==
  /\ Asked
  /\ at = "start" => types = <<>>
  /\ at \in Working => types # <<>>
  /\ types # <<>> =>
       /\ DataColumns # {} /\ FilledWith(cmd.cells)
       /\ at = "typifying" \/ ~cmd.no_inference => TypesFound(cmd.cells)
       /\ at # "typifying" => TypesSettled(cmd.cells)
TypifyInv == cmd.tool = "sort" => TypifyOK

\* The invariant after a step, from what is known of the columns given.
LEMMA TypifyGoesOn ==
  ASSUME Asked, UNCHANGED cmd, DataColumns # {}, NEW given, given = cmd.cells, FilledWith(given)',
         at' # "start", at' = "typifying" \/ ~cmd.no_inference => TypesFound(given)',
         at' # "typifying" => TypesSettled(given)'
  PROVE  TypifyOK'
<1>1. Asked' /\ DataColumns' = DataColumns
  BY DEF Asked, DataColumns
<1>2. given = cmd'.cells /\ DOMAIN given = DataColumns
  BY DEF DataColumns
<1>3. types' # <<>>
  <2>1. DOMAIN <<>> = {} /\ DOMAIN types' = DOMAIN given
    BY DEF FilledWith
  <2> QED BY <1>2, <2>1
<1>4. FilledWith(cmd.cells)'
  BY <1>2 DEF FilledWith, ColumnOK, Blanks, Wordless, AllFit
<1>5. at' = "typifying" \/ ~cmd.no_inference => TypesFound(cmd.cells)'
  BY <1>2 DEF TypesFound, TypeFound, Wordless, FirstToFit, AllFit
<1>6. at' # "typifying" => TypesSettled(cmd.cells)'
  BY <1>2 DEF TypesSettled
<1> QED BY <1>1, <1>3, <1>4, <1>5, <1>6 DEF TypifyOK

LEMMA SortTypesStep ==
  ASSUME TypifyOK, InputOK, SortTypes
  PROVE  TypifyOK'
<1>1. at = "typifying" /\ at' = at /\ cmd' = cmd /\ TryTypes
  BY DEF SortTypes
<1>g. PICK given : given = cmd.cells
  OBVIOUS
<1>2. Asked /\ DataColumns # {} /\ FilledWith(given) /\ TypesFound(given)
  BY <1>1, <1>g DEF TypifyOK, Working
<1>3. FilledWith(given)' /\ TypesFound(given)'
  BY <1>1, <1>2, TypesTried
<1> QED BY <1>1, <1>2, <1>3, <1>g, TypifyGoesOn

LEMMA SortStartStep ==
  ASSUME TypifyOK, cmd.tool = "sort", SortStart
  PROVE  TypifyOK'
<1>1. at' = "typifying" /\ cmd' = cmd /\ DataRows # {} /\ TypifyStart(cmd.cells)
  BY DEF SortStart, Goto
<1>g. PICK given : given = cmd.cells
  OBVIOUS
<1>2. Asked /\ DataColumns # {} /\ \A c \in DOMAIN given : \A r \in DataRows : given[c][r] \in Texts
  BY <1>1, <1>g, AskedFacts DEF TypifyOK, DataColumns, Text
<1>3. FilledWith(given)' /\ TypesFound(given)'
  BY <1>1, <1>2, <1>g, TableFilled
<1> QED BY <1>1, <1>2, <1>3, <1>g, TypifyGoesOn

LEMMA TypifiedStep ==
  ASSUME TypifyOK, Sorting
  PROVE  TypifyOK'
<1>1. at = "typifying" /\ at' \in {"sorting", "sorting alone"} /\ cmd' = cmd /\ TypifyEnd
  BY DEF Sorting, Goto
<1>g. PICK given : given = cmd.cells
  OBVIOUS
<1>2. Asked /\ DataColumns # {} /\ FilledWith(given) /\ TypesFound(given)
  BY <1>1, <1>g DEF TypifyOK, Working
<1>3. FilledWith(given)' /\ TypesSettled(given)' /\ (~cmd.no_inference => TypesFound(given)')
  BY <1>1, <1>2, TypesEnded
<1> QED BY <1>1, <1>2, <1>3, <1>g, TypifyGoesOn

LEMMA TypifyStep == SortInv /\ TypifyInv /\ [SortNext]_<<toolVars, typifyVars, sortVars>> => TypifyInv'
<1> SUFFICES ASSUME SortInv, TypifyInv, [SortNext]_<<toolVars, typifyVars, sortVars>>, cmd'.tool = "sort"
             PROVE  TypifyOK'
  BY DEF TypifyInv
<1>1. cmd' = cmd
  BY DEF SortNext, toolVars, SortNames, SortRejected, SortStart, SortTypes, Sorting, SortAlone,
         SortParts, CallerThrows, Abandon, Waited, Collect, Sorted, SortRow, SortRowThrows, SortEnd,
         Goto
<1>2. TypifyOK /\ InputOK /\ cmd.tool = "sort"
  BY <1>1 DEF TypifyInv, SortInv, QuicksortOK
<1>3. CASE SortTypes
  BY <1>2, <1>3, SortTypesStep
<1>4. CASE SortStart
  BY <1>2, <1>4, SortStartStep
<1>5. CASE Sorting
  BY <1>2, <1>5, TypifiedStep
<1>6. CASE \/ SortNames \/ SortRejected \/ SortAlone \/ SortParts \/ CallerThrows \/ Waited \/ Collect
           \/ Sorted \/ SortRow \/ SortRowThrows \/ SortEnd \/ UNCHANGED <<toolVars, typifyVars, sortVars>>
  <2>1. /\ UNCHANGED <<table, trying, types, has_blanks>>
        /\ \/ at' = at
           \/ at \in Working \ {"typifying"} /\ at' \in Working \ {"typifying"}
           \/ at # "typifying" /\ at' \in Final
    <3>1. CASE SortNames
      BY <3>1 DEF SortNames, Goto, typifyVars, Working, Final
    <3>2. CASE SortRejected
      BY <3>2 DEF SortRejected, Goto, typifyVars, Working, Final
    <3>3. CASE SortAlone
      BY <3>3 DEF SortAlone, Goto, typifyVars, Working, Final
    <3>4. CASE SortParts
      BY <3>4 DEF SortParts, typifyVars, Working, Final
    <3>5. CASE CallerThrows
      BY <3>5 DEF CallerThrows, Abandon, Goto, typifyVars, Working, Final
    <3>6. CASE Waited
      BY <3>6 DEF Waited, Goto, typifyVars, Working, Final
    <3>7. CASE Collect
      BY <3>7 DEF Collect, Abandon, Goto, typifyVars, Working, Final
    <3>8. CASE Sorted
      BY <3>8 DEF Sorted, Goto, typifyVars, Working, Final
    <3>9. CASE SortRow
      BY <3>9 DEF SortRow, typifyVars, Working, Final
    <3>10. CASE SortRowThrows
      BY <3>10 DEF SortRowThrows, RowToShow, Goto, typifyVars, Working, Final
    <3>11. CASE SortEnd
      BY <3>11 DEF SortEnd, Goto, typifyVars, Working, Final
    <3>12. CASE UNCHANGED <<toolVars, typifyVars, sortVars>>
      BY <3>12 DEF toolVars, typifyVars, Working, Final
    <3> QED BY <1>6, <3>1, <3>2, <3>3, <3>4, <3>5, <3>6, <3>7, <3>8, <3>9, <3>10, <3>11, <3>12
  <2>2. Asked
    BY <1>2 DEF TypifyOK
  <2>3. CASE types = <<>>
    <3>1. Asked'
      BY <1>1, <2>2 DEF Asked
    <3> QED BY <1>2, <2>1, <2>3, <3>1 DEF TypifyOK, Working, Final
  <2>4. CASE types # <<>>
    <3>g. PICK given : given = cmd.cells
      OBVIOUS
    <3>1. /\ DataColumns # {} /\ FilledWith(given)
          /\ at = "typifying" \/ ~cmd.no_inference => TypesFound(given)
          /\ at # "typifying" => TypesSettled(given)
      BY <1>2, <2>4, <3>g DEF TypifyOK
    <3>2. at # "start"
      BY <1>2, <2>4 DEF TypifyOK
    <3>3. (at' = "typifying") = (at = "typifying") /\ at' # "start"
      BY <2>1, <3>2 DEF Working, Final
    <3>4. UNCHANGED <<cmd, typifyVars>>
      BY <1>1, <2>1 DEF typifyVars
    <3>5. /\ FilledWith(given)' /\ (TypesFound(given) => TypesFound(given)')
          /\ (TypesSettled(given) => TypesSettled(given)')
      BY <3>1, <3>4, TypesKept
    <3> QED BY <1>1, <2>2, <3>1, <3>3, <3>5, <3>g, TypifyGoesOn
  <2> QED BY <2>3, <2>4
<1> QED BY <1>3, <1>4, <1>5, <1>6 DEF SortNext

LEMMA TypesTold == TypifyInv => (cmd.tool = "sort" => BlanksKnown /\ TypesFit)
<1> SUFFICES ASSUME TypifyInv, cmd.tool = "sort", TypesKnown, NEW c \in DOMAIN table
             PROVE  /\ has_blanks[c] = (~cmd.blanks /\ Null \in TextsIn(c))
                    /\ TextsIn(c) \cap BooleanWords = {} => types[c] = FirstFit(TextsIn(c))
  BY DEF BlanksKnown, TypesFit
<1> QED BY ColumnTold DEF TypifyInv, TypifyOK, TypesKnown

-------------------------------------------------------------------------------
(* The order of the rows.                                                     *)

\* A blank that goes last, and a text that num() throws for.
AtEnd(c, a) == NullsLast(c) /\ Text(c, a) = Null
NotNumber(c, a) == ComparedType(c) = "number" /\ Text(c, a) \notin Numbers
Key(c, a) == Value(ComparedType(c), Text(c, a))
Flag(c, a) == IF Text(c, a) = Null THEN 1 ELSE 0

LEMMA RankIsInt ==
  ASSUME NEW text \in Texts
  PROVE  Rank(text) \in Int
<1>2. DOMAIN TextOrder = 1..12
  BY DEF TextOrder
<1>3. \E i \in 1..12 : TextOrder[i] = text
  <2>1. text \in {"", "0", "0:00:03", "0:00:07", "1", "10", "2024-01-01", "2024-01-02 03:04:05",
                  "5", "F", "T", "x"}
    BY DEF Texts, Null, Words, BooleanWords, Numbers, Deltas, Dates, Datetimes
  <2>2. /\ TextOrder[1] = "" /\ TextOrder[2] = "0" /\ TextOrder[3] = "0:00:03"
        /\ TextOrder[4] = "0:00:07" /\ TextOrder[5] = "1" /\ TextOrder[6] = "10"
        /\ TextOrder[7] = "2024-01-01" /\ TextOrder[8] = "2024-01-02 03:04:05"
        /\ TextOrder[9] = "5" /\ TextOrder[10] = "F" /\ TextOrder[11] = "T" /\ TextOrder[12] = "x"
    BY DEF TextOrder
  <2> HIDE DEF TextOrder
  <2>3. \/ TextOrder[1] = text \/ TextOrder[2] = text \/ TextOrder[3] = text \/ TextOrder[4] = text
        \/ TextOrder[5] = text \/ TextOrder[6] = text \/ TextOrder[7] = text \/ TextOrder[8] = text
        \/ TextOrder[9] = text \/ TextOrder[10] = text \/ TextOrder[11] = text
        \/ TextOrder[12] = text
    BY <2>1, <2>2
  <2>4. 1..12 = {1, 2, 3, 4, 5, 6, 7, 8, 9, 10, 11, 12}
    OBVIOUS
  <2> QED BY <2>3, <2>4
<1>4. Rank(text) \in 1..12
  BY <1>2, <1>3 DEF Rank
<1> QED BY <1>4

LEMMA KeyIsInt ==
  ASSUME NEW c, NEW a, Text(c, a) \in Texts, ~NotNumber(c, a)
  PROVE  Key(c, a) \in Int
<1> PICK text \in Texts : text = Text(c, a)
  OBVIOUS
<1> PICK type : type = ComparedType(c)
  OBVIOUS
<1>1. type = "number" => text \in Numbers
  BY DEF NotNumber
<1>2. Key(c, a) = Value(type, text)
  BY DEF Key
<1>3. CASE type = "bool"
  BY <1>2, <1>3 DEF Value
<1>4. CASE type = "number"
  <2>1. text \in Numbers /\ Key(c, a) = NumberOf[text]
    BY <1>1, <1>2, <1>4 DEF Value
  <2> QED BY <2>1 DEF NumberOf, Numbers
<1>5. CASE type \notin {"bool", "number"}
  <2>1. Key(c, a) = Rank(text)
    BY <1>2, <1>5 DEF Value
  <2> QED BY <2>1, RankIsInt
<1> QED BY <1>3, <1>4, <1>5

\* What the comparison of a column comes to.
LEMMA CompareFacts ==
  ASSUME NEW c, NEW a, NEW b
  PROVE  /\ ThrowsAt(c, a, b) <=> ~AtEnd(c, a) /\ ~AtEnd(c, b) /\ (NotNumber(c, a) \/ NotNumber(c, b))
         /\ CompareAt(c, a, b) = IF AtEnd(c, a) \/ AtEnd(c, b) THEN Sign(Flag(c, a), Flag(c, b))
                                 ELSE Sign(Key(c, a), Key(c, b))
         /\ AtEnd(c, a) => Flag(c, a) = 1
         /\ NullsLast(c) /\ ~AtEnd(c, a) => Flag(c, a) = 0
         /\ AtEnd(c, a) => NullsLast(c)
<1>1. BothShow(c, a, b) <=> ~AtEnd(c, a) /\ ~AtEnd(c, b)
  BY DEF BothShow, AtEnd
<1>2. \A text : IsNum(GetValue(Fresh(text))) <=> text \in Numbers
  BY DEF IsNum, GetValue, Fresh, Evaluated, Null, Numbers
<1>3. ThrowsAt(c, a, b) <=> ~AtEnd(c, a) /\ ~AtEnd(c, b) /\ (NotNumber(c, a) \/ NotNumber(c, b))
  BY <1>1, <1>2 DEF ThrowsAt, NotNumber
<1> QED BY <1>1, <1>3 DEF CompareAt, AtEnd, Flag, Key

\* The texts of the table are those the reader knows.
TextsOK == \A c \in DataColumns : \A a \in DataRows : Text(c, a) \in Texts

\* The comparison of a column is the other way round when the rows are.
LEMMA ColumnMirrored ==
  ASSUME TextsOK, NEW c \in DataColumns, NEW a \in DataRows, NEW b \in DataRows
  PROVE  /\ ThrowsAt(c, a, b) <=> ThrowsAt(c, b, a)
         /\ ~ThrowsAt(c, a, b) => CompareAt(c, a, b) \in {-1, 0, 1} /\ CompareAt(c, b, a) = -CompareAt(c, a, b)
<1> PICK ka, kb, fa, fb :
      ka = Key(c, a) /\ kb = Key(c, b) /\ fa = Flag(c, a) /\ fb = Flag(c, b)
  OBVIOUS
<1>1. ThrowsAt(c, a, b) <=> ~AtEnd(c, a) /\ ~AtEnd(c, b) /\ (NotNumber(c, a) \/ NotNumber(c, b))
  BY CompareFacts
<1>2. ThrowsAt(c, b, a) <=> ~AtEnd(c, a) /\ ~AtEnd(c, b) /\ (NotNumber(c, a) \/ NotNumber(c, b))
  BY CompareFacts
<1>3. CompareAt(c, a, b) = IF AtEnd(c, a) \/ AtEnd(c, b) THEN Sign(fa, fb) ELSE Sign(ka, kb)
  BY CompareFacts
<1>4. CompareAt(c, b, a) = IF AtEnd(c, a) \/ AtEnd(c, b) THEN Sign(fb, fa) ELSE Sign(kb, ka)
  BY CompareFacts
<1>5. fa \in {0, 1} /\ fb \in {0, 1}
  BY DEF Flag
<1>6. (~NotNumber(c, a) => ka \in Int) /\ (~NotNumber(c, b) => kb \in Int)
  BY KeyIsInt DEF TextsOK
<1> QED BY <1>1, <1>2, <1>3, <1>4, <1>5, <1>6 DEF Sign

\* Rows that a column does not tell apart compare with others in the same way.
LEMMA ColumnTied ==
  ASSUME TextsOK, NEW c \in DataColumns, NEW a \in DataRows, NEW p \in DataRows, NEW b \in DataRows,
         ~ThrowsAt(c, a, p), CompareAt(c, a, p) = 0
  PROVE  /\ ThrowsAt(c, a, b) <=> ThrowsAt(c, p, b)
         /\ CompareAt(c, a, b) = CompareAt(c, p, b)
<1> PICK ka, kb, fa, fb :
      ka = Key(c, a) /\ kb = Key(c, b) /\ fa = Flag(c, a) /\ fb = Flag(c, b)
  OBVIOUS
<1> PICK kp, fp : kp = Key(c, p) /\ fp = Flag(c, p)
  OBVIOUS
<1>1. \A x, y : ThrowsAt(c, x, y) <=> ~AtEnd(c, x) /\ ~AtEnd(c, y) /\ (NotNumber(c, x) \/ NotNumber(c, y))
  BY CompareFacts
<1>2. /\ CompareAt(c, a, p) = IF AtEnd(c, a) \/ AtEnd(c, p) THEN Sign(fa, fp) ELSE Sign(ka, kp)
      /\ CompareAt(c, a, b) = IF AtEnd(c, a) \/ AtEnd(c, b) THEN Sign(fa, fb) ELSE Sign(ka, kb)
      /\ CompareAt(c, p, b) = IF AtEnd(c, p) \/ AtEnd(c, b) THEN Sign(fp, fb) ELSE Sign(kp, kb)
  BY CompareFacts
<1>3. /\ AtEnd(c, a) => fa = 1 /\ NullsLast(c)
      /\ AtEnd(c, p) => fp = 1 /\ NullsLast(c)
      /\ NullsLast(c) /\ ~AtEnd(c, a) => fa = 0
      /\ NullsLast(c) /\ ~AtEnd(c, p) => fp = 0
      /\ AtEnd(c, b) => NullsLast(c)
  BY CompareFacts
<1>4. (~NotNumber(c, a) => ka \in Int) /\ (~NotNumber(c, p) => kp \in Int)
  BY KeyIsInt DEF TextsOK
<1>5. AtEnd(c, a) <=> AtEnd(c, p)
  BY <1>2, <1>3 DEF Sign
<1>6. CASE AtEnd(c, a)
  BY <1>1, <1>2, <1>3, <1>5, <1>6
<1>7. CASE ~AtEnd(c, a)
  <2>1. ~NotNumber(c, a) /\ ~NotNumber(c, p)
    BY <1>1, <1>5, <1>7
  <2>2. ka = kp
    BY <1>2, <1>4, <1>5, <1>7, <2>1 DEF Sign
  <2>3. AtEnd(c, b) => fa = fp
    BY <1>3, <1>5, <1>7
  <2> QED BY <1>1, <1>2, <1>5, <1>7, <2>1, <2>2, <2>3
<1> QED BY <1>6, <1>7

\* Rows to the two sides of a third compare as they do with it.
LEMMA ColumnBetween ==
  ASSUME TextsOK, NEW c \in DataColumns, NEW a \in DataRows, NEW p \in DataRows, NEW b \in DataRows,
         NEW s \in {-1, 1}, ~ThrowsAt(c, a, p), ~ThrowsAt(c, b, p),
         CompareAt(c, a, p) = s, CompareAt(c, b, p) = -s
  PROVE  ~ThrowsAt(c, a, b) /\ CompareAt(c, a, b) = s
<1> PICK ka, kb, kp, fa, fb, fp :
      /\ ka = Key(c, a) /\ kb = Key(c, b) /\ kp = Key(c, p)
      /\ fa = Flag(c, a) /\ fb = Flag(c, b) /\ fp = Flag(c, p)
  OBVIOUS
<1>1. \A x, y : ThrowsAt(c, x, y) <=> ~AtEnd(c, x) /\ ~AtEnd(c, y) /\ (NotNumber(c, x) \/ NotNumber(c, y))
  BY CompareFacts
<1>2. /\ s = IF AtEnd(c, a) \/ AtEnd(c, p) THEN Sign(fa, fp) ELSE Sign(ka, kp)
      /\ -s = IF AtEnd(c, b) \/ AtEnd(c, p) THEN Sign(fb, fp) ELSE Sign(kb, kp)
      /\ CompareAt(c, a, b) = IF AtEnd(c, a) \/ AtEnd(c, b) THEN Sign(fa, fb) ELSE Sign(ka, kb)
  BY CompareFacts
<1>3. /\ \A x \in {a, b, p} : AtEnd(c, x) => NullsLast(c)
      /\ AtEnd(c, a) => fa = 1
      /\ AtEnd(c, b) => fb = 1
      /\ AtEnd(c, p) => fp = 1
      /\ NullsLast(c) /\ ~AtEnd(c, a) => fa = 0
      /\ NullsLast(c) /\ ~AtEnd(c, b) => fb = 0
      /\ NullsLast(c) /\ ~AtEnd(c, p) => fp = 0
  BY CompareFacts
<1>4. (~NotNumber(c, a) => ka \in Int) /\ (~NotNumber(c, b) => kb \in Int) /\ (~NotNumber(c, p) => kp \in Int)
  BY KeyIsInt DEF TextsOK
<1>5. CASE AtEnd(c, a) \/ AtEnd(c, b) \/ AtEnd(c, p)
  <2>1. NullsLast(c) /\ fa \in {0, 1} /\ fb \in {0, 1} /\ fp \in {0, 1}
    BY <1>3, <1>5 DEF Flag
  <2>2. ~AtEnd(c, p)
    BY <1>2, <1>3, <2>1 DEF Sign
  <2> QED BY <1>1, <1>2, <1>3, <1>5, <2>1, <2>2 DEF Sign
<1>6. CASE ~AtEnd(c, a) /\ ~AtEnd(c, b) /\ ~AtEnd(c, p)
  <2>1. ~NotNumber(c, a) /\ ~NotNumber(c, b) /\ ~NotNumber(c, p)
    BY <1>1, <1>6
  <2> QED BY <1>1, <1>2, <1>4, <1>6, <2>1 DEF Sign
<1> QED BY <1>5, <1>6

\* The columns to sort by are columns of the table.
IdsOK == sort_ids \in Seq(DataColumns)

\* The first column that tells two rows apart says s.
TiedAt(k, a, b) == ~ThrowsAt(sort_ids[k], a, b) /\ CompareAt(sort_ids[k], a, b) = 0
Decided(k, a, b, s) ==
  /\ k \in DOMAIN sort_ids /\ AllTied(k, a, b)
  /\ ~ThrowsAt(sort_ids[k], a, b) /\ CompareAt(sort_ids[k], a, b) = s
Up == IF cmd.r THEN 1 ELSE -1

\* The order of two rows can be told and is the one asked for.
Settled(a, b) == ~Throws(a, b) /\ ~Less(b, a)

LEMMA IdsFacts ==
  ASSUME IdsOK
  PROVE  /\ \E n \in Nat : DOMAIN sort_ids = 1..n
         /\ \A k \in DOMAIN sort_ids :
              /\ k \in Nat /\ k >= 1 /\ sort_ids[k] \in DataColumns
              /\ 1..(k - 1) \subseteq DOMAIN sort_ids
<1>1. Len(sort_ids) \in Nat /\ DOMAIN sort_ids = 1..Len(sort_ids)
  BY LenProperties DEF IdsOK
<1>2. \A k \in DOMAIN sort_ids : sort_ids[k] \in DataColumns
  BY <1>1, ElementOfSeq DEF IdsOK
<1>3. \A k \in DOMAIN sort_ids : k \in Nat /\ k >= 1 /\ 1..(k - 1) \subseteq DOMAIN sort_ids
  BY <1>1
<1>4. \E n \in Nat : DOMAIN sort_ids = 1..n
  BY <1>1
<1> QED BY <1>2, <1>3, <1>4

LEMMA UpFacts ==
  Up \in {-1, 1} /\ -Up \in {-1, 1} /\ -(-Up) = Up /\ Up # -Up /\ Up # 0 /\ -Up # 0
<1>1. Up \in {-1, 1}
  BY DEF Up
<1> QED BY <1>1

LEMMA DecidedMirrored ==
  ASSUME TextsOK, IdsOK, NEW a \in DataRows, NEW b \in DataRows, NEW s \in {-1, 0, 1},
         NEW k, Decided(k, a, b, s)
  PROVE  Decided(k, b, a, -s)
<1>1. k \in DOMAIN sort_ids /\ k \in Nat /\ sort_ids[k] \in DataColumns
  BY IdsFacts DEF Decided
<1>2. ASSUME NEW j \in 1..(k - 1) PROVE TiedAt(j, b, a)
  <2>1. sort_ids[j] \in DataColumns /\ TiedAt(j, a, b)
    BY <1>1, IdsFacts DEF Decided, AllTied, TiedAt
  <2> QED BY <2>1, ColumnMirrored DEF TiedAt
<1>3. AllTied(k, b, a)
  BY <1>2 DEF AllTied, TiedAt
<1>4. ~ThrowsAt(sort_ids[k], b, a) /\ CompareAt(sort_ids[k], b, a) = -s
  BY <1>1, ColumnMirrored DEF Decided
<1> QED BY <1>1, <1>3, <1>4 DEF Decided

\* What is decided the other way is settled.
LEMMA DecidedSettles ==
  ASSUME TextsOK, IdsOK, NEW a \in DataRows, NEW b \in DataRows, NEW k, Decided(k, b, a, -Up)
  PROVE  Settled(a, b)
<1>1. Up \in {-1, 1} /\ -Up \in {-1, 0, 1} /\ -(-Up) = Up /\ Up # -Up /\ Up # 0 /\ -Up # 0
  BY UpFacts
<1>2. Decided(k, a, b, Up)
  BY <1>1, DecidedMirrored
<1>3. ASSUME NEW j \in DOMAIN sort_ids, AllTied(j, a, b), ThrowsAt(sort_ids[j], a, b) PROVE FALSE
  <2>1. k \in Nat /\ j \in Nat /\ j >= 1 /\ k >= 1
    BY IdsFacts DEF Decided
  <2>2. CASE j < k
    BY <1>2, <1>3, <2>1, <2>2 DEF Decided, AllTied
  <2>3. CASE j = k
    BY <1>2, <1>3, <2>3 DEF Decided
  <2>4. CASE j > k
    <3>1. k \in 1..(j - 1)
      BY <2>1, <2>4, IdsFacts DEF Decided, IdsOK
    <3>2. CompareAt(sort_ids[k], a, b) = 0 /\ CompareAt(sort_ids[k], a, b) = Up
      BY <1>2, <1>3, <3>1 DEF AllTied, Decided
    <3> QED BY <1>1, <3>2
  <2> QED BY <2>1, <2>2, <2>3, <2>4
<1>4. ASSUME NEW j \in DOMAIN sort_ids, AllTied(j, b, a), CompareAt(sort_ids[j], b, a) = Up PROVE FALSE
  <2>1. k \in Nat /\ j \in Nat /\ j >= 1 /\ k >= 1
    BY IdsFacts DEF Decided
  <2>2. CASE j < k
    <3>1. CompareAt(sort_ids[j], b, a) = 0
      BY <2>1, <2>2, IdsFacts DEF Decided, AllTied
    <3> QED BY <1>1, <1>4, <3>1
  <2>3. CASE j = k
    BY <1>1, <1>4, <2>3 DEF Decided
  <2>4. CASE j > k
    <3>1. k \in 1..(j - 1)
      BY <2>1, <2>4, IdsFacts DEF Decided, IdsOK
    <3>2. CompareAt(sort_ids[k], b, a) = 0 /\ CompareAt(sort_ids[k], b, a) = -Up
      BY <1>4, <3>1 DEF AllTied, Decided
    <3> QED BY <1>1, <3>2
  <2> QED BY <2>1, <2>2, <2>3, <2>4
<1> QED BY <1>3, <1>4 DEF Settled, Throws, Less, Up

\* When no column throws, one decides or all are tied.
LEMMA OneDecides ==
  ASSUME TextsOK, IdsOK, NEW a \in DataRows, NEW b \in DataRows, ~Throws(a, b)
  PROVE  \/ \A k \in DOMAIN sort_ids : TiedAt(k, a, b)
         \/ \E k \in DOMAIN sort_ids : Decided(k, a, b, Up)
         \/ \E k \in DOMAIN sort_ids : Decided(k, a, b, -Up)
<1> SUFFICES ASSUME ~\A k \in DOMAIN sort_ids : TiedAt(k, a, b)
             PROVE  \E k \in DOMAIN sort_ids : Decided(k, a, b, Up) \/ Decided(k, a, b, -Up)
  OBVIOUS
<1> DEFINE S == {k \in DOMAIN sort_ids : ~TiedAt(k, a, b)}
<1>1. S \in SUBSET Nat /\ S # {}
  BY IdsFacts
<1>2. PICK k \in S : \A m \in S : k <= m
  <2> HIDE DEF S
  <2> QED BY <1>1, Least
<1>3. k \in DOMAIN sort_ids /\ k \in Nat /\ sort_ids[k] \in DataColumns
      /\ 1..(k - 1) \subseteq DOMAIN sort_ids
  BY IdsFacts
<1>4. \A j \in 1..(k - 1) : TiedAt(j, a, b)
  BY <1>2, <1>3
<1>5. AllTied(k, a, b)
  BY <1>4 DEF AllTied, TiedAt
<1>6. ~ThrowsAt(sort_ids[k], a, b)
  BY <1>3, <1>5 DEF Throws
<1>7. CompareAt(sort_ids[k], a, b) \in {-1, 1}
  BY <1>3, <1>6, ColumnMirrored DEF TiedAt
<1> QED BY <1>3, <1>5, <1>6, <1>7 DEF Decided, Up

\* The smaller of two numbers says both.
LEMMA Divided ==
  ASSUME TextsOK, IdsOK, NEW a \in DataRows, NEW b \in DataRows, NEW p \in DataRows,
         ~Throws(a, p), ~Throws(b, p), Less(a, p), ~Less(b, p)
  PROVE  Settled(a, b)
<1>1. Up \in {-1, 1} /\ -(-Up) = Up
  BY UpFacts
<1>2. PICK k \in DOMAIN sort_ids : Decided(k, a, p, Up)
  <2>1. PICK k \in DOMAIN sort_ids : AllTied(k, a, p) /\ CompareAt(sort_ids[k], a, p) = Up
    BY DEF Less, Up
  <2>2. ~ThrowsAt(sort_ids[k], a, p)
    BY <2>1 DEF Throws
  <2> QED BY <2>1, <2>2 DEF Decided
<1>3. k \in Nat /\ sort_ids[k] \in DataColumns /\ 1..(k - 1) \subseteq DOMAIN sort_ids
  BY IdsFacts
\* A column that tells neither of them from the third.
<1>4. ASSUME NEW j \in DOMAIN sort_ids, TiedAt(j, a, p), TiedAt(j, b, p) PROVE TiedAt(j, b, a)
  <2> PICK c \in DataColumns : c = sort_ids[j]
    BY IdsFacts
  <2>1. ~ThrowsAt(c, p, a) /\ CompareAt(c, p, a) = 0
    BY <1>4, ColumnMirrored DEF TiedAt
  <2> QED BY <1>4, <2>1, ColumnTied DEF TiedAt
\* A column that tells only the first.
<1>5. ASSUME NEW j \in DOMAIN sort_ids, ~ThrowsAt(sort_ids[j], a, p), CompareAt(sort_ids[j], a, p) = Up,
             TiedAt(j, b, p)
      PROVE  ~ThrowsAt(sort_ids[j], b, a) /\ CompareAt(sort_ids[j], b, a) = -Up
  <2> PICK c \in DataColumns : c = sort_ids[j]
    BY IdsFacts
  <2>1. ~ThrowsAt(c, p, a) /\ CompareAt(c, p, a) = -Up
    BY <1>5, ColumnMirrored
  <2> QED BY <1>5, <2>1, ColumnTied DEF TiedAt
<1>6. CASE \A j \in DOMAIN sort_ids : TiedAt(j, b, p)
  <2>1. \A j \in 1..(k - 1) : TiedAt(j, b, a)
    BY <1>2, <1>3, <1>4, <1>6 DEF Decided, AllTied, TiedAt
  <2>2. Decided(k, b, a, -Up)
    BY <1>2, <1>5, <1>6, <2>1 DEF Decided, AllTied, TiedAt
  <2> QED BY <2>2, DecidedSettles
<1>7. CASE \E l \in DOMAIN sort_ids : Decided(l, b, p, Up)
  BY <1>7 DEF Decided, Less, Up
<1>8. ASSUME NEW l \in DOMAIN sort_ids, Decided(l, b, p, -Up) PROVE Settled(a, b)
  <2>1. l \in Nat /\ sort_ids[l] \in DataColumns /\ 1..(l - 1) \subseteq DOMAIN sort_ids
    BY IdsFacts
  <2>2. CASE k < l
    <3>1. \A j \in 1..(k - 1) : TiedAt(j, a, p) /\ TiedAt(j, b, p)
      BY <1>2, <1>3, <1>8, <2>1, <2>2 DEF Decided, AllTied, TiedAt
    <3>2. \A j \in 1..(k - 1) : TiedAt(j, b, a)
      BY <1>3, <1>4, <3>1
    <3>3. k \in 1..(l - 1)
      BY <1>3, <2>1, <2>2, IdsFacts DEF IdsOK
    <3>4. TiedAt(k, b, p)
      BY <1>8, <3>3 DEF Decided, AllTied, TiedAt
    <3>5. Decided(k, b, a, -Up)
      BY <1>2, <1>5, <3>2, <3>4 DEF Decided, AllTied, TiedAt
    <3> QED BY <3>5, DecidedSettles
  <2>3. CASE k = l
    <3>1. \A j \in 1..(k - 1) : TiedAt(j, a, p) /\ TiedAt(j, b, p)
      BY <1>2, <1>3, <1>8, <2>1, <2>3 DEF Decided, AllTied, TiedAt
    <3>2. \A j \in 1..(k - 1) : TiedAt(j, b, a)
      BY <1>3, <1>4, <3>1
    <3>3. ~ThrowsAt(sort_ids[k], b, a) /\ CompareAt(sort_ids[k], b, a) = -Up
      BY <1>1, <1>2, <1>3, <1>8, <2>3, ColumnBetween DEF Decided
    <3>4. Decided(k, b, a, -Up)
      BY <3>2, <3>3 DEF Decided, AllTied, TiedAt
    <3> QED BY <3>4, DecidedSettles
  <2>4. CASE k > l
    <3>1. \A j \in 1..(l - 1) : TiedAt(j, a, p) /\ TiedAt(j, b, p)
      BY <1>2, <1>3, <1>8, <2>1, <2>4 DEF Decided, AllTied, TiedAt
    <3>2. \A j \in 1..(l - 1) : TiedAt(j, b, a)
      BY <2>1, <1>4, <3>1
    <3>3. l \in 1..(k - 1)
      BY <1>3, <2>1, <2>4, IdsFacts DEF IdsOK
    <3>4. TiedAt(l, a, p)
      BY <1>2, <3>3 DEF Decided, AllTied, TiedAt
    <3>5. ~ThrowsAt(sort_ids[l], a, b)
          /\ CompareAt(sort_ids[l], a, b) = CompareAt(sort_ids[l], p, b)
           /\ ~ThrowsAt(sort_ids[l], p, b)
      <4>1. ~ThrowsAt(sort_ids[l], p, b)
        BY <1>8, <2>1, ColumnMirrored DEF Decided
      <4> QED BY <2>1, <3>4, <4>1, ColumnTied DEF TiedAt
    <3>6. CompareAt(sort_ids[l], p, b) = Up
      BY <1>1, <1>8, <2>1, ColumnMirrored DEF Decided
    <3>7. ~ThrowsAt(sort_ids[l], b, a) /\ CompareAt(sort_ids[l], b, a) = -Up
      BY <2>1, <3>5, <3>6, ColumnMirrored
    <3>8. Decided(l, b, a, -Up)
      BY <3>2, <3>7 DEF Decided, AllTied, TiedAt
    <3> QED BY <3>8, DecidedSettles
  <2> QED BY <1>3, <2>1, <2>2, <2>3, <2>4
<1> QED BY <1>6, <1>7, <1>8, OneDecides

\* What is said of the blanks of a column is so.
BlanksTold == \A c \in DataColumns : has_blanks[c] <=> Blanks(cmd.cells, c)

\* When it is, the functions compare as a reader would.
LEMMA WantedIs ==
  ASSUME BlanksTold, NEW c \in DataColumns, NEW a \in DataRows, NEW b \in DataRows
  PROVE  Wanted(c, a, b) = CompareAt(c, a, b)
<1>1. has_blanks[c] <=> ~cmd.blanks /\ \E r \in DataRows : Text(c, r) = Null
  BY DEF BlanksTold, Blanks, Text
<1>2. BothShow(c, a, b) <=> ~(Null \in {Text(c, a), Text(c, b)} /\ ~cmd.blanks)
  BY <1>1 DEF BothShow, NullsLast
<1>3. ComparedType(c) = IF cmd.no_inference THEN "text" ELSE types[c]
  BY <1>1 DEF ComparedType, ByText
<1>4. \A text : Value("text", text) = Rank(text)
  BY DEF Value
<1>5. CASE cmd.no_inference
  BY <1>2, <1>3, <1>4, <1>5 DEF Wanted, CompareAt
<1>6. CASE ~cmd.no_inference
  BY <1>2, <1>3, <1>6 DEF Wanted, CompareAt
<1> QED BY <1>5, <1>6

LEMMA SettledPlaced ==
  ASSUME TextsOK, IdsOK, BlanksTold, NEW a \in DataRows, NEW b \in DataRows, Settled(a, b)
  PROVE  ~Misplaced(a, b)
<1> SUFFICES ASSUME Misplaced(a, b) PROVE FALSE
  OBVIOUS
<1>1. PICK k \in DOMAIN sort_ids :
        /\ Wanted(sort_ids[k], a, b) = -Up
        /\ \A j \in 1..(k - 1) : Wanted(sort_ids[j], a, b) = 0
  BY DEF Misplaced, Up
<1>2. /\ k \in Nat /\ k >= 1 /\ sort_ids[k] \in DataColumns /\ 1..(k - 1) \subseteq DOMAIN sort_ids
      /\ \A j \in 1..(k - 1) : sort_ids[j] \in DataColumns
  BY IdsFacts
<1>3. CompareAt(sort_ids[k], a, b) = -Up /\ \A j \in 1..(k - 1) : CompareAt(sort_ids[j], a, b) = 0
  BY <1>1, <1>2, WantedIs
<1>4. \A j \in 1..k : ~ThrowsAt(sort_ids[j], a, b)
  <2> SUFFICES ASSUME NEW i \in 1..k, ThrowsAt(sort_ids[i], a, b) PROVE FALSE
    OBVIOUS
  <2> DEFINE S == {j \in 1..k : ThrowsAt(sort_ids[j], a, b)}
  <2>1. S \in SUBSET Nat /\ S # {}
    BY <1>2
  <2>2. PICK j \in S : \A m \in S : j <= m
    <3> HIDE DEF S
    <3> QED BY <2>1, Least
  <2>3. j \in 1..k /\ j \in DOMAIN sort_ids /\ ThrowsAt(sort_ids[j], a, b)
    <3>1. \A m \in 1..k : m = k \/ m \in 1..(k - 1)
      BY <1>2
    <3> QED BY <1>2, <3>1
  <2>4. \A m \in 1..(j - 1) : m \in 1..k /\ m \in 1..(k - 1) /\ ~ThrowsAt(sort_ids[m], a, b)
    BY <1>2, <2>2, <2>3
  <2>5. AllTied(j, a, b)
    BY <1>3, <2>4 DEF AllTied
  <2> QED BY <2>3, <2>5 DEF Settled, Throws
<1>5. Decided(k, a, b, -Up)
  <2>1. k \in 1..k /\ \A j \in 1..(k - 1) : j \in 1..k
    BY <1>2
  <2> QED BY <1>2, <1>3, <1>4, <2>1 DEF Decided, AllTied
<1>6. Decided(k, b, a, Up)
  <2>1. -Up \in {-1, 0, 1} /\ -(-Up) = Up
    BY UpFacts
  <2> QED BY <1>5, <2>1, DecidedMirrored
<1> QED BY <1>6 DEF Decided, Settled, Less, Up

\* The order of the rows stays what it was while they are moved.
LEMMA SameOrder ==
  ASSUME UNCHANGED <<cmd, sort_ids, types, has_blanks>>
  PROVE  /\ \A a, b : Throws(a, b)' <=> Throws(a, b)
         /\ \A a, b : Less(a, b)' <=> Less(a, b)
         /\ \A a, b : Settled(a, b)' <=> Settled(a, b)
<1>1. \A c : ComparedType(c)' = ComparedType(c) /\ NullsLast(c)' = NullsLast(c)
  BY DEF ComparedType, ByText, NullsLast
<1>2. \A c, a : Text(c, a)' = Text(c, a)
  BY DEF Text
<1>3. \A c, a, b : BothShow(c, a, b)' = BothShow(c, a, b)
  BY <1>1, <1>2 DEF BothShow, Text, NullsLast
<1>4. \A c, a, b : ThrowsAt(c, a, b)' = ThrowsAt(c, a, b)
  BY <1>1, <1>2, <1>3 DEF ThrowsAt, Text, BothShow, NullsLast, ComparedType, ByText
<1>5. \A c, a, b : CompareAt(c, a, b)' = CompareAt(c, a, b)
  BY <1>1, <1>2, <1>3 DEF CompareAt, Text, BothShow, NullsLast, ComparedType, ByText
<1>6. \A k, a, b : AllTied(k, a, b)' = AllTied(k, a, b)
  BY <1>4, <1>5 DEF AllTied, ThrowsAt, CompareAt, Text, BothShow, NullsLast, ComparedType, ByText
<1>7. \A a, b : Throws(a, b)' <=> Throws(a, b)
  BY <1>4, <1>6 DEF Throws
<1>8. \A a, b : Less(a, b)' <=> Less(a, b)
  BY <1>5, <1>6 DEF Less
<1> QED BY <1>7, <1>8 DEF Settled

\* The places a task writes are its own.
LEMMA PlacesWithin ==
  ASSUME InputOK, NEW u, TaskOK(u)
  PROVE  PlacesOf(u) \subseteq u.lo..u.hi
<1>1. u.lo \in Int /\ u.hi \in Int /\ Half(u) \in Int /\ u.lo <= Half(u)
  BY TaskFacts
<1>2. (Half(u) + 1)..u.hi \subseteq u.lo..u.hi
  BY <1>1
<1> QED BY <1>2 DEF PlacesOf

\* The places that two tasks write do not meet.
LEMMA PlacesApart ==
  ASSUME QuicksortOK, NEW t \in active \cup Range(queue), NEW u \in active \cup Range(queue), t # u
  PROVE  PlacesOf(t) \cap PlacesOf(u) = {} /\ (Apart(t, u) \/ HalfOf(t, u) \/ HalfOf(u, t))
<1> TaskOK(t) /\ TaskOK(u)
  BY DEF QuicksortOK, TasksOK, QueueOK, Range
<1>1. /\ t.lo \in Int /\ t.hi \in Int /\ Half(t) \in Int /\ t.lo <= Half(t)
      /\ u.lo \in Int /\ u.hi \in Int /\ Half(u) \in Int /\ u.lo <= Half(u)
  BY TaskFacts DEF QuicksortOK
<1>2. Apart(t, u) \/ HalfOf(t, u) \/ HalfOf(u, t)
  <2>1. CASE t \in active /\ u \in active
    BY <2>1 DEF QuicksortOK, Separate
  <2>2. CASE t \in Range(queue) /\ u \in active
    BY <2>2 DEF QuicksortOK, Separate, Range
  <2>3. CASE t \in active /\ u \in Range(queue)
    BY <2>3 DEF QuicksortOK, Separate, Range, Apart
  <2>4. CASE t \in Range(queue) /\ u \in Range(queue)
    BY <2>4 DEF QuicksortOK, Separate, Range
  <2> QED BY <2>1, <2>2, <2>3, <2>4
<1>3. PlacesOf(t) \subseteq t.lo..t.hi /\ PlacesOf(u) \subseteq u.lo..u.hi
  BY PlacesWithin DEF QuicksortOK
<1>4. CASE Apart(t, u)
  BY <1>1, <1>2, <1>3, <1>4 DEF Apart
<1>5. CASE HalfOf(t, u)
  <2>1. PlacesOf(u) = (Half(u) + 1)..u.hi
    BY <1>5 DEF PlacesOf, HalfOf, Waiting
  <2> QED BY <1>1, <1>2, <1>3, <1>5, <2>1 DEF HalfOf
<1>6. CASE HalfOf(u, t)
  <2>1. PlacesOf(t) = (Half(t) + 1)..t.hi
    BY <1>6 DEF PlacesOf, HalfOf, Waiting
  <2> QED BY <1>1, <1>2, <1>3, <1>6, <2>1 DEF HalfOf
<1> QED BY <1>2, <1>4, <1>5, <1>6
-------------------------------------------------------------------------------
(* What is settled while the parts are divided.                               *)

AllTasks == active \cup Range(queue)

\* The first n rows of some places are those below p.
Splits(o, p, lo, hi, n) == \A i \in lo..hi : ~Throws(o[i], p) /\ (Less(o[i], p) <=> i < lo + n)

\* What a task has partitioned stays so.
DivisionOK(o, t) ==
  /\ t.kind = "sort" /\ t.phase = "divided" => \E p \in DataRows : Splits(o, p, t.lo, t.hi, t.left)
  /\ t.kind = "half" /\ t.phase = "divided" => Splits(o, t.pivot, t.lo, t.hi, t.left)
  /\ t.phase = "helped" => Splits(o, t.pivot, Half(t) + 1, t.hi, t.right)
  /\ t.kind = "half" \/ t.phase \in Waiting => t.pivot \in DataRows

\* A part and its half are divided by the same row, and no half is without its part.
PivotsOK(T) == \A h, t \in T : HalfOf(h, t) => h.pivot = t.pivot
OwnedIn(T) == \A h \in T : h.kind = "half" => \E t \in T : HalfOf(h, t)

\* Two rows are in the right order, or they are in a part that is still to be sorted.
CoveredIn(o, T) ==
  \A i, j \in DataRows : i < j =>
    Settled(o[i], o[j]) \/ \E t \in T : t.kind = "sort" /\ t.lo <= i /\ j <= t.hi

\* An exception is in a future of a part, or a part waits for a half that is gone.
ThrownIn(T, failed, f) ==
  failed # {} =>
    \/ failed \cap Range(f) # {}
    \/ \E t \in T : t.kind = "sort" /\ t.phase \in Waiting /\ ~\E h \in T : HalfOf(h, t)

DivisionsOK(o, T, failed, f) ==
  /\ \A t \in T : DivisionOK(o, t)
  /\ PivotsOK(T)
  /\ failed = {} => OwnedIn(T) /\ CoveredIn(o, T)
  /\ ThrownIn(T, failed, f)

LEMMA DivisionsLater ==
  ASSUME UNCHANGED <<cmd, sort_ids, types, has_blanks>>, NEW T, AllTasks' = T,
         DivisionsOK(order', T, failures', futures')
  PROVE  DivisionsOK(order, AllTasks, failures, futures)'
<1>1. /\ \A a, b : Throws(a, b)' <=> Throws(a, b)
      /\ \A a, b : Less(a, b)' <=> Less(a, b)
      /\ \A a, b : Settled(a, b)' <=> Settled(a, b)
  BY SameOrder
<1>2. DataRows' = DataRows
  BY DEF DataRows
<1> PICK o : o = order'
  OBVIOUS
<1>3. \A p, lo, hi, n : Splits(order, p, lo, hi, n)' <=> Splits(o, p, lo, hi, n)
  BY <1>1 DEF Splits
<1>4. \A t : DivisionOK(order, t)' <=> DivisionOK(o, t)
  BY <1>2, <1>3 DEF DivisionOK
<1>5. CoveredIn(order, AllTasks)' <=> CoveredIn(o, T)
  BY <1>1, <1>2 DEF CoveredIn
<1> QED BY <1>4, <1>5 DEF DivisionsOK, PivotsOK, OwnedIn, ThrownIn

\* The rows at some places have changed places among themselves.
Moved(o, W) ==
  \A i \in DataRows : IF i \in W THEN \E j \in W : j \in DataRows /\ o[i] = order[j] ELSE o[i] = order[i]

LEMMA ArrangedIsMoved ==
  ASSUME Table(order), NEW lo, NEW hi, lo..hi \subseteq DataRows, NEW o \in Arrangements(lo, hi)
  PROVE  Moved(o, lo..hi)
<1>1. PICK p \in Bijection(lo..hi, lo..hi) :
        o = [i \in DOMAIN order |-> IF i \in lo..hi THEN order[p[i]] ELSE order[i]]
  BY DEF Arrangements
<1>2. p \in [lo..hi -> lo..hi]
  BY <1>1 DEF Bijection, Injection
<1>3. DOMAIN order = DataRows
  BY DEF Table
<1> QED BY <1>1, <1>2, <1>3 DEF Moved

\* What a task has partitioned is not touched by another.
LEMMA DivisionKept ==
  ASSUME InputOK, NEW u, TaskOK(u), DivisionOK(order, u), NEW o, NEW W, Moved(o, W), PlacesOf(u) \cap W = {}
  PROVE  DivisionOK(o, u)
<1>1. /\ u.lo \in Int /\ u.hi \in Int /\ Half(u) \in Int /\ u.lo <= Half(u)
      /\ u.lo..u.hi \subseteq DataRows
  BY TaskFacts
<1>2. (Half(u) + 1)..u.hi \subseteq u.lo..u.hi
  BY <1>1
<1>3. \A i \in PlacesOf(u) : i \in DataRows /\ o[i] = order[i]
  BY <1>1, <1>2 DEF PlacesOf, Moved
<1>4. u.phase = "divided" => PlacesOf(u) = u.lo..u.hi
  BY DEF PlacesOf
<1>5. u.phase = "helped" => PlacesOf(u) = (Half(u) + 1)..u.hi
  BY DEF PlacesOf, TaskOK, Tasks
<1>6. \A p, lo, hi, n : Splits(order, p, lo, hi, n) /\ lo..hi \subseteq PlacesOf(u) => Splits(o, p, lo, hi, n)
  BY <1>3 DEF Splits
<1> QED BY <1>4, <1>5, <1>6 DEF DivisionOK

\* Rows that move within a part are in the right order to all that are not in it.
LEMMA CoveredKept ==
  ASSUME InputOK, NEW T, \A t \in T : TaskOK(t), CoveredIn(order, T), NEW x \in T, x.kind = "sort",
         \A u \in T : u.kind = "sort" /\ u # x => Apart(u, x), NEW o, Moved(o, x.lo..x.hi)
  PROVE  CoveredIn(o, T)
<1>1. \A t \in T : t.lo \in Int /\ t.hi \in Int /\ t.lo..t.hi \subseteq DataRows
  BY TaskFacts
<1>2. DataRows \subseteq Int
  BY DEF InputOK
<1> DEFINE within(i) == x.lo <= i /\ i <= x.hi
<1>3. \A i \in DataRows : IF within(i) THEN \E j \in DataRows : within(j) /\ o[i] = order[j] ELSE o[i] = order[i]
  BY <1>1, <1>2 DEF Moved
<1> SUFFICES ASSUME NEW i \in DataRows, NEW j \in DataRows, i < j, ~(within(i) /\ within(j))
             PROVE  Settled(o[i], o[j]) \/ \E t \in T : t.kind = "sort" /\ t.lo <= i /\ j <= t.hi
  BY DEF CoveredIn
<1>4. PICK k \in DataRows, l \in DataRows :
        /\ o[i] = order[k] /\ o[j] = order[l]
        /\ within(i) <=> within(k)
        /\ within(j) <=> within(l)
        /\ ~within(i) => k = i
        /\ ~within(j) => l = j
  BY <1>3
<1>5. k < l
  BY <1>1, <1>2, <1>4
<1>6. Settled(order[k], order[l]) \/ \E t \in T : t.kind = "sort" /\ t.lo <= k /\ l <= t.hi
  BY <1>5 DEF CoveredIn
<1>7. ASSUME NEW t \in T, t.kind = "sort", t.lo <= k, l <= t.hi
      PROVE  t.lo <= i /\ j <= t.hi
  <2>1. CASE t = x
    BY <1>1, <1>2, <1>4, <1>5, <1>7, <2>1
  <2>2. CASE t # x
    <3>1. t.hi < x.lo \/ x.hi < t.lo
      BY <1>7, <2>2 DEF Apart
    <3> QED BY <1>1, <1>2, <1>4, <1>5, <1>7, <3>1
  <2> QED BY <2>1, <2>2
<1> QED BY <1>4, <1>6, <1>7

\* What stays as it is when a step moves rows or makes of tasks others.
DivisionInv == DivisionsOK(order, AllTasks, failures, futures)

LEMMA TaskKinds ==
  ASSUME QuicksortOK
  PROVE  /\ \A t \in AllTasks : TaskOK(t) /\ t.kind \in {"sort", "half"}
         /\ \A t \in active : t \notin Range(queue)
         /\ Table(order) \/ AllTasks = {}
         /\ \A t, u \in AllTasks : t.kind = "sort" /\ u.kind = "sort" /\ t # u => Apart(t, u)
         /\ \A h, k, t \in AllTasks : HalfOf(h, t) /\ HalfOf(k, t) => h = k
         /\ \A h, t, u \in AllTasks : HalfOf(h, t) /\ HalfOf(h, u) => t = u
<1>1. \A t \in AllTasks : TaskOK(t) /\ t.kind \in {"sort", "half"}
  BY DEF QuicksortOK, TasksOK, QueueOK, Range, AllTasks, TaskOK, Tasks
<1>2. \A t \in AllTasks : t.lo \in Int /\ t.hi \in Int /\ t.lo <= t.hi
  BY <1>1, TaskFacts DEF QuicksortOK, TaskOK
<1>3. \A t \in active : t \notin Range(queue)
  <2> SUFFICES ASSUME NEW t \in active, t \in Range(queue) PROVE FALSE
    OBVIOUS
  <2>1. Apart(t, t) \/ HalfOf(t, t)
    BY DEF QuicksortOK, Separate, Range
  <2> QED BY <1>2, <2>1 DEF Apart, HalfOf, AllTasks
<1>4. Table(order) \/ AllTasks = {}
  <2>1. ASSUME queue = <<>> PROVE Range(queue) = {}
    BY <2>1 DEF Range
  <2> QED BY <2>1 DEF QuicksortOK, OrderOK, AllTasks
<1>5. \A t, u \in AllTasks : t # u => Apart(t, u) \/ HalfOf(t, u) \/ HalfOf(u, t)
  BY PlacesApart DEF AllTasks
<1>6. \A t, u \in AllTasks : t.kind = "sort" /\ u.kind = "sort" /\ t # u => Apart(t, u)
  BY <1>5 DEF HalfOf
<1>7. \A h, k, t \in AllTasks : HalfOf(h, t) /\ HalfOf(k, t) => h = k
  BY <1>2, <1>5 DEF HalfOf, Apart
<1>8. \A h, t, u \in AllTasks : HalfOf(h, t) /\ HalfOf(h, u) => t = u
  <2> SUFFICES ASSUME NEW h \in AllTasks, NEW t \in AllTasks, NEW u \in AllTasks,
                      HalfOf(h, t), HalfOf(h, u), t # u
               PROVE  FALSE
    OBVIOUS
  <2>1. t.lo = u.lo /\ t.kind = "sort" /\ u.kind = "sort"
    BY DEF HalfOf
  <2>2. t.hi < u.lo \/ u.hi < t.lo
    BY <1>6, <2>1 DEF Apart
  <2> QED BY <1>2, <2>1, <2>2
<1> QED BY <1>1, <1>3, <1>4, <1>6, <1>7, <1>8

\* A task goes on to another phase and may have moved its rows.
LEMMA ReplacedDivision ==
  ASSUME QuicksortOK, DivisionInv, Table(order), NEW t \in AllTasks, NEW n,
         n.kind = t.kind, n.lo = t.lo, n.hi = t.hi, n.pivot = t.pivot,
         n.phase \in Waiting <=> t.phase \in Waiting,
         NEW o, Moved(o, PlacesOf(t)), DivisionOK(o, n)
  PROVE  DivisionsOK(o, (AllTasks \ {t}) \cup {n}, failures, futures)
<1> DEFINE T == (AllTasks \ {t}) \cup {n}
<1>1. /\ \A u \in AllTasks : DivisionOK(order, u)
      /\ PivotsOK(AllTasks)
      /\ failures = {} => OwnedIn(AllTasks) /\ CoveredIn(order, AllTasks)
      /\ ThrownIn(AllTasks, failures, futures)
  BY DEF DivisionInv, DivisionsOK
<1>2. \A u : /\ HalfOf(u, n) <=> HalfOf(u, t)
             /\ HalfOf(n, u) <=> HalfOf(t, u)
  BY DEF HalfOf, Half, Size
<1>3. HalfOf(n, n) <=> HalfOf(t, t)
  BY <1>2
<1>4. InputOK /\ \A u \in AllTasks : TaskOK(u) /\ u.kind \in {"sort", "half"}
  BY TaskKinds DEF QuicksortOK
<1>5. \A u \in T : DivisionOK(o, u)
  <2> SUFFICES ASSUME NEW u \in AllTasks, u # t PROVE DivisionOK(o, u)
    OBVIOUS
  <2>1. PlacesOf(u) \cap PlacesOf(t) = {}
    BY PlacesApart DEF AllTasks
  <2> QED BY <1>1, <1>4, <2>1, DivisionKept
<1>6. PivotsOK(T)
  BY <1>1, <1>2, <1>3 DEF PivotsOK
<1>7. OwnedIn(AllTasks) => OwnedIn(T)
  BY <1>2, <1>3 DEF OwnedIn
<1>8. ThrownIn(T, failures, futures)
  BY <1>1, <1>2, <1>3 DEF ThrownIn
<1>9. ASSUME NEW d, CoveredIn(d, AllTasks) PROVE CoveredIn(d, T)
  BY <1>9 DEF CoveredIn
<1>10. ASSUME OwnedIn(AllTasks), CoveredIn(order, AllTasks) PROVE CoveredIn(o, AllTasks)
  <2>1. PICK x \in AllTasks : x.kind = "sort" /\ PlacesOf(t) \subseteq x.lo..x.hi
    <3>1. /\ t.lo \in Int /\ t.hi \in Int /\ Half(t) \in Int /\ t.lo <= Half(t)
      BY <1>4, TaskFacts
    <3>3. PlacesOf(t) \subseteq t.lo..t.hi
      BY <1>4, PlacesWithin
    <3>4. CASE t.kind = "sort"
      BY <3>3, <3>4
    <3>5. CASE t.kind = "half"
      <4>1. PICK x \in AllTasks : HalfOf(t, x)
        BY <1>10, <3>5 DEF OwnedIn
      <4>2. x.lo \in Int /\ x.hi \in Int /\ x.kind = "sort" /\ t.lo = x.lo /\ t.hi = Half(x)
            /\ Half(x) < x.hi
        BY <1>4, <4>1, TaskFacts DEF HalfOf, TaskOK
      <4>3. t.lo..t.hi \subseteq x.lo..x.hi
        BY <3>1, <4>2
      <4> QED BY <3>3, <4>2, <4>3
    <3> QED BY <1>4, <3>4, <3>5
  <2>2. Moved(o, x.lo..x.hi)
    BY <2>1 DEF Moved
  <2>3. \A u \in AllTasks : u.kind = "sort" /\ u # x => Apart(u, x)
    BY <2>1, TaskKinds
  <2> QED BY <1>4, <1>10, <2>1, <2>2, <2>3, CoveredKept
<1> QED BY <1>1, <1>5, <1>6, <1>7, <1>8, <1>9, <1>10 DEF DivisionsOK

\* The rows below the pivot are as many as were counted.
LEMMA PartitionedSplits ==
  ASSUME Table(order), NEW lo \in Int, NEW hi \in Int, lo..hi \subseteq DataRows, NEW pivot, NEW o, o = order',
         PartitionInto(lo, hi, pivot), ~PartitionThrows(lo, hi, pivot)
  PROVE  Moved(o, lo..hi) /\ Splits(o, pivot, lo, hi, Lows(lo, hi, pivot))
<1>1. o \in Arrangements(lo, hi) /\ \A i \in lo..hi : Less(o[i], pivot) = (i < lo + Lows(lo, hi, pivot))
  BY DEF PartitionInto
<1>2. Moved(o, lo..hi)
  BY <1>1, ArrangedIsMoved
<1>3. \A i \in lo..hi : ~Throws(o[i], pivot)
  BY <1>2 DEF Moved, PartitionThrows
<1> QED BY <1>1, <1>2, <1>3 DEF Splits

\* All tasks after a step that puts one in the place of another.
LEMMA TasksReplaced ==
  ASSUME QuicksortOK, NEW t \in active, NEW n, active' = (active \ {t}) \cup {n}, queue' = queue
  PROVE  AllTasks' = (AllTasks \ {t}) \cup {n} /\ t \in AllTasks /\ Table(order) /\ TaskOK(t) /\ InputOK
<1>1. t \notin Range(queue) /\ t \in AllTasks /\ TaskOK(t) /\ (Table(order) \/ AllTasks = {})
  BY TaskKinds DEF AllTasks
<1> QED BY <1>1 DEF AllTasks, QuicksortOK

\* What a step of the sort leaves alone.
OrderStays == UNCHANGED <<cmd, sort_ids, types, has_blanks>>

LEMMA DividesPartition ==
  ASSUME QuicksortOK, DivisionInv, OrderStays, NEW t \in active, Partition(t)
  PROVE  DivisionInv'
<1> DEFINE n == [t EXCEPT !.phase = "divided", !.left = Lows(t.lo, t.hi, PivotOf(t))]
           o == order'
<1>1. /\ t.kind = "sort" /\ t.phase = "begin" /\ active' = (active \ {t}) \cup {n}
      /\ PartitionInto(t.lo, t.hi, PivotOf(t)) /\ ~PartitionThrows(t.lo, t.hi, PivotOf(t))
      /\ queue' = queue /\ failures' = failures /\ futures' = futures
  BY DEF Partition, Divides, Becomes
<1>2. /\ AllTasks' = (AllTasks \ {t}) \cup {n} /\ t \in AllTasks /\ Table(order) /\ TaskOK(t)
         /\ InputOK
  BY <1>1, TasksReplaced
<1>3. /\ t.lo \in Int /\ t.hi \in Int /\ t.lo..t.hi \subseteq DataRows /\ t \in Tasks
  BY <1>2, TaskFacts DEF TaskOK
<1>4. PlacesOf(t) = t.lo..t.hi
  BY <1>1 DEF PlacesOf
<1>5. Moved(o, t.lo..t.hi) /\ Splits(o, PivotOf(t), t.lo, t.hi, Lows(t.lo, t.hi, PivotOf(t)))
  BY <1>1, <1>2, <1>3, PartitionedSplits
<1>6. /\ n.kind = t.kind /\ n.lo = t.lo /\ n.hi = t.hi /\ n.pivot = t.pivot
      /\ n.phase = "divided" /\ n.left = Lows(t.lo, t.hi, PivotOf(t))
  BY <1>3 DEF Tasks
<1>7. PivotOf(t) \in DataRows
  <2>1. Size(t) \in Int /\ Size(t) >= 1 /\ Size(t) = t.hi - t.lo + 1
    BY <1>2, TaskFacts
  <2>2. t.lo + Size(t) \div 2 \in t.lo..t.hi
    BY <1>3, <2>1
  <2> QED BY <1>2, <1>3, <2>2 DEF PivotOf, Table
<1> HIDE DEF n, o
<1>8. DivisionOK(o, n)
  BY <1>1, <1>5, <1>6, <1>7 DEF DivisionOK, Waiting
<1>9. DivisionsOK(o, (AllTasks \ {t}) \cup {n}, failures, futures)
  BY <1>1, <1>2, <1>4, <1>5, <1>6, <1>8, ReplacedDivision DEF Waiting
<1> QED BY <1>1, <1>2, <1>9, DivisionsLater DEF DivisionInv, OrderStays, o

LEMMA DividesOwnHalf ==
  ASSUME QuicksortOK, DivisionInv, OrderStays, NEW t \in active, OwnHalf(t)
  PROVE  DivisionInv'
<1> DEFINE n == [t EXCEPT !.phase = "helped", !.right = Lows(Half(t) + 1, t.hi, t.pivot)]
           o == order'
<1>1. /\ t.kind = "sort" /\ t.phase = "own half" /\ active' = (active \ {t}) \cup {n}
      /\ PartitionInto(Half(t) + 1, t.hi, t.pivot) /\ ~PartitionThrows(Half(t) + 1, t.hi, t.pivot)
      /\ queue' = queue /\ failures' = failures /\ futures' = futures
  BY DEF OwnHalf, Becomes
<1>2. /\ AllTasks' = (AllTasks \ {t}) \cup {n} /\ t \in AllTasks /\ Table(order) /\ TaskOK(t)
         /\ InputOK
  BY <1>1, TasksReplaced
<1>3. /\ t.lo \in Int /\ t.hi \in Int /\ t.lo..t.hi \subseteq DataRows /\ t \in Tasks
      /\ Half(t) \in Int /\ t.lo <= Half(t)
  BY <1>2, TaskFacts DEF TaskOK
<1>4. PlacesOf(t) = (Half(t) + 1)..t.hi /\ (Half(t) + 1)..t.hi \subseteq DataRows
      /\ Half(t) + 1 \in Int
  <2>1. PlacesOf(t) = (Half(t) + 1)..t.hi
    BY <1>1 DEF PlacesOf
  <2>2. (Half(t) + 1)..t.hi \subseteq t.lo..t.hi
    BY <1>3
  <2> QED BY <1>3, <2>1, <2>2
<1>5. Moved(o, (Half(t) + 1)..t.hi)
      /\ Splits(o, t.pivot, Half(t) + 1, t.hi, Lows(Half(t) + 1, t.hi, t.pivot))
  BY <1>1, <1>2, <1>3, <1>4, PartitionedSplits
<1>6. /\ n.kind = t.kind /\ n.lo = t.lo /\ n.hi = t.hi /\ n.pivot = t.pivot
      /\ n.phase = "helped" /\ n.right = Lows(Half(t) + 1, t.hi, t.pivot)
  BY <1>3 DEF Tasks
<1>7. t.pivot \in DataRows
  BY <1>1, <1>2 DEF DivisionInv, DivisionsOK, DivisionOK, Waiting
<1> HIDE DEF n, o
<1>8. Half(n) = Half(t)
  BY <1>6 DEF Half, Size
<1>9. DivisionOK(o, n)
  BY <1>1, <1>5, <1>6, <1>7, <1>8 DEF DivisionOK, Waiting
<1>10. DivisionsOK(o, (AllTasks \ {t}) \cup {n}, failures, futures)
  BY <1>1, <1>2, <1>4, <1>5, <1>6, <1>9, ReplacedDivision DEF Waiting
<1> QED BY <1>1, <1>2, <1>10, DivisionsLater DEF DivisionInv, OrderStays, o

LEMMA DividesOtherHalf ==
  ASSUME QuicksortOK, DivisionInv, OrderStays, NEW t \in active, OtherHalf(t)
  PROVE  DivisionInv'
<1> DEFINE n == [t EXCEPT !.phase = "divided", !.left = Lows(t.lo, t.hi, t.pivot)]
           o == order'
<1>1. /\ t.kind = "half" /\ t.phase = "begin" /\ active' = (active \ {t}) \cup {n}
      /\ PartitionInto(t.lo, t.hi, t.pivot) /\ ~PartitionThrows(t.lo, t.hi, t.pivot)
      /\ queue' = queue /\ failures' = failures /\ futures' = futures
  BY DEF OtherHalf, Becomes
<1>2. /\ AllTasks' = (AllTasks \ {t}) \cup {n} /\ t \in AllTasks /\ Table(order) /\ TaskOK(t)
         /\ InputOK
  BY <1>1, TasksReplaced
<1>3. /\ t.lo \in Int /\ t.hi \in Int /\ t.lo..t.hi \subseteq DataRows /\ t \in Tasks
  BY <1>2, TaskFacts DEF TaskOK
<1>4. PlacesOf(t) = t.lo..t.hi
  BY <1>1 DEF PlacesOf
<1>5. Moved(o, t.lo..t.hi) /\ Splits(o, t.pivot, t.lo, t.hi, Lows(t.lo, t.hi, t.pivot))
  BY <1>1, <1>2, <1>3, PartitionedSplits
<1>6. /\ n.kind = t.kind /\ n.lo = t.lo /\ n.hi = t.hi /\ n.pivot = t.pivot
      /\ n.phase = "divided" /\ n.left = Lows(t.lo, t.hi, t.pivot)
  BY <1>3 DEF Tasks
<1>7. t.pivot \in DataRows
  BY <1>1, <1>2 DEF DivisionInv, DivisionsOK, DivisionOK
<1> HIDE DEF n, o
<1>8. DivisionOK(o, n)
  BY <1>1, <1>5, <1>6, <1>7 DEF DivisionOK, Waiting
<1>9. DivisionsOK(o, (AllTasks \ {t}) \cup {n}, failures, futures)
  BY <1>1, <1>2, <1>4, <1>5, <1>6, <1>8, ReplacedDivision DEF Waiting
<1> QED BY <1>1, <1>2, <1>9, DivisionsLater DEF DivisionInv, OrderStays, o

\* Rows that stay where they are.
LEMMA NoneMoved ==
  ASSUME NEW W, W \subseteq DataRows
  PROVE  Moved(order, W)
BY DEF Moved

LEMMA DividesNotify ==
  ASSUME QuicksortOK, DivisionInv, OrderStays, NEW t \in active, Notify(t)
  PROVE  DivisionInv'
<1> DEFINE n == [t EXCEPT !.phase = "sorting"]
           o == order'
<1>1. /\ t.kind = "sort" /\ t.phase \in {"begin", "divided"} /\ active' = (active \ {t}) \cup {n}
      /\ order' = order /\ queue' = queue /\ failures' = failures /\ futures' = futures
  BY DEF Notify, Partitioned, Becomes
<1>2. /\ AllTasks' = (AllTasks \ {t}) \cup {n} /\ t \in AllTasks /\ Table(order) /\ TaskOK(t)
         /\ InputOK
  BY <1>1, TasksReplaced
<1>3. /\ t.lo \in Int /\ t.hi \in Int /\ t.lo..t.hi \subseteq DataRows /\ t \in Tasks
  BY <1>2, TaskFacts DEF TaskOK
<1>4. PlacesOf(t) \subseteq DataRows
  BY <1>1, <1>3 DEF PlacesOf
<1>5. /\ n.kind = t.kind /\ n.lo = t.lo /\ n.hi = t.hi /\ n.pivot = t.pivot /\ n.phase = "sorting"
  BY <1>3 DEF Tasks
<1> HIDE DEF n
<1>6. DivisionOK(order, n)
  BY <1>1, <1>5 DEF DivisionOK, Waiting
<1>7. DivisionsOK(order, (AllTasks \ {t}) \cup {n}, failures, futures)
  BY <1>1, <1>2, <1>4, <1>5, <1>6, NoneMoved, ReplacedDivision DEF Waiting
<1> QED BY <1>1, <1>2, <1>7, DivisionsLater DEF DivisionInv, OrderStays

LEMMA DividesRun ==
  ASSUME QuicksortOK, DivisionInv, OrderStays, Run
  PROVE  DivisionInv'
<1>1. /\ queue # <<>> /\ active' = active \cup {Head(queue)} /\ queue' = Tail(queue)
      /\ order' = order /\ failures' = failures /\ futures' = futures
  BY DEF Run
<1>2. AllTasks' = AllTasks
  BY <1>1, TakenSeparate DEF AllTasks, QuicksortOK, TasksOK
<1> QED BY <1>1, <1>2, DivisionsLater DEF DivisionInv, OrderStays

LEMMA NewTask ==
  ASSUME NEW kind \in {"sort", "half"}, NEW lo \in Int, NEW hi \in Int, NEW pivot \in Int
  PROVE  Task(kind, lo, hi, pivot) \in Tasks
BY DEF Tasks, Task, Phases

\* The half that another task is asked to partition.
LEMMA DividesAskForHelp ==
  ASSUME QuicksortOK, DivisionInv, OrderStays, NEW t \in active, AskForHelp(t)
  PROVE  DivisionInv'
<1> DEFINE n == [t EXCEPT !.phase = "own half", !.pivot = PivotOf(t)]
           x == Task("half", t.lo, Half(t), PivotOf(t))
           T == (AllTasks \ {t}) \cup {n, x}
<1>1. /\ t.kind = "sort" /\ t.phase = "begin" /\ active' = (active \ {t}) \cup {n}
      /\ queue' = Append(queue, x) /\ order' = order /\ failures' = failures /\ futures' = futures
  BY DEF AskForHelp, Divides, Becomes
<1>2. /\ t \notin Range(queue) /\ t \in AllTasks /\ Table(order) /\ TaskOK(t) /\ InputOK
         /\ queue \in Seq(Tasks)
  BY TaskKinds DEF AllTasks, QuicksortOK, TasksOK, QueueOK
<1>3. /\ t.lo \in Int /\ t.hi \in Int /\ t.lo..t.hi \subseteq DataRows /\ t \in Tasks
      /\ Half(t) \in Int /\ t.lo <= t.hi
  BY <1>2, TaskFacts DEF TaskOK
<1>4. PivotOf(t) \in DataRows /\ PivotOf(t) \in Int
  <2>1. Size(t) \in Int /\ Size(t) >= 1 /\ Size(t) = t.hi - t.lo + 1
    BY <1>2, TaskFacts
  <2>2. t.lo + Size(t) \div 2 \in t.lo..t.hi
    BY <1>3, <2>1
  <2> QED BY <1>2, <1>3, <2>2 DEF PivotOf, Table, InputOK
<1>5. /\ n.kind = "sort" /\ n.lo = t.lo /\ n.hi = t.hi /\ n.pivot = PivotOf(t)
         /\ n.phase = "own half"
      /\ x.kind = "half" /\ x.lo = t.lo /\ x.hi = Half(t) /\ x.pivot = PivotOf(t)
         /\ x.phase = "begin"
      /\ x \in Tasks
  <2>1. n.kind = "sort" /\ n.lo = t.lo /\ n.hi = t.hi /\ n.pivot = PivotOf(t)
        /\ n.phase = "own half"
    BY <1>1, <1>3 DEF Tasks
  <2>2. x.kind = "half" /\ x.lo = t.lo /\ x.hi = Half(t) /\ x.pivot = PivotOf(t)
        /\ x.phase = "begin"
    BY DEF Task
  <2>3. x \in Tasks
    BY <1>3, <1>4, NewTask
  <2> QED BY <2>1, <2>2, <2>3
<1> HIDE DEF n, x
<1>6. AllTasks' = T
  <2>1. Range(queue') = Range(queue) \cup {x}
    <3>1. Len(queue) \in Nat /\ DOMAIN queue = 1..Len(queue)
          /\ DOMAIN Append(queue, x) = 1..(Len(queue) + 1)
          /\ Append(queue, x)[Len(queue) + 1] = x
          /\ \A i \in 1..Len(queue) : Append(queue, x)[i] = queue[i]
      <4>1. x \in Tasks
        BY <1>5
      <4>2. Len(queue) \in Nat /\ DOMAIN queue = 1..Len(queue)
        BY <1>2, LenProperties
      <4>3. /\ Append(queue, x) \in Seq(Tasks) /\ Len(Append(queue, x)) = Len(queue) + 1
            /\ Append(queue, x)[Len(queue) + 1] = x
            /\ \A i \in 1..Len(queue) : Append(queue, x)[i] = queue[i]
        BY <1>2, <4>1, AppendProperties
      <4>4. DOMAIN Append(queue, x) = 1..(Len(queue) + 1)
        BY <4>3, LenProperties
      <4> QED BY <4>2, <4>3, <4>4
    <3>2. \A i \in 1..(Len(queue) + 1) : i \in 1..Len(queue) \/ i = Len(queue) + 1
      BY <3>1
    <3>3. \A i \in 1..Len(queue) : i \in 1..(Len(queue) + 1)
      BY <3>1
    <3>4. Len(queue) + 1 \in 1..(Len(queue) + 1)
      BY <3>1
    <3> QED BY <1>1, <3>1, <3>2, <3>3, <3>4 DEF Range
  <2> QED BY <1>1, <1>2, <2>1 DEF AllTasks
<1>7. HalfOf(x, n)
  BY <1>5 DEF HalfOf, Half, Size, Waiting
\* No half of t is there already, and the new one is that of no other.
<1>8. ASSUME NEW u \in AllTasks, u # t
      PROVE  ~HalfOf(u, n) /\ ~HalfOf(x, u) /\ ~HalfOf(u, t)
  <2>1. ~HalfOf(u, t) /\ ~HalfOf(t, u)
    BY <1>1 DEF HalfOf, Waiting
  <2>2. Apart(t, u)
    BY <1>2, <1>8, <2>1, PlacesApart DEF AllTasks
  <2>3. u.lo \in Int /\ u.hi \in Int /\ u.lo <= u.hi
    BY TaskKinds, TaskFacts DEF TaskOK, QuicksortOK
  <2>4. ASSUME HalfOf(x, u) PROVE FALSE
    <3>1. u.lo = t.lo
      BY <1>5, <2>4 DEF HalfOf
    <3> QED BY <1>3, <2>2, <2>3, <3>1 DEF Apart
  <2>5. ASSUME HalfOf(u, n) PROVE FALSE
    <3>1. u.lo = t.lo
      BY <1>5, <2>5 DEF HalfOf
    <3> QED BY <1>3, <2>2, <2>3, <3>1 DEF Apart
  <2> QED BY <2>1, <2>4, <2>5
<1>9. \A u : ~HalfOf(u, x) /\ ~HalfOf(n, u) /\ ~HalfOf(t, u) /\ ~HalfOf(u, t)
  BY <1>1, <1>5 DEF HalfOf, Waiting
<1>10. /\ \A u \in AllTasks : DivisionOK(order, u)
       /\ PivotsOK(AllTasks)
       /\ failures = {} => OwnedIn(AllTasks) /\ CoveredIn(order, AllTasks)
       /\ ThrownIn(AllTasks, failures, futures)
  BY DEF DivisionInv, DivisionsOK
<1>11. \A u \in T : DivisionOK(order, u)
  <2>1. DivisionOK(order, n) /\ DivisionOK(order, x)
    BY <1>4, <1>5 DEF DivisionOK
  <2> QED BY <1>10, <2>1
<1>12. PivotsOK(T)
  BY <1>5, <1>8, <1>9, <1>10 DEF PivotsOK
<1>13. OwnedIn(AllTasks) => OwnedIn(T)
  BY <1>5, <1>7, <1>9 DEF OwnedIn
<1>14. CoveredIn(order, AllTasks) => CoveredIn(order, T)
  <2>1. \A i, j : t.lo <= i /\ j <= t.hi => n.kind = "sort" /\ n.lo <= i /\ j <= n.hi
    BY <1>5
  <2> QED BY <2>1 DEF CoveredIn
<1>15. ThrownIn(T, failures, futures)
  <2>1. ASSUME NEW w \in AllTasks, w.kind = "sort", w.phase \in Waiting, ~\E h \in AllTasks : HalfOf(h, w)
        PROVE  w \in T /\ ~\E h \in T : HalfOf(h, w)
    BY <1>1, <1>8, <1>9, <2>1 DEF Waiting
  <2> QED BY <1>10, <2>1 DEF ThrownIn
<1> HIDE DEF T
<1>16. DivisionsOK(order', T, failures', futures')
  BY <1>1, <1>10, <1>11, <1>12, <1>13, <1>14, <1>15 DEF DivisionsOK
<1> QED BY <1>6, <1>16, DivisionsLater DEF DivisionInv, OrderStays

\* Two parts in the place of one: what goes left of the pivot and what does not.
LEMMA DividesSpawn ==
  ASSUME TextsOK, IdsOK, QuicksortOK, DivisionInv, OrderStays, NEW t \in active, Spawn(t)
  PROVE  DivisionInv'
<1> DEFINE left == Task("sort", t.lo, t.lo + t.left - 1, 0)
           right == Task("sort", t.lo + t.left, t.hi, 0)
           a == <<left.lo, left.hi>>
           b == <<right.lo, right.hi>>
           T == (AllTasks \ {t}) \cup {left, right}
<1>1. /\ t.kind = "sort" /\ t.phase = "divided"
      /\ active' = active \ {t} /\ queue' = queue \o <<left, right>>
         /\ futures' = futures \o <<a, b>>
      /\ order' = order /\ failures' = failures
  BY DEF Spawn, Partitioned, Gone
<1>2. /\ t \notin Range(queue) /\ t \in AllTasks /\ Table(order) /\ TaskOK(t) /\ InputOK
      /\ queue \in Seq(Tasks) /\ futures \in Seq(Int \X Int)
  BY TaskKinds DEF AllTasks, QuicksortOK, TasksOK, QueueOK, FuturesOK, Submitted
<1>3. /\ t.lo \in Int /\ t.hi \in Int /\ t.left \in Int /\ t.lo..t.hi \subseteq DataRows
  BY <1>1, <1>2, TaskFacts DEF TaskOK, Tasks
<1>4. /\ left.kind = "sort" /\ left.phase = "begin" /\ left.lo = t.lo /\ left.hi = t.lo + t.left - 1
      /\ right.kind = "sort" /\ right.phase = "begin" /\ right.lo = t.lo + t.left /\ right.hi = t.hi
  BY DEF Task
<1>5. left \in Tasks /\ right \in Tasks
  BY <1>3, NewTask
<1>6. a \in Int \X Int /\ b \in Int \X Int
  BY <1>3, <1>4
<1> HIDE DEF left, right, a, b
<1>7. Range(queue') = Range(queue) \cup {left, right}
  BY <1>1, <1>2, <1>5, TwoMore
<1>8. Range(futures') = Range(futures) \cup {a, b}
  <2> DEFINE S == Int \X Int
  <2>1. a \in S /\ b \in S /\ futures \in Seq(S)
    BY <1>2, <1>6
  <2> HIDE DEF S
  <2> QED BY <1>1, <2>1, TwoMore
<1>9. AllTasks' = T
  BY <1>1, <1>2, <1>7 DEF AllTasks
<1>10. /\ \A u \in AllTasks : DivisionOK(order, u)
       /\ PivotsOK(AllTasks)
       /\ failures = {} => OwnedIn(AllTasks) /\ CoveredIn(order, AllTasks)
       /\ ThrownIn(AllTasks, failures, futures)
  BY DEF DivisionInv, DivisionsOK
<1>11. \A u : /\ ~HalfOf(left, u) /\ ~HalfOf(right, u) /\ ~HalfOf(t, u)
              /\ ~HalfOf(u, left) /\ ~HalfOf(u, right) /\ ~HalfOf(u, t)
  BY <1>1, <1>4 DEF HalfOf, Waiting
<1>12. \A u \in T : DivisionOK(order, u)
  <2>1. DivisionOK(order, left) /\ DivisionOK(order, right)
    BY <1>4 DEF DivisionOK, Waiting
  <2> QED BY <1>10, <2>1
<1>13. PivotsOK(T)
  BY <1>10, <1>11 DEF PivotsOK
<1>14. OwnedIn(AllTasks) => OwnedIn(T)
  BY <1>4, <1>11 DEF OwnedIn
<1>15. ASSUME CoveredIn(order, AllTasks) PROVE CoveredIn(order, T)
  <2> SUFFICES ASSUME NEW i \in DataRows, NEW j \in DataRows, i < j
               PROVE  Settled(order[i], order[j]) \/ \E u \in T : u.kind = "sort" /\ u.lo <= i /\ j <= u.hi
    BY DEF CoveredIn
  <2>1. Settled(order[i], order[j]) \/ \E u \in AllTasks : u.kind = "sort" /\ u.lo <= i /\ j <= u.hi
    BY <1>15 DEF CoveredIn
  <2>2. ASSUME t.lo <= i, j <= t.hi
        PROVE  Settled(order[i], order[j]) \/ \E u \in T : u.kind = "sort" /\ u.lo <= i /\ j <= u.hi
    <3>1. PICK p \in DataRows : Splits(order, p, t.lo, t.hi, t.left)
      BY <1>1, <1>2, <1>10 DEF DivisionOK
    <3>2. i \in Int /\ j \in Int /\ order[i] \in DataRows /\ order[j] \in DataRows
      BY <1>2 DEF InputOK, Table
    <3>3. i \in t.lo..t.hi /\ j \in t.lo..t.hi
      BY <1>3, <2>2, <3>2
    <3>4. CASE i < t.lo + t.left /\ ~(j < t.lo + t.left)
      <4>1. /\ ~Throws(order[i], p) /\ ~Throws(order[j], p)
            /\ Less(order[i], p) /\ ~Less(order[j], p)
        BY <3>1, <3>3, <3>4 DEF Splits
      <4> QED BY <3>2, <4>1, Divided
    <3>5. CASE j < t.lo + t.left
      BY <1>3, <1>4, <2>2, <3>2, <3>5
    <3>6. CASE ~(i < t.lo + t.left)
      BY <1>3, <1>4, <2>2, <3>2, <3>6
    <3> QED BY <3>4, <3>5, <3>6
  <2> QED BY <2>1, <2>2
<1>16. ThrownIn(T, failures, futures')
  <2>1. ASSUME NEW w \in AllTasks, w.kind = "sort", w.phase \in Waiting, ~\E h \in AllTasks : HalfOf(h, w)
        PROVE  w \in T /\ ~\E h \in T : HalfOf(h, w)
    BY <1>1, <1>11, <2>1 DEF Waiting
  <2> QED BY <1>8, <1>10, <2>1 DEF ThrownIn
<1> HIDE DEF T
<1>17. DivisionsOK(order', T, failures', futures')
  BY <1>1, <1>10, <1>12, <1>13, <1>14, <1>15, <1>16 DEF DivisionsOK
<1> QED BY <1>9, <1>17, DivisionsLater DEF DivisionInv, OrderStays

\* A part that is sorted needs no task any more.
LEMMA DividesSortPart ==
  ASSUME QuicksortOK, DivisionInv, OrderStays, NEW t \in active, SortPart(t)
  PROVE  DivisionInv'
<1> DEFINE o == order'
           T == AllTasks \ {t}
<1>1. /\ t.phase = "sorting" /\ ~SortThrows(t.lo, t.hi) /\ SortInto(t.lo, t.hi)
         /\ active' = active \ {t}
      /\ queue' = queue /\ failures' = failures /\ futures' = futures
  BY DEF SortPart, Gone
<1>2. /\ t \notin Range(queue) /\ t \in AllTasks /\ Table(order) /\ TaskOK(t) /\ InputOK
      /\ \A u \in AllTasks : TaskOK(u)
  BY TaskKinds DEF AllTasks, QuicksortOK
<1>3. t.kind = "sort"
  BY <1>1, <1>2 DEF TaskOK, Tasks
<1>4. /\ t.lo \in Int /\ t.hi \in Int /\ t.lo..t.hi \subseteq DataRows /\ DataRows \subseteq Int
  BY <1>2, TaskFacts DEF InputOK
<1>5. /\ o \in Arrangements(t.lo, t.hi)
      /\ \A i, j \in t.lo..t.hi : i < j => ~Less(o[j], o[i])
  BY <1>1 DEF SortInto
<1> HIDE DEF o
<1>6. Moved(o, t.lo..t.hi) /\ Table(o)
  BY <1>2, <1>4, <1>5, ArrangedIsMoved, ArrangedIsTable DEF TaskOK
<1>7. /\ \A u \in AllTasks : DivisionOK(order, u)
      /\ PivotsOK(AllTasks)
      /\ failures = {} => OwnedIn(AllTasks) /\ CoveredIn(order, AllTasks)
      /\ ThrownIn(AllTasks, failures, futures)
  BY DEF DivisionInv, DivisionsOK
<1>8. \A u \in T : DivisionOK(o, u)
  <2> TAKE u \in T
  <2>1. PlacesOf(u) \cap PlacesOf(t) = {} /\ PlacesOf(t) = t.lo..t.hi
    BY <1>1, <1>2, PlacesApart DEF AllTasks, PlacesOf
  <2> QED BY <1>2, <1>6, <1>7, <2>1, DivisionKept
<1>9. \A u : ~HalfOf(t, u) /\ ~HalfOf(u, t)
  BY <1>1, <1>3 DEF HalfOf, Waiting
<1>10. PivotsOK(T)
  BY <1>7 DEF PivotsOK
<1>11. OwnedIn(AllTasks) => OwnedIn(T)
  BY <1>9 DEF OwnedIn
<1>12. ASSUME CoveredIn(order, AllTasks) PROVE CoveredIn(o, T)
  <2>1. CoveredIn(o, AllTasks)
    <3>1. \A u \in AllTasks : u.kind = "sort" /\ u # t => Apart(u, t)
      BY <1>2, <1>3, TaskKinds
    <3> QED BY <1>2, <1>3, <1>6, <1>12, <3>1, CoveredKept
  <2>2. ASSUME NEW i \in DataRows, NEW j \in DataRows, i < j, t.lo <= i, j <= t.hi
        PROVE  Settled(o[i], o[j])
    <3>1. i \in t.lo..t.hi /\ j \in t.lo..t.hi
      BY <1>4, <2>2
    <3>2. PICK k \in t.lo..t.hi, l \in t.lo..t.hi : o[i] = order[k] /\ o[j] = order[l]
      BY <1>6, <3>1 DEF Moved
    <3>3. o[i] # o[j]
      BY <1>4, <1>6, <2>2 DEF Table, IsInjective
    <3>4. ~Throws(o[i], o[j])
      BY <1>1, <3>2, <3>3 DEF SortThrows
    <3> QED BY <1>5, <2>2, <3>1, <3>4 DEF Settled
  <2> QED BY <2>1, <2>2 DEF CoveredIn
<1>13. ThrownIn(T, failures, futures)
  <2>1. ASSUME NEW w \in AllTasks, w.kind = "sort", w.phase \in Waiting, ~\E h \in AllTasks : HalfOf(h, w)
        PROVE  w \in T /\ ~\E h \in T : HalfOf(h, w)
    BY <1>1, <2>1 DEF Waiting
  <2> QED BY <1>7, <2>1 DEF ThrownIn
<1>14. AllTasks' = T
  BY <1>1, <1>2 DEF AllTasks
<1> HIDE DEF T
<1>15. DivisionsOK(o, T, failures', futures')
  BY <1>1, <1>7, <1>8, <1>10, <1>11, <1>12, <1>13 DEF DivisionsOK
<1> QED BY <1>14, <1>15, DivisionsLater DEF DivisionInv, OrderStays, o

\* A comparison that throws is told to who asks, or a part waits for a half that is gone.
LEMMA DividesThrow ==
  ASSUME QuicksortOK, DivisionInv, OrderStays, NEW t \in active, Throw(t)
  PROVE  DivisionInv'
<1> DEFINE T == AllTasks \ {t}
           failed == failures \cup {<<t.lo, t.hi>>}
<1>1. /\ t.by = "pool" /\ failures' = failed /\ active' = active \ {t}
      /\ order' = order /\ queue' = queue /\ futures' = futures
  BY DEF Throw, Gone
<1>2. t \notin Range(queue) /\ t \in AllTasks /\ TaskOK(t) /\ t.kind \in {"sort", "half"}
  BY TaskKinds DEF AllTasks
<1>3. /\ \A u \in AllTasks : DivisionOK(order, u)
      /\ PivotsOK(AllTasks)
      /\ failures = {} => OwnedIn(AllTasks) /\ CoveredIn(order, AllTasks)
      /\ ThrownIn(AllTasks, failures, futures)
  BY DEF DivisionInv, DivisionsOK
<1>4. PivotsOK(T)
  BY <1>3 DEF PivotsOK
<1>5. ThrownIn(T, failed, futures)
  <2>1. CASE t.kind = "sort"
    <3>1. <<t.lo, t.hi>> \in Range(futures)
      BY <1>1, <1>2, <2>1 DEF QuicksortOK, FuturesOK, Submitted, AllTasks
    <3> QED BY <3>1 DEF ThrownIn
  <2>2. CASE t.kind = "half" /\ failures = {}
    <3>1. PICK w \in AllTasks : HalfOf(t, w)
      BY <1>2, <1>3, <2>2 DEF OwnedIn
    <3>2. w.kind = "sort" /\ w.phase \in Waiting /\ w \in T
      BY <2>2, <3>1 DEF HalfOf
    <3>3. ~\E h \in T : HalfOf(h, w)
      BY <1>2, <3>1, TaskKinds
    <3> QED BY <3>2, <3>3 DEF ThrownIn
  <2>3. CASE t.kind = "half" /\ failures # {}
    BY <1>3, <2>3 DEF ThrownIn
  <2> QED BY <1>2, <2>1, <2>2, <2>3
<1>6. failed # {}
  OBVIOUS
<1>7. AllTasks' = T
  BY <1>1, <1>2 DEF AllTasks
<1> HIDE DEF T, failed
<1>8. DivisionsOK(order', T, failures', futures')
  <2>1. \A u \in T : u \in AllTasks
    BY DEF T
  <2> QED BY <1>1, <1>3, <1>4, <1>5, <1>6, <2>1 DEF DivisionsOK
<1> QED BY <1>7, <1>8, DivisionsLater DEF DivisionInv, OrderStays

\* The two halves of a part are divided by one row, and so is the part when they have
\* changed places.
LEMMA DividesMerge ==
  ASSUME QuicksortOK, DivisionInv, OrderStays, NEW t \in active, NEW half \in active, Merge(t, half)
  PROVE  DivisionInv'
<1> DEFINE lows == t.right
           highs == Size(half) - half.left
           n == IF highs <= lows THEN highs ELSE lows
           from == half.hi + 1 + lows - n
           to == half.lo + half.left
           swap(i) == IF i \in to..(to + n - 1) THEN from + i - to
                      ELSE IF i \in from..(from + n - 1) THEN to + i - from ELSE i
           x == [t EXCEPT !.phase = "divided", !.left = half.left + lows]
           o == order'
           T == (AllTasks \ {t, half}) \cup {x}
<1>1. /\ t.kind = "sort" /\ t.phase = "helped"
      /\ half.kind = "half" /\ half.phase = "divided" /\ half.lo = t.lo
      /\ o = [i \in DOMAIN order |-> order[swap(i)]]
      /\ active' = (active \ {t, half}) \cup {x}
      /\ queue' = queue /\ failures' = failures /\ futures' = futures
  BY DEF Merge, LowsFrom
<1>2. /\ t \notin Range(queue) /\ half \notin Range(queue) /\ t \in AllTasks /\ half \in AllTasks
      /\ Table(order) /\ TaskOK(t) /\ TaskOK(half) /\ InputOK
      /\ \A u \in AllTasks : TaskOK(u)
  BY TaskKinds DEF AllTasks, QuicksortOK
<1>3. HalfOf(half, t)
  <2>1. InputOK /\ TasksOK /\ Separate(active, queue) /\ half # t
    BY <1>1 DEF QuicksortOK
  <2>2. HalfOf(half, t) \/ HalfOf(t, half)
    BY <1>1, <2>1, OneBegins
  <2> QED BY <1>1, <2>2 DEF HalfOf
<1>4. /\ t.lo \in Int /\ t.hi \in Int /\ half.hi \in Int /\ t.lo <= half.hi /\ half.hi <= t.hi
      /\ half.hi = Half(t) /\ t.lo..t.hi \subseteq DataRows
      /\ half.left \in 0..(half.hi - t.lo + 1) /\ lows \in 0..(t.hi - half.hi)
      /\ highs = half.hi - t.lo + 1 - half.left /\ highs \in Int
  <2>1. Size(t) >= 4 /\ t.right \in 0..(t.hi - Half(t)) /\ half.left \in 0..Size(half)
    <3>1. t.phase = "helped" /\ half.phase = "divided"
      BY <1>1
    <3>2. TaskOK(t) /\ TaskOK(half)
      BY <1>2
    <3> HIDE DEF x, o, T, n, from, to, swap
    <3> QED BY <3>1, <3>2 DEF TaskOK, Waiting
  <2>2. /\ t.lo \in Int /\ t.hi \in Int /\ half.hi \in Int /\ t.lo <= Half(t) /\ Half(t) < t.hi
        /\ t.lo..t.hi \subseteq DataRows /\ Size(half) = half.hi - half.lo + 1
    BY <1>2, <2>1, TaskFacts
  <2>3. half.hi = Half(t)
    BY <1>3 DEF HalfOf
  <2> QED BY <1>1, <2>1, <2>2, <2>3
<1>5. /\ x.kind = "sort" /\ x.phase = "divided" /\ x.lo = t.lo /\ x.hi = t.hi
         /\ x.left = half.left + lows
  <2>1. t \in Tasks
    BY <1>2 DEF TaskOK
  <2> QED BY <1>1, <2>1 DEF Tasks
<1>6. \A i \in Int :
        /\ i \in t.lo..t.hi =>
             /\ swap(i) \in t.lo..t.hi
             /\ swap(i) <= half.hi => (swap(i) < t.lo + half.left <=> i < t.lo + half.left + lows)
             /\ swap(i) > half.hi => (swap(i) < half.hi + 1 + lows <=> i < t.lo + half.left + lows)
        /\ i \notin t.lo..t.hi => swap(i) = i
  <2> TAKE i \in Int
  <2> PICK lo \in Int, mid \in Int, hi \in Int, hs \in Int, l \in Int, r \in Int :
        /\ lo = t.lo /\ mid = half.hi /\ hi = t.hi /\ l = half.left /\ r = lows /\ hs = highs
        /\ l \in 0..(mid - lo + 1) /\ r \in 0..(hi - mid) /\ hs = mid - lo + 1 - l
        /\ lo <= mid /\ mid <= hi
    <3>1. half.left \in Int /\ lows \in Int
      BY <1>4
    <3> HIDE DEF lows, highs
    <3> QED BY <1>4, <3>1
  <2> PICK s : s = swap(i)
    OBVIOUS
  <2> PICK m : m = (IF hs <= r THEN hs ELSE r)
    OBVIOUS
  <2> PICK f : f = mid + 1 + r - m
    OBVIOUS
  <2> PICK g : g = lo + l
    OBVIOUS
  <2>1. m = n /\ f = from /\ g = to
    BY <1>1
  <2>2. s = (IF i \in g..(g + m - 1) THEN f + i - g
             ELSE IF i \in f..(f + m - 1) THEN g + i - f ELSE i)
    BY <2>1
  <2> HIDE DEF n, from, to, highs, lows, swap
  <2>3. /\ i \in lo..hi =>
             /\ s \in lo..hi
             /\ s <= mid => (s < lo + l <=> i < lo + l + r)
             /\ s > mid => (s < mid + 1 + r <=> i < lo + l + r)
        /\ i \notin lo..hi => s = i
    <3>1. m \in Int /\ 0 <= m /\ m <= hs /\ m <= r /\ f \in Int /\ g \in Int
          /\ l \in Int /\ r \in Int /\ 0 <= l /\ 0 <= r /\ l <= mid - lo + 1 /\ r <= hi - mid
      OBVIOUS
    <3>2. CASE g <= i /\ i <= g + m - 1
      <4>1. s = f + i - g
        BY <2>2, <3>1, <3>2
      <4> QED BY <3>1, <3>2, <4>1
    <3>3. CASE ~(g <= i /\ i <= g + m - 1) /\ f <= i /\ i <= f + m - 1
      <4>1. s = g + i - f
        BY <2>2, <3>1, <3>3
      <4> QED BY <3>1, <3>3, <4>1
    <3>4. CASE ~(g <= i /\ i <= g + m - 1) /\ ~(f <= i /\ i <= f + m - 1)
      <4>1. s = i
        BY <2>2, <3>1, <3>4
      <4> QED BY <3>1, <3>4, <4>1
    <3> QED BY <3>2, <3>3, <3>4
  <2> QED BY <2>3
<1> HIDE DEF swap, x, o, n, from, to, highs
<1>7. /\ \A u \in AllTasks : DivisionOK(order, u)
      /\ PivotsOK(AllTasks)
      /\ failures = {} => OwnedIn(AllTasks) /\ CoveredIn(order, AllTasks)
      /\ ThrownIn(AllTasks, failures, futures)
  BY DEF DivisionInv, DivisionsOK
<1>8. /\ Splits(order, t.pivot, t.lo, half.hi, half.left)
      /\ Splits(order, t.pivot, half.hi + 1, t.hi, lows)
      /\ t.pivot \in DataRows
  <2>1. half.pivot = t.pivot
    BY <1>2, <1>3, <1>7 DEF PivotsOK
  <2>2. DivisionOK(order, t) /\ DivisionOK(order, half)
    BY <1>2, <1>7
  <2> QED BY <1>1, <1>4, <2>1, <2>2 DEF DivisionOK, Waiting
<1>9. DOMAIN order = DataRows /\ DataRows \subseteq Int
  BY <1>2 DEF Table, InputOK
<1>10. Moved(o, t.lo..t.hi)
  BY <1>1, <1>4, <1>6, <1>9 DEF Moved
<1>11. Splits(o, t.pivot, t.lo, t.hi, half.left + lows)
  <2> SUFFICES ASSUME NEW i \in t.lo..t.hi
               PROVE  ~Throws(o[i], t.pivot) /\ (Less(o[i], t.pivot) <=> i < t.lo + (half.left + lows))
    BY DEF Splits
  <2>1. i \in Int /\ i \in DataRows /\ o[i] = order[swap(i)] /\ swap(i) \in t.lo..t.hi
    BY <1>1, <1>4, <1>6, <1>9
  <2>2. /\ swap(i) <= half.hi => (swap(i) < t.lo + half.left <=> i < t.lo + half.left + lows)
        /\ swap(i) > half.hi => (swap(i) < half.hi + 1 + lows <=> i < t.lo + half.left + lows)
    BY <1>6, <2>1
  <2>3. t.lo + half.left + lows = t.lo + (half.left + lows)
    BY <1>4
  <2>4. CASE swap(i) <= half.hi
    <3>1. swap(i) \in t.lo..half.hi
      BY <1>4, <2>1, <2>4
    <3> QED BY <1>8, <2>1, <2>2, <2>3, <2>4, <3>1 DEF Splits
  <2>5. CASE ~(swap(i) <= half.hi)
    <3>1. swap(i) \in (half.hi + 1)..t.hi /\ swap(i) > half.hi
      BY <1>4, <2>1, <2>5
    <3> QED BY <1>8, <2>1, <2>2, <2>3, <3>1 DEF Splits
  <2> QED BY <2>4, <2>5
<1>12. \A u \in AllTasks : u # t /\ u # half => Apart(t, u)
  <2> SUFFICES ASSUME NEW u \in AllTasks, u # t, u # half PROVE Apart(t, u)
    OBVIOUS
  <2>1. Apart(t, u) \/ HalfOf(t, u) \/ HalfOf(u, t)
    BY <1>2, PlacesApart DEF AllTasks
  <2>2. ~HalfOf(u, t)
    BY <1>2, <1>3, TaskKinds
  <2> QED BY <1>1, <2>1, <2>2 DEF HalfOf
<1>13. \A u \in T : DivisionOK(o, u)
  <2>1. DivisionOK(o, x)
    BY <1>5, <1>8, <1>11 DEF DivisionOK, Waiting
  <2>2. ASSUME NEW u \in AllTasks, u # t, u # half PROVE DivisionOK(o, u)
    <3>1. PlacesOf(u) \subseteq u.lo..u.hi /\ u.lo \in Int /\ u.hi \in Int /\ TaskOK(u)
      BY <1>2, PlacesWithin, TaskFacts
    <3>2. t.hi < u.lo \/ u.hi < t.lo
      BY <1>12, <2>2 DEF Apart
    <3>3. PlacesOf(u) \cap (t.lo..t.hi) = {}
      BY <1>4, <3>1, <3>2
    <3> QED BY <1>2, <1>7, <1>10, <3>1, <3>3, DivisionKept
  <2> QED BY <2>1, <2>2
<1>14. \A u : ~HalfOf(x, u) /\ ~HalfOf(u, x)
  BY <1>5 DEF HalfOf, Waiting
<1>15. PivotsOK(T)
  BY <1>7, <1>14 DEF PivotsOK
<1>16. OwnedIn(AllTasks) => OwnedIn(T)
  <2>1. ASSUME NEW h \in AllTasks, h # half, NEW u \in AllTasks, HalfOf(h, u) PROVE u # t /\ u # half
    BY <1>1, <1>2, <1>3, <2>1, TaskKinds DEF HalfOf
  <2> QED BY <1>1, <1>5, <2>1 DEF OwnedIn
<1>17. ASSUME CoveredIn(order, AllTasks) PROVE CoveredIn(o, T)
  <2>1. \A u \in AllTasks : u.kind = "sort" /\ u # t => Apart(u, t)
    BY <1>1, <1>2, TaskKinds
  <2>2. CoveredIn(o, AllTasks)
    BY <1>1, <1>2, <1>10, <1>17, <2>1, CoveredKept
  <2> QED BY <1>1, <1>5, <2>2 DEF CoveredIn
<1>18. ThrownIn(T, failures, futures)
  <2>1. ASSUME NEW w \in AllTasks, w.kind = "sort", w.phase \in Waiting, ~\E h \in AllTasks : HalfOf(h, w)
        PROVE  w \in T /\ ~\E h \in T : HalfOf(h, w)
    <3>1. w # t /\ w # half
      BY <1>1, <1>2, <1>3, <2>1
    <3> QED BY <1>14, <2>1, <3>1
  <2> QED BY <1>7, <2>1 DEF ThrownIn
<1>19. AllTasks' = T
  BY <1>1, <1>2 DEF AllTasks
<1> HIDE DEF T
<1>20. DivisionsOK(o, T, failures', futures')
  BY <1>1, <1>7, <1>13, <1>15, <1>16, <1>17, <1>18 DEF DivisionsOK
<1> QED BY <1>19, <1>20, DivisionsLater DEF DivisionInv, OrderStays, o

LEMMA QuicksortDivides ==
  ASSUME TextsOK, IdsOK, QuicksortOK, DivisionInv, OrderStays, Quicksort
  PROVE  DivisionInv'
<1>1. CASE Run
  BY <1>1, DividesRun
<1>2. ASSUME NEW t \in active,
             \/ Partition(t) \/ AskForHelp(t) \/ OwnHalf(t) \/ OtherHalf(t) \/ Spawn(t) \/ Notify(t)
             \/ SortPart(t) \/ Throw(t) \/ \E half \in active : Merge(t, half)
      PROVE  DivisionInv'
  <2>1. CASE Partition(t)
    BY <2>1, DividesPartition
  <2>2. CASE AskForHelp(t)
    BY <2>2, DividesAskForHelp
  <2>3. CASE OwnHalf(t)
    BY <2>3, DividesOwnHalf
  <2>4. CASE OtherHalf(t)
    BY <2>4, DividesOtherHalf
  <2>5. CASE Spawn(t)
    BY <2>5, DividesSpawn
  <2>6. CASE Notify(t)
    BY <2>6, DividesNotify
  <2>7. CASE SortPart(t)
    BY <2>7, DividesSortPart
  <2>8. CASE Throw(t)
    BY <2>8, DividesThrow
  <2>9. CASE \E half \in active : Merge(t, half)
    BY <2>9, DividesMerge
  <2> QED BY <1>2, <2>1, <2>2, <2>3, <2>4, <2>5, <2>6, <2>7, <2>8, <2>9
<1> QED BY <1>1, <1>2 DEF Quicksort

-------------------------------------------------------------------------------
(* From the command line to the rows printed.                                 *)

SortedLines == [n : Int, row : Int, epoch : BOOLEAN]

\* The rows are in order, and those printed so far are the first of them.
InOrder ==
  /\ Table(order) /\ types # <<>>
  /\ \A i, j \in DataRows : i < j => Settled(order[i], order[j])
RowsPrinted ==
  /\ OutputOK(SortedLines) /\ shown \in 0..Len(order) /\ Len(Output) = shown + 1
  /\ \A k \in 1..shown : Output[k + 1].row = order[k] /\ (Output[k + 1].epoch => k = 1)

Before == {"start", "typifying", "sorting alone"}
AtParts == {"sorting", "collecting"}
AllPrinted == at = "done" /\ ~cmd.show_names

SortedOK ==
  /\ IdsOK
  /\ at \in Before => failures = {}
  /\ at \in Before \cup AtParts => shown = 0 /\ out = <<>> /\ held = <<>>
  /\ at \in AtParts => DataRows # {} /\ Table(order) /\ DivisionInv
  /\ at = "collecting" => \A i \in 1..collected : futures[i] \notin failures
  /\ at = "printing" \/ AllPrinted => InOrder /\ RowsPrinted
  /\ AllPrinted => shown = Len(order) /\ held = <<>>
SortedInv == cmd.tool = "sort" => SortedOK

LEMMA AskedTexts ==
  ASSUME TypifyOK, cmd.tool = "sort"
  PROVE  TextsOK
BY AskedFacts DEF TypifyOK, TextsOK

LEMMA SortIdsFound ==
  ASSUME TypifyOK, cmd.tool = "sort", SortStart
  PROVE  sort_ids' \in Seq(DataColumns)
<1> DEFINE names == HeaderNames(cmd.names)
<1>1. /\ cmd.names \in Seq(STRING) /\ AreIds(cmd.ids) /\ cmd.names # <<>> /\ cmd.cells # <<>>
      /\ DataColumns = DOMAIN cmd.names
      /\ sort_ids' = SortIds /\ Understood(SortIds)
  BY AskedFacts DEF TypifyOK, SortStart, SortRefused
<1>2. IsSeq(names) /\ Len(names) = Len(cmd.names) /\ DOMAIN cmd.names = 1..Len(cmd.names)
  BY <1>1, HeaderNamesFacts, LenProperties
<1>3. DOMAIN names = DataColumns
  <2> HIDE DEF names
  <2> QED BY <1>1, <1>2, IsSeqFacts
<1>4. SortIds = ParseColumnIdentifiers(cmd.ids, <<>>, names, cmd.zero)
  BY DEF SortIds
<1> HIDE DEF names
<1>5. SortIds \in Seq(0..Len(names)) /\ \A k \in DOMAIN SortIds : SortIds[k] \in DataColumns
  BY <1>1, <1>2, <1>3, <1>4, ColumnsFound
<1>6. IsSeq(SortIds)
  BY <1>5, SeqIsSeq
<1> QED BY <1>1, <1>5, <1>6, IsSeqIn

LEMMA IdsKept ==
  ASSUME IdsOK, UNCHANGED <<cmd, sort_ids>>
  PROVE  IdsOK'
<1>1. DataColumns' = DataColumns
  BY DEF DataColumns
<1> QED BY <1>1 DEF IdsOK

LEMMA InOrderKept ==
  ASSUME InOrder, OrderStays, UNCHANGED order
  PROVE  InOrder'
<1>1. \A a, b : Settled(a, b)' <=> Settled(a, b)
  BY SameOrder DEF OrderStays
<1>2. DataRows' = DataRows /\ types' = types /\ order' = order
  BY DEF DataRows, OrderStays
<1> QED BY <1>1, <1>2 DEF InOrder, Table

LEMMA DivisionsKept ==
  ASSUME DivisionInv, OrderStays, UNCHANGED <<order, active, queue, futures, failures>>
  PROVE  DivisionInv'
<1>1. AllTasks' = AllTasks
  BY DEF AllTasks
<1> QED BY <1>1, DivisionsLater DEF DivisionInv, OrderStays

\* A tool that stops before it has printed.
LEMMA StopsBefore ==
  ASSUME SortedOK, UNCHANGED <<cmd, sort_ids>>,
         at' \in {"failed", "rejected", "undefined"} \/ (at' = "done" /\ cmd.show_names)
  PROVE  SortedOK'
<1>1. IdsOK'
  BY IdsKept DEF SortedOK
<1> QED BY <1>1 DEF SortedOK, Before, AtParts, AllPrinted

\* The rows stay where they are.
LEMMA RowsStay ==
  ASSUME SortedOK, OrderStays, at' = at,
         UNCHANGED <<order, active, queue, futures, failures, collected, shown, out, held>>
  PROVE  SortedOK'
<1>1. IdsOK' /\ DataRows' = DataRows
  BY IdsKept DEF SortedOK, OrderStays, DataRows
<1>2. at \in AtParts => Table(order)' /\ DivisionInv'
  BY <1>1, DivisionsKept DEF SortedOK, Table
<1>3. InOrder => InOrder'
  BY InOrderKept
<1>4. RowsPrinted => RowsPrinted'
  BY DEF RowsPrinted, OutputOK, Output, OrderStays
<1>5. cmd' = cmd
  BY DEF OrderStays
<1> QED BY <1>1, <1>2, <1>3, <1>4, <1>5 DEF SortedOK, Before, AtParts, AllPrinted

\* What the printer says first, when the rows are in order.
LEMMA PrintingStarts ==
  ASSUME IdsOK, OrderStays, at' = "printing", InOrder', shown = 0, shown' = 0, out = <<>>, held = <<>>,
         SortHeader, InputOK
  PROVE  SortedOK'
<1> DEFINE x == [n |-> 0, row |-> 0, epoch |-> FALSE]
           S == SortedLines
<1>1. x \in S /\ Write(<<x>>) /\ cmd' = cmd
  BY DEF SortedLines, SortHeader, OrderStays
<1>2. OutputOK(S) /\ Output = <<>> /\ Len(Output) = 0
  <2>1. <<>> \in Seq(S) /\ <<>> \o <<>> = <<>> /\ Len(<<>>) = 0
    OBVIOUS
  <2> QED BY <2>1 DEF OutputOK, Output
<1> HIDE DEF x, S
<1>3. OutputOK(S)' /\ Len(Output') = 1
  BY <1>1, <1>2, LineWritten
<1>4. Len(order') \in Nat
  <2>1. DataRows' = DataRows
    BY <1>1 DEF DataRows
  <2>2. PICK n \in Nat : DataRows = 1..n
    BY DEF InputOK
  <2>3. order' \in Seq(DataRows)
    BY <2>1, <2>2 DEF InOrder, Table
  <2> QED BY <2>3, LenProperties
<1>5. RowsPrinted'
  <2>1. 0 \in 0..Len(order') /\ 1 = 0 + 1 /\ \A k \in 1..0 : FALSE
    BY <1>4
  <2>2. OutputOK(SortedLines)'
    BY <1>3 DEF S, OutputOK
  <2> QED BY <1>3, <2>1, <2>2 DEF RowsPrinted
<1>6. IdsOK'
  BY IdsKept DEF OrderStays
<1> QED BY <1>5, <1>6 DEF SortedOK, Before, AtParts, AllPrinted

LEMMA SortedInitially == ToolInit /\ SortInit => SortedInv
<1> SUFFICES ASSUME ToolInit, SortInit PROVE SortedOK
  BY DEF SortedInv
<1>1. at = "start" /\ sort_ids = <<>> /\ failures = {} /\ shown = 0 /\ out = <<>> /\ held = <<>>
  BY DEF ToolInit, SortInit
<1>2. IdsOK
  BY <1>1, EmptySeq DEF IdsOK
<1> QED BY <1>1, <1>2 DEF SortedOK, Before, AtParts, AllPrinted

\* Until there is an order.
LEMMA BeforeSorting ==
  ASSUME SortedOK, cmd' = cmd, IdsOK', at \in Before, at' \in Before,
         UNCHANGED <<failures, shown, out, held>>
  PROVE  SortedOK'
BY DEF SortedOK, Before, AtParts, AllPrinted

\* The whole table is one part.
LEMMA SortingStarts ==
  ASSUME QuicksortOK, CallerOK, SortedOK, Sorting
  PROVE  SortedOK'
<1>1. /\ at = "typifying" /\ cmd' = cmd /\ order' = [i \in DataRows |-> i]
      /\ sort_ids' = sort_ids /\ shown' = shown /\ out' = out /\ held' = held
      /\ \/ at' = "sorting" /\ QuicksortStart
         \/ at' = "sorting alone" /\ failures' = failures
  BY DEF Sorting, Goto, Quiet, QuicksortStart
<1>2. /\ DataRows' = DataRows /\ DataRows # {} /\ queue = <<>> /\ InputOK
      /\ failures = {} /\ shown = 0 /\ out = <<>> /\ held = <<>>
  BY <1>1 DEF CallerOK, Nobody, DataRows, QuicksortOK, SortedOK, Before
<1>3. IdsOK'
  BY <1>1, IdsKept DEF SortedOK
<1>4. CASE at' = "sorting alone" /\ failures' = failures
  BY <1>1, <1>2, <1>3, <1>4 DEF SortedOK, Before, AtParts, AllPrinted
<1>5. CASE at' = "sorting" /\ QuicksortStart
  <2> PICK n : n = Len(order')
    OBVIOUS
  <2> PICK t : t = [Task("sort", 1, n, 0) EXCEPT !.by = "caller"]
    OBVIOUS
  <2>1. active' = {t} /\ queue' = queue /\ failures' = failures
    BY <1>5 DEF QuicksortStart
  <2>2. Table(order)' /\ 1..n = DataRows /\ n \in Int
    <3>1. Table(order') /\ Len(order') \in DataRows /\ 1..Len(order') = DataRows
      BY <1>1, <1>2, RowsInPlace
    <3>2. DataRows \subseteq Int
      BY <1>2 DEF InputOK
    <3>3. Table(order)'
      BY <1>2, <3>1 DEF Table
    <3> QED BY <3>1, <3>2, <3>3
  <2>3. t.kind = "sort" /\ t.lo = 1 /\ t.hi = n /\ t.phase = "begin"
    BY DEF Task
  <2>4. AllTasks' = {t} /\ failures' = {}
    <3>1. Range(<<>>) = {}
      BY DEF Range
    <3> QED BY <1>2, <2>1, <3>1 DEF AllTasks
  <2>5. DivisionOK(order, t)'
    BY <2>3 DEF DivisionOK, Waiting
  <2>6. \A h, u \in {t} : ~HalfOf(h, u) /\ h.kind # "half"
    BY <2>3 DEF HalfOf
  <2>7. \A i, j \in DataRows : t.kind = "sort" /\ t.lo <= i /\ j <= t.hi
    BY <2>2, <2>3
  <2>8. CoveredIn(order, AllTasks)'
    BY <1>2, <2>4, <2>7 DEF CoveredIn
  <2>9. PivotsOK(AllTasks)' /\ OwnedIn(AllTasks)' /\ ThrownIn(AllTasks, failures, futures)'
    BY <2>4, <2>6 DEF PivotsOK, OwnedIn, ThrownIn
  <2>10. DivisionInv'
    BY <2>4, <2>5, <2>8, <2>9 DEF DivisionInv, DivisionsOK
  <2> QED BY <1>1, <1>2, <1>3, <1>5, <2>2, <2>10 DEF SortedOK, Before, AtParts, AllPrinted
<1> QED BY <1>1, <1>4, <1>5

\* std::sort of the whole table.
LEMMA SortsAlone ==
  ASSUME QuicksortOK, CallerOK, TypifyOK, SortedOK, SortAlone
  PROVE  SortedOK'
<1>1. /\ at = "sorting alone" /\ cmd' = cmd /\ UNCHANGED <<sort_ids, types, has_blanks, shown>>
      /\ \/ at' = "failed"
         \/ at' = "printing" /\ SortHeader /\ ~SortThrows(1, Len(order)) /\ SortInto(1, Len(order))
  BY DEF SortAlone, Goto, typifyVars
<1>2. /\ Table(order) /\ InputOK /\ IdsOK /\ shown = 0 /\ out = <<>> /\ held = <<>> /\ types # <<>>
      /\ DataRows' = DataRows
  BY <1>1 DEF CallerOK, QuicksortOK, SortedOK, Before, TypifyOK, Working, DataRows
<1>3. CASE at' = "failed"
  BY <1>1, <1>3, StopsBefore
<1>4. CASE at' = "printing" /\ SortHeader /\ ~SortThrows(1, Len(order)) /\ SortInto(1, Len(order))
  <2> PICK n : n = Len(order)
    OBVIOUS
  <2>1. DataRows = 1..n /\ 1..n \subseteq DataRows
    <3>1. PICK m \in Nat : DataRows = 1..m
      BY <1>2 DEF InputOK
    <3>2. order \in Seq(DataRows) /\ DOMAIN order = 1..m
      BY <1>2, <3>1 DEF Table
    <3>3. Len(order) = m
      BY <3>1, <3>2, LenProperties
    <3> QED BY <3>1, <3>3
  <2> PICK o : o = order'
    OBVIOUS
  <2>2. o \in Arrangements(1, n) /\ \A i, j \in 1..n : i < j => ~Less(o[j], o[i])
    BY <1>4 DEF SortInto
  <2>3. Moved(o, 1..n)
    BY <1>2, <2>1, <2>2, ArrangedIsMoved
  <2>4. Table(o)
    <3>1. CASE DataRows = {}
      BY <1>2, <2>1, <2>2, <3>1 DEF Table, IsInjective, Arrangements
    <3>2. CASE DataRows # {}
      <4>1. 1 \in DataRows /\ n \in DataRows
        <5>1. PICK m \in Nat : DataRows = 1..m
          BY <1>2 DEF InputOK
        <5>2. m >= 1 /\ n \in Int
          BY <3>2, <5>1, <1>2, LenProperties DEF Table
        <5> QED BY <2>1, <5>1, <5>2
      <4> QED BY <1>2, <2>1, <2>2, <4>1, ArrangedIsTable
    <3> QED BY <3>1, <3>2
  <2>5. ASSUME NEW i \in DataRows, NEW j \in DataRows, i < j PROVE Settled(o[i], o[j])
    <3>1. PICK k \in 1..n, l \in 1..n : o[i] = order[k] /\ o[j] = order[l]
      BY <2>1, <2>3 DEF Moved
    <3>2. o[i] # o[j]
      BY <1>2, <2>4, <2>5 DEF Table, IsInjective, InputOK
    <3>3. ~Throws(o[i], o[j])
      BY <1>4, <3>1, <3>2 DEF SortThrows
    <3> QED BY <2>1, <2>2, <2>5, <3>3 DEF Settled
  <2>6. \A a, b : Settled(a, b)' <=> Settled(a, b)
    BY <1>1, SameOrder
  <2>7. InOrder'
    BY <1>1, <1>2, <2>4, <2>5, <2>6 DEF InOrder, Table
  <2> QED BY <1>1, <1>2, <1>4, <2>7, PrintingStarts DEF OrderStays
<1> QED BY <1>1, <1>3, <1>4

LEMMA PlacesKept ==
  ASSUME Quicksort
  PROVE  DOMAIN order' = DOMAIN order
<1>1. ASSUME NEW lo, NEW hi, NEW pivot, PartitionInto(lo, hi, pivot) \/ SortInto(lo, hi)
      PROVE  DOMAIN order' = DOMAIN order
  BY <1>1 DEF PartitionInto, SortInto, Arrangements
<1>2. CASE Run
  BY <1>2 DEF Run
<1>3. ASSUME NEW t \in active,
             \/ Partition(t) \/ AskForHelp(t) \/ OwnHalf(t) \/ OtherHalf(t) \/ Spawn(t) \/ Notify(t)
             \/ SortPart(t) \/ Throw(t) \/ \E half \in active : Merge(t, half)
      PROVE  DOMAIN order' = DOMAIN order
  <2>1. CASE Partition(t) \/ OwnHalf(t) \/ OtherHalf(t) \/ SortPart(t)
    BY <1>1, <2>1 DEF Partition, OwnHalf, OtherHalf, SortPart
  <2>2. CASE AskForHelp(t) \/ Spawn(t) \/ Notify(t) \/ Throw(t)
    BY <2>2 DEF AskForHelp, Spawn, Notify, Throw
  <2>3. CASE \E half \in active : Merge(t, half)
    BY <2>3 DEF Merge
  <2> QED BY <1>3, <2>1, <2>2, <2>3
<1> QED BY <1>2, <1>3 DEF Quicksort

\* A part that throws is none that was asked for.
LEMMA PartsSort ==
  ASSUME QuicksortOK, CallerOK, TextsOK, SortedOK, SortParts
  PROVE  SortedOK'
<1>1. /\ at \in AtParts /\ at' = at /\ Quicksort /\ cmd' = cmd /\ sort_ids' = sort_ids
      /\ OrderStays /\ UNCHANGED <<collected, shown, out, held>>
  BY DEF SortParts, AtParts, Quiet, typifyVars, OrderStays
<1>2. IdsOK /\ DivisionInv /\ Table(order) /\ DataRows # {} /\ shown = 0 /\ out = <<>>
      /\ held = <<>>
  BY <1>1 DEF SortedOK
<1>3. DivisionInv'
  BY <1>1, <1>2, QuicksortDivides
<1>4. Table(order)' /\ DataRows' # {}
  <2>1. OrderOK' /\ DataRows' = DataRows
    <3>1. UNCHANGED cmd /\ Quicksort
      BY <1>1
    <3>2. QuicksortOK'
      BY <3>1, QuicksortStep
    <3> QED BY <3>1, <3>2 DEF QuicksortOK, DataRows
  <2>2. DOMAIN order' = DataRows
    BY <1>1, <1>2, PlacesKept DEF Table
  <2>3. DOMAIN <<>> = {}
    OBVIOUS
  <2> QED BY <1>2, <2>1, <2>2, <2>3 DEF OrderOK
<1>5. IdsOK'
  BY <1>1, <1>2, IdsKept
<1>6. at = "collecting" => \A i \in 1..collected' : futures'[i] \notin failures'
  <2> SUFFICES ASSUME at = "collecting", NEW i \in 1..collected PROVE futures'[i] \notin failures'
    BY <1>1
  <2>1. futures[i] \notin failures
    BY DEF SortedOK
  <2>2. queue = <<>> /\ UNCHANGED futures
    BY <1>1, CollectingStep
  <2>3. \A t \in active : t.phase = "sorting" /\ <<t.lo, t.hi>> # futures[i]
    BY DEF CallerOK
  <2>4. PICK t \in active :
          \/ Partition(t) \/ AskForHelp(t) \/ OwnHalf(t) \/ OtherHalf(t) \/ Spawn(t) \/ Notify(t)
          \/ SortPart(t) \/ Throw(t) \/ \E half \in active : Merge(t, half)
    BY <1>1, <2>2 DEF Quicksort, Run
  <2>5. failures' \subseteq failures \cup {<<t.lo, t.hi>>}
    BY <2>4 DEF Partition, AskForHelp, OwnHalf, OtherHalf, Spawn, Notify, SortPart, Throw, Merge
  <2> QED BY <2>1, <2>2, <2>3, <2>5
<1> QED BY <1>1, <1>2, <1>3, <1>4, <1>5, <1>6 DEF SortedOK, Before, AtParts, AllPrinted

LEMMA WaitEnds ==
  ASSUME CallerOK, SortedOK, Waited
  PROVE  SortedOK'
<1>1. /\ at = "sorting" /\ at' = "collecting" /\ collected' = collected /\ cmd' = cmd
      /\ UNCHANGED <<order, active, queue, futures, failures, shown, out, held>>
      /\ OrderStays
  BY DEF Waited, Goto, Quiet, typifyVars, sortVars, quicksortVars, OrderStays
<1>2. /\ collected = 0 /\ IdsOK /\ shown = 0 /\ out = <<>> /\ held = <<>>
      /\ Table(order) /\ DataRows # {} /\ DivisionInv
  BY <1>1 DEF CallerOK, SortedOK, AtParts
<1>3. IdsOK' /\ DivisionInv' /\ DataRows' = DataRows
  BY <1>1, <1>2, IdsKept, DivisionsKept DEF OrderStays, DataRows
<1>4. Table(order)'
  BY <1>1, <1>2, <1>3 DEF Table
<1>5. \A i \in 1..collected' : FALSE
  BY <1>1, <1>2
<1> QED BY <1>1, <1>2, <1>3, <1>4, <1>5 DEF SortedOK, Before, AtParts, AllPrinted

LEMMA FutureCollected ==
  ASSUME CallerOK, SortedOK, Collect
  PROVE  SortedOK'
<1>1. /\ at = "collecting" /\ cmd' = cmd
      /\ UNCHANGED <<order, active, queue, futures, failures, shown, out, held>>
      /\ OrderStays
      /\ \/ at' \in {"failed", "undefined"}
         \/ at' = at /\ futures[collected + 1] \notin failures /\ collected' = collected + 1
  BY DEF Collect, Abandon, Goto, Quiet, typifyVars, quicksortVars, OrderStays
<1>2. CASE at' \in {"failed", "undefined"}
  BY <1>1, <1>2, StopsBefore DEF OrderStays
<1>3. CASE at' = at /\ futures[collected + 1] \notin failures /\ collected' = collected + 1
  <2>1. /\ collected \in Nat /\ IdsOK /\ shown = 0 /\ out = <<>> /\ held = <<>>
        /\ Table(order) /\ DataRows # {} /\ DivisionInv
        /\ \A i \in 1..collected : futures[i] \notin failures
    BY <1>1 DEF CallerOK, SortedOK, AtParts
  <2>2. IdsOK' /\ DivisionInv' /\ DataRows' = DataRows
    BY <1>1, <2>1, IdsKept, DivisionsKept DEF OrderStays, DataRows
  <2>3. Table(order)'
    BY <1>1, <2>1, <2>2 DEF Table
  <2>4. \A i \in 1..(collected + 1) : futures[i] \notin failures
    <3>1. \A i \in 1..(collected + 1) : i \in 1..collected \/ i = collected + 1
      BY <2>1
    <3> QED BY <1>3, <2>1, <3>1
  <2>5. \A i \in 1..collected' : futures'[i] \notin failures'
    BY <1>1, <1>3, <2>4
  <2>6. at' = "collecting"
    BY <1>1, <1>3
  <2> QED BY <1>1, <2>1, <2>2, <2>3, <2>5, <2>6 DEF SortedOK, Before, AtParts, AllPrinted
<1> QED BY <1>1, <1>2, <1>3

\* When no future holds an exception every part was sorted, and so is the table.
LEMMA AllSorted ==
  ASSUME QuicksortOK, CallerOK, TypifyOK, SortedOK, Sorted
  PROVE  SortedOK'
<1>1. /\ at = "collecting" /\ at' = "printing" /\ collected = Len(futures) /\ SortHeader
      /\ UNCHANGED <<order, active, queue, shown>> /\ OrderStays
  BY DEF Sorted, Goto, typifyVars, sortVars, quicksortVars, OrderStays
<1>2. /\ IdsOK /\ shown = 0 /\ out = <<>> /\ held = <<>> /\ Table(order) /\ DivisionInv
         /\ types # <<>>
      /\ InputOK
      /\ \A i \in 1..collected : futures[i] \notin failures
  BY <1>1 DEF SortedOK, AtParts, TypifyOK, Working, QuicksortOK
<1>3. AllTasks = {}
  <2>1. CallerOK'
    BY SortedStep
  <2>2. active = {} /\ queue = <<>>
    BY <1>1, <2>1 DEF CallerOK, Nobody
  <2>3. Range(<<>>) = {}
    BY DEF Range
  <2> QED BY <2>2, <2>3 DEF AllTasks
<1>4. failures \cap Range(futures) = {}
  <2>1. futures \in Seq(Int \X Int)
    BY DEF QuicksortOK, FuturesOK, Submitted
  <2>2. DOMAIN futures = 1..collected
    BY <1>1, <2>1, LenProperties
  <2> QED BY <1>2, <2>2 DEF Range
<1>5. failures = {} /\ CoveredIn(order, {})
  BY <1>2, <1>3, <1>4 DEF DivisionInv, DivisionsOK, ThrownIn
<1>6. InOrder
  BY <1>2, <1>5 DEF InOrder, CoveredIn
<1>7. InOrder' /\ shown' = 0
  BY <1>1, <1>2, <1>6, InOrderKept
<1> QED BY <1>1, <1>2, <1>7, PrintingStarts

LEMMA RowPrinted ==
  ASSUME QuicksortOK, SortedOK, SortRow
  PROVE  SortedOK'
<1> PICK x : x = [n |-> IF cmd.linenumbers THEN shown' ELSE 0, row |-> order[shown'],
                  epoch |-> LosesDate(order[shown'])]
  OBVIOUS
<1>1. /\ at = "printing" /\ at' = at /\ cmd' = cmd /\ shown < Len(order) /\ shown' = shown + 1
      /\ order' = order /\ sort_ids' = sort_ids /\ OrderStays /\ Write(<<x>>)
  BY DEF SortRow, RowToShow, typifyVars, quicksortVars, OrderStays
<1>2. /\ IdsOK /\ InOrder /\ OutputOK(SortedLines) /\ shown \in 0..Len(order)
         /\ Len(Output) = shown + 1
      /\ \A k \in 1..shown : Output[k + 1].row = order[k] /\ (Output[k + 1].epoch => k = 1)
  BY <1>1 DEF SortedOK, RowsPrinted
<1>3. Len(order) \in Nat /\ DOMAIN order = 1..Len(order) /\ DataRows = 1..Len(order) /\ Table(order)
  <2>1. PICK n \in Nat : DataRows = 1..n
    BY DEF QuicksortOK, InputOK
  <2>2. order \in Seq(DataRows) /\ DOMAIN order = DataRows /\ Table(order)
    BY <1>2, <2>1 DEF InOrder, Table
  <2> QED BY <2>2, LenProperties
<1>4. shown \in Int /\ shown' \in 1..Len(order) /\ shown' \in 0..Len(order) /\ order[shown'] \in Int
  <2>1. shown' \in 1..Len(order) /\ shown' \in 0..Len(order) /\ shown \in Int
    BY <1>1, <1>2, <1>3
  <2> QED BY <1>3, <2>1 DEF Table
<1>5. x \in SortedLines /\ x.row = order[shown'] /\ (x.epoch => shown' = 1)
  <2>1. (IF cmd.linenumbers THEN shown' ELSE 0) \in Int
    BY <1>1, <1>4
  <2>2. LosesDate(order[shown']) \in BOOLEAN
    BY DEF LosesDate
  <2>3. x.epoch = LosesDate(order[shown']) /\ x.row = order[shown']
    OBVIOUS
  <2>4. LosesDate(order[shown']) => shown = 0
    BY DEF LosesDate
  <2>5. x.epoch => shown' = 1
    BY <1>1, <2>3, <2>4
  <2> QED BY <1>4, <2>1, <2>2, <2>3, <2>5 DEF SortedLines
<1>6. /\ OutputOK(SortedLines)' /\ Len(Output') = Len(Output) + 1
      /\ \A k \in 1..Len(Output) : Output'[k] = Output[k]
      /\ Output'[Len(Output) + 1] = x
  BY <1>1, <1>2, <1>5, LineWritten
<1> HIDE DEF Output
<1>7. \A k \in 1..shown' : Output'[k + 1].row = order[k] /\ (Output'[k + 1].epoch => k = 1)
  <2> TAKE k \in 1..shown'
  <2>1. CASE k = shown'
    <3>1. Output'[k + 1] = x
      BY <1>1, <1>2, <1>6, <2>1
    <3> QED BY <1>5, <2>1, <3>1
  <2>2. CASE k # shown'
    <3>1. k \in 1..shown /\ k + 1 \in 1..Len(Output)
      BY <1>1, <1>2, <1>4, <2>2
    <3> QED BY <1>2, <1>6, <3>1
  <2> QED BY <2>1, <2>2
<1>8. RowsPrinted'
  <2>1. Len(Output') = shown' + 1
    BY <1>1, <1>2, <1>4, <1>6
  <2>2. order' = order
    BY <1>1
  <2> QED BY <1>4, <1>6, <1>7, <2>1, <2>2 DEF RowsPrinted
<1>9. IdsOK' /\ InOrder'
  BY <1>1, <1>2, IdsKept, InOrderKept
<1> QED BY <1>1, <1>8, <1>9 DEF SortedOK, Before, AtParts, AllPrinted

LEMMA PrintingEnds ==
  ASSUME QuicksortOK, SortedOK, SortEnd
  PROVE  SortedOK'
<1>1. /\ at = "printing" /\ at' = "done" /\ cmd' = cmd /\ ~RowToShow
      /\ shown' = shown /\ order' = order /\ sort_ids' = sort_ids /\ OrderStays /\ Flush
  BY DEF SortEnd, Goto, typifyVars, sortVars, quicksortVars, OrderStays
<1>2. IdsOK /\ InOrder /\ RowsPrinted
  BY <1>1 DEF SortedOK
<1>3. shown = Len(order) /\ held' = <<>>
  <2>1. Len(order) \in Nat
    <3>1. PICK n \in Nat : DataRows = 1..n
      BY DEF QuicksortOK, InputOK
    <3>2. order \in Seq(DataRows)
      BY <1>2, <3>1 DEF InOrder, Table
    <3> QED BY <3>2, LenProperties
  <2>2. shown \in 0..Len(order) /\ ~(shown < Len(order))
    BY <1>1, <1>2 DEF RowsPrinted, RowToShow
  <2> QED BY <1>1, <2>1, <2>2 DEF Flush
<1>4. RowsPrinted'
  <2>1. OutputOK(SortedLines)' /\ Output' = Output
    BY <1>1, <1>2, Flushed DEF RowsPrinted
  <2> QED BY <1>1, <1>2, <2>1 DEF RowsPrinted
<1>5. IdsOK' /\ InOrder'
  BY <1>1, <1>2, IdsKept, InOrderKept
<1> QED BY <1>1, <1>3, <1>4, <1>5 DEF SortedOK, Before, AtParts, AllPrinted

LEMMA SortedStepKept ==
  SortInv /\ TypifyInv /\ SortedInv /\ [SortNext]_<<toolVars, typifyVars, sortVars>> => SortedInv'
<1> SUFFICES ASSUME SortInv, TypifyInv, SortedInv, [SortNext]_<<toolVars, typifyVars, sortVars>>,
                    cmd'.tool = "sort"
             PROVE  SortedOK'
  BY DEF SortedInv
<1>1. cmd' = cmd
  BY DEF SortNext, toolVars, SortNames, SortRejected, SortStart, SortTypes, Sorting, SortAlone,
         SortParts, CallerThrows, Abandon, Waited, Collect, Sorted, SortRow, SortRowThrows, SortEnd,
         Goto
<1>2. cmd.tool = "sort" /\ QuicksortOK /\ CallerOK /\ TypifyOK /\ SortedOK
  BY <1>1 DEF TypifyInv, SortInv, SortedInv
<1>3. TextsOK
  BY <1>2, AskedTexts
<1>4. CASE SortNames
  <2>1. sort_ids' = sort_ids /\ at' = "done" /\ cmd.show_names
    BY <1>4 DEF SortNames, Goto, sortVars
  <2> QED BY <1>1, <1>2, <2>1, StopsBefore
<1>5. CASE SortRejected
  <2>1. sort_ids' = sort_ids /\ at' \in {"failed", "rejected"}
    BY <1>5 DEF SortRejected, Goto, sortVars
  <2> QED BY <1>1, <1>2, <2>1, StopsBefore
<1>6. CASE SortStart
  <2>1. /\ at = "start" /\ at' = "typifying" /\ UNCHANGED <<failures, shown, out, held>>
    BY <1>6 DEF SortStart, Goto, Quiet, quicksortVars
  <2>2. IdsOK'
    <3>1. sort_ids' \in Seq(DataColumns) /\ DataColumns' = DataColumns
      BY <1>1, <1>2, <1>6, SortIdsFound DEF DataColumns
    <3> QED BY <3>1 DEF IdsOK
  <2> QED BY <1>1, <1>2, <2>1, <2>2, BeforeSorting DEF Before
<1>7. CASE SortTypes
  <2>1. /\ at = "typifying" /\ at' = at /\ UNCHANGED <<sort_ids, failures, shown, out, held>>
    BY <1>7 DEF SortTypes, Quiet, sortVars, quicksortVars
  <2>2. IdsOK'
    BY <1>1, <1>2, <2>1, IdsKept DEF SortedOK
  <2> QED BY <1>1, <1>2, <2>1, <2>2, BeforeSorting DEF Before
<1>8. CASE Sorting
  BY <1>2, <1>8, SortingStarts
<1>9. CASE SortAlone
  BY <1>2, <1>9, SortsAlone
<1>10. CASE SortParts
  BY <1>2, <1>3, <1>10, PartsSort
<1>11. CASE CallerThrows
  <2>1. sort_ids' = sort_ids /\ at' \in {"failed", "undefined"}
    BY <1>11 DEF CallerThrows, Abandon, Goto, sortVars
  <2> QED BY <1>1, <1>2, <2>1, StopsBefore
<1>12. CASE Waited
  BY <1>2, <1>12, WaitEnds
<1>13. CASE Collect
  BY <1>2, <1>13, FutureCollected
<1>14. CASE Sorted
  BY <1>2, <1>14, AllSorted
<1>15. CASE SortRow
  BY <1>2, <1>15, RowPrinted
<1>16. CASE SortRowThrows
  <2>1. sort_ids' = sort_ids /\ at' = "failed"
    BY <1>16 DEF SortRowThrows, Goto, sortVars
  <2> QED BY <1>1, <1>2, <2>1, StopsBefore
<1>17. CASE SortEnd
  BY <1>2, <1>17, PrintingEnds
<1>18. CASE UNCHANGED <<toolVars, typifyVars, sortVars>>
  <2>1. /\ at' = at /\ OrderStays
        /\ UNCHANGED <<order, active, queue, futures, failures, collected, shown, out, held>>
    BY <1>18 DEF toolVars, typifyVars, sortVars, quicksortVars, OrderStays
  <2> QED BY <1>2, <2>1, RowsStay
<1> QED BY <1>4, <1>5, <1>6, <1>7, <1>8, <1>9, <1>10, <1>11, <1>12, <1>13, <1>14, <1>15, <1>16,
           <1>17, <1>18 DEF SortNext

\* Each row has a place.
LEMMA EveryRow ==
  ASSUME Table(order), IsFiniteSet(DataRows)
  PROVE  {order[k] : k \in DataRows} = DataRows
<1>1. order \in Injection(DataRows, DataRows)
  BY DEF Table, Injection
<1>2. order \in Surjection(DataRows, DataRows)
  BY <1>1, FS_Injection
<1>3. order \in [DataRows -> DataRows] /\ \A r \in DataRows : \E k \in DataRows : order[k] = r
  BY <1>2 DEF Surjection
<1> QED BY <1>3

\* The rows printed are all the rows, and none of them misplaced.
LEMMA PrintedInOrder == SortInv /\ TypifyInv /\ SortedInv => SortedRows
<1> SUFFICES ASSUME SortInv, TypifyInv, SortedInv, cmd.tool = "sort", at = "done", ~cmd.show_names
             PROVE  /\ Len(out) = 1 + Cardinality(DataRows)
                    /\ {out[k + 1].row : k \in DataRows} = DataRows
                    /\ \A j, k \in DataRows : j < k => ~Misplaced(out[j + 1].row, out[k + 1].row)
                    /\ \A k \in DataRows : out[k + 1].epoch => k = 1
  BY DEF SortedRows
<1>1. /\ InputOK /\ TypifyOK /\ IdsOK /\ InOrder /\ RowsPrinted /\ shown = Len(order) /\ held = <<>>
  BY DEF SortInv, QuicksortOK, TypifyInv, SortedInv, SortedOK, AllPrinted
<1>2. TextsOK
  BY <1>1, AskedTexts
<1>3. BlanksTold
  <2>1. types # <<>>
    BY <1>1 DEF InOrder
  <2>2. \A c \in DataColumns : ColumnOK(cmd.cells, c) /\ trying[c] = TaskEnded
    BY <1>1, <2>1 DEF TypifyOK, FilledWith, TypesSettled, DataColumns
  <2> QED BY <2>2 DEF BlanksTold, ColumnOK
<1>4. PICK n \in Nat : DataRows = 1..n
  BY <1>1 DEF InputOK
<1>5. Table(order) /\ order \in [1..n -> 1..n] /\ Len(order) = n
  <2>1. Table(order) /\ order \in [1..n -> 1..n]
    BY <1>1, <1>4 DEF InOrder, Table
  <2>2. order \in Seq(1..n) /\ DOMAIN order = 1..n
    BY <1>4, <2>1
  <2> QED BY <2>1, <2>2, LenProperties
<1>6. Output = out /\ Len(out) = n + 1
  <2>1. out \in Seq(SortedLines)
    BY <1>1 DEF RowsPrinted, OutputOK
  <2>2. Output = out
    BY <1>1, <2>1, ConcatEmptySeq DEF Output
  <2> QED BY <1>1, <1>5, <2>2 DEF RowsPrinted
<1>7. \A k \in DataRows : out[k + 1].row = order[k] /\ (out[k + 1].epoch => k = 1)
  BY <1>1, <1>4, <1>5, <1>6 DEF RowsPrinted
<1>8. Len(out) = 1 + Cardinality(DataRows) /\ IsFiniteSet(DataRows)
  <2>1. IsFiniteSet(1..n) /\ Cardinality(1..n) = n
    BY FS_Interval
  <2> QED BY <1>4, <1>6, <2>1
<1>9. {out[k + 1].row : k \in DataRows} = DataRows
  <2>1. {out[k + 1].row : k \in DataRows} = {order[k] : k \in DataRows}
    BY <1>7
  <2>2. {order[k] : k \in DataRows} = DataRows
    BY <1>5, <1>8, EveryRow
  <2> QED BY <2>1, <2>2
<1>10. \A j, k \in DataRows : j < k => ~Misplaced(out[j + 1].row, out[k + 1].row)
  <2> SUFFICES ASSUME NEW j \in DataRows, NEW k \in DataRows, j < k
               PROVE  ~Misplaced(order[j], order[k])
    BY <1>7
  <2>1. order[j] \in DataRows /\ order[k] \in DataRows /\ Settled(order[j], order[k])
    BY <1>1, <1>5 DEF InOrder, Table
  <2> QED BY <1>1, <1>2, <1>3, <2>1, SettledPlaced
<1> QED BY <1>7, <1>8, <1>9, <1>10

-------------------------------------------------------------------------------
(* The theorems.                                                              *)

\* Whatever the rows, the number of threads and the order in which they run, the tasks
\* of the sort are about parts that lie apart, each with a future, no more of them can
\* make others than poolSTL counts, and the rows are always the rows of the file in some
\* order (quicksort_impl, partition_p2, get_futures).
THEOREM SortInvariant == SortSpec => []SortInv
<1>1. ToolInit /\ SortInit => SortInv
  BY SortInitially
<1>2. SortInv /\ [SortNext]_<<toolVars, typifyVars, sortVars>> => SortInv'
  BY SortStep
<1> QED BY <1>1, <1>2, PTL DEF SortSpec

\* The invariant says what a reader of the code wants to know: no place is sorted or
\* partitioned by two tasks at once, no row is lost or doubled, no task makes others once
\* the wait is over, and none is left when the rows are printed.
LEMMA ApartIsEnough == SortInv => PartsApart
<1> SUFFICES ASSUME SortInv, cmd.tool = "sort"
             PROVE  /\ \A t, u \in active \cup Range(queue) : t # u => PlacesOf(t) \cap PlacesOf(u) = {}
                    /\ IsInjective(order) /\ Range(order) \subseteq DataRows
                    /\ at = "collecting" => \A t \in active \cup Range(queue) : t.phase = "sorting"
                    /\ at \in {"printing", "done"} => active = {} /\ queue = <<>>
  BY DEF PartsApart
<1>1. QuicksortOK /\ CallerOK
  BY DEF SortInv
<1>3. ASSUME NEW t \in active \cup Range(queue), NEW u \in active \cup Range(queue), t # u
      PROVE  PlacesOf(t) \cap PlacesOf(u) = {}
  BY <1>1, <1>3, PlacesApart
<1>4. IsInjective(order) /\ Range(order) \subseteq DataRows
  <2>1. CASE Table(order)
    BY <2>1 DEF Table, Range
  <2>2. CASE order = <<>>
    BY <2>2 DEF IsInjective, Range
  <2> QED BY <1>1, <2>1, <2>2 DEF QuicksortOK, OrderOK
<1>5. at = "collecting" => \A t \in active \cup Range(queue) : t.phase = "sorting"
  BY <1>1 DEF CallerOK
<1>6. at \in {"printing", "done"} => active = {} /\ queue = <<>>
  BY <1>1 DEF CallerOK, Nobody
<1> QED BY <1>3, <1>4, <1>5, <1>6

\* No two tasks of the sort have a place in common but a part and its half, no row is lost
\* or doubled, and no task is at work when the rows are printed.
THEOREM PartsStayApart == SortSpec => []PartsApart
BY SortInvariant, ApartIsEnough, PTL

\* What the tasks of typify() know of their columns at each moment: the tests that failed,
\* the blanks met so far, and that a cell keeps the type of its text, whatever was asked of
\* it, but for the words of booleans (typify, typed_span).
THEOREM TypifyInvariant == SortSpec => []TypifyInv
<1>1. ToolInit /\ SortInit => TypifyInv
  BY DEF ToolInit, SortInit, TypifyInit, TypifyInv, TypifyOK, Asked, Working
<1>2. SortInv /\ TypifyInv /\ [SortNext]_<<toolVars, typifyVars, sortVars>> => TypifyInv'
  BY TypifyStep
<1> QED BY <1>1, <1>2, SortInvariant, PTL DEF SortSpec

\* When csvSort compares and prints, a column is said to have blanks exactly if one of its
\* cells is a blank, wherever the scan of the column stopped.
THEOREM BlanksAlwaysKnown == SortSpec => [](cmd.tool = "sort" => BlanksKnown)
BY TypifyInvariant, TypesTold, PTL

\* And a column without the words of booleans has the first type each of its texts fits
\* on its own, in whatever order the texts come and whatever the tests before have cached.
THEOREM TypesAlwaysFit == SortSpec => [](cmd.tool = "sort" => TypesFit)
BY TypifyInvariant, TypesTold, PTL

\* What the sort knows while it divides the rows: a part that was partitioned is split by
\* a row, two rows are in the right order or in a part that is still to be sorted, and an
\* exception is in a future that will be asked for (quicksort_impl, partition_p2,
\* get_futures).
THEOREM SortedInvariant == SortSpec => []SortedInv
<1>1. ToolInit /\ SortInit => SortedInv
  BY SortedInitially
<1>2. SortInv /\ TypifyInv /\ SortedInv /\ [SortNext]_<<toolVars, typifyVars, sortVars>> => SortedInv'
  BY SortedStepKept
<1> QED BY <1>1, <1>2, SortInvariant, TypifyInvariant, PTL DEF SortSpec

\* csvSort prints every row once and none after a row that should follow it, whatever the
\* cells, the columns asked for, the number of threads and the order in which they run
\* (sort_comparator, common_compare_impl, parallel_quicksort).
THEOREM RowsAreSorted == SortSpec => []SortedRows
BY SortInvariant, TypifyInvariant, SortedInvariant, PrintedInOrder, PTL
===============================================================================
