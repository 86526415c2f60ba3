---------------------------------- MODULE Stat ----------------------------------
(***************************************************************************)
(* csvStat: statistics of some columns.  The columns selected are copied   *)
(* into a table, a task for each finds its type, another its statistics,   *)
(* and the columns are printed one after the other: as plain text, as CSV, *)
(* as JSON, or, for a single operation, that statistic alone.              *)
(*                                                                         *)
(* A statistic is <<v>>, or <<>> where the tool says None.  Values are      *)
(* numbers whose order is that of the values of the column's type; the     *)
(* median is doubled.  Left out: mean, standard deviation, precision,      *)
(* --freq-count 0.                                                         *)
(***************************************************************************)
EXTENDS Typify, ColumnIds, Functions

VARIABLES
  stat_ids,      \* the columns selected
  unfinished,    \* places of them whose task has not ended
  results,       \* the statistics of each place
  columns_shown  \* places printed

statVars == <<stat_ids, unfinished, results, columns_shown>>

\* A column for each name, with a text for every row.
ASSUME StatAssumption ==
  \A tool \in DOMAIN Commands : \A c \in Commands[tool] : c.tool = "stat" =>
    /\ c.names \in Seq(STRING) /\ AreIds(c.ids) /\ c.format \in {"text", "csv", "json"}
    /\ c.cells \in Seq(Seq(Texts)) /\ \A k \in DOMAIN c.cells : Len(c.cells[k]) = Len(c.cells[1])
    /\ c.names # <<>> => Len(c.cells) = Len(c.names)
    /\ c.freq_count \in Nat \ {0}

NoStatistics == [s \in {} |-> <<>>]
StatInit == stat_ids = <<>> /\ unfinished = {} /\ results = <<>> /\ columns_shown = 0

StatIds == ParseColumnIdentifiers(cmd.ids, <<>>, HeaderNames(cmd.names), cmd.zero)
StatLine(kind, id, label, statistics) ==
  [kind |-> kind, id |-> id, label |-> label, statistics |-> statistics]
Mark(kind) == StatLine(kind, 0, "", NoStatistics)

(***************************************************************************)
(* The values of a column.                                                 *)
(***************************************************************************)
\* The class of a column's type reads a cell with unsafe(), num(), timedelta_seconds(),
\* date(), datetime() or str(); a boolean word has its number cached.
Measure(type, cell) ==
  CASE type = "bool" \/ (type = "number" /\ cell.text \in BooleanWords) ->
         IF cell.text \in {"0", "F"} THEN 0 ELSE 1
    [] type = "number" /\ cell.text \notin BooleanWords -> NumberOf[cell.text]
    [] type = "timedelta" -> SecondsOf[cell.text]
    [] type = "date" -> IF DateOf(cell) THEN Rank(cell.text) ELSE 0
    [] type \in {"datetime", "text"} -> Rank(cell.text)

\* A null is passed over; in a column of text without blanks it is a value.
Counts(k, cell) == ~IsNull(cell) \/ (types[k] = "text" /\ ~has_blanks[k])
Measured(k) == {r \in DataRows : Counts(k, table[k][r])}
Values(k) == [r \in Measured(k) |-> Measure(types[k], table[k][r])]
NullNumber(k) == Cardinality(DataRows \ Measured(k))

\* mcv_map: how often each value occurs.
Keys(k) == Range(Values(k))
Occurrences(values, v) == Cardinality({r \in DOMAIN values : values[r] = v})
Times(k, v) == Occurrences(Values(k), v)

\* The values of a column in any order, and in order.
Arranged(values) ==
  LET n == Cardinality(DOMAIN values)
      orders == {p \in [1..n -> DOMAIN values] : IsInjective(p)}
  IN  {[i \in 1..n |-> values[p[i]]] : p \in orders}
Ascending(values) == {a \in Arranged(values) : \A j \in DOMAIN a : \A i \in 1..j : a[i] <= a[j]}
\* nth_element puts the middle value in its place, none greater before it and none
\* less after it, and leaves the rest in any order.
NthElement(values) ==
  LET middle == Cardinality(DOMAIN values) \div 2 + 1 IN
  {a \in Arranged(values) : /\ \A i \in 1..(middle - 1) : a[i] <= a[middle]
                            /\ \A j \in (middle + 1)..Len(a) : a[middle] <= a[j]}
\* Mutant: the value left of the middle, not the greatest.
MedianBeside(k) ==
  LET twice(a) ==
        LET half == Len(a) \div 2 IN
        IF Len(a) % 2 = 1 THEN 2 * a[half + 1] ELSE a[half + 1] + a[half]
  IN  {twice(a) : a \in NthElement(Values(k))}
\* With nulls the column is sorted, the nulls last, and its good part taken.
Median(k) ==
  LET twice(a) ==
        LET half == Len(a) \div 2 IN
        IF Len(a) % 2 = 1 THEN 2 * a[half + 1]
        ELSE a[half + 1] + (IF NullNumber(k) > 0 THEN a[half] ELSE Max({a[i] : i \in 1..half}))
  IN  {twice(a) : a \in IF NullNumber(k) > 0 THEN Ascending(Values(k)) ELSE NthElement(Values(k))}

\* partial_sort: the most frequent values, those of the same count in any order.
McvVec(k) ==
  LET n == Min({Cardinality(Keys(k)), cmd.freq_count})
      best(q) == \A i \in 1..n : \A v \in Keys(k) \ {q[j] : j \in 1..i} :
                   Times(k, v) <= Times(k, q[i])
  IN  {q \in [1..n -> Keys(k)] : IsInjective(q) /\ best(q)}

(***************************************************************************)
(* mcv(): the list of the most common values, None among them at its       *)
(* place.  A separator goes before every item but the first.               *)
(***************************************************************************)
Item(kind, value, times) == [kind |-> kind, value |-> value, times |-> times]
Space(list) == IF list.items = <<>> THEN list
               ELSE [list EXCEPT !.items = Append(@, Item("separator", 0, 0))]
PutNone(list, nulls) ==
  [list EXCEPT !.items = Append(@, Item("none", 0, nulls)), !.none_printed = TRUE,
               !.num_printed = @ + 1]
PutValue(list, value, times) ==
  [list EXCEPT !.items = Append(@, Item("value", value, times)), !.num_printed = @ + 1]

\* One value: None first if there are more nulls, and the value if there is room left.
PutNext(list, value, times, nulls) ==
  LET spaced == Space(list)
      noned == IF spaced.none_printed THEN spaced ELSE Space(PutNone(spaced, nulls))
  IN  IF times >= nulls THEN PutValue(spaced, value, times)
      ELSE IF noned.num_printed < cmd.freq_count THEN PutValue(noned, value, times)
      ELSE noned

Mcv(k, mcv_vec) ==
  LET nulls == NullNumber(k)
      start == [items |-> <<>>, none_printed |-> FALSE, num_printed |-> 0]
      put[n \in 0..Len(mcv_vec)] ==
        IF n = 0 THEN start ELSE PutNext(put[n - 1], mcv_vec[n], Times(k, mcv_vec[n]), nulls)
      list == put[Len(mcv_vec)]
  IN  IF nulls > 0 /\ ~list.none_printed /\ list.num_printed # cmd.freq_count
      THEN PutNone(Space(list), nulls).items
      ELSE list.items

(***************************************************************************)
(* The statistics of a column, by the class of its type.                   *)
(***************************************************************************)
Always == {"type", "nulls", "non_nulls", "unique", "freq"}
Offered(type) ==
  Always \cup
  CASE type = "number" -> {"min", "max", "sum", "median"}
    [] type = "timedelta" -> {"min", "max", "sum"}
    [] type \in {"date", "datetime"} -> {"min", "max"}
    [] type = "text" -> {"len"}
    [] type = "bool" -> {}

\* complete(), and unique() of each class.
Unique(k) == Cardinality(Keys(k)) + (IF NullNumber(k) > 0 THEN 1 ELSE 0)
Longest(k) == Max({0} \cup {Len(table[k][r].text) : r \in Measured(k)})

\* An operation by itself; nulls() and non_nulls() are the same for every class and ask
\* the cells, not the blanks.
Operation == cmd.operations \ {"count"}
NullsOf(k) == IF Operation = {} THEN NullNumber(k)
              ELSE Cardinality({r \in DataRows : IsNull(table[k][r])})
\* One statistic.  The least and the greatest time delta go through a float, in which the
\* few whole seconds of Deltas are exact: how it rounds longer ones is left out.
Statistic(k, s, median, mcv_vec) ==
  CASE s \notin Offered(types[k]) -> <<>>
    [] s \in Always ->
         <<CASE s = "type" -> types[k]
             [] s = "nulls" -> NullsOf(k) > 0
             [] s = "non_nulls" -> Cardinality(DataRows) - NullsOf(k)
             [] s = "unique" -> Unique(k)
             [] s = "freq" -> Mcv(k, mcv_vec)>>
    [] OTHER ->
         <<CASE s = "min" -> Min(Keys(k))
             [] s = "max" -> Max(Keys(k))
             [] s = "sum" -> SumFunction(Values(k))
             [] s = "median" -> median
             [] s = "len" -> Longest(k)>>

\* std::find: of the places of a column selected twice the first alone has a class;
\* the others have none that calculates.
Calculates(k) == \A j \in 1..(k - 1) : stat_ids[j] # stat_ids[k]
Statistics(k) ==
  LET wanted == IF Operation = {} THEN Offered(types[k]) ELSE Operation
      medians == IF types[k] = "number" /\ "median" \in wanted THEN Median(k) ELSE {0}
      lists == IF "freq" \in wanted THEN McvVec(k) ELSE {<<>>}
  IN  {[s \in wanted |-> Statistic(k, s, m, l)] : m \in medians, l \in lists}

(***************************************************************************)
(* stat().                                                                 *)
(***************************************************************************)
\* is_operation.
StatMisused ==
  \/ Cardinality(cmd.operations) > 1
  \/ Operation # {} /\ cmd.format # "text"
StatRefused ==
  \/ cmd.show_names /\ cmd.no_header
  \/ StatMisused
  \/ cmd.ragged \/ cmd.names = <<>> \/ 0 \in cmd.long
StatOf(condition, place, lines) ==
  /\ at = "start" /\ condition
  /\ Goto(place) /\ out' = out \o lines /\ UNCHANGED held
  /\ UNCHANGED <<typifyVars, statVars>>

\* The rows can be counted ahead, unless they must be checked for long fields.
CountAhead == "count" \in cmd.operations /\ ~cmd.limited
CountLine == StatLine("count", Cardinality(DataRows), "", NoStatistics)
StatRejected == StatOf(StatRefused, "failed", <<>>)
StatNames == StatOf(~StatRefused /\ cmd.show_names, "done", <<Mark("names")>>)
StatCounted ==
  StatOf(~StatRefused /\ ~cmd.show_names /\ CountAhead, "done", <<CountLine>>)

\* The columns are looked up first, then the rows read.
Examined == ~StatRefused /\ ~cmd.show_names /\ ~CountAhead
StatUnknown == StatOf(Examined /\ ~Understood(StatIds), "rejected", <<>>)
StatTooLong == StatOf(Examined /\ Understood(StatIds) /\ cmd.long # {}, "failed", <<>>)
Filled == Examined /\ Understood(StatIds) /\ cmd.long = {}
StatCount == StatOf(Filled /\ "count" \in cmd.operations, "done", <<CountLine>>)
StatFill ==
  /\ at = "start" /\ Filled /\ "count" \notin cmd.operations
  /\ stat_ids' = StatIds /\ TypifyStart([k \in DOMAIN StatIds |-> cmd.cells[StatIds[k]]])
  /\ Goto("typifying") /\ Quiet /\ UNCHANGED <<unfinished, results, columns_shown>>
StatTypes ==
  /\ at = "typifying" /\ TryTypes
  /\ Quiet /\ UNCHANGED <<cmd, at, statVars>>
StatTasks ==
  /\ at = "typifying" /\ TypifyEnd
  /\ unfinished' = DOMAIN stat_ids
  /\ results' = [k \in DOMAIN stat_ids |-> NoStatistics]
  /\ Goto("calculating") /\ Quiet /\ UNCHANGED <<stat_ids, columns_shown>>

\* One task for each place, in any order; it arranges its own column as it likes.
StatTask(k) ==
  /\ at = "calculating" /\ k \in unfinished
  /\ unfinished' = unfinished \ {k}
  /\ \E statistics \in (IF Calculates(k) THEN Statistics(k) ELSE {NoStatistics}) :
       results' = [results EXCEPT ![k] = statistics]
  /\ Quiet /\ UNCHANGED <<cmd, at, typifyVars, stat_ids, columns_shown>>
StatColumn == \E k \in unfinished : StatTask(k)
StatWaited ==
  /\ at = "calculating" /\ unfinished = {}
  /\ Goto("printing") /\ Quiet /\ UNCHANGED <<typifyVars, statVars>>

\* A column, with its number and name; an operation names it only among others.
ColumnLines(k) ==
  LET c == stat_ids[k]
      named == Operation = {} \/ Len(stat_ids) > 1
  IN  IF ~Calculates(k) THEN <<>>
      ELSE <<IF named THEN StatLine("column", c, HeaderNames(cmd.names)[c], results[k])
             ELSE StatLine("column", 0, "", results[k])>>

\* csv_print_visitor prints the header the first time there is one.
CsvLines(k) == (IF k = 1 THEN <<Mark("header")>> ELSE <<>>) \o ColumnLines(k)
\* Mutant: a comma after every column.
JsonColumnComma(k) ==
  (IF k = 1 THEN <<Mark("open")>> ELSE <<>>) \o ColumnLines(k) \o <<Mark("comma")>>
\* json_print_visitor: what follows depends on cur_col, which a place without a class
\* leaves 0, having printed an object with nothing in it.
JsonColumn(k) ==
  (IF k = 1 THEN <<Mark("open")>> ELSE <<>>)
  \o (IF Calculates(k) THEN ColumnLines(k) ELSE <<Mark("empty")>>)
  \o <<Mark(IF Calculates(k) /\ k = Len(stat_ids) THEN "close" ELSE "comma")>>

StatPrint ==
  /\ at = "printing" /\ columns_shown < Len(stat_ids)
  /\ columns_shown' = columns_shown + 1
  /\ out' = out \o (CASE cmd.format = "text" -> ColumnLines(columns_shown')
                      [] cmd.format = "csv" -> CsvLines(columns_shown')
                      [] cmd.format = "json" -> JsonColumn(columns_shown'))
  /\ UNCHANGED <<cmd, at, held, typifyVars, stat_ids, unfinished, results>>

\* The first column is asked for the row count, though there may be none.
Counting == cmd.format = "text" /\ Operation = {}
StatEnd ==
  /\ at = "printing" /\ columns_shown = Len(stat_ids) /\ ~(Counting /\ stat_ids = <<>>)
  /\ Goto("done") /\ UNCHANGED <<held, typifyVars, statVars>>
  /\ out' = IF Counting THEN Append(out, CountLine) ELSE out
StatOfNothing ==
  /\ at = "printing" /\ Counting /\ stat_ids = <<>>
  /\ Goto("undefined") /\ Quiet /\ UNCHANGED <<typifyVars, statVars>>

StatNext ==
  \/ StatRejected \/ StatNames \/ StatCounted \/ StatUnknown \/ StatTooLong \/ StatCount
  \/ StatFill \/ StatTypes \/ StatTasks \/ StatColumn \/ StatWaited \/ StatPrint
  \/ StatEnd \/ StatOfNothing

StatSpec ==
  ToolInit /\ TypifyInit /\ StatInit /\ [][StatNext]_<<toolVars, typifyVars, statVars>>

(***************************************************************************)
(* Properties.                                                             *)
(***************************************************************************)
StatDone == cmd.tool = "stat" /\ at = "done" /\ types # <<>>
ColumnsIn(lines) ==
  FlattenSeq([i \in DOMAIN lines |-> IF lines[i].kind = "column" THEN <<lines[i]>> ELSE <<>>])
ColumnsPrinted == ColumnsIn(Output)
FirstPlaces == FlattenSeq([k \in DOMAIN stat_ids |-> IF Calculates(k) THEN <<k>> ELSE <<>>])
ColumnOf(line) == IF line.id = 0 THEN stat_ids[1] ELSE line.id

\* What a column holds: its type, its nulls, its values by their rows.
TypeOf(c) == FirstFit(Range(cmd.cells[c]))
RowsKept(c) == {r \in DataRows : cmd.cells[c][r] # Null \/ cmd.blanks}
NullsIn(c) == Cardinality(DataRows \ RowsKept(c))
ValuesIn(c) ==
  [r \in RowsKept(c) |-> Measure(TypeOf(c), AfterDate(Fresh(cmd.cells[c][r])))]

\* The statistics by their definitions: the nth value has fewer than n values below it
\* and at least n that are not above.
Below(values, v) == Cardinality({r \in DOMAIN values : values[r] < v})
NotAbove(values, v) == Cardinality({r \in DOMAIN values : values[r] <= v})
Nth(values, n) == CHOOSE v \in Range(values) : Below(values, v) < n /\ NotAbove(values, v) >= n
Expected(c, s) ==
  LET values == ValuesIn(c)
      many == Cardinality(RowsKept(c))
  IN  CASE s = "type" -> TypeOf(c)
        [] s = "nulls" -> NullsIn(c) > 0
        [] s = "non_nulls" -> many
        [] s = "unique" -> Cardinality(Range(values)) + Min({1, NullsIn(c)})
        [] s = "min" -> Nth(values, 1)
        [] s = "max" -> Nth(values, many)
        [] s = "sum" -> SumFunction([v \in Range(values) |-> v * Occurrences(values, v)])
        [] s = "median" -> Nth(values, (many + 1) \div 2) + Nth(values, many \div 2 + 1)
        [] s = "len" -> Max({0} \cup {Len(cmd.cells[c][r]) : r \in RowsKept(c)})

\* A list of frequent values has as many as there are, up to the limit, each with its
\* count, the more frequent ones first and none left out that is more frequent than one
\* listed; None stands among them.  A separator is between each two, and one more
\* after the last if None has taken the place of a value that is not printed.
FreqTrue(c, items) ==
  LET values == ValuesIn(c)
      shown == [i \in 1..((Len(items) + 1) \div 2) |-> items[2 * i - 1]]
      all == {Item("value", v, Occurrences(values, v)) : v \in Range(values)}
               \cup (IF NullsIn(c) > 0 THEN {Item("none", 0, NullsIn(c))} ELSE {})
  IN  /\ \A i \in DOMAIN items : (items[i].kind = "separator") = (i % 2 = 0)
      /\ Range(shown) \subseteq all /\ IsInjective(shown)
      /\ Len(shown) = Min({Cardinality(all), cmd.freq_count})
      /\ \A i \in DOMAIN shown : \A item \in all \ {shown[j] : j \in 1..i} :
           item.times <= shown[i].times
      /\ (items # <<>> /\ Len(items) % 2 = 0) =>
           Len(shown) < Cardinality(all) /\ \E item \in Range(shown) : item.kind = "none"

\* Every statistic printed for a column is that of the cells the source has under its
\* name, whatever the other tasks did, whatever typify() cached in the cells, and however
\* the column was arranged for its median; a statistic the type does not have is None
\* (prepare() and the operations of each class, mcv()).  A column of boolean words has
\* the type of its first rows; --nulls and --non-nulls do not know --blanks.
BlindOperation == cmd.blanks /\ Operation \cap {"nulls", "non_nulls"} # {}
StatTrue ==
  StatDone /\ ~BlindOperation => \A line \in Range(ColumnsPrinted) :
    LET c == ColumnOf(line) IN
    Range(cmd.cells[c]) \cap BooleanWords = {} =>
      /\ DOMAIN line.statistics = IF Operation = {} THEN Offered(TypeOf(c)) ELSE Operation
      /\ \A s \in DOMAIN line.statistics :
           LET said == line.statistics[s] IN
           IF s \notin Offered(TypeOf(c)) THEN said = <<>>
           ELSE IF s = "freq" THEN FreqTrue(c, said[1])
           ELSE said = <<Expected(c, s)>>

\* Each column selected is printed once, at its first place and under its own name, an
\* operation's result without one only if there is one column; text ends with the number
\* of rows, CSV begins with a header, JSON is an array of objects unless a column was
\* selected twice (stat(), the visitors).
StatTable ==
  StatDone =>
    LET n == Len(Output)
        json == [i \in 1..n |-> Output[i].kind]
    IN  /\ Len(ColumnsPrinted) = Cardinality(Range(stat_ids))
        /\ \A i \in DOMAIN ColumnsPrinted :
             LET line == ColumnsPrinted[i] IN
             /\ ColumnOf(line) = stat_ids[FirstPlaces[i]]
             /\ line.id = 0 => Operation # {} /\ Len(stat_ids) = 1
             /\ line.id # 0 => line.label = HeaderNames(cmd.names)[line.id]
        /\ Counting => Output[n] = CountLine
        /\ (cmd.format = "csv" /\ stat_ids # <<>>) =>
             \A i \in 1..n : (Output[i].kind = "header") = (i = 1)
        /\ (cmd.format = "json" /\ stat_ids # <<>> /\ IsInjective(stat_ids)) =>
             /\ n = 2 * Len(stat_ids) + 1
             /\ \A i \in 1..n : json[i] = IF i = 1 THEN "open" ELSE IF i = n THEN "close"
                                          ELSE IF i % 2 = 0 THEN "column" ELSE "comma"
===============================================================================
