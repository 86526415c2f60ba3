# csvsuite in TLA+

csvsuite is a set of command-line tools for CSV files, written in C++20 after csvkit. This
directory holds TLA+ models of it, the TLC configurations that check them on small instances,
and proofs that TLAPS checks. `csvJoin`, whose result depends on worker threads, cached column
types and reader positions at once, and `csvSql`, the only tool that leaves something behind when
it fails, have models and properties of their own. The smaller tools (`csvClean`, `csvStack`,
`csvCut`, `csvGrep`, `csvSort`, `csvJson`, `csvLook`, `csvStat`, and of `In2csv` the choice of a
converter and the one for lines of JSON) are modules composed into one model of the suite.

## 1. The system

Every tool is a process that reads its command line (argparse), opens one or more sources,
works, and writes CSV to standard output. `main` catches `std::exception` and prints its
message. Nothing survives the process except what csvSql writes to a database. The concurrency
is fork/join: `transwarp::for_each` over columns, `std::for_each(poolstl::par, ...)` over rows.

| Component | State | Operations | What makes it correct |
|---|---|---|---|
| Readers (`csv_co::reader`, external) and `cli.h` | the position in the file; static locale and null values | `skip_rows`, `skip_lines`, `obtain_header_and_`, `run_rows`, `rows`, `cols` | whoever uses a reader finds it where it expects it |
| `typify` (`cli.h`) | types, blanks, precisions of the columns | one task per column; `no_body_exception` | a column's type fits all its cells, its blank flag is set iff it has a null |
| Cells (`reader-bridge-impl.hpp`) | a cached parse per cell | `is_null...`, `is_num`, `is_boolean`, `num`, `text_compare` | the answer does not depend on what was asked before |
| Comparison and hashing (`cli-compare.h`, `cli-hash.h`) | the table, the hash map, static comparison and hash functions | `compromise_table_MxN`, `compromise_hash`, the dispatch on blanks and `-I` | equal cells hash alike; no function meets a cell it cannot parse |
| csvJoin (`csvJoin.cpp`, `csvjoin/*.h`) | deques of sources, headers, types, key columns; the join in progress; the workers' slots | filling, `can_compare`, two matching passes, union, cleanup, recalculation, printing | the result is the relational join, in file order, under the right header |
| csvSql (`csvSql.cpp`, `csvsql/*.cpp`, `sql_utils/*.h`) | a session, transactions, prepared statements, a buffer of rows, optional indicators | create table, before/after insert, simple and batched insertion, query | every row is inserted once; null stays null; statements run in the order given |
| csvStack | the header union, the group column, where each file's columns go | header reconciliation, rows with absent columns filled in | every row of every file, in order, each cell under its own name |
| csvClean | two files created late, static counters of lines | width check of each row, errors with their row, dry run | no row is lost: each is in the output or in the errors |
| csvCut, csvGrep | column ids, patterns, static counters of lines | selection, exclusion, filtering | a row or column is printed iff the options say so, and numbered right |
| csvSort | a table, types, comparators, the tasks of a parallel sort | `typify`, sort, printing from the caches of the cells | every row once, none after one that should follow it |
| csvJson | key set, the box, a string stream | key check, box, arrays, objects, streams, GeoJSON | JSON that can be read; keys unique |
| csvLook | the widths of the columns | a pass that measures, one that prints | lines of one length, limits kept |
| csvStat | a table of the columns selected, a task for each | types, statistics by class, three printers | a statistic of a column depends only on its cells |
| In2csv | a converter, the header accumulated, the columns | conversion to CSV | the header is the union of the records' keys, each value under its key |
| Sql2csv | a connection, a rowset | one query printed | what it executes is csvSql's `rowset_query` |

**Interactions.** Tools share headers, not processes. csvJoin calls `typify` once per file and,
after an outer join, once more on the joined table; it hands the types to `compromise_hash`,
which picks the comparison and the hash functions from them; it finds the reader of a file where
the *last* constructor left it. These implicit contracts are where the hazards are.

**Hard behaviour.** Workers in any order; a reader's position after an exception; cached types
of a table that has just been replaced; a `noexcept` hash that parses; padding under typed
columns; four deques changed in different places; a comparison that throws in a task of a
sort; a cell whose cached type was changed by a test that failed; statics that outlive a file.
`PROJECT.json` lists every hazard at its line
with the properties that cover it.

## 2. Modules

| Module | Models |
|---|---|
| `IsSequence` | what it is to be a sequence, of elements of any kind |
| `CsvTables` | cells, values, readers and their positions, header and skipped lines, `typify()` of a table, the no-body case |
| `HeaderMangle` | `concat_headers`: the renaming of columns with a name already taken |
| `Join` | `join()` of csvJoin: a state machine with one action per step of the code |
| `RelationalJoin` | what csvJoin promises: a sequence of relational joins, one step per file |
| `JoinProperties` | the properties of `Join`, and the refinement mapping to `RelationalJoin` |
| `MCJoin` | the instances for TLC |
| `JoinProofs` | proofs about `Join`: types, lockstep, the slots of the workers, no row of a preserved file is lost; the columns of the tables, what is known of the key columns, and that no name is there twice |
| `JoinRefinesProofs` | proof that `Join` implements `RelationalJoin`, and that a cell printed by type can be |
| `SqlEffects` | what csvSql does to a database, as a log of effects: the composer of tables, rows as they are bound, what the database refuses |
| `SqlLoad` | `sql()` of csvSql with its two clients: a state machine over sessions, transactions, the slots of a chunk and the lists of statements |
| `AtomicLoad` | what csvSql promises its database: whole units of the command line, in order |
| `SqlProperties` | the properties of `SqlLoad`, the refinement mapping to `AtomicLoad`, the inductive invariant |
| `MCSql` | the instances for TLC |
| `SqlProofs` | proofs about `SqlLoad`: its types, buffer and transactions, and that it implements `AtomicLoad` |
| `AnySequence` | lemmas about sequences of anything, and an induction over numbers; used by all proofs |
| `Tool` | what the smaller tools share: a command line, a place in the work, standard output and what `--ASAP` off keeps back |
| `ColumnIds` | `parse_column_identifiers`: names, numbers, ranges, exclusion, refusals |
| `Cells` | a cell, its cached type and value, and the tests that change it |
| `Typify` | `typify()`: one task for each column, trying the types in order |
| `Clean`, `Stack`, `Cut`, `Grep`, `Sort`, `Json`, `Look`, `In2csv`, `Stat` | a tool each, with its properties |
| `Suite` | the tools composed: a run of the suite is a run of one of them |
| `MCSuite` | the instances for TLC |
| `ToolProofs` | proofs about `Cut`, `Grep`, the columns `ColumnIds` finds, `Clean`, `Stack` and `Look` |
| `JsonProofs` | proofs about `Json` and `In2csv` |
| `SortProofs` | proofs about `Typify`, for any tool, and about `Sort`: the parallel sort |
| `StatProofs` | proofs about `Stat`: its table, its types, its statistics |

`Join` and `SqlLoad` both extend `CsvTables`, as both tools read their files through the same
readers and `typify()`; there typify() is one step, since what matters is what the tools make of
its result. `Typify` models the same function task by task, for the tools that show the types
themselves. The tools share no state: each is a process of its own.

### How `Join` corresponds to the code

`deq`, `headers`, `ts_n_blanks`, `c_ids`, `impl` and `recalculate` are the code's variables of
those names (`recalculate_types_blanks` shortened). `hash` is the `compromise_hash` in use: the
hashed rows, the key column, and what decides how keys are compared. `table`, `join_vec` and
`todo` are the parallel `for_each`: the rows, their slots, and the rows no worker has done yet.
`pc` says where `join()` is.

| Action | Code |
|---|---|
| `Fill`, `FillRejected` | `auxiliary_queue_filler.h`, one file per step |
| `CanCompare` | `can_compare.h`, with its coercion of both key types to text |
| `HashRight`, `OpenLeft` | the two constructors at the start of inner, left/right and outer joins |
| `WorkFirst(i)`, `MergeFirst` | one iteration of the first parallel loop; the merge after it |
| `NoBody` | the handlers of `no_body_exception` |
| `HashLeft`, `WorkSecond(i)`, `MergeSecond`, `NoBodySecond` | the second pass of `outer_join.h` |
| `Disjoint` | keys that cannot be compared |
| `Union`, `UnionOfEmpty` | `union_join.h`, and the read of an empty table |
| `Cleanup` | `cycle_cleanup`, the recalculation of outer joins and `push_front` |
| `PrintResults` | `print_results` and `print_func` |

Final states: `done` (printed), `rejected` (`ColumnIdentifierError`, a message), `failed` (an
exception reached `main`), `terminated` (`std::terminate` from the `noexcept` hash) and
`undefined` (a read of an element of an empty vector). The model follows the release build, with
assertions compiled out; assertions appear as properties.

### How `SqlLoad` corresponds to the code

`file` is the iterator over `r_man.get_readers()`, `file_no` is `create_table_composer::file_no`,
`table` the phrase and the types of the composer. `row` counts the rows `run_rows` has passed,
`holder` and `offset` are the inserters' `data_holder` (with `indicators`) and `offset`; the
simple inserter is a chunk of one. `script` is the position in the list of statements being
executed. `tx`, `pending` and `committed` are the session, as the database sees it. `unwinding`
says that it is an exception that destroys the `table_inserter`. `at` is the place in the code.

| Action | Code |
|---|---|
| `Check` | the option checks of `sql()` |
| `ComposeNoBody`, `ComposeFails`, `Compose` | the constructor of `create_table_composer`, printing included when there is no database |
| `Create`, `CreateFails` | `table_creator` |
| `BeginScript`, `ScriptStep`, `EndBefore`, `EndAfter` | the lists of statements in the constructor and the destructor of `table_inserter` |
| `Insert`, `InsertFails` | `begin` and the preparation of the insert statement |
| `ReadRow`, `ReadFails`, `EndRows` | `insert_data`: a row bound and perhaps a chunk executed; a conversion that throws; the rest of the rows and `commit` |
| `Query`, `QueryFails`, `QueryHeader`, `NoQuery` | `query` and `rowset_query` |
| `Rethrow` | the exception on its way to `main` once the destructor is done |
| `Crash` | the process ends, anywhere |

Final states: `done`, `failed` (an exception reached `main`), `terminated` (an exception left the
destructor of `table_inserter`, which is `noexcept`) and `crashed`.

**The database** is external to the tools and is modelled by a log of effects: tables created,
rows inserted, statements of the user's that wrote something. From the log follow the tables
that exist, and whether a `CREATE TABLE`, the preparation of an `INSERT`, a row (`NOT NULL`,
`UNIQUE`) is refused. The backends differ in what `BEGIN` does in an open transaction: sqlite3
refuses it, postgresql warns unless the transaction is aborted, mysql commits; and the Oracle
client turns autocommit on, so that an array insert that fails half way leaves rows the next
statement commits, or the end of the connection does, or nothing does (a choice of the model).

### How the smaller tools correspond to the code

`cmd` is the command line with the contents of the sources, `at` the place in the code, `out`
standard output; `held` is the `std::ostringstream` that is written instead of `std::cout` when
`--ASAP` is off, and `Flush` prints it. Final states: `done`, `rejected` (a message and no more
output), `failed` (an exception reached `main`) and `undefined` (an operation the language leaves
undefined). An `Output` in a property is what is printed or kept back.

| Module | Variables | Actions, and the code they stand for |
|---|---|---|
| `Clean` | `rows`, `errors`, `good_rows`, `bad_rows`, `current_row` as in the code; `files` the two files; `log` what a dry run says | `CleanStart` (header check), `GoodRow` and `BadRow` (`print_line` in either branch, the file opened and its header printed by the first line), `NoRow` (a row end without cells), `TooLong` (field size checker), `CleanEnd` |
| `Stack` | `final_header`, `replace_vec`, `replace_idx`, `group_idx`, the row kept from file to file, `line_nums` | `StackStart` (the union of the headers and every refusal), `PutFirst` (the first file), `PutRest` (a row spread over the union), `PutOutside` (a place outside the row), `NextReader`, `StackEnd` |
| `Cut` | `cut_ids`, the rows read, the statics `line` and `label` (`say_ln`) | `CutRejected`, `CutStart`, `CutRow` (`print_container`), `CutEmptyRow` (dropped by `-x`), `CutNothing` (no columns: `undefined`), `CutEnd` |
| `Grep` | `grep_ids`, the rows searched | `GrepRejected`, `GrepStart`, `GrepRow` (`search_and_output`), `GrepEnd` |
| `Typify` | `table` with the caches of its cells, the test each column's task is at, `types`, `has_blanks` | `TypifyStart`, `TryType(c)` (one `all_of` of a column's task: the cells up to the first that does not fit, with what the test left in their caches), `TypifyEnd` |
| `Sort` | `queue` and `active` (poolSTL's tasks, waiting and running), `inflight_spawns`, `futures`, the arrangement of the rows | `SortAlone`; `Partition`, `AskForHelp`, `OwnHalf`, `OtherHalf`, `Merge` (both parts of a parallel partition), `Spawn`, `Notify`, `SortPart`, `Throw` (a step of one task); `CallerThrows`, `Waited`, `Collect` (the caller: its own partition, the wait, the futures); `SortRow`, `SortRowThrows` |
| `Json` | `dups`, `nulls`, `bbox`, the row of the pass | `CheckKey`, `KeyRefused` (the first pass), `Bound`, `Boundless` (the box), `JsonOpen`, `JsonObject`, `JsonClose` (the output, as a sequence of tokens) |
| `Look` | the limits after the column of numbers is counted in, `max_sizes`, the row of the pass | `LookMeasure` (the widths), `LookHead`, `LookRow`, `LookNumbered`, `LookDots`, `LookEnd` |
| `In2csv` | `csv_map`, `result_header`, `total_rows` as in the code, the rows printed | `In2csvStart` (the choice and its refusals), `ReadObject`, `ReadNothing`, `PrintHeader`, `PrintRow` |
| `Stat` | `stat_ids`, `unfinished` tasks, `results`, places printed | `StatCount`, `StatFill` (the table), `StatTypes` and the steps of `Typify`, `StatTasks` and `StatTask(k)` (the tasks, in any order), `StatPrint`, `StatEnd` |

In `Sort` a task is a record with the part of the table it owns and its phase. The parallel
partition of a part is done by two tasks that each partition a half; `Helped` and `Busy` say when
the first may go on. Which of two equal rows ends where, and on which side of the pivot a row
equal to it falls, is chosen (`Arrangements`, `PartitionInto`): `std::sort` and the partitions
of the code are not stable, and csvSort promises nothing of them.

A cell of `Cells` carries what the tests of `typify()` cache in it: `is_boolean()` turns `T` and
`0` into numbers, `is_date()` marks a cell as looked at. `Fits` asks a cell, `Tested` says what
the question left behind. So a property that compares with a *fresh* cell (`TypesFit`,
`StatTrue`) shows that the answers do not depend on the order of the questions, except for the
words of booleans, where they do (hazards).

### Abstractions

* A cell is named by file, line and column, so that a joined row says where it came from. Key
  columns range over chosen values; every other data cell holds the same numeral. The values
  include two nulls or one with the padding's empty string, two spellings of one number, and a
  word.
* Column types are `bool` (for csvJoin: everything is null), `number` and `text`. Dates,
  datetimes, time spans and real booleans behave like numbers for the control flow: a native
  comparison with a parser that assumes its type. No numeral of an instance is 0 or 1, which
  would be booleans too. A heading counts as a word when it is read as data.
* A hash table is a search over the rows that were pushed, with the equality of keys. Hash and
  equality are assumed to agree, which holds when texts are equal only if identical; the hazard
  list names the case of collation.
* The rows of a file have the width of its header: ragged files are rejected by `typify` (for
  the first file only; see the hazards), and `-K` and quoting belong to the reader.
* `null_value`, locales, date formats, field-size limits and `--asap` change no control of
  `join()`. `--null-value` does change csvSql's (`NullValues`).
* Statements given to csvSql write, read, return nothing or fail ("write", "read", "empty",
  "bad"); they are DML, since DDL would commit implicitly on mysql and Oracle. Splitting them,
  `--prefix`, and the text of the phrases are left out. `--overwrite` has no effect in the code
  (`csvSql.cpp:44` declares it, only the check at 631 reads it) and none in the model.
* In the smaller tools a row is known by its number and a cell by its place, wherever the tool
  only moves it; where the tool looks at it, by a text of a small set whose meaning for each type
  `Cells` gives (`5` and `10` order differently as numbers and as texts; `T` and `0` are words of
  booleans; two time deltas, a date, a datetime, a blank, a word).
* A cell of csvLook is its size in symbols and in bytes, every symbol as wide as any other; a value
  of csvJson is its place and whether it is null; the cells of csvJson are numbers, words and blanks
  (`0` and `1` alone make a column of booleans). A match of csvGrep is given. The least and the
  greatest time delta of csvStat go through a float, which is exact for those of `Cells`. The spelling of what is printed is left out everywhere else too, but
  for what separates values: commas, separators of lists, line ends of a stream.
* `target_leaf_size` of the parallel sort is a number of the command line (`leaf`), so that parts
  of one, two and four rows stand for those of at least five the code makes.

## 3. The runs

The runs of csvJoin use three files with the headers `k,a`, `a,k` and `a2,k`, joined on `k`, one skipped line
and a header line. The headers make names clash, and the first renaming of `a` clash again; the
key is the first column of one file and the second of the others, so that a wrong column shows.
`Inputs` gives for each command line the contents of the key columns; TLC takes all of them, and
all orders of the workers. The first and second key columns range over a null, a number and a
word, the third over a null and a number.

| Run | Files | Properties | Shows |
|---|---|---|---|
| `join_refines` | up to 2, 2, 1 rows; inner (every combination of `--blanks` and `-I`), left, right (with and without `-I`), union; 1-2, 1-2, 1 rows with outer (every combination of `--blanks` and `-I`) and honest outer without `--blanks` | `Refines`, `NothingLost`, `PrintAssertion`, `HeaderDistinct`, `KeyFlagsHold`, `MergeIsSequential`, `Succeeds` | the result is the relational one, and it is printed; both passes of an outer join together give the full outer join, and the recalculated flags are true |
| `join_shape` | 0-2, 0-1, 0-1 rows; every option, a missing column | `TypeOK`, `Lockstep`, `Aligned`, `SlotsFollowRows`, `Terminates` | the shape of every table on the way, in the corner cases too |
| `join_header_as_row` | first file header only | `OnlyDataRows` violated | finding 1 |
| `join_sequence` | 1-2, 1, 1 rows, left | `SequenceOfLeftJoins` violated | finding 2 |
| `join_left_blanks` | 1, 1, 1 rows, `--left --blanks` | `PrintAssertion` violated | finding 3 |

The runs of csvSql use two files, `k,a` named `one` and `k` named `two`. `-` is a `--null-value`,
`NA` a null, `7` and `7.0` the same number.

| Run | Instances | Properties | Shows |
|---|---|---|---|
| `sql_load` | `Insertions` (0-3 and 0-1 rows, four servers, chunks of 1 and 2, a unique constraint, statements after that succeed or fail), `Blanks`, `Tables` (names given, repeated, there before; the three ways to create), `Scripts` (statements before, queries, options refused, chunks of 0 and 3), `Printed` (no database) | `SqlTypeOK`, `BufferHolds`, `TransactionsClosed`, `Refines`, `Ends` | whatever fails, wherever it stops, the database holds whole units, in order |
| `sql_table_names` | chunks of 0 and 2, up to 3 rows, header-only files | `NamedAfterFile` violated | finding 4 |
| `sql_query_twice` | a last query that writes, in memory | `QueriedOnce` violated | finding 5 |
| `sql_blanks` | `--blanks`, chunks of 3 | `BlanksKept` violated | finding 6 |

The smaller tools are checked in one run, `suite_tools`, since a run of the suite is a run of any
of them with any of its command lines; `MCSuite` lists those of each tool. The other runs,
`sort_hangs` and `cut_ranges`, each take one tool and the command lines that show a finding.

| Tool | Instances | Properties | Shows |
|---|---|---|---|
| all | the instances below | `Ends` | every tool stops, whatever its source holds |
| csvClean | 0-4 rows of 1-3 cells under a header of 2, or a row without cells; `-l`, `-H`, `--dry-run`; a field too long in any row, the header included | `CleanNothingLost`, `CleanBlames`, `CleanFiles` | every row is in the file it belongs to, in order, and a message bears the number of its row |
| csvStack | 1-3 files of 0 or 2 rows under four headers, groups and file names, a name equal to the group's, ragged files, too few groups | `StackUnion` | every cell is printed under its own name, whatever the file before it left in the row |
| csvCut | 0-2 data rows of 1-3 columns, blanks anywhere, up to two identifiers of seven and one excluded | `CutTable`, `CutColumns` | one header, rows numbered without a gap, no row dropped but an empty one under `-x`; exactly the columns the identifiers stand for by the help, ranges in `-C` apart |
| csvGrep | 2 rows of 2 columns, matches anywhere, every source of patterns | `GrepSelects` | exactly the rows asked for, numbered by their place in the source |
| csvSort, csvStat | see the next rows | `BlanksKnown`, `TypesFit` | blanks and types do not depend on the order of rows and tests |
| csvSort | 3 rows of every kind of text sorted alone; 4 and 5 rows in parallel, in parts of 1, 2 and 4, with one or two threads; refusals | `SortedRows`, `PartsApart` | the printed order, and that no two tasks write the same place, in every interleaving |
| csvJson | 1-3 rows of 2 columns, of booleans too, 2 rows of 4 as features, every option; refusals | `JsonWellFormed`, `JsonRowsComplete`, `JsonKeysUnique`, `JsonBox` | what is printed is JSON, and whole; no key twice; the box holds every place and no more |
| csvLook | 0-3 rows of 2 columns, values of more bytes than symbols, each limit below, at and above the size of the table; standard input | `LookAligned`, `LookShown` | both passes agree on widths, but for what the row of dots has too many in bytes; limits cut what they say |
| In2csv | 0-3 objects with up to 2 of 3 keys; every way to choose or refuse a converter | `NdjsonTable` | a key first met late gives blanks to the rows before it |
| csvStat | 1-4 texts in one column, of every type, each option and operation; two columns selected in every way; refusals | `StatTrue`, `StatTable` | statistics are those of the column's own cells, by definitions that do not sort |
| csvSort (`sort_hangs`) | 4 rows in parallel, `T` among numbers in the second column | `SortWaitEnds` violated | finding 7 |
| csvCut (`cut_ranges`) | ranges given to `-C`, with and without numbers from 0 | `CutExcludesRanges` violated | finding 8 |

**Why the bounds are enough.** Two rows per table show order, duplicates of a key on both sides,
a mix of matched and unmatched rows, and the interleavings of workers (each worker reads shared
state that does not change and writes its own slot, so a pair shows every conflict). Three files
are the first number at which a join works on a `reader_fake` and on types left by an earlier
join; a fourth repeats the third turn of the loop. What these bounds leave open for
`TypeOK`, `Lockstep`, `SlotsFollowRows`, `MergeIsSequential`, `NothingLost`, `Aligned` and
`KeyFlagsHold` the proofs close.

For csvSql, three rows with chunks of two give a full chunk, a shorter rest and slots left over;
two rows a chunk with no rest; one row only a rest. A constraint or a conversion can fail in each
of them. Two files are enough for what one leaves to the next: a name, a position, a transaction,
a table. Statement lists of two fail in their first or their second statement. What the bounds
leave open for `BufferHolds` and `TransactionsClosed` is proved for every chunk size and file.

For the smaller tools: a static counter or a row kept from one file to the next shows in the
second row or file, what the first of three leaves to the third in a third (`Stack`, whose
`replace_idx` adds up). Three keys are enough for one that is met in the second object and absent
from the third. Three rows are the first number at which a cell in the middle decides a type
between two others. Four values give a median of an even and of an odd number, with two equal
ones on either side, and lists longer and shorter than `freq_count`. In the parallel sort four
rows in parts of one are divided twice, so that a task makes tasks; five rows in parts of four
are partitioned by two tasks with halves of different size, which exchange only some rows. Two
threads are enough for every pair of tasks to meet; the caller is a third. What the bounds leave
open for `PartsApart` is proved for any rows and threads.

`SortedRows` excepts a date in the first cell of the first row (see section 6), and the properties of types
except columns with words of booleans. `CutColumns` excepts a `-C` with ranges (finding 8) and
`LookAligned` takes off what the row of dots has too many (section 6). `CutTable`, `StackUnion`, `StatTrue` and `StatTable` name in their conditions
what else the code does differently; section 6 lists it. Each exception is as narrow as the code
allows, and the model takes the excepted command lines in: they are in the instances and their runs end.

`AtomicLoad` is the promise as the code can keep it. `Unit` moves the log from one whole number
of units to the next; a table, the statements before, the rows, the statements after, and each
query are units. `CanSalvage` names the exception: with `--after-insert` on mysql, postgresql or
Oracle a failure in the middle of the rows runs the statements after from the destructor, and
their `BEGIN` or `COMMIT` keeps a part of the rows. On sqlite3 the same `BEGIN` fails and ends the
program with nothing of the file's rows kept. `AskedAgain` and the names given by `Loaded` state
what findings 4 and 5 are about, so that the rest of the refinement can be checked around them.

`join_refines` leaves out what the code does differently, and each omission is a finding or a
hazard: header-only files where rows would be preserved (finding 1), `--blanks` with padding
(finding 3). `join_shape` takes them all in. `Terminates` covers all final states; `Succeeds`
says that with well-formed files the end is a printed table.

`Refines` compares the joined table after every turn of the loop, and the type and nullability
the key column has then. The abstract specification knows the coercion of key types
(`Coerce`), which is part of what later joins do; that csvJoin's help promises otherwise is
finding 2.

**Fairness.** `FairSpec` adds `WF_vars(Next)`: the thread of `join()` keeps running, and
`std::for_each` returns only after every iteration has run. No action can be chosen for ever
instead of another, since every step except `Finished` makes progress; weak fairness of the whole
is all that is needed. csvSql's `FairSpec` adds `WF_vars(Step)`: the single thread of the command
goes on unless the process ends. `Crash` is outside `Step`, so it may happen and never has to.
`SuiteSpec` adds `WF_vars(Step)`: the threads of the pool and the caller are run by the operating
system. Weak fairness of the whole is enough here too: no task waits actively, and each step of
`Quicksort` takes a task to its next phase, so none can be put off for ever while others move.

**Deadlock** is checked: `Finished` stutters in the final states and nowhere else. Only
`sort_hangs` turns the check off, because the wait it is about *is* a deadlock, and it is to be
shown as a violation of what poolSTL says of its counter.

## 4. Findings

1. `join_header_as_row`. With a left, right or outer join, when the preserved file has nothing
   under its header and the other file has rows, `compromise_table_MxN` throws after its
   destructor-like `hibernator` has rewound the reader; the handler reads on from the start of
   the file and joins the header (and skipped lines) as rows.
2. `join_sequence`. Turning a key column into text is permanent, so a chain of left joins is not
   a sequence of left joins: a third file's number is no longer matched.
3. `join_left_blanks`. With `--blanks`, the padding of an unmatched row under a column that is
   not text reaches the assertion of `print_func`, and in a release build `num()`.
4. `sql_table_names`. `file_no` is advanced at the end of the composer's constructor, which a
   header-only file never reaches; the next file is loaded into the table named for it.
5. `sql_query_twice`. `rowset_query` executes a statement that returned no rows once more to get
   the names of its columns, so a last query that inserts or updates takes effect twice.
6. `sql_blanks`. Rows are bound with `is_null()` whatever `--blanks` says.
7. `sort_hangs`. A task of the parallel sort that ends by an exception of the comparison never
   decrements `inflight_spawns`; the caller waits for it for ever. The comparison throws when a
   column has `T` or `F` above numbers that are not 0 or 1: the test for booleans has cached the words
   it met before it failed as numbers, so the column is one of numbers, and the cells read again for
   the sort have no such cache.
8. `cut_ranges`. The help of `-C` takes ranges as that of `-c` does, but a range there is an unknown
   column, which is ignored: its columns are printed. `CutColumns` therefore says what `-c` and `-C`
   do where `-C` has no range.

## 5. What is proved

`JoinProofs` proves, for any number of files, any headers, contents and command lines, from the
assumption `TablesAssumption` of `CsvTables` only (there is a file, no header is empty; the
kinds of values are disjoint; `Header` is 0 or 1):

* `TypeCorrect`: `Spec => []TypeOK`
* `LockstepHolds`: `Spec => []Lockstep`
* `SlotsHold`: `Spec => []SlotsFollowRows`
* `MergesHold`: `Spec => MergeIsSequential`

**The inductive invariant** is `JoinInv`: `TypeOK`, `Lockstep` and `Phases`. Neither of the first
two is inductive. `Cleanup` reads and erases the second element of all four deques, so it
needs `Phases`: in every state of a join in progress there are two sources. `Fill` reads the
source after those prepared, so it needs `Lockstep`; and it needs to know that source to be a
file, which `Phases` says of the first and `TypeOK` of the others. `CanCompare` writes
to the type of the key column and needs the key to be a column of its table (in `TypeOK`), and
that survives `Cleanup` because concatenation only appends to the left table, and a
recalculation gives types for as many columns as there were.

The argument is: `JoinInvInit`; one lemma per family of actions (`FillStep`, `CanCompareStep`,
`RowStep` for everything that touches only workers and results, `CleanupStep`); `JoinInvStep`
puts them together.

`SlotsFollowRows` is inductive given `JoinInv`: `StartWork` empties the slots, a worker writes
the slot of its row, and `RowResultStable` says that nothing a row's result is computed from is
written by a worker, so a slot written earlier still holds what the sequential loop would
compute. `MergesHold` follows: when `todo` is empty the slots *are* the sequential result.

From here on there is one more assumption, `InputsAssumption` of `CsvTables`: the cells of a key
column are a sequence of keys, each of some kind, one for every row of data.

`JoinProofs` then proves

* `NothingLostHolds`: `Spec => []NothingLost`

**The inductive invariant** is `JoinInv` with `RowInv`, which follows the rows of the first k files
from turn to turn. `Kept(rows, k)` is what is true of the joined table after k files: each row of a
file that is `Due` appears in it, and after inner joins nothing is padding. `SourcesOK` says so of the table in front of the deque and that each source behind it is
the reader of the next file, at or before its body; `TablesFit` that what is said of the columns still
to be joined fits their files; `Keyed` and `Opened` what the hash holds and that a parallel pass is over the data rows of its
table. A `no_body` handler may read lines above them (finding 1); they lose nothing, so what is
said of a result is `CoversAll` and not equality. `FirstPassDone` is the hard part: between the two
passes of an outer join the rows of the right file are not in the result unless they matched, so
the invariant says of the matched ones that they are, and `MergeSecond` that the second pass
adds the rest. `MergesHold` is where the workers come in: a pass is the sequential loop.

Of the columns `JoinProofs` proves

* `AlignedHolds`: `Spec => []Aligned`
* `KeyFlagsAlwaysHold`: `Spec => []KeyFlagsHold`
* `HeaderStaysDistinct`: `Spec => []HeaderDistinct`

**The inductive invariants** are `RowInv` with `ShapeInv`, and `KeyInv` above both. `JoinedColumns` is a
`FlattenSeq` of one list of columns per file, so a join with one more file appends one list
(`FlattenMore`): the columns of the table joined so far depend on the command line alone.
`JoinedFits` says that rows, header and types have those columns, `ResultFits` that the rows being
collected have those of one file more, and `KeyPlaces` that each key is where the command line
put it. Headers are compared by prefix, since `concat_headers` only appends to a name
(`ConcatHeaders` is an induction over the columns of the right table).

`KeyFlagsHold` says that no key read as a number is text or null, so the `noexcept` hash never
throws; `KeyInv` has as its first part the consequence, that `std::terminate` is never reached. What makes it
inductive: `KeysTold`, that the type and the blanks said of each key column are true of its cells,
for every source still to be joined and not only for the two at hand; `OnBody`, that the first
reader stands on its first row of data until its rows are read, so that no header is hashed as a key
(when the handler of finding 1 reads from another line there is nothing to be hashed); and
`ResultTold` with `Unadded`: a row that an outer join adds from the right file has a null for the left
key, and the blanks of that column are announced only by a recalculation of the types. So the
argument needs that an outer join that adds a row has asked for one, and that a second pass that
has not asked yet has added none.

`HeaderDistinct` needs little of the state, `NamesDiffer`: if the first file has no name twice, the header at the
front of the queue has none, from the moment there is one. What it rests on is arithmetic. The names that `concat_headers` tries
are all different, because different numbers have different digits (`DecimalsDiffer`, an induction on
the number); a header of `n` names cannot have all of `n + 1` of them (`MangledIsNew`, by cardinality), so the
search ends at a name that is not there, and a name appended leaves the header without repetitions (`FreshDiffers`).

`JoinRefinesProofs` proves

* `JoinIsRelational`: `Spec /\ KeptFilesHaveRows => Refines`, that csvJoin implements `RelationalJoin`;
* `PrintedByType`: `Spec => [](PrintsByType => PrintAssertion)`, the assertion of `print_func`,

for any number of files, any rows and columns, every kind of join, `--blanks`, `-I`, and every order in
which the workers take the rows. **The hypothesis** is a condition on the command line: the join is
inner, or each file whose rows are all to be preserved has one. Without it the theorem is false, and
that is finding 1: the run `join_header_as_row` has the counterexample. `PrintsByType` is a condition of the
same kind, and says where an assertion that fails under some options (finding 3) cannot: without
`--blanks` and `-I`; or with them where each file whose rows are kept has one and no row is padded with
a null that is then a value (no `--blanks`, or an inner join); or under `-I` with rows in every file.
Every command line of `join_refines` is one of these, and so are outer joins, which that run leaves out.

**The inductive invariant** of the first is `KeyInv`, and what it rests on, with `AccInv`, which follows the result
(`impl`) while it is being put together. `FileKeys` and `PlainKeys` say that the comparison the code
derives from the types of its readers is the one `RelationalJoin` derives from the files; `Compared`
that the choice between hash tables and "keys of different types" is its choice; `Waiting` that a
reader is not read before its turn; `PassesLeftOut` that `no_body` stands in for a pass only where there
is nothing to pass over (here the hypothesis is needed); `Recalculates` that the types are found anew
exactly if a row of the right table matched nothing; `ResultIs` that after the first pass the result is
`FirstPart`, all that the left rows contribute, and at the end also the padded rows of the right table
that nothing matches.

The steps are these. `KeysAgree`: two rows hash and compare equal exactly if `RelationalJoin` matches
them. `LeftRowSame` and `RightRowSame`: what the workers store for one row is what the nested loops give for it.
`FirstPartIs` and `SecondPart` put the rows of a pass together; all lists but one are built with
`FlattenSeq` over the same positions on both sides, and the exception, that padding each row
of a list pads the list (`FlattenPadded`), is the one induction. Then `CanCompareAcc` is the step
`Coerce` of `RelationalJoin`, `CleanupJoins` is `JoinNext`, where the type of the key for the next turn
comes from the rows joined, `CleanupUnites` is `SideBySide`, and every other action is a stutter.

`PrintedByType` needs of every column what `KeyInv` says of the keys, for a column that is no key is never
compared but is printed: `ClearInv`, that every cell of every table still to be joined, and of the result
while it is put together, can be printed under the type and the blanks its column has at that time. What
`typify()` finds is such (`TypifyClear`), a row put together is as the two it is made of (`GlueClear`, where
the column left out must be left out of cells, types and blanks alike), padding is null and no value
(`PaddingClear`), and a key column turned to text only gains. Where types are not inferred and padding may
be a value all columns are of text and stay so (`TextInv`). That the readers stand on their first data
rows when the table is printed or padded is `KeyInv` and `AccInv`.

`SqlProofs` proves, for any files, command lines, chunk sizes and backends, from
`TablesAssumption`, `SqlAssumption` (a stem per file) and `SqlInputsAssumption` (the backends, chunk
sizes and statements of a command line):

* `SqlTypeCorrect`: `Spec => []SqlTypeOK`
* `BufferAlwaysHolds`: `Spec => []BufferHolds`
* `TransactionsAlwaysClosed`: `Spec => []TransactionsClosed`
* `LoadIsAtomic`: `Spec => Refines`, that csvSql implements `AtomicLoad`

**The inductive invariant** of the first three is `SqlInv`. Besides the three properties it says that the types in
`table` are those of the file whose turn it is (`TurnOK`; otherwise a row bound would not be the
row `BufferHolds` means), that `file_no` stays behind `file` while no table is composed
(otherwise its bound would not survive `Compose`), and what an autocommitting session can have
pending (`SessionOK`): only what a failed array insert left, and only until the first statement
after. Without it neither the position of the rows in the log nor the end of `EndAfter` could be
shown.

The actions are grouped by where they leave the command. `AtRest`, `AmongStatements` and
`AmongRows` say once what is needed of a state with no transaction, in a list of statements, or
among rows; each action's lemma then only establishes their premises. `ReadRowStep` is the heart:
when the chunk is full, `IsSeqPrefix` and `EffectsFacts` say what is executed, `LoggedMore` that
the log now ends with the rows up to this one, and `BufferAfter` that the slots start anew.

**The refinement** needs `PlanInv` as well, which says where in the plan of `AtomicLoad` the command
is. `FilesOK` ties `file_no` to the number of files with data met so far, which is what the plan
counts by. `UnitsOK` says that what the session has done is `UnitsDone` whole units and the beginning
`PartDone` of the next, and that without autocommit the committed part of it is exactly the whole
units. `TornOK` is about a command whose insertion has failed: what is still pending is a part of the
rows of one file, followed by the statements after it that have been executed, or, autocommitting,
a beginning of everything. It has to be kept, since the destructor executes further statements before
it is seen whether they commit it.

First the plan is taken apart: `PlanFacts`, `PlaceFacts` and `WholeFacts` say which unit stands at
which place, `SamePlan` that no step changes it. `RunStep`, `WholeStep`, `UnitsThen`, `Tears`, `Stops`
and `Closes` say what the invariant and the abstract step (`Unit`, `Piece`, `Finish`, `Fail`, `Salvage`,
`Stop`) need of a step that stays in a unit, completes one or fails; then there is one lemma per action, from
`CheckPlan` to `EndRowsPlan`, and `PlanStep` puts them together. The long ones are `EndRowsPlan` and `ReadRowPlan`
(a chunk ends where the rows of the file do, or before; an autocommitted chunk that fails keeps its
first rows, `RefusedPlan`), and those of the statements: `BeginScriptPlan`, where the `BEGIN` after a
failed insertion commits what is left of the rows on mysql, `ScriptStepPlan`, and `EndAfterPlan`, where on
PostgreSQL, which has gone on in the same transaction, the `COMMIT` does.

`ToolProofs` proves, for any contents of the source, from `CleanAssumption` (widths are numbers;
a row without cells is reported only by itself):

* `CleanInvariant`: `CleanSpec => []CleanInv`
* `CleanLosesNothing`: `CleanSpec => []CleanNothingLost`
* `CleanBlamesRight`: `CleanSpec => []CleanBlames`
* `CleanLeavesFiles`: `CleanSpec => []CleanFiles`

**The inductive invariant** is `CleanInv`: `SourceOK`, `CountsOK` (the counters are those of the
rows reported; without it the next row would not be the next line of its file) and, for a dry
run, `DryOK`, otherwise `FilesOK`. `FilesOK` says of each file `FileHolds`: it begins with its
header, its lines are in order, none is later than the last row, it holds the rows wanted, and it
has *exactly* as many lines of data as there are such rows. The count is what makes it inductive:
"each row is in a file" alone would not exclude that one is there twice, and the total of
`CleanNothingLost` could not be shown. `IntoHolds` says that `Into` keeps `FileHolds` for one more
row, `HoldsLater` that a row of the other file does no harm; `GoodRowKeeps` and `BadRowKeeps` apply
them, one to each file.

For csvStack `ToolProofs` proves, from `StackAssumption` (a file is a header of names, a number of rows and
whether they are ragged), of `StackSpec`:

* `StackPutsUnderNames`: `StackSpec => []StackUnion`

`StackUnion` is said of the lines of the output by their number, so the first thing needed is to know which row a
line is: `Above` counts the lines before a file (`AboveFacts`). **The inductive invariant** is `StackInv`:

* `HeaderKnown`: the header is `FinalHeader` and `replace_vec` sends each name of a later file to its first place
  in it. `NewNamesFacts` goes through `fill_replace_vec`, and `FinalHeaderFacts` shows that no name is in the header twice
  and that its length is `TotalCols`, which the code computes from a set of names before the header exists: the rows of
  the first file are filled up to `TotalCols`, those of the others are as long as the header, and that the two agree is
  not said anywhere in the code.
* `OnFile`: `replace_idx` is the number of names in the headers of the files before, those without the first; otherwise the places read from
  `replace_vec` would be those of another file (`PlaceFacts`). It is also why `PutOutside` is never enabled for a
  `Regular` command line (`NeverOutside`).
* `RowReady`: `stack_row`, which is kept from row to row, holds nothing but what the present file puts in it, or is empty.
  `NextReader` clears it; a column that the next file does not have would otherwise keep what the last row left there.
* `StackPrinted`: the lines printed are the header, the rows of the files before, and the first `stacked` of the present one,
  each `UnderItsNames`.

Of csvLook `ToolProofs` proves, from `LookAssumption` (a row has as many cells as the header; sizes and limits are
natural numbers, and a value has at least as many bytes as symbols),

* `LookDrawsAlike`: `LookSpec => []LookAligned`
* `LookShowsRows`: `LookSpec => []LookShown`

csvLook measures in one pass and draws in another, and neither pass knows what the other did. **The inductive invariant**
is `LookInv`: the limits are those found at the start (`LookLimits`); each width is at least that of every field
measured so far, as the limits allow (`Wide`), and once the table is drawn, of all that are to be shown; and what is
printed is the header, the rule and the first n rows (`Drawn`), each line `AlikeLine` and each row `DrawnRow`. `Wide` is why
no field is wider than its column but those of the row of dots. What the stream is told is a width in bytes:
`PrintedFacts` shows that for a value this comes out as the width of the column in symbols, and `EllipsisFacts` that for dots it comes
out as that width and the `Excess`, which the property takes off; a line that is not the row of dots has none (`NoExcess`). A source on
standard input has no first pass: there `look_columns` is 0 and its rows are counted while they are drawn. The row of
dots has a case of its own (`DottedLineDrawn`): an ellipsis is shortened to what the column holds, and a column without
width is the one place where it cannot be, which is what the property excepts.

For csvJson `JsonProofs` proves, from `JsonAssumption` (a column for each name, with a number, a word or a blank for every row), for any
header, rows and options,

* `JsonBoxExact`: `JsonSpec => []JsonBox`
* `JsonKeysDiffer`: `JsonSpec => []JsonKeysUnique`
* `JsonComposesWell`: `JsonSpec => []JsonWellFormed`
* `JsonShowsRows`: `JsonSpec => []JsonRowsComplete`

There are three **inductive invariants**, one on top of the other.

* `JsonInv` follows the passes: the box so far is the least around the places so far (`Boxed`), the keys seen are
  those of the rows checked and none is there twice (`KeysSeen`), each object opened shows the key of its row
  (`KeysShown`), nothing is printed before the end. The passes over the rows share `json_row`, which `PassTo` sets back;
  that the second begins at the first row is part of it.
* `JsonShape` says that what is composed is `Begun`: a `Piece`, tokens that may follow one another, of which nothing is
  closed below the level it began at and so many are left open, or `Lines`, values and line ends with nothing left
  open at a line end. Pieces are put together by `PieceConcat`, with the depth of the one added to that of the other, and every
  printer has a lemma that says what piece it makes. `RowLast` is what the last token of a row is, which differs with `--stream`,
  `--indent` and the last row; the rest follows from it, and it is where a comma too many would be found.
* `JsonRowsInv` says of the rows composed that the names of their values are `RowNames` and that they are
  `InOrder`. It needs `RowsIn`, that no token of a row composed belongs to a later one: otherwise the names of a row could grow
  after it was done.

The proof found one thing the property had wrong. A command line with `--crs` or `--no-bbox` but neither `--lat`
nor `--lon` still makes features, of whatever column has *no name*, since an option not given is the
empty text and is looked for as such. `JsonRowsComplete` had these columns among the properties; it now says where they
are. No instance of the run has a column without a name.

For In2csv `JsonProofs` proves, from `In2csvAssumption` (an object has at least one key, none of them twice, and a
value for each), for any objects,

* `NdjsonTabulates`: `In2csvSpec => []NdjsonTable`

**The inductive invariant** is `NdjsonInv`. After n objects the header is the keys of those objects, each once, in the
order in which they were met (`HeaderFits`), and each column has n values, for every object that of its key or a
blank (`ColumnFits`); what is printed is the header and the first rows, each field under its key (`ObjectsShown`). A
key met for the first time in object n + 1 has no column yet, and no earlier object has it (`HasFirst`), so the blanks
`Aligned` puts there are right for every row before; that a column which is there is never filled up twice follows from
its length, the n that the invariant keeps. That the order of the header survives rests on `LeftOut`: the new keys of an object are those it
has, each once, without those known.

`SortProofs` proves, for any number of rows, columns to sort by and threads, and for any
`target_leaf_size`, from `SortAssumption` (a column for each name and in it a text for every row; names and
identifiers as in a command line), of `SortSpec`, which is `SuiteSpec`
without the other tools and without fairness:

* `SortInvariant`: `SortSpec => []SortInv`
* `PartsStayApart`: `SortSpec => []PartsApart`

**The inductive invariant** is `SortInv`: of the tasks `QuicksortOK`, of the caller `CallerOK`.
`PartsApart` says that the places two tasks write do not meet, and that is not inductive: when a
part is waiting for its half, the half lies inside it. So `Separate` says that two tasks are `Apart`
or one is the `HalfOf` the other, and it is the *same* place to begin at that ties them; `OneBegins`
turns this into what every step needs, that no third task begins there. `TaskOK` keeps the counts a
task has made within its part, so that what `Merge` exchanges are two stretches of the part that do
not meet (`Swapped`), and `Table`, that the rows in their places are the rows of the file, survives
each step (`Exchanged`).

That nobody is at work when the rows are printed rests on the two things the caller waits for.
`Charge` counts the *places* at which a task begins that may still make others: they are never more
than `inflight_spawns`. `Spawn` adds one place and one to the count, `Notify` takes away one of each,
a half begins where its part does, and a task that ends by an exception takes away a place and leaves
the count alone, which makes the wait longer and never too short (finding 7 is the price). So when the
count is 0 every task left is one that sorts (`WaitedStep`). And each of those has a future
(`FuturesOK`), so that when all were asked for none is left (`SortedStep`).

Before it sorts, csvSort has its columns typed by one task each, and `SortProofs` proves of them

* `TypifyInvariant`: `SortSpec => []TypifyInv`
* `BlanksAlwaysKnown`: `SortSpec => [](cmd.tool = "sort" => BlanksKnown)`
* `TypesAlwaysFit`: `SortSpec => [](cmd.tool = "sort" => TypesFit)`

**The inductive invariant** is `TypifyInv`. A test that fails has looked at the cells up to the first
that does not fit, and has left something in each of them; the next test sees what it left. `CellOK`
says what that can be: the type of the text, or nothing yet, but a word of booleans may have become a
number. So without such words a test finds in a cell what it would find in a fresh one (`CellFacts`),
and `ColumnOK` may say of the tests that failed that they fail on the texts. Blanks are met by every
test up to where it stops, so what `ColumnOK` says of them is that none is announced that is not
there, and that all are once a test has come to the end of the column.

csvStat has the same tasks type the columns it was asked for, and a column may be there twice. The lemmas
about the tests are therefore stated of any table filled with any columns (`TableFilled`, `TypesTried`, `TypesEnded`, `TypesKept`, `ColumnTold`), and
`StatProofs` proves of csvStat, from `StatAssumption`,

* `StatTypesInvariant`: `StatSpec => []StatTypesInv`
* `StatBlanksKnown`: `StatSpec => [](cmd.tool = "stat" => BlanksKnown)`
* `StatTypesFit`: `StatSpec => [](cmd.tool = "stat" => TypesFit)`

With these, the class that calculates a column is the one for its texts. Of what is printed it proves

* `StatTabulates`: `StatSpec => []StatTable`

by the invariant `StatInv`: after k places the columns printed are those of the first places among the first k
(`StatShown`), the header of the CSV is there once and first, and in the JSON every place but the last is followed by a
comma. A column selected twice has a class at its first place only; at the other place the text says
nothing, the CSV nothing, and the JSON `{}` (section 6), and the three printers need a case each.

Of what the tasks calculate it proves

* `StatSaysInvariant`: `StatSpec => []StatSaysInv`
* `StatTellsTruth`: `StatSpec => []StatTrue`

for any number of rows and columns, every statistic and option. A column is read twice in the model: by
the tool, as the caches of its cells have it and in whatever order an algorithm of the library left it, and by
the property, from the texts of the source and by definitions that know no order. **The inductive
invariant** is `StatSaysInv`, above `StatInv` and `StatTypesInv`. `CellsRead` says that the test at which a column's task
ended has been over every cell: each has been evaluated, and in a column of dates each that is no blank is known to be one, for
`date()` reads the cache and not the text. So the values a class reads are those of the texts (`PlaceIsTold`); that what it passes over is
the blanks needs `BlanksKnown` as well, since a column of text without blanks counts its nulls. `ResultsTrue` says of each
task that is over that its statistics are true of its column, whatever tasks are still at work, and that is all the
printers need (`OutputSaysTrue`).

What is left is what the algorithms compute from the values of a column (`StatisticIsTrue`). The definition of the nth
value counts: fewer than n are below it, at least n not above. A value in place n of any arrangement with none greater
before it and none less after it is the nth (`InPlace`), since an arrangement counts as the column does (`CountMapped`).
`nth_element` promises this of the middle place only, and of the place before it nothing; its value is the
greatest of the first half (`BeforeMiddle`), and that is why the code may take `max_element` there, and not
the neighbour (`MedianIs`). A sum over the rows is the sum over the values, each times its occurrences
(`SumGrouped`, an induction over the rows on sums that `SumFunction` takes in an order nobody knows; `SumWithout` shows
that the order does not matter). `mcv()` is a loop over the most frequent values that puts None in front of the first value
that is rarer; `ListGrows` is its invariant, over the list it is to become (`Order`), in which None stands at its place; `ManyAre` finds that place,
and the separator that is left over when None has taken the last place of a full list is the case `Spaced`.

Of csvSort's rows `SortProofs` proves

* `SortedInvariant`: `SortSpec => []SortedInv`
* `RowsAreSorted`: `SortSpec => []SortedRows`

First the order itself. What the comparison of two rows says is a total preorder as long as no cell
throws, nulls apart, which go last or first by what `has_blanks` says; that this is said of the right
columns is `BlanksAlwaysKnown`, so the order of the rows rests on the invariant of the types.
`Settled(a, b)` is "comparing them throws nothing, and b is not below a", and a row below the
pivot is `Settled` before one that is not. **The inductive invariant** is `SortedInv`, its heart
`DivisionsOK`. `DivisionOK` says what each task knows of its part: once it has partitioned its
places, or has been helped with the other half of them, the rows there are split by the pivot
(`Splits`), and no other task moves them across the split. A part and its half use the same pivot
(`PivotsOK`), without which the exchange of the two middle stretches (`Merge`) would divide
nothing. `CoveredIn` is what is left to do: any two rows are `Settled`, or both lie in a part that is
still to be sorted. `Spawn` replaces a part by the two it was split into, `SortPart` settles the
rows of a part and takes it away, and with no tasks left `CoveredIn` is the sorted table.

The hard part is failure. A task that throws disappears without having settled anything, and
`CoveredIn` no longer holds. `ThrownIn` says where the exception then is: in a future of the caller, or
in a half whose part waits for it for ever (finding 7). The caller prints only when every future
has been asked for and none of them threw (`SortedOK` remembers those of which it knows), and at that
time no part waits; so nothing had failed. `EveryRow` adds that the lines printed are all the rows: an
injection of a finite set into itself reaches each element.

Of csvCut and csvGrep `ToolProofs` proves, for any header, rows, blanks, patterns and command line,

* `CutPrintsTable`: `CutSpec => []CutTable`, `CutPrintsColumns`: `CutSpec => []CutColumns`, from
  `CutAssumption`
* `GrepPrintsMatches`: `GrepSpec => []GrepSelects`, from `GrepAssumption`

The assumptions say that a header is a sequence of names and that what the user wrote is a sequence of
identifiers. That the columns found for them are columns of the file is proved: `ColumnsFound` goes
through `ParseColumnIdentifiers`, whose lists are flattened from one per identifier (`FlattenFacts` of
`AnySequence`, and `Least` where the first column of a name is asked for). `ColumnsExact` adds which columns they
are: what the code finds for an identifier, by its number or by a search for the first column of its
name and only then as a range, is what `Covers` says of it in terms of the header alone. **The inductive
invariants** are `CutInv` and `GrepInv`. `CutTable` does not mention the static counters: `CutPrinted`
adds that `line` counts the lines printed and that `label` has been followed by a line exactly if there
is one, and both add that no line is later than the last row read, without which the next row could be
out of order. `OutputOK` says that under `--ASAP` nothing is kept back, so that a line written comes
last in the output as a whole (`LineWritten`) and `Flush` changes nothing (`Flushed`).
`MatchesIsFound` is the reason the count of hits may stand for "all columns match", even if a column is
asked for twice.

**Only model-checked.** Liveness (`Ends`, `Terminates`, `Succeeds`) and `ENABLED` are beyond the prover. Every
invariant of the passing runs has a theorem.

## 6. Not modelled, and the plan

Of csvSql: the splitting of statements and of `--tables`, the query file, `--prefix`, column names
made up for blank headers, the spelling of the `CREATE TABLE` phrase and the printing of results.
Of csvStat: mean, standard deviation and the number of decimals (arithmetic alone), NaN and infinity,
`--freq-count 0`. Of csvGrep: regular expressions. Of In2csv: the converters beside that of lines
of JSON, which are loops around libraries that decode xls, xlsx, dbf, geojson and fixed width.
Sql2csv is a connection and the `rowset_query` of csvSql. Output encodings, drivers of databases and
layout change no control.

**What the code does that the properties except, or that no property can say.** The model takes
the first group in, and its properties say so in their conditions:

* csvStack compares the number of groups with the arguments, not with the files their patterns
  name; a name twice in a header loses a column or reads outside the row, and so does a name equal
  to that of the group column.
* csvCut: a range given to `-C` excludes nothing (finding 8); ranges that are empty leave no column to print,
  which is undefined; `-x -l` with an empty header row prints `line_number,` and then the first row
  on the same line.
* csvGrep: identifiers whose ranges are all empty match every row (none under `--any-match`); a line of the file of `-f` is looked
  for anywhere in a cell, while the help says it is to be the cell.
* csvLook: the table is not of fixed width, which its help and `src/README.md:1002` say it is, in the row of
  dots. The stream counts bytes, and `print_func_impl` adds to the width of a field what the value has in
  bytes beyond its symbols (`csvLook.cpp:184`), but there it prints dots in place of the value: a field is
  too wide by just that (the `Excess` of `LookAligned`), for text of more than one byte a symbol and for
  numbers that end in the three bytes of the sign for the digits left out (411).
* csvSort: the printer asks the first cell for its date and then its datetime (`csvSort.cpp:56`);
  a date there is printed as 1970-01-01. An exception while the caller partitions leaves its other
  half to a task that goes on with a table that is gone.
* typify(): whether a column with words of booleans is one of numbers depends on the order of its
  rows.
* csvStat: a column selected twice is `{}` in the JSON, and has no closing bracket if it is the last;
  a list of frequent values may end in a separator; `--nulls` and `--non-nulls` do not know `--blanks`;
  no column selected is undefined for the CSV and JSON printers and for one operation.
* csvJson: keys made null by `--null-value` are refused as repeated under `--blanks`, and shown as the
  same `None` otherwise; no number is ever such a null.

The others are left out of the model with the data they are about:

* csvSort: a NaN makes the comparison no strict weak order.
* csvJson: `0.5` is printed `.5`; the check of `--lon` tests another option (`csvJson.cpp:355`); one
  column as latitude and longitude leaves one of them unset; a negative `--indent` with `--stream`
  leaves out the separators.
* csvLook: symbols that are wider or narrower than one place of the console misalign any row; a column without a
  name has no width under `--max-rows 0`; standard input is read by lines, which cuts a quoted cell of
  several lines, and only the lines shown decide the types.
* In2csv: types are found per object, so that 0 and 1 become booleans; `-l` is ignored; an
  empty standard input reads the last symbol of an empty string before the error is noticed.
* An exception in a task of transwarp is lost where `wait()` is called and not `get()`.

**The plan from here.** The accumulation of headers in the other JSON converters of
In2csv is that of `NdjsonTable` but for nested objects, and would need a model of theirs.
