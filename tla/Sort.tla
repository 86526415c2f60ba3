---------------------------------- MODULE Sort ----------------------------------
(***************************************************************************)
(* csvSort: the rows in the order of some columns, compared by type.  The  *)
(* sort is std::sort of poolSTL: a quicksort whose parts are tasks of a    *)
(* thread pool.  The caller partitions the whole range itself, waits until *)
(* no task may make others, and then for the tasks.                        *)
(*                                                                         *)
(* Rows are known by their numbers, a part by its first and last place.    *)
(* cmd.threads is the number of threads of the pool; cmd.leaf stands for   *)
(* target_leaf_size, which the code never makes less than 5.               *)
(***************************************************************************)
EXTENDS Typify, ColumnIds

VARIABLES
  sort_ids,                      \* the columns to sort by
  order,                         \* the rows in their places
  queue,                         \* tasks submitted to the pool
  active,                        \* tasks a thread of the pool, or the caller, is at
  inflight_spawns,               \* as poolSTL counts the tasks that may make others
  futures,                       \* the parts submitted to be sorted
  failures,                      \* those of them whose future holds an exception
  collected,                     \* futures asked for
  allowed_parallel_partitions,
  shown                          \* rows printed

\* A column for each name, with a text for every row.
ASSUME SortAssumption ==
  \A tool \in DOMAIN Commands : \A c \in Commands[tool] : c.tool = "sort" =>
    /\ c.names \in Seq(STRING) /\ AreIds(c.ids)
    /\ c.cells \in Seq(Seq(Texts)) /\ \A k \in DOMAIN c.cells : Len(c.cells[k]) = Len(c.cells[1])
    /\ c.names # <<>> /\ c.cells # <<>> => Len(c.cells) = Len(c.names)

quicksortVars == <<order, queue, active, inflight_spawns, futures, failures,
                   allowed_parallel_partitions>>
sortVars == <<sort_ids, quicksortVars, collected, shown>>

\* A task: to sort the places lo..hi or, for another task, to partition them by the
\* row pivot.  left is how many rows the other task found to go left; by is who runs it.
Task(kind, lo, hi, pivot) ==
  [kind |-> kind, lo |-> lo, hi |-> hi, pivot |-> pivot, phase |-> "begin",
   left |-> 0, right |-> 0, by |-> "pool"]
Size(t) == t.hi - t.lo + 1

SortInit ==
  /\ TypifyInit
  /\ sort_ids = <<>> /\ order = <<>> /\ queue = <<>> /\ active = {} /\ inflight_spawns = 0
  /\ futures = <<>> /\ failures = {} /\ collected = 0
  /\ allowed_parallel_partitions = 0 /\ shown = 0

(***************************************************************************)
(* Comparison.                                                             *)
(***************************************************************************)
Value(type, text) ==
  IF type = "bool" THEN (IF text \in {"0", "F"} THEN 0 ELSE 1)
  ELSE IF type = "number" THEN NumberOf[text]
  ELSE Rank(text)
Sign(x, y) == IF x < y THEN -1 ELSE IF x > y THEN 1 ELSE 0

\* common_compare_impl: the function a column is compared with.
NullsLast(c) == ~cmd.blanks /\ has_blanks[c]
ByText(c) == cmd.no_inference \/ (cmd.blanks /\ has_blanks[c])
ComparedType(c) == IF ByText(c) THEN "text" ELSE types[c]

\* num() throws: the cells compared are not those whose type was found.
Text(c, a) == cmd.cells[c][a]
BothShow(c, a, b) == ~NullsLast(c) \/ Null \notin {Text(c, a), Text(c, b)}
ThrowsAt(c, a, b) ==
  /\ BothShow(c, a, b) /\ ComparedType(c) = "number"
  /\ \E row \in {a, b} : ~IsNum(GetValue(Fresh(Text(c, row))))
CompareAt(c, a, b) ==
  IF BothShow(c, a, b) THEN Sign(Value(ComparedType(c), Text(c, a)), Value(ComparedType(c), Text(c, b)))
  ELSE Sign(IF Text(c, a) = Null THEN 1 ELSE 0, IF Text(c, b) = Null THEN 1 ELSE 0)

\* sort_comparator: the first column that tells the rows apart.
AllTied(k, a, b) ==
  \A j \in 1..(k - 1) : ~ThrowsAt(sort_ids[j], a, b) /\ CompareAt(sort_ids[j], a, b) = 0
Throws(a, b) ==
  \E k \in DOMAIN sort_ids : AllTied(k, a, b) /\ ThrowsAt(sort_ids[k], a, b)
Less(a, b) ==
  \E k \in DOMAIN sort_ids :
    AllTied(k, a, b) /\ CompareAt(sort_ids[k], a, b) = (IF cmd.r THEN 1 ELSE -1)

(***************************************************************************)
(* The quicksort.                                                          *)
(***************************************************************************)
\* The algorithms of the standard library that are not stable: any arrangement of the
\* places that is partitioned, or sorted.
Arrangements(lo, hi) ==
  {[i \in DOMAIN order |-> IF i \in lo..hi THEN order[p[i]] ELSE order[i]]
     : p \in Bijection(lo..hi, lo..hi)}
Lows(lo, hi, pivot) == Cardinality({i \in lo..hi : Less(order[i], pivot)})
PartitionInto(lo, hi, pivot) ==
  \E o \in Arrangements(lo, hi) :
    /\ \A i \in lo..hi : Less(o[i], pivot) = (i < lo + Lows(lo, hi, pivot))
    /\ order' = o
SortInto(lo, hi) ==
  \E o \in Arrangements(lo, hi) :
    /\ \A i, j \in lo..hi : i < j => ~Less(o[j], o[i])
    /\ order' = o
PartitionThrows(lo, hi, pivot) == \E i \in lo..hi : Throws(order[i], pivot)
SortThrows(lo, hi) == \E i, j \in lo..hi : i # j /\ Throws(order[i], order[j])

QuicksortStart ==
  /\ order' = [i \in DataRows |-> i]
  /\ active' = {[Task("sort", 1, Len(order'), 0) EXCEPT !.by = "caller"]}
  /\ inflight_spawns' = 1
  /\ allowed_parallel_partitions' = cmd.threads \div 2
  /\ UNCHANGED <<queue, futures, failures>>

Becomes(t, next) == active' = (active \ {t}) \cup {next}
Gone(t) == active' = active \ {t}

\* A thread of the pool takes the task that has waited longest.  The half of a part
\* that is partitioned has left its thread and waits to be asked for.
Busy(t) == t.by = "pool" /\ (t.kind = "half" => t.phase = "begin")
Run ==
  /\ queue # <<>>
  /\ Cardinality({t \in active : Busy(t)}) < cmd.threads
  /\ active' = active \cup {Head(queue)} /\ queue' = Tail(queue)
  /\ UNCHANGED <<order, inflight_spawns, futures, failures, allowed_parallel_partitions>>

\* quicksort_pivot; partition_p2 leaves the places up to Half to another task, if it
\* may and there are enough.
PivotOf(t) == order[t.lo + Size(t) \div 2]
Divides(t) == t.kind = "sort" /\ t.phase = "begin" /\ Size(t) > cmd.leaf
Helped(t) == allowed_parallel_partitions > 0 /\ Size(t) >= 4
Half(t) == t.lo + Size(t) \div 2

\* fetch_sub below zero is all the same.
Partition(t) ==
  /\ Divides(t) /\ ~Helped(t) /\ ~PartitionThrows(t.lo, t.hi, PivotOf(t))
  /\ PartitionInto(t.lo, t.hi, PivotOf(t))
  /\ Becomes(t, [t EXCEPT !.phase = "divided", !.left = Lows(t.lo, t.hi, PivotOf(t))])
  /\ allowed_parallel_partitions' =
       IF allowed_parallel_partitions > 0 THEN allowed_parallel_partitions - 1 ELSE 0
  /\ UNCHANGED <<queue, inflight_spawns, futures, failures>>

AskForHelp(t) ==
  /\ Divides(t) /\ Helped(t)
  /\ allowed_parallel_partitions' = allowed_parallel_partitions - 1
  /\ queue' = Append(queue, Task("half", t.lo, Half(t), PivotOf(t)))
  /\ Becomes(t, [t EXCEPT !.phase = "own half", !.pivot = PivotOf(t)])
  /\ UNCHANGED <<order, inflight_spawns, futures, failures>>
OwnHalf(t) ==
  /\ t.kind = "sort" /\ t.phase = "own half" /\ ~PartitionThrows(Half(t) + 1, t.hi, t.pivot)
  /\ PartitionInto(Half(t) + 1, t.hi, t.pivot)
  /\ Becomes(t, [t EXCEPT !.phase = "helped", !.right = Lows(Half(t) + 1, t.hi, t.pivot)])
  /\ UNCHANGED <<queue, inflight_spawns, futures, failures, allowed_parallel_partitions>>
OtherHalf(t) ==
  /\ t.kind = "half" /\ t.phase = "begin" /\ ~PartitionThrows(t.lo, t.hi, t.pivot)
  /\ PartitionInto(t.lo, t.hi, t.pivot)
  /\ Becomes(t, [t EXCEPT !.phase = "divided", !.left = Lows(t.lo, t.hi, t.pivot)])
  /\ UNCHANGED <<queue, inflight_spawns, futures, failures, allowed_parallel_partitions>>

\* Mutant: the low rows that change places are the first.
LowsFrom1(half, lows, n) == half.hi + 1
\* right_mid - left_highs_size, or mid.
LowsFrom(half, lows, n) == half.hi + 1 + lows - n

\* left_future.get(), and the high rows of the left half change places with the low
\* ones of the right, as many as there are fewer of.
Merge(t, half) ==
  LET highs == Size(half) - half.left
      lows == t.right
      n == IF highs <= lows THEN highs ELSE lows
      from == LowsFrom(half, lows, n)
      to == half.lo + half.left
      swap(i) == IF i \in to..(to + n - 1) THEN from + i - to
                 ELSE IF i \in from..(from + n - 1) THEN to + i - from ELSE i
  IN  /\ t.kind = "sort" /\ t.phase = "helped"
      /\ half.kind = "half" /\ half.phase = "divided" /\ half.lo = t.lo
      /\ order' = [i \in DOMAIN order |-> order[swap(i)]]
      /\ active' = (active \ {t, half})
           \cup {[t EXCEPT !.phase = "divided", !.left = half.left + lows]}
      /\ UNCHANGED <<queue, inflight_spawns, futures, failures, allowed_parallel_partitions>>

\* Mutants: a part that is divided is not counted again; it is counted twice.
SpawnedNone(n) == n
SpawnedBoth(n) == n + 2
\* ++(*inflight_spawns)
Spawned(n) == n + 1

\* Under the lock: two tasks in the place of one.
Partitioned(t) == t.kind = "sort" /\ t.phase = "divided"
Spawn(t) ==
  LET left == Task("sort", t.lo, t.lo + t.left - 1, 0)
      right == Task("sort", t.lo + t.left, t.hi, 0)
  IN  /\ Partitioned(t) /\ t.left # 0 /\ t.left # Size(t)
      /\ inflight_spawns' = Spawned(inflight_spawns)
      /\ queue' = queue \o <<left, right>>
      /\ futures' = futures \o <<<<left.lo, left.hi>>, <<right.lo, right.hi>>>>
      /\ Gone(t)
      /\ UNCHANGED <<order, failures, allowed_parallel_partitions>>

\* Not to be divided, or it could not be: the task is counted before it sorts.
Notify(t) ==
  /\ \/ t.kind = "sort" /\ t.phase = "begin" /\ ~Divides(t)
     \/ Partitioned(t) /\ t.left \in {0, Size(t)}
  /\ inflight_spawns' = inflight_spawns - 1
  /\ Becomes(t, [t EXCEPT !.phase = "sorting"])
  /\ UNCHANGED <<order, queue, futures, failures, allowed_parallel_partitions>>
SortPart(t) ==
  /\ t.phase = "sorting" /\ ~SortThrows(t.lo, t.hi)
  /\ SortInto(t.lo, t.hi)
  /\ Gone(t)
  /\ UNCHANGED <<queue, inflight_spawns, futures, failures, allowed_parallel_partitions>>

\* The comparator throws in a task of the pool: the task ends, and whoever asks its
\* future will be told.
Thrown(t) ==
  \/ Divides(t) /\ ~Helped(t) /\ PartitionThrows(t.lo, t.hi, PivotOf(t))
  \/ t.kind = "sort" /\ t.phase = "own half" /\ PartitionThrows(Half(t) + 1, t.hi, t.pivot)
  \/ t.kind = "half" /\ t.phase = "begin" /\ PartitionThrows(t.lo, t.hi, t.pivot)
  \/ t.phase = "sorting" /\ SortThrows(t.lo, t.hi)
  \/ t.kind = "sort" /\ t.phase = "helped" /\ <<t.lo, Half(t)>> \in failures
Throw(t) ==
  /\ Thrown(t) /\ t.by = "pool"
  /\ failures' = failures \cup {<<t.lo, t.hi>>}
  /\ Gone(t)
  /\ UNCHANGED <<order, queue, inflight_spawns, futures, allowed_parallel_partitions>>

Quicksort ==
  \/ Run
  \/ \E t \in active :
       Partition(t) \/ AskForHelp(t) \/ OwnHalf(t) \/ OtherHalf(t) \/ Spawn(t) \/ Notify(t)
         \/ SortPart(t) \/ Throw(t) \/ \E half \in active : Merge(t, half)

(***************************************************************************)
(* csvSort.                                                                *)
(***************************************************************************)
SortIds == ParseColumnIdentifiers(cmd.ids, <<>>, HeaderNames(cmd.names), cmd.zero)
SortRefused == cmd.ragged \/ cmd.names = <<>>

SortNames ==
  /\ at = "start" /\ ~SortRefused /\ cmd.show_names
  /\ Goto("done") /\ out' = Append(out, cmd.names)
  /\ UNCHANGED <<held, typifyVars, sortVars>>
\* Without data rows typify() or the table says so with an exception.
SortRejected ==
  /\ at = "start"
  /\ \/ SortRefused /\ Goto("failed")
     \/ ~SortRefused /\ ~cmd.show_names /\ ~Understood(SortIds) /\ Goto("rejected")
     \/ ~SortRefused /\ ~cmd.show_names /\ Understood(SortIds) /\ DataRows = {} /\ Goto("failed")
  /\ Quiet /\ UNCHANGED <<typifyVars, sortVars>>

SortStart ==
  /\ at = "start" /\ ~SortRefused /\ ~cmd.show_names /\ Understood(SortIds) /\ DataRows # {}
  /\ sort_ids' = SortIds /\ TypifyStart(cmd.cells)
  /\ Goto("typifying") /\ Quiet /\ UNCHANGED <<quicksortVars, collected, shown>>
SortTypes ==
  /\ at = "typifying" /\ TryTypes
  /\ Quiet /\ UNCHANGED <<cmd, at, sortVars>>

\* The table is read again; its cells are new ones.
Sorting ==
  /\ at = "typifying" /\ TypifyEnd
  /\ IF cmd.parallel_sort THEN Goto("sorting") /\ QuicksortStart
     ELSE /\ Goto("sorting alone") /\ order' = [i \in DataRows |-> i]
          /\ UNCHANGED <<queue, active, inflight_spawns, futures, failures,
                         allowed_parallel_partitions>>
  /\ Quiet /\ UNCHANGED <<sort_ids, collected, shown>>

\* What the printer says when it begins.
SortHeader == Write(<<[n |-> 0, row |-> 0, epoch |-> FALSE]>>)
SortAlone ==
  /\ at = "sorting alone"
  /\ IF SortThrows(1, Len(order)) THEN Goto("failed") /\ Quiet /\ UNCHANGED order
     ELSE SortInto(1, Len(order)) /\ Goto("printing") /\ SortHeader
  /\ UNCHANGED <<typifyVars, sort_ids, queue, active, inflight_spawns, futures, failures,
                 collected, allowed_parallel_partitions, shown>>

SortParts ==
  /\ at \in {"sorting", "collecting"} /\ Quicksort
  /\ Quiet /\ UNCHANGED <<cmd, at, typifyVars, sort_ids, collected, shown>>

\* An exception that leaves the caller takes the rows with it; a task that has not
\* ended is left without them.
Unended == queue # <<>> \/ \E t \in active : Busy(t)
Abandon == Goto(IF Unended THEN "undefined" ELSE "failed")
CallerThrows ==
  /\ at = "sorting" /\ \E t \in active : t.by = "caller" /\ Thrown(t)
  /\ Abandon /\ Quiet /\ UNCHANGED <<typifyVars, sortVars>>

\* cv.wait: inflight_spawns == 0.
Waited ==
  /\ at = "sorting" /\ inflight_spawns = 0 /\ \A t \in active : t.by # "caller"
  /\ Goto("collecting") /\ Quiet /\ UNCHANGED <<typifyVars, sortVars>>

\* get_futures: one future after the other.
Pending(part) ==
  \E t \in active \cup Range(queue) : t.kind = "sort" /\ <<t.lo, t.hi>> = part
Collect ==
  /\ at = "collecting" /\ collected < Len(futures) /\ ~Pending(futures[collected + 1])
  /\ Quiet /\ UNCHANGED <<typifyVars, sort_ids, quicksortVars, shown>>
  /\ IF futures[collected + 1] \in failures THEN Abandon /\ UNCHANGED collected
     ELSE collected' = collected + 1 /\ UNCHANGED <<cmd, at>>
Sorted ==
  /\ at = "collecting" /\ collected = Len(futures)
  /\ Goto("printing") /\ SortHeader /\ UNCHANGED <<typifyVars, sortVars>>

\* The printer asks the very first cell for its date and for its date and time, to have
\* the formats known; the cell keeps the last answer, and prints what it keeps.
Imbued(cell) == AfterDatetime(AfterDate(GetValue(cell)))
LosesDate(row) ==
  LET cell == Fresh(Text(1, row)) IN
  /\ shown = 0 /\ types[1] = "date" /\ ~IsNull(GetValue(cell)) /\ ~DateOf(Imbued(cell))
\* compose_numeric reads num().
Unprintable(row) ==
  \E c \in DataColumns :
    types[c] = "number" /\ Text(c, row) # Null /\ ~IsNum(GetValue(Fresh(Text(c, row))))

RowToShow == at = "printing" /\ shown < Len(order)
SortRow ==
  /\ RowToShow /\ ~Unprintable(order[shown + 1])
  /\ shown' = shown + 1
  /\ Write(<<[n |-> IF cmd.linenumbers THEN shown' ELSE 0, row |-> order[shown'],
              epoch |-> LosesDate(order[shown'])]>>)
  /\ UNCHANGED <<cmd, at, typifyVars, sort_ids, quicksortVars, collected>>
SortRowThrows ==
  /\ RowToShow /\ Unprintable(order[shown + 1])
  /\ Goto("failed") /\ Quiet /\ UNCHANGED <<typifyVars, sortVars>>
SortEnd ==
  /\ at = "printing" /\ ~RowToShow
  /\ Goto("done") /\ Flush /\ UNCHANGED <<typifyVars, sortVars>>

SortNext ==
  \/ SortNames \/ SortRejected \/ SortStart \/ SortTypes \/ Sorting \/ SortAlone \/ SortParts
  \/ CallerThrows \/ Waited \/ Collect \/ Sorted \/ SortRow \/ SortRowThrows \/ SortEnd

SortSpec == ToolInit /\ SortInit /\ [][SortNext]_<<toolVars, typifyVars, sortVars>>

(***************************************************************************)
(* Properties.                                                             *)
(***************************************************************************)
\* Every row is printed once, and no row after one that should follow it: columns in
\* the order given, by value, blanks last, or all of it the other way round under -r
\* (sort_comparator, common_compare_impl, parallel_quicksort).  Equal rows may come in
\* any order, and only a date in the first cell of the first row may be lost.
Wanted(c, a, b) ==
  IF Null \in {Text(c, a), Text(c, b)} /\ ~cmd.blanks
  THEN Sign(IF Text(c, a) = Null THEN 1 ELSE 0, IF Text(c, b) = Null THEN 1 ELSE 0)
  ELSE IF cmd.no_inference THEN Sign(Rank(Text(c, a)), Rank(Text(c, b)))
  ELSE Sign(Value(types[c], Text(c, a)), Value(types[c], Text(c, b)))
Misplaced(a, b) ==
  \E k \in DOMAIN sort_ids :
    /\ Wanted(sort_ids[k], a, b) = (IF cmd.r THEN -1 ELSE 1)
    /\ \A j \in 1..(k - 1) : Wanted(sort_ids[j], a, b) = 0
SortedRows ==
  cmd.tool = "sort" /\ at = "done" /\ ~cmd.show_names =>
    LET row(k) == out[k + 1].row IN
    /\ Len(out) = 1 + Cardinality(DataRows)
    /\ {row(k) : k \in DataRows} = DataRows
    /\ \A j, k \in DataRows : j < k => ~Misplaced(row(j), row(k))
    /\ \A k \in DataRows : out[k + 1].epoch => k = 1

\* No two tasks have a place of the table in common but a part and the half of it that
\* is left to another, and no row is lost or doubled by what they exchange; after the wait
\* no task can add a future any more, nor is any at work when the rows are printed
\* (quicksort_impl, partition_p2, inflight_spawns).
PlacesOf(t) ==
  IF t.kind = "sort" /\ t.phase \in {"own half", "helped"} THEN (Half(t) + 1)..t.hi ELSE t.lo..t.hi
PartsApart ==
  cmd.tool = "sort" =>
    /\ \A t, u \in active \cup Range(queue) : t # u => PlacesOf(t) \cap PlacesOf(u) = {}
    /\ IsInjective(order) /\ Range(order) \subseteq DataRows
    /\ at = "collecting" => \A t \in active \cup Range(queue) : t.phase = "sorting"
    /\ at \in {"printing", "done"} => active = {} /\ queue = <<>>
===============================================================================
