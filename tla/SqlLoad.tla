-------------------------------- MODULE SqlLoad --------------------------------
(***************************************************************************)
(* csvSql: sql() of csvSql.cpp with the SOCI client (sqlite3, postgresql,  *)
(* mysql) and the OCILIB client (oracle).  For each file a table is        *)
(* composed and created, the statements before are executed, the rows are  *)
(* bound to an insert statement one by one or a chunk at a time, and the   *)
(* destructor of the inserter executes the statements after, also when it  *)
(* is an exception that destroys it; then the queries are executed.  The   *)
(* process may die between any two steps.                                  *)
(***************************************************************************)
EXTENDS SqlEffects

Backends == {"none", "memory", "sqlite", "postgresql", "mysql", "oracle"}

\* A command line, and the files it reads; queries are executed on some database.
ASSUME SqlInputsAssumption ==
  \A a \in DOMAIN Inputs :
    /\ a.db \in Backends /\ (a.db = "none" => a.query = <<>>)
    /\ a.chunk \in Nat
    /\ {a.before, a.after, a.query} \subseteq Seq({"write", "read", "empty", "bad"})

VARIABLES
  at,          \* where the command is
  file,        \* the reader whose turn it is
  file_no,     \* create_table_composer::file_no
  table,       \* the composer: the table's name and the column types
  row,         \* the rows read from the file
  holder,      \* data_holder and indicators, a slot per row of a chunk
  offset,      \* the slots filled
  script,      \* the statement to be executed of a list; 0 before the first
  tx,          \* the transaction: "none", "open" or, after an error, "aborted"
  pending,     \* what the transaction has done
  committed,   \* what it has committed, or the tables printed if args.db is "none"
  unwinding    \* whether the inserter is being destroyed by an exception

vars == <<args, keys, at, file, file_no, table, row, holder, offset, script, tx,
          pending, committed, unwinding>>

Ended == {"done", "failed", "terminated", "crashed"}
NoTable == [name |-> "", types |-> <<>>]
Slots == IF args.chunk <= 1 THEN 1 ELSE args.chunk
View == committed \o pending

\* The checks of sql() before anything is read.
ValidArgs ==
  /\ args.insert => args.db # "none"
  /\ args.before # <<>> \/ args.after # <<>> \/ args.create # "create" => args.insert
  /\ args.chunk # 0 => args.insert \/ args.query # <<>>

\* Variant: reset_environment is not called, and a command has run before.
InitNotReset ==
  /\ args \in DOMAIN Inputs /\ keys \in Inputs[args]
  /\ at = "check" /\ file = 1 /\ file_no = 1 /\ table = NoTable
  /\ row = 0 /\ holder = <<>> /\ offset = 0 /\ script = 0
  /\ tx = "none" /\ pending = <<>> /\ committed = <<>> /\ unwinding = FALSE

Init ==
  /\ args \in DOMAIN Inputs /\ keys \in Inputs[args]
  /\ at = "check" /\ file = 1 /\ file_no = 0 /\ table = NoTable
  /\ row = 0 /\ holder = <<>> /\ offset = 0 /\ script = 0
  /\ tx = "none" /\ pending = <<>> /\ committed = <<>> /\ unwinding = FALSE

Command == <<args, keys>>
Position == <<file, file_no, table>>
Buffer == <<row, holder, offset>>
Session == <<tx, pending, committed>>
Loading == UNCHANGED Command /\ UNCHANGED Position /\ UNCHANGED Buffer
OnlySession == UNCHANGED <<script, unwinding>> /\ Loading

-------------------------------------------------------------------------------
(* The session.  A backend's BEGIN in an open transaction: an error for      *)
(* sqlite3, a warning for postgresql unless the transaction is aborted, a    *)
(* commit for mysql.  OCILIB is set to commit on its own.                    *)

CanBegin ==
  \/ tx = "none"
  \/ args.db = "postgresql" /\ tx = "open"
  \/ args.db \in {"mysql", "oracle"}

Begin ==
  CASE Autocommit -> UNCHANGED Session
    [] args.db = "mysql" -> tx' = "open" /\ committed' = View /\ pending' = <<>>
    [] OTHER -> tx' = "open" /\ UNCHANGED <<committed, pending>>

\* Variant: the transaction is left to the destructor of the session.
NotCommitted == UNCHANGED Session

Commit == tx' = "none" /\ committed' = View /\ pending' = <<>>

\* What an oracle statement that fails half way has done stays to be committed by
\* the next one.
Write(effects) ==
  /\ UNCHANGED tx
  /\ IF Autocommit
       THEN committed' = View \o effects /\ pending' = <<>>
       ELSE pending' = pending \o effects /\ UNCHANGED committed

\* A statement fails after these effects.
Refuse(effects) ==
  /\ tx' = IF args.db = "postgresql" THEN "aborted" ELSE tx
  /\ pending' = pending \o effects /\ UNCHANGED committed

\* The connection goes: its transaction is rolled back, but for what an
\* autocommitting one may have left.
Close(end) ==
  /\ at' = end /\ tx' = "none" /\ pending' = <<>>
  /\ committed' = committed \/ (Autocommit /\ committed' = View)

-------------------------------------------------------------------------------
(* The check of the options, and the composer.                               *)

Check ==
  /\ at = "check"
  /\ at' = IF ValidArgs THEN "compose" ELSE "failed"
  /\ OnlySession /\ UNCHANGED Session

\* Variant: the exception is caught inside the loop, and the reader kept.
ReadAgain == UNCHANGED file

NextReader == file' = file + 1

\* no_body_exception: the SOCI client goes on to the next file; the OCILIB client
\* and the printing of phrases do not expect it.
ComposeNoBody ==
  /\ at = "compose" /\ file <= N /\ ~HasBody(file)
  /\ IF args.db \in {"none", "oracle"}
       THEN Close("failed") /\ UNCHANGED file
       ELSE NextReader /\ UNCHANGED at /\ UNCHANGED Session
  /\ UNCHANGED <<file_no, table, script, unwinding>> /\ UNCHANGED Command /\ UNCHANGED Buffer

ComposeFails ==
  /\ at = "compose" /\ file <= N /\ HasBody(file) /\ NoLength(file)
  /\ Close("failed")
  /\ OnlySession

Composed(f) ==
  /\ file_no' = file_no + 1
  /\ table' = [name |-> TableName(file_no + 1), types |-> FileTypes(f).types]

Compose ==
  /\ at = "compose" /\ file <= N /\ HasBody(file) /\ ~NoLength(file)
  /\ Composed(file)
  /\ IF args.db = "none"
       THEN /\ file' = file + 1 /\ UNCHANGED at /\ UNCHANGED <<tx, pending>>
            /\ committed' = Append(committed, Created(file, table'.name))
       ELSE at' = "create" /\ UNCHANGED file /\ UNCHANGED Session
  /\ UNCHANGED <<script, unwinding>> /\ UNCHANGED Command /\ UNCHANGED Buffer

ComposedAll ==
  /\ at = "compose" /\ file > N
  /\ at' = "query" /\ script' = 1
  /\ UNCHANGED unwinding /\ Loading /\ UNCHANGED Session

-------------------------------------------------------------------------------
(* table_creator, and where the command goes from there.                     *)

NextFile == at' = "compose" /\ file' = file + 1

\* The OCILIB client has no statements before the insertion.
AfterCreate ==
  IF ~Inserting THEN NextFile
  ELSE /\ UNCHANGED file
       /\ at' = IF args.before # <<>> /\ ~Autocommit THEN "before" ELSE "insert"

Create ==
  /\ at = "create"
  /\ \/ args.create = "no_create" /\ UNCHANGED committed
     \/ args.create = "if_not_exists" /\ Exists(committed, table.name) /\ UNCHANGED committed
     \/ /\ args.create # "no_create" /\ CanCreate(committed, file, table.name)
        /\ committed' = Append(committed, Created(file, table.name))
  /\ AfterCreate /\ script' = 0
  /\ UNCHANGED <<file_no, table, tx, pending, unwinding>> /\ UNCHANGED Command /\ UNCHANGED Buffer

CreateFails ==
  /\ at = "create" /\ args.create # "no_create"
  /\ ~CanCreate(committed, file, table.name)
  /\ ~(args.create = "if_not_exists" /\ Exists(committed, table.name))
  /\ Close("failed")
  /\ OnlySession

-------------------------------------------------------------------------------
(* The statements before and after the insertion, one transaction for each   *)
(* list: the constructor and the destructor of table_inserter.  What the     *)
(* destructor throws terminates the program.                                 *)

InScript == at \in {"before", "after"}
Script == IF at = "before" THEN args.before ELSE args.after
Thrown == Close(IF at = "before" THEN "failed" ELSE "terminated")

BeginScript ==
  /\ InScript /\ script = 0
  /\ IF CanBegin THEN Begin /\ script' = 1 /\ UNCHANGED at
     ELSE Thrown /\ UNCHANGED script
  /\ UNCHANGED unwinding /\ Loading

ScriptStep ==
  /\ InScript /\ script \in DOMAIN Script
  /\ IF Script[script] = "bad" THEN Thrown /\ UNCHANGED script
     ELSE /\ Write(Result(Script[script]))
          /\ script' = script + 1 /\ UNCHANGED at
  /\ UNCHANGED unwinding /\ Loading

EndBefore ==
  /\ at = "before" /\ script > Len(args.before)
  /\ Commit /\ at' = "insert"
  /\ OnlySession

\* The exception, if there is one, goes on when the destructor is done.
EndAfter ==
  /\ at = "after" /\ script > Len(args.after)
  /\ IF Autocommit THEN UNCHANGED Session ELSE Commit
  /\ IF unwinding THEN at' = "thrown" /\ UNCHANGED file ELSE NextFile
  /\ UNCHANGED <<file_no, table, script, unwinding>> /\ UNCHANGED Command /\ UNCHANGED Buffer

\* main() prints what it caught; the session is destroyed on the way.
Rethrow == at = "thrown" /\ Close("failed") /\ OnlySession

-------------------------------------------------------------------------------
(* The insertion.                                                            *)

\* The inserter is destroyed by an exception: the statements after are next.
Unwind(effects) ==
  /\ unwinding' = TRUE
  /\ IF args.after = <<>>
       THEN /\ at' = "failed" /\ tx' = "none" /\ pending' = <<>>
            /\ committed' = committed \/ (Autocommit /\ committed' = View \o effects)
       ELSE at' = "after" /\ Refuse(effects)
  /\ script' = 0

Insert ==
  /\ at = "insert" /\ CanPrepare(committed, file, table.name)
  /\ at' = "rows" /\ Begin
  /\ row' = 0 /\ offset' = 0 /\ holder' = [i \in 1..Slots |-> <<>>]
  /\ UNCHANGED <<script, unwinding>> /\ UNCHANGED Command /\ UNCHANGED Position

\* Preparing the statement fails in the transaction just begun.
InsertFails ==
  /\ at = "insert" /\ ~CanPrepare(committed, file, table.name)
  /\ unwinding' = TRUE /\ script' = 0
  /\ IF args.after = <<>>
       THEN Close("failed")
       ELSE /\ at' = "after" /\ UNCHANGED <<pending, committed>>
            /\ tx' = CASE Autocommit -> tx
                       [] args.db = "postgresql" -> "aborted"
                       [] OTHER -> "open"
  /\ Loading

Current == BodyRows(file)[row + 1]
Unbindable(r) == \E c \in DOMAIN r : NotNumeric(table.types[c], r[c])

\* Variant: the slots left over from the chunk before are not cut off.
WholeChunk(slots, n) == slots

\* Executing the statement inserts the slots filled, one after another.
Batch(slots, n) == SubSeq(slots, 1, n)
Effects(batch) == [i \in DOMAIN batch |-> Effect("row", table.name, batch[i])]
Refused(batch) ==
  {i \in DOMAIN batch :
     ~Accepts(View \o Effects(SubSeq(batch, 1, i - 1)), Effects(batch)[i])}

Execute(batch) ==
  IF Refused(batch) = {}
    THEN Write(Effects(batch)) /\ UNCHANGED <<unwinding, script>>
    ELSE \E first \in Refused(batch) :
           /\ \A i \in Refused(batch) : first <= i
           /\ Unwind(Effects(SubSeq(batch, 1, first - 1)))

\* Variant: the offset is compared before it is advanced.
FullLate(n) == n = Slots + 1

Full(n) == n = Slots

\* run_rows: bind the next row to its slot, and execute when the chunk is full.
ReadRow ==
  /\ at = "rows" /\ row < Len(keys[file]) /\ ~Unbindable(Current)
  /\ row' = row + 1
  /\ holder' = [holder EXCEPT ![offset + 1] = BoundRow(file, table.types, Current)]
  /\ IF Full(offset + 1)
       THEN /\ offset' = 0
            /\ Execute(Batch(holder', Slots))
            /\ Refused(Batch(holder', Slots)) = {} => UNCHANGED at
       ELSE offset' = offset + 1 /\ UNCHANGED <<at, script, unwinding>> /\ UNCHANGED Session
  /\ UNCHANGED Command /\ UNCHANGED Position

\* num() throws; the database knows nothing of it.
ReadFails ==
  /\ at = "rows" /\ row < Len(keys[file]) /\ Unbindable(Current)
  /\ unwinding' = TRUE /\ script' = 0
  /\ IF args.after = <<>> THEN Close("failed")
     ELSE at' = "after" /\ UNCHANGED Session
  /\ Loading

\* The rest, less than a chunk, is executed with the slots cut to their number.
EndRows ==
  /\ at = "rows" /\ row = Len(keys[file])
  /\ IF offset > 0 /\ Refused(Batch(holder, offset)) # {}
       THEN Execute(Batch(holder, offset)) /\ UNCHANGED Position
       ELSE LET rest == IF offset > 0 THEN Effects(Batch(holder, offset)) ELSE <<>> IN
            /\ tx' = "none" /\ committed' = View \o rest /\ pending' = <<>>
            /\ script' = 0 /\ UNCHANGED <<unwinding, file_no, table>>
            /\ IF args.after = <<>> THEN NextFile ELSE at' = "after" /\ UNCHANGED file
  /\ offset' = 0 /\ UNCHANGED <<row, holder>>
  /\ UNCHANGED Command

-------------------------------------------------------------------------------
(* The queries: a transaction each, but the last is executed by              *)
(* rowset_query, and executed again for the names of the columns if it       *)
(* returned no rows, which a statement that writes never does.               *)

Asking == at = "query" /\ args.query # <<>>
IsLast == script >= Len(args.query)

QueryFails ==
  /\ Asking /\ script \in DOMAIN args.query /\ args.query[script] = "bad"
  /\ Close("failed")
  /\ OnlySession

AskAgain(s) == s # "read" /\ Header = 1 /\ ~Autocommit

Query ==
  /\ Asking /\ script \in DOMAIN args.query /\ args.query[script] # "bad"
  /\ committed' = committed \o Result(args.query[script])
  /\ at' = IF ~IsLast THEN at
           ELSE IF AskAgain(args.query[script]) THEN "header" ELSE "done"
  /\ script' = IF IsLast THEN script ELSE script + 1
  /\ UNCHANGED <<tx, pending, unwinding>> /\ Loading

QueryHeader ==
  /\ at = "header"
  /\ committed' = committed \o Result(args.query[script])
  /\ at' = "done"
  /\ UNCHANGED <<script, tx, pending, unwinding>> /\ Loading

NoQuery ==
  /\ at = "query" /\ args.query = <<>>
  /\ at' = "done"
  /\ OnlySession /\ UNCHANGED Session

-------------------------------------------------------------------------------

Crash ==
  /\ at \notin Ended
  /\ Close("crashed")
  /\ OnlySession

Step ==
  \/ Check \/ ComposeNoBody \/ ComposeFails \/ Compose \/ ComposedAll
  \/ Create \/ CreateFails
  \/ BeginScript \/ ScriptStep \/ EndBefore \/ EndAfter \/ Rethrow
  \/ Insert \/ InsertFails \/ ReadRow \/ ReadFails \/ EndRows
  \/ QueryFails \/ Query \/ QueryHeader \/ NoQuery

Finished == at \in Ended /\ UNCHANGED vars

Next == Step \/ Crash \/ Finished

Spec == Init /\ [][Next]_vars

\* The command does not stop of itself.
FairSpec == Spec /\ WF_vars(Step)

===============================================================================
