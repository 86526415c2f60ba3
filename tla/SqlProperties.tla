----------------------------- MODULE SqlProperties -----------------------------
(***************************************************************************)
(* The properties of csvSql.                                               *)
(***************************************************************************)
EXTENDS SqlLoad

Phases == {"check", "compose", "create", "before", "insert", "rows", "after",
           "thrown", "query", "header"}

\* Types: the reader whose turn it is, how many tables were composed, the slots of
\* a chunk and the logs of effects (csvSql.cpp:479-491, csvsql_soci.cpp:208-309).
SqlTypeOK ==
  /\ at \in Phases \cup Ended
  /\ file \in 1..(N + 1) /\ file_no \in 0..file
  /\ row \in Nat /\ offset \in Nat /\ script \in Nat
  /\ at = "rows" => DOMAIN holder = 1..Slots
  /\ tx \in {"none", "open", "aborted"} /\ unwinding \in BOOLEAN

\* No row is lost between the reader and the database: during an insertion the
\* rows read are those executed, in order, and those in the first offset slots;
\* the slots after them, left from the chunk before, are never executed again
\* (csvsql_soci.cpp:280-308, csvsql_ocilib.cpp:200-224).
Sent == row - offset
LogOfRows == IF Autocommit THEN committed ELSE pending
BufferHolds ==
  at = "rows" =>
    /\ offset < Slots /\ offset <= row /\ row <= Len(keys[file])
    /\ \A i \in 1..offset :
         holder[i] = BoundRow(file, table.types, BodyRows(file)[Sent + i])
    /\ Len(LogOfRows) >= Sent /\ (~Autocommit => Len(pending) = Sent)
    /\ \A i \in 1..Sent :
         LogOfRows[Len(LogOfRows) - Sent + i] = Inserted(file, table.name, BodyRows(file)[i])

\* A transaction is open exactly while rows are inserted or a list of statements
\* is executed: none is left open, or with something uncommitted, when the command
\* goes on to the next file or query (csvsql_soci.cpp:9-15, 179-184, 360-378).
TransactionsClosed ==
  /\ at \notin {"before", "rows", "after"} => tx = "none" /\ pending = <<>>
  /\ at = "before" => (tx = "none" <=> script = 0)
  /\ at = "rows" => (tx = "none" <=> Autocommit)

-------------------------------------------------------------------------------
(* The inductive invariant behind the safety properties: the command line is *)
(* one of the Inputs, the table composed is that of the file whose turn it   *)
(* is, and what an autocommitting connection has pending is what a statement *)
(* that failed left for the first statement after.                           *)

Chosen == args \in DOMAIN Inputs /\ keys \in Inputs[args]

LogsOK == IsSeq(pending) /\ IsSeq(committed)

WithFile == {"create", "before", "insert", "rows", "after"}
TurnOK ==
  /\ at \in WithFile => file \in 1..N /\ table.types = FileTypes(file).types
  /\ at \in {"check", "compose"} => file_no < file
  /\ at = "rows" => IsSeq(holder) /\ Len(holder) = Slots

SessionOK ==
  /\ at = "before" => ~Autocommit
  /\ at = "after" => args.after # <<>>
  /\ Autocommit => tx = "none" /\ (pending # <<>> => at = "after" /\ script <= 1)

SqlInv ==
  /\ Chosen /\ LogsOK /\ TurnOK /\ SessionOK
  /\ SqlTypeOK /\ BufferHolds /\ TransactionsClosed

-------------------------------------------------------------------------------
\* The database only ever holds whole units of the command line, in their order,
\* but for what AtomicLoad says may be salvaged from a failed insertion; and the
\* command is done only when everything is there (csvSql.cpp:479-495, 657-660).
Outcome ==
  IF at = "done" THEN "done"
  ELSE IF at \in Ended THEN "stopped"
  ELSE IF unwinding THEN "torn" ELSE "running"
Atomic == INSTANCE AtomicLoad WITH log <- committed, state <- Outcome
Refines == Atomic!Spec

(* The inductive invariant behind it: how far the command is among the units,   *)
(* and what an insertion that failed has left in the transaction.               *)

\* The tables composed are those of the first files with something under their header.
FilesOK ==
  /\ at \in {"check", "compose"} => file_no = Len(Atomic!LoadedUpto(file - 1))
  /\ at \in WithFile =>
       /\ HasBody(file) /\ file_no = Len(Atomic!LoadedUpto(file))
       /\ table.name = TableName(file_no)
  /\ InScript => script \in 0..(Len(Script) + 1)
  /\ at = "query" => script = 1 \/ script \in 1..Len(args.query)
  /\ at = "header" => script = Len(args.query) /\ args.query # <<>> /\ AskAgain(args.query[script])
  /\ at = "query" \/ at = "header" => file_no = Len(Atomic!Loaded)
  /\ at \in {"before", "insert", "rows", "after"} => Inserting
  /\ at \notin Ended \cup {"check"} => ValidArgs

Units == IF Inserting THEN 4 ELSE 1
UnitsDone ==
  CASE at \in {"check", "compose"} -> Units * file_no
    [] at = "create" -> Units * (file_no - 1)
    [] at = "before" -> Units * (file_no - 1) + 1
    [] at \in {"insert", "rows"} -> Units * (file_no - 1) + 2
    [] at = "after" -> Units * (file_no - 1) + 3
    [] at = "query" -> Units * file_no + script - 1
    [] OTHER -> Units * file_no + Len(args.query)
PartDone ==
  CASE at = "rows" -> SubSeq(Atomic!RowsOf(file_no), 1, Sent)
    [] InScript -> Atomic!Statements(SubSeq(Script, 1, script - 1))
    [] OTHER -> <<>>
UnitsOK ==
  Outcome = "running" =>
    /\ View = Atomic!Whole(UnitsDone) \o PartDone
    /\ IF Autocommit THEN pending = <<>> ELSE committed = Atomic!Whole(UnitsDone)

TornOK ==
  /\ unwinding => at \in {"after", "thrown"} \cup Ended
  /\ at = "thrown" => unwinding
  /\ unwinding /\ at = "after" =>
       /\ script = 0 /\ tx = "none" => Autocommit
       /\ script > 0 => args.db \in {"mysql", "postgresql", "oracle"}
       /\ \E r \in Atomic!Parts(Atomic!RowsOf(file_no)) :
            pending = r \o (IF Autocommit THEN <<>>
                            ELSE Atomic!Statements(SubSeq(args.after, 1, script - 1)))
       /\ Autocommit /\ pending # <<>> => IsPrefix(View, Atomic!Everything)
  /\ at = "thrown" => args.after # <<>> /\ args.db \in {"mysql", "postgresql", "oracle"}

PlanInv == FilesOK /\ UnitsOK /\ TornOK

\* The command ends, whatever fails (csvSql.cpp:640-660).
Ends == <>(at \in Ended)

-------------------------------------------------------------------------------
(* What the documentation says and the code does not do.                     *)

\* "By default, the tables will be named after the filenames without extensions"
\* (csvSql.cpp:38, README.md:1066).
NamedAfterFile ==
  at \in {"create", "before", "insert", "rows", "after"} /\ args.tables = <<>> =>
    table.name = Stems[file]

\* "Execute one or more SQL queries ..., and output the result of the last query"
\* (csvSql.cpp:32, README.md:1060): each of them once.
Writes(script_) == Len(SelectSeq(script_, LAMBDA s : s = "write"))
QueriedOnce ==
  at = "done" =>
    Len(SelectSeq(committed, LAMBDA e : e.op = "stmt")) = Writes(args.query)

\* "Do not convert "", "na", "n/a", "none", "null", "." to NULL." under --blanks
\* (csvSql.cpp:25).
BlanksKept ==
  at = "rows" /\ args.blanks =>
    \A i \in 1..Slots : \A c \in DOMAIN holder[i] : holder[i][c].value # NULL

===============================================================================
