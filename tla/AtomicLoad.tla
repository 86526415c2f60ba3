------------------------------ MODULE AtomicLoad ------------------------------
(***************************************************************************)
(* What csvSql promises its database: the command line is a sequence of    *)
(* units (a table, the statements before, the rows of a file, the          *)
(* statements after, a query), and what is committed is always a number of *)
(* whole units from the front, all of them when the command succeeds.      *)
(* Where the connection cannot keep that, CanSalvage says so: after a      *)
(* failure, a part of one file's rows may stay, and the statements after   *)
(* the insertion run all the same.                                         *)
(***************************************************************************)
EXTENDS SqlEffects

VARIABLES
  log,     \* what is committed, or printed when there is no database
  state    \* "running", "torn" (failed, not yet stopped), "done" or "stopped"

Statements(script) == FlattenSeq([i \in DOMAIN script |-> Result(script[i])])

\* Files with nothing under their header take no part and use up no name.
LoadedUpto(n) == FlattenSeq([f \in 1..n |-> IF HasBody(f) THEN <<f>> ELSE <<>>])
Loaded == LoadedUpto(N)
RowsOf(n) ==
  LET rows == BodyRows(Loaded[n])
  IN  [i \in DOMAIN rows |-> Inserted(Loaded[n], TableName(n), rows[i])]

\* A table with IF NOT EXISTS, and so may be there; one that is not created.
Repeated(n) ==
  TableName(n) \in args.exists \/ \E m \in 1..(n - 1) : TableName(m) = TableName(n)
TableOf(n) ==
  IF args.create = "no_create" \/ (args.create = "if_not_exists" /\ Repeated(n)) THEN <<>>
  ELSE <<Created(Loaded[n], TableName(n))>>

\* The Oracle client has no statements before the insertion.
Before == IF Autocommit THEN <<>> ELSE Statements(args.before)
After == Statements(args.after)
UnitsOf(n) ==
  IF Inserting THEN <<TableOf(n), Before, RowsOf(n), After>> ELSE <<TableOf(n)>>

\* Each query is a unit; a last query that returns no rows is executed again for
\* the names of its columns, unless no header is wanted.
AskedAgain == Header = 1 /\ ~Autocommit
QueryUnits ==
  LET all == [i \in DOMAIN args.query |-> Statements(<<args.query[i]>>)]
  IN  IF all # <<>> /\ AskedAgain THEN Append(all, Last(all)) ELSE all

Plan == FlattenSeq([n \in DOMAIN Loaded |-> UnitsOf(n)]) \o QueryUnits
Whole(k) == FlattenSeq(SubSeq(Plan, 1, k))
Everything == Whole(Len(Plan))

\* Autocommitted effects go in one by one, or a chunk at a time.
Partial == {log \o SubSeq(Everything, Len(log) + 1, m) : m \in Len(log)..Len(Everything)}

Parts(s) == {SubSeq(s, i, j) : i \in 1..(Len(s) + 1), j \in 0..Len(s)}

CanSalvage ==
  /\ args.after # <<>>
  /\ args.db \in {"mysql", "postgresql", "oracle"}

Init == log = <<>> /\ state = "running"

Unit ==
  /\ state = "running" /\ state' = state
  /\ \E k \in 0..(Len(Plan) - 1) : log = Whole(k) /\ log' = Whole(k + 1)

Piece ==
  /\ state = "running" /\ state' = state
  /\ Autocommit /\ IsPrefix(log, Everything) /\ log' \in Partial

\* The command is done with its last unit.
Finish ==
  /\ state = "running" /\ state' = "done"
  /\ log = Everything \/ log = Whole(Len(Plan) - 1)
  /\ log' = Everything

Fail == state = "running" /\ state' = "torn" /\ log' = log

Salvage ==
  /\ state = "torn" /\ state' = state /\ CanSalvage
  /\ \E n \in DOMAIN Loaded : \E r \in Parts(RowsOf(n)), a \in Parts(After) :
       log' = log \o r \o a

Stop ==
  /\ state \in {"running", "torn"} /\ state' = "stopped"
  /\ log' = log \/ (Autocommit /\ IsPrefix(log, Everything) /\ log' \in Partial)

Next == Unit \/ Piece \/ Finish \/ Fail \/ Salvage \/ Stop

Spec == Init /\ [][Next]_<<log, state>>

===============================================================================
