------------------------------ MODULE SqlEffects ------------------------------
(***************************************************************************)
(* What csvSql does to a database, as a log of effects: a table created, a *)
(* row inserted, a statement of the user's that wrote something.  The      *)
(* database is external; what it holds and which effects it refuses are    *)
(* read from the log.                                                      *)
(***************************************************************************)
EXTENDS CsvTables

CONSTANTS
  Stems,       \* Stems[f]: the name of file f without its extension
  NullValues   \* spellings of null given by --null-value

ASSUME SqlAssumption ==
  /\ Stems \in Seq(STRING) /\ Len(Stems) = Len(Names)
  /\ NullValues \subseteq Nulls

N == Len(Names)
HasBody(f) == keys[f] # <<>>

\* The connection: none (phrases are printed), an in-memory or a named sqlite3
\* database, and servers by the dialect of their connection string.
InMemory == args.db = "memory"
Autocommit == args.db = "oracle"
Inserting == args.insert \/ (InMemory /\ args.query # <<>>)

Effect(op, name, body) == [op |-> op, name |-> name, body |-> body]
Written(stmt) == Effect("stmt", stmt, <<>>)
Result(s) == IF s = "write" THEN <<Written("write")>> ELSE <<>>

(***************************************************************************)
(* The composer: column types, the table's name, the CREATE TABLE phrase.  *)
(***************************************************************************)
\* The n-th table composed is the n-th name of --tables or the n-th file's stem.
TableName(n) == IF n <= Len(args.tables) THEN args.tables[n] ELSE Stems[n]

\* A column is NOT NULL unless typify() saw a blank in it, or --no-constraints.
TableColumns(f) ==
  [c \in 1..Width(f) |->
     [name |-> Names[f][c],
      not_null |-> args.constraints /\ ~FileTypes(f).blanks[c]]]

\* "VARCHAR requires a length on dialect mysql"
NoLength(f) ==
  /\ args.db = "mysql" /\ ~args.constraints
  /\ \E c \in 1..Width(f) : FileTypes(f).types[c] = "text"

Created(f, name) == Effect("create", name, TableColumns(f))

(***************************************************************************)
(* A row as it is bound to the insert statement.  is_null() knows the      *)
(* built-in spellings only, and does not ask for --blanks.                 *)
(***************************************************************************)
NULL == <<>>
IsNullCell(cell) == Value(cell) \in Nulls \ NullValues
\* num() throws on what is not a number.
NotNumeric(type, cell) ==
  type = "number" /\ ~IsNullCell(cell) /\ Value(cell) \notin Numerals

Bound(type, cell) ==
  IF IsNullCell(cell) THEN NULL
  ELSE IF NotNumeric(type, cell) THEN <<"never bound">>
  ELSE IF type = "number" THEN <<"number", NumberOf[Value(cell)]>>
  ELSE IF type = "bool" THEN <<"bool">>
  ELSE <<"text", Value(cell)>>

BoundRow(f, types, row) ==
  [c \in DOMAIN row |-> [name |-> Names[f][c], value |-> Bound(types[c], row[c])]]
Inserted(f, name, row) == Effect("row", name, BoundRow(f, FileTypes(f).types, row))

(***************************************************************************)
(* The database, given the effects it has seen.  Tables of args.exists     *)
(* were there before, empty, without constraints.                          *)
(***************************************************************************)
Makers(log, name) == {i \in DOMAIN log : log[i].op = "create" /\ log[i].name = name}
Exists(log, name) == name \in args.exists \/ Makers(log, name) # {}
ColumnsOf(log, name) == log[CHOOSE i \in Makers(log, name) : TRUE].body
RowsIn(log, name) == {log[i].body : i \in {j \in DOMAIN log : log[j].op = "row" /\ log[j].name = name}}

ValueIn(row, column) ==
  LET at == {c \in DOMAIN row : row[c].name = column}
  IN  IF at = {} THEN NULL ELSE row[CHOOSE c \in at : TRUE].value

CanCreate(log, f, name) ==
  /\ ~Exists(log, name)
  /\ args.unique # <<>> => \E c \in 1..Width(f) : Names[f][c] = args.unique

\* Preparing the insert statement: the table and the columns it names exist.
CanPrepare(log, f, name) ==
  /\ Exists(log, name)
  /\ Makers(log, name) # {} =>
       \A c \in 1..Width(f) : \E d \in DOMAIN ColumnsOf(log, name) :
         ColumnsOf(log, name)[d].name = Names[f][c]

\* The constraints of the table's own CREATE TABLE phrase.
Accepts(log, effect) ==
  LET columns == ColumnsOf(log, effect.name)
      key(row) == ValueIn(row, args.unique)
  IN  Makers(log, effect.name) # {} =>
        /\ \A d \in DOMAIN columns :
             columns[d].not_null => ValueIn(effect.body, columns[d].name) # NULL
        /\ args.unique # <<>> =>
             \A row \in RowsIn(log, effect.name) :
               key(row) = NULL \/ key(row) # key(effect.body)

===============================================================================
